----------------------------- MODULE AgentRuns -----------------------------
(***************************************************************************)
(* Sub-agent runs of packages/pi-subagents: the manager that admits them,  *)
(* the queue that gives slots to N readers or one writer, and the runner   *)
(* of each child session, from assembly over the prompt to persistence.    *)
(*                                                                         *)
(* JavaScript runs one macrotask at a time with its microtasks, so an      *)
(* action is one macrotask: a call, a timer, an answer of the SDK or of    *)
(* the file system, and everything that runs synchronously or in           *)
(* microtasks after it. Shutdown alone is split, because the order inside  *)
(* its loop matters; nothing else runs until its loop is over.             *)
(***************************************************************************)
EXTENDS Integers, FiniteSets

CONSTANTS
    MaxRuns,          \* bound on the runs that are ever admitted
    maxConcurrency,   \* slots for readers
    Origins           \* who may call stop: a subset of {"user", "caller"}

ASSUME MaxRunsAssumption == MaxRuns \in Nat \ {0}
ASSUME SlotsAssumption == maxConcurrency \in Nat \ {0}
ASSUME OriginsAssumption == Origins \subseteq {"user", "caller"}

VARIABLES
    rec,                  \* rec[r]: the status of the run's record
    access,               \* access[r]: workspaceAccess of the task
    origin,               \* origin[r]: the first cancellation, or "none"
    child,                \* child[r]: where the runner of the session is
    failed,               \* failed[r]: the prompt threw or ended in an error
    asmTimer,             \* asmTimer[r]: assemblyCancelTimer is armed
    grace,                \* grace[r]: the runner's interrupt timer
    cancelling,           \* runs whose task awaits cancelRun before completion
    entry,                \* entry[r]: the terminal entry in the parent transcript
    announced,            \* announced[r]: terminal events emitted for the run
    pendingTasks,         \* runs waiting for a slot; ids grow in queue order
    activeTaskCount,
    hasActiveWriteTask,
    isShuttingDown,
    pass,                 \* runs the shutdown loop has still to cancel
    leaving               \* started and thrown in that loop, slot still held

runVars   == <<rec, access, origin, child, failed, asmTimer, grace, cancelling, entry,
               announced>>
queueVars == <<pendingTasks, activeTaskCount, hasActiveWriteTask>>
stopVars  == <<isShuttingDown, pass, leaving>>
vars      == <<runVars, queueVars, stopVars>>

Runs     == 1..MaxRuns          \* agent ids in the order of createAgentId
Access   == {"read", "write"}
Limits   == {"timeout", "maxTurns"}
Terminal == {"completed", "failed", "cancelled"}
Holding  == {"starting", "running"}

Init ==
    /\ rec = [r \in Runs |-> "none"]
    /\ access = [r \in Runs |-> "read"]
    /\ origin = [r \in Runs |-> "none"]
    /\ child = [r \in Runs |-> "none"]
    /\ failed = [r \in Runs |-> FALSE]
    /\ asmTimer = [r \in Runs |-> FALSE]
    /\ grace = [r \in Runs |-> "idle"]
    /\ cancelling = {}
    /\ entry = [r \in Runs |-> "none"]
    /\ announced = [r \in Runs |-> 0]
    /\ pendingTasks = {}
    /\ activeTaskCount = 0
    /\ hasActiveWriteTask = FALSE
    /\ isShuttingDown = FALSE
    /\ pass = {}
    /\ leaving = {}

\* No synchronous loop is under way, so a new macrotask may begin.
Idle == pass = {} /\ leaving = {}

\* The runs in runningAgentStates: those that stop and shutdown can reach.
Live == {r \in Runs : rec[r] \in {"queued"} \cup Holding}

---------------------------------------------------------------------------
(* The queue. *)

\* canStartTask, with count tasks active and writing if one of them writes.
canStartTask(acc, r, count, writing) ==
    IF acc[r] = "write" THEN count = 0 ELSE ~writing /\ count < maxConcurrency

\* (mutant: readers pass a writer that waits for its slot)
StartsPastWriter(acc, P, count, writing) ==
    LET passing == IF count = 0 THEN P ELSE {r \in P : acc[r] = "read"}
    IN  {r \in passing : \A q \in passing : q <= r =>
            LET ahead == {p \in passing : p < q}
            IN  canStartTask(acc, q, count + Cardinality(ahead),
                             writing \/ \E p \in ahead : acc[p] = "write")}

\* What the loop of drain starts: it takes the head as long as it can start,
\* counting the ones it took before, and stops at the first that cannot.
Starts(acc, P, count, writing) ==
    {r \in P : \A q \in P : q <= r =>
        LET ahead == {p \in P : p < q}
        IN  canStartTask(acc, q, count + Cardinality(ahead),
                         writing \/ \E p \in ahead : acc[p] = "write")}

\* The tasks of R give their slots back (the finally of runTask) and drain runs
\* on the queue P, with the records rc, the runners ch and the counts ann of
\* terminal events. A task that starts after its run was cancelled throws
\* before it assembles a session: its result is applied at once, its slot is
\* given back in a later microtask.
drain(R, P, rc, ch, ann) ==
    LET count   == activeTaskCount - Cardinality(R)
        writing == hasActiveWriteTask /\ \A r \in R : access[r] # "write"
        started == Starts(access', P, count, writing)
        thrown  == {r \in started : origin'[r] # "none"}
    IN  /\ pendingTasks' = P \ started
        /\ activeTaskCount' = count + Cardinality(started)
        /\ hasActiveWriteTask' = (writing \/ \E r \in started : access'[r] = "write")
        /\ rec' = [r \in Runs |-> IF r \in thrown THEN "cancelled"
                                  ELSE IF r \in started THEN "starting" ELSE rc[r]]
        /\ child' = [r \in Runs |-> IF r \in started \ thrown THEN "assembling" ELSE ch[r]]
        /\ announced' = [r \in Runs |-> IF r \in thrown THEN ann[r] + 1 ELSE ann[r]]
        /\ leaving' = (leaving \ R) \cup thrown

\* (mutant: the queue is not drained after a waiting run left it)
cancelTaskQuietly(r) ==
    IF r \in pendingTasks
    THEN /\ pendingTasks' = pendingTasks \ {r}
         /\ rec' = [rec EXCEPT ![r] = "cancelled"]
         /\ announced' = [announced EXCEPT ![r] = @ + 1]
         /\ UNCHANGED <<child, activeTaskCount, hasActiveWriteTask, leaving>>
    ELSE UNCHANGED <<rec, child, announced, queueVars, leaving>>

\* cancelTask: a run that has not started leaves the queue and is cancelled.
cancelTask(r) ==
    IF r \in pendingTasks
    THEN drain({}, pendingTasks \ {r}, [rec EXCEPT ![r] = "cancelled"], child,
               [announced EXCEPT ![r] = @ + 1])
    ELSE UNCHANGED <<rec, child, announced, queueVars, leaving>>

---------------------------------------------------------------------------
(* Cancellation and results. *)

\* (mutant: the last origin wins)
requestLast(R, o) ==
    /\ origin' = [r \in Runs |-> IF r \in R THEN o ELSE origin[r]]
    /\ asmTimer' = [r \in Runs |-> asmTimer[r] \/ (r \in R /\ rec[r] = "starting")]
    /\ grace' = [r \in Runs |->
                    IF r \in R /\ child[r] \in {"prompting", "persisting"} /\ grace[r] = "idle"
                    THEN "armed" ELSE grace[r]]

\* AgentCancellation.request for every run of R: the first origin stays. The
\* listeners of the signal arm the assembly timer or the runner's grace timer.
request(R, o) ==
    LET first == {r \in R : origin[r] = "none"}
    IN  /\ origin' = [r \in Runs |-> IF r \in first THEN o ELSE origin[r]]
        /\ asmTimer' = [r \in Runs |-> asmTimer[r] \/ (r \in first /\ rec[r] = "starting")]
        /\ grace' = [r \in Runs |->
                       IF r \in first /\ child[r] \in {"prompting", "persisting"} /\ grace[r] = "idle"
                       THEN "armed" ELSE grace[r]]

\* The status of interruptedResult and of the result of runToCompletion.
Result(r) ==
    IF origin[r] \in Limits THEN "failed"
    ELSE IF origin[r] # "none" THEN "cancelled"
    ELSE IF failed[r] THEN "failed" ELSE "completed"

\* (mutant: a run the manager has given up is applied again)
settleAgain(r, st, ch) ==
    drain({r}, pendingTasks, [rec EXCEPT ![r] = st], ch, [announced EXCEPT ![r] = @ + 1])

\* The task of r ends with status st, its runner being in ch: applyResult, the
\* finally of the task and that of runTask. A run the manager has given up is
\* not applied again.
settle(r, st, ch) ==
    IF rec[r] \in Holding
    THEN drain({r}, pendingTasks, [rec EXCEPT ![r] = st], ch, [announced EXCEPT ![r] = @ + 1])
    ELSE child' = ch /\ UNCHANGED <<rec, announced, queueVars, leaving>>

---------------------------------------------------------------------------
(* Calls of the launch surfaces. *)

\* Whether r is the next id and start admits it.
admits(r) ==
    /\ Idle
    /\ ~isShuttingDown
    /\ rec[r] = "none"
    /\ \A q \in Runs : q < r => rec[q] # "none"

\* start: the run is admitted, queued, and started in the same call when the
\* queue allows it.
start(r, a) ==
    /\ admits(r)
    /\ access' = [access EXCEPT ![r] = a]
    /\ UNCHANGED <<origin, failed, asmTimer, grace, cancelling, entry, isShuttingDown, pass>>
    /\ drain({}, pendingTasks \cup {r}, [rec EXCEPT ![r] = "queued"], child, announced)

\* start with a signal that is aborted already: the task throws when it starts,
\* or leaves the queue it was the last in; the record is cancelled either way.
startAborted(r, a) ==
    /\ admits(r)
    /\ access' = [access EXCEPT ![r] = a]
    /\ origin' = [origin EXCEPT ![r] = "caller"]
    /\ rec' = [rec EXCEPT ![r] = "cancelled"]
    /\ announced' = [announced EXCEPT ![r] = @ + 1]
    /\ UNCHANGED <<child, failed, asmTimer, grace, cancelling, entry, queueVars, stopVars>>

\* stop, by /agent-stop or an abort of the caller's signal.
stop(r, o) ==
    /\ Idle
    /\ r \in Live
    /\ request({r}, o)
    /\ UNCHANGED <<access, failed, cancelling, entry, isShuttingDown, pass>>
    /\ cancelTask(r)

\* (mutant: the runs that still wait are left to the second loop)
shutdownSignalsStarted == {r \in Live : rec[r] \in Holding}

\* The first loop of shutdown signals these.
shutdownSignals == Live

\* shutdown closes admission and signals every run before it cancels one. A
\* second call finds every run signalled and changes nothing.
shutdown ==
    /\ Idle
    /\ ~isShuttingDown
    /\ isShuttingDown' = TRUE
    /\ request(shutdownSignals, "shutdown")
    /\ pass' = Live
    /\ UNCHANGED <<rec, access, child, failed, cancelling, entry, announced, queueVars, leaving>>

\* One iteration of its second loop: cancelTask may drain the queue and start
\* the tasks behind the one it removes.
shutdownCancels ==
    /\ pass # {}
    /\ UNCHANGED <<access, origin, failed, asmTimer, grace, cancelling, entry, isShuttingDown>>
    /\ LET r == CHOOSE r \in pass : \A q \in pass : r <= q
       IN  pass' = pass \ {r} /\ cancelTask(r)

\* The microtasks after the loop give back the slots of the tasks that threw.
shutdownLeaves ==
    /\ pass = {}
    /\ leaving # {}
    /\ UNCHANGED <<access, origin, failed, asmTimer, grace, cancelling, entry, isShuttingDown, pass>>
    /\ drain(leaving, pendingTasks, rec, child, announced)

---------------------------------------------------------------------------
(* The runner of a child session. *)

\* (mutant: a session assembled after a cancellation is prompted)
assembledAnyway(r) ==
    /\ Idle
    /\ child[r] = "assembling"
    /\ child' = [child EXCEPT ![r] = "prompting"]
    /\ grace' = [grace EXCEPT ![r] = IF origin[r] = "none" THEN "idle" ELSE "armed"]
    /\ rec' = [rec EXCEPT ![r] = IF @ = "starting" THEN "running" ELSE @]
    /\ asmTimer' = [asmTimer EXCEPT ![r] = FALSE]
    /\ UNCHANGED <<access, origin, failed, cancelling, entry, announced, queueVars, stopVars>>

\* createSession resolved. A cancelled run is not prompted: its session is
\* aborted, its runner goes on to persist it, and the task, unless the manager
\* has given the run up already, awaits cancelRun before it awaits completion.
assembled(r) ==
    /\ Idle
    /\ child[r] = "assembling"
    /\ child' = [child EXCEPT ![r] = IF origin[r] = "none" THEN "prompting" ELSE "persisting"]
    /\ grace' = [grace EXCEPT ![r] = IF origin[r] = "none" THEN "idle" ELSE "armed"]
    /\ cancelling' = IF origin[r] # "none" /\ rec[r] = "starting"
                     THEN cancelling \cup {r} ELSE cancelling
    /\ rec' = [rec EXCEPT ![r] = IF @ = "starting" THEN "running" ELSE @]
    /\ asmTimer' = [asmTimer EXCEPT ![r] = FALSE]
    /\ UNCHANGED <<access, origin, failed, entry, announced, queueVars, stopVars>>

\* createSession threw.
assemblyFailed(r) ==
    /\ Idle
    /\ child[r] = "assembling"
    /\ asmTimer' = [asmTimer EXCEPT ![r] = FALSE]
    /\ UNCHANGED <<access, origin, failed, grace, cancelling, entry, isShuttingDown, pass>>
    /\ settle(r, IF origin[r] = "none" THEN "failed" ELSE Result(r),
              [child EXCEPT ![r] = "ended"])

\* ASSEMBLY_CANCEL_SETTLE_TIMEOUT after a cancellation the manager stops
\* waiting; the session may still be assembled later.
assemblyTimeout(r) ==
    /\ Idle
    /\ asmTimer[r]
    /\ asmTimer' = [asmTimer EXCEPT ![r] = FALSE]
    /\ UNCHANGED <<access, origin, failed, grace, cancelling, entry, isShuttingDown, pass>>
    /\ settle(r, Result(r), child)

\* prompt() settled: with an answer, with an error answer, or by throwing.
promptEnds(r, error) ==
    /\ Idle
    /\ child[r] = "prompting"
    /\ child' = [child EXCEPT ![r] = "persisting"]
    /\ failed' = [failed EXCEPT ![r] = error]
    /\ UNCHANGED <<rec, access, origin, asmTimer, grace, cancelling, entry, announced,
                   queueVars, stopVars>>

\* The runner's own limits: turn_end number maxTurns, or timeoutMs, whose timer
\* runs until the run has completed.
limit(r, o) ==
    /\ Idle
    /\ child[r] \in IF o = "maxTurns" THEN {"prompting"} ELSE {"prompting", "persisting"}
    /\ request({r}, o)
    /\ UNCHANGED <<rec, access, child, failed, cancelling, entry, announced, queueVars, stopVars>>

\* (mutant: the runner goes on waiting for the turn)
graceElapsedWaiting(r) ==
    /\ Idle
    /\ grace[r] = "armed"
    /\ grace' = [grace EXCEPT ![r] = "over"]
    /\ UNCHANGED <<rec, access, origin, child, failed, asmTimer, cancelling, entry, announced,
                   queueVars, stopVars>>

\* settleBound: the runner stops waiting for a turn that ignores the abort, and
\* cancelRun for an abort() that does not settle.
graceElapsed(r) ==
    /\ Idle
    /\ grace[r] = "armed"
    /\ grace' = [grace EXCEPT ![r] = "over"]
    /\ child' = [child EXCEPT ![r] = IF @ = "prompting" THEN "persisting" ELSE @]
    /\ cancelling' = cancelling \ {r}
    /\ UNCHANGED <<rec, access, origin, failed, asmTimer, entry, announced, queueVars, stopVars>>

\* persistChildSession returned or threw: the result is decided now, written to
\* the parent transcript (onCompleted) and handed to the task, and dispose clears
\* the grace timer: a task that still awaits cancelRun has only abort() to wait for.
persisted(r) ==
    /\ Idle
    /\ child[r] = "persisting"
    /\ entry' = [entry EXCEPT ![r] = Result(r)]
    /\ grace' = [grace EXCEPT ![r] = "over"]
    /\ UNCHANGED <<access, origin, failed, asmTimer, cancelling, isShuttingDown, pass>>
    /\ LET ended == [child EXCEPT ![r] = "ended"]
       IN  IF r \in cancelling
           THEN child' = ended /\ UNCHANGED <<rec, announced, queueVars, leaving>>
           ELSE settle(r, Result(r), ended)

\* abort() of the session settled: cancelRun returns, and the task applies the
\* completion if there is one.
abortSettles(r) ==
    /\ Idle
    /\ r \in cancelling
    /\ cancelling' = cancelling \ {r}
    /\ UNCHANGED <<access, origin, failed, asmTimer, grace, entry, isShuttingDown, pass>>
    /\ IF child[r] = "ended" THEN settle(r, Result(r), child)
                             ELSE UNCHANGED <<rec, child, announced, queueVars, leaving>>

---------------------------------------------------------------------------

Next ==
    \/ \E r \in Runs :
         \/ \E a \in Access : start(r, a) \/ startAborted(r, a)
         \/ \E o \in Origins : stop(r, o)
         \/ assembled(r) \/ assemblyFailed(r) \/ assemblyTimeout(r)
         \/ \E error \in BOOLEAN : promptEnds(r, error)
         \/ \E o \in Limits : limit(r, o)
         \/ graceElapsed(r) \/ persisted(r) \/ abortSettles(r)
    \/ shutdown \/ shutdownCancels \/ shutdownLeaves

Spec == Init /\ [][Next]_vars

\* Only what the process itself guarantees is fair: its timers, the rest of a
\* loop, and the end of a best-effort file write. The SDK may assemble a
\* session, end a turn or settle an abort() late or never.
Fairness ==
    /\ WF_vars(shutdownCancels \/ shutdownLeaves)
    /\ \A r \in Runs : WF_vars(assemblyTimeout(r)) /\ WF_vars(graceElapsed(r)) /\ WF_vars(persisted(r))

FairSpec == Spec /\ Fairness

---------------------------------------------------------------------------

\* Records, runners, timers and the queue have their types; a record's status is
\* never the reason of a cancellation.
TypeOK ==
    /\ rec \in [Runs -> {"none", "queued"} \cup Holding \cup Terminal]
    /\ access \in [Runs -> Access]
    /\ origin \in [Runs -> {"none", "shutdown"} \cup Origins \cup {"caller"} \cup Limits]
    /\ child \in [Runs -> {"none", "assembling", "prompting", "persisting", "ended"}]
    /\ failed \in [Runs -> BOOLEAN]
    /\ asmTimer \in [Runs -> BOOLEAN]
    /\ grace \in [Runs -> {"idle", "armed", "over"}]
    /\ cancelling \subseteq Runs
    /\ entry \in [Runs -> {"none"} \cup Terminal]
    /\ announced \in [Runs -> Nat]
    /\ pendingTasks \subseteq Runs
    /\ activeTaskCount \in Int
    /\ hasActiveWriteTask \in BOOLEAN
    /\ isShuttingDown \in BOOLEAN
    /\ pass \subseteq Runs
    /\ leaving \subseteq Runs

\* The runs that hold a slot of the queue.
Holders == {r \in Runs : rec[r] \in Holding} \cup leaving

\* The counters of the queue are those of the runs that hold a slot, through
\* every cancellation, failure, late assembly and shutdown (concurrencyQueue.ts
\* drain and runTask): no slot leaks and none is given back twice.
SlotsExact ==
    /\ activeTaskCount = Cardinality(Holders)
    /\ hasActiveWriteTask <=> \E r \in Holders : access[r] = "write"
    /\ pendingTasks = {r \in Runs : rec[r] = "queued"}

\* A child session that may write the workspace never has its turn while
\* another one is waited for, even when its assembly comes after the manager
\* gave the run up and its slot away.
WriterAlone ==
    \A r, q \in Runs :
        child[r] = "prompting" /\ child[q] = "prompting" /\ access[r] = "write" => r = q

\* No wake-up is lost: between macrotasks the head of the queue is a run that
\* cannot start (drain runs after every enqueue, cancel and release).
NoLostWakeup ==
    Idle => \A r \in pendingTasks :
        \/ \E q \in pendingTasks : q < r
        \/ ~canStartTask(access, r, activeTaskCount, hasActiveWriteTask)

\* The record, the cancellation and the entry in the parent transcript tell the
\* same story: a run interrupted by its limits failed, any other interrupted
\* run is cancelled, an uninterrupted one never is, a transcript entry, written by
\* a runner the manager may no longer wait for, or not yet, is what the record is
\* or will be, and the terminal event is emitted exactly once, when the record
\* becomes final (applyResult).
OutcomesAgree ==
    \A r \in Runs :
        /\ rec[r] \in Terminal =>
             /\ origin[r] \in Limits => rec[r] = "failed"
             /\ rec[r] = "cancelled" <=> origin[r] \notin Limits \cup {"none"}
        /\ entry[r] # "none" =>
             /\ entry[r] = IF rec[r] \in Terminal THEN rec[r] ELSE Result(r)
             /\ rec[r] \in Terminal \/ r \in cancelling
        /\ announced[r] = IF rec[r] \in Terminal THEN 1 ELSE 0

\* Once shutdown has closed admission no child session is begun, although
\* cancelling one queued run can let the queue start those behind it, and no
\* session that is still being assembled is prompted.
ClosedForGood ==
    [][isShuttingDown => \A r \in Runs :
         /\ child'[r] = "assembling" => child[r] = "assembling"
         /\ child'[r] = "prompting" => child[r] = "prompting"]_vars

\* The queue is first come first served: a run that gets a slot overtakes no
\* run that goes on waiting, so readers cannot starve a writer.
NoOvertaking ==
    [][\A r, q \in Runs :
          q < r /\ q \in pendingTasks' /\ rec'[r] = "starting" => rec[r] = "starting"]_vars

\* The task of r awaits abort() and nothing else: its session was assembled after
\* the cancellation, never prompted, persisted, and its grace timer is disposed of.
AwaitsAbort(r) == r \in cancelling /\ child[r] = "ended"

\* An interrupted run always ends and its slot comes back, even when its session is
\* never assembled, its turn never settles or ignores the abort. The timers alone
\* see to it but for one case, the premise: a run cancelled in assembly whose
\* runner has already completed waits for abort() of its unprompted session
\* (agentManager.ts:302, agentRunner.ts:164, 177).
InterruptedRunsEnd ==
    \A r \in Runs :
        []<>~AwaitsAbort(r) => ((origin[r] # "none") ~> (rec[r] \in Terminal))

===========================================================================
