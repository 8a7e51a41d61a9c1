------------------------------ MODULE JobQueue ------------------------------
(***************************************************************************)
(* The relay's job queue: apps/relay/internal/jobqueue.                    *)
(*                                                                         *)
(* Manager keeps the runs it was asked to dispatch, sends each one to its  *)
(* node as a job.run notification, and follows it through acknowledgement  *)
(* and result, with a timer for each wait and a bounded number of retries. *)
(* Every method is a sequence of critical sections under Manager.mu with   *)
(* unlocked gaps between them (the send, the call to IsOnline, the arming  *)
(* of a timer).  One critical section is one action here, and a goroutine  *)
(* that is in a gap is a record in the variable thread.                    *)
(*                                                                         *)
(* A run is a *PendingRun.  After PruneCompleted the same run ID can be    *)
(* dispatched again and becomes a new object, while goroutines may still   *)
(* hold a pointer to the old one; an object is therefore a pair            *)
(* <<run ID, incarnation>>.                                                *)
(*                                                                         *)
(* The transport (SessionManager) is seen through module NodeTransport:    *)
(* the interface's two methods and the session events server.go forwards.  *)
(***************************************************************************)
EXTENDS Integers, FiniteSets

CONSTANTS RunIDs,           \* the run IDs callers dispatch
          Nodes,            \* the nodes runs are dispatched to
          Bodies,           \* job ID, scheduled time and payload digest of a dispatch
          Goroutines,       \* bound: goroutines inside the queue at one time
          MaxRetries,       \* Config.MaxRetries
          MaxIncarnations,  \* bound: objects created for one run ID
          MaxPendingEvents  \* bound: undelivered session events of one kind per node

ASSUME MaxRetriesAssumption == MaxRetries \in Nat
ASSUME BoundsAssumption == MaxIncarnations \in Nat /\ MaxPendingEvents \in Nat
ASSUME FinitenessAssumption == IsFiniteSet(RunIDs)

Runs == RunIDs \X (1..MaxIncarnations)

Statuses == {"none", "dispatching", "awaiting_ack", "awaiting_result", "retrying",
             "completed", "failed", "rejected", "skipped_offline"}
Active   == {"dispatching", "awaiting_ack", "awaiting_result", "retrying"}
Terminal == {"completed", "failed", "rejected", "skipped_offline"}

Gauges == {"pendingDepth", "awaitingAck", "awaitingResult", "totalDispatched", "totalCompleted",
           "totalFailed", "totalRetries", "totalSkippedOffline"}

\* What Dispatch answers. A dispatch it refuses as invalid_payload changes nothing
\* and is left out.
Answers == {"ok", "node_offline", "conflict"}

VARIABLES
  runs,          \* Manager.runs: the incarnation a run ID maps to, 0 when absent
  created,       \* number of objects created so far for a run ID
  status,        \* PendingRun.Status, "none" before the object exists
  params,        \* the identity of a run: <<NodeID, JobID + ScheduledFor + payloadHash>>
  attempts,      \* PendingRun.Attempts, and attemptGeneration: they always move together
  ackTimers,     \* Manager.ackTimers
  resultTimers,  \* Manager.resultTimers
  metrics,       \* Manager.metrics
  thread,        \* goroutines between two critical sections of a queue method
  delivered,     \* <<node, run ID>> pairs whose job.run was written to the node's socket
  answers,       \* history: <<object, answer>> pairs returned to callers of Dispatch
  online,        \* what NodeTransport.IsOnline answers
  ups,           \* "connected" events not yet handed to the queue
  downs          \* "disconnected" and "replaced" events not yet handed to the queue

queueVars     == <<runs, created, status, params, attempts, ackTimers,
                   resultTimers, metrics, answers>>
transportVars == <<online, ups, downs>>
vars          == <<queueVars, thread, delivered, transportVars>>

Transport == INSTANCE NodeTransport

-----------------------------------------------------------------------------
(* Objects, timers and goroutines                                          *)

Current(r)   == <<r, runs[r]>>
NodeOf(o)    == params[o][1]
Tracked(o)   == runs[o[1]] = o[2]
InStatus(s)  == {o \in Runs : status[o] = s}

\* nodeRunIDs: the runsByNode index names exactly the tracked runs of a node.
NodeRuns(n) == {o \in Runs : Tracked(o) /\ NodeOf(o) = n}

\* A timer entry remembers which object and attempt its callback was created for.
\* armed is FALSE once the callback goroutine has started.
NoTimer         == [run |-> 0, gen |-> 0, armed |-> FALSE]
Timer(o, gen)   == [run |-> o[2], gen |-> gen, armed |-> TRUE]
Fired(t)        == [run |-> t.run, gen |-> t.gen, armed |-> FALSE]

\* kind: who runs the code.  todo: the runs its loop has still to visit.
NoRun == <<"none", 0>>
Idle == [pc |-> "idle", kind |-> "none", run |-> NoRun, gen |-> 0, todo |-> {}]
At(pc, kind, o, gen, todo) == [pc |-> pc, kind |-> kind, run |-> o, gen |-> gen, todo |-> todo]

Goto(g, pc, gen) ==
    thread' = [thread EXCEPT ![g] = At(pc, thread[g].kind, thread[g].run, gen, thread[g].todo)]

\* A goroutine leaves the run it is working on: its loop goes on, or it ends.
LoopEntry(kind) == IF kind = "reconnect" THEN "claim" ELSE "retry"
EnterLoop(g, kind, S) ==
    \/ /\ S = {}
       /\ thread' = [thread EXCEPT ![g] = Idle]
    \/ \E o \in S : thread' = [thread EXCEPT ![g] = At(LoopEntry(kind), kind, o, 0, S \ {o})]
LeaveRun(g) == EnterLoop(g, thread[g].kind, thread[g].todo)

\* Only the HTTP handler behind Dispatch returns a DispatchResult to anybody.
Reply(g, o, answer) ==
    answers' = IF thread[g].kind = "dispatch" THEN answers \union {<<o, answer>>} ELSE answers

SetStatus(o, s) == status' = [status EXCEPT ![o] = s]

-----------------------------------------------------------------------------
Init ==
    /\ runs = [r \in RunIDs |-> 0]
    /\ created = [r \in RunIDs |-> 0]
    /\ status = [o \in Runs |-> "none"]
    /\ params = [o \in Runs |-> <<>>]
    /\ attempts = [o \in Runs |-> 0]
    /\ ackTimers = [r \in RunIDs |-> NoTimer]
    /\ resultTimers = [r \in RunIDs |-> NoTimer]
    /\ metrics = [m \in Gauges |-> 0]
    /\ thread = [g \in Goroutines |-> Idle]
    /\ delivered = {}
    /\ answers = {}
    /\ Transport!Init

-----------------------------------------------------------------------------
(* Dispatch: the HTTP handler's call                                       *)

\* Dispatch finds the run ID in the map: redeliveryResult, nothing changes.
\* (mutant: a queued retry is taken for offline)
redeliveryResultEager(o, n, b) ==
    IF params[o] # <<n, b>> THEN "conflict"
    ELSE IF status[o] \in {"skipped_offline", "retrying"} THEN "node_offline" ELSE "ok"
redeliveryResult(o, n, b) ==
    IF params[o] # <<n, b>> THEN "conflict"
    ELSE IF status[o] = "skipped_offline" THEN "node_offline" ELSE "ok"

Redeliver(r, n, b) ==
    /\ runs[r] # 0
    /\ answers' = answers \union {<<Current(r), redeliveryResult(Current(r), n, b)>>}
    /\ UNCHANGED <<runs, created, status, params, attempts, ackTimers, resultTimers, metrics,
                   thread, delivered, transportVars>>

\* Dispatch of an unknown run ID: createRunLocked and IsOnline in one critical section.
Dispatch(g, r, n, b) ==
    LET o == <<r, created[r] + 1>> IN
    /\ thread[g] = Idle
    /\ runs[r] = 0
    /\ created[r] < MaxIncarnations
    /\ created' = [created EXCEPT ![r] = @ + 1]
    /\ runs' = [runs EXCEPT ![r] = created[r] + 1]
    /\ SetStatus(o, "dispatching")
    /\ params' = [params EXCEPT ![o] = <<n, b>>]
    /\ metrics' = [metrics EXCEPT !["pendingDepth"] = @ + 1]
    /\ thread' = [thread EXCEPT ![g] =
                    At(IF online[n] THEN "claim" ELSE "skip", "dispatch", o, 0, {})]
    /\ UNCHANGED <<attempts, ackTimers, resultTimers, answers, delivered, transportVars>>

\* A disconnect may have claimed the run between Dispatch's unlock and this lock.
skipOffline(g) ==
    LET o == thread[g].run IN
    /\ thread[g].pc = "skip"
    /\ \/ /\ status[o] # "dispatching"
          /\ Reply(g, o, "ok")
          /\ UNCHANGED <<status, metrics>>
       \/ /\ status[o] = "dispatching"
          /\ SetStatus(o, "skipped_offline")
          /\ metrics' = [metrics EXCEPT !["pendingDepth"] = @ - 1, !["totalSkippedOffline"] = @ + 1]
          /\ Reply(g, o, "node_offline")
    /\ LeaveRun(g)
    /\ UNCHANGED <<runs, created, params, attempts, ackTimers, resultTimers,
                   delivered, transportVars>>

-----------------------------------------------------------------------------
(* attemptDispatch: claim, send, then arm the ack timer or give up         *)

ExpectedStatus(kind) == IF kind = "dispatch" THEN "dispatching" ELSE "retrying"

claimDispatchLocked(g) ==
    LET o == thread[g].run IN
    /\ thread[g].pc = "claim"
    /\ \/ /\ status[o] # ExpectedStatus(thread[g].kind)
          /\ Reply(g, o, "ok")
          /\ LeaveRun(g)
          /\ UNCHANGED <<status, attempts, metrics>>
       \/ /\ status[o] = ExpectedStatus(thread[g].kind)
          /\ attempts' = [attempts EXCEPT ![o] = @ + 1]
          /\ SetStatus(o, "awaiting_ack")
          /\ metrics' = [metrics EXCEPT !["totalDispatched"] = @ + 1, !["awaitingAck"] = @ + 1]
          /\ Goto(g, "send", attempts[o] + 1)
          /\ UNCHANGED answers
    /\ UNCHANGED <<runs, created, params, ackTimers, resultTimers, delivered, transportVars>>

\* SendNotificationWithError: fails when the node is offline, and may fail when it is not.
send(g) ==
    LET o == thread[g].run IN
    /\ thread[g].pc = "send"
    /\ \/ /\ online[NodeOf(o)]
          /\ delivered' = delivered \union {<<NodeOf(o), o[1]>>}
          /\ Goto(g, "arm", thread[g].gen)
       \/ /\ Goto(g, "fail", thread[g].gen)
          /\ UNCHANGED delivered
    /\ UNCHANGED <<queueVars, transportVars>>

\* The attempt this goroutine claimed is still the one being waited for.
\* (mutant: the generation check is dropped)
SameAttemptAnyGeneration(g) == status[thread[g].run] = "awaiting_ack"
SameAttempt(g) ==
    status[thread[g].run] = "awaiting_ack" /\ attempts[thread[g].run] = thread[g].gen

handleDispatchFailure(g) ==
    LET o == thread[g].run IN
    /\ thread[g].pc = "fail"
    /\ \/ /\ ~SameAttempt(g)
          /\ Reply(g, o, "ok")
          /\ UNCHANGED <<status, metrics>>
       \/ /\ SameAttempt(g)
          /\ SetStatus(o, "skipped_offline")
          /\ metrics' = [metrics EXCEPT !["pendingDepth"] = @ - 1, !["awaitingAck"] = @ - 1,
                                        !["totalSkippedOffline"] = @ + 1]
          /\ Reply(g, o, "node_offline")
    /\ LeaveRun(g)
    /\ UNCHANGED <<runs, created, params, attempts, ackTimers, resultTimers,
                   delivered, transportVars>>

startAckTimer(g) ==
    LET o == thread[g].run IN
    /\ thread[g].pc = "arm"
    /\ ackTimers' = IF SameAttempt(g)
                    THEN [ackTimers EXCEPT ![o[1]] = Timer(o, thread[g].gen)]
                    ELSE ackTimers
    /\ Reply(g, o, "ok")
    /\ LeaveRun(g)
    /\ UNCHANGED <<runs, created, status, params, attempts, resultTimers, metrics,
                   delivered, transportVars>>

-----------------------------------------------------------------------------
(* Retries                                                                 *)

\* claimRetryLocked for every run of claimed, and the failure of every run of lost
\* (handleDisconnectedRunLocked's second case), in one critical section.
\* (mutant: the awaiting-ack gauge is lowered for every claimed run)
AckingAll(S)     == S
Exhausted(S) == {o \in S : attempts[o] >= MaxRetries}
Retried(S)   == S \ Exhausted(S)
Acking(S)    == S \intersect InStatus("awaiting_ack")

ClaimRetries(claimed, lost) ==
    LET failed == Exhausted(claimed) \union lost IN
    /\ status' = [o \in Runs |-> IF o \in failed THEN "failed"
                                 ELSE IF o \in claimed THEN "retrying" ELSE status[o]]
    /\ ackTimers' = [r \in RunIDs |-> IF Current(r) \in claimed THEN NoTimer ELSE ackTimers[r]]
    /\ resultTimers' = [r \in RunIDs |-> IF Current(r) \in lost THEN NoTimer ELSE resultTimers[r]]
    /\ metrics' = [metrics EXCEPT !["pendingDepth"] = @ - Cardinality(failed),
                                  !["awaitingAck"] = @ - Cardinality(Acking(claimed)),
                                  !["awaitingResult"] = @ - Cardinality(lost),
                                  !["totalFailed"] = @ + Cardinality(failed),
                                  !["totalRetries"] = @ + Cardinality(Retried(claimed))]

\* dispatchRetry: an offline node leaves the run "retrying" for HandleNodeReconnect.
dispatchRetry(g) ==
    /\ thread[g].pc = "retry"
    /\ \/ /\ online[NodeOf(thread[g].run)]
          /\ Goto(g, "claim", 0)
       \/ /\ ~online[NodeOf(thread[g].run)]
          /\ LeaveRun(g)
    /\ UNCHANGED <<queueVars, delivered, transportVars>>

\* time.AfterFunc starts the callback in a goroutine of its own.
AckTimerFires(g, r) ==
    /\ thread[g] = Idle
    /\ ackTimers[r].armed
    /\ ackTimers' = [ackTimers EXCEPT ![r] = Fired(@)]
    /\ thread' = [thread EXCEPT ![g] =
                    At("ackTimeout", "retry", <<r, ackTimers[r].run>>, ackTimers[r].gen, {})]
    /\ UNCHANGED <<runs, created, status, params, attempts, resultTimers, metrics, answers,
                   delivered, transportVars>>

handleAckTimeout(g) ==
    LET o == thread[g].run IN
    /\ thread[g].pc = "ackTimeout"
    /\ \/ /\ ~SameAttempt(g)
          /\ LeaveRun(g)
          /\ UNCHANGED <<status, ackTimers, resultTimers, metrics>>
       \/ /\ SameAttempt(g)
          /\ ClaimRetries({o}, {})
          /\ EnterLoop(g, "retry", Retried({o}))
    /\ UNCHANGED <<runs, created, params, attempts, answers, delivered, transportVars>>

ResultTimerFires(g, r) ==
    /\ thread[g] = Idle
    /\ resultTimers[r].armed
    /\ resultTimers' = [resultTimers EXCEPT ![r] = Fired(@)]
    /\ thread' = [thread EXCEPT ![g] =
                    At("resultTimeout", "timer", <<r, resultTimers[r].run>>, 0, {})]
    /\ UNCHANGED <<runs, created, status, params, attempts, ackTimers, metrics, answers,
                   delivered, transportVars>>

\* (mutant: the timeout does not look whether the result has arrived)
handleResultTimeoutBlind(g) ==
    /\ thread[g].pc = "resultTimeout"
    /\ SetStatus(thread[g].run, "failed")
    /\ LeaveRun(g)
    /\ UNCHANGED <<runs, created, params, attempts, ackTimers, resultTimers, metrics, answers,
                   delivered, transportVars>>

handleResultTimeout(g) ==
    LET o == thread[g].run IN
    /\ thread[g].pc = "resultTimeout"
    /\ \/ /\ status[o] # "awaiting_result"
          /\ UNCHANGED <<status, resultTimers, metrics>>
       \/ /\ status[o] = "awaiting_result"
          /\ SetStatus(o, "failed")
          /\ resultTimers' = [resultTimers EXCEPT ![o[1]] = NoTimer]
          /\ metrics' = [metrics EXCEPT !["pendingDepth"] = @ - 1, !["awaitingResult"] = @ - 1,
                                        !["totalFailed"] = @ + 1]
    /\ LeaveRun(g)
    /\ UNCHANGED <<runs, created, params, attempts, ackTimers, answers, delivered, transportVars>>

-----------------------------------------------------------------------------
(* Messages from a node: a node answers a run ID it received a job.run for, *)
(* at any later time and any number of times (a retried job.run is answered *)
(* again, and an answer may be overtaken by a timeout or a reconnect).      *)

\* HandleAck, accepted.  The result timer is armed in a second critical section.
HandleAckAccepted(g, n, r) ==
    LET o == Current(r) IN
    /\ thread[g] = Idle
    /\ <<n, r>> \in delivered
    /\ runs[r] # 0 /\ NodeOf(o) = n
    /\ status[o] = "awaiting_ack"
    /\ SetStatus(o, "awaiting_result")
    /\ ackTimers' = [ackTimers EXCEPT ![r] = NoTimer]
    /\ metrics' = [metrics EXCEPT !["awaitingAck"] = @ - 1, !["awaitingResult"] = @ + 1]
    /\ thread' = [thread EXCEPT ![g] = At("armResult", "ack", o, 0, {})]
    /\ UNCHANGED <<runs, created, params, attempts, resultTimers, answers, delivered, transportVars>>

\* (mutant: the timer is not armed)
startResultTimerNever(g) ==
    /\ thread[g].pc = "armResult"
    /\ LeaveRun(g)
    /\ UNCHANGED <<queueVars, delivered, transportVars>>

startResultTimer(g) ==
    LET o == thread[g].run IN
    /\ thread[g].pc = "armResult"
    /\ resultTimers' = IF status[o] = "awaiting_result"
                       THEN [resultTimers EXCEPT ![o[1]] = Timer(o, 0)]
                       ELSE resultTimers
    /\ LeaveRun(g)
    /\ UNCHANGED <<runs, created, status, params, attempts, ackTimers, metrics, answers,
                   delivered, transportVars>>

HandleAckRejected(n, r) ==
    LET o == Current(r) IN
    /\ <<n, r>> \in delivered
    /\ runs[r] # 0 /\ NodeOf(o) = n
    /\ status[o] = "awaiting_ack"
    /\ SetStatus(o, "rejected")
    /\ ackTimers' = [ackTimers EXCEPT ![r] = NoTimer]
    /\ metrics' = [metrics EXCEPT !["pendingDepth"] = @ - 1, !["awaitingAck"] = @ - 1,
                                  !["totalFailed"] = @ + 1]
    /\ UNCHANGED <<runs, created, params, attempts, resultTimers, answers, thread,
                   delivered, transportVars>>

\* HandleResult: only a run that is awaiting its result takes one.
HandleResult(n, r, ok) ==
    LET o == Current(r) IN
    /\ <<n, r>> \in delivered
    /\ runs[r] # 0 /\ NodeOf(o) = n
    /\ status[o] = "awaiting_result"
    /\ SetStatus(o, IF ok THEN "completed" ELSE "failed")
    /\ resultTimers' = [resultTimers EXCEPT ![r] = NoTimer]
    /\ metrics' = [metrics EXCEPT !["pendingDepth"] = @ - 1, !["awaitingResult"] = @ - 1,
                                  ![IF ok THEN "totalCompleted" ELSE "totalFailed"] = @ + 1]
    /\ UNCHANGED <<runs, created, params, attempts, ackTimers, answers, thread,
                   delivered, transportVars>>

-----------------------------------------------------------------------------
(* Session events, as NewServer wires them                                 *)

HandleNodeDisconnect(g, n) ==
    LET claimed == NodeRuns(n) \intersect (InStatus("awaiting_ack") \union InStatus("dispatching"))
        lost    == NodeRuns(n) \intersect InStatus("awaiting_result")
    IN
    /\ thread[g] = Idle
    /\ Transport!TakeDown(n)
    /\ ClaimRetries(claimed, lost)
    /\ EnterLoop(g, "retry", Retried(claimed))
    /\ UNCHANGED <<runs, created, params, attempts, answers, delivered>>

HandleNodeReconnect(g, n) ==
    /\ thread[g] = Idle
    /\ Transport!TakeUp(n)
    /\ EnterLoop(g, "reconnect", NodeRuns(n) \intersect InStatus("retrying"))
    /\ UNCHANGED <<queueVars, delivered>>

\* PruneCompleted: which finished runs are older than the cutoff is left open.
PruneCompleted(S) ==
    /\ S # {}
    /\ runs' = [r \in RunIDs |-> IF Current(r) \in S THEN 0 ELSE runs[r]]
    /\ UNCHANGED <<created, status, params, attempts, ackTimers, resultTimers, metrics,
                   answers, thread, delivered, transportVars>>

Prunable == {o \in Runs : Tracked(o) /\ status[o] \in Terminal}

-----------------------------------------------------------------------------
(* The transport: SessionManager as the queue sees it.                     *)

NodeUp(n)         == Transport!NodeUp(n) /\ UNCHANGED <<queueVars, thread, delivered>>
NodeDown(n)       == Transport!NodeDown(n) /\ UNCHANGED <<queueVars, thread, delivered>>
OldSessionDown(n) == Transport!OldSessionDown(n) /\ UNCHANGED <<queueVars, thread, delivered>>

-----------------------------------------------------------------------------
\* What a goroutine does next once it is inside a queue method.
Step(g) ==
    \/ skipOffline(g)
    \/ claimDispatchLocked(g)
    \/ send(g)
    \/ startAckTimer(g)
    \/ handleDispatchFailure(g)
    \/ dispatchRetry(g)
    \/ handleAckTimeout(g)
    \/ startResultTimer(g)
    \/ handleResultTimeout(g)

\* What the runtime and the session manager start on their own.
AckTimer(r)      == \E g \in Goroutines : AckTimerFires(g, r)
ResultTimer(r)   == \E g \in Goroutines : ResultTimerFires(g, r)
DownDelivered(n) == \E g \in Goroutines : HandleNodeDisconnect(g, n)
UpDelivered(n)   == \E g \in Goroutines : HandleNodeReconnect(g, n)

Next ==
    \/ \E g \in Goroutines : Step(g)
    \/ \E r \in RunIDs : AckTimer(r) \/ ResultTimer(r)
    \/ \E n \in Nodes : DownDelivered(n) \/ UpDelivered(n)
    \/ \E r \in RunIDs, n \in Nodes, b \in Bodies :
          Redeliver(r, n, b) \/ \E g \in Goroutines : Dispatch(g, r, n, b)
    \/ \E r \in RunIDs, n \in Nodes :
          \/ \E g \in Goroutines : HandleAckAccepted(g, n, r)
          \/ HandleAckRejected(n, r)
          \/ \E ok \in BOOLEAN : HandleResult(n, r, ok)
    \/ \E S \in SUBSET Prunable : PruneCompleted(S)
    \/ \E n \in Nodes : NodeUp(n) \/ NodeDown(n) \/ OldSessionDown(n)

Spec == Init /\ [][Next]_vars

\* Goroutines run, timers fire and events are delivered.  Nothing is assumed of callers
\* or nodes.  Strong fairness where a goroutine is started: the bound on their number is
\* the model's, the Go runtime does not refuse one.
Fairness ==
    /\ \A g \in Goroutines : WF_vars(Step(g))
    /\ \A r \in RunIDs : SF_vars(AckTimer(r)) /\ SF_vars(ResultTimer(r))
    /\ \A n \in Nodes : SF_vars(DownDelivered(n)) /\ SF_vars(UpDelivered(n))

FairSpec == Spec /\ Fairness

-----------------------------------------------------------------------------
(* Properties                                                              *)

TimerType(gens) == [run : 0..MaxIncarnations, gen : gens, armed : BOOLEAN]
PCs   == {"idle", "skip", "claim", "send", "arm", "fail", "retry", "ackTimeout",
          "armResult", "resultTimeout"}
Kinds == {"none", "dispatch", "retry", "reconnect", "ack", "timer"}
ThreadType == [pc : PCs, kind : Kinds, run : Runs \union {NoRun}, gen : Nat, todo : SUBSET Runs]

\* Every field of Manager, of a PendingRun and of a goroutine's locals has its type.
TypeOK ==
    /\ runs \in [RunIDs -> 0..MaxIncarnations]
    /\ created \in [RunIDs -> 0..MaxIncarnations]
    /\ status \in [Runs -> Statuses]
    /\ params \in [Runs -> (Nodes \X Bodies) \union {<<>>}]
    /\ attempts \in [Runs -> Nat]
    /\ ackTimers \in [RunIDs -> TimerType(Nat)]
    /\ resultTimers \in [RunIDs -> TimerType({0})]
    /\ metrics \in [Gauges -> Int]
    /\ thread \in [Goroutines -> ThreadType]
    /\ delivered \subseteq Nodes \X RunIDs
    /\ answers \subseteq Runs \X Answers
    /\ online \in [Nodes -> BOOLEAN]
    /\ ups \in [Nodes -> 0..MaxPendingEvents]
    /\ downs \in [Nodes -> 0..MaxPendingEvents]

\* The bookkeeping the proofs rest on: a run ID maps to its latest object or to none;
\* objects exist in creation order and have their identity; a goroutine that is inside
\* the queue works on existing objects, and only the two retry loops have a list.
ObjectsInOrder ==
    /\ \A r \in RunIDs : runs[r] \in {0, created[r]}
    /\ \A o \in Runs : /\ status[o] = "none" <=> o[2] > created[o[1]]
                       /\ status[o] # "none" => params[o] \in Nodes \X Bodies
ThreadOnObjects(g) ==
    /\ thread[g].pc = "idle" => thread[g] = Idle
    /\ thread[g].pc # "idle" => thread[g].run \in Runs /\ status[thread[g].run] # "none"
    /\ \A o \in thread[g].todo : status[o] # "none"
    /\ thread[g].todo # {} => thread[g].kind \in {"retry", "reconnect"}
    /\ thread[g].pc \in {"retry", "ackTimeout"} => thread[g].kind # "dispatch"
ThreadsOnObjects == \A g \in Goroutines : ThreadOnObjects(g)
TimersOnObjects ==
    \A r \in RunIDs : /\ ackTimers[r].armed =>
                            ackTimers[r].run # 0 /\ status[<<r, ackTimers[r].run>>] # "none"
                      /\ resultTimers[r].armed =>
                            resultTimers[r].run # 0 /\ status[<<r, resultTimers[r].run>>] # "none"
Bookkeeping == ObjectsInOrder /\ ThreadsOnObjects /\ TimersOnObjects

\* A run nobody has finished with is tracked and always has somebody who will move it on:
\* the goroutine of its initial dispatch; the sender or the ack timer of its current
\* attempt; the ack handler about to arm the result timer, or that timer; and for a run
\* queued for retry a goroutine about to retry it, a "connected" event still to be handled,
\* or a node that is offline (whose next connection brings such an event).
Carries(g, o) ==
    \/ /\ status[o] = "dispatching" /\ thread[g].run = o /\ thread[g].kind = "dispatch"
       /\ thread[g].pc \in {"skip", "claim"}
    \/ /\ status[o] = "awaiting_ack" /\ thread[g].run = o /\ thread[g].gen = attempts[o]
       /\ thread[g].pc \in {"send", "arm", "fail", "ackTimeout"}
    \/ /\ status[o] = "awaiting_result" /\ thread[g].run = o
       /\ thread[g].pc \in {"armResult", "resultTimeout"}
    \/ /\ status[o] = "retrying"
       /\ \/ o \in thread[g].todo
          \/ /\ thread[g].run = o /\ thread[g].kind # "dispatch"
             /\ thread[g].pc \in {"retry", "claim"}

AckTimed(o)     == status[o] = "awaiting_ack" /\ ackTimers[o[1]] = Timer(o, attempts[o])
ResultTimed(o)  == status[o] = "awaiting_result" /\ resultTimers[o[1]] = Timer(o, 0)
AwaitingNode(o) == status[o] = "retrying" /\ (~online[NodeOf(o)] \/ ups[NodeOf(o)] > 0)

Watched(o) ==
    (\E g \in Goroutines : Carries(g, o)) \/ AckTimed(o) \/ ResultTimed(o) \/ AwaitingNode(o)

NoStrandedRun == \A o \in Runs : status[o] \in Active => Tracked(o) /\ Watched(o)

\* A timer map entry belongs to the tracked object of its run ID, in the status and at
\* the attempt it was armed for: no stale timer outlives an ack, a retry, a result, a
\* disconnect, a failed send or a prune.
NoStaleTimer ==
    \A r \in RunIDs :
        /\ ackTimers[r] # NoTimer =>
              /\ runs[r] # 0 /\ ackTimers[r].run = runs[r]
              /\ status[Current(r)] = "awaiting_ack" /\ ackTimers[r].gen = attempts[Current(r)]
        /\ resultTimers[r] # NoTimer =>
              /\ runs[r] # 0 /\ resultTimers[r].run = runs[r]
              /\ status[Current(r)] = "awaiting_result"

\* The gauges GetMetrics reports are the number of runs in each state, and every run ever
\* created is counted once: pending, completed, failed (or rejected) or skipped offline.
GaugesExact ==
    /\ metrics["pendingDepth"] = Cardinality({o \in Runs : status[o] \in Active})
    /\ metrics["awaitingAck"] = Cardinality(InStatus("awaiting_ack"))
    /\ metrics["awaitingResult"] = Cardinality(InStatus("awaiting_result"))
    /\ metrics["totalCompleted"] = Cardinality(InStatus("completed"))
    /\ metrics["totalFailed"] = Cardinality(InStatus("failed") \union InStatus("rejected"))
    /\ metrics["totalSkippedOffline"] = Cardinality(InStatus("skipped_offline"))

\* A run is attempted at most MaxRetries times (once, when MaxRetries is 0), however its
\* ack timeouts, disconnects and reconnects interleave.
AttemptsBounded ==
    \A o \in Runs :
        /\ attempts[o] <= IF MaxRetries = 0 THEN 1 ELSE MaxRetries
        /\ status[o] = "retrying" => attempts[o] < MaxRetries

\* A caller that is told node_offline is told the truth for good: the run is, and stays,
\* skipped, so the API may record it as skipped_offline.
OfflineAnswerIsFinal ==
    \A o \in Runs : <<o, "node_offline">> \in answers => status[o] = "skipped_offline"

\* The queue implements RunLifecycle: whatever the goroutines, timers and session events
\* do, a run only moves along its lifecycle, keeps its outcome, and is never offered more
\* often than MaxRetries allows.
Phase(s) ==
    CASE s = "none" -> "unknown"
      [] s \in {"dispatching", "retrying"} -> "queued"
      [] s = "awaiting_ack" -> "offered"
      [] s = "awaiting_result" -> "accepted"
      [] s = "skipped_offline" -> "skipped"
      [] OTHER -> s

Lifecycle == INSTANCE RunLifecycle
                WITH phase <- [o \in Runs |-> Phase(status[o])], tries <- attempts

FollowsLifecycle == Lifecycle!Spec

\* If every node eventually stays online, every run finishes.
FinishesWhenOnline ==
    (\A n \in Nodes : <>[]online[n]) =>
        \A o \in Runs : status[o] \in Active ~> status[o] \in Terminal
=============================================================================
