--------------------------- MODULE LocalScheduler ---------------------------
(***************************************************************************)
(* The daemon's local scheduler (apps/cli internal/node/system             *)
(* scheduler_local.go and scheduler_local_claim.go) with the two API       *)
(* transactions it calls, reconcile and claim                              *)
(* (node-scheduled-job-service.ts).                                        *)
(*                                                                         *)
(* Its goroutines are the due coordinator, one due worker (the daemon      *)
(* leaves MaxConcurrent at its default), the loop that serves reconcile    *)
(* requests and the hourly one. mu is held for one action each time; the   *)
(* mutex api is held across a call of the API, which is the variable call. *)
(***************************************************************************)
EXTENDS Integers, FiniteSets

CONSTANTS
    Jobs,
    Instants,   \* when the cron expression of a job matches
    MaxTime,    \* bound on the clock
    Cutoff,     \* localSchedulerDueCutoff, also the grace of a claim
    ReconcileInterval

ASSUME ScheduleAssumption == Instants \subseteq 1..MaxTime /\ MaxTime \in Nat /\ Cutoff \in Nat /\ ReconcileInterval \in Nat

VARIABLES
    now,
    jobs,              \* jobs[j]: the row of the API
    armed,             \* armed[j]: the occurrence a timer waits for, or Unset
    claiming,          \* claiming[j]: the occurrence queued or being claimed
    running,
    dueJobs,           \* the channel to the worker, which holds one
    reconcileRequests, scheduleChanged,   \* channels that hold one signal
    schedulerClosed,
    started,           \* what Start has come to
    coordinator, worker,
    call,              \* the call under way with api held
    wanting,           \* goroutines that wait for api to refresh
    failed,            \* history: the last refresh failed
    excused,           \* history: jobs whose timer only a later refresh can set right
    owed               \* history: occurrences with a run at the API that the daemon must execute

timerVars     == <<armed, claiming, running, dueJobs>>
signalVars    == <<reconcileRequests, scheduleChanged>>
historyVars   == <<failed, excused, owed>>
schedulerVars == <<now, jobs, timerVars, signalVars, schedulerClosed, started, coordinator, worker,
                   call, wanting, historyVars>>

Never   == MaxTime + 1
Unset   == -1
Times   == 0..Never
NoJob   == [job |-> "none", due |-> Unset]
Callers == {"start", "requests", "hourly", "worker", "runtime"}

NoCall == [by |-> "none", pc |-> "none", protected |-> {}, answer |-> {}]
Idle   == [pc |-> "idle", job |-> "none", due |-> Unset, next |-> Unset]

\* computeNextRunAt: the first match after t.
NextRunAt(t) ==
    LET later == {i \in Instants : i > t}
    IN  IF later = {} THEN Never ELSE CHOOSE i \in later : \A k \in later : i <= k

\* resetDueTimer, for the earliest occurrence of a; the coordinator has nothing
\* to dispatch then.
resetDueTimer(a) ==
    LET dues == {a[j] : j \in {k \in Jobs : a[k] # Unset}}
    IN  [timer |-> IF dues = {} THEN Never ELSE CHOOSE d \in dues : \A e \in dues : d <= e,
         batch |-> {}, at |-> 0]

SchedulerInit ==
    /\ now = 0
    /\ jobs \in [Jobs -> [active : BOOLEAN, nextRunAt : {NextRunAt(0)}]]
    /\ armed = [j \in Jobs |-> Unset]
    /\ claiming = [j \in Jobs |-> Unset]
    /\ running = {}
    /\ dueJobs = NoJob
    /\ reconcileRequests = FALSE
    /\ scheduleChanged = FALSE
    /\ schedulerClosed = FALSE
    /\ started = "no"
    /\ coordinator = resetDueTimer(armed)
    /\ worker = Idle
    /\ call = NoCall
    /\ wanting = {}
    /\ failed = FALSE
    /\ excused = {}
    /\ owed = {}

Tick ==
    /\ now < MaxTime
    /\ now' = now + 1
    /\ UNCHANGED <<jobs, timerVars, signalVars, schedulerClosed, started, coordinator, worker,
                   call, wanting, historyVars>>

---------------------------------------------------------------------------
(* The due coordinator. *)

\* signalScheduleChanged was called: the timer is set anew.
dueCoordinator ==
    /\ coordinator.batch = {}
    /\ scheduleChanged
    /\ scheduleChanged' = FALSE
    /\ coordinator' = resetDueTimer(armed)
    /\ UNCHANGED <<now, jobs, timerVars, reconcileRequests, schedulerClosed, started, worker, call, wanting, historyVars>>

\* The timer fires: dispatchDue collects the occurrences that are due.
dispatchDue ==
    /\ coordinator.batch = {}
    /\ coordinator.timer <= now
    /\ LET due == {j \in Jobs : armed[j] # Unset /\ armed[j] <= now}
       IN  coordinator' = IF due = {} THEN resetDueTimer(armed)
                          ELSE [timer |-> Never, at |-> now, batch |-> {[job |-> j, due |-> armed[j]] : j \in due}]
    /\ UNCHANGED <<now, jobs, timerVars, signalVars, schedulerClosed, started, worker, call, wanting, historyVars>>

\* An occurrence of the batch is off the coordinator's hands.
Dispatched(d) ==
    LET rest == coordinator.batch \ {d}
    IN  coordinator' = IF rest = {} THEN resetDueTimer(armed') ELSE [coordinator EXCEPT !.batch = rest]

\* (mutant: an occurrence that is given up is not reconciled)
reconcileAfterQuietly == UNCHANGED reconcileRequests

\* requestReconcile, for an occurrence that is given up.
reconcileAfter == reconcileRequests' = TRUE

\* enqueueDue: an occurrence goes to the worker; one that is late, whose job is
\* running or that finds the channel full is given up with a reconcile request.
enqueueDue(d) ==
    /\ d \in coordinator.batch
    /\ IF armed[d.job] # d.due \/ schedulerClosed
       THEN UNCHANGED <<timerVars, reconcileRequests>>
       ELSE /\ armed' = [armed EXCEPT ![d.job] = Unset]
            /\ UNCHANGED running
            /\ IF d.job \in running \/ coordinator.at - d.due > Cutoff \/ dueJobs # NoJob
               THEN reconcileAfter /\ UNCHANGED <<claiming, dueJobs>>
               ELSE /\ claiming' = [claiming EXCEPT ![d.job] = d.due]
                    /\ dueJobs' = d
                    /\ UNCHANGED reconcileRequests
    /\ Dispatched(d)
    /\ UNCHANGED <<now, jobs, scheduleChanged, schedulerClosed, started, worker, call, wanting, historyVars>>

---------------------------------------------------------------------------
(* The worker, up to the execution of the claim and after it. *)

dueWorker ==
    /\ worker.pc = "idle"
    /\ dueJobs # NoJob
    /\ ~schedulerClosed
    /\ worker' = [Idle EXCEPT !.pc = "claim", !.job = dueJobs.job, !.due = dueJobs.due]
    /\ dueJobs' = NoJob
    /\ UNCHANGED <<now, jobs, armed, claiming, running, signalVars, schedulerClosed, started, coordinator,
                   call, wanting, historyVars>>

\* claimOccurrence: the call begins when api is free. On a closed scheduler it
\* fails before it is sent.
claimOccurrence ==
    /\ worker.pc = "claim"
    /\ call = NoCall
    /\ IF schedulerClosed
       THEN worker' = [worker EXCEPT !.pc = "failed"] /\ UNCHANGED call
       ELSE call' = [NoCall EXCEPT !.by = "claim", !.pc = "asked"] /\ worker' = [worker EXCEPT !.pc = "asking"]
    /\ UNCHANGED <<now, jobs, timerVars, signalVars, schedulerClosed, started, coordinator, wanting, historyVars>>

\* claimScheduledJob at the API.
claimScheduledJob ==
    /\ call.by = "claim" /\ call.pc = "asked"
    /\ LET j  == worker.job
           ok == /\ jobs[j].active
                 /\ jobs[j].nextRunAt = worker.due
                 /\ worker.due <= now /\ now <= worker.due + Cutoff
       IN  /\ jobs' = IF ok THEN [jobs EXCEPT ![j].nextRunAt = NextRunAt(now)] ELSE jobs
           /\ owed' = IF ok THEN owed \cup {[job |-> j, due |-> worker.due]} ELSE owed
           /\ worker' = [worker EXCEPT !.next = IF ok THEN NextRunAt(now) ELSE Unset]
           /\ call' = [call EXCEPT !.pc = "answered"]
    /\ UNCHANGED <<now, timerVars, signalVars, schedulerClosed, started, coordinator, wanting, failed, excused>>

\* The answer arrives.
claimAnswered ==
    /\ call.by = "claim" /\ call.pc = "answered"
    /\ call' = NoCall
    /\ worker' = [worker EXCEPT !.pc = IF worker.next # Unset THEN "claimed" ELSE "failed"]
    /\ UNCHANGED <<now, jobs, timerVars, signalVars, schedulerClosed, started, coordinator, wanting, historyVars>>

\* The call of the claim fails, before or after the API served it.
claimLost ==
    /\ call.by = "claim"
    /\ call' = NoCall
    /\ worker' = [worker EXCEPT !.pc = "failed", !.next = Unset]
    /\ owed' = owed \ {[job |-> worker.job, due |-> worker.due]}
    /\ UNCHANGED <<now, jobs, timerVars, signalVars, schedulerClosed, started, coordinator, wanting,
                   failed, excused>>

\* A claim that failed: clearClaim, then a refresh.
claimFailed ==
    /\ worker.pc = "failed"
    /\ claiming' = [claiming EXCEPT ![worker.job] = IF @ = worker.due THEN Unset ELSE @]
    /\ wanting' = wanting \cup {"worker"}
    /\ worker' = [Idle EXCEPT !.pc = "refresh"]
    /\ UNCHANGED <<now, jobs, armed, running, dueJobs, signalVars, schedulerClosed, started, coordinator, call, historyVars>>

\* (mutant: an answer whose next occurrence has passed is dropped)
KeepsClaimInTime == claiming[worker.job] = worker.due /\ ~schedulerClosed /\ worker.next > now

KeepsClaim == claiming[worker.job] = worker.due /\ ~schedulerClosed

\* rearmClaimed: the next occurrence is armed, unless it has passed already.
rearmClaimed ==
    /\ worker.pc = "claimed"
    /\ LET j == worker.job
       IN  IF ~KeepsClaim
           THEN worker' = Idle /\ UNCHANGED <<armed, claiming, running, scheduleChanged, excused>>
           ELSE /\ claiming' = [claiming EXCEPT ![j] = Unset]
                /\ running' = running \cup {j}
                /\ armed' = [armed EXCEPT ![j] = IF @ = Unset /\ worker.next > now THEN worker.next ELSE @]
                /\ excused' = IF worker.next > now THEN excused ELSE excused \cup {j}
                /\ scheduleChanged' = TRUE
                /\ worker' = [worker EXCEPT !.pc = "register"]
    /\ UNCHANGED <<now, jobs, dueJobs, reconcileRequests, schedulerClosed, started, coordinator, call,
                   wanting, failed, owed>>

\* execute, between the registration of the run and its end: the executor of
\* ScheduledRuns, which returns when its context is cancelled.
execute ==
    /\ worker.pc = "execute"
    /\ owed' = owed \ {[job |-> worker.job, due |-> worker.due]}
    /\ worker' = [worker EXCEPT !.pc = "unregister"]
    /\ UNCHANGED <<now, jobs, timerVars, signalVars, schedulerClosed, started, coordinator, call, wanting,
                   failed, excused>>

clearRunning ==
    /\ worker.pc = "clear"
    /\ running' = running \ {worker.job}
    /\ worker' = Idle
    /\ UNCHANGED <<now, jobs, armed, claiming, dueJobs, signalVars, schedulerClosed, started, coordinator,
                   call, wanting, historyVars>>

---------------------------------------------------------------------------
(* Refresh. *)

\* The loops that call it.
reconcileRequestsLoop ==
    /\ reconcileRequests
    /\ ~schedulerClosed
    /\ "requests" \notin wanting /\ call.by # "requests"
    /\ reconcileRequests' = FALSE
    /\ wanting' = wanting \cup {"requests"}
    /\ UNCHANGED <<now, jobs, timerVars, scheduleChanged, schedulerClosed, started, coordinator, worker, call, historyVars>>

reconcileLoop ==
    /\ started = "started"
    /\ now >= ReconcileInterval
    /\ ~schedulerClosed
    /\ "hourly" \notin wanting /\ call.by # "hourly"
    /\ wanting' = wanting \cup {"hourly"}
    /\ UNCHANGED <<now, jobs, timerVars, signalVars, schedulerClosed, started, coordinator, worker, call, historyVars>>

\* What the caller of a refresh does when it returns, with or without an error.
Returned(c, error) ==
    /\ worker' = IF c = "worker" THEN Idle ELSE worker
    /\ started' = IF c # "start" THEN started
                  ELSE IF error THEN "failed" ELSE IF schedulerClosed THEN "closed" ELSE "started"

\* The occurrences a timer waits for or a claim is made of; no job has both.
protectedJobs ==
    {[job |-> j, due |-> IF claiming[j] # Unset THEN claiming[j] ELSE armed[j]] : j \in Jobs}

\* api is free: the armed and claiming occurrences are sent to the API.
Refresh(c) ==
    /\ c \in wanting
    /\ call = NoCall
    /\ wanting' = wanting \ {c}
    /\ IF schedulerClosed
       THEN Returned(c, FALSE) /\ UNCHANGED call
       ELSE /\ call' = [by |-> c, pc |-> "asked", protected |-> protectedJobs, answer |-> {}]
            /\ UNCHANGED <<worker, started>>
    /\ UNCHANGED <<now, jobs, timerVars, signalVars, schedulerClosed, coordinator, historyVars>>

\* reconcileScheduledJobs at the API: an occurrence that is overdue and not
\* protected is skipped; the active schedule is returned.
reconcileScheduledJobs ==
    /\ call.by \in Callers /\ call.pc = "asked"
    /\ jobs' = [j \in Jobs |->
                  IF jobs[j].active /\ jobs[j].nextRunAt <= now
                     /\ [job |-> j, due |-> jobs[j].nextRunAt] \notin call.protected
                  THEN [jobs[j] EXCEPT !.nextRunAt = NextRunAt(now)] ELSE jobs[j]]
    /\ call' = [call EXCEPT !.pc = "answered",
                            !.answer = {[job |-> j, due |-> jobs'[j].nextRunAt] : j \in {k \in Jobs : jobs[k].active}}]
    /\ UNCHANGED <<now, timerVars, signalVars, schedulerClosed, started, coordinator, worker, wanting, historyVars>>

\* The future occurrence of j in the answer.
future(j) ==
    LET later == {s \in call.answer : s.job = j /\ s.due > now}
    IN  IF later = {} THEN Unset ELSE (CHOOSE s \in later : TRUE).due

\* Timers whose occurrence is no longer the scheduled one go; future occurrences
\* of jobs that are not being claimed are armed.
SnapshotTimers == [j \in Jobs |-> IF claiming[j] = Unset \/ armed[j] = future(j) THEN future(j) ELSE Unset]

applySnapshot ==
    /\ call.by \in Callers /\ call.pc = "answered"
    /\ ~schedulerClosed
    /\ armed' = SnapshotTimers
    /\ excused' = {j \in Jobs : \/ worker.pc = "claimed" /\ worker.job = j
                                \/ claiming[j] = Unset /\ future(j) = Unset /\ \E s \in call.answer : s.job = j}
    /\ scheduleChanged' = TRUE
    /\ failed' = FALSE
    /\ call' = NoCall
    /\ Returned(call.by, FALSE)
    /\ UNCHANGED <<now, jobs, claiming, running, dueJobs, reconcileRequests, schedulerClosed, coordinator,
                   wanting, owed>>

\* The call fails, or its answer finds the scheduler closed.
refreshFails ==
    /\ call.by \in Callers
    /\ call' = NoCall
    /\ failed' = TRUE
    /\ \E error \in {TRUE} \cup {~schedulerClosed} : Returned(call.by, error)
    /\ UNCHANGED <<now, jobs, timerVars, signalVars, schedulerClosed, coordinator, wanting, excused, owed>>

---------------------------------------------------------------------------
(* Close. *)

\* beginClose, which has an effect once. What is left in the channels has no
\* effect on a closed scheduler, and the timers are no longer accounted for.
beginClose ==
    /\ schedulerClosed' = TRUE
    /\ armed' = [j \in Jobs |-> Unset]
    /\ dueJobs' = NoJob
    /\ reconcileRequests' = FALSE
    /\ scheduleChanged' = FALSE
    /\ excused' = {}

\* workers.Wait() returns, and api is free: each goroutine is where it sees
\* that its context is done.
Stopped ==
    /\ schedulerClosed
    /\ worker.pc = "idle"
    /\ coordinator.batch = {}
    /\ wanting \cap {"requests", "hourly"} = {}
    /\ call = NoCall

\* What the goroutines of the scheduler and the API do.
SchedulerWork ==
    \/ dueCoordinator \/ dispatchDue
    \/ \E d \in coordinator.batch : enqueueDue(d)
    \/ dueWorker \/ claimOccurrence \/ claimScheduledJob \/ claimAnswered \/ claimLost
    \/ claimFailed \/ rearmClaimed \/ execute \/ clearRunning
    \/ reconcileRequestsLoop \/ reconcileLoop
    \/ \E c \in Callers : Refresh(c)
    \/ reconcileScheduledJobs \/ applySnapshot \/ refreshFails

SchedulerNext == Tick \/ SchedulerWork

=============================================================================
