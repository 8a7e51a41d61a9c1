------------------------ MODULE ScheduledJobsRuntime ------------------------
(***************************************************************************)
(* The life of the daemon's scheduled jobs (apps/cli internal/app          *)
(* scheduled_jobs.go and the relay handler of handlers.go) around its      *)
(* local scheduler: recovery until the API answers, the hand-over of       *)
(* refresh requests, and shutdown.                                         *)
(*                                                                         *)
(* Recovery builds a new scheduler for each attempt. One that is closed    *)
(* before its first snapshot has armed nothing, so the variables of        *)
(* LocalScheduler stand for the one of the attempt under way. lifecycleMu  *)
(* is held across actions by the recovery alone, when it closes the        *)
(* scheduler.                                                              *)
(***************************************************************************)
EXTENDS LocalScheduler

CONSTANT MaxChanges   \* bound on the edits of the schedule

ASSUME ChangesAssumption == MaxChanges \in Nat

VARIABLES
    changes,            \* edits made at the API
    notices,            \* scheduleChanged messages on their way to the daemon
    unseen,             \* history: an edit the API has not been asked about since
    refresher,          \* the goroutine of requestScheduledJobsRefresh
    pending,
    state, registered,
    refreshRequests, recoveryRequests,   \* channels that hold one signal
    recovery, closer,   \* the goroutines of runRecovery and Close
    lifecycleMu

runtimeVars == <<changes, notices, unseen, refresher, pending, state, registered,
                 refreshRequests, recoveryRequests, recovery, closer, lifecycleMu>>
vars == <<schedulerVars, runtimeVars>>

\* closed is set when Close begins.
closed == closer # "idle"

\* After Start, which sends the first request.
Init ==
    /\ SchedulerInit
    /\ changes = 0
    /\ notices = 0
    /\ unseen = FALSE
    /\ refresher = "idle"
    /\ pending = FALSE
    /\ state = "waiting"
    /\ registered = FALSE
    /\ refreshRequests = FALSE
    /\ recoveryRequests = TRUE
    /\ recovery = "delayed"
    /\ closer = "idle"
    /\ lifecycleMu = "free"

---------------------------------------------------------------------------
(* An edit of the schedule and the signal it becomes. *)

\* pauseScheduledJob or resumeScheduledJob, and the message to the node.
ChangeJob(j) ==
    /\ changes < MaxChanges
    /\ changes' = changes + 1
    /\ jobs' = [jobs EXCEPT ![j] = [active |-> ~@.active,
                                    nextRunAt |-> IF @.active THEN @.nextRunAt ELSE NextRunAt(now)]]
    /\ notices' = notices + 1
    /\ unseen' = TRUE
    /\ UNCHANGED <<now, timerVars, signalVars, schedulerClosed, started, coordinator, worker, call,
                   wanting, historyVars, refresher, pending, state, registered, refreshRequests,
                   recoveryRequests, recovery, closer, lifecycleMu>>

\* The message arrives, over the relay or as the reconnect that replaces it.
requestScheduledJobsRefresh ==
    /\ notices > 0
    /\ notices' = notices - 1
    /\ refresher' = IF refresher = "idle" THEN "read" ELSE refresher
    /\ pending' = (refresher # "idle")
    /\ UNCHANGED <<schedulerVars, changes, unseen, state, registered, refreshRequests,
                   recoveryRequests, recovery, closer, lifecycleMu>>

\* runScheduledJobsRefresh after RequestRefresh has returned: round again for
\* a message that came meanwhile.
runScheduledJobsRefresh ==
    /\ refresher' = IF pending THEN "read" ELSE "idle"
    /\ pending' = FALSE

\* (mutant: requests are ignored until the runtime is enabled)
ChannelOfEnabled == IF state = "enabled" THEN "refresh" ELSE "none"

\* The channel for the state.
Channel == IF state = "enabled" THEN "refresh" ELSE "recover"

\* RequestRefresh reads the state of the runtime under lifecycleMu.
RequestRefresh ==
    /\ refresher = "read"
    /\ lifecycleMu = "free"
    /\ IF closed THEN runScheduledJobsRefresh
       ELSE refresher' = Channel /\ UNCHANGED pending
    /\ UNCHANGED <<schedulerVars, changes, notices, unseen, state, registered,
                   refreshRequests, recoveryRequests, recovery, closer, lifecycleMu>>

\* It sends to the channel chosen for that state.
SendRequest ==
    /\ refresher \notin {"idle", "read"}
    /\ refreshRequests' = (refreshRequests \/ refresher = "refresh")
    /\ recoveryRequests' = (recoveryRequests \/ refresher = "recover")
    /\ runScheduledJobsRefresh
    /\ UNCHANGED <<schedulerVars, changes, notices, unseen, state, registered, recovery, closer, lifecycleMu>>

\* runRefreshes, which exists once the runtime is enabled.
runRefreshes ==
    /\ state = "enabled"
    /\ refreshRequests
    /\ "runtime" \notin wanting /\ call.by # "runtime"
    /\ refreshRequests' = FALSE
    /\ wanting' = wanting \cup {"runtime"}
    /\ UNCHANGED <<now, jobs, timerVars, signalVars, schedulerClosed, started, coordinator, worker, call,
                   historyVars, changes, notices, unseen, refresher, pending, state, registered,
                   recoveryRequests, recovery, closer, lifecycleMu>>

---------------------------------------------------------------------------
(* Recovery. *)

\* setState(recovering) or setState(waiting), and where runRecovery goes on.
Sets(s, next) ==
    /\ lifecycleMu = "free"
    /\ state' = IF closed THEN state ELSE s
    /\ recovery' = next

recoveryRest == <<changes, notices, unseen, refresher, pending, refreshRequests>>

\* waitForRecovery returns true: a request, or the timer of a delayed retry.
waitForRecovery ==
    /\ recovery \in {"delayed", "parked"}
    /\ recoveryRequests \/ recovery = "delayed"
    /\ recoveryRequests' = FALSE
    /\ Sets("recovering", "recover")
    /\ UNCHANGED <<schedulerVars, recoveryRest, registered, closer, lifecycleMu>>

\* (mutant: a parked recovery only waits for requests)
SeesCancelDelayed == {"delayed"}

\* Where waitForRecovery selects on the context.
SeesCancel == {"delayed", "parked"}

\* waitForRecovery returns false.
recoveryCancelled ==
    /\ recovery \in SeesCancel
    /\ closed
    /\ recovery' = "done"
    /\ UNCHANGED <<schedulerVars, recoveryRest, state, registered, recoveryRequests, closer, lifecycleMu>>

\* buildEnabledComponents and Recover (ScheduledRuns) have succeeded:
\* registerRecoveringScheduler, which refuses on a closed runtime.
registerRecoveringScheduler ==
    /\ recovery = "recover"
    /\ lifecycleMu = "free"
    /\ registered' = ~closed
    /\ recovery' = IF closed THEN "done" ELSE "start"
    /\ UNCHANGED <<schedulerVars, recoveryRest, state, recoveryRequests, closer, lifecycleMu>>

\* They have failed, or Start has: the scheduler is closed and cleared, and
\* recovery waits again, for a request alone if the error is not retryable.
recoveryFails(next) ==
    /\ recovery = "recover" \/ (recovery = "starting" /\ started = "failed")
    /\ Sets("waiting", IF closed THEN "done" ELSE next)
    /\ registered' = FALSE
    /\ started' = "no"
    /\ UNCHANGED <<now, jobs, timerVars, signalVars, schedulerClosed, coordinator, worker, call, wanting,
                   historyVars, recoveryRest, recoveryRequests, closer, lifecycleMu>>

\* LocalScheduler.Start begins; on a closed scheduler it returns at once.
Start ==
    /\ recovery = "start"
    /\ recovery' = "starting"
    /\ IF schedulerClosed
       THEN started' = "closed" /\ UNCHANGED wanting
       ELSE wanting' = wanting \cup {"start"} /\ UNCHANGED started
    /\ UNCHANGED <<now, jobs, timerVars, signalVars, schedulerClosed, coordinator, worker, call, historyVars,
                   recoveryRest, state, registered, recoveryRequests, closer, lifecycleMu>>

\* Start has returned: the runtime is enabled.
recoverAndEnable ==
    /\ recovery = "starting" /\ started \in {"started", "closed"}
    /\ lifecycleMu = "free"
    /\ ~closed
    /\ state' = "enabled"
    /\ recovery' = "done"
    /\ UNCHANGED <<schedulerVars, recoveryRest, registered, recoveryRequests, closer, lifecycleMu>>

\* Start has returned on a closed runtime: the scheduler is closed with
\* lifecycleMu held.
recoverAndClose ==
    /\ recovery = "starting" /\ started \in {"started", "closed"}
    /\ lifecycleMu = "free"
    /\ closed
    /\ lifecycleMu' = "recovery"
    /\ recovery' = "closing"
    /\ beginClose
    /\ UNCHANGED <<now, jobs, claiming, running, started, coordinator, worker, call, wanting, failed, owed,
                   recoveryRest, state, registered, recoveryRequests, closer>>

recoveryClosed ==
    /\ recovery = "closing"
    /\ Stopped
    /\ lifecycleMu' = "free"
    /\ recovery' = "done"
    /\ UNCHANGED <<schedulerVars, recoveryRest, state, registered, recoveryRequests, closer>>

---------------------------------------------------------------------------
(* Runs and shutdown. *)

\* registerActiveRun and unregisterActiveRun.
registerActiveRun ==
    /\ worker.pc \in {"register", "unregister"}
    /\ lifecycleMu = "free"
    /\ worker' = [worker EXCEPT !.pc = IF @ = "register" THEN "execute" ELSE "clear"]
    /\ UNCHANGED <<now, jobs, timerVars, signalVars, schedulerClosed, started, coordinator, call, wanting,
                   historyVars, runtimeVars>>

closeRest == <<changes, notices, unseen, refresher, pending, state, registered, refreshRequests,
               recoveryRequests, recovery, lifecycleMu>>

\* Close: closed is set under lifecycleMu, the context is cancelled and the
\* registered scheduler is closed. What another goroutine does between these
\* it could as well have done before or after.
Close ==
    /\ closer = "idle"
    /\ lifecycleMu = "free"
    /\ closer' = "closing"
    /\ IF registered THEN beginClose ELSE UNCHANGED <<armed, dueJobs, signalVars, schedulerClosed, excused>>
    /\ UNCHANGED <<now, jobs, claiming, running, started, coordinator, worker, call, wanting, failed, owed, closeRest>>

\* Close waits for the goroutines of the scheduler, of recovery and of
\* runRefreshes. runOutboxRetries, which it waits for too, is left out: it starts when
\* recovery is done and watches the context wherever it waits.
closeReturns ==
    /\ closer = "closing"
    /\ registered => Stopped
    /\ recovery = "done"
    /\ "runtime" \notin wanting /\ call.by # "runtime"
    /\ closer' = "done"
    /\ UNCHANGED <<schedulerVars, closeRest>>

---------------------------------------------------------------------------
\* A step of the scheduler; the API answers a reconcile with the edits made.
SchedulerStep ==
    /\ SchedulerNext
    /\ unseen' = (unseen /\ ~(call.pc = "asked" /\ call'.pc = "answered" /\ call.by \in Callers))
    /\ UNCHANGED <<changes, notices, refresher, pending, state, registered, refreshRequests,
                   recoveryRequests, recovery, closer, lifecycleMu>>

RefreshStep  == requestScheduledJobsRefresh \/ RequestRefresh \/ SendRequest \/ runRefreshes
RecoveryStep == \/ waitForRecovery \/ recoveryCancelled \/ registerRecoveringScheduler \/ Start
                \/ \E next \in {"delayed", "parked"} : recoveryFails(next)
                \/ recoverAndEnable \/ recoverAndClose \/ recoveryClosed

Next ==
    \/ SchedulerStep
    \/ \E j \in Jobs : ChangeJob(j)
    \/ RefreshStep \/ RecoveryStep \/ registerActiveRun \/ Close \/ closeReturns

Spec == Init /\ [][Next]_vars
---------------------------------------------------------------------------

\* Types; a job has at most one of a timer and a claim, the job that runs is
\* the worker's, and an enabled runtime has a registered scheduler.
TypeOK ==
    /\ now \in 0..MaxTime
    /\ jobs \in [Jobs -> [active : BOOLEAN, nextRunAt : Times]]
    /\ armed \in [Jobs -> Times \cup {Unset}] /\ claiming \in [Jobs -> Times \cup {Unset}]
    /\ \A j \in Jobs : armed[j] = Unset \/ claiming[j] = Unset
    /\ running \subseteq {worker.job}
    /\ wanting \subseteq Callers /\ call.by \notin wanting
    /\ started \in {"no", "started", "failed", "closed"}
    /\ state = "enabled" => registered /\ recovery = "done"
    /\ notices \in 0..MaxChanges /\ pending \in BOOLEAN

\* Nothing is under way that could still touch a timer.
Quiet ==
    /\ state = "enabled" /\ ~closed /\ ~failed /\ ~unseen
    /\ ~refreshRequests /\ ~reconcileRequests
    /\ wanting = {} /\ call = NoCall
    /\ dueJobs = NoJob /\ coordinator.batch = {}
    /\ worker.pc \in {"idle", "register", "execute", "unregister", "clear"}

\* enqueueDue gives occurrences up and claims race snapshots, and still, when
\* nothing is under way, every active job has its timer at the occurrence the
\* API expects next, and the coordinator's timer is no later. Excepted are the
\* jobs of excused, for which the code waits for the hourly reconcile: the
\* occurrence an answer named had passed when it was applied, or a snapshot was
\* applied between the answer of a claim and rearmClaimed.
TimersFollowSchedule ==
    Quiet => \A j \in Jobs \ excused :
                /\ armed[j] = IF jobs[j].active THEN jobs[j].nextRunAt ELSE Unset
                /\ ~scheduleChanged /\ armed[j] # Unset => coordinator.timer <= armed[j]

\* An occurrence for which claimScheduledJob inserted a run and whose answer
\* arrived is executed: it is with the worker until then, whatever snapshots
\* are applied meanwhile. Only a shutdown drops it.
ClaimedIsRun ==
    \A c \in owed : closed \/ (worker.job = c.job /\ worker.due = c.due)

\* An edit the daemon was told of is not lost on the way through the flags of
\* the relay handler and the two channels of RequestRefresh: while the runtime
\* is enabled and the API has not been asked since, a message, a request or a
\* refresh is still on its way, or the hourly reconcile is next: the refresh
\* failed, or the request stayed in recoveryRequests, which nobody reads again.
RefreshIsComing ==
    unseen /\ state = "enabled" /\ ~closed =>
        \/ notices > 0 \/ refresher # "idle"
        \/ refreshRequests \/ recoveryRequests
        \/ "runtime" \in wanting \/ call.by \in Callers
        \/ failed

\* The due worker needs lifecycleMu while the recovery that holds it waits for
\* the worker in Close.
Caught == lifecycleMu = "recovery" /\ worker.pc \in {"register", "unregister"}

Work == SchedulerWork /\ UNCHANGED runtimeVars

\* A Close under way gets on: something it waits for can take a step, from every
\* state of recovery and of the scheduler but the one that is Caught. (No step
\* of a closed runtime can repeat for ever.)
CloseReturns ==
    closer = "closing" => Caught \/ ENABLED (Work \/ RecoveryStep \/ registerActiveRun \/ closeReturns)
=============================================================================
