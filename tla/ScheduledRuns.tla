---------------------------- MODULE ScheduledRuns ----------------------------
(***************************************************************************)
(* A recurring run between the API service and the daemon that executes    *)
(* it: the daemon's one due worker (LocalScheduler with ScheduledJob-      *)
(* Executor), its durable outbox (the SQLite table                         *)
(* scheduled_job_run_outbox), the goroutine that recovers undelivered rows *)
(* (ScheduledRunOutboxRunner), and the crash of the daemon between any two *)
(* steps.                                                                  *)
(*                                                                         *)
(* A call to the API is served and answered; or it fails for the daemon,   *)
(* and then the request may have been dropped or may still be on its way   *)
(* and be served later.                                                    *)
(***************************************************************************)
EXTENDS RunRecords

CONSTANTS
    Errors,       \* how a call may fail: a subset of ErrorKinds
    MaxCrashes,   \* bound on crashes of the daemon
    MaxLate       \* bound on requests on their way after their caller gave up

\* IsScheduledJobRunRetryable sorts errors: network errors and 5xx are retried,
\* a deadline ends the pass, another 4xx answer gives up this row only.
ErrorKinds == {"retryable", "deadline", "denied"}

ASSUME ScheduledConstants ==
    /\ Errors \subseteq ErrorKinds
    /\ MaxCrashes \in Nat
    /\ MaxLate \in Nat

VARIABLES
    outbox,       \* the outbox row of each run
    worker,       \* the due worker: [run, pc, cause]
    activeRunIDs, \* runs registered as executing
    phase,        \* scheduledJobsState
    rec,          \* the recovery goroutine: [pc, rows, row, cause, isFailed]
    late,         \* requests whose caller gave up but that may still arrive
    agents,       \* how many agent processes were started for each run
    crashes

daemonVars == <<outbox, worker, activeRunIDs, phase, rec>>
vars == <<recordVars, daemonVars, late, agents, crashes>>

OutboxCauses == Reported \cup {"none", "rejected"}

OutboxRow == [state : {"absent", "claimed", "started", "finished"},
              cause : OutboxCauses, delivered : BOOLEAN]

NoRow == [state |-> "absent", cause |-> "none", delivered |-> FALSE]

\* A row as ListUndelivered returned it: a copy, not the row.
ListedRow == [run : RunIds, state : {"claimed", "started", "finished"}, cause : OutboxCauses]

WorkerSteps == {"save", "start", "mark", "agent", "running", "result", "complete",
                "ack", "saveRejected", "ackRejected", "unregister"}

RecoverySteps == {"list", "next", "start", "saveRejected", "saveInterrupted",
                  "deliver", "mark", "ack"}

Idle == [run |-> NoRun, pc |-> "idle", cause |-> "none"]

Listing == [pc |-> "list", rows |-> {}, run |-> NoRun, cause |-> "none", isFailed |-> FALSE]

Requests == {"start", "complete"} \X RunIds \X (Reported \cup {"none"})

TypeOK ==
    /\ RecordsTypeOK
    /\ outbox \in [RunIds -> OutboxRow]
    /\ worker \in {Idle} \cup [run : RunIds, pc : WorkerSteps, cause : OutboxCauses]
    /\ activeRunIDs \subseteq RunIds
    /\ phase \in {"waiting", "parked", "recovering", "enabled"}
    /\ rec \in [pc : RecoverySteps, rows : SUBSET ListedRow, run : RunIds \cup {NoRun},
                cause : OutboxCauses, isFailed : BOOLEAN]
    /\ late \subseteq Requests
    /\ agents \in [RunIds -> Nat]
    /\ crashes \in 0..MaxCrashes

Init ==
    /\ RecordsInit
    /\ outbox = [r \in RunIds |-> NoRow]
    /\ worker = Idle
    /\ activeRunIDs = {}
    /\ phase = "recovering"
    /\ rec = Listing
    /\ late = {}
    /\ agents = [r \in RunIds |-> 0]
    /\ crashes = 0

---------------------------------------------------------------------------
(* Calls to the API. *)

Start(r) == <<"start", r, "none">>
Complete(r, c) == <<"complete", r, c>>

Serve(request) ==
    IF request[1] = "start" THEN markRunStarted(request[2])
                            ELSE completeRun(request[2], request[3])

\* The daemon sees an error.  A denied request had no effect; any other may
\* still be on its way.
NotServed(request, error) ==
    /\ error \in Errors
    /\ \/ UNCHANGED late
       \/ /\ error # "denied"
          /\ Cardinality(late) < MaxLate
          /\ late' = late \cup {request}
    /\ UNCHANGED recordVars

LateArrives ==
    \E request \in late :
        /\ late' = late \ {request}
        /\ Serve(request)
        /\ UNCHANGED <<daemonVars, agents, crashes>>

---------------------------------------------------------------------------
(* The outbox: every statement is an insert or a compare-and-swap update. *)

SaveClaim(r) ==
    /\ outbox[r] = NoRow
    /\ outbox' = [outbox EXCEPT ![r].state = "claimed"]

MarkStarted(r) ==
    /\ outbox[r].state = "claimed"
    /\ outbox' = [outbox EXCEPT ![r].state = "started"]

Unfinished == {"claimed", "started"}

\* Mutant: a result can only be saved for a row marked as started.
SaveResultStarted(r, cause) ==
    /\ outbox[r].state = "started"
    /\ outbox' = [outbox EXCEPT ![r].state = "finished", ![r].cause = cause]

SaveResult(r, cause) ==
    /\ outbox[r].state \in Unfinished
    /\ outbox' = [outbox EXCEPT ![r].state = "finished", ![r].cause = cause]

\* The rows MarkDelivered may prune, at least seven days after their delivery.
Old == {r \in RunIds : outbox[r].delivered}

Pruned(box, old) == [r \in RunIds |-> IF r \in old THEN NoRow ELSE box[r]]

CanMarkDelivered(r) == outbox[r].state = "finished" /\ ~outbox[r].delivered

MarkDelivered(r) ==
    /\ CanMarkDelivered(r)
    /\ \E old \in SUBSET Old : outbox' = Pruned([outbox EXCEPT ![r].delivered = TRUE], old)

Undelivered(r) == outbox[r].state # "absent" /\ ~outbox[r].delivered

\* Mutant: only finished rows are listed.
ListUndeliveredFinished ==
    {[run |-> r, state |-> outbox[r].state, cause |-> outbox[r].cause] :
        r \in {q \in RunIds : Undelivered(q) /\ outbox[q].state = "finished"}}

ListUndelivered ==
    {[run |-> r, state |-> outbox[r].state, cause |-> outbox[r].cause] :
        r \in {q \in RunIds : Undelivered(q)}}

---------------------------------------------------------------------------
(* The due worker. *)

At(pc) == worker.pc = pc

Go(pc) == worker' = [worker EXCEPT !.pc = pc]

\* claimAndExecute: the claim is served, the run registered as active.  A claim
\* whose answer is lost leaves a pending run that no executor knows.
claimAndExecute(r) ==
    /\ phase = "enabled"
    /\ At("idle")
    /\ claimScheduledJob(r)
    /\ \/ /\ worker' = [run |-> r, pc |-> "save", cause |-> "none"]
          /\ activeRunIDs' = activeRunIDs \cup {r}
       \/ UNCHANGED <<worker, activeRunIDs>>
    /\ UNCHANGED <<outbox, phase, rec, late, agents, crashes>>

\* A step of the worker on its outbox row: done, or given up with an error.
OnRow(pc, Statement(_), next) ==
    /\ At(pc)
    /\ \/ Statement(worker.run) /\ Go(next)
       \/ UNCHANGED outbox /\ Go("unregister")
    /\ UNCHANGED <<recordVars, activeRunIDs, phase, rec, late, agents, crashes>>

saveClaim == OnRow("save", SaveClaim, "start")

\* startFresh: an already started run is a rejection, as is the 409 answer.
StartOutcome(r) == IF StartReply(r) = "started" THEN "mark" ELSE "saveRejected"

startRun ==
    /\ At("start")
    /\ \/ /\ markRunStarted(worker.run)
          /\ Go(StartOutcome(worker.run))
          /\ UNCHANGED late
       \/ /\ \E e \in ErrorKinds : NotServed(Start(worker.run), e)
          /\ Go("unregister")
    /\ UNCHANGED <<outbox, activeRunIDs, phase, rec, agents, crashes>>

markStarted == OnRow("mark", MarkStarted, "agent")

\* runAgent starts the agent process, or finds that the project path is gone.
runAgent ==
    /\ At("agent")
    /\ \/ /\ agents' = [agents EXCEPT ![worker.run] = @ + 1]
          /\ Go("running")
       \/ /\ worker' = [worker EXCEPT !.pc = "result", !.cause = "agentFailed"]
          /\ UNCHANGED agents
    /\ UNCHANGED <<recordVars, outbox, activeRunIDs, phase, rec, late, crashes>>

agentExits ==
    /\ At("running")
    /\ \E c \in {"done", "agentFailed"} :
           worker' = [worker EXCEPT !.pc = "result", !.cause = c]
    /\ UNCHANGED <<recordVars, outbox, activeRunIDs, phase, rec, late, agents, crashes>>

\* Mutant: the result is reported although it could not be saved.
saveResultIgnored ==
    /\ At("result")
    /\ SaveResult(worker.run, worker.cause) \/ UNCHANGED outbox
    /\ Go("complete")
    /\ UNCHANGED <<recordVars, activeRunIDs, phase, rec, late, agents, crashes>>

saveResult == OnRow("result", LAMBDA r : SaveResult(r, worker.cause), "complete")

\* completeAndMarkDelivered: an answer that is not accepted still counts as
\* delivered; the 409 answer and every other error defer the row to recovery.
complete ==
    /\ At("complete")
    /\ LET r == worker.run IN
       \/ /\ completeRun(r, worker.cause)
          /\ Go(IF CompleteReply(r, worker.cause) = "unavailable" THEN "unregister" ELSE "ack")
          /\ UNCHANGED late
       \/ /\ \E e \in ErrorKinds : NotServed(Complete(r, worker.cause), e)
          /\ Go("unregister")
    /\ UNCHANGED <<outbox, activeRunIDs, phase, rec, agents, crashes>>

markDelivered == OnRow("ack", MarkDelivered, "unregister")

saveRejected == OnRow("saveRejected", LAMBDA r : SaveResult(r, "rejected"), "ackRejected")

ackRejected == OnRow("ackRejected", MarkDelivered, "unregister")

unregisterActiveRun ==
    /\ At("unregister")
    /\ activeRunIDs' = activeRunIDs \ {worker.run}
    /\ worker' = Idle
    /\ UNCHANGED <<recordVars, outbox, phase, rec, late, agents, crashes>>

WorkerStep ==
    \/ saveClaim \/ startRun \/ markStarted \/ runAgent \/ agentExits \/ saveResult
    \/ complete \/ markDelivered \/ saveRejected \/ ackRejected \/ unregisterActiveRun

---------------------------------------------------------------------------
(* The recovery goroutine: at startup until the outbox is clean, then live. *)

RecAt(pc) == phase \in {"recovering", "enabled"} /\ rec.pc = pc

Rec(pc) == rec' = [rec EXCEPT !.pc = pc]

\* A pass has ended.  At startup a clean pass enables the scheduler, and after
\* any other one runRecovery waits in the given phase: "waiting" for its timer, or
\* "parked" for a request only, when the error cannot be retried.  Live, the next
\* pass starts on a request or after five minutes.
PassEnds(next) ==
    /\ rec' = Listing
    /\ phase' = IF phase = "recovering" THEN next ELSE phase

RecoverEligible ==
    /\ RecAt("list")
    /\ rec' = [rec EXCEPT !.pc = "next", !.rows = ListUndelivered]
    /\ UNCHANGED <<recordVars, outbox, worker, activeRunIDs, phase, late, agents, crashes>>

listFails ==
    /\ RecAt("list")
    /\ PassEnds("waiting")
    /\ UNCHANGED <<recordVars, outbox, worker, activeRunIDs, late, agents, crashes>>

\* Mutant: every listed row is recovered.
isOutboxRunInactiveAlways(r) == TRUE

\* isOutboxRunInactive is asked when the row's turn comes, not when it was listed.
isOutboxRunInactive(r) == phase = "recovering" \/ r \notin activeRunIDs

\* Mutant: a finished row is acknowledged without a delivery.
recoverRowAck(row) == IF row.state # "finished" THEN "start" ELSE "ack"

\* What recoverRow does with a row is decided by the listed copy.
recoverRow(row) ==
    IF row.state # "finished" THEN "start"
    ELSE IF row.cause = "rejected" THEN "ack" ELSE "deliver"

NextRow ==
    /\ RecAt("next")
    /\ \/ /\ rec.rows = {}
          /\ PassEnds(IF rec.isFailed THEN "parked" ELSE "enabled")
       \/ \E row \in rec.rows :
             /\ rec' = IF isOutboxRunInactive(row.run)
                       THEN [rec EXCEPT !.rows = @ \ {row}, !.run = row.run,
                                        !.cause = row.cause, !.pc = recoverRow(row)]
                       ELSE [rec EXCEPT !.rows = @ \ {row}]
             /\ UNCHANGED phase
    /\ UNCHANGED <<recordVars, outbox, worker, activeRunIDs, late, agents, crashes>>

\* The scheduler's first reconciliation fails after a clean startup pass.
schedulerStartFails ==
    /\ RecAt("next")
    /\ phase = "recovering"
    /\ rec.rows = {}
    /\ ~rec.isFailed
    /\ \E e \in Errors : PassEnds(IF e = "retryable" THEN "waiting" ELSE "parked")
    /\ UNCHANGED <<recordVars, outbox, worker, activeRunIDs, late, agents, crashes>>

\* A call of the recovery fails: retried in place, or the row or the pass ends.
RecCallFails(request) ==
    \E e \in ErrorKinds :
        /\ NotServed(request, e)
        /\ CASE e = "retryable" -> UNCHANGED <<rec, phase>>
             [] e = "denied"    -> /\ rec' = [rec EXCEPT !.pc = "next", !.isFailed = TRUE]
                                   /\ UNCHANGED phase
             [] e = "deadline"  -> PassEnds("parked")

\* The recovery's start accepts a run that is already running.
RecoveryStart(r) ==
    IF StartReply(r) = "unavailable" THEN "saveRejected" ELSE "saveInterrupted"

startServed ==
    /\ RecAt("start")
    /\ markRunStarted(rec.run)
    /\ Rec(RecoveryStart(rec.run))
    /\ UNCHANGED <<outbox, worker, activeRunIDs, phase, late, agents, crashes>>

startFails ==
    /\ RecAt("start")
    /\ RecCallFails(Start(rec.run))
    /\ UNCHANGED <<outbox, worker, activeRunIDs, agents, crashes>>

\* saveResult retries until the update applies: while it does not, the
\* goroutine stays here.
finalizeInterruptedRun ==
    /\ RecAt("saveInterrupted")
    /\ SaveResult(rec.run, "interrupted")
    /\ rec' = [rec EXCEPT !.pc = "deliver", !.cause = "interrupted"]
    /\ UNCHANGED <<recordVars, worker, activeRunIDs, phase, late, agents, crashes>>

saveRejectedAndAcknowledge ==
    /\ RecAt("saveRejected")
    /\ SaveResult(rec.run, "rejected")
    /\ rec' = [rec EXCEPT !.pc = "ack", !.cause = "rejected"]
    /\ UNCHANGED <<recordVars, worker, activeRunIDs, phase, late, agents, crashes>>

deliverServed ==
    /\ RecAt("deliver")
    /\ completeRun(rec.run, rec.cause)
    /\ rec' = IF CompleteReply(rec.run, rec.cause) = "unavailable"
              THEN [rec EXCEPT !.pc = "next", !.isFailed = TRUE]
              ELSE [rec EXCEPT !.pc = "mark"]
    /\ UNCHANGED <<outbox, worker, activeRunIDs, phase, late, agents, crashes>>

deliverFails ==
    /\ RecAt("deliver")
    /\ RecCallFails(Complete(rec.run, rec.cause))
    /\ UNCHANGED <<outbox, worker, activeRunIDs, agents, crashes>>

\* An acknowledgement that does not apply is retried, after another delivery.
markDeliveredAfterDelivery ==
    /\ RecAt("mark")
    /\ \/ MarkDelivered(rec.run) /\ Rec("next")
       \/ ~CanMarkDelivered(rec.run) /\ UNCHANGED outbox /\ Rec("deliver")
    /\ UNCHANGED <<recordVars, worker, activeRunIDs, phase, late, agents, crashes>>

markDeliveredUntilAcknowledged ==
    /\ RecAt("ack")
    /\ MarkDelivered(rec.run)
    /\ Rec("next")
    /\ UNCHANGED <<recordVars, worker, activeRunIDs, phase, late, agents, crashes>>

\* waitForRecovery: the timer, or a reconnect or an invalidation that asks for
\* another attempt.
waitForRecovery ==
    /\ phase = "waiting"
    /\ phase' = "recovering"
    /\ UNCHANGED <<recordVars, outbox, worker, activeRunIDs, rec, late, agents, crashes>>

RequestRefresh ==
    /\ phase = "parked"
    /\ phase' = "recovering"
    /\ UNCHANGED <<recordVars, outbox, worker, activeRunIDs, rec, late, agents, crashes>>

\* The steps of a recovery whose calls are answered.
RecoveryStep ==
    \/ RecoverEligible \/ NextRow \/ startServed \/ deliverServed \/ waitForRecovery
    \/ finalizeInterruptedRun \/ saveRejectedAndAcknowledge
    \/ markDeliveredAfterDelivery \/ markDeliveredUntilAcknowledged

---------------------------------------------------------------------------

\* The daemon stops between two steps and starts again: the outbox survives.
Restart ==
    /\ crashes < MaxCrashes
    /\ crashes' = crashes + 1
    /\ worker' = Idle
    /\ activeRunIDs' = {}
    /\ phase' = "recovering"
    /\ rec' = Listing
    /\ UNCHANGED <<recordVars, outbox, late, agents>>

CleanUp ==
    /\ \E stale \in SUBSET RunIds : terminalizeStaleRuns(stale)
    /\ UNCHANGED <<daemonVars, late, agents, crashes>>

ChangeJob ==
    /\ pauseScheduledJob \/ resumeScheduledJob
    /\ UNCHANGED <<daemonVars, late, agents, crashes>>

Next ==
    \/ \E r \in Scheduled : claimAndExecute(r)
    \/ WorkerStep
    \/ RecoveryStep
    \/ listFails \/ startFails \/ deliverFails \/ schedulerStartFails \/ RequestRefresh
    \/ LateArrives
    \/ Restart
    \/ CleanUp
    \/ ChangeJob

Spec == Init /\ [][Next]_vars

\* Goroutines are scheduled, an agent process ends (it is killed after five
\* minutes), and a query or a call that is repeated for ever succeeds at last.
FairSpec ==
    /\ Spec
    /\ WF_vars(WorkerStep)
    /\ WF_vars(RecoveryStep)
    /\ SF_vars(RecoverEligible)
    /\ SF_vars(NextRow)

---------------------------------------------------------------------------
(* Safety. *)

\* A run that the API records as skipped never had an agent process, although the
\* clean-up, a late start and the daemon that acts on its answer are not ordered.
SkippedNeverRan == \A r \in RunIds : runs[r].status = "skipped_offline" => agents[r] = 0

\* The recovery goroutine never works on the run that the worker is executing:
\* rows are listed before activeRunIDs is asked, and the worker moves in between.
OneOwner == worker.run # NoRun => worker.run # rec.run \/ rec.pc \in {"list", "next"}

\* A row is marked delivered only when the run has ended in the API's record.
DeliveredIsRecorded ==
    \A r \in RunIds :
        outbox[r].delivered /\ outbox[r].cause # "rejected" => runs[r].status \in Terminal

\* An ended run keeps its outcome, whatever arrives late or twice.
EndedIsFinal ==
    [][\A r \in RunIds : runs[r].status \in Terminal => runs'[r] = runs[r]]_vars

\* What the API records as a daemon's result is in the daemon's outbox at that
\* moment: a crash after the report cannot leave the daemon with another result.
ResultsAreSavedFirst ==
    [][\A r \in RunIds :
          runs'[r] # runs[r] /\ runs'[r].cause \in Reported
              => outbox[r].state = "finished" /\ outbox[r].cause = runs'[r].cause]_vars

---------------------------------------------------------------------------
(* Liveness. *)

\* The API refuses startup recovery: an answer that is not retried in place, so
\* that the row is left over, or the pass or the start of the scheduler ends, and
\* runRecovery waits for a request, without a timer.
Refused ==
    /\ phase = "recovering"
    /\ \/ (startFails \/ deliverFails) /\ rec' # rec
       \/ schedulerStartFails /\ phase' = "parked"

\* What a parked recovery depends on: refusals come to an end (a login, a deadline
\* that is met), and a reconnect or an invalidation asks for another attempt.
RefusalsEnd == <>[][~Refused]_vars
ParkedIsAsked == []<>(phase # "parked")

\* After a restart the outbox is drained: every row left by the previous daemon
\* is delivered, wherever that daemon stopped and however often the API refused
\* or lost a call, once it refuses no more and a parked recovery is asked for.
RestartDrains ==
    RefusalsEnd /\ ParkedIsAsked =>
        \A r \in RunIds : phase = "recovering" /\ Undelivered(r) ~> ~Undelivered(r)

\* Startup recovery comes to its end, and the scheduler is enabled, under the same
\* premise: no refusal leaves a row that a later attempt cannot settle.
RecoveryEnds ==
    RefusalsEnd /\ ParkedIsAsked => (phase = "recovering" ~> phase = "enabled")

\* Without a restart: a result that was saved is delivered.
LiveOutboxDrains ==
    \A r \in RunIds : Undelivered(r) ~> ~Undelivered(r)

===========================================================================
