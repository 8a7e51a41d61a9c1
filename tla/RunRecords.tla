---------------------------- MODULE RunRecords ----------------------------
(***************************************************************************)
(* The rows of scheduled_job_runs that the API service keeps, and every    *)
(* transaction on them: the claim of an occurrence, Run Now, the start and *)
(* the result a daemon reports, the skip a queue consumer records and the  *)
(* daily clean-up of stale runs.  Each transaction writes through an       *)
(* UPDATE whose WHERE clause names the status it expects, so it is one     *)
(* atomic step at the moment of that UPDATE; the row it reads before and   *)
(* after only selects the reply.                                           *)
(*                                                                         *)
(* A result is abstracted to its cause, which stands for the status, the   *)
(* response body and the error fields that completeRun compares.  The      *)
(* timestamps of the summary come from the daemon's clock in completeRun   *)
(* and from the run's start in the clean-up: which of two is the later is  *)
(* left open, so a summary that is already there may or may not be         *)
(* replaced.                                                               *)
(***************************************************************************)
EXTENDS Integers, FiniteSets

CONSTANTS
    Scheduled,  \* run IDs of recurring occurrences (trigger "schedule")
    Manual,     \* run IDs of Run Now requests (trigger "manual")
    NoRun       \* the run of a worker that has none

ASSUME RecordConstants ==
    /\ Scheduled \cap Manual = {}
    /\ NoRun \notin Scheduled \cup Manual

RunIds == Scheduled \cup Manual

VARIABLES
    runs,       \* runs[r]: the row of run r, [status, cause]
    active,     \* is the parent job active and assigned to this node?
    summary     \* the parent job's lastRunStatus

recordVars == <<runs, active, summary>>

Terminal == {"succeeded", "failed", "skipped_offline"}

Statuses == {"absent", "pending", "running"} \cup Terminal

\* What a daemon can report, and the status it reports with it.
Reported == {"done", "agentFailed", "interrupted"}

StatusOf(cause) == IF cause = "done" THEN "succeeded" ELSE "failed"

\* The causes the API service writes itself: stale runs of the clean-up, a node
\* that was offline, a queue that could not be written.
Causes == Reported \cup {"none", "stale", "offline", "unqueued"}

RecordsTypeOK ==
    /\ runs \in [RunIds -> [status : Statuses, cause : Causes]]
    /\ active \in BOOLEAN
    /\ summary \in {"none", "succeeded", "failed"}

RecordsInit ==
    /\ runs = [r \in RunIds |-> [status |-> "absent", cause |-> "none"]]
    /\ active = TRUE
    /\ summary = "none"

---------------------------------------------------------------------------

\* A transition of run r to a terminal status.
Ended(r, s, c) == [runs EXCEPT ![r] = [status |-> s, cause |-> c]]

\* The monotonic parent summary: a first one is always written.
Summarised(s) == summary' \in {s} \cup (IF summary = "none" THEN {} ELSE {summary})

\* claimScheduledJob: the occurrence of an active job becomes a pending run.
\* The occurrence and its time are not part of this module.
claimScheduledJob(r) ==
    /\ r \in Scheduled
    /\ active
    /\ runs[r].status = "absent"
    /\ runs' = [runs EXCEPT ![r].status = "pending"]
    /\ UNCHANGED <<active, summary>>

\* triggerRunNow: a visible job, active or not, gets a manual run.
triggerRunNow(r) ==
    /\ r \in Manual
    /\ runs[r].status = "absent"
    /\ runs' = [runs EXCEPT ![r].status = "pending"]
    /\ UNCHANGED <<active, summary>>

\* The WHERE clause of markRunStarted.
Startable(r) == runs[r].status = "pending" /\ (r \in Manual \/ active)

\* What markRunStarted answers: true, false, or the 409 error.
StartReply(r) ==
    CASE runs[r].status = "running" -> "already"
      [] Startable(r)               -> "started"
      [] OTHER                      -> "unavailable"

markRunStarted(r) ==
    /\ runs' = IF Startable(r) THEN [runs EXCEPT ![r].status = "running"] ELSE runs
    /\ UNCHANGED <<active, summary>>

\* The WHERE clause of completeRun.
Completable(r) == runs[r].status \in {"pending", "running"}

\* What completeRun answers: accepted (also for the same result again), not
\* accepted when a scheduled run has ended otherwise, or the 409 error.
CompleteReply(r, cause) ==
    CASE Completable(r) \/ runs[r].cause = cause                   -> "accepted"
      [] r \in Scheduled /\ runs[r].status \in Terminal            -> "conflict"
      [] OTHER                                                     -> "unavailable"

completeRun(r, cause) ==
    /\ IF Completable(r)
       THEN /\ runs' = Ended(r, StatusOf(cause), cause)
            /\ Summarised(StatusOf(cause))
       ELSE UNCHANGED <<runs, summary>>
    /\ UNCHANGED active

\* Mutant: the skip does not look at the status.
markRunSkippedOfflineAny(r) ==
    /\ runs' = Ended(r, "skipped_offline", "offline")
    /\ UNCHANGED <<active, summary>>

\* markRunSkippedOffline, after the relay answered node_offline.
markRunSkippedOffline(r) ==
    /\ runs' = IF runs[r].status = "pending" THEN Ended(r, "skipped_offline", "offline")
                                             ELSE runs
    /\ UNCHANGED <<active, summary>>

\* markRunNowDispatchFailed, after publishViaQueue sent nothing.
markRunNowDispatchFailed(r) ==
    /\ runs' = IF runs[r].status = "pending" THEN Ended(r, "failed", "unqueued") ELSE runs
    /\ UNCHANGED <<active, summary>>

\* Mutant: the clean-up also skips runs that have started.
SkippedRunning(stale) == {r \in stale : runs[r].status \in {"pending", "running"}}

\* Mutant: the clean-up fails every run that is not pending.
FailedUnguarded(stale) == {r \in stale : runs[r].status \notin {"absent", "pending"}}

\* Mutant: the clean-up leaves running runs alone.
FailedNever(stale) == {}

\* terminalizeStaleRuns: in one transaction every stale pending run is skipped
\* and every stale running run fails.  Age is not modelled: any set of runs may
\* be the stale ones.
Skipped(stale) == {r \in stale : runs[r].status = "pending"}

Failed(stale) == {r \in stale : runs[r].status = "running"}

terminalizeStaleRuns(stale) ==
    /\ Skipped(stale) \cup Failed(stale) # {}
    /\ runs' = [r \in RunIds |->
                  IF r \in Skipped(stale) THEN [status |-> "skipped_offline", cause |-> "stale"]
                  ELSE IF r \in Failed(stale) THEN [status |-> "failed", cause |-> "stale"]
                  ELSE runs[r]]
    /\ IF Failed(stale) = {} THEN UNCHANGED summary ELSE Summarised("failed")
    /\ UNCHANGED active

\* pauseScheduledJob, and as well disableScheduledJob, deleteScheduledJob and an
\* update that assigns the job to another node; resumeScheduledJob undoes them.
pauseScheduledJob ==
    /\ active
    /\ active' = FALSE
    /\ UNCHANGED <<runs, summary>>

resumeScheduledJob ==
    /\ ~active
    /\ active' = TRUE
    /\ UNCHANGED <<runs, summary>>

===========================================================================
