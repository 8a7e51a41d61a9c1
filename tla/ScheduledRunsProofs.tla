-------------------------- MODULE ScheduledRunsProofs --------------------------
(***************************************************************************)
(* Proofs about ScheduledRuns, for any set of runs, any number of crashes  *)
(* and of requests that arrive late.                                       *)
(*                                                                         *)
(* The argument is about who knows a run: a run is claimed once, so what a *)
(* goroutine, a listed copy or a late request says of it stays true until  *)
(* its record has ended.                                                   *)
(***************************************************************************)
EXTENDS ScheduledRuns, TLAPS

HasEnded(r) == runs[r].status \in Terminal

\* The run was started, and the clean-up has not skipped it.
WasStarted(r) == runs[r].status \in {"running", "succeeded", "failed"}

\* A result of the daemon that may be reported: it is saved, or the record has ended.
Backed(r, c) ==
    /\ c \in Reported
    /\ (outbox[r].state = "finished" /\ outbox[r].cause = c) \/ HasEnded(r)

\* A row that was finished as rejected stays so, until it is delivered and pruned.
RejectedOrGone(r) ==
    outbox[r].state = "absent" \/ (outbox[r].state = "finished" /\ outbox[r].cause = "rejected")

\* Only an ended run has a cause, and only one that was started had an agent.
RecordsOK ==
    \A r \in RunIds :
        /\ runs[r].cause # "none" => HasEnded(r)
        /\ agents[r] > 0 => WasStarted(r)

\* A row belongs to a claimed run; its result is saved before it is delivered, and what is
\* delivered has ended or was rejected.
OutboxOK ==
    \A r \in RunIds :
        /\ outbox[r].state # "absent" => runs[r].status # "absent"
        /\ outbox[r].state = "finished" => outbox[r].cause \in Reported \cup {"rejected"}
        /\ outbox[r].delivered =>
             outbox[r].state = "finished" /\ (outbox[r].cause # "rejected" => HasEnded(r))

\* The worker has registered the run it works on, and what it has done for it so far still holds.
WorkerOK ==
    LET r == worker.run IN
    /\ worker.pc # "idle" =>
         /\ phase = "enabled" /\ r \in activeRunIDs /\ runs[r].status # "absent"
    /\ worker.pc \in {"mark", "agent", "running"} => WasStarted(r)
    /\ worker.pc = "save" =>
         outbox[r].state = "absent" /\ \A row \in rec.rows : row.run # r
    /\ worker.pc = "result" => worker.cause \in Reported
    /\ worker.pc = "complete" => Backed(r, worker.cause)
    /\ worker.pc = "ack" => HasEnded(r)
    /\ worker.pc = "ackRejected" => RejectedOrGone(r)

\* A listed copy of a finished row still tells the truth, or its row was delivered and pruned.
ListedOK ==
    \A row \in rec.rows :
        /\ runs[row.run].status # "absent"
        /\ row.state = "finished" /\ row.cause # "rejected" => Backed(row.run, row.cause)
        /\ row.state = "finished" /\ row.cause = "rejected" =>
             RejectedOrGone(row.run)

\* The recovery works on a claimed run, and what it has done for it so far still holds.
RecoveryOK ==
    LET r == rec.run IN
    /\ rec.pc \notin {"list", "next"} => r \in RunIds /\ runs[r].status # "absent"
    /\ rec.pc \in {"deliver", "mark"} => Backed(r, rec.cause)
    /\ rec.pc = "mark" => HasEnded(r)
    /\ rec.pc = "ack" => RejectedOrGone(r)

\* A result that is still on its way may be reported.
LateOK == \A q \in late : q[1] = "complete" => Backed(q[2], q[3])

IInv ==
    TypeOK /\ RecordsOK /\ OutboxOK /\ WorkerOK /\ ListedOK /\ RecoveryOK /\ LateOK /\ OneOwner

---------------------------------------------------------------------------
(* What a step does to a record: the transactions of the API service. *)

\* A record only moves forward, and a result of a daemon is only written by completeRun.
RecordMove(r) ==
    \/ runs'[r] = runs[r]
    \/ runs[r].status = "absent" /\ runs'[r] = [status |-> "pending", cause |-> runs[r].cause]
    \/ runs[r].status = "pending" /\ runs'[r] = [status |-> "running", cause |-> runs[r].cause]
    \/ runs[r].status \in {"pending", "running"} /\ runs'[r].status \in {"succeeded", "failed"}
    \/ runs[r].status = "pending" /\ runs'[r].status = "skipped_offline"

\* The step reports no result.
NoReport(r) ==
    runs'[r] = runs[r] \/ runs'[r].cause = runs[r].cause \/ runs'[r].cause \notin Reported

RecordsMove == RecordsTypeOK' /\ \A r \in RunIds : RecordMove(r)

Row == [status : Statuses, cause : Causes]

\* A record is its status and its cause.
LEMMA RecordFields ==
    ASSUME RecordsTypeOK, NEW r \in RunIds
    PROVE  /\ runs[r] \in Row /\ runs[r].status \in Statuses /\ runs[r].cause \in Causes
           /\ \A s : [runs[r] EXCEPT !.status = s] = [status |-> s, cause |-> runs[r].cause]
  BY DEF RecordsTypeOK, Row

\* The claim, the start and a pause or resume.
LEMMA ClaimMoves ==
    ASSUME RecordsTypeOK, NEW r \in RunIds, claimScheduledJob(r)
    PROVE  RecordsMove /\ (\A q \in RunIds : NoReport(q))
           /\ runs[r].status = "absent" /\ runs'[r].status = "pending"
  <1>1. /\ runs[r].status = "absent"
        /\ runs' = [runs EXCEPT ![r] = [status |-> "pending", cause |-> runs[r].cause]]
        /\ UNCHANGED <<active, summary>>
    BY RecordFields DEF claimScheduledJob, RecordsTypeOK
  <1>2. runs[r].cause \in Causes /\ "pending" \in Statuses
    BY RecordFields DEF Statuses
  <1>3. RecordsTypeOK'
    BY <1>1, <1>2 DEF RecordsTypeOK
  <1>4. \A q \in RunIds : RecordMove(q) /\ NoReport(q)
    BY <1>1 DEF RecordsTypeOK, RecordMove, NoReport
  <1> QED
    BY <1>1, <1>3, <1>4 DEF RecordsMove, RecordsTypeOK

\* A start moves a pending run of an active job, and answers "started" only then.
LEMMA StartMoves ==
    ASSUME RecordsTypeOK, NEW r \in RunIds, markRunStarted(r)
    PROVE  /\ RecordsMove /\ \A q \in RunIds : NoReport(q)
           /\ StartReply(r) = "started" => runs'[r].status = "running"
  <1>1. CASE Startable(r)
    <2>1. /\ runs[r].status = "pending"
          /\ runs' = [runs EXCEPT ![r] = [status |-> "running", cause |-> runs[r].cause]]
          /\ UNCHANGED <<active, summary>>
      BY <1>1, RecordFields DEF markRunStarted, Startable, RecordsTypeOK
    <2>2. runs[r].cause \in Causes /\ "running" \in Statuses
      BY RecordFields DEF Statuses
    <2>3. RecordsTypeOK'
      BY <2>1, <2>2 DEF RecordsTypeOK
    <2>4. \A q \in RunIds : RecordMove(q) /\ NoReport(q)
      BY <2>1 DEF RecordsTypeOK, RecordMove, NoReport
    <2> QED
      BY <2>1, <2>3, <2>4 DEF RecordsMove, RecordsTypeOK
  <1>2. CASE ~Startable(r)
    <2>1. runs' = runs /\ UNCHANGED <<active, summary>>
      BY <1>2 DEF markRunStarted
    <2>2. StartReply(r) # "started"
      BY <1>2 DEF StartReply
    <2> QED
      BY <2>1, <2>2 DEF RecordsMove, RecordsTypeOK, RecordMove, NoReport
  <1> QED
    BY <1>1, <1>2

\* A result ends the run or finds it ended; it is a conflict only then.
LEMMA CompleteMoves ==
    ASSUME RecordsTypeOK, \A q \in RunIds : runs[q].cause # "none" => HasEnded(q),
           NEW r \in RunIds, NEW c \in Reported, completeRun(r, c)
    PROVE  /\ RecordsMove
           /\ \A q \in RunIds : runs'[q] = runs[q] \/ (q = r /\ runs'[q].cause = c)
           /\ CompleteReply(r, c) # "unavailable" => HasEnded(r)'
  <1>1. c \in Causes /\ c # "none" /\ StatusOf(c) \in {"succeeded", "failed"}
    BY DEF Reported, Causes, StatusOf
  <1>2. CASE Completable(r)
    <2>1. /\ runs[r].status \in {"pending", "running"}
          /\ runs' = [runs EXCEPT ![r] = [status |-> StatusOf(c), cause |-> c]]
          /\ Summarised(StatusOf(c)) /\ UNCHANGED active
      BY <1>2 DEF completeRun, Completable, Ended
    <2>2. RecordsTypeOK'
      BY <1>1, <2>1 DEF RecordsTypeOK, Summarised, Statuses, Terminal
    <2>3. /\ runs'[r].status \in {"succeeded", "failed"} /\ runs'[r].cause = c
          /\ \A q \in RunIds : q # r => runs'[q] = runs[q]
      BY <1>1, <2>1 DEF RecordsTypeOK
    <2>4. \A q \in RunIds : RecordMove(q)
      BY <2>1, <2>3 DEF RecordMove
    <2> QED
      BY <2>2, <2>3, <2>4 DEF RecordsMove, HasEnded, Terminal
  <1>3. CASE ~Completable(r)
    <2>1. UNCHANGED <<runs, summary, active>>
      BY <1>3 DEF completeRun
    <2>2. RecordsMove
      BY <2>1 DEF RecordsMove, RecordsTypeOK, RecordMove
    <2>3. CompleteReply(r, c) # "unavailable" => runs[r].cause = c \/ runs[r].status \in Terminal
      BY <1>3 DEF CompleteReply
    <2>4. CompleteReply(r, c) # "unavailable" => HasEnded(r)
      BY <1>1, <2>3 DEF HasEnded
    <2> QED
      BY <2>1, <2>2, <2>4 DEF HasEnded
  <1> QED
    BY <1>2, <1>3

\* The clean-up ends stale runs with causes of its own.
LEMMA CleanUpMoves ==
    ASSUME RecordsTypeOK, NEW stale \in SUBSET RunIds, terminalizeStaleRuns(stale)
    PROVE  RecordsMove /\ \A q \in RunIds : NoReport(q)
  <1>1. /\ runs' = [r \in RunIds |->
                      IF r \in Skipped(stale) THEN [status |-> "skipped_offline", cause |-> "stale"]
                      ELSE IF r \in Failed(stale) THEN [status |-> "failed", cause |-> "stale"]
                      ELSE runs[r]]
        /\ UNCHANGED summary \/ Summarised("failed")
        /\ UNCHANGED active
    BY DEF terminalizeStaleRuns
  <1>2. RecordsTypeOK'
    <2>1. \A r \in RunIds : runs[r] \in [status : Statuses, cause : Causes]
      BY DEF RecordsTypeOK
    <2>2. /\ [status |-> "skipped_offline", cause |-> "stale"] \in [status : Statuses, cause : Causes]
          /\ [status |-> "failed", cause |-> "stale"] \in [status : Statuses, cause : Causes]
      BY DEF Statuses, Terminal, Causes
    <2>3. runs' \in [RunIds -> [status : Statuses, cause : Causes]]
      BY <1>1, <2>1, <2>2
    <2> QED
      BY <1>1, <2>3 DEF RecordsTypeOK, Summarised
  <1>3. ASSUME NEW r \in RunIds
        PROVE  RecordMove(r) /\ NoReport(r)
    <2>1. CASE r \in Skipped(stale)
      BY <1>1, <2>1 DEF Skipped, RecordMove, NoReport, Reported
    <2>2. CASE r \in Failed(stale) /\ r \notin Skipped(stale)
      BY <1>1, <2>2 DEF Failed, RecordMove, NoReport, Reported
    <2>3. CASE r \notin Failed(stale) /\ r \notin Skipped(stale)
      BY <1>1, <2>3 DEF RecordMove, NoReport
    <2> QED
      BY <2>1, <2>2, <2>3
  <1> QED
    BY <1>2, <1>3 DEF RecordsMove

\* A step that writes no record.
LEMMA RecordsStay ==
    ASSUME RecordsTypeOK, runs' = runs, summary' = summary, active' \in BOOLEAN
    PROVE  RecordsMove /\ \A q \in RunIds : NoReport(q)
  BY DEF RecordsTypeOK, RecordsMove, RecordMove, NoReport

---------------------------------------------------------------------------
(* What a step does to a row of the outbox: the statements of the store. *)

RowMove(r) ==
    \/ outbox'[r] = outbox[r]
    \/ /\ outbox[r].state = "absent" /\ outbox'[r].state = "claimed" /\ ~outbox'[r].delivered
       /\ worker.pc = "save" /\ worker.run = r
    \/ /\ outbox[r].state = "claimed" /\ outbox'[r].state = "started"
       /\ outbox'[r].delivered = outbox[r].delivered
    \/ /\ outbox[r].state \in Unfinished /\ outbox'[r].state = "finished"
       /\ outbox'[r].cause \in Reported \cup {"rejected"}
       /\ outbox'[r].delivered = outbox[r].delivered
    \/ /\ outbox[r].state = "finished" /\ outbox'[r].state = "finished"
       /\ outbox'[r].cause = outbox[r].cause
       /\ outbox[r].cause = "rejected" \/ HasEnded(r)
    \/ outbox[r].delivered /\ outbox'[r] = NoRow

RowsMove == outbox' \in [RunIds -> OutboxRow] /\ \A r \in RunIds : RowMove(r)

\* Only the worker's first statement inserts a row.
NoInsert == \A r \in RunIds : outbox[r].state = "absent" => outbox'[r].state = "absent"

\* A step that writes no row.
LEMMA RowsStay ==
    ASSUME TypeOK, outbox' = outbox
    PROVE  RowsMove /\ NoInsert
  BY DEF TypeOK, RowsMove, RowMove, NoInsert

\* The worker inserts the row of its run.
LEMMA SaveClaimMoves ==
    ASSUME TypeOK, worker.pc = "save", worker.run \in RunIds, SaveClaim(worker.run)
    PROVE  RowsMove
  <1> DEFINE r == worker.run
  <1>1. outbox[r] = NoRow /\ outbox' = [outbox EXCEPT ![r] = [outbox[r] EXCEPT !.state = "claimed"]]
    BY DEF SaveClaim, TypeOK
  <1>2. outbox[r] \in OutboxRow /\ outbox[r].state = "absent" /\ ~outbox[r].delivered
    BY <1>1 DEF TypeOK, NoRow
  <1>3. [outbox[r] EXCEPT !.state = "claimed"] \in OutboxRow
    BY <1>2 DEF OutboxRow
  <1>4. /\ outbox'[r].state = "claimed" /\ outbox'[r].delivered = outbox[r].delivered
        /\ \A q \in RunIds : q # r => outbox'[q] = outbox[q]
    BY <1>1, <1>2 DEF TypeOK, OutboxRow
  <1> QED
    BY <1>1, <1>2, <1>3, <1>4 DEF TypeOK, RowsMove, RowMove

\* A claimed row becomes started.
LEMMA MarkStartedMoves ==
    ASSUME TypeOK, NEW r \in RunIds, MarkStarted(r)
    PROVE  RowsMove
  <1>1. /\ outbox[r].state = "claimed" /\ outbox[r] \in OutboxRow
        /\ outbox' = [outbox EXCEPT ![r] = [outbox[r] EXCEPT !.state = "started"]]
    BY DEF MarkStarted, TypeOK
  <1>2. [outbox[r] EXCEPT !.state = "started"] \in OutboxRow
    BY <1>1 DEF OutboxRow
  <1>3. /\ outbox'[r].state = "started" /\ outbox'[r].delivered = outbox[r].delivered
        /\ \A q \in RunIds : q # r => outbox'[q] = outbox[q]
    BY <1>1 DEF TypeOK, OutboxRow
  <1> QED
    BY <1>1, <1>2, <1>3 DEF TypeOK, RowsMove, RowMove

\* A result is saved once, over a row that has none.
LEMMA SaveResultMoves ==
    ASSUME TypeOK, NEW r \in RunIds, NEW c \in Reported \cup {"rejected"}, SaveResult(r, c)
    PROVE  RowsMove /\ NoInsert /\ outbox'[r].state = "finished" /\ outbox'[r].cause = c
  <1>1. /\ outbox[r].state \in Unfinished /\ outbox[r] \in OutboxRow
        /\ outbox' = [outbox EXCEPT ![r] = [outbox[r] EXCEPT !.state = "finished", !.cause = c]]
    BY DEF SaveResult, TypeOK
  <1>2. [outbox[r] EXCEPT !.state = "finished", !.cause = c] \in OutboxRow
    BY <1>1 DEF OutboxRow, OutboxCauses
  <1>3. /\ outbox'[r].state = "finished" /\ outbox'[r].cause = c
        /\ outbox'[r].delivered = outbox[r].delivered
        /\ \A q \in RunIds : q # r => outbox'[q] = outbox[q]
    BY <1>1 DEF TypeOK, OutboxRow
  <1> QED
    BY <1>1, <1>2, <1>3 DEF TypeOK, RowsMove, RowMove, NoInsert, Unfinished

\* An acknowledgement prunes rows that were delivered before.
LEMMA MarkDeliveredMoves ==
    ASSUME TypeOK, NEW r \in RunIds, MarkDelivered(r), RejectedOrGone(r) \/ HasEnded(r)
    PROVE  RowsMove /\ NoInsert
  <1> DEFINE box == [outbox EXCEPT ![r] = [outbox[r] EXCEPT !.delivered = TRUE]]
  <1>1. PICK old \in SUBSET Old : outbox' = Pruned(box, old)
    BY DEF MarkDelivered, TypeOK
  <1>2. outbox[r].state = "finished" /\ outbox[r] \in OutboxRow /\ ~outbox[r].delivered
    BY DEF MarkDelivered, CanMarkDelivered, TypeOK
  <1>3. NoRow \in OutboxRow
    BY DEF NoRow, OutboxRow, OutboxCauses
  <1>4. [outbox[r] EXCEPT !.delivered = TRUE] \in OutboxRow
    BY <1>2 DEF OutboxRow
  <1>5. box \in [RunIds -> OutboxRow]
    BY <1>4 DEF TypeOK
  <1>6. \A q \in RunIds : outbox'[q] = IF q \in old THEN NoRow ELSE box[q]
    BY <1>1 DEF Pruned
  <1>7. outbox' \in [RunIds -> OutboxRow]
    BY <1>1, <1>3, <1>5 DEF Pruned
  <1>8. \A q \in RunIds : q # r => box[q] = outbox[q]
    BY DEF TypeOK
  <1>9. box[r].state = "finished" /\ box[r].cause = outbox[r].cause /\ r \notin old
    BY <1>2 DEF TypeOK, OutboxRow, Old
  <1>10. outbox[r].cause = "rejected" \/ HasEnded(r)
    BY <1>2 DEF RejectedOrGone
  <1>11. \A q \in old : outbox[q].delivered
    BY DEF Old
  <1> HIDE DEF box
  <1> QED
    BY <1>2, <1>6, <1>7, <1>8, <1>9, <1>10, <1>11 DEF RowsMove, RowMove, NoInsert, NoRow

---------------------------------------------------------------------------
(* What stays true. *)

\* What is known of a run stays true in every step.
LEMMA FactsStay ==
    ASSUME IInv, RecordsMove, RowsMove, NEW r \in RunIds
    PROVE  /\ HasEnded(r) => HasEnded(r)'
           /\ WasStarted(r) => WasStarted(r)'
           /\ runs[r].status # "absent" => runs'[r].status # "absent"
           /\ \A c \in Reported : Backed(r, c) => Backed(r, c)'
           /\ RejectedOrGone(r) /\ ~(worker.pc = "save" /\ worker.run = r) => RejectedOrGone(r)'
  <1>1. RecordMove(r) /\ RowMove(r)
    BY DEF RecordsMove, RowsMove
  <1>2. /\ HasEnded(r) => HasEnded(r)'
        /\ WasStarted(r) => WasStarted(r)'
        /\ runs[r].status # "absent" => runs'[r].status # "absent"
    BY <1>1 DEF RecordMove, HasEnded, WasStarted, Terminal
  <1>3. ASSUME NEW c \in Reported, Backed(r, c)
        PROVE  Backed(r, c)'
    <2>1. CASE HasEnded(r)
      BY <1>2, <2>1 DEF Backed
    <2>2. CASE outbox[r].state = "finished" /\ outbox[r].cause = c
      <3>1. c # "rejected"
        BY DEF Reported
      <3>2. outbox[r].delivered => HasEnded(r)
        BY <2>2, <3>1 DEF IInv, OutboxOK
      <3> QED
        BY <1>1, <1>2, <2>2, <3>2 DEF RowMove, Backed, Unfinished
    <2> QED
      BY <1>3, <2>1, <2>2 DEF Backed
  <1>4. ASSUME RejectedOrGone(r), ~(worker.pc = "save" /\ worker.run = r)
        PROVE  RejectedOrGone(r)'
    BY <1>1, <1>4 DEF RowMove, RejectedOrGone, Unfinished, NoRow
  <1> QED
    BY <1>2, <1>3, <1>4

\* The records and the outbox stay in order, if agents are started only for started runs.
LEMMA StoresStay ==
    ASSUME IInv, RecordsMove, RowsMove,
           \A r \in RunIds : agents'[r] = agents[r] \/ WasStarted(r)
    PROVE  RecordsOK' /\ OutboxOK'
  <1>1. ASSUME NEW r \in RunIds
        PROVE  /\ runs'[r].cause # "none" => HasEnded(r)'
               /\ agents'[r] > 0 => WasStarted(r)'
    <2>1. RecordMove(r)
      BY DEF RecordsMove
    <2>2. runs[r].cause # "none" => HasEnded(r)
      BY DEF IInv, RecordsOK
    <2>3. runs'[r].cause # "none" => HasEnded(r)'
      BY <2>1, <2>2 DEF RecordMove, HasEnded, Terminal
    <2>4. agents[r] > 0 => WasStarted(r)
      BY DEF IInv, RecordsOK
    <2>5. agents'[r] > 0 => WasStarted(r)'
      BY <2>4, FactsStay
    <2> QED
      BY <2>3, <2>5
  <1>2. ASSUME NEW r \in RunIds
        PROVE  /\ outbox'[r].state # "absent" => runs'[r].status # "absent"
               /\ outbox'[r].state = "finished" => outbox'[r].cause \in Reported \cup {"rejected"}
               /\ outbox'[r].delivered =>
                    outbox'[r].state = "finished" /\ (outbox'[r].cause # "rejected" => HasEnded(r)')
    <2>1. RowMove(r)
      BY DEF RowsMove
    <2>2. /\ outbox[r].state # "absent" => runs[r].status # "absent"
          /\ outbox[r].state = "finished" => outbox[r].cause \in Reported \cup {"rejected"}
          /\ outbox[r].delivered =>
               outbox[r].state = "finished" /\ (outbox[r].cause # "rejected" => HasEnded(r))
      BY DEF IInv, OutboxOK
    <2>3. worker.pc = "save" /\ worker.run = r => runs[r].status # "absent"
      BY DEF IInv, WorkerOK
    <2>4. /\ runs[r].status # "absent" => runs'[r].status # "absent"
          /\ HasEnded(r) => HasEnded(r)'
      BY FactsStay
    <2>5. outbox'[r].state # "absent" => runs'[r].status # "absent"
      BY <2>1, <2>2, <2>3, <2>4 DEF RowMove, Unfinished, NoRow
    <2>6. outbox'[r].state = "finished" => outbox'[r].cause \in Reported \cup {"rejected"}
      BY <2>1, <2>2 DEF RowMove, NoRow
    <2>7. outbox'[r].delivered =>
            outbox'[r].state = "finished" /\ (outbox'[r].cause # "rejected" => HasEnded(r)')
      <3>1. CASE outbox'[r].delivered = outbox[r].delivered /\ outbox[r].state \in Unfinished
        BY <2>2, <3>1 DEF Unfinished
      <3>2. CASE outbox'[r] = NoRow \/ ~outbox'[r].delivered
        BY <3>2 DEF NoRow
      <3>3. CASE outbox'[r] = outbox[r]
        BY <2>2, <2>4, <3>3
      <3>4. CASE /\ outbox'[r].state = "finished" /\ outbox'[r].cause = outbox[r].cause
                 /\ outbox[r].cause = "rejected" \/ HasEnded(r)
        BY <2>4, <3>4
      <3> QED
        BY <2>1, <3>1, <3>2, <3>3, <3>4 DEF RowMove, Unfinished
    <2> QED
      BY <2>5, <2>6, <2>7
  <1> QED
    BY <1>1, <1>2 DEF RecordsOK, OutboxOK

\* A worker that works has a run.
LEMMA WorkerFields ==
    ASSUME TypeOK
    PROVE  /\ worker.pc # "idle" => /\ worker.run \in RunIds /\ worker.run # NoRun
                                    /\ worker.cause \in OutboxCauses
                                    /\ worker \in [run : RunIds, pc : WorkerSteps, cause : OutboxCauses]
           /\ worker.pc = "idle" => worker = Idle /\ worker.run = NoRun
  <1>1. NoRun \notin RunIds
    BY RecordConstants DEF RunIds
  <1>2. CASE worker = Idle
    BY <1>2 DEF Idle
  <1>3. CASE worker \in [run : RunIds, pc : WorkerSteps, cause : OutboxCauses]
    BY <1>1, <1>3 DEF WorkerSteps
  <1> QED
    BY <1>2, <1>3 DEF TypeOK

\* A step of somebody else leaves the worker in order.
LEMMA WorkerStays ==
    ASSUME IInv, RecordsMove, RowsMove, NoInsert,
           worker' = worker, activeRunIDs' = activeRunIDs,
           worker.pc # "idle" => phase' = phase,
           worker.pc = "save" => \A row \in rec'.rows : row.run # worker.run
    PROVE  WorkerOK'
  <1>1. TypeOK /\ WorkerOK
    BY DEF IInv
  <1>2. CASE worker.pc = "idle"
    BY <1>2 DEF WorkerOK
  <1>3. CASE worker.pc # "idle"
    <2>1. worker.run \in RunIds
      BY <1>1, <1>3, WorkerFields
    <2>2. /\ HasEnded(worker.run) => (HasEnded(worker.run))'
          /\ WasStarted(worker.run) => (WasStarted(worker.run))'
          /\ runs[worker.run].status # "absent" => runs'[worker.run].status # "absent"
          /\ worker.cause \in Reported /\ Backed(worker.run, worker.cause) =>
               (Backed(worker.run, worker.cause))'
          /\ RejectedOrGone(worker.run) /\ worker.pc # "save" => (RejectedOrGone(worker.run))'
      <3>1. \A r \in RunIds :
              /\ HasEnded(r) => HasEnded(r)'
              /\ WasStarted(r) => WasStarted(r)'
              /\ runs[r].status # "absent" => runs'[r].status # "absent"
              /\ \A c \in Reported : Backed(r, c) => Backed(r, c)'
              /\ RejectedOrGone(r) /\ ~(worker.pc = "save" /\ worker.run = r) => RejectedOrGone(r)'
        BY FactsStay
      <3> QED
        BY <2>1, <3>1 DEF HasEnded, WasStarted, Backed, RejectedOrGone
    <2>3. worker.pc = "save" => outbox'[worker.run].state = "absent"
      BY <1>1, <2>1 DEF WorkerOK, NoInsert
    <2> QED
      BY <1>1, <1>3, <2>2, <2>3 DEF WorkerOK, Backed
  <1> QED
    BY <1>2, <1>3

\* A step of somebody else leaves what the recovery knows in order.
LEMMA RecoveryStays ==
    ASSUME IInv, RecordsMove, RowsMove, rec' = rec
    PROVE  ListedOK' /\ RecoveryOK'
  <1>1. TypeOK /\ WorkerOK /\ ListedOK /\ RecoveryOK /\ OneOwner
    BY DEF IInv
  <1>2. \A r \in RunIds :
          /\ HasEnded(r) => HasEnded(r)'
          /\ runs[r].status # "absent" => runs'[r].status # "absent"
          /\ \A c \in Reported : Backed(r, c) => Backed(r, c)'
          /\ RejectedOrGone(r) /\ ~(worker.pc = "save" /\ worker.run = r) => RejectedOrGone(r)'
    BY FactsStay
  <1>3. ASSUME NEW row \in rec.rows
        PROVE  /\ runs'[row.run].status # "absent"
               /\ row.state = "finished" /\ row.cause # "rejected" => Backed(row.run, row.cause)'
               /\ row.state = "finished" /\ row.cause = "rejected" => RejectedOrGone(row.run)'
    <2>1. row.run \in RunIds
      BY <1>1 DEF TypeOK, ListedRow
    <2>2. worker.pc = "save" => worker.run # row.run
      BY <1>1 DEF WorkerOK
    <2>3. /\ runs[row.run].status # "absent"
          /\ row.state = "finished" /\ row.cause # "rejected" => Backed(row.run, row.cause)
          /\ row.state = "finished" /\ row.cause = "rejected" => RejectedOrGone(row.run)
      BY <1>1 DEF ListedOK
    <2>4. Backed(row.run, row.cause) => row.cause \in Reported
      BY DEF Backed
    <2> QED
      BY <1>2, <2>1, <2>2, <2>3, <2>4
  <1>4. ListedOK'
    BY <1>3 DEF ListedOK
  <1>5. RecoveryOK'
    <2>1. CASE rec.pc \in {"list", "next"}
      BY <2>1 DEF RecoveryOK
    <2>2. CASE rec.pc \notin {"list", "next"}
      <3>1. rec.run \in RunIds /\ runs[rec.run].status # "absent"
        BY <1>1, <2>2 DEF RecoveryOK
      <3>2. worker.pc = "save" => worker.run # rec.run
        BY <1>1, <2>2, WorkerFields DEF OneOwner
      <3>3. /\ HasEnded(rec.run) => (HasEnded(rec.run))'
            /\ runs'[rec.run].status # "absent"
            /\ Backed(rec.run, rec.cause) => (Backed(rec.run, rec.cause))'
            /\ RejectedOrGone(rec.run) => (RejectedOrGone(rec.run))'
        <4>1. Backed(rec.run, rec.cause) => rec.cause \in Reported
          BY DEF Backed
        <4> QED
          BY <1>2, <3>1, <3>2, <4>1 DEF HasEnded, Backed, RejectedOrGone
      <3> QED
        BY <1>1, <3>1, <3>3 DEF RecoveryOK
    <2> QED
      BY <2>1, <2>2
  <1> QED
    BY <1>4, <1>5

\* Requests on their way stay reportable; a new one must be.
LEMMA LateStays ==
    ASSUME IInv, RecordsMove, RowsMove,
           \A q \in late' : q \in late \/ q[1] # "complete" \/ (q[2] \in RunIds /\ Backed(q[2], q[3]))
    PROVE  LateOK'
  <1>1. \A r \in RunIds : \A c \in Reported : Backed(r, c) => Backed(r, c)'
    BY FactsStay
  <1>2. \A q \in late : q[2] \in RunIds
    BY DEF IInv, TypeOK, Requests
  <1>3. ASSUME NEW q \in late', q[1] = "complete"
        PROVE  Backed(q[2], q[3])'
    <2>1. q[2] \in RunIds /\ Backed(q[2], q[3])
      BY <1>2, <1>3 DEF IInv, LateOK
    <2>2. q[3] \in Reported
      BY <2>1 DEF Backed
    <2> QED
      BY <1>1, <2>1, <2>2
  <1> QED
    BY <1>3 DEF LateOK

---------------------------------------------------------------------------
(* The actions keep the invariant. *)

\* Nothing is claimed, listed or on its way at first.
LEMMA InitOK == Init => IInv
  <1> SUFFICES ASSUME Init PROVE IInv
    OBVIOUS
  <1>1. NoRow \in OutboxRow /\ [status |-> "absent", cause |-> "none"] \in Row
    BY DEF NoRow, OutboxRow, OutboxCauses, Row, Statuses, Causes
  <1>2. RecordsTypeOK
    BY <1>1 DEF Init, RecordsInit, RecordsTypeOK, Row
  <1>3. rec \in [pc : RecoverySteps, rows : SUBSET ListedRow, run : RunIds \cup {NoRun},
                 cause : OutboxCauses, isFailed : BOOLEAN]
    BY DEF Init, Listing, RecoverySteps, OutboxCauses
  <1>4. TypeOK
    BY <1>1, <1>2, <1>3, ScheduledConstants DEF Init, TypeOK
  <1>5. RecordsOK /\ OutboxOK
    BY DEF Init, RecordsInit, RecordsOK, OutboxOK, NoRow
  <1>6. WorkerOK /\ ListedOK /\ RecoveryOK /\ LateOK /\ OneOwner
    BY DEF Init, WorkerOK, ListedOK, RecoveryOK, LateOK, OneOwner, Idle, Listing
  <1> QED
    BY <1>4, <1>5, <1>6 DEF IInv

\* A step outside the daemon.
LEMMA OutsideKeeps ==
    ASSUME IInv, RecordsMove, late' \subseteq late, UNCHANGED <<daemonVars, agents, crashes>>
    PROVE  IInv'
  <1>1. /\ TypeOK /\ outbox' = outbox /\ worker' = worker /\ activeRunIDs' = activeRunIDs
        /\ phase' = phase /\ rec' = rec /\ agents' = agents /\ crashes' = crashes
    BY DEF IInv, daemonVars
  <1>2. RowsMove /\ NoInsert
    BY <1>1, RowsStay
  <1>3. TypeOK'
    BY <1>1 DEF TypeOK, RecordsMove
  <1>4. RecordsOK' /\ OutboxOK'
    BY <1>1, <1>2, StoresStay
  <1>5. WorkerOK'
    BY <1>1, <1>2, WorkerStays DEF IInv, WorkerOK
  <1>6. ListedOK' /\ RecoveryOK' /\ LateOK'
    BY <1>1, <1>2, RecoveryStays, LateStays
  <1>7. OneOwner'
    BY <1>1 DEF IInv, OneOwner
  <1> QED
    BY <1>3, <1>4, <1>5, <1>6, <1>7 DEF IInv

\* A request whose caller gave up arrives: a start, or a result that is still backed.
LEMMA LateArrivesKeeps ==
    ASSUME IInv, LateArrives
    PROVE  IInv'
  <1>1. PICK q \in late : late' = late \ {q} /\ Serve(q) /\ UNCHANGED <<daemonVars, agents, crashes>>
    BY DEF LateArrives
  <1>2. RecordsTypeOK /\ q[1] \in {"start", "complete"} /\ q[2] \in RunIds
    BY DEF IInv, TypeOK, Requests
  <1>3. CASE q[1] = "start"
    <2>1. RecordsMove
      BY <1>1, <1>2, <1>3, StartMoves DEF Serve
    <2> QED
      BY <1>1, <2>1, OutsideKeeps
  <1>4. CASE q[1] = "complete"
    <2>1. q[3] \in Reported /\ completeRun(q[2], q[3])
      BY <1>1, <1>4 DEF IInv, LateOK, Backed, Serve
    <2>2. \A r \in RunIds : runs[r].cause # "none" => HasEnded(r)
      BY DEF IInv, RecordsOK
    <2>3. RecordsMove
      BY <1>2, <2>1, <2>2, CompleteMoves
    <2> QED
      BY <1>1, <2>3, OutsideKeeps
  <1> QED
    BY <1>2, <1>3, <1>4

\* The clean-up, and a pause or a resume, are the API's own.
LEMMA ServiceKeeps ==
    ASSUME IInv, CleanUp \/ ChangeJob
    PROVE  IInv'
  <1>1. RecordsTypeOK /\ UNCHANGED <<daemonVars, late, agents, crashes>>
    BY DEF IInv, TypeOK, CleanUp, ChangeJob
  <1>2. RecordsMove
    <2>1. CASE CleanUp
      BY <1>1, <2>1, CleanUpMoves DEF CleanUp
    <2>2. CASE ChangeJob
      <3>1. runs' = runs /\ summary' = summary /\ active' \in BOOLEAN
        BY <2>2 DEF ChangeJob, pauseScheduledJob, resumeScheduledJob
      <3> QED
        BY <1>1, <3>1, RecordsStay
    <2> QED
      BY <2>1, <2>2
  <1> QED
    BY <1>1, <1>2, OutsideKeeps

\* After a crash only the outbox and the records are left.
LEMMA RestartKeeps ==
    ASSUME IInv, Restart
    PROVE  IInv'
  <1>1. /\ crashes < MaxCrashes /\ crashes' = crashes + 1 /\ worker' = Idle /\ activeRunIDs' = {}
        /\ phase' = "recovering" /\ rec' = Listing
        /\ UNCHANGED <<runs, active, summary, outbox, late, agents>>
    BY DEF Restart, recordVars
  <1>2. TypeOK /\ RecordsTypeOK
    BY DEF IInv, TypeOK
  <1>3. RecordsMove /\ RowsMove /\ NoInsert
    BY <1>1, <1>2, RecordsStay, RowsStay DEF RecordsTypeOK
  <1>4. TypeOK'
    <2>1. crashes' \in 0..MaxCrashes
      BY <1>1, <1>2, ScheduledConstants DEF TypeOK
    <2>2. rec' \in [pc : RecoverySteps, rows : SUBSET ListedRow, run : RunIds \cup {NoRun},
                    cause : OutboxCauses, isFailed : BOOLEAN]
      BY <1>1 DEF Listing, RecoverySteps, OutboxCauses
    <2> QED
      BY <1>1, <1>2, <1>3, <2>1, <2>2 DEF TypeOK, RecordsMove
  <1>5. RecordsOK' /\ OutboxOK'
    BY <1>1, <1>3, StoresStay
  <1>6. LateOK'
    BY <1>1, <1>3, LateStays
  <1>7. WorkerOK' /\ ListedOK' /\ RecoveryOK' /\ OneOwner'
    BY <1>1 DEF WorkerOK, ListedOK, RecoveryOK, OneOwner, Idle, Listing
  <1> QED
    BY <1>4, <1>5, <1>6, <1>7 DEF IInv

\* A step of the worker on its run.
LEMMA WorkerKeeps ==
    ASSUME IInv, RecordsMove, RowsMove, rec' = rec, phase' = phase,
           activeRunIDs' = activeRunIDs, crashes' = crashes,
           NEW r \in RunIds, r = worker.run, worker.pc # "idle",
           NEW next \in WorkerSteps \ {"save"}, NEW c \in OutboxCauses,
           worker' = [run |-> r, pc |-> next, cause |-> c],
           next \in {"mark", "agent", "running"} => WasStarted(r)',
           next = "result" => c \in Reported,
           next = "complete" => Backed(r, c)',
           next = "ack" => HasEnded(r)',
           next = "ackRejected" => RejectedOrGone(r)',
           late' \subseteq Requests,
           \A q \in late' : q \in late \/ q[1] # "complete" \/ (q[2] \in RunIds /\ Backed(q[2], q[3])),
           agents' \in [RunIds -> Nat],
           \A q \in RunIds : agents'[q] = agents[q] \/ WasStarted(q)
    PROVE  IInv'
  <1>1. TypeOK
    BY DEF IInv
  <1>2. TypeOK'
    BY <1>1 DEF TypeOK, RecordsMove, RowsMove
  <1>3. RecordsOK' /\ OutboxOK'
    BY StoresStay
  <1>4. ListedOK' /\ RecoveryOK'
    BY RecoveryStays
  <1>5. LateOK'
    BY LateStays
  <1>6. OneOwner'
    BY DEF IInv, OneOwner
  <1>7. WorkerOK'
    <2>1. phase = "enabled" /\ r \in activeRunIDs /\ runs[r].status # "absent"
      BY DEF IInv, WorkerOK
    <2>2. runs'[r].status # "absent"
      BY <2>1, FactsStay
    <2>3. worker'.run = r /\ worker'.pc = next /\ worker'.cause = c
      OBVIOUS
    <2>4. /\ worker'.pc # "save"
          /\ worker'.pc \in {"mark", "agent", "running"} => (WasStarted(worker.run))'
          /\ worker'.pc = "complete" => (Backed(worker.run, worker.cause))'
          /\ worker'.pc = "ack" => (HasEnded(worker.run))'
          /\ worker'.pc = "ackRejected" => (RejectedOrGone(worker.run))'
      BY <2>3 DEF WasStarted, Backed, HasEnded, RejectedOrGone
    <2> QED
      BY <2>1, <2>2, <2>3, <2>4 DEF WorkerOK
  <1> QED
    BY <1>2, <1>3, <1>4, <1>5, <1>6, <1>7 DEF IInv

\* Go keeps the worker's run and its cause.
LEMMA GoMoves ==
    ASSUME TypeOK, worker.pc # "idle", NEW next \in WorkerSteps, Go(next)
    PROVE  /\ worker.run \in RunIds /\ worker.cause \in OutboxCauses
           /\ worker' = [run |-> worker.run, pc |-> next, cause |-> worker.cause]
  BY WorkerFields DEF Go

\* A step of the worker that only writes its row.
LEMMA RowStepKeeps ==
    ASSUME IInv, RowsMove, worker.pc # "idle",
           UNCHANGED <<recordVars, activeRunIDs, phase, rec, late, agents, crashes>>,
           NEW r \in RunIds, r = worker.run,
           NEW next \in {"start", "agent", "complete", "ackRejected", "unregister"}, Go(next),
           next = "agent" => WasStarted(r),
           next = "complete" => Backed(r, worker.cause)',
           next = "ackRejected" => RejectedOrGone(r)'
    PROVE  IInv'
  <1>1. TypeOK /\ RecordsTypeOK
    BY DEF IInv, TypeOK
  <1>2. next \in WorkerSteps \ {"save"}
    BY DEF WorkerSteps
  <1>3. /\ UNCHANGED <<runs, active, summary>> /\ UNCHANGED <<activeRunIDs, phase, rec, late>>
        /\ agents' = agents /\ crashes' = crashes
    BY DEF recordVars
  <1>4. RecordsMove
    BY <1>1, <1>3, RecordsStay DEF RecordsTypeOK
  <1> DEFINE c == worker.cause
  <1>5. c \in OutboxCauses /\ worker' = [run |-> r, pc |-> next, cause |-> c]
    BY <1>1, <1>2, GoMoves
  <1>6. next = "agent" => WasStarted(r)'
    BY <1>3 DEF WasStarted
  <1>7. next = "complete" => Backed(r, c)'
    <2>1. worker'.cause = worker.cause
      BY <1>5
    <2> QED
      BY <2>1 DEF Backed, HasEnded
  <1>8. late' \subseteq Requests /\ agents' \in [RunIds -> Nat]
    BY <1>1, <1>3 DEF TypeOK
  <1> HIDE DEF c
  <1> QED
    BY <1>2, <1>3, <1>4, <1>5, <1>6, <1>7, <1>8, WorkerKeeps

\* The statements on the worker's row, done or given up.
LEMMA WorkerWritesKeeps ==
    ASSUME IInv, saveClaim \/ markStarted \/ saveResult \/ markDelivered \/ saveRejected \/ ackRejected
    PROVE  IInv'
  <1>1. TypeOK /\ WorkerOK
    BY DEF IInv
  <1>2. worker.pc # "idle" /\ UNCHANGED <<recordVars, activeRunIDs, phase, rec, late, agents, crashes>>
    BY DEF saveClaim, markStarted, saveResult, markDelivered, saveRejected, ackRejected, OnRow, At
  <1>3. PICK r \in RunIds : r = worker.run
    BY <1>1, <1>2, WorkerFields
  <1>4. CASE UNCHANGED outbox /\ Go("unregister")
    <2>1. RowsMove
      BY <1>1, <1>4, RowsStay
    <2> QED
      BY <1>2, <1>3, <1>4, <2>1, RowStepKeeps
  <1>5. CASE worker.pc = "save" /\ SaveClaim(worker.run) /\ Go("start")
    <2>1. RowsMove
      BY <1>1, <1>3, <1>5, SaveClaimMoves
    <2> QED
      BY <1>2, <1>3, <1>5, <2>1, RowStepKeeps
  <1>6. CASE worker.pc = "mark" /\ MarkStarted(worker.run) /\ Go("agent")
    <2>1. RowsMove /\ WasStarted(r)
      BY <1>1, <1>3, <1>6, MarkStartedMoves DEF WorkerOK
    <2> QED
      BY <1>2, <1>3, <1>6, <2>1, RowStepKeeps
  <1>7. CASE worker.pc = "result" /\ SaveResult(worker.run, worker.cause) /\ Go("complete")
    <2>1. worker.cause \in Reported /\ worker'.cause = worker.cause
      BY <1>1, <1>2, <1>7, GoMoves DEF WorkerOK, WorkerSteps
    <2>2. RowsMove /\ outbox'[r].state = "finished" /\ outbox'[r].cause = worker.cause
      BY <1>1, <1>3, <1>7, <2>1, SaveResultMoves
    <2>3. Backed(r, worker.cause)'
      BY <2>1, <2>2 DEF Backed
    <2> QED
      BY <1>2, <1>3, <1>7, <2>2, <2>3, RowStepKeeps
  <1>8. CASE worker.pc = "saveRejected" /\ SaveResult(worker.run, "rejected") /\ Go("ackRejected")
    <2>1. RowsMove /\ outbox'[r].state = "finished" /\ outbox'[r].cause = "rejected"
      BY <1>1, <1>3, <1>8, SaveResultMoves
    <2>2. RejectedOrGone(r)'
      BY <2>1 DEF RejectedOrGone
    <2> QED
      BY <1>2, <1>3, <1>8, <2>1, <2>2, RowStepKeeps
  <1>9. CASE worker.pc \in {"ack", "ackRejected"} /\ MarkDelivered(worker.run) /\ Go("unregister")
    <2>1. RejectedOrGone(r) \/ HasEnded(r)
      BY <1>1, <1>3, <1>9 DEF WorkerOK
    <2>2. RowsMove
      BY <1>1, <1>3, <1>9, <2>1, MarkDeliveredMoves
    <2> QED
      BY <1>2, <1>3, <1>9, <2>2, RowStepKeeps
  <1> QED
    BY <1>4, <1>5, <1>6, <1>7, <1>8, <1>9
      DEF saveClaim, markStarted, saveResult, markDelivered, saveRejected, ackRejected, OnRow, At

\* A call that was not served leaves the records, and a request that may still arrive.
LEMMA NotServedMoves ==
    ASSUME TypeOK, NEW request \in Requests, NEW e, NotServed(request, e)
    PROVE  /\ RecordsMove /\ \A q \in RunIds : NoReport(q)
           /\ late' \subseteq Requests /\ late' \subseteq late \cup {request}
  <1>1. UNCHANGED <<runs, active, summary>> /\ late' \subseteq late \cup {request}
    BY DEF NotServed, recordVars
  <1>2. late' \subseteq Requests
    BY <1>1 DEF TypeOK
  <1>3. RecordsTypeOK
    BY DEF TypeOK
  <1>4. active' \in BOOLEAN
    BY <1>1, <1>3 DEF RecordsTypeOK
  <1> QED
    BY <1>1, <1>2, <1>3, <1>4, RecordsStay

\* The worker's call that starts the run.
LEMMA startRunKeeps ==
    ASSUME IInv, startRun
    PROVE  IInv'
  <1>1. TypeOK /\ RecordsTypeOK /\ WorkerOK
    BY DEF IInv, TypeOK
  <1>2. /\ worker.pc = "start"
        /\ outbox' = outbox /\ activeRunIDs' = activeRunIDs /\ phase' = phase /\ rec' = rec
        /\ agents' = agents /\ crashes' = crashes
    BY DEF startRun, At
  <1>3. PICK r \in RunIds : r = worker.run
    BY <1>1, <1>2, WorkerFields
  <1>4. PICK c \in OutboxCauses : c = worker.cause
    BY <1>1, <1>2, WorkerFields
  <1>5. RowsMove
    BY <1>1, <1>2, RowsStay
  <1>6. agents' \in [RunIds -> Nat] /\ late \subseteq Requests
    BY <1>1, <1>2 DEF TypeOK
  <1>7. CASE markRunStarted(r) /\ Go(StartOutcome(r)) /\ late' = late
    <2>1. RecordsMove /\ (StartReply(r) = "started" => runs'[r].status = "running")
      BY <1>1, <1>7, StartMoves
    <2>2. PICK next \in {"mark", "saveRejected"} :
             next = StartOutcome(r) /\ (next = "mark" => runs'[r].status = "running")
      BY <2>1 DEF StartOutcome
    <2>3. next \in WorkerSteps \ {"save"}
      BY DEF WorkerSteps
    <2>4. worker' = [run |-> r, pc |-> next, cause |-> c]
      BY <1>1, <1>2, <1>3, <1>4, <1>7, <2>2, <2>3, GoMoves
    <2>5. next = "mark" => WasStarted(r)'
      BY <2>2 DEF WasStarted
    <2> QED
      BY <1>2, <1>3, <1>5, <1>6, <1>7, <2>1, <2>3, <2>4, <2>5, WorkerKeeps
  <1>8. CASE (\E e \in ErrorKinds : NotServed(Start(r), e)) /\ Go("unregister")
    <2>1. Start(r) \in Requests /\ Start(r)[1] # "complete"
      BY DEF Start, Requests
    <2>2. RecordsMove /\ late' \subseteq Requests /\ late' \subseteq late \cup {Start(r)}
      BY <1>1, <1>8, <2>1, NotServedMoves
    <2>3. "unregister" \in WorkerSteps \ {"save"}
      BY DEF WorkerSteps
    <2>4. worker' = [run |-> r, pc |-> "unregister", cause |-> c]
      BY <1>1, <1>2, <1>3, <1>4, <1>8, <2>3, GoMoves
    <2>5. \A q \in late' : q \in late \/ q[1] # "complete"
      BY <2>1, <2>2
    <2> QED
      BY <1>2, <1>3, <1>5, <1>6, <2>2, <2>3, <2>4, <2>5, WorkerKeeps
  <1> QED
    BY <1>3, <1>7, <1>8 DEF startRun

\* The worker's report of the result.
LEMMA completeKeeps ==
    ASSUME IInv, complete
    PROVE  IInv'
  <1>1. TypeOK /\ RecordsTypeOK /\ WorkerOK
    BY DEF IInv, TypeOK
  <1>2. /\ worker.pc = "complete"
        /\ outbox' = outbox /\ activeRunIDs' = activeRunIDs /\ phase' = phase /\ rec' = rec
        /\ agents' = agents /\ crashes' = crashes
    BY DEF complete, At
  <1>3. PICK r \in RunIds : r = worker.run
    BY <1>1, <1>2, WorkerFields
  <1>4. PICK c \in OutboxCauses : c = worker.cause
    BY <1>1, <1>2, WorkerFields
  <1>5. RowsMove
    BY <1>1, <1>2, RowsStay
  <1>6. agents' \in [RunIds -> Nat] /\ late \subseteq Requests
    BY <1>1, <1>2 DEF TypeOK
  <1>7. Backed(r, c) /\ c \in Reported
    BY <1>1, <1>2, <1>3, <1>4 DEF WorkerOK, Backed
  <1>8. CASE /\ completeRun(r, c) /\ late' = late
             /\ Go(IF CompleteReply(r, c) = "unavailable" THEN "unregister" ELSE "ack")
    <2>1. \A q \in RunIds : runs[q].cause # "none" => HasEnded(q)
      BY DEF IInv, RecordsOK
    <2>2. RecordsMove /\ (CompleteReply(r, c) # "unavailable" => HasEnded(r)')
      BY <1>1, <1>7, <1>8, <2>1, CompleteMoves
    <2>3. PICK next \in {"unregister", "ack"} : Go(next) /\ (next = "ack" => HasEnded(r)')
      BY <1>8, <2>2
    <2>4. next \in WorkerSteps \ {"save"}
      BY DEF WorkerSteps
    <2>5. worker' = [run |-> r, pc |-> next, cause |-> c]
      BY <1>1, <1>2, <1>3, <1>4, <2>3, <2>4, GoMoves
    <2> QED
      BY <1>2, <1>3, <1>5, <1>6, <1>8, <2>2, <2>3, <2>4, <2>5, WorkerKeeps
  <1>9. CASE (\E e \in ErrorKinds : NotServed(Complete(r, c), e)) /\ Go("unregister")
    <2>1. Complete(r, c) \in Requests /\ Complete(r, c)[2] = r /\ Complete(r, c)[3] = c
      BY <1>7 DEF Complete, Requests
    <2>2. RecordsMove /\ late' \subseteq Requests /\ late' \subseteq late \cup {Complete(r, c)}
      BY <1>1, <1>9, <2>1, NotServedMoves
    <2>3. "unregister" \in WorkerSteps \ {"save"}
      BY DEF WorkerSteps
    <2>4. worker' = [run |-> r, pc |-> "unregister", cause |-> c]
      BY <1>1, <1>2, <1>3, <1>4, <1>9, <2>3, GoMoves
    <2>5. \A q \in late' : q \in late \/ (q[2] \in RunIds /\ Backed(q[2], q[3]))
      BY <1>7, <2>1, <2>2
    <2> QED
      BY <1>2, <1>3, <1>5, <1>6, <2>2, <2>3, <2>4, <2>5, WorkerKeeps
  <1> QED
    BY <1>3, <1>4, <1>8, <1>9 DEF complete

\* The agent process is started, is not, or ends.
LEMMA AgentKeeps ==
    ASSUME IInv, runAgent \/ agentExits
    PROVE  IInv'
  <1>1. TypeOK /\ RecordsTypeOK /\ WorkerOK
    BY DEF IInv, TypeOK
  <1>2. /\ worker.pc \in {"agent", "running"}
        /\ UNCHANGED <<runs, active, summary>>
        /\ outbox' = outbox /\ activeRunIDs' = activeRunIDs /\ phase' = phase /\ rec' = rec
        /\ late' = late /\ crashes' = crashes
    BY DEF runAgent, agentExits, At, recordVars
  <1>3. PICK r \in RunIds : r = worker.run
    BY <1>1, <1>2, WorkerFields
  <1>4. RowsMove /\ RecordsMove
    BY <1>1, <1>2, RowsStay, RecordsStay DEF RecordsTypeOK
  <1>5. late' \subseteq Requests /\ agents \in [RunIds -> Nat]
    BY <1>1, <1>2 DEF TypeOK
  <1>6. WasStarted(r) /\ WasStarted(r)'
    BY <1>1, <1>2, <1>3 DEF WorkerOK, WasStarted
  <1>7. CASE agents' = [agents EXCEPT ![r] = @ + 1] /\ Go("running")
    <2>1. PICK c \in OutboxCauses : c = worker.cause
      BY <1>1, <1>2, WorkerFields
    <2>2. "running" \in WorkerSteps \ {"save"}
      BY DEF WorkerSteps
    <2>3. worker' = [run |-> r, pc |-> "running", cause |-> c]
      BY <1>1, <1>2, <1>3, <1>7, <2>1, <2>2, GoMoves
    <2>4. agents' \in [RunIds -> Nat] /\ \A q \in RunIds : agents'[q] = agents[q] \/ WasStarted(q)
      BY <1>5, <1>6, <1>7
    <2> QED
      BY <1>2, <1>3, <1>4, <1>5, <1>6, <2>2, <2>3, <2>4, WorkerKeeps
  <1>8. CASE /\ agents' = agents
             /\ \E c \in {"done", "agentFailed"} :
                    worker' = [worker EXCEPT !.pc = "result", !.cause = c]
    <2>1. PICK c \in {"done", "agentFailed"} :
                    worker' = [worker EXCEPT !.pc = "result", !.cause = c]
      BY <1>8
    <2>2. "result" \in WorkerSteps \ {"save"} /\ c \in Reported /\ c \in OutboxCauses
      BY DEF WorkerSteps, Reported, OutboxCauses
    <2>3. worker' = [run |-> r, pc |-> "result", cause |-> c]
      BY <1>1, <1>2, <1>3, <2>1, WorkerFields
    <2> QED
      BY <1>2, <1>3, <1>4, <1>5, <1>8, <2>2, <2>3, WorkerKeeps
  <1> QED
    BY <1>3, <1>7, <1>8 DEF runAgent, agentExits

\* An occurrence is claimed: nobody knows the run but the worker, if it got the answer.
LEMMA claimAndExecuteKeeps ==
    ASSUME IInv, NEW r \in Scheduled, claimAndExecute(r)
    PROVE  IInv'
  <1>1. /\ TypeOK /\ RecordsTypeOK /\ OutboxOK /\ ListedOK /\ RecoveryOK /\ OneOwner
        /\ r \in RunIds
    BY DEF IInv, TypeOK, RunIds
  <1>2. /\ phase = "enabled" /\ worker.pc = "idle" /\ claimScheduledJob(r)
        /\ outbox' = outbox /\ phase' = phase /\ rec' = rec /\ late' = late /\ agents' = agents
        /\ crashes' = crashes
    BY DEF claimAndExecute, At
  <1>3. RecordsMove /\ runs[r].status = "absent" /\ runs'[r].status = "pending"
    BY <1>1, <1>2, ClaimMoves
  <1>4. RowsMove /\ NoInsert
    BY <1>1, <1>2, RowsStay
  <1>5. RecordsOK' /\ OutboxOK'
    BY <1>2, <1>3, <1>4, StoresStay
  <1>6. ListedOK' /\ RecoveryOK' /\ LateOK'
    BY <1>2, <1>3, <1>4, RecoveryStays, LateStays
  <1>7. CASE worker' = worker /\ activeRunIDs' = activeRunIDs
    <2>1. TypeOK'
      BY <1>1, <1>2, <1>3, <1>7 DEF TypeOK, RecordsMove
    <2>2. WorkerOK'
      BY <1>2, <1>3, <1>4, <1>7, WorkerStays
    <2>3. OneOwner'
      BY <1>1, <1>2, <1>7 DEF OneOwner
    <2> QED
      BY <1>5, <1>6, <2>1, <2>2, <2>3 DEF IInv
  <1>8. CASE /\ worker' = [run |-> r, pc |-> "save", cause |-> "none"]
             /\ activeRunIDs' = activeRunIDs \cup {r}
    <2>1. worker' \in [run : RunIds, pc : WorkerSteps, cause : OutboxCauses]
      BY <1>1, <1>8 DEF WorkerSteps, OutboxCauses
    <2>2. TypeOK'
      BY <1>1, <1>2, <1>3, <1>8, <2>1 DEF TypeOK, RecordsMove
    <2>3. outbox[r].state = "absent" /\ \A row \in rec.rows : row.run # r
      BY <1>1, <1>3 DEF OutboxOK, ListedOK
    <2>4. WorkerOK'
      BY <1>2, <1>3, <1>8, <2>3 DEF WorkerOK
    <2>5. OneOwner'
      BY <1>1, <1>2, <1>3, <1>8 DEF OneOwner, RecoveryOK
    <2> QED
      BY <1>5, <1>6, <2>2, <2>4, <2>5 DEF IInv
  <1> QED
    BY <1>7, <1>8 DEF claimAndExecute

\* The worker is done with its run.
LEMMA unregisterActiveRunKeeps ==
    ASSUME IInv, unregisterActiveRun
    PROVE  IInv'
  <1>1. TypeOK /\ RecordsTypeOK
    BY DEF IInv, TypeOK
  <1>2. /\ UNCHANGED <<runs, active, summary>> /\ activeRunIDs' \subseteq activeRunIDs /\ worker' = Idle
        /\ outbox' = outbox /\ phase' = phase /\ rec' = rec /\ late' = late /\ agents' = agents
        /\ crashes' = crashes
    BY DEF unregisterActiveRun, recordVars
  <1>3. RowsMove /\ RecordsMove
    BY <1>1, <1>2, RowsStay, RecordsStay DEF RecordsTypeOK
  <1>4. RecordsOK' /\ OutboxOK'
    BY <1>2, <1>3, StoresStay
  <1>5. ListedOK' /\ RecoveryOK' /\ LateOK'
    BY <1>2, <1>3, RecoveryStays, LateStays
  <1>6. TypeOK'
    BY <1>1, <1>2, <1>3 DEF TypeOK, RecordsMove
  <1>7. WorkerOK' /\ OneOwner'
    BY <1>2 DEF WorkerOK, OneOwner, Idle
  <1> QED
    BY <1>4, <1>5, <1>6, <1>7 DEF IInv

\* The copies listed before and those listed now tell the truth.
LEMMA CopiesOK ==
    ASSUME IInv, NEW row \in rec.rows \cup ListUndelivered
    PROVE  /\ row \in ListedRow /\ row.run \in RunIds /\ runs[row.run].status # "absent"
           /\ row.state = "finished" /\ row.cause # "rejected" => Backed(row.run, row.cause)
           /\ row.state = "finished" /\ row.cause = "rejected" => RejectedOrGone(row.run)
           /\ worker.pc = "save" => row.run # worker.run
  <1>1. TypeOK /\ OutboxOK /\ WorkerOK /\ ListedOK
    BY DEF IInv
  <1>2. CASE row \in rec.rows
    BY <1>1, <1>2 DEF TypeOK, ListedRow, WorkerOK, ListedOK
  <1>3. CASE row \in ListUndelivered
    <2>1. PICK r \in RunIds :
            Undelivered(r) /\ row = [run |-> r, state |-> outbox[r].state, cause |-> outbox[r].cause]
      BY <1>3 DEF ListUndelivered
    <2>2. /\ row.run = r /\ row.state = outbox[r].state /\ row.cause = outbox[r].cause
          /\ outbox[r] \in OutboxRow /\ outbox[r].state # "absent"
      BY <1>1, <2>1 DEF Undelivered, TypeOK
    <2>3. row \in ListedRow
      BY <2>1, <2>2 DEF OutboxRow, ListedRow
    <2>4. runs[r].status # "absent" /\ (row.state = "finished" => row.cause \in Reported \cup {"rejected"})
      BY <1>1, <2>2 DEF OutboxOK
    <2>5. worker.pc = "save" => r # worker.run
      BY <1>1, <2>2 DEF WorkerOK
    <2> QED
      BY <2>2, <2>3, <2>4, <2>5 DEF Backed, RejectedOrGone
  <1> QED
    BY <1>2, <1>3

\* A step of the recovery.
LEMMA RecoveryKeeps ==
    ASSUME IInv, RecordsMove, RowsMove, NoInsert,
           worker' = worker, activeRunIDs' = activeRunIDs, agents' = agents, crashes' = crashes,
           phase' \in {"waiting", "parked", "recovering", "enabled"},
           worker.pc # "idle" => phase' = phase,
           NEW pc \in RecoverySteps, NEW rows \in SUBSET (rec.rows \cup ListUndelivered),
           NEW r \in RunIds \cup {NoRun}, NEW c \in OutboxCauses, NEW failed \in BOOLEAN,
           rec' = [pc |-> pc, rows |-> rows, run |-> r, cause |-> c, isFailed |-> failed],
           pc \notin {"list", "next"} =>
               r \in RunIds /\ runs[r].status # "absent" /\ worker.run # r,
           pc \in {"deliver", "mark"} => Backed(r, c)',
           pc = "mark" => HasEnded(r)',
           pc = "ack" => RejectedOrGone(r)',
           late' \subseteq Requests,
           \A q \in late' : q \in late \/ q[1] # "complete" \/ (q[2] \in RunIds /\ Backed(q[2], q[3]))
    PROVE  IInv'
  <1>1. TypeOK
    BY DEF IInv
  <1>2. /\ rec'.pc = pc /\ rec'.rows = rows /\ rec'.run = r /\ rec'.cause = c
        /\ rows \subseteq ListedRow
    BY CopiesOK
  <1>3. TypeOK'
    BY <1>1, <1>2 DEF TypeOK, RecordsMove, RowsMove
  <1>4. RecordsOK' /\ OutboxOK' /\ LateOK'
    BY StoresStay, LateStays
  <1>5. WorkerOK'
    <2>1. worker.pc = "save" => \A row \in rec'.rows : row.run # worker.run
      BY <1>2, CopiesOK
    <2> QED
      BY <2>1, WorkerStays
  <1>6. OneOwner'
    BY <1>2 DEF OneOwner
  <1>7. ListedOK'
    <2>1. ASSUME NEW row \in rows
          PROVE  /\ runs'[row.run].status # "absent"
                 /\ row.state = "finished" /\ row.cause # "rejected" => Backed(row.run, row.cause)'
                 /\ row.state = "finished" /\ row.cause = "rejected" => RejectedOrGone(row.run)'
      <3>1. /\ row.run \in RunIds /\ runs[row.run].status # "absent"
            /\ row.state = "finished" /\ row.cause # "rejected" => Backed(row.run, row.cause)
            /\ row.state = "finished" /\ row.cause = "rejected" => RejectedOrGone(row.run)
            /\ worker.pc = "save" => row.run # worker.run
        BY CopiesOK
      <3>2. Backed(row.run, row.cause) => row.cause \in Reported
        BY DEF Backed
      <3> QED
        BY <3>1, <3>2, FactsStay
    <2> QED
      BY <1>2, <2>1 DEF ListedOK
  <1>8. RecoveryOK'
    <2>1. pc \notin {"list", "next"} => runs'[r].status # "absent"
      BY FactsStay
    <2>2. /\ rec'.pc \in {"deliver", "mark"} => (Backed(rec.run, rec.cause))'
          /\ rec'.pc = "mark" => (HasEnded(rec.run))'
          /\ rec'.pc = "ack" => (RejectedOrGone(rec.run))'
      BY <1>2 DEF Backed, HasEnded, RejectedOrGone
    <2> QED
      BY <1>2, <2>1, <2>2 DEF RecoveryOK
  <1> QED
    BY <1>3, <1>4, <1>5, <1>6, <1>7, <1>8 DEF IInv

\* The recovery's record, field by field.
LEMMA RecFields ==
    ASSUME TypeOK
    PROVE  /\ rec.pc \in RecoverySteps /\ rec.rows \in SUBSET ListedRow /\ rec.run \in RunIds \cup {NoRun}
           /\ rec.cause \in OutboxCauses /\ rec.isFailed \in BOOLEAN
           /\ rec = [pc |-> rec.pc, rows |-> rec.rows, run |-> rec.run, cause |-> rec.cause,
                     isFailed |-> rec.isFailed]
  BY DEF TypeOK

\* A step of the recovery on its run: it goes to another step with the same copies.
LEMMA RecStepKeeps ==
    ASSUME IInv, RecordsMove, RowsMove, NoInsert,
           UNCHANGED <<worker, activeRunIDs, agents, crashes, phase>>,
           NEW r \in RunIds, r = rec.run, rec.pc \notin {"list", "next"},
           NEW pc \in RecoverySteps, NEW c \in OutboxCauses, NEW failed \in BOOLEAN,
           rec' = [pc |-> pc, rows |-> rec.rows, run |-> r, cause |-> c, isFailed |-> failed],
           pc \in {"deliver", "mark"} => Backed(r, c)',
           pc = "mark" => HasEnded(r)',
           pc = "ack" => RejectedOrGone(r)',
           late' \subseteq Requests,
           \A q \in late' : q \in late \/ q[1] # "complete" \/ (q[2] \in RunIds /\ Backed(q[2], q[3]))
    PROVE  IInv'
  <1>1. TypeOK /\ RecoveryOK /\ OneOwner
    BY DEF IInv
  <1>2. runs[r].status # "absent"
    BY <1>1 DEF RecoveryOK
  <1>3. NoRun \notin RunIds
    BY RecordConstants DEF RunIds
  <1>4. worker.run # r
    BY <1>1, <1>3 DEF OneOwner
  <1>5. phase' \in {"waiting", "parked", "recovering", "enabled"} /\ phase' = phase
    BY <1>1 DEF TypeOK
  <1> DEFINE rows == rec.rows
  <1>6. rows \in SUBSET (rec.rows \cup ListUndelivered)
    OBVIOUS
  <1>7. rec' = [pc |-> pc, rows |-> rows, run |-> r, cause |-> c, isFailed |-> failed]
    OBVIOUS
  <1> HIDE DEF rows
  <1> QED
    BY <1>2, <1>4, <1>5, <1>6, <1>7, RecoveryKeeps

\* The pass ends: nothing is left of it.
LEMMA PassEndsKeeps ==
    ASSUME IInv, RecordsMove, outbox' = outbox,
           UNCHANGED <<worker, activeRunIDs, agents, crashes>>,
           NEW next \in {"waiting", "parked", "enabled"}, PassEnds(next),
           late' \subseteq Requests,
           \A q \in late' : q \in late \/ q[1] # "complete" \/ (q[2] \in RunIds /\ Backed(q[2], q[3]))
    PROVE  IInv'
  <1>1. TypeOK /\ WorkerOK
    BY DEF IInv
  <1>2. RowsMove /\ NoInsert
    BY <1>1, RowsStay
  <1>3. /\ phase' \in {"waiting", "parked", "recovering", "enabled"}
        /\ worker.pc # "idle" => phase' = phase
    BY <1>1 DEF PassEnds, TypeOK, WorkerOK
  <1>4. /\ rec' = [pc |-> "list", rows |-> {}, run |-> NoRun, cause |-> "none", isFailed |-> FALSE]
        /\ "list" \in RecoverySteps /\ "none" \in OutboxCauses /\ {} \in SUBSET (rec.rows \cup ListUndelivered)
        /\ NoRun \in RunIds \cup {NoRun} /\ FALSE \in BOOLEAN
    BY DEF PassEnds, Listing, RecoverySteps, OutboxCauses
  <1> QED
    BY <1>2, <1>3, <1>4, RecoveryKeeps

\* A pass begins, or finds no database.
LEMMA ListKeeps ==
    ASSUME IInv, RecoverEligible \/ listFails
    PROVE  IInv'
  <1>1. TypeOK /\ RecordsTypeOK
    BY DEF IInv, TypeOK
  <1>2. /\ UNCHANGED <<runs, active, summary>> /\ outbox' = outbox
        /\ UNCHANGED <<worker, activeRunIDs, agents, crashes>> /\ late' = late
    BY DEF RecoverEligible, listFails, recordVars
  <1>3. RecordsMove /\ RowsMove /\ NoInsert
    BY <1>1, <1>2, RowsStay, RecordsStay DEF RecordsTypeOK
  <1>4. late' \subseteq Requests
    BY <1>1, <1>2 DEF TypeOK
  <1>5. CASE RecoverEligible
    <2>1. PICK r \in RunIds \cup {NoRun}, c \in OutboxCauses, failed \in BOOLEAN :
            r = rec.run /\ c = rec.cause /\ failed = rec.isFailed
      BY <1>1, RecFields
    <2> DEFINE rows == ListUndelivered
    <2>2. rec' = [pc |-> "next", rows |-> rows, run |-> r, cause |-> c, isFailed |-> failed]
      BY <1>1, <1>5, <2>1, RecFields DEF RecoverEligible
    <2>3. rows \in SUBSET (rec.rows \cup ListUndelivered) /\ "next" \in RecoverySteps
      BY DEF RecoverySteps
    <2>4. phase' \in {"waiting", "parked", "recovering", "enabled"} /\ phase' = phase
      BY <1>1, <1>5 DEF RecoverEligible, TypeOK
    <2> HIDE DEF rows
    <2> QED
      BY <1>2, <1>3, <1>4, <2>2, <2>3, <2>4, RecoveryKeeps
  <1>6. CASE listFails
    BY <1>2, <1>3, <1>4, <1>6, PassEndsKeeps DEF listFails
  <1> QED
    BY <1>5, <1>6

\* The next row of the pass: left to the worker that executes its run, or recovered.
LEMMA NextRowKeeps ==
    ASSUME IInv, NextRow \/ schedulerStartFails
    PROVE  IInv'
  <1>1. TypeOK /\ RecordsTypeOK /\ WorkerOK /\ OneOwner
    BY DEF IInv, TypeOK
  <1>2. /\ UNCHANGED <<runs, active, summary>> /\ outbox' = outbox
        /\ UNCHANGED <<worker, activeRunIDs, agents, crashes>> /\ late' = late
        /\ rec.pc = "next"
    BY DEF NextRow, schedulerStartFails, recordVars, RecAt
  <1>3. RecordsMove /\ RowsMove /\ NoInsert
    BY <1>1, <1>2, RowsStay, RecordsStay DEF RecordsTypeOK
  <1>4. late' \subseteq Requests
    BY <1>1, <1>2 DEF TypeOK
  <1>5. CASE \E next \in {"waiting", "parked", "enabled"} : PassEnds(next)
    BY <1>2, <1>3, <1>4, <1>5, PassEndsKeeps
  <1>6. ASSUME NEW row \in rec.rows, phase' = phase,
               rec' = IF isOutboxRunInactive(row.run)
                      THEN [rec EXCEPT !.rows = @ \ {row}, !.run = row.run,
                                       !.cause = row.cause, !.pc = recoverRow(row)]
                      ELSE [rec EXCEPT !.rows = @ \ {row}]
        PROVE  IInv'
    <2>1. /\ row \in ListedRow /\ row.run \in RunIds /\ runs[row.run].status # "absent"
          /\ row.state = "finished" /\ row.cause # "rejected" => Backed(row.run, row.cause)
          /\ row.state = "finished" /\ row.cause = "rejected" => RejectedOrGone(row.run)
      BY CopiesOK
    <2> DEFINE rows == rec.rows \ {row}
    <2>2. rows \in SUBSET (rec.rows \cup ListUndelivered)
      OBVIOUS
    <2>3. phase' \in {"waiting", "parked", "recovering", "enabled"}
      BY <1>1, <1>6 DEF TypeOK
    <2>4. PICK failed \in BOOLEAN : failed = rec.isFailed
      BY <1>1, RecFields
    <2>5. CASE isOutboxRunInactive(row.run)
      <3>1. PICK r \in RunIds, c \in OutboxCauses : r = row.run /\ c = row.cause
        BY <2>1 DEF ListedRow
      <3>2. PICK pc \in {"start", "ack", "deliver"} :
              /\ pc = recoverRow(row)
              /\ pc = "deliver" => Backed(r, c)
              /\ pc = "ack" => RejectedOrGone(r)
        BY <2>1, <3>1 DEF recoverRow
      <3>3. rec' = [pc |-> pc, rows |-> rows, run |-> r, cause |-> c, isFailed |-> failed]
        BY <1>1, <1>6, <2>4, <2>5, <3>1, <3>2, RecFields
      <3>4. worker.run # r
        <4>1. CASE worker.pc = "idle"
          BY <1>1, <4>1, WorkerFields, RecordConstants DEF RunIds
        <4>2. CASE worker.pc # "idle"
          <5>1. phase = "enabled" /\ worker.run \in activeRunIDs
            BY <1>1, <4>2 DEF WorkerOK
          <5> QED
            BY <2>5, <3>1, <5>1 DEF isOutboxRunInactive
        <4> QED
          BY <4>1, <4>2
      <3>5. /\ pc = "deliver" => Backed(r, c)'
            /\ pc = "ack" => RejectedOrGone(r)'
        BY <1>2, <3>2 DEF Backed, RejectedOrGone, HasEnded
      <3>6. pc \in RecoverySteps /\ runs[r].status # "absent"
        BY <2>1, <3>1 DEF RecoverySteps
      <3> HIDE DEF rows
      <3> QED
        BY <1>2, <1>3, <1>4, <1>6, <2>2, <2>3, <3>3, <3>4, <3>5, <3>6, RecoveryKeeps
    <2>6. CASE ~isOutboxRunInactive(row.run)
      <3>1. PICK r \in RunIds \cup {NoRun}, c \in OutboxCauses : r = rec.run /\ c = rec.cause
        BY <1>1, RecFields
      <3>2. rec' = [pc |-> "next", rows |-> rows, run |-> r, cause |-> c, isFailed |-> failed]
        BY <1>1, <1>2, <1>6, <2>4, <2>6, <3>1, RecFields
      <3>3. "next" \in RecoverySteps
        BY DEF RecoverySteps
      <3> HIDE DEF rows
      <3> QED
        BY <1>2, <1>3, <1>4, <1>6, <2>2, <2>3, <3>2, <3>3, RecoveryKeeps
    <2> QED
      BY <2>5, <2>6
  <1>7. NextRow => \/ \E next \in {"waiting", "parked", "enabled"} : PassEnds(next)
                   \/ IInv'
    BY <1>6 DEF NextRow
  <1>8. schedulerStartFails => \E next \in {"waiting", "parked", "enabled"} : PassEnds(next)
    BY DEF schedulerStartFails
  <1> QED
    BY <1>5, <1>7, <1>8

\* A call of the recovery that fails leaves its row for a later attempt.
LEMMA RecCallFailsKeeps ==
    ASSUME IInv, UNCHANGED <<outbox, worker, activeRunIDs, agents, crashes>>,
           rec.pc \in {"start", "deliver"}, NEW request \in Requests, RecCallFails(request),
           request[1] # "complete" \/ (request[2] \in RunIds /\ Backed(request[2], request[3]))
    PROVE  IInv'
  <1>1. TypeOK /\ RecoveryOK
    BY DEF IInv
  <1>2. PICK e \in ErrorKinds :
          /\ NotServed(request, e)
          /\ \/ UNCHANGED <<rec, phase>>
             \/ rec' = [rec EXCEPT !.pc = "next", !.isFailed = TRUE] /\ phase' = phase
             \/ PassEnds("parked")
    BY DEF RecCallFails, ErrorKinds
  <1>3. RecordsMove /\ late' \subseteq Requests /\ late' \subseteq late \cup {request}
    BY <1>1, <1>2, NotServedMoves
  <1>4. \A q \in late' : q \in late \/ q[1] # "complete" \/ (q[2] \in RunIds /\ Backed(q[2], q[3]))
    BY <1>3
  <1>5. RowsMove /\ NoInsert
    BY <1>1, RowsStay
  <1>6. PICK r \in RunIds, c \in OutboxCauses, failed \in BOOLEAN :
          r = rec.run /\ c = rec.cause /\ failed = rec.isFailed
    BY <1>1, RecFields DEF RecoveryOK
  <1>7. CASE UNCHANGED <<rec, phase>>
    <2>1. PICK pc \in {"start", "deliver"} : pc = rec.pc
      OBVIOUS
    <2>2. rec' = [pc |-> pc, rows |-> rec.rows, run |-> r, cause |-> c, isFailed |-> failed]
      BY <1>1, <1>6, <1>7, <2>1, RecFields
    <2>3. pc \in RecoverySteps
      BY DEF RecoverySteps
    <2>4. pc = "deliver" => Backed(r, c)'
      <3>1. pc = "deliver" => Backed(r, c) /\ c \in Reported
        BY <1>1, <1>6, <2>1 DEF RecoveryOK, Backed
      <3> QED
        BY <1>3, <1>5, <3>1, FactsStay
    <2> QED
      BY <1>3, <1>4, <1>5, <1>6, <1>7, <2>2, <2>3, <2>4, RecStepKeeps
  <1>8. CASE rec' = [rec EXCEPT !.pc = "next", !.isFailed = TRUE] /\ phase' = phase
    <2>1. rec' = [pc |-> "next", rows |-> rec.rows, run |-> r, cause |-> c, isFailed |-> TRUE]
      BY <1>1, <1>6, <1>8, RecFields
    <2>2. "next" \in RecoverySteps /\ TRUE \in BOOLEAN
      BY DEF RecoverySteps
    <2> QED
      BY <1>3, <1>4, <1>5, <1>6, <1>8, <2>1, <2>2, RecStepKeeps
  <1>9. CASE PassEnds("parked")
    BY <1>3, <1>4, <1>9, PassEndsKeeps
  <1> QED
    BY <1>2, <1>7, <1>8, <1>9

\* The recovery's calls fail.
LEMMA FailuresKeep ==
    ASSUME IInv, startFails \/ deliverFails
    PROVE  IInv'
  <1>1. TypeOK /\ RecoveryOK /\ UNCHANGED <<outbox, worker, activeRunIDs, agents, crashes>>
    BY DEF IInv, startFails, deliverFails
  <1>2. CASE startFails
    <2>1. rec.pc = "start" /\ RecCallFails(Start(rec.run)) /\ rec.run \in RunIds
      BY <1>1, <1>2 DEF startFails, RecAt, RecoveryOK
    <2>2. Start(rec.run) \in Requests /\ Start(rec.run)[1] # "complete"
      BY <2>1 DEF Start, Requests
    <2> QED
      BY <1>1, <2>1, <2>2, RecCallFailsKeeps
  <1>3. CASE deliverFails
    <2>1. rec.pc = "deliver" /\ RecCallFails(Complete(rec.run, rec.cause)) /\ rec.run \in RunIds
      BY <1>1, <1>3 DEF deliverFails, RecAt, RecoveryOK
    <2>2. Backed(rec.run, rec.cause) /\ rec.cause \in Reported
      BY <1>1, <2>1 DEF RecoveryOK, Backed
    <2>3. /\ Complete(rec.run, rec.cause) \in Requests
          /\ Complete(rec.run, rec.cause)[2] = rec.run /\ Complete(rec.run, rec.cause)[3] = rec.cause
      BY <2>1, <2>2 DEF Complete, Requests
    <2> QED
      BY <1>1, <2>1, <2>2, <2>3, RecCallFailsKeeps
  <1> QED
    BY <1>2, <1>3

\* The recovery's calls are served.
LEMMA ServedKeeps ==
    ASSUME IInv, startServed \/ deliverServed
    PROVE  IInv'
  <1>1. TypeOK /\ RecordsTypeOK /\ RecoveryOK
    BY DEF IInv, TypeOK
  <1>2. /\ UNCHANGED <<worker, activeRunIDs, agents, crashes, phase>> /\ late' = late /\ outbox' = outbox
        /\ rec.pc \in {"start", "deliver"}
    BY DEF startServed, deliverServed, RecAt
  <1>3. RowsMove /\ NoInsert /\ late' \subseteq Requests
    BY <1>1, <1>2, RowsStay DEF TypeOK
  <1>4. PICK r \in RunIds, c \in OutboxCauses, failed \in BOOLEAN :
          r = rec.run /\ c = rec.cause /\ failed = rec.isFailed
    BY <1>1, <1>2, RecFields DEF RecoveryOK
  <1>5. CASE startServed
    <2>1. RecordsMove
      BY <1>1, <1>4, <1>5, StartMoves DEF startServed
    <2>2. PICK pc \in {"saveRejected", "saveInterrupted"} : pc = RecoveryStart(r)
      BY DEF RecoveryStart
    <2>3. rec' = [pc |-> pc, rows |-> rec.rows, run |-> r, cause |-> c, isFailed |-> failed]
      BY <1>1, <1>4, <1>5, <2>2, RecFields DEF startServed, Rec
    <2>4. pc \in RecoverySteps
      BY DEF RecoverySteps
    <2> QED
      BY <1>2, <1>3, <1>4, <2>1, <2>3, <2>4, RecStepKeeps
  <1>6. CASE deliverServed
    <2>1. Backed(r, c) /\ c \in Reported /\ completeRun(r, c)
      BY <1>1, <1>4, <1>6 DEF deliverServed, RecAt, RecoveryOK, Backed
    <2>2. \A q \in RunIds : runs[q].cause # "none" => HasEnded(q)
      BY DEF IInv, RecordsOK
    <2>3. RecordsMove /\ (CompleteReply(r, c) # "unavailable" => HasEnded(r)')
      BY <1>1, <2>1, <2>2, CompleteMoves
    <2>4. PICK pc \in {"next", "mark"}, f \in BOOLEAN :
            /\ rec' = [pc |-> pc, rows |-> rec.rows, run |-> r, cause |-> c, isFailed |-> f]
            /\ pc = "mark" => HasEnded(r)'
      <3>1. CASE CompleteReply(r, c) = "unavailable"
        BY <1>1, <1>4, <1>6, <3>1, RecFields DEF deliverServed
      <3>2. CASE CompleteReply(r, c) # "unavailable"
        BY <1>1, <1>4, <1>6, <2>3, <3>2, RecFields DEF deliverServed
      <3> QED
        BY <3>1, <3>2
    <2>5. Backed(r, c)'
      BY <1>3, <2>1, <2>3, FactsStay
    <2>6. pc \in RecoverySteps
      BY DEF RecoverySteps
    <2> QED
      BY <1>2, <1>3, <1>4, <2>3, <2>4, <2>5, <2>6, RecStepKeeps
  <1> QED
    BY <1>5, <1>6

\* The recovery's statements on the row.
LEMMA RecoveryWritesKeep ==
    ASSUME IInv,
           \/ finalizeInterruptedRun \/ saveRejectedAndAcknowledge
           \/ markDeliveredAfterDelivery \/ markDeliveredUntilAcknowledged
    PROVE  IInv'
  <1>1. TypeOK /\ RecordsTypeOK /\ RecoveryOK
    BY DEF IInv, TypeOK
  <1>2. /\ UNCHANGED <<runs, active, summary>>
        /\ UNCHANGED <<worker, activeRunIDs, agents, crashes, phase>> /\ late' = late
        /\ rec.pc \in {"saveInterrupted", "saveRejected", "mark", "ack"}
    BY DEF finalizeInterruptedRun, saveRejectedAndAcknowledge, markDeliveredAfterDelivery,
           markDeliveredUntilAcknowledged, RecAt, recordVars
  <1>3. RecordsMove /\ late' \subseteq Requests
    BY <1>1, <1>2, RecordsStay DEF TypeOK, RecordsTypeOK
  <1>4. PICK r \in RunIds, c \in OutboxCauses, failed \in BOOLEAN :
          r = rec.run /\ c = rec.cause /\ failed = rec.isFailed
    BY <1>1, <1>2, RecFields DEF RecoveryOK
  <1>5. CASE finalizeInterruptedRun
    <2>1. "interrupted" \in Reported /\ "interrupted" \in OutboxCauses /\ "deliver" \in RecoverySteps
      BY DEF Reported, OutboxCauses, RecoverySteps
    <2>2. RowsMove /\ NoInsert /\ outbox'[r].state = "finished" /\ outbox'[r].cause = "interrupted"
      BY <1>1, <1>4, <1>5, <2>1, SaveResultMoves DEF finalizeInterruptedRun
    <2>3. rec' = [pc |-> "deliver", rows |-> rec.rows, run |-> r, cause |-> "interrupted",
                  isFailed |-> failed]
      BY <1>1, <1>4, <1>5, RecFields DEF finalizeInterruptedRun
    <2>4. Backed(r, "interrupted")'
      BY <2>1, <2>2 DEF Backed
    <2> QED
      BY <1>2, <1>3, <1>4, <2>1, <2>2, <2>3, <2>4, RecStepKeeps
  <1>6. CASE saveRejectedAndAcknowledge
    <2>1. "rejected" \in OutboxCauses /\ "ack" \in RecoverySteps
      BY DEF OutboxCauses, RecoverySteps
    <2>2. RowsMove /\ NoInsert /\ outbox'[r].state = "finished" /\ outbox'[r].cause = "rejected"
      BY <1>1, <1>4, <1>6, SaveResultMoves DEF saveRejectedAndAcknowledge
    <2>3. rec' = [pc |-> "ack", rows |-> rec.rows, run |-> r, cause |-> "rejected", isFailed |-> failed]
      BY <1>1, <1>4, <1>6, RecFields DEF saveRejectedAndAcknowledge
    <2>4. RejectedOrGone(r)'
      BY <2>2 DEF RejectedOrGone
    <2> QED
      BY <1>2, <1>3, <1>4, <2>1, <2>2, <2>3, <2>4, RecStepKeeps
  <1>7. CASE rec.pc \in {"mark", "ack"} /\ MarkDelivered(r) /\ Rec("next")
    <2>1. RejectedOrGone(r) \/ HasEnded(r)
      BY <1>1, <1>4, <1>7 DEF RecoveryOK
    <2>2. RowsMove /\ NoInsert
      BY <1>1, <1>7, <2>1, MarkDeliveredMoves
    <2>3. rec' = [pc |-> "next", rows |-> rec.rows, run |-> r, cause |-> c, isFailed |-> failed]
      BY <1>1, <1>4, <1>7, RecFields DEF Rec
    <2>4. "next" \in RecoverySteps
      BY DEF RecoverySteps
    <2> QED
      BY <1>2, <1>3, <1>4, <2>2, <2>3, <2>4, RecStepKeeps
  <1>8. CASE rec.pc = "mark" /\ outbox' = outbox /\ Rec("deliver")
    <2>1. RowsMove /\ NoInsert
      BY <1>1, <1>8, RowsStay
    <2>2. rec' = [pc |-> "deliver", rows |-> rec.rows, run |-> r, cause |-> c, isFailed |-> failed]
      BY <1>1, <1>4, <1>8, RecFields DEF Rec
    <2>3. Backed(r, c) /\ c \in Reported
      BY <1>1, <1>4, <1>8 DEF RecoveryOK, Backed
    <2>4. Backed(r, c)'
      BY <1>3, <2>1, <2>3, FactsStay
    <2>5. "deliver" \in RecoverySteps
      BY DEF RecoverySteps
    <2> QED
      BY <1>2, <1>3, <1>4, <2>1, <2>2, <2>4, <2>5, RecStepKeeps
  <1> QED
    BY <1>4, <1>5, <1>6, <1>7, <1>8 DEF markDeliveredAfterDelivery, markDeliveredUntilAcknowledged, RecAt

\* Another attempt of the startup recovery: the worker has not been enabled.
LEMMA AttemptKeeps ==
    ASSUME IInv, waitForRecovery \/ RequestRefresh
    PROVE  IInv'
  <1>1. TypeOK /\ RecordsTypeOK /\ WorkerOK
    BY DEF IInv, TypeOK
  <1>2. /\ UNCHANGED <<runs, active, summary>> /\ outbox' = outbox
        /\ worker' = worker /\ activeRunIDs' = activeRunIDs /\ rec' = rec /\ late' = late
        /\ agents' = agents /\ crashes' = crashes
        /\ phase # "enabled" /\ phase' = "recovering"
    BY DEF waitForRecovery, RequestRefresh, recordVars
  <1>3. RecordsMove /\ RowsMove /\ NoInsert
    BY <1>1, <1>2, RowsStay, RecordsStay DEF RecordsTypeOK
  <1>4. worker.pc = "idle"
    BY <1>1, <1>2 DEF WorkerOK
  <1>5. TypeOK'
    BY <1>1, <1>2, <1>3 DEF TypeOK, RecordsMove
  <1>6. RecordsOK' /\ OutboxOK'
    BY <1>2, <1>3, StoresStay
  <1>7. ListedOK' /\ RecoveryOK' /\ LateOK'
    BY <1>2, <1>3, RecoveryStays, LateStays
  <1>8. WorkerOK'
    BY <1>2, <1>3, <1>4, WorkerStays
  <1>9. OneOwner'
    BY <1>2 DEF IInv, OneOwner
  <1> QED
    BY <1>5, <1>6, <1>7, <1>8, <1>9 DEF IInv

\* A step that changes nothing.
LEMMA StutterKeeps ==
    ASSUME IInv, UNCHANGED vars
    PROVE  IInv'
  <1>1. /\ UNCHANGED <<runs, active, summary>>
        /\ UNCHANGED <<daemonVars, agents, crashes>> /\ late' = late
    BY DEF vars, recordVars
  <1>2. RecordsMove
    BY <1>1, RecordsStay DEF IInv, TypeOK, RecordsTypeOK
  <1> QED
    BY <1>1, <1>2, OutsideKeeps

\* The invariant is inductive: one lemma for each group of actions.
LEMMA StepKeeps == IInv /\ [Next]_vars => IInv'
  BY StutterKeeps, claimAndExecuteKeeps, WorkerWritesKeeps, startRunKeeps, AgentKeeps, completeKeeps,
     unregisterActiveRunKeeps, ListKeeps, NextRowKeeps, FailuresKeep, ServedKeeps, RecoveryWritesKeep,
     AttemptKeeps, LateArrivesKeeps, RestartKeeps, ServiceKeeps
     DEF Next, WorkerStep, RecoveryStep

\* Init and the induction step.
LEMMA Invariance == Spec => []IInv
  BY InitOK, StepKeeps, PTL DEF Spec

---------------------------------------------------------------------------
(* What a step of the whole system does to the records. *)

\* A result that a step writes is backed: by the outbox row or by an ended record.
BackedReport(r) == NoReport(r) \/ \E c \in Reported : runs'[r].cause = c /\ Backed(r, c)

RecordStep == RecordsMove /\ \A r \in RunIds : BackedReport(r)

\* A served result is backed.
LEMMA ReportMoves ==
    ASSUME IInv, NEW r \in RunIds, NEW c \in Reported, Backed(r, c), completeRun(r, c)
    PROVE  RecordStep
  <1>1. RecordsTypeOK /\ \A q \in RunIds : runs[q].cause # "none" => HasEnded(q)
    BY DEF IInv, TypeOK, RecordsOK
  <1>2. /\ RecordsMove
        /\ \A q \in RunIds : runs'[q] = runs[q] \/ (q = r /\ runs'[q].cause = c)
    BY <1>1, CompleteMoves
  <1>3. \A q \in RunIds : BackedReport(q)
    BY <1>2 DEF BackedReport, NoReport
  <1> QED
    BY <1>2, <1>3 DEF RecordStep

\* Every step moves the records forward, and reports only what is backed.
LEMMA StepRecords ==
    ASSUME IInv, [Next]_vars
    PROVE  RecordStep
  <1>1. TypeOK /\ RecordsTypeOK /\ WorkerOK /\ RecoveryOK /\ LateOK
    BY DEF IInv, TypeOK
  <1>2. CASE UNCHANGED recordVars
    <2>1. runs' = runs /\ summary' = summary /\ active' \in BOOLEAN
      BY <1>1, <1>2 DEF recordVars, RecordsTypeOK
    <2> QED
      BY <1>1, <2>1, RecordsStay DEF RecordStep, BackedReport
  <1>3. CASE \E r \in Scheduled : claimAndExecute(r)
    BY <1>1, <1>3, ClaimMoves DEF claimAndExecute, RunIds, RecordStep, BackedReport
  <1>4. CASE startRun
    <2>1. worker.run \in RunIds
      BY <1>1, <1>4, WorkerFields DEF startRun, At
    <2>2. UNCHANGED recordVars \/ markRunStarted(worker.run)
      BY <1>4 DEF startRun, NotServed
    <2>3. CASE markRunStarted(worker.run)
      BY <1>1, <2>1, <2>3, StartMoves DEF RecordStep, BackedReport
    <2> QED
      BY <1>2, <2>2, <2>3
  <1>5. CASE complete
    <2>1. worker.pc = "complete" /\ (UNCHANGED recordVars \/ completeRun(worker.run, worker.cause))
      BY <1>5 DEF complete, NotServed, At
    <2>2. worker.run \in RunIds /\ Backed(worker.run, worker.cause) /\ worker.cause \in Reported
      BY <1>1, <2>1, WorkerFields DEF WorkerOK, Backed
    <2>3. CASE completeRun(worker.run, worker.cause)
      BY <2>2, <2>3, ReportMoves
    <2> QED
      BY <1>2, <2>1, <2>3
  <1>6. CASE startServed
    <2>1. rec.run \in RunIds /\ markRunStarted(rec.run)
      BY <1>1, <1>6 DEF startServed, RecAt, RecoveryOK
    <2> QED
      BY <1>1, <2>1, StartMoves DEF RecordStep, BackedReport
  <1>7. CASE deliverServed
    <2>1. /\ rec.run \in RunIds /\ completeRun(rec.run, rec.cause)
          /\ Backed(rec.run, rec.cause) /\ rec.cause \in Reported
      BY <1>1, <1>7 DEF deliverServed, RecAt, RecoveryOK, Backed
    <2> QED
      BY <2>1, ReportMoves
  <1>8. CASE LateArrives
    <2>1. PICK q \in late : Serve(q)
      BY <1>8 DEF LateArrives
    <2>2. q[1] \in {"start", "complete"} /\ q[2] \in RunIds
      BY <1>1 DEF TypeOK, Requests
    <2>3. CASE q[1] = "start"
      <3>1. markRunStarted(q[2])
        BY <2>1, <2>3 DEF Serve
      <3> QED
        BY <1>1, <2>2, <3>1, StartMoves DEF RecordStep, BackedReport
    <2>4. CASE q[1] = "complete"
      <3>1. completeRun(q[2], q[3]) /\ Backed(q[2], q[3]) /\ q[3] \in Reported
        BY <1>1, <2>1, <2>4 DEF Serve, LateOK, Backed
      <3> QED
        BY <2>2, <3>1, ReportMoves
    <2> QED
      BY <2>2, <2>3, <2>4
  <1>9. CASE CleanUp
    BY <1>1, <1>9, CleanUpMoves DEF CleanUp, RecordStep, BackedReport
  <1>10. CASE ChangeJob
    <2>1. runs' = runs /\ summary' = summary /\ active' \in BOOLEAN
      BY <1>10 DEF ChangeJob, pauseScheduledJob, resumeScheduledJob
    <2> QED
      BY <1>1, <2>1, RecordsStay DEF RecordStep, BackedReport
  <1>11. CASE saveClaim \/ markStarted \/ saveResult \/ markDelivered \/ saveRejected \/ ackRejected
    <2>1. UNCHANGED recordVars
      BY <1>11 DEF saveClaim, markStarted, saveResult, markDelivered, saveRejected, ackRejected, OnRow
    <2> QED
      BY <1>2, <2>1
  <1>12. CASE startFails \/ deliverFails
    <2>1. UNCHANGED recordVars
      BY <1>12 DEF startFails, deliverFails, RecCallFails, NotServed
    <2> QED
      BY <1>2, <2>1
  <1>13. CASE \/ runAgent \/ agentExits \/ unregisterActiveRun \/ RecoverEligible \/ NextRow
              \/ waitForRecovery \/ finalizeInterruptedRun \/ saveRejectedAndAcknowledge
              \/ markDeliveredAfterDelivery \/ markDeliveredUntilAcknowledged
              \/ listFails \/ schedulerStartFails \/ RequestRefresh \/ Restart
    <2>1. UNCHANGED recordVars
      BY <1>13 DEF runAgent, agentExits, unregisterActiveRun, RecoverEligible, NextRow,
           waitForRecovery, finalizeInterruptedRun, saveRejectedAndAcknowledge,
           markDeliveredAfterDelivery, markDeliveredUntilAcknowledged,
           listFails, schedulerStartFails, RequestRefresh, Restart
    <2> QED
      BY <1>2, <2>1
  <1>14. CASE UNCHANGED vars
    BY <1>2, <1>14 DEF vars
  <1> QED
    BY <1>3, <1>4, <1>5, <1>6, <1>7, <1>8, <1>9, <1>10, <1>11, <1>12, <1>13, <1>14
      DEF Next, WorkerStep, RecoveryStep

\* A record that has ended does not change, and one that has not carries no result.
LEMMA RecordStepFacts ==
    ASSUME IInv, RecordStep, NEW r \in RunIds
    PROVE  /\ runs[r].status \in Terminal => runs'[r] = runs[r]
           /\ runs'[r] # runs[r] /\ runs'[r].cause \in Reported =>
                outbox[r].state = "finished" /\ outbox[r].cause = runs'[r].cause
  <1>1. RecordMove(r) /\ BackedReport(r)
    BY DEF RecordStep, RecordsMove
  <1>2. runs[r].cause # "none" => HasEnded(r)
    BY DEF IInv, RecordsOK
  <1>3. HasEnded(r) => runs'[r] = runs[r]
    BY <1>1 DEF RecordMove, HasEnded, Terminal
  <1>4. ASSUME runs'[r] # runs[r], runs'[r].cause \in Reported
        PROVE  outbox[r].state = "finished" /\ outbox[r].cause = runs'[r].cause
    <2>1. ~HasEnded(r) /\ runs[r].cause = "none" /\ "none" \notin Reported
      BY <1>2, <1>3, <1>4 DEF Reported
    <2>2. ~NoReport(r)
      BY <1>4, <2>1 DEF NoReport
    <2> QED
      BY <1>1, <2>1, <2>2 DEF BackedReport, Backed
  <1> QED
    BY <1>3, <1>4 DEF HasEnded

---------------------------------------------------------------------------
(* The theorems. *)

\* Every variable of the daemon and of the API's records keeps its type.
THEOREM TypeCorrect == Spec => []TypeOK
  BY Invariance, PTL DEF IInv

\* A run that the API records as skipped never had an agent process: an agent is only
\* started after markRunStarted was answered, and from then on the clean-up fails the run.
THEOREM SkippedRunsNeverRan == Spec => []SkippedNeverRan
  <1>1. IInv => SkippedNeverRan
    <2> SUFFICES ASSUME IInv, NEW r \in RunIds, runs[r].status = "skipped_offline"
                 PROVE  agents[r] = 0
      BY DEF SkippedNeverRan
    <2>1. ~(agents[r] > 0)
      BY DEF IInv, RecordsOK, WasStarted
    <2>2. agents[r] \in Nat
      BY DEF IInv, TypeOK
    <2> QED
      BY <2>1, <2>2
  <1> QED
    BY <1>1, Invariance, PTL

\* The recovery never works on the run the worker is executing, although it lists the rows
\* before it asks activeRunIDs.
THEOREM RunsHaveOneOwner == Spec => []OneOwner
  BY Invariance, PTL DEF IInv

\* A row that was marked delivered, and was not rejected, belongs to a run that has ended in the
\* API's record, whichever of the worker and the recovery acknowledged it.
THEOREM DeliveredRowsAreRecorded == Spec => []DeliveredIsRecorded
  <1>1. IInv => DeliveredIsRecorded
    BY DEF IInv, OutboxOK, DeliveredIsRecorded, HasEnded
  <1> QED
    BY <1>1, Invariance, PTL

\* An ended run keeps its outcome, whatever arrives late or twice.
THEOREM EndedRunsAreFinal == Spec => EndedIsFinal
  <1>1. IInv /\ [Next]_vars =>
          [\A r \in RunIds : runs[r].status \in Terminal => runs'[r] = runs[r]]_vars
    BY StepRecords, RecordStepFacts
  <1> QED
    BY <1>1, Invariance, PTL DEF Spec, EndedIsFinal

\* A result that the API records is at that moment in the daemon's outbox: saveResult precedes
\* every report, and a report that arrives late finds its row or an ended run.
THEOREM ResultsWereSaved == Spec => ResultsAreSavedFirst
  <1>1. IInv /\ [Next]_vars =>
          [\A r \in RunIds :
             runs'[r] # runs[r] /\ runs'[r].cause \in Reported
                 => outbox[r].state = "finished" /\ outbox[r].cause = runs'[r].cause]_vars
    BY StepRecords, RecordStepFacts
  <1> QED
    BY <1>1, Invariance, PTL DEF Spec, ResultsAreSavedFirst
=============================================================================
