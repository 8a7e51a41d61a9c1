------------------------- MODULE ManualRunsProofs -------------------------
(***************************************************************************)
(* For any number of Run Now requests, queue consumers and deliveries of   *)
(* job.run: at most one agent process per run, none for a run recorded as  *)
(* skipped or never queued, and no success without one.                    *)
(*                                                                         *)
(* The argument: the API row moves out of "pending" towards "running" once *)
(* and never comes back (Started is stable), and only the caller whose     *)
(* start made that move may start the agent.                               *)
(***************************************************************************)
EXTENDS ManualRuns, TLAPS

\* The run has been started by some caller, whatever happened to it since.
Started(r) == /\ runs[r].status \in {"running", "succeeded", "failed"}
              /\ runs[r].cause \notin {"offline", "unqueued"}

\* The goroutine of a delivery that won the start and has not run its agent yet.
Holds(m, d) == jobs[<<m, d>>] = "agent"

\* The goroutine of a delivery whose agent process was started.
HasRun(m, d) == \/ jobs[<<m, d>>] = "running"
                \/ jobs[<<m, d>>] = "complete" /\ outcome[<<m, d>>] = "done"

\* At most one caller won the start, and its agent has not run before.
Winner ==
    \A m \in Manual, d \in Deliveries :
        Holds(m, d) => /\ Started(m)
                       /\ agents[m] = 0
                       /\ \A e \in Deliveries : Holds(m, e) => e = d

Counted ==
    /\ \A r \in RunIds : agents[r] \in {0, 1} /\ (agents[r] = 1 => Started(r))
    /\ \A m \in Manual, d \in Deliveries : HasRun(m, d) => agents[m] = 1
    /\ \A r \in RunIds : runs[r].status = "succeeded" => agents[r] = 1

\* A run that has not ended has no cause yet.
Fresh == \A r \in RunIds : runs[r].status \notin Terminal => runs[r].cause = "none"

\* The inductive invariant.
RunInv == TypeOK /\ Fresh /\ Winner /\ Counted

---------------------------------------------------------------------------
(* Types. *)

LEMMA TypeInit == Init => TypeOK
BY DEF Init, TypeOK, RecordsInit, RecordsTypeOK, Statuses, Causes, HandlerSteps, JobSteps, Waiting, Outcomes

\* Every write of a row of scheduled_job_runs keeps its type.
LEMMA RecordTypes ==
    ASSUME RecordsTypeOK, NEW r \in RunIds, NEW c \in Causes, NEW stale,
           \/ claimScheduledJob(r) \/ triggerRunNow(r) \/ markRunStarted(r)
           \/ completeRun(r, c) \/ markRunSkippedOffline(r) \/ markRunNowDispatchFailed(r)
           \/ terminalizeStaleRuns(stale) \/ pauseScheduledJob \/ resumeScheduledJob
           \/ UNCHANGED recordVars
    PROVE  RecordsTypeOK'
<1> USE DEF RecordsTypeOK, Statuses, Terminal, Causes, Reported
<1>1. CASE claimScheduledJob(r)
  BY <1>1 DEF claimScheduledJob
<1>2. CASE triggerRunNow(r)
  BY <1>2 DEF triggerRunNow
<1>3. CASE markRunStarted(r)
  BY <1>3 DEF markRunStarted
<1>4. CASE completeRun(r, c)
  BY <1>4 DEF completeRun, Ended, Summarised, StatusOf
<1>5. CASE markRunSkippedOffline(r)
  BY <1>5 DEF markRunSkippedOffline, Ended
<1>6. CASE markRunNowDispatchFailed(r)
  BY <1>6 DEF markRunNowDispatchFailed, Ended
<1>7. CASE terminalizeStaleRuns(stale)
  BY <1>7 DEF terminalizeStaleRuns, Summarised
<1>8. CASE pauseScheduledJob \/ resumeScheduledJob
  BY <1>8 DEF pauseScheduledJob, resumeScheduledJob
<1>9. CASE UNCHANGED recordVars
  BY <1>9 DEF recordVars
<1> QED BY <1>1, <1>2, <1>3, <1>4, <1>5, <1>6, <1>7, <1>8, <1>9

LEMMA TypeStep == TypeOK /\ [Next]_vars => TypeOK'
<1> SUFFICES ASSUME TypeOK, [Next]_vars PROVE TypeOK'
  OBVIOUS
<1> USE DEF TypeOK
<1>0. Manual \subseteq RunIds
  BY DEF RunIds
<1>1. ASSUME NEW m \in Manual, runNow(m) PROVE TypeOK'
  <2>1. RecordsTypeOK'
    BY <1>0, <1>1, RecordTypes DEF runNow, Causes
  <2> QED BY <1>1, <2>1 DEF runNow, HandlerSteps
<1>2. ASSUME NEW m \in Manual, publishViaQueue(m) PROVE TypeOK'
  BY <1>2 DEF publishViaQueue, HandlerSteps, recordVars, RecordsTypeOK
<1>3. ASSUME NEW m \in Manual, markFailed(m) PROVE TypeOK'
  <2>1. RecordsTypeOK'
    BY <1>0, <1>3, RecordTypes DEF markFailed, Causes
  <2> QED BY <1>3, <2>1 DEF markFailed, HandlerSteps
<1>4. ASSUME NEW c \in Consumers, NEW m \in Manual, receive(c, m) PROVE TypeOK'
  BY <1>4 DEF receive, recordVars, RecordsTypeOK
<1>5. ASSUME NEW c \in Consumers, dispatch(c) PROVE TypeOK'
  <2>1. consumer[c] \in [pc : {"dispatch", "skip"}, run : Manual]
    BY <1>5 DEF dispatch, Waiting
  <2>2. RecordsTypeOK' /\ UNCHANGED <<handler, jobs, outcome, agents>>
    BY <1>5 DEF dispatch, recordVars, RecordsTypeOK
  <2>3. dispatched' \subseteq Manual /\ queued' \subseteq Manual
    BY <1>5, <2>1 DEF dispatch
  <2>4. consumer' \in [Consumers -> {Waiting} \cup [pc : {"dispatch", "skip"}, run : Manual]]
    BY <1>5, <2>1 DEF dispatch
  <2> QED BY <2>2, <2>3, <2>4
<1>6. ASSUME NEW c \in Consumers, skip(c) PROVE TypeOK'
  <2>1. consumer[c].run \in Manual
    BY <1>6 DEF skip, Waiting
  <2>2. RecordsTypeOK'
    BY <1>0, <1>6, <2>1, RecordTypes DEF skip, Causes
  <2>3. consumer' \in [Consumers -> {Waiting} \cup [pc : {"dispatch", "skip"}, run : Manual]]
    BY <1>6 DEF skip
  <2>4. queued' \subseteq Manual /\ UNCHANGED <<handler, dispatched, jobs, outcome, agents>>
    BY <1>6 DEF skip
  <2> QED BY <2>2, <2>3, <2>4
<1>7. ASSUME NEW m \in Manual, NEW d \in Deliveries, HandleJobRun(m, d) PROVE TypeOK'
  BY <1>7 DEF HandleJobRun, Job, To, JobSteps, recordVars, RecordsTypeOK
<1>8. ASSUME NEW m \in Manual, NEW d \in Deliveries, processRelayJob(m, d) PROVE TypeOK'
  <2>1. RecordsTypeOK'
    BY <1>0, <1>8, RecordTypes DEF processRelayJob, Causes
  <2>2. jobs' \in [Manual \X Deliveries -> JobSteps]
    BY <1>8 DEF processRelayJob, To, JobSteps
  <2> QED BY <1>8, <2>1, <2>2 DEF processRelayJob
<1>9. ASSUME NEW m \in Manual, NEW d \in Deliveries, RunAgent(m, d) PROVE TypeOK'
  <2>1. jobs' \in [Manual \X Deliveries -> JobSteps]
    BY <1>9 DEF RunAgent, To, JobSteps, Causes, Reported
  <2>2. agents' \in [RunIds -> Nat]
    BY <1>0, <1>9 DEF RunAgent
  <2>3. outcome' \in [Manual \X Deliveries -> Outcomes]
    BY <1>9 DEF RunAgent, Outcomes
  <2>4. RecordsTypeOK' /\ UNCHANGED <<handler, queued, consumer, dispatched>>
    BY <1>9 DEF RunAgent, recordVars, RecordsTypeOK
  <2> QED BY <2>1, <2>2, <2>3, <2>4
<1>10. ASSUME NEW m \in Manual, NEW d \in Deliveries, agentExits(m, d) PROVE TypeOK'
  <2>1. jobs' \in [Manual \X Deliveries -> JobSteps]
    BY <1>10 DEF agentExits, To, JobSteps
  <2>2. outcome' \in [Manual \X Deliveries -> Outcomes]
    BY <1>10 DEF agentExits
  <2>3. RecordsTypeOK' /\ UNCHANGED <<handler, queued, consumer, dispatched, agents>>
    BY <1>10 DEF agentExits, recordVars, RecordsTypeOK
  <2> QED BY <2>1, <2>2, <2>3
<1>11. ASSUME NEW m \in Manual, NEW d \in Deliveries, completeRelayJob(m, d) PROVE TypeOK'
  <2>1. outcome[<<m, d>>] \in Causes
    BY DEF Outcomes, Causes, Reported
  <2>2. RecordsTypeOK'
    BY <1>0, <1>11, <2>1, RecordTypes DEF completeRelayJob
  <2>3. jobs' \in [Manual \X Deliveries -> JobSteps]
    BY <1>11 DEF completeRelayJob, To, JobSteps
  <2> QED BY <1>11, <2>2, <2>3 DEF completeRelayJob
<1>12. ASSUME Restart PROVE TypeOK'
  BY <1>12 DEF Restart, JobSteps, recordVars, RecordsTypeOK
<1>13. ASSUME CleanUp PROVE TypeOK'
  <2>1. CASE RunIds = {}
    BY <1>13, <2>1 DEF CleanUp, terminalizeStaleRuns, RecordsTypeOK, Summarised, Failed
  <2>2. ASSUME NEW r \in RunIds PROVE RecordsTypeOK'
    <3>1. "none" \in Causes
      BY DEF Causes
    <3> QED BY <1>13, <3>1, RecordTypes DEF CleanUp
  <2>3. RecordsTypeOK'
    BY <2>1, <2>2
  <2> QED BY <1>13, <2>3 DEF CleanUp
<1>14. ASSUME ChangeJob PROVE TypeOK'
  BY <1>14 DEF ChangeJob, pauseScheduledJob, resumeScheduledJob, RecordsTypeOK
<1>15. CASE UNCHANGED vars
  BY <1>15 DEF vars, recordVars, RecordsTypeOK
<1> QED
  BY <1>1, <1>2, <1>3, <1>4, <1>5, <1>6, <1>7, <1>8, <1>9, <1>10, <1>11, <1>12, <1>13, <1>14,
     <1>15 DEF Next

---------------------------------------------------------------------------
(* Started is stable, and a success comes from a delivery that ran its agent. *)

\* No write undoes the start of a run.
LEMMA StartedStable ==
    ASSUME TypeOK, [Next]_vars, NEW r \in RunIds, Started(r)
    PROVE  Started(r)'
<1> USE DEF TypeOK, RecordsTypeOK, Started
<1>1. ASSUME NEW m \in Manual, runNow(m) PROVE Started(r)'
  BY <1>1 DEF runNow, triggerRunNow
<1>2. ASSUME NEW m \in Manual, markFailed(m) PROVE Started(r)'
  BY <1>2 DEF markFailed, markRunNowDispatchFailed, Ended
<1>3. ASSUME NEW c \in Consumers, skip(c) PROVE Started(r)'
  BY <1>3 DEF skip, markRunSkippedOffline, Ended
<1>4. ASSUME NEW m \in Manual, markRunStarted(m) PROVE Started(r)'
  BY <1>4 DEF markRunStarted, Startable
<1>5. ASSUME NEW m \in Manual, NEW c \in Outcomes, completeRun(m, c) PROVE Started(r)'
  <2>1. runs'[r] = runs[r] \/ runs'[r] = [status |-> StatusOf(c), cause |-> c]
    BY <1>5 DEF completeRun, Ended
  <2>2. StatusOf(c) \in {"succeeded", "failed"} /\ c \notin {"offline", "unqueued"}
    BY <1>5 DEF StatusOf, Outcomes
  <2>3. CASE runs'[r] = runs[r]
    BY <2>3
  <2>4. CASE runs'[r] = [status |-> StatusOf(c), cause |-> c]
    BY <2>2, <2>4
  <2> QED BY <2>1, <2>3, <2>4
<1>6. ASSUME CleanUp PROVE Started(r)'
  <2>1. PICK stale \in SUBSET RunIds : terminalizeStaleRuns(stale)
    BY <1>6 DEF CleanUp
  <2>2. r \notin Skipped(stale)
    BY DEF Skipped
  <2>3. runs'[r] = IF r \in Failed(stale) THEN [status |-> "failed", cause |-> "stale"] ELSE runs[r]
    BY <2>1, <2>2 DEF terminalizeStaleRuns
  <2> QED BY <2>3
<1>7. ASSUME runs' = runs PROVE Started(r)'
  BY <1>7
<1>8. ASSUME NEW m \in Manual, NEW d \in Deliveries, completeRelayJob(m, d) PROVE Started(r)'
  <2>1. outcome[<<m, d>>] \in Outcomes
    OBVIOUS
  <2> QED BY <1>5, <1>7, <1>8, <2>1 DEF completeRelayJob, recordVars
<1>9. ASSUME NEW m \in Manual, NEW d \in Deliveries, processRelayJob(m, d) PROVE Started(r)'
  BY <1>4, <1>7, <1>9 DEF processRelayJob, recordVars
<1>10. ASSUME \/ \E m \in Manual : publishViaQueue(m)
              \/ \E c \in Consumers : dispatch(c) \/ \E m \in Manual : receive(c, m)
              \/ \E m \in Manual, d \in Deliveries :
                    HandleJobRun(m, d) \/ RunAgent(m, d) \/ agentExits(m, d)
              \/ Restart \/ ChangeJob \/ UNCHANGED vars
       PROVE runs' = runs
  BY <1>10 DEF publishViaQueue, dispatch, receive, HandleJobRun, RunAgent, agentExits, Restart,
       ChangeJob, pauseScheduledJob, resumeScheduledJob, vars, recordVars
<1> QED
  BY <1>1, <1>2, <1>3, <1>6, <1>7, <1>8, <1>9, <1>10 DEF Next

\* A run becomes succeeded only by the report of a delivery whose agent is done.
LEMMA NewSuccess ==
    ASSUME TypeOK, [Next]_vars, NEW r \in RunIds,
           runs'[r].status = "succeeded", runs[r].status # "succeeded"
    PROVE  r \in Manual /\ \E d \in Deliveries : HasRun(r, d)
<1> USE DEF TypeOK, RecordsTypeOK
<1> DEFINE Goal == r \in Manual /\ \E d \in Deliveries : HasRun(r, d)
<1>1. ASSUME NEW m \in Manual, runNow(m) PROVE Goal
  BY <1>1 DEF runNow, triggerRunNow
<1>2. ASSUME NEW m \in Manual, markFailed(m) PROVE Goal
  BY <1>2 DEF markFailed, markRunNowDispatchFailed, Ended
<1>3. ASSUME NEW c \in Consumers, skip(c) PROVE Goal
  BY <1>3 DEF skip, markRunSkippedOffline, Ended
<1>4. ASSUME NEW m \in Manual, markRunStarted(m) PROVE Goal
  BY <1>4 DEF markRunStarted, Startable
<1>6. ASSUME CleanUp PROVE Goal
  BY <1>6 DEF CleanUp, terminalizeStaleRuns, Skipped, Failed
<1>7. ASSUME runs' = runs PROVE Goal
  BY <1>7
<1>8. ASSUME NEW m \in Manual, NEW d \in Deliveries, completeRelayJob(m, d) PROVE Goal
  <2>1. CASE UNCHANGED recordVars
    BY <1>7, <2>1 DEF recordVars
  <2>2. CASE completeRun(m, outcome[<<m, d>>])
    <3>1. r = m /\ StatusOf(outcome[<<m, d>>]) = "succeeded"
      BY <2>2 DEF completeRun, Ended
    <3>2. outcome[<<m, d>>] = "done"
      BY <3>1 DEF StatusOf
    <3> QED BY <1>8, <3>1, <3>2 DEF completeRelayJob, Job, HasRun
  <2> QED BY <1>8, <2>1, <2>2 DEF completeRelayJob
<1>9. ASSUME NEW m \in Manual, NEW d \in Deliveries, processRelayJob(m, d) PROVE Goal
  BY <1>4, <1>7, <1>9 DEF processRelayJob, recordVars
<1>10. ASSUME \/ \E m \in Manual : publishViaQueue(m)
              \/ \E c \in Consumers : dispatch(c) \/ \E m \in Manual : receive(c, m)
              \/ \E m \in Manual, d \in Deliveries :
                    HandleJobRun(m, d) \/ RunAgent(m, d) \/ agentExits(m, d)
              \/ Restart \/ ChangeJob \/ UNCHANGED vars
       PROVE runs' = runs
  BY <1>10 DEF publishViaQueue, dispatch, receive, HandleJobRun, RunAgent, agentExits, Restart,
       ChangeJob, pauseScheduledJob, resumeScheduledJob, vars, recordVars
<1> QED
  BY <1>1, <1>2, <1>3, <1>6, <1>7, <1>8, <1>9, <1>10 DEF Next

---------------------------------------------------------------------------
(* The inductive invariant. *)

\* How one step moves the goroutine of a delivery and the count of its run.
LEMMA Progress ==
    ASSUME RunInv, [Next]_vars, NEW m \in Manual, NEW d \in Deliveries
    PROVE  /\ Holds(m, d)' => \/ Holds(m, d) /\ agents'[m] = agents[m]
                              \/ /\ ~Started(m) /\ Started(m)' /\ agents'[m] = agents[m]
                                 /\ \A e \in Deliveries : Holds(m, e)' => e = d \/ Holds(m, e)
           /\ HasRun(m, d)' => \/ HasRun(m, d) /\ agents'[m] = agents[m]
                               \/ agents'[m] = agents[m] + 1
<1> USE DEF RunInv, TypeOK
<1> DEFINE Held == Holds(m, d)' => \/ Holds(m, d) /\ agents'[m] = agents[m]
                                  \/ /\ ~Started(m) /\ Started(m)' /\ agents'[m] = agents[m]
                                     /\ \A e \in Deliveries : Holds(m, e)' => e = d \/ Holds(m, e)
           Ran == HasRun(m, d)' => \/ HasRun(m, d) /\ agents'[m] = agents[m]
                                   \/ agents'[m] = agents[m] + 1
<1>1. ASSUME UNCHANGED <<jobs, outcome, agents>> PROVE Held /\ Ran
  BY <1>1 DEF Holds, HasRun
<1>2. ASSUME NEW n \in Manual, NEW e \in Deliveries, HandleJobRun(n, e) PROVE Held /\ Ran
  BY <1>2 DEF HandleJobRun, To, Holds, HasRun
<1>3. ASSUME NEW n \in Manual, NEW e \in Deliveries, agentExits(n, e) PROVE Held /\ Ran
  BY <1>3 DEF agentExits, Job, To, Holds, HasRun
<1>4. ASSUME NEW n \in Manual, NEW e \in Deliveries, completeRelayJob(n, e) PROVE Held /\ Ran
  BY <1>4 DEF completeRelayJob, To, Holds, HasRun
<1>5. ASSUME Restart PROVE Held /\ Ran
  BY <1>5 DEF Restart, Holds, HasRun
<1>6. ASSUME NEW n \in Manual, NEW e \in Deliveries, RunAgent(n, e) PROVE Held /\ Ran
  <2>1. /\ jobs[<<n, e>>] = "agent" /\ UNCHANGED runs
        /\ jobs' = [jobs EXCEPT ![<<n, e>>] = "running"] \/ jobs' = [jobs EXCEPT ![<<n, e>>] = "complete"]
    BY <1>6 DEF RunAgent, Job, To, recordVars
  <2>2. CASE <<m, d>> = <<n, e>>
    <3>1. ~Holds(m, d)'
      BY <2>1, <2>2 DEF Holds
    <3>2. Ran
      <4>1. CASE agents' = [agents EXCEPT ![n] = @ + 1]
        BY <2>2, <4>1 DEF RunIds
      <4>2. CASE jobs' = [jobs EXCEPT ![<<n, e>>] = "complete"]
                 /\ outcome' = [outcome EXCEPT ![<<n, e>>] = "agentFailed"]
        BY <2>2, <4>2 DEF HasRun
      <4> QED BY <1>6, <4>1, <4>2 DEF RunAgent, To
    <3> QED BY <3>1, <3>2
  <2>3. CASE <<m, d>> # <<n, e>>
    <3>1. jobs'[<<m, d>>] = jobs[<<m, d>>] /\ outcome'[<<m, d>>] = outcome[<<m, d>>]
      BY <1>6, <2>1, <2>3 DEF RunAgent
    <3>2. CASE m = n
      <4>1. ~Holds(m, d)
        BY <2>1, <2>3, <3>2 DEF Winner, Holds
      <4>2. agents'[m] = agents[m] \/ agents'[m] = agents[m] + 1
        BY <1>6, <3>2 DEF RunAgent, RunIds
      <4> QED BY <3>1, <4>1, <4>2 DEF Holds, HasRun
    <3>3. CASE m # n
      <4>1. agents'[m] = agents[m]
        BY <1>6, <3>3 DEF RunAgent, RunIds
      <4> QED BY <3>1, <4>1 DEF Holds, HasRun
    <3> QED BY <3>2, <3>3
  <2> QED BY <2>2, <2>3
<1>7. ASSUME NEW n \in Manual, NEW e \in Deliveries, processRelayJob(n, e) PROVE Held /\ Ran
  <2>1. \/ jobs' = [jobs EXCEPT ![<<n, e>>] = "gone"]
        \/ jobs' = [jobs EXCEPT ![<<n, e>>] = "agent"] /\ RunsAgent(n) /\ markRunStarted(n)
    BY <1>7 DEF processRelayJob, To
  <2>2. UNCHANGED <<outcome, agents>>
    BY <1>7 DEF processRelayJob
  <2>3. CASE jobs' = [jobs EXCEPT ![<<n, e>>] = "gone"]
    BY <2>2, <2>3 DEF Holds, HasRun
  <2>4. CASE jobs' = [jobs EXCEPT ![<<n, e>>] = "agent"] /\ RunsAgent(n) /\ markRunStarted(n)
    <3>1. n \in RunIds /\ Startable(n)
      BY <2>4 DEF RunsAgent, StartReply, RunIds
    <3>2. runs[n].status = "pending" /\ runs[n].cause = "none"
      BY <3>1 DEF Startable, Fresh, Terminal
    <3>3. runs'[n].status = "running" /\ runs'[n].cause = "none"
      BY <2>4, <3>1, <3>2 DEF markRunStarted, RecordsTypeOK
    <3>4. ~Started(n) /\ Started(n)'
      BY <3>2, <3>3 DEF Started
    <3>5. CASE m = n
      <4>1. \A a \in Deliveries : Holds(m, a)' => a = e \/ Holds(m, a)
        BY <2>4, <3>5 DEF Holds
      <4>2. \A a \in Deliveries : ~Holds(m, a)
        BY <3>4, <3>5 DEF Winner
      <4>3. Held
        BY <2>2, <3>4, <3>5, <4>1, <4>2
      <4>4. Ran
        BY <2>2, <2>4 DEF HasRun
      <4> QED BY <4>3, <4>4
    <3>6. CASE m # n
      BY <2>2, <2>4, <3>6 DEF Holds, HasRun
    <3> QED BY <3>5, <3>6
  <2> QED BY <2>1, <2>3, <2>4
<1> QED
  BY <1>1, <1>2, <1>3, <1>4, <1>5, <1>6, <1>7
  DEF Next, runNow, publishViaQueue, markFailed, receive, dispatch, skip, CleanUp, ChangeJob, vars

LEMMA FreshStep == TypeOK /\ Fresh /\ [Next]_vars => Fresh'
<1> SUFFICES ASSUME TypeOK, Fresh, [Next]_vars, NEW r \in RunIds, runs'[r].status \notin Terminal
             PROVE  runs'[r].cause = "none"
  BY DEF Fresh
<1> USE DEF TypeOK, RecordsTypeOK
<1> DEFINE Goal == runs'[r].cause = "none"
<1>0. runs[r].status \notin Terminal => runs[r].cause = "none"
  BY DEF Fresh
<1>1. ASSUME NEW m \in Manual, runNow(m) PROVE Goal
  BY <1>0, <1>1 DEF runNow, triggerRunNow, Terminal
<1>2. ASSUME NEW m \in Manual, markFailed(m) PROVE Goal
  BY <1>0, <1>2 DEF markFailed, markRunNowDispatchFailed, Ended, Terminal
<1>3. ASSUME NEW c \in Consumers, skip(c) PROVE Goal
  BY <1>0, <1>3 DEF skip, markRunSkippedOffline, Ended, Terminal
<1>4. ASSUME NEW m \in Manual, markRunStarted(m) PROVE Goal
  BY <1>0, <1>4 DEF markRunStarted, Startable, Terminal
<1>5. ASSUME NEW m \in Manual, NEW c, completeRun(m, c) PROVE Goal
  <2>1. runs'[r] = runs[r] \/ runs'[r] = [status |-> StatusOf(c), cause |-> c]
    BY <1>5 DEF completeRun, Ended
  <2>2. StatusOf(c) \in Terminal
    BY DEF StatusOf, Terminal
  <2> QED BY <1>0, <2>1, <2>2
<1>6. ASSUME CleanUp PROVE Goal
  <2>1. PICK stale \in SUBSET RunIds : terminalizeStaleRuns(stale)
    BY <1>6 DEF CleanUp
  <2>2. \/ runs'[r] = runs[r]
        \/ runs'[r] = [status |-> "failed", cause |-> "stale"]
        \/ runs'[r] = [status |-> "skipped_offline", cause |-> "stale"]
    BY <2>1 DEF terminalizeStaleRuns
  <2> QED BY <1>0, <2>2 DEF Terminal
<1>7. ASSUME runs' = runs PROVE Goal
  BY <1>0, <1>7
<1>8. ASSUME NEW m \in Manual, NEW d \in Deliveries, completeRelayJob(m, d) PROVE Goal
  BY <1>5, <1>7, <1>8 DEF completeRelayJob, recordVars
<1>9. ASSUME NEW m \in Manual, NEW d \in Deliveries, processRelayJob(m, d) PROVE Goal
  BY <1>4, <1>7, <1>9 DEF processRelayJob, recordVars
<1>10. ASSUME \/ \E m \in Manual : publishViaQueue(m)
              \/ \E c \in Consumers : dispatch(c) \/ \E m \in Manual : receive(c, m)
              \/ \E m \in Manual, d \in Deliveries :
                    HandleJobRun(m, d) \/ RunAgent(m, d) \/ agentExits(m, d)
              \/ Restart \/ ChangeJob \/ UNCHANGED vars
       PROVE runs' = runs
  BY <1>10 DEF publishViaQueue, dispatch, receive, HandleJobRun, RunAgent, agentExits, Restart,
       ChangeJob, pauseScheduledJob, resumeScheduledJob, vars, recordVars
<1> QED
  BY <1>1, <1>2, <1>3, <1>6, <1>7, <1>8, <1>9, <1>10 DEF Next

\* The count of a run changes only when the holder of the start runs its agent.
LEMMA CountStep ==
    ASSUME RunInv, [Next]_vars, NEW r \in RunIds
    PROVE  \/ agents'[r] = agents[r]
           \/ /\ agents[r] = 0 /\ agents'[r] = 1
              /\ r \in Manual /\ Started(r)
              /\ \A e \in Deliveries : ~Holds(r, e)'
<1> USE DEF RunInv, TypeOK
<1>1. ASSUME NEW m \in Manual, NEW d \in Deliveries, RunAgent(m, d), agents' # agents
      PROVE  /\ agents[m] = 0 /\ agents' = [agents EXCEPT ![m] = 1]
             /\ Started(m) /\ \A e \in Deliveries : ~Holds(m, e)'
  <2>1. Holds(m, d)
    BY <1>1 DEF RunAgent, Job, Holds
  <2>2. Started(m) /\ agents[m] = 0 /\ \A e \in Deliveries : Holds(m, e) => e = d
    BY <2>1 DEF Winner
  <2>3. agents' = [agents EXCEPT ![m] = @ + 1] /\ jobs' = [jobs EXCEPT ![<<m, d>>] = "running"]
    BY <1>1 DEF RunAgent, To
  <2>4. \A e \in Deliveries : ~Holds(m, e)'
    BY <2>2, <2>3 DEF Holds
  <2>5. agents' = [agents EXCEPT ![m] = 1]
    BY <2>2, <2>3
  <2> QED BY <2>2, <2>4, <2>5
<1>2. CASE agents' = agents
  BY <1>2
<1>3. CASE agents' # agents
  <2>1. PICK m \in Manual, d \in Deliveries : RunAgent(m, d)
    BY <1>3 DEF Next, vars, runNow, publishViaQueue, markFailed, receive, dispatch, skip,
         HandleJobRun, processRelayJob, agentExits, completeRelayJob, Restart, CleanUp, ChangeJob
  <2> QED BY <1>1, <1>3, <2>1 DEF RunIds
<1> QED BY <1>2, <1>3

LEMMA RunInvStep == RunInv /\ [Next]_vars => RunInv'
<1> SUFFICES ASSUME RunInv, [Next]_vars PROVE RunInv'
  OBVIOUS
<1>1. TypeOK'
  BY TypeStep DEF RunInv
<1>2. Fresh'
  BY FreshStep DEF RunInv
<1>3. Winner'
  <2> SUFFICES ASSUME NEW m \in Manual, NEW d \in Deliveries, Holds(m, d)'
               PROVE  /\ Started(m)' /\ agents'[m] = 0
                      /\ \A e \in Deliveries : Holds(m, e)' => e = d
    BY DEF Winner
  <2>0. m \in RunIds
    BY DEF RunIds
  <2>1. CASE Holds(m, d) /\ agents'[m] = agents[m]
    <3>1. Started(m) /\ agents[m] = 0 /\ \A e \in Deliveries : Holds(m, e) => e = d
      BY <2>1 DEF RunInv, Winner
    <3>2. Started(m)'
      BY <2>0, <3>1, StartedStable DEF RunInv
    <3>3. ASSUME NEW e \in Deliveries, Holds(m, e)' PROVE e = d
      BY <3>1, <3>3, Progress
    <3> QED BY <2>1, <3>1, <3>2, <3>3
  <2>2. CASE /\ ~Started(m) /\ Started(m)' /\ agents'[m] = agents[m]
             /\ \A e \in Deliveries : Holds(m, e)' => e = d \/ Holds(m, e)
    <3>1. \A e \in Deliveries : ~Holds(m, e)
      BY <2>2 DEF RunInv, Winner
    <3>2. agents[m] = 0
      BY <2>0, <2>2 DEF RunInv, Counted
    <3> QED BY <2>2, <3>1, <3>2
  <2> QED BY <2>1, <2>2, Progress
<1>4. Counted'
  <2>1. ASSUME NEW r \in RunIds
        PROVE  agents'[r] \in {0, 1} /\ (agents'[r] = 1 => Started(r)')
    <3>1. agents[r] \in {0, 1} /\ (agents[r] = 1 => Started(r))
      BY DEF RunInv, Counted
    <3>2. agents'[r] \in {0, 1} /\ (agents'[r] = 1 => Started(r))
      BY <3>1, CountStep
    <3> QED BY <3>2, StartedStable DEF RunInv
  <2>2. ASSUME NEW m \in Manual, NEW d \in Deliveries, HasRun(m, d)' PROVE agents'[m] = 1
    <3>0. m \in RunIds
      BY DEF RunIds
    <3>1. CASE HasRun(m, d) /\ agents'[m] = agents[m]
      BY <3>1 DEF RunInv, Counted
    <3>2. CASE agents'[m] = agents[m] + 1
      <4>1. agents[m] \in {0, 1} /\ agents'[m] \in {0, 1}
        BY <2>1, <3>0 DEF RunInv, Counted
      <4> QED BY <3>2, <4>1
    <3> QED BY <2>2, <3>1, <3>2, Progress
  <2>3. ASSUME NEW r \in RunIds, runs'[r].status = "succeeded" PROVE agents'[r] = 1
    <3>1. agents[r] = 1
      <4>1. CASE runs[r].status = "succeeded"
        BY <4>1 DEF RunInv, Counted
      <4>2. CASE runs[r].status # "succeeded"
        BY <2>3, <4>2, NewSuccess DEF RunInv, Counted
      <4> QED BY <4>1, <4>2
    <3> QED BY <3>1, CountStep
  <2> QED BY <2>1, <2>2, <2>3 DEF Counted
<1> QED BY <1>1, <1>2, <1>3, <1>4 DEF RunInv

LEMMA RunInvInit == Init => RunInv
<1> SUFFICES ASSUME Init PROVE RunInv
  OBVIOUS
<1>1. TypeOK
  BY TypeInit
<1>2. Fresh /\ Winner /\ Counted
  BY DEF Init, RecordsInit, Fresh, Winner, Counted, Holds, HasRun
<1> QED BY <1>1, <1>2 DEF RunInv

\* The invariant holds of every behaviour.
THEOREM RunInvariant == Spec => []RunInv
BY RunInvInit, RunInvStep, PTL DEF Spec

\* At most one agent process per run, for any number of consumers and deliveries.
THEOREM AtMostOneAgent == Spec => []RunsOnce
<1>1. RunInv => RunsOnce
  BY DEF RunInv, Counted, RunsOnce
<1> QED BY <1>1, RunInvariant, PTL

\* No agent process for a run recorded as skipped or as never queued.
THEOREM NoAgentWhenNotRun == Spec => []NotRunNeverRan
<1>1. RunInv => NotRunNeverRan
  BY DEF RunInv, Counted, NotRunNeverRan, Started
<1> QED BY <1>1, RunInvariant, PTL

\* No success without an agent process.
THEOREM SuccessHasAgent == Spec => []SucceededRan
<1>1. RunInv => SucceededRan
  BY DEF RunInv, Counted, SucceededRan
<1> QED BY <1>1, RunInvariant, PTL

\* The types, as a theorem of the specification.
THEOREM TypeCorrect == Spec => []TypeOK
<1>1. RunInv => TypeOK
  BY DEF RunInv
<1> QED BY <1>1, RunInvariant, PTL

===========================================================================
