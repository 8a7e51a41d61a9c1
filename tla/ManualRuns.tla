----------------------------- MODULE ManualRuns -----------------------------
(***************************************************************************)
(* A Run Now request from the API handler to the agent process: the        *)
(* handler inserts the run and publishes a message, queue consumers that   *)
(* may receive it more than once dispatch it to the relay, the relay       *)
(* delivers job.run at least once, and every delivery is a goroutine of    *)
(* the daemon that asks the API to start the run.                          *)
(*                                                                         *)
(* The queue and the relay are seen through what they may do here: a       *)
(* failed send may have reached the queue, a message may come again after  *)
(* its acknowledgement was lost, and a relay that answers with an error or *)
(* node_offline may have sent job.run before.                              *)
(***************************************************************************)
EXTENDS RunRecords

CONSTANTS
    Consumers,    \* invocations of the queue consumer
    Deliveries    \* deliveries of job.run to the daemon, per run

VARIABLES
    handler,      \* handler[m]: the Run Now request of run m
    queued,       \* messages the queue may hand out
    consumer,     \* consumer[c]: [pc, run]
    dispatched,   \* runs whose job.run the relay may deliver
    jobs,         \* jobs[<<m, d>>]: the goroutine of a delivery
    outcome,      \* outcome[<<m, d>>]: the result it is going to report
    agents        \* how many agent processes were started for each run

vars == <<recordVars, handler, queued, consumer, dispatched, jobs, outcome, agents>>

HandlerSteps == {"none", "publish", "markFailed", "done"}

JobSteps == {"none", "start", "agent", "running", "complete", "gone"}

Outcomes == {"done", "agentFailed"}

Waiting == [pc |-> "idle", run |-> NoRun]

TypeOK ==
    /\ RecordsTypeOK
    /\ handler \in [Manual -> HandlerSteps]
    /\ queued \subseteq Manual
    /\ consumer \in [Consumers -> {Waiting} \cup [pc : {"dispatch", "skip"}, run : Manual]]
    /\ dispatched \subseteq Manual
    /\ jobs \in [Manual \X Deliveries -> JobSteps]
    /\ outcome \in [Manual \X Deliveries -> Outcomes]
    /\ agents \in [RunIds -> Nat]

Init ==
    /\ RecordsInit
    /\ handler = [m \in Manual |-> "none"]
    /\ queued = {}
    /\ consumer = [c \in Consumers |-> Waiting]
    /\ dispatched = {}
    /\ jobs = [j \in Manual \X Deliveries |-> "none"]
    /\ outcome = [j \in Manual \X Deliveries |-> "agentFailed"]
    /\ agents = [r \in RunIds |-> 0]

---------------------------------------------------------------------------
(* The handler of Run Now. *)

runNow(m) ==
    /\ handler[m] = "none"
    /\ triggerRunNow(m)
    /\ handler' = [handler EXCEPT ![m] = "publish"]
    /\ UNCHANGED <<queued, consumer, dispatched, jobs, outcome, agents>>

\* publishViaQueue: the send returns, or it throws; a send that threw may have
\* reached the queue all the same.
publishViaQueue(m) ==
    /\ handler[m] = "publish"
    /\ \/ /\ handler' = [handler EXCEPT ![m] = "done"]
          /\ queued' = queued \cup {m}
       \/ /\ handler' = [handler EXCEPT ![m] = "markFailed"]
          /\ queued' \in {queued, queued \cup {m}}
    /\ UNCHANGED <<recordVars, consumer, dispatched, jobs, outcome, agents>>

markFailed(m) ==
    /\ handler[m] = "markFailed"
    /\ markRunNowDispatchFailed(m)
    /\ handler' = [handler EXCEPT ![m] = "done"]
    /\ UNCHANGED <<queued, consumer, dispatched, jobs, outcome, agents>>

---------------------------------------------------------------------------
(* handleDispatchMessage, one invocation per consumer. *)

\* getPendingRunForDispatch: a run that is no longer pending is acknowledged.
receive(c, m) ==
    /\ consumer[c] = Waiting
    /\ m \in queued
    /\ IF runs[m].status = "pending"
       THEN /\ consumer' = [consumer EXCEPT ![c] = [pc |-> "dispatch", run |-> m]]
            /\ UNCHANGED queued
       ELSE /\ queued' = queued \ {m}
            /\ UNCHANGED consumer
    /\ UNCHANGED <<recordVars, handler, dispatched, jobs, outcome, agents>>

\* The dispatch request: accepted and acknowledged, answered node_offline, or
\* failed, which puts the message back.
dispatch(c) ==
    /\ consumer[c].pc = "dispatch"
    /\ dispatched' \in {dispatched, dispatched \cup {consumer[c].run}}
    /\ \/ /\ consumer' = [consumer EXCEPT ![c] = Waiting]
          /\ queued' \in {queued, queued \ {consumer[c].run}}
       \/ /\ consumer' = [consumer EXCEPT ![c] = [pc |-> "skip", run |-> @.run]]
          /\ UNCHANGED queued
    /\ UNCHANGED <<recordVars, handler, jobs, outcome, agents>>

skip(c) ==
    /\ consumer[c].pc = "skip"
    /\ markRunSkippedOffline(consumer[c].run)
    /\ consumer' = [consumer EXCEPT ![c] = Waiting]
    /\ queued' \in {queued, queued \ {consumer[c].run}}
    /\ UNCHANGED <<handler, dispatched, jobs, outcome, agents>>

---------------------------------------------------------------------------
(* The daemon: one goroutine per delivery of job.run. *)

Job(m, d, pc) == jobs[<<m, d>>] = pc

To(m, d, pc) == jobs' = [jobs EXCEPT ![<<m, d>>] = pc]

HandleJobRun(m, d) ==
    /\ m \in dispatched
    /\ Job(m, d, "none")
    /\ To(m, d, "start")
    /\ UNCHANGED <<recordVars, handler, queued, consumer, dispatched, outcome, agents>>

\* Mutant: a run that is already running is executed as well.
RunsAgentAlways(m) == StartReply(m) # "unavailable"

\* processRelayJob goes on only when this caller won the start.
RunsAgent(m) == StartReply(m) = "started"

\* The start request is answered; or the daemon sees an error and gives up, and
\* the request was or was not served.
processRelayJob(m, d) ==
    /\ Job(m, d, "start")
    /\ \/ /\ markRunStarted(m)
          /\ To(m, d, IF RunsAgent(m) THEN "agent" ELSE "gone")
       \/ /\ markRunStarted(m) \/ UNCHANGED recordVars
          /\ To(m, d, "gone")
    /\ UNCHANGED <<handler, queued, consumer, dispatched, outcome, agents>>

\* RunAgent: the command is resolved and started, or there is none.
RunAgent(m, d) ==
    /\ Job(m, d, "agent")
    /\ \/ /\ agents' = [agents EXCEPT ![m] = @ + 1]
          /\ To(m, d, "running")
          /\ UNCHANGED outcome
       \/ /\ To(m, d, "complete")
          /\ outcome' = [outcome EXCEPT ![<<m, d>>] = "agentFailed"]
          /\ UNCHANGED agents
    /\ UNCHANGED <<recordVars, handler, queued, consumer, dispatched>>

agentExits(m, d) ==
    /\ Job(m, d, "running")
    /\ To(m, d, "complete")
    /\ \E c \in Outcomes : outcome' = [outcome EXCEPT ![<<m, d>>] = c]
    /\ UNCHANGED <<recordVars, handler, queued, consumer, dispatched, agents>>

\* completeRelayJob reports once; a report that fails is only logged.
completeRelayJob(m, d) ==
    /\ Job(m, d, "complete")
    /\ completeRun(m, outcome[<<m, d>>]) \/ UNCHANGED recordVars
    /\ To(m, d, "gone")
    /\ UNCHANGED <<handler, queued, consumer, dispatched, outcome, agents>>

\* The daemon stops: its goroutines are gone, nothing of them is kept.
Restart ==
    /\ \E j \in Manual \X Deliveries : jobs[j] \notin {"none", "gone"}
    /\ jobs' = [j \in Manual \X Deliveries |-> IF jobs[j] = "none" THEN "none" ELSE "gone"]
    /\ UNCHANGED <<recordVars, handler, queued, consumer, dispatched, outcome, agents>>

---------------------------------------------------------------------------

CleanUp ==
    /\ \E stale \in SUBSET RunIds : terminalizeStaleRuns(stale)
    /\ UNCHANGED <<handler, queued, consumer, dispatched, jobs, outcome, agents>>

ChangeJob ==
    /\ pauseScheduledJob \/ resumeScheduledJob
    /\ UNCHANGED <<handler, queued, consumer, dispatched, jobs, outcome, agents>>

Next ==
    \/ \E m \in Manual : runNow(m) \/ publishViaQueue(m) \/ markFailed(m)
    \/ \E c \in Consumers : dispatch(c) \/ skip(c) \/ \E m \in Manual : receive(c, m)
    \/ \E m \in Manual, d \in Deliveries :
          \/ HandleJobRun(m, d) \/ processRelayJob(m, d) \/ RunAgent(m, d)
          \/ agentExits(m, d) \/ completeRelayJob(m, d)
    \/ Restart
    \/ CleanUp
    \/ ChangeJob

Spec == Init /\ [][Next]_vars

\* The clean-up runs every day, and a run that stays as it is becomes stale.
FairSpec ==
    /\ Spec
    /\ \A r \in RunIds :
          WF_vars(/\ \E stale \in SUBSET RunIds : r \in stale /\ terminalizeStaleRuns(stale)
                  /\ UNCHANGED <<handler, queued, consumer, dispatched, jobs, outcome, agents>>)

---------------------------------------------------------------------------

\* At most one agent process is started for a run, although its message may be
\* consumed twice, job.run delivered again and the answer to a start be lost.
RunsOnce == \A r \in RunIds : agents[r] <= 1

\* A run recorded as skipped, or as never queued, had no agent process: neither
\* verdict is given before the API row rules out that a daemon starts the run.
NotRunNeverRan ==
    \A r \in RunIds : runs[r].cause \in {"offline", "unqueued"} \/ runs[r].status = "skipped_offline"
                          => agents[r] = 0

\* Only a run whose agent process was started can be recorded as succeeded.
SucceededRan == \A r \in RunIds : runs[r].status = "succeeded" => agents[r] = 1

\* Every run comes to an end, although a start whose answer is lost and a report
\* that fails are not repeated.
EveryRunEnds == \A r \in RunIds : runs[r].status = "pending" ~> runs[r].status \in Terminal

===========================================================================
