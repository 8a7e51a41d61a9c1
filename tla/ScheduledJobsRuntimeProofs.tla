--------------------- MODULE ScheduledJobsRuntimeProofs ---------------------
(***************************************************************************)
(* Proofs about ScheduledJobsRuntime and the LocalScheduler it runs, for   *)
(* any number of jobs, instants and edits and any cut-off.                 *)
(*                                                                         *)
(* The parts of the invariant say who has what in hand: a claim is in the  *)
(* channel or with the worker, api is held by one call, a scheduler that   *)
(* was not started has done nothing, and an answer of the API is the       *)
(* schedule until the next edit. From these follows what a snapshot or a   *)
(* claim may do to the timers.                                             *)
(***************************************************************************)
EXTENDS ScheduledJobsRuntime, WellFoundedInduction, TLAPS

Occurrence == [job : Jobs, due : Times \cup {Unset}]

\* The job of the worker is being claimed, or runs.
Claims == {"claim", "asking", "claimed", "failed"}
Runs   == {"register", "execute", "unregister", "clear"}

\* The API has inserted a run for the claim, and the worker will hear of it.
Granted ==
    \/ worker.pc = "claimed"
    \/ worker.pc = "asking" /\ call.pc = "answered" /\ worker.next # Unset

\* The types the proof needs of the scheduler.
SchedulerTyped ==
    /\ now \in 0..MaxTime
    /\ jobs \in [Jobs -> [active : BOOLEAN, nextRunAt : Times]]
    /\ armed \in [Jobs -> Times \cup {Unset}]
    /\ claiming \in [Jobs -> Times \cup {Unset}]
    /\ dueJobs \in [job : Jobs, due : Times] \cup {NoJob}
    /\ started \in {"no", "started", "failed", "closed"}
    /\ coordinator \in [timer : Times, batch : SUBSET [job : Jobs, due : Times], at : 0..MaxTime]
    /\ worker \in [pc : {"idle", "refresh"} \cup Claims \cup Runs, job : Jobs \cup {"none"},
                   due : Times \cup {Unset}, next : Times \cup {Unset}]
    /\ call \in [by : Callers \cup {"claim", "none"}, pc : {"none", "asked", "answered"},
                 protected : SUBSET Occurrence, answer : SUBSET [job : Jobs, due : Times]]
    /\ wanting \subseteq Callers
    /\ owed \subseteq [job : Jobs, due : Times]

\* Those of the runtime.
RuntimeTyped ==
    /\ changes \in 0..MaxChanges /\ notices \in 0..changes
    /\ refresher \in {"idle", "read", "refresh", "recover"} /\ pending \in BOOLEAN
    /\ state \in {"waiting", "recovering", "enabled"}
    /\ recovery \in {"delayed", "parked", "recover", "start", "starting", "closing", "done"}
    /\ closer \in {"idle", "closing", "done"}

\* A job has at most one of a timer and a claim.
TimerOrClaim == \A j \in Jobs : armed[j] = Unset \/ claiming[j] = Unset

\* A claim is in the channel or with the worker, and in one of them only; the job that runs is
\* the worker's.
ClaimsOK ==
    /\ worker.pc \in Claims =>
         worker.job \in Jobs /\ worker.due # Unset /\ claiming[worker.job] = worker.due
    /\ dueJobs # NoJob =>
         claiming[dueJobs.job] = dueJobs.due /\ ~(worker.pc \in Claims /\ worker.job = dueJobs.job)
    /\ ~schedulerClosed =>
         \A j \in Jobs : \/ claiming[j] = Unset
                         \/ dueJobs # NoJob /\ dueJobs.job = j
                         \/ worker.pc \in Claims /\ worker.job = j
    /\ running = IF worker.pc \in Runs THEN {worker.job} ELSE {}

\* The holder of api and those who wait for it are where the goroutines say.
CallsOK ==
    /\ call.by = "none" => call = NoCall
    /\ call.by \notin wanting
    /\ worker.pc = "asking" <=> call.by = "claim"
    /\ worker.pc = "refresh" <=> "worker" \in wanting \/ call.by = "worker"
    /\ "start" \in wanting \/ call.by = "start" <=> recovery = "starting" /\ started = "no"

\* Until the first snapshot is applied the scheduler has done nothing; the runtime is enabled
\* by a recovery that has ended, and only a closed runtime closes its scheduler.
LifecycleOK ==
    /\ schedulerClosed \/ started = "closed" => closed
    /\ state = "enabled" => recovery = "done" /\ registered /\ started \in {"started", "closed"}
    /\ recovery \in {"start", "starting"} => registered
    /\ recovery \in {"delayed", "parked", "recover", "start"} => started = "no"
    /\ started \in {"no", "failed"} =>
         /\ \A j \in Jobs : armed[j] = Unset
         /\ coordinator.batch = {} /\ dueJobs = NoJob /\ ~reconcileRequests
         /\ worker.pc = "idle"
         /\ wanting \subseteq {"start"} /\ call.by \in {"none", "start"}

\* A scheduler that is still registered when the runtime closes is closed with it, and the
\* recovery holds lifecycleMu exactly while it waits for the scheduler it closed.
ClosingOK ==
    /\ closed /\ registered => schedulerClosed
    /\ lifecycleMu = IF recovery = "closing" THEN "recovery" ELSE "free"
    /\ recovery = "closing" => schedulerClosed

\* What is owed has been granted to the worker and is not executed yet.
OwedOK ==
    closed \/ \A c \in owed : /\ worker.job = c.job /\ worker.due = c.due
                              /\ Granted \/ worker.pc \in {"register", "execute"}

\* A signal of the edit is on its way to a refresh that has not begun, or in recoveryRequests,
\* which an enabled runtime does not read.
Signalled ==
    notices > 0 \/ refresher # "idle" \/ refreshRequests \/ recoveryRequests \/ "runtime" \in wanting

\* An edit the API has not been asked about is signalled when an answer without it is about to
\* be applied, and once the scheduler has started it is signalled or a refresh is under way or
\* has failed.
SignalsOK ==
    unseen /\ ~closed =>
        /\ call.by \in Callers /\ call.pc = "answered" => Signalled
        /\ started = "started" => Signalled \/ call.by \in Callers \/ failed

\* The coordinator wakes up in time for every timer.
WakesInTime ==
    ~scheduleChanged /\ coordinator.batch = {} =>
        \A j \in Jobs : armed[j] # Unset => coordinator.timer <= armed[j]

\* What the API would answer now.
Schedule == {[job |-> j, due |-> jobs[j].nextRunAt] : j \in {k \in Jobs : jobs[k].active}}

\* An answer is the schedule until an edit the API has not been asked about.
AnswerOK == call.by \in Callers /\ call.pc = "answered" /\ ~unseen => call.answer = Schedule

\* The timer of j is that of the schedule, or a claim that was granted will set it so.
Follows(j) ==
    /\ claiming[j] = Unset => armed[j] = IF jobs[j].active THEN jobs[j].nextRunAt ELSE Unset
    /\ Granted /\ worker.job = j => jobs[j].active /\ jobs[j].nextRunAt = worker.next

\* No refresh is under way, asked for or known to be needed.
Settled ==
    /\ ~closed /\ started = "started" /\ ~failed /\ ~unseen
    /\ ~reconcileRequests /\ wanting = {} /\ call.by \notin Callers

TimersOK == Settled => \A j \in Jobs \ excused : Follows(j)

IInv ==
    /\ SchedulerTyped /\ RuntimeTyped /\ TimerOrClaim /\ ClaimsOK /\ CallsOK /\ LifecycleOK
    /\ ClosingOK /\ OwedOK /\ SignalsOK /\ WakesInTime /\ AnswerOK /\ TimersOK

\* Something that Close waits for can go on: the API mutex has a call that returns or a goroutine
\* that takes it next, the due worker or the coordinator has a step to take, or recovery has.
GoesOn ==
    \/ call # NoCall \/ wanting # {} \/ coordinator.batch # {}
    \/ worker.pc \in {"claim", "failed", "claimed", "execute", "clear"}
    \/ worker.pc \in {"register", "unregister"} /\ lifecycleMu = "free"
    \/ recovery \in SeesCancel \/ recovery = "start"
    \/ (recovery = "recover" \/ (recovery = "starting" /\ started # "no")) /\ lifecycleMu = "free"
    \/ recovery = "closing" /\ Stopped

\* What CloseReturns says, with the guards of the steps in place of ENABLED: Close can return, or
\* somebody it waits for can go on; it is stuck only when Caught.
CloseIsNotStuck ==
    closer = "closing" =>
        Caught \/ GoesOn \/ (recovery = "done" /\ (registered => Stopped))

---------------------------------------------------------------------------
(* The operators of the schedule. *)

\* A set of instants that is not empty has a first one.
LEMMA First ==
    ASSUME NEW S \in SUBSET Nat, S # {}
    PROVE  \E m \in S : \A k \in S : m <= k
  <1> DEFINE R == OpToRel(<, Nat)
  <1>1. IsWellFoundedOn(R, Nat)
    BY NatLessThanWellFounded, Zenon
  <1>2. PICK m \in S : \A k \in S : ~ (<<k, m>> \in R)
    <2> HIDE DEF R
    <2> QED
      BY <1>1, WFMin
  <1>3. \A k \in S : m \in Nat /\ k \in Nat /\ ~(k < m)
    BY <1>2 DEF OpToRel
  <1> QED
    BY <1>3

\* No occurrence is Unset, and what is due names a job.
LEMMA UnsetIsNoTime ==
    /\ Unset \notin Times /\ Never \in Times /\ Times \subseteq Nat
    /\ NoJob \notin [job : Jobs, due : Times]
  <1>1. Unset \notin Times /\ Never \in Times /\ Times \subseteq Nat
    BY ScheduleAssumption DEF Unset, Times, Never
  <1>2. ASSUME NoJob \in [job : Jobs, due : Times] PROVE FALSE
    BY <1>1, <1>2 DEF NoJob
  <1> QED
    BY <1>1, <1>2

\* computeNextRunAt returns an occurrence or none.
LEMMA NextRunAtType == \A t : NextRunAt(t) \in Times
  <1> SUFFICES ASSUME NEW t PROVE NextRunAt(t) \in Times
    OBVIOUS
  <1> DEFINE later == {i \in Instants : i > t}
  <1>1. later \subseteq Times /\ later \in SUBSET Nat
    <2>1. later \subseteq Instants
      OBVIOUS
    <2> HIDE DEF later
    <2> QED
      BY <2>1, ScheduleAssumption DEF Times, Never
  <1>2. CASE later = {}
    BY <1>2, UnsetIsNoTime DEF NextRunAt
  <1>3. CASE later # {}
    <2>1. \E i \in later : \A k \in later : i <= k
      <3> HIDE DEF later
      <3> QED
        BY <1>1, <1>3, First
    <2>2. NextRunAt(t) = CHOOSE i \in later : \A k \in later : i <= k
      BY <1>3 DEF NextRunAt
    <2> HIDE DEF later
    <2> QED
      BY <1>1, <2>1, <2>2
  <1> QED
    BY <1>2, <1>3

\* resetDueTimer leaves nothing to dispatch and a timer that is no later than any occurrence.
LEMMA ResetTimer ==
    ASSUME NEW a \in [Jobs -> Times \cup {Unset}]
    PROVE  /\ resetDueTimer(a) \in [timer : Times, batch : SUBSET [job : Jobs, due : Times], at : 0..MaxTime]
           /\ resetDueTimer(a).batch = {}
           /\ \A j \in Jobs : a[j] # Unset => resetDueTimer(a).timer <= a[j]
  <1> DEFINE dues == {a[j] : j \in {k \in Jobs : a[k] # Unset}}
             first == IF dues = {} THEN Never ELSE CHOOSE d \in dues : \A e \in dues : d <= e
  <1>1. dues \subseteq Times /\ dues \in SUBSET Nat
    BY UnsetIsNoTime
  <1>2. first \in Times /\ \A e \in dues : first <= e
    <2>1. CASE dues = {}
      BY <2>1, UnsetIsNoTime
    <2>2. CASE dues # {}
      <3>1. \E d \in dues : \A e \in dues : d <= e
        <4> HIDE DEF dues
        <4> QED
          BY <1>1, <2>2, First
      <3>2. first = CHOOSE d \in dues : \A e \in dues : d <= e
        BY <2>2
      <3> HIDE DEF dues, first
      <3> QED
        BY <1>1, <3>1, <3>2
    <2> QED
      BY <2>1, <2>2
  <1>3. resetDueTimer(a) = [timer |-> first, batch |-> {}, at |-> 0]
    BY DEF resetDueTimer
  <1>4. 0 \in 0..MaxTime
    BY ScheduleAssumption
  <1>5. \A j \in Jobs : a[j] # Unset => a[j] \in dues
    OBVIOUS
  <1> HIDE DEF dues, first
  <1> QED
    BY <1>2, <1>3, <1>4, <1>5

\* What a snapshot says of a job.
LEMMA FutureType ==
    ASSUME SchedulerTyped, NEW j \in Jobs
    PROVE  future(j) \in Times \cup {Unset}
  <1> DEFINE later == {s \in call.answer : s.job = j /\ s.due > now}
  <1>1. \A s \in later : s.due \in Times
    BY DEF SchedulerTyped
  <1>2. future(j) = IF later = {} THEN Unset ELSE (CHOOSE s \in later : TRUE).due
    BY DEF future
  <1> HIDE DEF later
  <1> QED
    BY <1>1, <1>2

\* An answer that is the schedule arms the occurrence of an active job unless it has passed.
LEMMA FutureOfSchedule ==
    ASSUME SchedulerTyped, call.answer = Schedule, NEW j \in Jobs
    PROVE  /\ ~jobs[j].active => future(j) = Unset
           /\ jobs[j].active => \E s \in call.answer : s.job = j
           /\ jobs[j].active /\ future(j) # Unset => future(j) = jobs[j].nextRunAt
  <1> DEFINE later == {s \in call.answer : s.job = j /\ s.due > now}
  <1>1. \A s \in later : jobs[j].active /\ s.due = jobs[j].nextRunAt
    BY DEF Schedule
  <1>2. ASSUME jobs[j].active PROVE \E s \in call.answer : s.job = j
    <2>1. [job |-> j, due |-> jobs[j].nextRunAt] \in call.answer
      BY <1>2 DEF Schedule
    <2> QED
      BY <2>1
  <1>3. future(j) = IF later = {} THEN Unset ELSE (CHOOSE s \in later : TRUE).due
    BY DEF future
  <1> HIDE DEF later
  <1> QED
    BY <1>1, <1>2, <1>3

---------------------------------------------------------------------------
(* Types. *)

\* The steps that are not the scheduler's.
RuntimeStep ==
    \/ \E j \in Jobs : ChangeJob(j)
    \/ RefreshStep \/ RecoveryStep \/ registerActiveRun \/ Close \/ closeReturns

\* A caller that returns from a refresh.
LEMMA ReturnedType ==
    ASSUME SchedulerTyped, NEW c, NEW error, Returned(c, error)
    PROVE  /\ worker' = worker \/ (c = "worker" /\ worker' = Idle)
           /\ started' = started \/ (c = "start" /\ started' \in {"started", "failed", "closed"})
  BY DEF Returned

\* No call is under way.
LEMMA NoCallFacts == NoCall.by = "none" /\ NoCall.pc = "none"
  BY DEF NoCall

\* The idle worker is one.
LEMMA IdleType ==
    Idle \in [pc : {"idle", "refresh"} \cup Claims \cup Runs, job : Jobs \cup {"none"},
              due : Times \cup {Unset}, next : Times \cup {Unset}]
  BY DEF Idle

\* Every step of the scheduler keeps its types.
LEMMA SchedulerTypes ==
    ASSUME SchedulerTyped, ClaimsOK, CallsOK, SchedulerNext
    PROVE  SchedulerTyped'
  <1> USE UnsetIsNoTime
  <1>1. now' \in 0..MaxTime
    <2>1. now' = now \/ (now < MaxTime /\ now' = now + 1)
      BY DEF SchedulerNext, SchedulerWork, Tick, dueCoordinator, dispatchDue, enqueueDue, dueWorker,
        claimOccurrence, claimScheduledJob, claimAnswered, claimLost, claimFailed, rearmClaimed, execute,
        clearRunning, reconcileRequestsLoop, reconcileLoop, Refresh, reconcileScheduledJobs,
        applySnapshot, refreshFails
    <2> QED
      BY <2>1, ScheduleAssumption DEF SchedulerTyped
  <1>2. jobs' \in [Jobs -> [active : BOOLEAN, nextRunAt : Times]]
    <2>1. CASE claimScheduledJob
      <3>1. PICK t \in Times : jobs' = jobs \/ jobs' = [jobs EXCEPT ![worker.job].nextRunAt = t]
        BY <2>1, NextRunAtType, Zenon DEF claimScheduledJob
      <3> QED
        BY <3>1 DEF SchedulerTyped
    <2>2. CASE reconcileScheduledJobs
      BY <2>2, NextRunAtType DEF reconcileScheduledJobs, SchedulerTyped
    <2>3. jobs' = jobs \/ claimScheduledJob \/ reconcileScheduledJobs
      BY DEF SchedulerNext, SchedulerWork, Tick, dueCoordinator, dispatchDue, enqueueDue, dueWorker,
        claimOccurrence, claimAnswered, claimLost, claimFailed, rearmClaimed, execute,
        clearRunning, reconcileRequestsLoop, reconcileLoop, Refresh, applySnapshot, refreshFails
    <2> QED
      BY <2>1, <2>2, <2>3 DEF SchedulerTyped
  <1>3. armed' \in [Jobs -> Times \cup {Unset}]
    <2>1. ASSUME NEW d \in coordinator.batch, enqueueDue(d) PROVE armed' \in [Jobs -> Times \cup {Unset}]
      BY <2>1 DEF enqueueDue, SchedulerTyped, timerVars
    <2>2. CASE rearmClaimed
      BY <2>2 DEF rearmClaimed, SchedulerTyped
    <2>3. CASE applySnapshot
      BY <2>3, FutureType DEF applySnapshot, SnapshotTimers
    <2>4. armed' = armed \/ (\E d \in coordinator.batch : enqueueDue(d)) \/ rearmClaimed \/ applySnapshot
      BY DEF SchedulerNext, SchedulerWork, Tick, dueCoordinator, dispatchDue, dueWorker,
        claimOccurrence, claimScheduledJob, claimAnswered, claimLost, claimFailed, execute,
        clearRunning, reconcileRequestsLoop, reconcileLoop, Refresh, reconcileScheduledJobs,
        refreshFails, timerVars
    <2> QED
      BY <2>1, <2>2, <2>3, <2>4 DEF SchedulerTyped
  <1>4. claiming' \in [Jobs -> Times \cup {Unset}] /\ dueJobs' \in [job : Jobs, due : Times] \cup {NoJob}
    <2>1. ASSUME NEW d \in coordinator.batch, enqueueDue(d)
          PROVE  claiming' \in [Jobs -> Times \cup {Unset}] /\ dueJobs' \in [job : Jobs, due : Times] \cup {NoJob}
      BY <2>1 DEF enqueueDue, SchedulerTyped, timerVars
    <2>2. claiming' \in [Jobs -> Times \cup {Unset}] \/ (\E d \in coordinator.batch : enqueueDue(d))
      <3>1. CASE claimFailed
        BY <3>1 DEF claimFailed, SchedulerTyped
      <3>2. CASE rearmClaimed
        BY <3>2 DEF rearmClaimed, SchedulerTyped, timerVars
      <3>3. claiming' = claiming \/ claimFailed \/ rearmClaimed \/ (\E d \in coordinator.batch : enqueueDue(d))
        BY DEF SchedulerNext, SchedulerWork, Tick, dueCoordinator, dispatchDue, dueWorker,
          claimOccurrence, claimScheduledJob, claimAnswered, claimLost, execute,
          clearRunning, reconcileRequestsLoop, reconcileLoop, Refresh, reconcileScheduledJobs,
          applySnapshot, refreshFails, timerVars
      <3> QED
        BY <3>1, <3>2, <3>3 DEF SchedulerTyped
    <2>3. dueJobs' \in {dueJobs, NoJob} \/ (\E d \in coordinator.batch : enqueueDue(d))
      BY DEF SchedulerNext, SchedulerWork, Tick, dueCoordinator, dispatchDue, dueWorker,
        claimOccurrence, claimScheduledJob, claimAnswered, claimLost, claimFailed, rearmClaimed, execute,
        clearRunning, reconcileRequestsLoop, reconcileLoop, Refresh, reconcileScheduledJobs,
        applySnapshot, refreshFails, timerVars
    <2> QED
      BY <2>1, <2>2, <2>3 DEF SchedulerTyped
  <1>5. coordinator' \in [timer : Times, batch : SUBSET [job : Jobs, due : Times], at : 0..MaxTime]
    <2> DEFINE T == [timer : Times, batch : SUBSET [job : Jobs, due : Times], at : 0..MaxTime]
    <2>1. CASE dueCoordinator
      BY <2>1, ResetTimer DEF dueCoordinator, SchedulerTyped
    <2>2. CASE dispatchDue
      BY <2>2, ResetTimer DEF dispatchDue, SchedulerTyped
    <2>3. ASSUME NEW d \in coordinator.batch, enqueueDue(d) PROVE coordinator' \in T
      <3>1. resetDueTimer(armed') \in T
        BY <1>3, ResetTimer
      <3> QED
        BY <2>3, <3>1 DEF enqueueDue, Dispatched, SchedulerTyped
    <2>4. \/ coordinator' = coordinator
          \/ dueCoordinator \/ dispatchDue \/ (\E d \in coordinator.batch : enqueueDue(d))
      BY DEF SchedulerNext, SchedulerWork, Tick, dueWorker,
        claimOccurrence, claimScheduledJob, claimAnswered, claimLost, claimFailed, rearmClaimed, execute,
        clearRunning, reconcileRequestsLoop, reconcileLoop, Refresh, reconcileScheduledJobs,
        applySnapshot, refreshFails
    <2> QED
      BY <2>1, <2>2, <2>3, <2>4 DEF SchedulerTyped
  <1>6. worker' \in [pc : {"idle", "refresh"} \cup Claims \cup Runs, job : Jobs \cup {"none"},
                     due : Times \cup {Unset}, next : Times \cup {Unset}]
    <2>1. CASE dueWorker
      BY <2>1 DEF dueWorker, SchedulerTyped, Claims, Idle
    <2>2. CASE claimOccurrence \/ claimAnswered \/ claimLost \/ execute
      <3>1. PICK pc \in Claims \cup Runs :
              worker' \in {worker, [worker EXCEPT !.pc = pc], [worker EXCEPT !.pc = pc, !.next = Unset]}
        <4>1. CASE claimOccurrence
          BY <4>1 DEF claimOccurrence, Claims
        <4>2. CASE claimAnswered
          BY <4>2 DEF claimAnswered, Claims
        <4>3. CASE claimLost
          BY <4>3 DEF claimLost, Claims
        <4>4. CASE execute
          BY <4>4 DEF execute, Runs
        <4> QED
          BY <2>2, <4>1, <4>2, <4>3, <4>4
      <3>2. CASE worker' = worker
        BY <3>2 DEF SchedulerTyped
      <3>3. CASE worker' = [worker EXCEPT !.pc = pc]
        BY <3>3 DEF SchedulerTyped
      <3>4. CASE worker' = [worker EXCEPT !.pc = pc, !.next = Unset]
        BY <3>4 DEF SchedulerTyped
      <3> QED
        BY <3>1, <3>2, <3>3, <3>4
    <2>3. CASE claimScheduledJob
      BY <2>3, NextRunAtType DEF claimScheduledJob, SchedulerTyped
    <2>4. CASE claimFailed \/ rearmClaimed \/ clearRunning
      BY <2>4 DEF claimFailed, rearmClaimed, clearRunning, SchedulerTyped, Idle, Runs
    <2>5. CASE (\E c \in Callers : Refresh(c)) \/ applySnapshot \/ refreshFails
      <3>1. worker' \in {worker, Idle}
        BY <2>5 DEF Refresh, applySnapshot, refreshFails, Returned
      <3> QED
        BY <3>1, IdleType DEF SchedulerTyped
    <2>6. \/ worker' = worker
          \/ dueWorker \/ claimOccurrence \/ claimAnswered \/ claimLost \/ execute \/ claimScheduledJob
          \/ claimFailed \/ rearmClaimed \/ clearRunning
          \/ (\E c \in Callers : Refresh(c)) \/ applySnapshot \/ refreshFails
      BY DEF SchedulerNext, SchedulerWork, Tick, dueCoordinator, dispatchDue, enqueueDue,
        reconcileRequestsLoop, reconcileLoop, reconcileScheduledJobs
    <2> QED
      BY <2>1, <2>2, <2>3, <2>4, <2>5, <2>6 DEF SchedulerTyped
  <1>7. call' \in [by : Callers \cup {"claim", "none"}, pc : {"none", "asked", "answered"},
                   protected : SUBSET Occurrence, answer : SUBSET [job : Jobs, due : Times]]
    <2> DEFINE T == [by : Callers \cup {"claim", "none"}, pc : {"none", "asked", "answered"},
                     protected : SUBSET Occurrence, answer : SUBSET [job : Jobs, due : Times]]
    <2>1. NoCall \in T
      BY DEF NoCall
    <2>2. CASE claimOccurrence \/ claimScheduledJob
      <3>1. CASE claimOccurrence
        <4>1. [NoCall EXCEPT !.by = "claim", !.pc = "asked"] \in T
          BY DEF NoCall
        <4>2. call \in T
          BY DEF SchedulerTyped
        <4> QED
          BY <3>1, <4>1, <4>2 DEF claimOccurrence
      <3>2. CASE claimScheduledJob
        BY <3>2 DEF claimScheduledJob, SchedulerTyped
      <3> QED
        BY <2>2, <3>1, <3>2
    <2>3. ASSUME NEW c \in Callers, Refresh(c) PROVE call' \in T
      <3>1. protectedJobs \subseteq Occurrence
        BY DEF protectedJobs, Occurrence, SchedulerTyped
      <3>2. CASE schedulerClosed
        BY <2>3, <3>2 DEF Refresh, SchedulerTyped
      <3>3. CASE ~schedulerClosed
        <4>1. call' = [by |-> c, pc |-> "asked", protected |-> protectedJobs, answer |-> {}]
          BY <2>3, <3>3 DEF Refresh
        <4> QED
          BY <3>1, <4>1
      <3> QED
        BY <3>2, <3>3
    <2>4. CASE reconcileScheduledJobs
      <3>1. PICK a : /\ a = {[job |-> j, due |-> jobs'[j].nextRunAt] : j \in {k \in Jobs : jobs[k].active}}
                     /\ call' = [call EXCEPT !.pc = "answered", !.answer = a]
        BY <2>4 DEF reconcileScheduledJobs
      <3>2. a \subseteq [job : Jobs, due : Times]
        BY <1>2, <3>1
      <3> QED
        BY <3>1, <3>2 DEF SchedulerTyped
    <2>5. \/ call' \in {call, NoCall}
          \/ claimOccurrence \/ claimScheduledJob \/ (\E c \in Callers : Refresh(c)) \/ reconcileScheduledJobs
      BY DEF SchedulerNext, SchedulerWork, Tick, dueCoordinator, dispatchDue, enqueueDue, dueWorker,
        claimAnswered, claimLost, claimFailed, rearmClaimed, execute, clearRunning,
        reconcileRequestsLoop, reconcileLoop, applySnapshot, refreshFails
    <2> QED
      BY <2>1, <2>2, <2>3, <2>4, <2>5 DEF SchedulerTyped
  <1>8. wanting' \subseteq Callers /\ started' \in {"no", "started", "failed", "closed"}
    <2>1. wanting' \subseteq wanting \cup {"worker", "requests", "hourly"}
      BY DEF SchedulerNext, SchedulerWork, Tick, dueCoordinator, dispatchDue, enqueueDue, dueWorker,
        claimOccurrence, claimScheduledJob, claimAnswered, claimLost, claimFailed, rearmClaimed, execute,
        clearRunning, reconcileRequestsLoop, reconcileLoop, Refresh, reconcileScheduledJobs,
        applySnapshot, refreshFails
    <2>2. started' = started \/ started' \in {"started", "failed", "closed"}
      BY DEF SchedulerNext, SchedulerWork, Tick, dueCoordinator, dispatchDue, enqueueDue, dueWorker,
        claimOccurrence, claimScheduledJob, claimAnswered, claimLost, claimFailed, rearmClaimed, execute,
        clearRunning, reconcileRequestsLoop, reconcileLoop, Refresh, reconcileScheduledJobs,
        applySnapshot, refreshFails, Returned
    <2> QED
      BY <2>1, <2>2 DEF SchedulerTyped, Callers
  <1>9. owed' \subseteq [job : Jobs, due : Times]
    <2>1. CASE claimScheduledJob
      <3>1. worker.job \in Jobs /\ worker.due \in Times
        BY <2>1 DEF claimScheduledJob, CallsOK, ClaimsOK, Claims, SchedulerTyped
      <3> QED
        BY <2>1, <3>1 DEF claimScheduledJob, SchedulerTyped
    <2>2. owed' \subseteq owed \/ claimScheduledJob
      BY DEF SchedulerNext, SchedulerWork, Tick, dueCoordinator, dispatchDue, enqueueDue, dueWorker,
        claimOccurrence, claimAnswered, claimLost, claimFailed, rearmClaimed, execute,
        clearRunning, reconcileRequestsLoop, reconcileLoop, Refresh, reconcileScheduledJobs,
        applySnapshot, refreshFails, historyVars
    <2> QED
      BY <2>1, <2>2 DEF SchedulerTyped
  <1> QED
    BY <1>1, <1>2, <1>3, <1>4, <1>5, <1>6, <1>7, <1>8, <1>9 DEF SchedulerTyped

\* Every other step keeps them too.
LEMMA SchedulerTypesKept ==
    ASSUME SchedulerTyped, RuntimeStep
    PROVE  SchedulerTyped'
  <1> USE UnsetIsNoTime
  <1>1. ASSUME NEW j \in Jobs, ChangeJob(j) PROVE SchedulerTyped'
    <2>1. jobs' \in [Jobs -> [active : BOOLEAN, nextRunAt : Times]]
      BY <1>1, NextRunAtType DEF ChangeJob, SchedulerTyped
    <2> QED
      BY <1>1, <2>1 DEF ChangeJob, SchedulerTyped, timerVars, historyVars
  <1>2. CASE runRefreshes
    BY <1>2 DEF runRefreshes, SchedulerTyped, timerVars, historyVars, Callers
  <1>3. ASSUME NEW next, recoveryFails(next) PROVE SchedulerTyped'
    BY <1>3 DEF recoveryFails, SchedulerTyped, timerVars, historyVars
  <1>4. CASE Start
    <2>1. wanting' \subseteq Callers /\ started' \in {"no", "started", "failed", "closed"}
      BY <1>4 DEF Start, SchedulerTyped, Callers
    <2> QED
      BY <1>4, <2>1 DEF Start, SchedulerTyped, timerVars, historyVars
  <1>5. CASE recoverAndClose \/ Close
    BY <1>5 DEF recoverAndClose, Close, beginClose, SchedulerTyped
  <1>6. CASE registerActiveRun
    BY <1>6 DEF registerActiveRun, SchedulerTyped, timerVars, historyVars, Runs
  <1>7. UNCHANGED schedulerVars =>  SchedulerTyped'
    BY DEF schedulerVars, timerVars, historyVars, SchedulerTyped
  <1>8. CASE \/ requestScheduledJobsRefresh \/ RequestRefresh \/ SendRequest \/ waitForRecovery
             \/ recoveryCancelled \/ registerRecoveringScheduler \/ recoverAndEnable \/ recoveryClosed
             \/ closeReturns
    BY <1>7, <1>8 DEF requestScheduledJobsRefresh, RequestRefresh, SendRequest, waitForRecovery,
      recoveryCancelled, registerRecoveringScheduler, recoverAndEnable, recoveryClosed, closeReturns
  <1> QED
    BY <1>1, <1>2, <1>3, <1>4, <1>5, <1>6, <1>8 DEF RuntimeStep, RefreshStep, RecoveryStep

\* The runtime keeps its own.
LEMMA RuntimeTypes ==
    ASSUME RuntimeTyped, SchedulerStep \/ RuntimeStep
    PROVE  RuntimeTyped'
  <1>1. changes' \in 0..MaxChanges /\ notices' \in 0..changes'
    <2>1. \/ UNCHANGED <<changes, notices>>
          \/ changes < MaxChanges /\ changes' = changes + 1 /\ notices' = notices + 1
          \/ notices > 0 /\ notices' = notices - 1 /\ changes' = changes
      BY DEF SchedulerStep, RuntimeStep, RefreshStep, RecoveryStep, ChangeJob, requestScheduledJobsRefresh,
        RequestRefresh, SendRequest, runRefreshes, waitForRecovery, recoveryCancelled,
        registerRecoveringScheduler, recoveryFails, Start, recoverAndEnable, recoverAndClose, recoveryClosed,
        registerActiveRun, Close, closeReturns, recoveryRest, closeRest, runtimeVars
    <2> QED
      BY <2>1, ChangesAssumption DEF RuntimeTyped
  <1>2. refresher' \in {"idle", "read", "refresh", "recover"}
    BY DEF RuntimeTyped, SchedulerStep, RuntimeStep, RefreshStep, RecoveryStep, ChangeJob,
      requestScheduledJobsRefresh, RequestRefresh, SendRequest, runRefreshes, waitForRecovery,
      recoveryCancelled, registerRecoveringScheduler, recoveryFails, Start, recoverAndEnable,
      recoverAndClose, recoveryClosed, registerActiveRun, Close, closeReturns, recoveryRest, closeRest,
      runtimeVars, runScheduledJobsRefresh, Channel
  <1>3. pending' \in BOOLEAN
    <2>1. pending' = pending \/ pending' = FALSE \/ pending' = (refresher # "idle")
      BY DEF SchedulerStep, RuntimeStep, RefreshStep, RecoveryStep, ChangeJob,
        requestScheduledJobsRefresh, RequestRefresh, SendRequest, runRefreshes, waitForRecovery,
        recoveryCancelled, registerRecoveringScheduler, recoveryFails, Start, recoverAndEnable,
        recoverAndClose, recoveryClosed, registerActiveRun, Close, closeReturns, recoveryRest, closeRest,
        runtimeVars, runScheduledJobsRefresh
    <2> QED
      BY <2>1, Zenon DEF RuntimeTyped
  <1>4. /\ state' \in {"waiting", "recovering", "enabled"}
        /\ recovery' \in {"delayed", "parked", "recover", "start", "starting", "closing", "done"}
        /\ closer' \in {"idle", "closing", "done"}
    BY DEF RuntimeTyped, SchedulerStep, RuntimeStep, RefreshStep, RecoveryStep, ChangeJob,
      requestScheduledJobsRefresh, RequestRefresh, SendRequest, runRefreshes, waitForRecovery,
      recoveryCancelled, registerRecoveringScheduler, recoveryFails, Start, recoverAndEnable,
      recoverAndClose, recoveryClosed, registerActiveRun, Close, closeReturns, recoveryRest, closeRest,
      runtimeVars, Sets
  <1> QED
    BY <1>1, <1>2, <1>3, <1>4 DEF RuntimeTyped

---------------------------------------------------------------------------
(* Timers, claims and calls. *)

\* The worker has the job it had, at another step of the same claim or run, or still has none.
SameWork ==
    /\ worker'.pc \in Claims <=> worker.pc \in Claims
    /\ worker'.pc \in Runs <=> worker.pc \in Runs
    /\ worker.pc \in Claims \cup Runs => worker'.job = worker.job /\ worker'.due = worker.due

\* Where the worker goes in the steps that keep its job.
LEMMA WorkGoesOn ==
    ASSUME SchedulerTyped, CallsOK,
           \/ UNCHANGED worker
           \/ claimOccurrence \/ claimScheduledJob \/ claimAnswered \/ claimLost \/ execute
           \/ (\E c \in Callers : Refresh(c)) \/ applySnapshot \/ refreshFails \/ registerActiveRun
    PROVE  SameWork
  <1>1. CASE UNCHANGED worker
    BY <1>1 DEF SameWork
  <1>2. CASE claimOccurrence \/ execute \/ registerActiveRun
    BY <1>2 DEF claimOccurrence, execute, registerActiveRun, SchedulerTyped, SameWork, Claims, Runs
  <1>3. CASE claimScheduledJob
    BY <1>3 DEF claimScheduledJob, SchedulerTyped, SameWork
  <1>4. CASE claimAnswered \/ claimLost
    <2>1. worker.pc = "asking"
      BY <1>4 DEF claimAnswered, claimLost, CallsOK
    <2>2. worker'.pc \in {"claimed", "failed"} /\ worker'.job = worker.job /\ worker'.due = worker.due
      BY <1>4 DEF claimAnswered, claimLost, SchedulerTyped
    <2> QED
      BY <2>1, <2>2 DEF SameWork, Claims, Runs
  <1>5. CASE (\E c \in Callers : Refresh(c)) \/ applySnapshot \/ refreshFails
    <2>1. worker' = worker \/ (worker.pc = "refresh" /\ worker' = Idle)
      BY <1>5 DEF Refresh, applySnapshot, refreshFails, Returned, CallsOK
    <2> QED
      BY <2>1 DEF SameWork, Claims, Runs, Idle
  <1> QED
    BY <1>1, <1>2, <1>3, <1>4, <1>5

\* Every step leaves a job a timer or a claim, not both.
LEMMA TimerOrClaimStep ==
    ASSUME SchedulerTyped, TimerOrClaim, ClaimsOK, SchedulerNext \/ RuntimeStep
    PROVE  TimerOrClaim'
  <1>1. ASSUME NEW d \in coordinator.batch, enqueueDue(d) PROVE TimerOrClaim'
    BY <1>1 DEF enqueueDue, TimerOrClaim, SchedulerTyped, timerVars
  <1>2. CASE claimFailed \/ rearmClaimed
    BY <1>2 DEF claimFailed, rearmClaimed, TimerOrClaim, SchedulerTyped
  <1>3. CASE applySnapshot
    BY <1>3 DEF applySnapshot, SnapshotTimers, TimerOrClaim
  <1>4. CASE recoverAndClose \/ Close
    BY <1>4 DEF recoverAndClose, Close, beginClose, TimerOrClaim
  <1>5. \/ UNCHANGED <<armed, claiming>>
        \/ (\E d \in coordinator.batch : enqueueDue(d))
        \/ claimFailed \/ rearmClaimed \/ applySnapshot \/ recoverAndClose \/ Close
    BY DEF SchedulerNext, SchedulerWork, Tick, dueCoordinator, dispatchDue, dueWorker, claimOccurrence,
      claimScheduledJob, claimAnswered, claimLost, execute, clearRunning, reconcileRequestsLoop,
      reconcileLoop, Refresh, reconcileScheduledJobs, refreshFails, RuntimeStep, RefreshStep,
      RecoveryStep, ChangeJob, requestScheduledJobsRefresh, RequestRefresh, SendRequest, runRefreshes,
      waitForRecovery, recoveryCancelled, registerRecoveringScheduler, recoveryFails, Start,
      recoverAndEnable, recoveryClosed, registerActiveRun, closeReturns, schedulerVars, timerVars
  <1> QED
    BY <1>1, <1>2, <1>3, <1>4, <1>5 DEF TimerOrClaim

\* A worker that goes on with its job keeps the claims as they are.
LEMMA ClaimsGoOn ==
    ASSUME ClaimsOK, SameWork, UNCHANGED <<claiming, running, dueJobs, schedulerClosed>>
    PROVE  ClaimsOK'
  BY DEF ClaimsOK, SameWork

\* Every step keeps each claim in one pair of hands.
LEMMA ClaimsStep ==
    ASSUME SchedulerTyped, TimerOrClaim, ClaimsOK, CallsOK, LifecycleOK, SchedulerNext \/ RuntimeStep
    PROVE  ClaimsOK'
  <1> USE UnsetIsNoTime
  <1>1. ASSUME NEW d \in coordinator.batch, enqueueDue(d) PROVE ClaimsOK'
    <2>1. d \in [job : Jobs, due : Times]
      BY DEF SchedulerTyped
    <2>2. CASE UNCHANGED timerVars
      BY <1>1, <2>2 DEF enqueueDue, ClaimsOK, timerVars
    <2>3. CASE UNCHANGED <<claiming, running, dueJobs>>
      BY <1>1, <2>3 DEF enqueueDue, ClaimsOK
    <2>4. CASE /\ armed[d.job] = d.due /\ dueJobs = NoJob /\ dueJobs' = d
               /\ claiming' = [claiming EXCEPT ![d.job] = d.due] /\ UNCHANGED running
      <3>1. claiming[d.job] = Unset /\ d # NoJob /\ d.due # Unset
        BY <2>1, <2>4 DEF TimerOrClaim
      <3> QED
        BY <1>1, <2>1, <2>4, <3>1 DEF enqueueDue, ClaimsOK, SchedulerTyped
    <2> QED
      BY <1>1, <2>2, <2>3, <2>4 DEF enqueueDue
  <1>2. CASE dueWorker
    <2>1. /\ worker'.pc = "claim" /\ worker'.job = dueJobs.job /\ worker'.due = dueJobs.due
          /\ dueJobs' = NoJob /\ worker.pc = "idle" /\ dueJobs # NoJob
          /\ UNCHANGED <<claiming, running, schedulerClosed>>
      BY <1>2 DEF dueWorker, Idle
    <2>2. dueJobs.job \in Jobs /\ dueJobs.due \in Times
      BY <2>1 DEF SchedulerTyped
    <2> QED
      BY <2>1, <2>2 DEF ClaimsOK, Claims, Runs
  <1>3. CASE claimFailed
    <2>1. /\ worker'.pc = "refresh" /\ worker.pc = "failed"
          /\ claiming' = [claiming EXCEPT ![worker.job] = IF @ = worker.due THEN Unset ELSE @]
          /\ UNCHANGED <<dueJobs, running, schedulerClosed>>
      BY <1>3 DEF claimFailed, Idle
    <2> QED
      BY <2>1 DEF ClaimsOK, Claims, Runs, SchedulerTyped
  <1>4. CASE rearmClaimed
    <2>1. CASE ~KeepsClaim
      <3>1. schedulerClosed
        BY <1>4, <2>1 DEF rearmClaimed, KeepsClaim, ClaimsOK, Claims
      <3>2. worker'.pc = "idle" /\ worker.pc = "claimed" /\ UNCHANGED <<claiming, dueJobs, running, schedulerClosed>>
        BY <1>4, <2>1 DEF rearmClaimed, Idle
      <3> QED
        BY <3>1, <3>2 DEF ClaimsOK, Claims, Runs
    <2>2. CASE KeepsClaim
      <3>1. /\ worker'.pc = "register" /\ worker'.job = worker.job /\ worker.pc = "claimed"
            /\ claiming' = [claiming EXCEPT ![worker.job] = Unset]
            /\ running' = running \cup {worker.job}
            /\ UNCHANGED <<dueJobs, schedulerClosed>>
        BY <1>4, <2>2 DEF rearmClaimed, SchedulerTyped
      <3> QED
        BY <3>1 DEF ClaimsOK, Claims, Runs, SchedulerTyped
    <2> QED
      BY <2>1, <2>2
  <1>5. CASE clearRunning
    <2>1. worker'.pc = "idle" /\ worker.pc = "clear" /\ running' = running \ {worker.job}
      BY <1>5 DEF clearRunning, Idle
    <2> QED
      BY <1>5, <2>1 DEF clearRunning, ClaimsOK, Claims, Runs
  <1>6. CASE recoverAndClose \/ Close
    <2>1. UNCHANGED <<claiming, running, worker>> /\ (UNCHANGED <<dueJobs, schedulerClosed>> \/ (schedulerClosed' /\ dueJobs' = NoJob))
      BY <1>6 DEF recoverAndClose, Close, beginClose, signalVars
    <2> QED
      BY <2>1 DEF ClaimsOK
  <1>7. CASE \/ Tick \/ dueCoordinator \/ dispatchDue \/ claimOccurrence \/ claimScheduledJob \/ claimAnswered
             \/ claimLost \/ execute \/ reconcileRequestsLoop \/ reconcileLoop
             \/ (\E c \in Callers : Refresh(c)) \/ reconcileScheduledJobs \/ applySnapshot \/ refreshFails
    <2>1. SameWork
      BY <1>7, WorkGoesOn DEF Tick, dueCoordinator, dispatchDue, reconcileRequestsLoop, reconcileLoop, reconcileScheduledJobs
    <2>2. UNCHANGED <<claiming, running, dueJobs, schedulerClosed>>
      BY <1>7 DEF Tick, dueCoordinator, dispatchDue, claimOccurrence, claimScheduledJob, claimAnswered,
        claimLost, execute, reconcileRequestsLoop, reconcileLoop, Refresh, reconcileScheduledJobs,
        applySnapshot, refreshFails, timerVars
    <2> QED
      BY <2>1, <2>2, ClaimsGoOn
  <1>8. CASE \/ (\E j \in Jobs : ChangeJob(j)) \/ RefreshStep \/ waitForRecovery \/ recoveryCancelled
             \/ registerRecoveringScheduler \/ Start \/ (\E next \in {"delayed", "parked"} : recoveryFails(next))
             \/ recoverAndEnable \/ recoveryClosed \/ registerActiveRun \/ closeReturns
    <2>1. SameWork
      BY <1>8, WorkGoesOn DEF RefreshStep, ChangeJob, requestScheduledJobsRefresh, RequestRefresh,
        SendRequest, runRefreshes, waitForRecovery, recoveryCancelled, registerRecoveringScheduler,
        recoveryFails, Start, recoverAndEnable, recoveryClosed, closeReturns, schedulerVars
    <2>2. UNCHANGED <<claiming, running, dueJobs, schedulerClosed>>
      BY <1>8 DEF RefreshStep, ChangeJob, requestScheduledJobsRefresh, RequestRefresh,
        SendRequest, runRefreshes, waitForRecovery, recoveryCancelled, registerRecoveringScheduler,
        recoveryFails, Start, recoverAndEnable, recoveryClosed, registerActiveRun, closeReturns,
        schedulerVars, timerVars
    <2> QED
      BY <2>1, <2>2, ClaimsGoOn
  <1> QED
    <2>1. CASE SchedulerNext
      BY <1>1, <1>2, <1>3, <1>4, <1>5, <1>7, <2>1 DEF SchedulerNext, SchedulerWork
    <2>2. CASE RuntimeStep
      BY <1>6, <1>8, <2>2 DEF RuntimeStep, RecoveryStep
    <2> QED
      BY <2>1, <2>2

\* Every step of the scheduler keeps the calls where the goroutines say.
LEMMA CallsStep ==
    ASSUME SchedulerTyped, CallsOK, LifecycleOK, SchedulerStep
    PROVE  CallsOK'
  <1>0. recovery' = recovery
    BY DEF SchedulerStep
  <1> USE <1>0 DEF CallsOK, Callers, NoCall, Idle
  <1>1. CASE claimOccurrence
    <2>1. /\ worker.pc = "claim" /\ call = NoCall /\ UNCHANGED <<wanting, started>>
          /\ \/ worker'.pc = "failed" /\ call' = call
             \/ worker'.pc = "asking" /\ call' = [NoCall EXCEPT !.by = "claim", !.pc = "asked"]
      BY <1>1 DEF claimOccurrence, SchedulerTyped
    <2>2. CASE call' = call
      BY <2>1, <2>2
    <2>3. CASE call' # call
      <3>1. call'.by = "claim" /\ "claim" \notin wanting /\ worker'.pc = "asking"
        BY <2>1, <2>3 DEF SchedulerTyped
      <3> QED
        BY <2>1, <3>1
    <2> QED
      BY <2>2, <2>3
  <1>2. CASE claimScheduledJob
    BY <1>2 DEF claimScheduledJob, SchedulerTyped
  <1>3. CASE claimAnswered \/ claimLost
    <2>1. worker'.pc \in {"claimed", "failed"} /\ call.by = "claim" /\ call' = NoCall
      BY <1>3 DEF claimAnswered, claimLost, SchedulerTyped
    <2>2. "none" \notin wanting /\ worker.pc = "asking" /\ UNCHANGED <<wanting, started>>
      BY <1>3, <2>1 DEF claimAnswered, claimLost, SchedulerTyped
    <2> QED
      BY <2>1, <2>2
  <1>4. CASE claimFailed \/ dueWorker \/ execute \/ clearRunning
    <2>1. CASE claimFailed
      BY <1>4, <2>1 DEF claimFailed
    <2>2. CASE ~claimFailed
      <3>1. worker.pc \in {"idle", "execute", "clear"} /\ UNCHANGED <<call, wanting, started>>
        BY <1>4, <2>2 DEF dueWorker, execute, clearRunning
      <3>2. dueWorker => worker'.pc = "claim"
        BY DEF dueWorker
      <3>3. clearRunning => worker'.pc = "idle"
        BY DEF clearRunning
      <3>4. execute => worker'.pc = "unregister"
        BY DEF execute, SchedulerTyped
      <3> QED
        BY <1>4, <2>2, <3>1, <3>2, <3>3, <3>4
    <2> QED
      BY <2>1, <2>2
  <1>5. CASE rearmClaimed
    <2>1. worker.pc = "claimed" /\ worker'.pc \in {"idle", "register"} /\ UNCHANGED <<call, wanting, started>>
      BY <1>5 DEF rearmClaimed, SchedulerTyped
    <2> QED
      BY <2>1
  <1>6. CASE reconcileRequestsLoop \/ reconcileLoop
    BY <1>6 DEF reconcileRequestsLoop, reconcileLoop
  <1>7. ASSUME NEW c \in Callers, Refresh(c) PROVE CallsOK'
    <2>1. CASE schedulerClosed
      BY <1>7, <2>1 DEF Refresh, Returned
    <2>2. CASE ~schedulerClosed
      BY <1>7, <2>2 DEF Refresh
    <2> QED
      BY <2>1, <2>2
  <1>8. CASE reconcileScheduledJobs
    <2>1. call'.by = call.by /\ call.by \in Callers
      BY <1>8 DEF reconcileScheduledJobs, SchedulerTyped
    <2> QED
      BY <1>8, <2>1 DEF reconcileScheduledJobs
  <1>9. CASE applySnapshot \/ refreshFails
    <2>1. /\ call.by \in Callers /\ call' = NoCall /\ wanting' = wanting
          /\ worker' = IF call.by = "worker" THEN Idle ELSE worker
          /\ IF call.by = "start" THEN started' # "no" ELSE started' = started
      BY <1>9 DEF applySnapshot, refreshFails, Returned
    <2>2. call'.by = "none" /\ call.by # "claim" /\ "none" \notin wanting
      BY <2>1 DEF SchedulerTyped
    <2>3. CASE call.by = "worker"
      BY <2>1, <2>2, <2>3
    <2>4. CASE call.by # "worker"
      BY <2>1, <2>2, <2>4
    <2> QED
      BY <2>3, <2>4
  <1>10. CASE Tick \/ dueCoordinator \/ dispatchDue \/ (\E d \in coordinator.batch : enqueueDue(d))
    BY <1>10 DEF Tick, dueCoordinator, dispatchDue, enqueueDue
  <1> QED
    BY <1>1, <1>2, <1>3, <1>4, <1>5, <1>6, <1>7, <1>8, <1>9, <1>10
    DEF SchedulerStep, SchedulerNext, SchedulerWork

\* Every other step does too: recovery starts a scheduler that nobody calls.
LEMMA CallsKept ==
    ASSUME SchedulerTyped, CallsOK, LifecycleOK, RuntimeStep
    PROVE  CallsOK'
  <1>1. CASE runRefreshes
    BY <1>1 DEF runRefreshes, CallsOK, Callers
  <1>2. CASE Start
    BY <1>2 DEF Start, CallsOK, LifecycleOK
  <1>3. CASE registerActiveRun
    BY <1>3 DEF registerActiveRun, CallsOK, SchedulerTyped, runtimeVars
  <1>4. CASE (\E j \in Jobs : ChangeJob(j)) \/ requestScheduledJobsRefresh \/ RequestRefresh \/ SendRequest
             \/ Close \/ closeReturns
    BY <1>4 DEF ChangeJob, requestScheduledJobsRefresh, RequestRefresh, SendRequest, Close, closeReturns,
      schedulerVars, closeRest, CallsOK
  <1>5. CASE waitForRecovery \/ recoveryCancelled \/ registerRecoveringScheduler
             \/ (\E next \in {"delayed", "parked"} : recoveryFails(next))
    <2>1. recovery \in {"delayed", "parked", "recover", "start"} \/ started = "failed"
      BY <1>5 DEF waitForRecovery, recoveryCancelled, SeesCancel, registerRecoveringScheduler, recoveryFails
    <2>2. "start" \notin wanting /\ call.by # "start"
      BY <2>1 DEF CallsOK
    <2>3. recovery' # "starting" /\ UNCHANGED <<call, wanting, worker>>
      BY <1>5 DEF waitForRecovery, recoveryCancelled, registerRecoveringScheduler, recoveryFails, Sets,
        schedulerVars
    <2> QED
      BY <2>2, <2>3 DEF CallsOK
  <1>6. CASE recoverAndEnable \/ recoverAndClose \/ recoveryClosed
    <2>1. "start" \notin wanting /\ call.by # "start"
      BY <1>6 DEF recoverAndEnable, recoverAndClose, recoveryClosed, CallsOK
    <2> QED
      BY <1>6, <2>1 DEF recoverAndEnable, recoverAndClose, recoveryClosed, schedulerVars, CallsOK
  <1> QED
    BY <1>1, <1>2, <1>3, <1>4, <1>5, <1>6 DEF RuntimeStep, RefreshStep, RecoveryStep

---------------------------------------------------------------------------
(* The life of the runtime. *)

\* A scheduler that was not started is idle; its steps keep the stages of the runtime.
LEMMA LifecycleStep ==
    ASSUME SchedulerTyped, CallsOK, LifecycleOK, SchedulerStep
    PROVE  LifecycleOK'
  <1>0. UNCHANGED <<recovery, state, registered, closer>> /\ closed' = closed
    BY DEF SchedulerStep, closed
  <1>1. CASE started \in {"no", "failed"} /\ ~applySnapshot /\ ~refreshFails /\ ~(\E c \in Callers : Refresh(c))
    <2>1. /\ worker.pc = "idle" /\ coordinator.batch = {} /\ dueJobs = NoJob /\ ~reconcileRequests
          /\ call.by # "claim" /\ \A j \in Jobs : armed[j] = Unset
      BY <1>1 DEF LifecycleOK
    <2>2. Tick \/ dueCoordinator \/ dispatchDue \/ reconcileScheduledJobs
      BY <1>1, <2>1 DEF SchedulerStep, SchedulerNext, SchedulerWork, enqueueDue, dueWorker, claimOccurrence,
        claimScheduledJob, claimAnswered, claimLost, claimFailed, rearmClaimed, execute, clearRunning,
        reconcileRequestsLoop, reconcileLoop
    <2>3. /\ UNCHANGED <<armed, dueJobs, reconcileRequests, worker, wanting, started, schedulerClosed>>
          /\ call'.by = call.by
      BY <2>2 DEF Tick, dueCoordinator, dispatchDue, reconcileScheduledJobs, timerVars, signalVars, SchedulerTyped
    <2>4. coordinator' = coordinator \/ coordinator' = resetDueTimer(armed)
      BY <2>1, <2>2 DEF Tick, dueCoordinator, dispatchDue, reconcileScheduledJobs
    <2>5. coordinator'.batch = {}
      BY <2>1, <2>4, ResetTimer DEF SchedulerTyped
    <2> QED
      BY <1>0, <2>1, <2>3, <2>5 DEF LifecycleOK
  <1>2. ASSUME NEW c \in Callers, Refresh(c) PROVE LifecycleOK'
    <2>1. CASE schedulerClosed
      <3>1. /\ UNCHANGED <<timerVars, signalVars, schedulerClosed, coordinator, call>>
            /\ wanting' = wanting \ {c} /\ call = NoCall
            /\ worker' = IF c = "worker" THEN Idle ELSE worker
            /\ started' = IF c = "start" THEN "closed" ELSE started
        BY <1>2, <2>1 DEF Refresh, Returned
      <3>2. closed
        BY <2>1 DEF LifecycleOK
      <3>3. c = "start" => recovery = "starting"
        BY <1>2 DEF Refresh, CallsOK
      <3> QED
        BY <1>0, <3>1, <3>2, <3>3 DEF LifecycleOK, timerVars, signalVars, Idle
    <2>2. CASE ~schedulerClosed
      BY <1>0, <1>2, <2>2 DEF Refresh, LifecycleOK, timerVars, signalVars
    <2> QED
      BY <2>1, <2>2
  <1>3. CASE applySnapshot
    <2>1. /\ UNCHANGED <<dueJobs, reconcileRequests, schedulerClosed, coordinator, wanting>>
          /\ started' = IF call.by = "start" THEN "started" ELSE started
          /\ ~schedulerClosed
      BY <1>3 DEF applySnapshot, Returned
    <2>2. call.by = "start" => recovery = "starting"
      BY DEF CallsOK
    <2>3. started \in {"no", "failed"} => call.by = "start"
      BY <1>3 DEF LifecycleOK, applySnapshot, Callers
    <2> QED
      BY <1>0, <2>1, <2>2, <2>3 DEF LifecycleOK
  <1>4. CASE refreshFails
    <2>1. /\ UNCHANGED <<armed, dueJobs, reconcileRequests, schedulerClosed, coordinator, wanting>>
          /\ call' = NoCall
          /\ worker' = IF call.by = "worker" THEN Idle ELSE worker
          /\ call.by # "start" => started' = started
          /\ call.by = "start" => started' = "failed" \/ (schedulerClosed /\ started' = "closed")
      BY <1>4 DEF refreshFails, Returned, timerVars, signalVars
    <2>2. call.by = "start" => recovery = "starting" /\ started = "no"
      BY DEF CallsOK
    <2>3. call.by = "start" => worker' = worker
      BY <2>1
    <2> QED
      BY <1>0, <2>1, <2>2, <2>3 DEF LifecycleOK, Idle, NoCall
  <1>5. CASE started \notin {"no", "failed"} /\ ~applySnapshot /\ ~refreshFails /\ ~(\E c \in Callers : Refresh(c))
    <2>1. UNCHANGED <<started, schedulerClosed>>
      BY <1>5 DEF SchedulerStep, SchedulerNext, SchedulerWork, Tick, dueCoordinator, dispatchDue, enqueueDue,
        dueWorker, claimOccurrence, claimScheduledJob, claimAnswered, claimLost, claimFailed, rearmClaimed,
        execute, clearRunning, reconcileRequestsLoop, reconcileLoop, reconcileScheduledJobs
    <2> QED
      BY <1>0, <1>5, <2>1 DEF LifecycleOK
  <1> QED
    BY <1>1, <1>2, <1>3, <1>4, <1>5

\* The other steps: recovery, Close and the signals.
LEMMA LifecycleKept ==
    ASSUME SchedulerTyped, CallsOK, LifecycleOK, RuntimeStep
    PROVE  LifecycleOK'
  <1> USE DEF LifecycleOK, closed
  <1>1. CASE (\E j \in Jobs : ChangeJob(j)) \/ requestScheduledJobsRefresh \/ RequestRefresh \/ SendRequest
             \/ closeReturns
    BY <1>1 DEF ChangeJob, requestScheduledJobsRefresh, RequestRefresh, SendRequest, closeReturns,
      schedulerVars, timerVars, signalVars, closeRest
  <1>2. CASE runRefreshes
    BY <1>2 DEF runRefreshes, timerVars, signalVars
  <1>3. CASE registerActiveRun
    BY <1>3 DEF registerActiveRun, timerVars, signalVars, runtimeVars
  <1>4. CASE Close
    BY <1>4 DEF Close, beginClose, closeRest, signalVars
  <1>5. CASE waitForRecovery \/ recoveryCancelled \/ registerRecoveringScheduler
    <2>1. UNCHANGED <<started, schedulerClosed, armed, coordinator, dueJobs, reconcileRequests, worker, wanting, call, closer>>
      BY <1>5 DEF waitForRecovery, recoveryCancelled, registerRecoveringScheduler, schedulerVars, timerVars, signalVars
    <2>2. /\ state' = "enabled" => state = "enabled"
          /\ recovery \in {"delayed", "parked", "recover"}
          /\ recovery' \in {"recover", "done", "start"} /\ (recovery' = "start" => registered')
      BY <1>5 DEF waitForRecovery, recoveryCancelled, SeesCancel, registerRecoveringScheduler, Sets
    <2> QED
      BY <2>1, <2>2
  <1>6. ASSUME NEW next \in {"delayed", "parked"}, recoveryFails(next) PROVE LifecycleOK'
    BY <1>6 DEF recoveryFails, Sets, timerVars, signalVars
  <1>7. CASE Start
    BY <1>7 DEF Start, timerVars, signalVars
  <1>8. CASE recoverAndEnable
    BY <1>8 DEF recoverAndEnable, schedulerVars, timerVars, signalVars
  <1>9. CASE recoverAndClose
    BY <1>9 DEF recoverAndClose, beginClose
  <1>10. CASE recoveryClosed
    BY <1>10 DEF recoveryClosed, schedulerVars, timerVars, signalVars
  <1> QED
    BY <1>1, <1>2, <1>3, <1>4, <1>5, <1>6, <1>7, <1>8, <1>9, <1>10 DEF RuntimeStep, RefreshStep, RecoveryStep

\* Every step keeps the order of shutdown.
LEMMA ClosingStep ==
    ASSUME LifecycleOK, ClosingOK, SchedulerStep \/ RuntimeStep
    PROVE  ClosingOK'
  <1> USE DEF ClosingOK, closed
  <1>1. CASE SchedulerStep
    <2>1. schedulerClosed' = schedulerClosed
      BY <1>1 DEF SchedulerStep, SchedulerNext, SchedulerWork, Tick, dueCoordinator, dispatchDue, enqueueDue,
        dueWorker, claimOccurrence, claimScheduledJob, claimAnswered, claimLost, claimFailed, rearmClaimed,
        execute, clearRunning, reconcileRequestsLoop, reconcileLoop, Refresh, reconcileScheduledJobs,
        applySnapshot, refreshFails
    <2> QED
      BY <1>1, <2>1 DEF SchedulerStep
  <1>2. CASE \/ (\E j \in Jobs : ChangeJob(j)) \/ RefreshStep \/ registerActiveRun \/ closeReturns
    BY <1>2 DEF RefreshStep, ChangeJob, requestScheduledJobsRefresh, RequestRefresh, SendRequest, runRefreshes,
      registerActiveRun, closeReturns, schedulerVars, runtimeVars, closeRest
  <1>3. CASE Close
    BY <1>3 DEF Close, beginClose, closeRest
  <1>4. CASE waitForRecovery \/ recoveryCancelled
    BY <1>4 DEF waitForRecovery, recoveryCancelled, SeesCancel, Sets, schedulerVars
  <1>5. CASE registerRecoveringScheduler
    BY <1>5 DEF registerRecoveringScheduler, schedulerVars
  <1>6. ASSUME NEW next \in {"delayed", "parked"}, recoveryFails(next) PROVE ClosingOK'
    BY <1>6 DEF recoveryFails, Sets
  <1>7. CASE Start \/ recoverAndEnable
    BY <1>7 DEF Start, recoverAndEnable, schedulerVars
  <1>8. CASE recoverAndClose \/ recoveryClosed
    BY <1>8 DEF recoverAndClose, beginClose, recoveryClosed, schedulerVars
  <1> QED
    BY <1>1, <1>2, <1>3, <1>4, <1>5, <1>6, <1>7, <1>8 DEF RuntimeStep, RecoveryStep

---------------------------------------------------------------------------
(* What is owed. *)

\* A claim stays granted while the worker stays and the call is not its own.
LEMMA GrantedKept ==
    ASSUME CallsOK, worker' = worker, call' = call \/ call.by # "claim"
    PROVE  Granted' <=> Granted
  BY DEF CallsOK, Granted

\* Every step keeps what is owed with the worker.
LEMMA OwedStep ==
    ASSUME SchedulerTyped, ClaimsOK, CallsOK, LifecycleOK, OwedOK, SchedulerStep
    PROVE  OwedOK'
  <1>0. closed' = closed
    BY DEF SchedulerStep, closed
  <1> SUFFICES ASSUME ~closed, NEW c \in owed'
               PROVE  (worker.job = c.job /\ worker.due = c.due /\ (Granted \/ worker.pc \in {"register", "execute"}))'
    BY <1>0 DEF OwedOK
  <1>1. /\ ~schedulerClosed
        /\ c \in owed => /\ worker.job = c.job /\ worker.due = c.due
                         /\ Granted \/ worker.pc \in {"register", "execute"}
    BY DEF LifecycleOK, OwedOK
  <1>2. CASE claimScheduledJob
    <2>1. /\ worker'.job = worker.job /\ worker'.due = worker.due /\ worker'.pc = worker.pc
          /\ call'.pc = "answered" /\ call.pc = "asked" /\ worker.pc = "asking"
      BY <1>2 DEF claimScheduledJob, CallsOK, SchedulerTyped
    <2>2. c \notin owed
      BY <1>1, <2>1 DEF Granted
    <2>3. c = [job |-> worker.job, due |-> worker.due] /\ worker' = [worker EXCEPT !.next = NextRunAt(now)]
      BY <1>2, <2>2 DEF claimScheduledJob
    <2>4. worker'.next # Unset
      BY <2>3, NextRunAtType, UnsetIsNoTime DEF SchedulerTyped
    <2> QED
      BY <2>1, <2>3, <2>4 DEF Granted
  <1>3. CASE claimAnswered
    <2>1. c \in owed /\ worker.pc = "asking"
      BY <1>3 DEF claimAnswered, CallsOK, historyVars
    <2>2. worker.next # Unset
      BY <1>1, <2>1 DEF Granted
    <2>3. worker'.pc = "claimed" /\ worker'.job = worker.job /\ worker'.due = worker.due
      BY <1>3, <2>2 DEF claimAnswered, SchedulerTyped
    <2> QED
      BY <1>1, <2>1, <2>3 DEF Granted
  <1>4. CASE claimLost \/ execute
    <2>1. c \in owed /\ c # [job |-> worker.job, due |-> worker.due] /\ c \in [job : Jobs, due : Times]
      BY <1>4 DEF claimLost, execute, SchedulerTyped
    <2> QED
      BY <1>1, <2>1
  <1>5. CASE rearmClaimed
    <2>1. KeepsClaim
      BY <1>1, <1>5 DEF rearmClaimed, KeepsClaim, ClaimsOK, Claims
    <2>2. worker'.pc = "register" /\ worker'.job = worker.job /\ worker'.due = worker.due /\ owed' = owed
      BY <1>5, <2>1 DEF rearmClaimed, SchedulerTyped
    <2> QED
      BY <1>1, <2>2
  <1>6. CASE dueWorker \/ claimOccurrence \/ claimFailed \/ clearRunning
    <2>1. worker.pc \in {"idle", "claim", "failed", "clear"} /\ owed' = owed
      BY <1>6 DEF dueWorker, claimOccurrence, claimFailed, clearRunning, historyVars
    <2> QED
      BY <1>1, <2>1 DEF Granted
  <1>7. CASE (\E k \in Callers : Refresh(k)) \/ applySnapshot \/ refreshFails
    <2>1. owed' = owed /\ (worker' = worker \/ worker.pc = "refresh") /\ call.by # "claim"
      BY <1>7 DEF Refresh, applySnapshot, refreshFails, Returned, CallsOK, historyVars, NoCall, Callers
    <2>2. worker' = worker
      BY <1>1, <2>1 DEF Granted
    <2> QED
      BY <1>1, <2>1, <2>2, GrantedKept
  <1>8. CASE \/ Tick \/ dueCoordinator \/ dispatchDue \/ (\E d \in coordinator.batch : enqueueDue(d))
             \/ reconcileRequestsLoop \/ reconcileLoop \/ reconcileScheduledJobs
    <2>1. owed' = owed /\ worker' = worker /\ (call' = call \/ call.by # "claim")
      BY <1>8 DEF Tick, dueCoordinator, dispatchDue, enqueueDue, reconcileRequestsLoop, reconcileLoop,
        reconcileScheduledJobs, historyVars, Callers
    <2> QED
      BY <1>1, <2>1, GrantedKept
  <1> QED
    BY <1>2, <1>3, <1>4, <1>5, <1>6, <1>7, <1>8 DEF SchedulerStep, SchedulerNext, SchedulerWork

\* The other steps add nothing to what is owed.
LEMMA OwedKept ==
    ASSUME SchedulerTyped, CallsOK, OwedOK, RuntimeStep
    PROVE  OwedOK'
  <1>1. owed' = owed /\ call' = call /\ (closed => closed')
    BY DEF RuntimeStep, RefreshStep, RecoveryStep, ChangeJob, requestScheduledJobsRefresh, RequestRefresh,
      SendRequest, runRefreshes, waitForRecovery, recoveryCancelled, registerRecoveringScheduler,
      recoveryFails, Start, recoverAndEnable, recoverAndClose, recoveryClosed, registerActiveRun, Close,
      closeReturns, recoveryRest, closeRest, runtimeVars, schedulerVars, historyVars, closed
  <1>2. CASE registerActiveRun
    <2>1. worker'.pc = (IF worker.pc = "register" THEN "execute" ELSE "clear") /\ worker.pc \in {"register", "unregister"}
          /\ worker'.job = worker.job /\ worker'.due = worker.due
      BY <1>2 DEF registerActiveRun, SchedulerTyped
    <2> QED
      BY <1>1, <2>1 DEF OwedOK, Granted
  <1>3. CASE ~registerActiveRun
    <2>1. worker' = worker
      BY <1>3 DEF RuntimeStep, RefreshStep, RecoveryStep, ChangeJob, requestScheduledJobsRefresh,
        RequestRefresh, SendRequest, runRefreshes, waitForRecovery, recoveryCancelled,
        registerRecoveringScheduler, recoveryFails, Start, recoverAndEnable, recoverAndClose,
        recoveryClosed, Close, closeReturns, schedulerVars
    <2> QED
      BY <1>1, <2>1, GrantedKept DEF OwedOK
  <1> QED
    BY <1>2, <1>3

---------------------------------------------------------------------------
(* The signals of an edit. *)

\* A step of the scheduler that leaves a request and a call as they are takes no signal.
LEMMA SignalsStep ==
    ASSUME SchedulerTyped, CallsOK, LifecycleOK, SignalsOK, SchedulerStep
    PROVE  SignalsOK'
  <1>0. /\ UNCHANGED <<notices, refresher, refreshRequests, recoveryRequests>> /\ closed' = closed
        /\ unseen' => unseen /\ ~(call.pc = "asked" /\ call'.pc = "answered" /\ call.by \in Callers)
    BY DEF SchedulerStep, closed
  <1> SUFFICES ASSUME unseen', unseen, ~closed
               PROVE  /\ (call.by \in Callers /\ call.pc = "answered" => Signalled)'
                      /\ (started = "started" => Signalled \/ call.by \in Callers \/ failed)'
    BY <1>0 DEF SignalsOK
  <1>1. /\ call.by \in Callers /\ call.pc = "answered" => Signalled
        /\ started = "started" => Signalled \/ call.by \in Callers \/ failed
        /\ ~schedulerClosed
    BY DEF SignalsOK, LifecycleOK
  <1>2. ASSUME NEW c \in Callers, Refresh(c)
        PROVE  call'.by \in Callers /\ call'.pc = "asked"
    BY <1>1, <1>2 DEF Refresh
  <1>3. CASE reconcileScheduledJobs
    BY <1>0, <1>3 DEF reconcileScheduledJobs, SchedulerTyped
  <1>4. CASE applySnapshot
    <2>1. Signalled /\ wanting' = wanting /\ call' = NoCall
      BY <1>1, <1>4 DEF applySnapshot
    <2> QED
      BY <1>0, <2>1 DEF Signalled, NoCall, Callers
  <1>5. CASE refreshFails
    BY <1>5 DEF refreshFails, NoCall, Callers
  <1>6. CASE claimOccurrence \/ claimScheduledJob \/ claimAnswered \/ claimLost
    <2>1. call.by \in {"none", "claim"} /\ UNCHANGED <<wanting, started, failed>>
      BY <1>6 DEF claimOccurrence, claimScheduledJob, claimAnswered, claimLost, historyVars, NoCall
    <2>2. claimOccurrence \/ claimScheduledJob => call'.by \in {"none", "claim"}
      BY <2>1 DEF claimOccurrence, claimScheduledJob, NoCall, SchedulerTyped
    <2>3. claimAnswered \/ claimLost => call'.by = "none"
      BY DEF claimAnswered, claimLost, NoCall
    <2> QED
      BY <1>0, <1>1, <1>6, <2>1, <2>2, <2>3 DEF Signalled, Callers
  <1>7. CASE \/ Tick \/ dueCoordinator \/ dispatchDue \/ (\E d \in coordinator.batch : enqueueDue(d)) \/ dueWorker
             \/ claimFailed \/ rearmClaimed \/ execute \/ clearRunning \/ reconcileRequestsLoop \/ reconcileLoop
    <2>1. wanting \subseteq wanting' /\ UNCHANGED <<call, started, failed>>
      BY <1>7 DEF Tick, dueCoordinator, dispatchDue, enqueueDue, dueWorker, claimFailed, rearmClaimed,
        execute, clearRunning, reconcileRequestsLoop, reconcileLoop, historyVars
    <2> QED
      BY <1>0, <1>1, <2>1 DEF Signalled
  <1> QED
    BY <1>2, <1>3, <1>4, <1>5, <1>6, <1>7 DEF SchedulerStep, SchedulerNext, SchedulerWork

\* The other steps hand a signal on, and only a recovery that will start a scheduler takes one.
LEMMA SignalsKept ==
    ASSUME SchedulerTyped, RuntimeTyped, CallsOK, LifecycleOK, SignalsOK, RuntimeStep
    PROVE  SignalsOK'
  <1>0. call' = call /\ failed' = failed /\ (~closed' => ~closed)
    BY DEF RuntimeStep, RefreshStep, RecoveryStep, ChangeJob, requestScheduledJobsRefresh, RequestRefresh,
      SendRequest, runRefreshes, waitForRecovery, recoveryCancelled, registerRecoveringScheduler,
      recoveryFails, Start, recoverAndEnable, recoverAndClose, recoveryClosed, registerActiveRun, Close,
      closeReturns, recoveryRest, closeRest, runtimeVars, schedulerVars, historyVars, closed
  <1>1. ASSUME NEW j \in Jobs, ChangeJob(j) PROVE SignalsOK'
    <2>1. notices' > 0
      BY <1>1 DEF ChangeJob, RuntimeTyped
    <2> QED
      BY <2>1 DEF SignalsOK, Signalled
  <1>2. CASE requestScheduledJobsRefresh
    <2>1. refresher' # "idle"
      BY <1>2 DEF requestScheduledJobsRefresh
    <2> QED
      BY <2>1 DEF SignalsOK, Signalled
  <1>3. CASE RequestRefresh
    <2>1. ~closed' => refresher' # "idle"
      BY <1>0, <1>3 DEF RequestRefresh, Channel
    <2> QED
      BY <2>1 DEF SignalsOK, Signalled
  <1>4. CASE SendRequest
    <2>1. refreshRequests' \/ recoveryRequests'
      BY <1>4 DEF SendRequest, RuntimeTyped
    <2> QED
      BY <2>1 DEF SignalsOK, Signalled
  <1>5. CASE runRefreshes
    <2>1. "runtime" \in wanting'
      BY <1>5 DEF runRefreshes
    <2> QED
      BY <2>1 DEF SignalsOK, Signalled
  <1>6. CASE waitForRecovery
    <2>1. started' = "no" /\ call'.by \notin Callers
      BY <1>6 DEF waitForRecovery, schedulerVars, LifecycleOK, CallsOK, Callers
    <2> QED
      BY <2>1 DEF SignalsOK
  <1>7. CASE recoverAndClose \/ Close
    <2>1. closed'
      BY <1>7 DEF recoverAndClose, Close, closed
    <2> QED
      BY <2>1 DEF SignalsOK
  <1>8. CASE \/ recoveryCancelled \/ registerRecoveringScheduler \/ (\E next \in {"delayed", "parked"} : recoveryFails(next))
             \/ Start \/ recoverAndEnable \/ recoveryClosed \/ registerActiveRun \/ closeReturns
    <2>1. /\ UNCHANGED <<unseen, notices, refresher, refreshRequests, recoveryRequests>>
          /\ wanting \subseteq wanting' /\ (started' = started \/ started' # "started")
      BY <1>8 DEF recoveryCancelled, registerRecoveringScheduler, recoveryFails, Start, recoverAndEnable,
        recoveryClosed, registerActiveRun, closeReturns, recoveryRest, closeRest, runtimeVars, schedulerVars
    <2> QED
      BY <1>0, <2>1 DEF SignalsOK, Signalled
  <1> QED
    BY <1>1, <1>2, <1>3, <1>4, <1>5, <1>6, <1>7, <1>8 DEF RuntimeStep, RefreshStep, RecoveryStep

---------------------------------------------------------------------------
(* The timers and the schedule. *)

\* Every step leaves the coordinator a timer that is early enough, or a signal to set it anew.
LEMMA WakesStep ==
    ASSUME SchedulerTyped, SchedulerTyped', WakesInTime, SchedulerNext \/ RuntimeStep
    PROVE  WakesInTime'
  <1>1. CASE dueCoordinator
    BY <1>1, ResetTimer DEF dueCoordinator, WakesInTime, SchedulerTyped, timerVars
  <1>2. CASE dispatchDue
    <2> DEFINE due == {j \in Jobs : armed[j] # Unset /\ armed[j] <= now}
    <2>1. CASE due = {}
      <3>1. coordinator' = resetDueTimer(armed) /\ armed' = armed
        BY <1>2, <2>1 DEF dispatchDue, timerVars
      <3> QED
        BY <3>1, ResetTimer DEF WakesInTime, SchedulerTyped
    <2>2. CASE due # {}
      <3>1. coordinator'.batch = {[job |-> j, due |-> armed[j]] : j \in due}
        BY <1>2, <2>2 DEF dispatchDue
      <3>2. coordinator'.batch # {}
        BY <2>2, <3>1
      <3> QED
        BY <3>2 DEF WakesInTime
    <2> QED
      BY <2>1, <2>2
  <1>3. ASSUME NEW d \in coordinator.batch, enqueueDue(d) PROVE WakesInTime'
    <2>1. CASE coordinator' = resetDueTimer(armed')
      BY <2>1, ResetTimer DEF WakesInTime, SchedulerTyped
    <2>2. CASE coordinator' # resetDueTimer(armed')
      <3>1. coordinator'.batch # {}
        BY <1>3, <2>2 DEF enqueueDue, Dispatched, SchedulerTyped
      <3> QED
        BY <3>1 DEF WakesInTime
    <2> QED
      BY <2>1, <2>2
  <1>4. CASE rearmClaimed
    <2>1. scheduleChanged' \/ UNCHANGED <<armed, scheduleChanged, coordinator>>
      BY <1>4 DEF rearmClaimed
    <2> QED
      BY <2>1 DEF WakesInTime
  <1>5. CASE applySnapshot
    BY <1>5 DEF applySnapshot, WakesInTime
  <1>6. CASE recoverAndClose \/ Close
    <2>1. (\A j \in Jobs : armed'[j] = Unset) \/ UNCHANGED <<armed, scheduleChanged, coordinator>>
      BY <1>6 DEF recoverAndClose, Close, beginClose, signalVars
    <2> QED
      BY <2>1 DEF WakesInTime
  <1>7. \/ UNCHANGED <<armed, scheduleChanged, coordinator>>
        \/ dueCoordinator \/ dispatchDue \/ (\E d \in coordinator.batch : enqueueDue(d))
        \/ rearmClaimed \/ applySnapshot \/ recoverAndClose \/ Close
    BY DEF SchedulerNext, SchedulerWork, Tick, dueWorker, claimOccurrence,
      claimScheduledJob, claimAnswered, claimLost, claimFailed, execute, clearRunning, reconcileRequestsLoop,
      reconcileLoop, Refresh, reconcileScheduledJobs, refreshFails, RuntimeStep, RefreshStep,
      RecoveryStep, ChangeJob, requestScheduledJobsRefresh, RequestRefresh, SendRequest, runRefreshes,
      waitForRecovery, recoveryCancelled, registerRecoveringScheduler, recoveryFails, Start,
      recoverAndEnable, recoveryClosed, registerActiveRun, closeReturns, schedulerVars, timerVars, signalVars
  <1> QED
    BY <1>1, <1>2, <1>3, <1>4, <1>5, <1>6, <1>7 DEF WakesInTime

\* An answer stays the schedule: while api is held only an edit changes the rows.
LEMMA AnswerStep ==
    ASSUME SchedulerTyped, CallsOK, AnswerOK, SchedulerStep \/ RuntimeStep
    PROVE  AnswerOK'
  <1>1. ASSUME SchedulerStep, reconcileScheduledJobs PROVE AnswerOK'
    <2>1. /\ call'.answer = {[job |-> j, due |-> jobs'[j].nextRunAt] : j \in {k \in Jobs : jobs[k].active}}
          /\ \A k \in Jobs : jobs'[k].active = jobs[k].active
      BY <1>1 DEF reconcileScheduledJobs, SchedulerTyped
    <2>2. {k \in Jobs : jobs[k].active} = {k \in Jobs : jobs'[k].active}
      BY <2>1
    <2> QED
      BY <2>1, <2>2 DEF AnswerOK, Schedule
  <1>2. ASSUME NEW c \in Callers, Refresh(c), SchedulerStep PROVE AnswerOK'
    <2>1. call'.pc # "answered"
      <3>1. call' = NoCall \/ call' = [by |-> c, pc |-> "asked", protected |-> protectedJobs, answer |-> {}]
        BY <1>2 DEF Refresh
      <3> QED
        BY <3>1, NoCallFacts
    <2> QED
      BY <2>1 DEF AnswerOK
  <1>3. ASSUME NEW j \in Jobs, ChangeJob(j) PROVE AnswerOK'
    BY <1>3 DEF ChangeJob, AnswerOK
  <1>4. CASE claimOccurrence \/ claimScheduledJob \/ claimAnswered \/ claimLost \/ applySnapshot \/ refreshFails
    <2>1. claimOccurrence => call'.by \in {"none", "claim"}
      <3>1. claimOccurrence => call' = NoCall \/ call' = [NoCall EXCEPT !.by = "claim", !.pc = "asked"]
        BY DEF claimOccurrence
      <3> QED
        BY <3>1, NoCallFacts DEF NoCall
    <2>2. claimScheduledJob => call'.by = "claim"
      BY DEF claimScheduledJob, SchedulerTyped
    <2>3. claimAnswered \/ claimLost \/ applySnapshot \/ refreshFails => call'.by = "none"
      BY NoCallFacts DEF claimAnswered, claimLost, applySnapshot, refreshFails
    <2> QED
      BY <1>4, <2>1, <2>2, <2>3 DEF AnswerOK, Callers
  <1>5. ASSUME SchedulerStep, ~reconcileScheduledJobs, ~(\E c \in Callers : Refresh(c)), ~claimOccurrence,
               ~claimScheduledJob, ~claimAnswered, ~claimLost, ~applySnapshot, ~refreshFails
        PROVE  AnswerOK'
    <2>1. UNCHANGED <<call, jobs>>
      BY <1>5 DEF SchedulerStep, SchedulerNext, SchedulerWork, Tick, dueCoordinator, dispatchDue, enqueueDue,
        dueWorker, claimFailed, rearmClaimed, execute, clearRunning, reconcileRequestsLoop, reconcileLoop
    <2>2. unseen => unseen'
      BY <1>5, <2>1 DEF SchedulerStep
    <2> QED
      BY <2>1, <2>2 DEF AnswerOK, Schedule
  <1>6. ASSUME RuntimeStep, ~(\E j \in Jobs : ChangeJob(j)) PROVE AnswerOK'
    <2>1. UNCHANGED <<call, jobs, unseen>>
      BY <1>6 DEF RuntimeStep, RefreshStep, RecoveryStep, requestScheduledJobsRefresh,
        RequestRefresh, SendRequest, runRefreshes, waitForRecovery, recoveryCancelled,
        registerRecoveringScheduler, recoveryFails, Start, recoverAndEnable, recoverAndClose,
        recoveryClosed, registerActiveRun, Close, closeReturns, recoveryRest, closeRest, runtimeVars, schedulerVars
    <2> QED
      BY <2>1 DEF AnswerOK, Schedule
  <1> QED
    BY <1>1, <1>2, <1>3, <1>4, <1>5, <1>6

\* The rows, timers and claims stay, and so does what was granted.
LEMMA FollowsKept ==
    ASSUME NEW j \in Jobs, Follows(j), UNCHANGED <<jobs, armed, claiming>>,
           Granted' /\ worker'.job = j => Granted /\ worker.job = j /\ worker'.next = worker.next
    PROVE  Follows(j)'
  BY DEF Follows

\* A snapshot that is the schedule sets every timer but the excused ones.
LEMMA SnapshotFollows ==
    ASSUME SchedulerTyped, TimerOrClaim, ClaimsOK, CallsOK, AnswerOK, applySnapshot, ~unseen
    PROVE  \A j \in Jobs \ excused' : Follows(j)'
  <1> SUFFICES ASSUME NEW j \in Jobs, j \notin excused' PROVE Follows(j)'
    OBVIOUS
  <1>1. /\ call.by \in Callers /\ call.answer = Schedule /\ UNCHANGED <<jobs, claiming>>
        /\ armed'[j] = IF claiming[j] = Unset \/ armed[j] = future(j) THEN future(j) ELSE Unset
        /\ ~(worker.pc = "claimed" /\ worker.job = j)
        /\ ~(claiming[j] = Unset /\ future(j) = Unset /\ \E s \in call.answer : s.job = j)
    BY DEF applySnapshot, AnswerOK, SnapshotTimers
  <1>2. claiming[j] = Unset => armed'[j] = IF jobs[j].active THEN jobs[j].nextRunAt ELSE Unset
    BY <1>1, FutureOfSchedule
  <1>3. ~(Granted' /\ worker'.job = j)
    <2>1. worker.pc # "asking" /\ (worker' = worker \/ worker'.pc = "idle")
      BY <1>1 DEF applySnapshot, Returned, CallsOK, Callers, Idle
    <2> QED
      BY <1>1, <2>1 DEF Granted
  <1> QED
    BY <1>1, <1>2, <1>3 DEF Follows

\* Every step of the scheduler keeps the timers on the schedule when nothing is left to refresh.
LEMMA TimersStep ==
    ASSUME SchedulerTyped, TimerOrClaim, ClaimsOK, CallsOK, LifecycleOK, AnswerOK, TimersOK, SchedulerStep
    PROVE  TimersOK'
  <1>0. closed' = closed /\ (unseen /\ ~(call.pc = "asked" /\ call'.pc = "answered" /\ call.by \in Callers) => unseen')
    BY DEF SchedulerStep, closed
  <1> SUFFICES ASSUME Settled', ~closed, ~schedulerClosed, NEW j \in Jobs, j \notin excused'
               PROVE  Follows(j)'
    BY <1>0 DEF TimersOK, Settled, LifecycleOK
  <1>1. CASE applySnapshot
    <2>1. call'.pc = "none"
      BY <1>1 DEF applySnapshot, NoCall
    <2>2. ~unseen
      BY <1>0, <2>1 DEF Settled
    <2> QED
      BY <1>1, <2>2, SnapshotFollows
  <1>2. CASE refreshFails \/ claimFailed \/ reconcileScheduledJobs \/ reconcileRequestsLoop \/ reconcileLoop
             \/ (\E c \in Callers : Refresh(c))
    <2>1. refreshFails => failed'
      BY DEF refreshFails
    <2>2. claimFailed \/ reconcileRequestsLoop \/ reconcileLoop => wanting' # {}
      BY DEF claimFailed, reconcileRequestsLoop, reconcileLoop
    <2>3. (\E c \in Callers : Refresh(c)) => call'.by \in Callers
      BY DEF Refresh
    <2>4. reconcileScheduledJobs => call'.by \in Callers
      BY DEF reconcileScheduledJobs, SchedulerTyped
    <2> QED
      BY <1>2, <2>1, <2>2, <2>3, <2>4 DEF Settled
  <1>3. ASSUME Settled, j \notin excused PROVE Follows(j)
    BY <1>3 DEF TimersOK
  <1>4. CASE Tick \/ dueCoordinator \/ dispatchDue \/ dueWorker \/ execute \/ clearRunning
    <2>1. /\ UNCHANGED <<jobs, armed, claiming, call, started, failed, reconcileRequests, wanting, excused>>
      BY <1>4 DEF Tick, dueCoordinator, dispatchDue, dueWorker, execute, clearRunning, timerVars, signalVars, historyVars
    <2>2. Settled
      BY <1>0, <2>1 DEF Settled
    <2>3. worker' = worker \/ worker'.pc \in {"claim", "unregister", "idle"}
      <3>1. dueWorker => worker'.pc = "claim"
        BY DEF dueWorker, Idle
      <3>2. execute => worker'.pc = "unregister"
        BY DEF execute, SchedulerTyped
      <3>3. clearRunning => worker'.pc = "idle"
        BY DEF clearRunning, Idle
      <3> QED
        BY <1>4, <3>1, <3>2, <3>3 DEF Tick, dueCoordinator, dispatchDue
    <2>4. Granted' /\ worker'.job = j => Granted /\ worker.job = j /\ worker'.next = worker.next
      BY <2>1, <2>3 DEF Granted
    <2> QED
      BY <1>3, <2>1, <2>2, <2>4, FollowsKept
  <1>5. ASSUME NEW d \in coordinator.batch, enqueueDue(d) PROVE Follows(j)'
    <2>1. /\ UNCHANGED <<jobs, call, started, failed, wanting, excused, worker>>
          /\ d \in [job : Jobs, due : Times] /\ ~reconcileRequests'
      BY <1>5 DEF enqueueDue, historyVars, SchedulerTyped, Settled
    <2>2. \/ UNCHANGED <<timerVars, reconcileRequests>>
          \/ /\ armed' = [armed EXCEPT ![d.job] = Unset] /\ claiming' = [claiming EXCEPT ![d.job] = d.due]
             /\ UNCHANGED reconcileRequests /\ armed[d.job] = d.due
      BY <1>5, <2>1 DEF enqueueDue, reconcileAfter
    <2>3. Settled
      BY <1>0, <2>1, <2>2 DEF Settled
    <2>4. Follows(j)
      BY <1>3, <2>1, <2>3
    <2>5. CASE d.job # j \/ UNCHANGED timerVars
      BY <2>1, <2>2, <2>4, <2>5 DEF Follows, Granted, timerVars, SchedulerTyped
    <2>6. CASE d.job = j /\ ~UNCHANGED timerVars
      BY <2>1, <2>2, <2>4, <2>6, UnsetIsNoTime DEF Follows, Granted, SchedulerTyped
    <2> QED
      BY <2>5, <2>6
  <1>6. CASE claimOccurrence
    <2>1. /\ UNCHANGED <<jobs, armed, claiming, started, failed, reconcileRequests, wanting, excused>>
          /\ call = NoCall /\ ~Granted'
      BY <1>6 DEF claimOccurrence, timerVars, signalVars, historyVars, Granted, NoCall, SchedulerTyped
    <2>2. Settled
      BY <1>0, <2>1 DEF Settled, NoCall, Callers
    <2> QED
      BY <1>3, <2>1, <2>2, FollowsKept
  <1>7. CASE claimScheduledJob
    <2>1. /\ UNCHANGED <<armed, claiming, started, failed, reconcileRequests, wanting, excused>>
          /\ call.by = "claim" /\ worker.pc = "asking" /\ worker.job \in Jobs /\ claiming[worker.job] # Unset
          /\ worker'.job = worker.job
      BY <1>7 DEF claimScheduledJob, timerVars, signalVars, CallsOK, ClaimsOK, Claims, SchedulerTyped
    <2>2. Settled
      BY <1>0, <2>1 DEF Settled, Callers
    <2>3. Follows(j)
      BY <1>3, <2>1, <2>2
    <2>4. CASE j # worker.job
      <3>1. jobs'[j] = jobs[j]
        BY <1>7, <2>1, <2>4 DEF claimScheduledJob, SchedulerTyped
      <3> QED
        BY <2>1, <2>3, <2>4, <3>1 DEF Follows
    <2>5. CASE j = worker.job
      <3>1. \/ worker'.next = Unset
            \/ jobs'[j].active /\ jobs'[j].nextRunAt = worker'.next
        BY <1>7, <2>1, <2>5 DEF claimScheduledJob, SchedulerTyped
      <3>2. worker'.pc = "asking"
        BY <1>7, <2>1 DEF claimScheduledJob, SchedulerTyped
      <3> QED
        BY <2>1, <2>5, <3>1, <3>2 DEF Follows, Granted
    <2> QED
      BY <2>4, <2>5
  <1>8. CASE claimAnswered \/ claimLost
    <2>1. /\ UNCHANGED <<jobs, armed, claiming, started, failed, reconcileRequests, wanting, excused>>
          /\ call.by = "claim" /\ worker.pc = "asking" /\ worker'.job = worker.job
      BY <1>8 DEF claimAnswered, claimLost, timerVars, signalVars, historyVars, CallsOK, SchedulerTyped
    <2>2. Settled
      BY <1>0, <2>1 DEF Settled, Callers
    <2>3. Granted' => Granted /\ worker'.next = worker.next
      <3>1. CASE claimLost
        BY <3>1 DEF claimLost, Granted, SchedulerTyped
      <3>2. CASE claimAnswered
        BY <2>1, <3>2 DEF claimAnswered, Granted, SchedulerTyped
      <3> QED
        BY <1>8, <3>1, <3>2
    <2> QED
      BY <1>3, <2>1, <2>2, <2>3, FollowsKept
  <1>9. CASE rearmClaimed
    <2>1. KeepsClaim /\ worker.pc = "claimed" /\ worker.job \in Jobs /\ claiming[worker.job] # Unset
      BY <1>9 DEF rearmClaimed, KeepsClaim, ClaimsOK, Claims
    <2>2. /\ UNCHANGED <<jobs, call, started, failed, reconcileRequests, wanting>> /\ excused \subseteq excused'
          /\ claiming' = [claiming EXCEPT ![worker.job] = Unset]
          /\ armed' = [armed EXCEPT ![worker.job] = IF @ = Unset /\ worker.next > now THEN worker.next ELSE @]
          /\ worker.job \notin excused' => worker.next > now
          /\ worker'.pc = "register"
      BY <1>9, <2>1 DEF rearmClaimed, SchedulerTyped
    <2>3. Follows(j) /\ ~Granted'
      <3>1. Settled
        BY <1>0, <2>2 DEF Settled
      <3> QED
        BY <1>3, <2>2, <3>1 DEF Granted
    <2>4. CASE j # worker.job
      BY <2>1, <2>2, <2>3, <2>4 DEF Follows, SchedulerTyped
    <2>5. CASE j = worker.job
      <3>1. armed[j] = Unset /\ jobs[j].active /\ jobs[j].nextRunAt = worker.next
        BY <2>1, <2>3, <2>5 DEF TimerOrClaim, Follows, Granted
      <3>2. armed'[j] = worker.next
        BY <2>1, <2>2, <2>5, <3>1 DEF SchedulerTyped
      <3> QED
        BY <2>2, <2>3, <3>1, <3>2 DEF Follows
    <2> QED
      BY <2>4, <2>5
  <1> QED
    BY <1>1, <1>2, <1>4, <1>5, <1>6, <1>7, <1>8, <1>9 DEF SchedulerStep, SchedulerNext, SchedulerWork

\* The other steps: an edit is unseen, and recovery and Close leave the timers of a runtime that
\* is not closed alone.
LEMMA TimersKept ==
    ASSUME SchedulerTyped, CallsOK, LifecycleOK, TimersOK, RuntimeStep
    PROVE  TimersOK'
  <1>1. ASSUME NEW j \in Jobs, ChangeJob(j) PROVE TimersOK'
    BY <1>1 DEF ChangeJob, TimersOK, Settled
  <1>2. CASE recoverAndClose \/ Close
    <2>1. closed'
      BY <1>2 DEF recoverAndClose, Close, closed
    <2> QED
      BY <2>1 DEF TimersOK, Settled
  <1>3. CASE Start
    <2>1. started' # "started"
      BY <1>3 DEF Start, LifecycleOK
    <2> QED
      BY <2>1 DEF TimersOK, Settled
  <1>4. ASSUME NEW next, recoveryFails(next) PROVE TimersOK'
    <2>1. started' # "started"
      BY <1>4 DEF recoveryFails
    <2> QED
      BY <2>1 DEF TimersOK, Settled
  <1>5. CASE runRefreshes
    BY <1>5 DEF runRefreshes, TimersOK, Settled
  <1>6. CASE registerActiveRun
    <2>1. /\ UNCHANGED <<jobs, armed, claiming, call, started, failed, reconcileRequests, wanting, excused, unseen, closer>>
          /\ worker'.pc \in {"execute", "clear"}
      BY <1>6 DEF registerActiveRun, timerVars, signalVars, historyVars, runtimeVars, SchedulerTyped
    <2>2. ASSUME Settled', NEW j \in Jobs, j \notin excused' PROVE Follows(j)'
      <3>1. Follows(j)
        BY <2>1, <2>2 DEF TimersOK, Settled, closed
      <3> QED
        BY <2>1, <3>1, FollowsKept DEF Granted
    <2> QED
      BY <2>2 DEF TimersOK
  <1>7. CASE \/ requestScheduledJobsRefresh \/ RequestRefresh \/ SendRequest \/ waitForRecovery
             \/ recoveryCancelled \/ registerRecoveringScheduler \/ recoverAndEnable \/ recoveryClosed
             \/ closeReturns
    <2>1. UNCHANGED schedulerVars /\ unseen' = unseen /\ (~closed' => ~closed)
      BY <1>7 DEF requestScheduledJobsRefresh, RequestRefresh, SendRequest, waitForRecovery, recoveryCancelled,
        registerRecoveringScheduler, recoverAndEnable, recoveryClosed, closeReturns, recoveryRest, closeRest, closed
    <2> QED
      BY <2>1 DEF TimersOK, Settled, Follows, Granted, schedulerVars, timerVars, signalVars, historyVars
  <1> QED
    BY <1>1, <1>2, <1>3, <1>4, <1>5, <1>6, <1>7 DEF RuntimeStep, RefreshStep, RecoveryStep

---------------------------------------------------------------------------
(* The theorems. *)

\* The initial states are those of a runtime whose recovery waits for its first attempt.
LEMMA InitOK == Init => IInv
  <1> SUFFICES ASSUME Init PROVE IInv
    OBVIOUS
  <1> USE DEF Init, SchedulerInit
  <1>1. armed \in [Jobs -> Times \cup {Unset}] /\ \A j \in Jobs : armed[j] = Unset /\ claiming[j] = Unset
    OBVIOUS
  <1>2. /\ coordinator \in [timer : Times, batch : SUBSET [job : Jobs, due : Times], at : 0..MaxTime]
        /\ coordinator.batch = {}
    BY <1>1, ResetTimer
  <1>3. jobs \in [Jobs -> [active : BOOLEAN, nextRunAt : Times]]
    BY NextRunAtType
  <1>4. worker.pc = "idle" /\ call.by = "none" /\ call.pc = "none"
    BY NoCallFacts DEF Idle
  <1>5. now \in 0..MaxTime /\ changes \in 0..MaxChanges /\ notices \in 0..changes
    BY ScheduleAssumption, ChangesAssumption
  <1>6. call \in [by : Callers \cup {"claim", "none"}, pc : {"none", "asked", "answered"},
                  protected : SUBSET Occurrence, answer : SUBSET [job : Jobs, due : Times]]
    BY DEF NoCall
  <1>7. SchedulerTyped
    BY <1>1, <1>2, <1>3, <1>5, <1>6, IdleType DEF SchedulerTyped
  <1>8. RuntimeTyped
    BY <1>5 DEF RuntimeTyped
  <1>9. TimerOrClaim /\ ClaimsOK
    BY <1>1, <1>4 DEF TimerOrClaim, ClaimsOK, Claims, Runs
  <1>10. CallsOK
    BY <1>4 DEF CallsOK
  <1>11. LifecycleOK
    BY <1>1, <1>2, <1>4 DEF LifecycleOK
  <1>12. ClosingOK
    BY DEF ClosingOK, closed
  <1>13. OwedOK /\ SignalsOK /\ WakesInTime /\ AnswerOK /\ TimersOK
    BY <1>1, <1>4 DEF OwedOK, SignalsOK, WakesInTime, AnswerOK, TimersOK, Settled
  <1> QED
    BY <1>7, <1>8, <1>9, <1>10, <1>11, <1>12, <1>13 DEF IInv

\* Every step of the scheduler, of the API and of the runtime keeps the invariant.
LEMMA NextOK == IInv /\ [Next]_vars => IInv'
  <1> SUFFICES ASSUME IInv, [Next]_vars PROVE IInv'
    OBVIOUS
  <1> USE DEF IInv
  <1>1. CASE SchedulerStep
    <2>1. SchedulerNext
      BY <1>1 DEF SchedulerStep
    <2>2. SchedulerTyped' /\ RuntimeTyped'
      BY <1>1, <2>1, SchedulerTypes, RuntimeTypes
    <2>3. TimerOrClaim' /\ ClaimsOK' /\ CallsOK' /\ LifecycleOK'
      BY <1>1, <2>1, TimerOrClaimStep, ClaimsStep, CallsStep, LifecycleStep
    <2>4. ClosingOK' /\ OwedOK' /\ SignalsOK'
      BY <1>1, ClosingStep, OwedStep, SignalsStep
    <2>5. WakesInTime' /\ AnswerOK' /\ TimersOK'
      BY <1>1, <2>1, <2>2, WakesStep, AnswerStep, TimersStep
    <2> QED
      BY <2>2, <2>3, <2>4, <2>5
  <1>2. CASE RuntimeStep
    <2>1. SchedulerTyped' /\ RuntimeTyped'
      BY <1>2, SchedulerTypesKept, RuntimeTypes
    <2>2. TimerOrClaim' /\ ClaimsOK' /\ CallsOK' /\ LifecycleOK'
      BY <1>2, TimerOrClaimStep, ClaimsStep, CallsKept, LifecycleKept
    <2>3. ClosingOK' /\ OwedOK' /\ SignalsOK'
      BY <1>2, ClosingStep, OwedKept, SignalsKept
    <2>4. WakesInTime' /\ AnswerOK' /\ TimersOK'
      BY <1>2, <2>1, WakesStep, AnswerStep, TimersKept
    <2> QED
      BY <2>1, <2>2, <2>3, <2>4
  <1>3. CASE UNCHANGED vars
    <2> USE <1>3 DEF vars, schedulerVars, runtimeVars, timerVars, signalVars, historyVars
    <2>1. SchedulerTyped' /\ RuntimeTyped'
      BY DEF SchedulerTyped, RuntimeTyped
    <2>2. TimerOrClaim' /\ ClaimsOK' /\ CallsOK' /\ LifecycleOK'
      BY DEF TimerOrClaim, ClaimsOK, CallsOK, LifecycleOK, closed
    <2>3. ClosingOK' /\ OwedOK' /\ SignalsOK' /\ WakesInTime' /\ AnswerOK'
      BY DEF ClosingOK, OwedOK, SignalsOK, WakesInTime, AnswerOK, Granted, Signalled, Schedule, closed
    <2>4. TimersOK'
      BY DEF TimersOK, Settled, Follows, Granted, closed
    <2> QED
      BY <2>1, <2>2, <2>3, <2>4
  <1> QED
    BY <1>1, <1>2, <1>3 DEF Next, RuntimeStep

\* The inductive invariant, on which every theorem below rests.
LEMMA Invariance == Spec => []IInv
  BY InitOK, NextOK, PTL DEF Spec

\* The variables keep their types, a job has at most one of a timer and a claim, the job that
\* runs is the worker's, and an enabled runtime has a registered scheduler.
THEOREM TypeCorrect == Spec => []TypeOK
  <1>1. IInv => TypeOK
    <2> SUFFICES ASSUME IInv PROVE TypeOK
      OBVIOUS
    <2>1. running \subseteq {worker.job}
      BY DEF IInv, ClaimsOK
    <2>2. notices \in 0..MaxChanges
      BY ChangesAssumption DEF IInv, RuntimeTyped
    <2>3. state = "enabled" => registered /\ recovery = "done"
      BY DEF IInv, LifecycleOK
    <2> QED
      BY <2>1, <2>2, <2>3 DEF IInv, SchedulerTyped, RuntimeTyped, TimerOrClaim, CallsOK, TypeOK
  <1> QED
    BY <1>1, Invariance, PTL

\* An occurrence whose run the API inserted stays with the worker until it is executed, whatever
\* snapshots are applied between the answer and rearmClaimed; only a shutdown drops it.
THEOREM ClaimedRunsAreRun == Spec => []ClaimedIsRun
  <1>1. IInv => ClaimedIsRun
    BY DEF IInv, OwedOK, ClaimedIsRun
  <1> QED
    BY <1>1, Invariance, PTL

\* An edit the daemon was told of is on its way to a refresh, through the flags of the relay
\* handler, the hand-over from recovery and the two channels, for any number of edits; left to
\* the hourly reconcile is only one whose refresh failed or whose request recovery did not read.
THEOREM EditsAreSignalled == Spec => []RefreshIsComing
  <1>1. IInv => RefreshIsComing
    <2> SUFFICES ASSUME IInv, unseen, state = "enabled", ~closed PROVE Signalled \/ call.by \in Callers \/ failed
      BY DEF RefreshIsComing, Signalled
    <2>1. started = "started"
      BY DEF IInv, LifecycleOK
    <2> QED
      BY <2>1 DEF IInv, SignalsOK
  <1> QED
    BY <1>1, Invariance, PTL

\* Whenever nothing is under way, the timers of the jobs that are not excused are those of the
\* API's schedule, and the coordinator wakes up in time for each.
THEOREM TimersAreTheSchedule == Spec => []TimersFollowSchedule
  <1>1. IInv => TimersFollowSchedule
    <2> SUFFICES ASSUME IInv, Quiet, NEW j \in Jobs, j \notin excused
                 PROVE  /\ armed[j] = IF jobs[j].active THEN jobs[j].nextRunAt ELSE Unset
                        /\ ~scheduleChanged /\ armed[j] # Unset => coordinator.timer <= armed[j]
      BY DEF TimersFollowSchedule
    <2>1. started = "started" /\ ~schedulerClosed
      BY DEF IInv, LifecycleOK, Quiet
    <2>2. Settled
      BY <2>1, NoCallFacts DEF Quiet, Settled, Callers
    <2>3. claiming[j] = Unset
      BY <2>1 DEF IInv, ClaimsOK, Quiet, Claims
    <2>4. armed[j] = IF jobs[j].active THEN jobs[j].nextRunAt ELSE Unset
      BY <2>2, <2>3 DEF IInv, TimersOK, Follows
    <2>5. ~scheduleChanged /\ armed[j] # Unset => coordinator.timer <= armed[j]
      BY DEF IInv, WakesInTime, Quiet
    <2> QED
      BY <2>4, <2>5
  <1> QED
    BY <1>1, Invariance, PTL

\* A Close under way is stuck in one state only, the one that is Caught: recovery waits with
\* lifecycleMu held for a worker that waits for lifecycleMu.
THEOREM CloseGetsStuckOnlyWhenCaught == Spec => []CloseIsNotStuck
  <1>1. IInv => CloseIsNotStuck
    <2> SUFFICES ASSUME IInv, closer = "closing", ~Caught, ~GoesOn
                 PROVE  recovery = "done" /\ (registered => Stopped)
      BY DEF CloseIsNotStuck
    <2>1. call = NoCall /\ wanting = {} /\ coordinator.batch = {} /\ call.by = "none"
      BY NoCallFacts DEF GoesOn
    <2>2. worker.pc = "idle"
      <3>1. worker.pc \notin {"asking", "refresh"}
        BY <2>1 DEF IInv, CallsOK
      <3>2. worker.pc \notin {"register", "unregister"}
        BY DEF IInv, ClosingOK, GoesOn, Caught
      <3>3. worker.pc \notin {"claim", "failed", "claimed", "execute", "clear"}
        BY DEF GoesOn
      <3> QED
        BY <3>1, <3>2, <3>3 DEF IInv, SchedulerTyped, Claims, Runs
    <2>3. schedulerClosed => Stopped
      BY <2>1, <2>2 DEF Stopped
    <2>4. recovery # "closing"
      BY <2>3 DEF IInv, ClosingOK, GoesOn
    <2>5. lifecycleMu = "free"
      BY <2>4 DEF IInv, ClosingOK
    <2>6. recovery # "starting"
      BY <2>1, <2>5 DEF IInv, CallsOK, GoesOn
    <2>7. recovery = "done"
      BY <2>4, <2>5, <2>6 DEF IInv, RuntimeTyped, GoesOn, SeesCancel
    <2> QED
      BY <2>3, <2>7 DEF IInv, ClosingOK, closed
  <1> QED
    BY <1>1, Invariance, PTL
================================================================================
