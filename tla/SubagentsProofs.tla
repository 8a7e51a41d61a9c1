---------------------------- MODULE SubagentsProofs ----------------------------
(***************************************************************************)
(* Proofs about the sub-agents of pi-subagents: AgentRuns, for any number  *)
(* of runs and slots, and CompletionOwner, for any number of completions   *)
(* and retries.                                                            *)
(*                                                                         *)
(* In AgentRuns every change of the queue is a drain. The lemmas of the    *)
(* second section say once what a drain does to the queue and to a run,    *)
(* and the actions cite them.                                              *)
(*                                                                         *)
(* In CompletionOwner the completion whose send is under way ties the      *)
(* loop, its entry and the count of deliveries together: until the send    *)
(* settles, nobody else can change that entry but a shutdown, and no new   *)
(* owner takes over. The two share no variable.                            *)
(***************************************************************************)
EXTENDS AgentRuns, CompletionOwner, FiniteSetTheorems, TLAPS

\* A task that writes has the slots for itself.
WriterHasAllSlots == \A r, q \in Holders : access[r] = "write" => r = q

\* The head of the queue cannot start, not even inside the loop of shutdown.
HeadWaits ==
    \A r \in pendingTasks :
        \/ \E q \in pendingTasks : q < r
        \/ ~canStartTask(access, r, activeTaskCount, hasActiveWriteTask)

\* The parts of the invariant about one run, of its record st, runner ch, origin o, transcript
\* entry e, terminal events n, assembly timer t and grace timer g, while its task awaits cancelRun
\* or not (w) and shutdown was called or not (down).

\* The stage of the runner follows from the record and back: only a run that was interrupted
\* can be recorded as ended while its runner still goes on.
Stage(st, ch, o, e) ==
    /\ st \in {"none", "queued"} => ch = "none"
    /\ st = "starting" => ch = "assembling"
    /\ st = "running" => ch \in {"prompting", "persisting", "ended"}
    /\ ch = "assembling" => st = "starting" \/ (st \in Terminal /\ o # "none")
    /\ ch = "prompting" => st = "running"
    /\ ch = "persisting" => st = "running" \/ (st \in Terminal /\ o # "none")
    /\ ch = "ended" => st = "running" \/ st \in Terminal
    /\ e # "none" => ch = "ended"

\* A record stays behind a runner that has ended only while the task awaits cancelRun, which it
\* does for an interrupted run only; the grace timer is disposed of with the runner.
Cancelling(st, ch, o, w, g) ==
    /\ st = "running" /\ ch = "ended" => w
    /\ w => st = "running" /\ o # "none" /\ ch \in {"persisting", "ended"}
    /\ g = "armed" => ch \in {"prompting", "persisting"}

\* Only a started run can meet its limits, and the assembly timer runs only for a run that was
\* interrupted while it was starting.
Interruption(st, o, t) ==
    /\ st = "none" => o = "none"
    /\ st = "queued" => o \notin Limits
    /\ t => st = "starting" /\ o # "none"

\* What OutcomesAgree says of one run.
Outcome(st, o, e, n) ==
    /\ st \in Terminal =>
         /\ o \in Limits => st = "failed"
         /\ st = "cancelled" <=> o \notin Limits \cup {"none"}
    /\ e # "none" => e = IF st \in Terminal THEN st
                         ELSE IF o \in Limits THEN "failed" ELSE "cancelled"
    /\ n = IF st \in Terminal THEN 1 ELSE 0

\* Shutdown has signalled the run, unless it had ended.
Signalled(st, o, down) == down /\ st \in {"queued"} \cup Holding => o # "none"

RunIs(st, ch, o, e, n, t, w, g, down) ==
    /\ Stage(st, ch, o, e) /\ Cancelling(st, ch, o, w, g) /\ Interruption(st, o, t)
    /\ Outcome(st, o, e, n) /\ Signalled(st, o, down)

RunOK(r) ==
    RunIs(rec[r], child[r], origin[r], entry[r], announced[r], asmTimer[r],
          r \in cancelling, grace[r], isShuttingDown)

\* What is left of a thrown task is its slot.
LeavingIsCancelled == \A r \in leaving : rec[r] = "cancelled"

QueueOK == SlotsExact /\ WriterHasAllSlots /\ HeadWaits /\ LeavingIsCancelled

\* Only shutdown has runs to cancel.
PassIsShutdown == pass # {} => isShuttingDown

IInv == TypeOK /\ QueueOK /\ PassIsShutdown /\ \A r \in Runs : RunOK(r)

---------------------------------------------------------------------------
(* What the loop of drain starts. *)

\* Sets of runs are finite.
LEMMA RunsFinite ==
    /\ IsFiniteSet(Runs)
    /\ \A S \in SUBSET Runs : IsFiniteSet(S) /\ Cardinality(S) \in Nat
  <1>1. IsFiniteSet(Runs)
    BY FS_Interval, MaxRunsAssumption DEF Runs
  <1>2. ASSUME NEW S \in SUBSET Runs
        PROVE  IsFiniteSet(S) /\ Cardinality(S) \in Nat
    BY <1>1, FS_Subset, FS_CardinalityType
  <1> QED
    BY <1>1, <1>2

\* The started tasks are a beginning of the queue; a writer is started only alone and into an
\* empty set of slots, a reader only beside readers; and the first task that stays behind could
\* not start beside the ones that did (concurrencyQueue.ts drain).
LEMMA StartsLaws ==
    ASSUME NEW acc, NEW P \in SUBSET Runs, NEW count \in Nat, NEW writing \in BOOLEAN,
           NEW S, S = Starts(acc, P, count, writing)
    PROVE  /\ S \subseteq P
           /\ \A r \in S : \A q \in P : q < r => q \in S
           /\ \A r \in S : acc[r] = "write" => count = 0 /\ S = {r}
           /\ \A r \in S : acc[r] # "write" => ~writing
           /\ \A r \in P \ S :
                \/ \E q \in P \ S : q < r
                \/ ~canStartTask(acc, r, count + Cardinality(S),
                                 writing \/ \E p \in S : acc[p] = "write")
  <1> DEFINE ahead(q) == {p \in P : p < q}
             can(q)   == canStartTask(acc, q, count + Cardinality(ahead(q)),
                                      writing \/ \E p \in ahead(q) : acc[p] = "write")
  <1>1. S = {r \in P : \A q \in P : q <= r => can(q)}
    BY DEF Starts
  <1>2. \A q \in P : q \in Int /\ Cardinality(ahead(q)) \in Nat /\ IsFiniteSet(ahead(q))
    BY RunsFinite DEF Runs
  <1> HIDE DEF can, ahead
  <1>3. \A r \in S : r \in P /\ can(r)
    BY <1>1, <1>2
  <1>4. \A r \in S : \A q \in P : q < r => q \in S
    BY <1>1, <1>2
  <1>5. ASSUME NEW r \in S, acc[r] = "write"
        PROVE  count = 0 /\ S = {r}
    <2>1. can(r)
      BY <1>3
    <2>2. count + Cardinality(ahead(r)) = 0
      BY <2>1, <1>5 DEF can, canStartTask
    <2>3. count = 0 /\ Cardinality(ahead(r)) = 0
      BY <2>2, <1>2, <1>3
    <2>4. ahead(r) = {}
      BY <2>3, <1>2, <1>3, FS_EmptySet
    <2>5. ASSUME NEW q \in S, q # r
          PROVE  FALSE
      <3>1. ~(q < r)
        BY <2>4, <1>3 DEF ahead
      <3>2. r \in ahead(q)
        <4>1. r \in P /\ r \in Int /\ q \in Int
          BY <1>2, <1>3
        <4>2. r < q
          BY <4>1, <3>1, <2>5
        <4> QED
          BY <4>1, <4>2 DEF ahead
      <3>3. can(q)
        BY <1>3
      <3>4. Cardinality(ahead(q)) # 0
        BY <3>2, <1>2, <1>3, FS_EmptySet
      <3> QED
        BY <3>2, <3>3, <3>4, <2>3, <1>2, <1>3, <1>5 DEF can, canStartTask
    <2> QED
      BY <2>3, <2>5
  <1>6. ASSUME NEW r \in S, acc[r] # "write"
        PROVE  ~writing
    BY <1>3, <1>6 DEF can, canStartTask
  <1>7. ASSUME NEW r \in P \ S, ~\E q \in P \ S : q < r
        PROVE  ~canStartTask(acc, r, count + Cardinality(S),
                             writing \/ \E p \in S : acc[p] = "write")
    <2>1. PICK q \in P : q <= r /\ ~can(q)
      BY <1>1, <1>7
    <2>2. q \notin S
      BY <2>1, <1>3
    <2>3. q = r
      BY <2>1, <2>2, <1>2, <1>7
    <2>4. \A p \in S : p < r
      BY <1>4, <1>2, <1>3, <1>7
    <2>5. ahead(r) = S
      BY <2>4, <1>7, <1>3 DEF ahead
    <2> QED
      BY <2>1, <2>3, <2>5 DEF can
  <1> QED
    BY <1>3, <1>4, <1>5, <1>6, <1>7

HasWriter(acc, H) == \E r \in H : acc[r] = "write"
WriterIsAlone(acc, H) == \A r, q \in H : acc[r] = "write" => r = q

\* With H the holders before, the started tasks keep the counters exact and writers alone.
LEMMA DrainLaws ==
    ASSUME NEW acc, NEW P \in SUBSET Runs, NEW H \in SUBSET Runs, H \cap P = {},
           NEW writing \in BOOLEAN, writing <=> HasWriter(acc, H), WriterIsAlone(acc, H),
           NEW S, S = Starts(acc, P, Cardinality(H), writing)
    PROVE  /\ Cardinality(H \cup S) = Cardinality(H) + Cardinality(S)
           /\ writing \/ HasWriter(acc, S) <=> HasWriter(acc, H \cup S)
           /\ WriterIsAlone(acc, H \cup S)
  <1> USE DEF HasWriter, WriterIsAlone
  <1>1. Cardinality(H) \in Nat /\ IsFiniteSet(H)
    BY RunsFinite
  <1>2. /\ S \subseteq P
        /\ \A r \in S : acc[r] = "write" => Cardinality(H) = 0 /\ S = {r}
        /\ \A r \in S : acc[r] # "write" => ~writing
    BY <1>1, StartsLaws
  <1>3. IsFiniteSet(S) /\ H \cap S = {} /\ Cardinality(S) \in Nat
    BY <1>2, RunsFinite
  <1>4. Cardinality(H \cup S) = Cardinality(H) + Cardinality(S)
    <2>1. Cardinality(H \cup S) = Cardinality(H) + Cardinality(S) - Cardinality(H \cap S)
      BY <1>1, <1>3, FS_Union
    <2>2. Cardinality(H \cap S) = 0
      BY <1>3, FS_EmptySet
    <2> QED
      BY <1>1, <1>3, <2>1, <2>2
  <1>5. ASSUME NEW r \in H \cup S, NEW q \in H \cup S, acc[r] = "write"
        PROVE  r = q
    <2>1. CASE r \in S
      <3>1. H = {}
        BY <2>1, <1>1, <1>2, <1>5, FS_EmptySet
      <3> QED
        BY <3>1, <2>1, <1>2, <1>5
    <2>2. CASE r \in H
      <3>1. q \notin S
        <4>1. SUFFICES ASSUME q \in S PROVE FALSE
          OBVIOUS
        <4>2. writing
          BY <2>2, <1>5
        <4>3. acc[q] = "write"
          BY <4>1, <4>2, <1>2
        <4>4. H = {}
          BY <4>1, <4>3, <1>1, <1>2, FS_EmptySet
        <4> QED
          BY <4>4, <2>2
      <3> QED
        BY <3>1, <2>2, <1>5
    <2> QED
      BY <2>1, <2>2
  <1> QED
    BY <1>4, <1>5

---------------------------------------------------------------------------
(* What an action does to the queue and to the other runs. *)

Status == {"none", "queued"} \cup Holding \cup Terminal
Stages == {"none", "assembling", "prompting", "persisting", "ended"}

\* A drain keeps the queue in order, whatever gave back its slots (R) and whatever the records
\* (rc) were changed to before it, as long as they name the queue and the holders.
LEMMA DrainQueue ==
    ASSUME TypeOK, QueueOK,
           NEW R \in SUBSET Holders, NEW P \in SUBSET Runs, NEW rc, NEW ch, NEW ann,
           P = {r \in Runs : rc[r] = "queued"},
           {r \in Runs : rc[r] \in Holding} \cup (leaving \ R) = Holders \ R,
           \A r \in leaving \ R : rc[r] = "cancelled",
           \A r \in Holders : access'[r] = access[r],
           drain(R, P, rc, ch, ann)
    PROVE  QueueOK'
  <1> DEFINE H       == Holders \ R
             count   == activeTaskCount - Cardinality(R)
             writing == hasActiveWriteTask /\ \A r \in R : access[r] # "write"
             S       == Starts(access', P, count, writing)
             T       == {r \in S : origin'[r] # "none"}
  <1>1. /\ pendingTasks' = P \ S
        /\ activeTaskCount' = count + Cardinality(S)
        /\ hasActiveWriteTask' = (writing \/ \E r \in S : access'[r] = "write")
        /\ rec' = [r \in Runs |-> IF r \in T THEN "cancelled"
                                  ELSE IF r \in S THEN "starting" ELSE rc[r]]
        /\ leaving' = (leaving \ R) \cup T
    BY DEF drain
  <1>2. Holders \subseteq Runs /\ H \subseteq Runs /\ R \subseteq Runs
    BY DEF Holders, TypeOK, Stages
  <1>3. count = Cardinality(H) /\ count \in Nat
    <2>1. Cardinality(H) = Cardinality(Holders) - Cardinality(Holders \cap R)
      BY <1>2, RunsFinite, FS_Difference
    <2>2. Holders \cap R = R
      OBVIOUS
    <2>3. activeTaskCount = Cardinality(Holders)
      BY DEF QueueOK, SlotsExact
    <2>4. Cardinality(H) \in Nat
      BY <1>2, RunsFinite
    <2> QED
      BY <2>1, <2>2, <2>3, <2>4
  <1>4. H \cap P = {}
    <2>1. \A r \in H : rc[r] \in Holding \cup {"cancelled"}
      OBVIOUS
    <2> QED
      BY <2>1 DEF Holding
  <1>5. writing <=> \E r \in H : access'[r] = "write"
    <2>1. hasActiveWriteTask <=> \E r \in Holders : access[r] = "write"
      BY DEF QueueOK, SlotsExact
    <2>2. \A r, q \in Holders : access[r] = "write" => r = q
      BY DEF QueueOK, WriterHasAllSlots
    <2> QED
      BY <2>1, <2>2
  <1>6. \A r, q \in H : access'[r] = "write" => r = q
    BY DEF QueueOK, WriterHasAllSlots
  <1>7. writing \in BOOLEAN
    BY DEF TypeOK, Stages
  <1>8. S = Starts(access', P, Cardinality(H), writing)
    BY <1>3
  <1> HIDE DEF H, count, writing, S, T
  <1>9. /\ Cardinality(H \cup S) = Cardinality(H) + Cardinality(S)
        /\ (writing \/ \E r \in S : access'[r] = "write") <=> \E r \in H \cup S : access'[r] = "write"
        /\ \A r, q \in H \cup S : access'[r] = "write" => r = q
    <2>1. H \in SUBSET Runs /\ (writing <=> HasWriter(access', H)) /\ WriterIsAlone(access', H)
      BY <1>2, <1>5, <1>6 DEF HasWriter, WriterIsAlone
    <2>2. /\ Cardinality(H \cup S) = Cardinality(H) + Cardinality(S)
          /\ writing \/ HasWriter(access', S) <=> HasWriter(access', H \cup S)
          /\ WriterIsAlone(access', H \cup S)
      BY <2>1, <1>4, <1>7, <1>8, DrainLaws
    <2> QED
      BY <2>2 DEF HasWriter, WriterIsAlone
  <1>10. /\ S \subseteq P
         /\ \A r \in P \ S :
              \/ \E q \in P \ S : q < r
              \/ ~canStartTask(access', r, count + Cardinality(S),
                               writing \/ \E p \in S : access'[p] = "write")
    BY <1>3, <1>7, <1>8, StartsLaws
  <1>11. T \subseteq S
    BY DEF T
  <1>12. \A r \in Runs : /\ r \in T => rec'[r] = "cancelled"
                         /\ r \in S \ T => rec'[r] = "starting"
                         /\ r \notin S => rec'[r] = rc[r]
    BY <1>1, <1>11
  <1>13. Holders' = H \cup S
    <2>1. \A r \in Runs : rec'[r] \in Holding <=> r \in S \ T \/ (r \notin S /\ rc[r] \in Holding)
      BY <1>11, <1>12 DEF Holding
    <2>2. \A r \in S : rc[r] \notin Holding
      BY <1>10 DEF Holding
    <2>3. H = {r \in Runs : rc[r] \in Holding} \cup (leaving \ R)
      BY DEF H
    <2>4. S \subseteq Runs
      BY <1>10
    <2> QED
      BY <1>1, <1>11, <2>1, <2>2, <2>3, <2>4 DEF Holders
  <1>14. SlotsExact'
    <2>1. pendingTasks' = {r \in Runs : rec'[r] = "queued"}
      BY <1>1, <1>10, <1>11, <1>12
    <2>2. activeTaskCount' = Cardinality(Holders')
      BY <1>1, <1>3, <1>9, <1>13
    <2>3. hasActiveWriteTask' <=> \E r \in Holders' : access'[r] = "write"
      BY <1>1, <1>9, <1>13
    <2> QED
      BY <2>1, <2>2, <2>3 DEF SlotsExact
  <1>15. WriterHasAllSlots'
    BY <1>9, <1>13 DEF WriterHasAllSlots
  <1>16. HeadWaits'
    BY <1>1, <1>10 DEF HeadWaits
  <1>17. LeavingIsCancelled'
    <2>1. ASSUME NEW r \in leaving \ R
          PROVE  rec'[r] = "cancelled"
      <3>1. r \in Runs /\ r \notin S
        BY <1>10 DEF TypeOK, Stages
      <3> QED
        BY <3>1, <1>12
    <2> QED
      BY <1>1, <1>10, <1>11, <1>12, <2>1 DEF LeavingIsCancelled
  <1> QED
    BY <1>14, <1>15, <1>16, <1>17 DEF QueueOK

\* What a drain of the queue P does to a run: nothing, or it starts it, or it finds it cancelled.
\* A run that starts leaves none behind that came before it.
DrainedRun(r, P, rc, ch, ann) ==
    \/ /\ rec'[r] = rc[r] /\ child'[r] = ch[r] /\ announced'[r] = ann[r]
       /\ r \in P => r \in pendingTasks'
    \/ /\ r \in P /\ r \notin pendingTasks' /\ origin'[r] = "none"
       /\ rec'[r] = "starting" /\ child'[r] = "assembling" /\ announced'[r] = ann[r]
       /\ \A q \in P : q < r => q \notin pendingTasks'
    \/ /\ r \in P /\ r \notin pendingTasks' /\ origin'[r] # "none"
       /\ rec'[r] = "cancelled" /\ child'[r] = ch[r] /\ announced'[r] = ann[r] + 1

Drained(P, rc, ch, ann) ==
    /\ pendingTasks' \subseteq P /\ leaving' \subseteq leaving \cup P
    /\ activeTaskCount' \in Int /\ hasActiveWriteTask' \in BOOLEAN
    /\ rec' = [r \in Runs |-> rec'[r]]
    /\ child' = [r \in Runs |-> child'[r]]
    /\ announced' = [r \in Runs |-> announced'[r]]
    /\ \A r \in Runs : DrainedRun(r, P, rc, ch, ann)

\* A drain does that to every run.
LEMMA DrainRun ==
    ASSUME TypeOK, SlotsExact, NEW R \in SUBSET Holders, NEW P \in SUBSET Runs,
           NEW rc, NEW ch, NEW ann,
           drain(R, P, rc, ch, ann)
    PROVE  Drained(P, rc, ch, ann)
  <1> DEFINE count   == activeTaskCount - Cardinality(R)
             writing == hasActiveWriteTask /\ \A r \in R : access[r] # "write"
             S       == Starts(access', P, count, writing)
             T       == {r \in S : origin'[r] # "none"}
  <1>1. /\ pendingTasks' = P \ S
        /\ activeTaskCount' = count + Cardinality(S)
        /\ hasActiveWriteTask' = (writing \/ \E r \in S : access'[r] = "write")
        /\ rec' = [r \in Runs |-> IF r \in T THEN "cancelled"
                                  ELSE IF r \in S THEN "starting" ELSE rc[r]]
        /\ child' = [r \in Runs |-> IF r \in S \ T THEN "assembling" ELSE ch[r]]
        /\ announced' = [r \in Runs |-> IF r \in T THEN ann[r] + 1 ELSE ann[r]]
        /\ leaving' = (leaving \ R) \cup T
    BY DEF drain
  <1>2. count \in Nat /\ writing \in BOOLEAN
    <2>1. Holders \subseteq Runs /\ R \subseteq Runs
      BY DEF Holders, TypeOK, Stages
    <2>2. Cardinality(R) <= Cardinality(Holders)
      BY <2>1, RunsFinite, FS_Subset
    <2> QED
      BY <2>1, <2>2, RunsFinite DEF SlotsExact, TypeOK, Stages
  <1> HIDE DEF count, writing, S
  <1>3. S \subseteq P /\ \A r \in S : \A q \in P : q < r => q \in S
    BY <1>2, StartsLaws DEF S
  <1>4. Cardinality(S) \in Nat
    BY <1>3, RunsFinite
  <1>5. activeTaskCount' \in Int /\ hasActiveWriteTask' \in BOOLEAN
    BY <1>1, <1>2, <1>4
  <1>6. pendingTasks' \subseteq P /\ leaving' \subseteq leaving \cup P
    BY <1>1, <1>3
  <1>7. /\ rec' = [r \in Runs |-> rec'[r]]
        /\ child' = [r \in Runs |-> child'[r]]
        /\ announced' = [r \in Runs |-> announced'[r]]
    BY <1>1
  <1>8. ASSUME NEW r \in Runs
        PROVE  DrainedRun(r, P, rc, ch, ann)
    <2>1. CASE r \notin S
      BY <1>1, <2>1 DEF DrainedRun
    <2>2. CASE r \in S /\ origin'[r] = "none"
      BY <1>1, <1>3, <2>2 DEF DrainedRun
    <2>3. CASE r \in S /\ origin'[r] # "none"
      BY <1>1, <1>3, <2>3 DEF DrainedRun
    <2> QED
      BY <2>1, <2>2, <2>3
  <1> QED
    BY <1>5, <1>6, <1>7, <1>8 DEF Drained

\* An action that leaves the queue alone and makes no run wait, start or end its turn.
LEMMA QueueKept ==
    ASSUME TypeOK, QueueOK, UNCHANGED <<queueVars, leaving>>,
           \A r \in Runs : /\ rec'[r] \in Holding <=> rec[r] \in Holding
                           /\ rec'[r] = "queued" <=> rec[r] = "queued"
                           /\ rec[r] = "cancelled" => rec'[r] = "cancelled"
                           /\ rec[r] \in Holding \cup {"queued", "cancelled"} => access'[r] = access[r]
    PROVE  QueueOK'
  <1>1. leaving \subseteq Runs /\ \A r \in leaving : rec[r] = "cancelled"
    BY DEF TypeOK, Stages, QueueOK, LeavingIsCancelled
  <1>2. Holders' = Holders
    BY DEF Holders
  <1>3. \A r \in Holders \cup pendingTasks : access'[r] = access[r]
    BY <1>1 DEF Holders, QueueOK, SlotsExact
  <1>4. SlotsExact'
    BY <1>2, <1>3 DEF QueueOK, SlotsExact, queueVars
  <1>5. WriterHasAllSlots'
    BY <1>2, <1>3 DEF QueueOK, WriterHasAllSlots
  <1>6. HeadWaits'
    BY <1>3 DEF QueueOK, HeadWaits, canStartTask, queueVars
  <1>7. LeavingIsCancelled'
    BY <1>1 DEF LeavingIsCancelled
  <1> QED
    BY <1>4, <1>5, <1>6, <1>7 DEF QueueOK

\* A drain keeps the runs in order if they are in order with the records it is given.
LEMMA DrainKeepsRuns ==
    ASSUME TypeOK, SlotsExact, NEW R \in SUBSET Holders, NEW P \in SUBSET Runs,
           NEW rc, NEW ch, NEW ann,
           drain(R, P, rc, ch, ann),
           P = {r \in Runs : rc[r] = "queued"},
           \A r \in Runs : RunIs(rc[r], ch[r], origin'[r], entry'[r], ann[r], asmTimer'[r],
                                 r \in cancelling', grace'[r], isShuttingDown')
    PROVE  \A r \in Runs : RunOK(r)'
  <1> SUFFICES ASSUME NEW r \in Runs
               PROVE  RunOK(r)'
    OBVIOUS
  <1>1. RunIs(rc[r], ch[r], origin'[r], entry'[r], ann[r], asmTimer'[r],
              r \in cancelling', grace'[r], isShuttingDown')
    OBVIOUS
  <1>2. \/ rec'[r] = rc[r] /\ child'[r] = ch[r] /\ announced'[r] = ann[r]
        \/ /\ r \in P /\ origin'[r] = "none"
           /\ rec'[r] = "starting" /\ child'[r] = "assembling" /\ announced'[r] = ann[r]
        \/ /\ r \in P /\ origin'[r] # "none"
           /\ rec'[r] = "cancelled" /\ child'[r] = ch[r] /\ announced'[r] = ann[r] + 1
    <2>1. Drained(P, rc, ch, ann)
      BY DrainRun
    <2>2. DrainedRun(r, P, rc, ch, ann)
      BY <2>1 DEF Drained
    <2> QED
      BY <2>2 DEF DrainedRun
  <1>3. CASE rec'[r] = rc[r] /\ child'[r] = ch[r] /\ announced'[r] = ann[r]
    BY <1>1, <1>3 DEF RunOK
  <1>4. CASE /\ r \in P /\ origin'[r] = "none"
             /\ rec'[r] = "starting" /\ child'[r] = "assembling" /\ announced'[r] = ann[r]
    BY <1>1, <1>4
    DEF RunOK, RunIs, Stage, Cancelling, Interruption, Outcome, Signalled, Terminal, Holding, Limits
  <1>5. CASE /\ r \in P /\ origin'[r] # "none"
             /\ rec'[r] = "cancelled" /\ child'[r] = ch[r] /\ announced'[r] = ann[r] + 1
    BY <1>1, <1>5
    DEF RunOK, RunIs, Stage, Cancelling, Interruption, Outcome, Signalled, Terminal, Holding, Limits
  <1> QED
    BY <1>2, <1>3, <1>4, <1>5

\* A drain keeps the types.
LEMMA DrainTypes ==
    ASSUME TypeOK, SlotsExact, NEW R \in SUBSET Holders, NEW P \in SUBSET Runs,
           NEW rc \in [Runs -> Status],
           NEW ch \in [Runs -> Stages],
           NEW ann \in [Runs -> Nat],
           drain(R, P, rc, ch, ann)
    PROVE  /\ rec' \in [Runs -> Status]
           /\ child' \in [Runs -> Stages]
           /\ announced' \in [Runs -> Nat]
           /\ pendingTasks' \subseteq Runs /\ leaving' \subseteq Runs
           /\ activeTaskCount' \in Int /\ hasActiveWriteTask' \in BOOLEAN
  <1>1. ASSUME NEW r \in Runs
        PROVE  rec'[r] \in Status /\ child'[r] \in Stages /\ announced'[r] \in Nat
    <2>1. rc[r] \in Status /\ ch[r] \in Stages /\ ann[r] \in Nat
      OBVIOUS
    <2>2. \/ rec'[r] = rc[r] /\ child'[r] = ch[r] /\ announced'[r] = ann[r]
          \/ rec'[r] = "starting" /\ child'[r] = "assembling" /\ announced'[r] = ann[r]
          \/ rec'[r] = "cancelled" /\ child'[r] = ch[r] /\ announced'[r] = ann[r] + 1
      <3>1. Drained(P, rc, ch, ann)
        BY DrainRun
      <3>2. DrainedRun(r, P, rc, ch, ann)
        BY <3>1 DEF Drained
      <3> QED
        BY <3>2 DEF DrainedRun
    <2> QED
      BY <2>1, <2>2 DEF Status, Holding, Terminal, Stages
  <1>2. /\ rec' = [r \in Runs |-> rec'[r]]
        /\ child' = [r \in Runs |-> child'[r]]
        /\ announced' = [r \in Runs |-> announced'[r]]
    BY DrainRun DEF Drained
  <1>3. rec' \in [Runs -> Status] /\ child' \in [Runs -> Stages] /\ announced' \in [Runs -> Nat]
    BY <1>1, <1>2
  <1>4. /\ pendingTasks' \subseteq Runs /\ leaving' \subseteq Runs
        /\ activeTaskCount' \in Int /\ hasActiveWriteTask' \in BOOLEAN
    BY DrainRun DEF TypeOK, Stages, Drained
  <1> QED
    BY <1>3, <1>4

---------------------------------------------------------------------------
(* The actions keep the invariant. *)

\* At start no run exists and every slot is free.
LEMMA InitOK == Init => IInv
  <1> SUFFICES ASSUME Init PROVE IInv
    OBVIOUS
  <1>1. TypeOK
    <2>1. /\ rec \in [Runs -> {"none", "queued"} \cup Holding \cup Terminal]
          /\ access \in [Runs -> Access]
          /\ origin \in [Runs -> {"none", "shutdown"} \cup Origins \cup {"caller"} \cup Limits]
          /\ child \in [Runs -> Stages]
          /\ grace \in [Runs -> {"idle", "armed", "over"}]
          /\ entry \in [Runs -> {"none"} \cup Terminal]
      BY DEF Init, Access, Stages
    <2>2. failed \in [Runs -> BOOLEAN] /\ asmTimer \in [Runs -> BOOLEAN]
      BY DEF Init
    <2>3. announced \in [Runs -> Nat] /\ activeTaskCount \in Int
      BY DEF Init
    <2>4. /\ hasActiveWriteTask \in BOOLEAN /\ isShuttingDown \in BOOLEAN
          /\ pendingTasks \subseteq Runs /\ pass \subseteq Runs /\ leaving \subseteq Runs
          /\ cancelling \subseteq Runs
      BY DEF Init
    <2> QED
      BY <2>1, <2>2, <2>3, <2>4 DEF TypeOK, Stages
  <1>2. Holders = {} /\ Cardinality({}) = 0
    BY FS_EmptySet DEF Init, Holders, Holding
  <1>3. QueueOK
    BY <1>2 DEF Init, QueueOK, SlotsExact, WriterHasAllSlots, HeadWaits, LeavingIsCancelled
  <1>4. ASSUME NEW r \in Runs PROVE RunOK(r)
    BY
    DEF Init, RunOK, RunIs, Stage, Cancelling, Interruption, Outcome, Signalled, Terminal, Holding, Limits
  <1>5. PassIsShutdown
    BY DEF Init, PassIsShutdown
  <1> QED
    BY <1>1, <1>3, <1>4, <1>5 DEF IInv

\* What the invariant says of the records and the queue, for the uses of DrainQueue.
LEMMA QueueFacts ==
    ASSUME IInv
    PROVE  /\ TypeOK /\ QueueOK /\ SlotsExact
           /\ pendingTasks = {r \in Runs : rec[r] = "queued"}
           /\ Holders = {r \in Runs : rec[r] \in Holding} \cup leaving
           /\ \A r \in leaving : rec[r] = "cancelled" /\ r \in Runs
           /\ Holders \subseteq Runs
           /\ {} \in SUBSET Holders
  BY DEF IInv, QueueOK, SlotsExact, Holders, LeavingIsCancelled, TypeOK, Stages

\* The variables that a drain leaves alone.
OthersOK ==
    /\ access \in [Runs -> Access]
    /\ origin \in [Runs -> {"none", "shutdown"} \cup Origins \cup {"caller"} \cup Limits]
    /\ failed \in [Runs -> BOOLEAN]
    /\ asmTimer \in [Runs -> BOOLEAN]
    /\ grace \in [Runs -> {"idle", "armed", "over"}]
    /\ cancelling \subseteq Runs
    /\ entry \in [Runs -> {"none"} \cup Terminal]
    /\ isShuttingDown \in BOOLEAN
    /\ pass \subseteq Runs
    /\ PassIsShutdown

\* The records and the queue P that a drain is given name the same waiting runs, and the same
\* holders as before but for the ones (R) that give back their slots.
Matches(R, P, rc) ==
    /\ P = {r \in Runs : rc[r] = "queued"}
    /\ {r \in Runs : rc[r] \in Holding} \cup (leaving \ R) = Holders \ R
    /\ \A r \in leaving \ R : rc[r] = "cancelled"

\* An action that drains keeps the invariant if what it changes before the drain does.
LEMMA DrainKeeps ==
    ASSUME IInv,
           NEW R \in SUBSET Holders, NEW P \in SUBSET Runs, NEW rc \in [Runs -> Status],
           NEW ch \in [Runs -> Stages],
           NEW ann \in [Runs -> Nat],
           drain(R, P, rc, ch, ann), Matches(R, P, rc), OthersOK',
           \A r \in Holders : access'[r] = access[r],
           \A r \in Runs : RunIs(rc[r], ch[r], origin'[r], entry'[r], ann[r], asmTimer'[r],
                                 r \in cancelling', grace'[r], isShuttingDown')
    PROVE  IInv'
  <1>1. TypeOK /\ QueueOK /\ SlotsExact
    BY QueueFacts
  <1>2. QueueOK'
    BY <1>1, DrainQueue DEF Matches
  <1>3. P = {r \in Runs : rc[r] = "queued"}
    BY DEF Matches
  <1>4. \A r \in Runs : RunOK(r)'
    BY <1>1, <1>3, DrainKeepsRuns
  <1>5. /\ rec' \in [Runs -> Status]
        /\ child' \in [Runs -> Stages]
        /\ announced' \in [Runs -> Nat]
        /\ pendingTasks' \subseteq Runs /\ leaving' \subseteq Runs
        /\ activeTaskCount' \in Int /\ hasActiveWriteTask' \in BOOLEAN
    BY <1>1, DrainTypes
  <1>6. TypeOK'
    BY <1>5 DEF TypeOK, Stages, OthersOK, Status
  <1> QED
    BY <1>2, <1>4, <1>6 DEF IInv, OthersOK

\* start: a new run waits, and the drain may start it.
LEMMA StartKeeps ==
    ASSUME IInv, NEW r \in Runs, NEW a \in Access, start(r, a)
    PROVE  IInv'
  <1> DEFINE P  == pendingTasks \cup {r}
             rc == [rec EXCEPT ![r] = "queued"]
  <1>1. /\ rec[r] = "none" /\ ~isShuttingDown
        /\ access' = [access EXCEPT ![r] = a]
        /\ UNCHANGED <<origin, failed, asmTimer, grace, cancelling, entry, isShuttingDown, pass>>
        /\ drain({}, P, rc, child, announced)
    BY DEF start, admits
  <1>2. /\ TypeOK /\ {} \in SUBSET Holders
        /\ P \in SUBSET Runs
        /\ rc \in [Runs -> Status]
        /\ \A q \in Runs : rc[q] = IF q = r THEN "queued" ELSE rec[q]
    BY QueueFacts DEF TypeOK, Stages, Status
  <1>3. Matches({}, P, rc)
    <2>1. P = {q \in Runs : rc[q] = "queued"}
      BY <1>2, QueueFacts
    <2> QED
      BY <2>1, <1>1, <1>2, QueueFacts DEF Matches, Holding
  <1>4. \A q \in Holders : access'[q] = access[q]
    <2>1. r \notin Holders
      BY <1>1, QueueFacts DEF Holding
    <2> QED
      BY <2>1, <1>1, <1>2, QueueFacts DEF TypeOK, Stages
  <1>5. OthersOK'
    BY <1>1, <1>2 DEF TypeOK, Stages, OthersOK, IInv, PassIsShutdown
  <1>6. ASSUME NEW q \in Runs
        PROVE  RunIs(rc[q], child[q], origin'[q], entry'[q], announced[q], asmTimer'[q],
                     q \in cancelling', grace'[q], isShuttingDown')
    <2>1. RunIs(rec[q], child[q], origin[q], entry[q], announced[q], asmTimer[q],
                q \in cancelling, grace[q], isShuttingDown)
      BY DEF IInv, RunOK
    <2>2. RunIs(rc[q], child[q], origin[q], entry[q], announced[q], asmTimer[q],
                q \in cancelling, grace[q], isShuttingDown)
      BY <2>1, <1>1, <1>2
      DEF RunIs, Stage, Cancelling, Interruption, Outcome, Signalled, Terminal, Holding, Limits
    <2> QED
      BY <2>2, <1>1
  <1>7. child \in [Runs -> Stages] /\ announced \in [Runs -> Nat]
    BY <1>2 DEF TypeOK, Stages
  <1> HIDE DEF P, rc
  <1> QED
    BY <1>1, <1>2, <1>3, <1>4, <1>5, <1>6, <1>7, DrainKeeps

\* An action that leaves the queue alone keeps the invariant if it keeps the runs in order.
LEMMA OthersKeep ==
    ASSUME IInv, UNCHANGED <<queueVars, leaving>>, OthersOK',
           rec' \in [Runs -> Status],
           child' \in [Runs -> Stages],
           announced' \in [Runs -> Nat],
           \A r \in Runs : /\ rec'[r] \in Holding <=> rec[r] \in Holding
                           /\ rec'[r] = "queued" <=> rec[r] = "queued"
                           /\ rec[r] = "cancelled" => rec'[r] = "cancelled"
                           /\ rec[r] \in Holding \cup {"queued", "cancelled"} => access'[r] = access[r],
           \A r \in Runs : RunOK(r)'
    PROVE  IInv'
  <1>1. TypeOK /\ QueueOK
    BY DEF IInv
  <1>2. QueueOK'
    BY <1>1, QueueKept
  <1>3. TypeOK'
    BY <1>1 DEF TypeOK, Stages, OthersOK, Status, queueVars
  <1> QED
    BY <1>2, <1>3 DEF IInv, OthersOK

\* start with an aborted signal: the run is recorded as cancelled and holds no slot.
LEMMA StartAbortedKeeps ==
    ASSUME IInv, NEW r \in Runs, NEW a \in Access, startAborted(r, a)
    PROVE  IInv'
  <1>1. /\ rec[r] = "none" /\ ~isShuttingDown
        /\ access' = [access EXCEPT ![r] = a]
        /\ origin' = [origin EXCEPT ![r] = "caller"]
        /\ rec' = [rec EXCEPT ![r] = "cancelled"]
        /\ announced' = [announced EXCEPT ![r] = @ + 1]
        /\ UNCHANGED <<child, failed, asmTimer, grace, cancelling, entry, queueVars, stopVars>>
    BY DEF startAborted, admits
  <1>2. TypeOK
    BY DEF IInv
  <1>3. /\ rec' \in [Runs -> Status] /\ OthersOK'
        /\ child' \in [Runs -> Stages]
        /\ announced' \in [Runs -> Nat]
    BY <1>1, <1>2 DEF TypeOK, Stages, OthersOK, Status, Terminal, stopVars, IInv, PassIsShutdown
  <1>4. ASSUME NEW q \in Runs
        PROVE  RunOK(q)'
    <2>1. RunIs(rec[q], child[q], origin[q], entry[q], announced[q], asmTimer[q],
                q \in cancelling, grace[q], isShuttingDown)
      BY DEF IInv, RunOK
    <2>2. CASE q # r
      BY <1>1, <1>2, <2>1, <2>2 DEF RunOK, TypeOK, Stages, stopVars
    <2>3. CASE q = r
      <3>1. rec'[r] = "cancelled" /\ origin'[r] = "caller" /\ announced'[r] = announced[r] + 1
        BY <1>1, <1>2 DEF TypeOK, Stages
      <3> QED
        BY <3>1, <1>1, <2>1, <2>3
        DEF RunOK, stopVars, RunIs, Stage, Cancelling, Interruption, Outcome, Signalled, Terminal, Holding, Limits
    <2> QED
      BY <2>2, <2>3
  <1>5. ASSUME NEW q \in Runs
        PROVE  /\ rec'[q] \in Holding <=> rec[q] \in Holding
               /\ rec'[q] = "queued" <=> rec[q] = "queued"
               /\ rec[q] = "cancelled" => rec'[q] = "cancelled"
               /\ rec[q] \in Holding \cup {"queued", "cancelled"} => access'[q] = access[q]
    BY <1>1, <1>2 DEF TypeOK, Stages, Holding
  <1>6. UNCHANGED <<queueVars, leaving>>
    BY <1>1 DEF stopVars
  <1> QED
    BY <1>3, <1>4, <1>5, <1>6, OthersKeep

\* A request interrupts the runs of R that nobody interrupted before, and leaves every run in
\* order as long as it names a reason the run can have.
LEMMA RequestKeepsRuns ==
    ASSUME IInv, NEW R \in SUBSET Runs, NEW o \in {"shutdown"} \cup Origins \cup Limits,
           request(R, o),
           \A r \in R : origin[r] = "none" => /\ rec[r] \in {"queued"} \cup Holding
                                              /\ rec[r] = "queued" => o \notin Limits
    PROVE  /\ origin' \in [Runs -> {"none", "shutdown"} \cup Origins \cup {"caller"} \cup Limits]
           /\ asmTimer' \in [Runs -> BOOLEAN]
           /\ grace' \in [Runs -> {"idle", "armed", "over"}]
           /\ \A r \in R : origin'[r] # "none" /\ (rec[r] = "queued" => origin'[r] \notin Limits)
           /\ \A r \in Runs : RunIs(rec[r], child[r], origin'[r], entry[r], announced[r],
                                    asmTimer'[r], r \in cancelling, grace'[r], isShuttingDown)
  <1> DEFINE first == {r \in R : origin[r] = "none"}
  <1>1. /\ origin' = [r \in Runs |-> IF r \in first THEN o ELSE origin[r]]
        /\ asmTimer' = [r \in Runs |-> asmTimer[r] \/ (r \in first /\ rec[r] = "starting")]
        /\ grace' = [r \in Runs |->
                       IF r \in first /\ child[r] \in {"prompting", "persisting"} /\ grace[r] = "idle"
                       THEN "armed" ELSE grace[r]]
    BY DEF request
  <1>2. TypeOK
    BY DEF IInv
  <1>3. o # "none" /\ o \in {"none", "shutdown"} \cup Origins \cup {"caller"} \cup Limits
    BY OriginsAssumption DEF Limits
  <1>4. origin' \in [Runs -> {"none", "shutdown"} \cup Origins \cup {"caller"} \cup Limits]
    BY <1>1, <1>2, <1>3 DEF TypeOK, Stages
  <1>5. asmTimer' \in [Runs -> BOOLEAN]
    BY <1>1, <1>2 DEF TypeOK, Stages
  <1>6. grace' \in [Runs -> {"idle", "armed", "over"}]
    BY <1>1, <1>2 DEF TypeOK, Stages
  <1>7. ASSUME NEW r \in Runs
        PROVE  /\ RunIs(rec[r], child[r], origin'[r], entry[r], announced[r], asmTimer'[r],
                        r \in cancelling, grace'[r], isShuttingDown)
               /\ r \in R => origin'[r] # "none" /\ (rec[r] = "queued" => origin'[r] \notin Limits)
    <2>1. RunIs(rec[r], child[r], origin[r], entry[r], announced[r], asmTimer[r],
                r \in cancelling, grace[r], isShuttingDown)
      BY DEF IInv, RunOK
    <2>2. CASE r \in first
      <3>1. /\ origin[r] = "none" /\ origin'[r] = o
            /\ asmTimer'[r] = (asmTimer[r] \/ rec[r] = "starting")
            /\ grace'[r] = "armed" => child[r] \in {"prompting", "persisting"} \/ grace[r] = "armed"
        BY <1>1, <2>2
      <3>2. rec[r] \in {"queued"} \cup Holding /\ (rec[r] = "queued" => o \notin Limits)
        BY <2>2
      <3> QED
        BY <3>1, <3>2, <2>1, <1>3
        DEF RunIs, Stage, Cancelling, Interruption, Outcome, Signalled, Terminal, Holding, Limits
    <2>3. CASE r \notin first
      <3>1. /\ origin'[r] = origin[r] /\ asmTimer'[r] = asmTimer[r] /\ grace'[r] = grace[r]
            /\ r \in R => origin[r] # "none"
        BY <1>1, <1>2, <2>3 DEF TypeOK, Stages
      <3> QED
        BY <3>1, <2>1 DEF RunIs, Interruption
    <2> QED
      BY <2>2, <2>3
  <1> QED
    BY <1>4, <1>5, <1>6, <1>7

\* cancelTask of a run that was interrupted, after a step that kept the runs in order.
LEMMA CancelKeeps ==
    ASSUME IInv, NEW r, cancelTask(r), OthersOK', access' = access,
           r \in pendingTasks => origin'[r] \notin Limits \cup {"none"},
           \A q \in Runs : RunIs(rec[q], child[q], origin'[q], entry'[q], announced[q],
                                 asmTimer'[q], q \in cancelling', grace'[q], isShuttingDown')
    PROVE  IInv'
  <1>1. TypeOK /\ {} \in SUBSET Holders
    BY QueueFacts
  <1>2. CASE r \in pendingTasks
    <2> DEFINE P   == pendingTasks \ {r}
               rc  == [rec EXCEPT ![r] = "cancelled"]
               ann == [announced EXCEPT ![r] = @ + 1]
    <2>1. drain({}, P, rc, child, ann)
      BY <1>2 DEF cancelTask
    <2>2. /\ r \in Runs /\ rec[r] = "queued"
          /\ P \in SUBSET Runs /\ rc \in [Runs -> Status] /\ ann \in [Runs -> Nat]
          /\ child \in [Runs -> Stages]
          /\ \A q \in Runs : rc[q] = IF q = r THEN "cancelled" ELSE rec[q]
          /\ \A q \in Runs : ann[q] = IF q = r THEN announced[q] + 1 ELSE announced[q]
      BY <1>1, <1>2, QueueFacts DEF TypeOK, Stages, Status, Terminal
    <2>3. Matches({}, P, rc)
      <3>1. P = {q \in Runs : rc[q] = "queued"}
        BY <2>2, QueueFacts
      <3> QED
        BY <3>1, <2>2, QueueFacts DEF Matches, Holding
    <2>4. ASSUME NEW q \in Runs
          PROVE  RunIs(rc[q], child[q], origin'[q], entry'[q], ann[q], asmTimer'[q],
                       q \in cancelling', grace'[q], isShuttingDown')
      <3>1. RunIs(rec[q], child[q], origin'[q], entry'[q], announced[q], asmTimer'[q],
                  q \in cancelling', grace'[q], isShuttingDown')
        OBVIOUS
      <3>2. CASE q = r
        BY <3>1, <3>2, <2>2, <1>2
        DEF RunIs, Stage, Cancelling, Interruption, Outcome, Signalled, Terminal, Holding, Limits
      <3>3. CASE q # r
        BY <3>1, <3>3, <2>2
      <3> QED
        BY <3>2, <3>3
    <2>5. \A q \in Holders : access'[q] = access[q]
      OBVIOUS
    <2> HIDE DEF P, rc, ann
    <2> QED
      BY <1>1, <2>1, <2>2, <2>3, <2>4, <2>5, DrainKeeps
  <1>3. CASE r \notin pendingTasks
    <2>1. UNCHANGED <<rec, child, announced, queueVars, leaving>>
      BY <1>3 DEF cancelTask
    <2>2. /\ rec' \in [Runs -> Status] /\ announced' \in [Runs -> Nat]
          /\ child' \in [Runs -> Stages]
      BY <1>1, <2>1 DEF TypeOK, Stages, Status
    <2>3. \A q \in Runs : RunOK(q)'
      BY <2>1 DEF RunOK
    <2>4. UNCHANGED <<queueVars, leaving>> /\ UNCHANGED rec
      BY <2>1
    <2> QED
      BY <2>2, <2>3, <2>4, OthersKeep
  <1> QED
    BY <1>2, <1>3

\* stop: the run is interrupted, and leaves the queue if it waits.
LEMMA StopKeeps ==
    ASSUME IInv, NEW r \in Runs, NEW o \in Origins, stop(r, o)
    PROVE  IInv'
  <1>1. /\ r \in Live /\ request({r}, o) /\ cancelTask(r)
        /\ UNCHANGED <<access, failed, cancelling, entry, isShuttingDown, pass>>
    BY DEF stop
  <1>2. TypeOK /\ pendingTasks = {q \in Runs : rec[q] = "queued"}
    BY QueueFacts
  <1>3. o \notin Limits /\ {r} \in SUBSET Runs /\ o \in {"shutdown"} \cup Origins \cup Limits
    BY OriginsAssumption DEF Limits
  <1>4. rec[r] \in {"queued"} \cup Holding
    BY <1>1 DEF Live
  <1>5. /\ origin' \in [Runs -> {"none", "shutdown"} \cup Origins \cup {"caller"} \cup Limits]
        /\ asmTimer' \in [Runs -> BOOLEAN]
        /\ grace' \in [Runs -> {"idle", "armed", "over"}]
        /\ \A q \in {r} : origin'[q] # "none" /\ (rec[q] = "queued" => origin'[q] \notin Limits)
        /\ \A q \in Runs : RunIs(rec[q], child[q], origin'[q], entry[q], announced[q],
                                 asmTimer'[q], q \in cancelling, grace'[q], isShuttingDown)
    BY <1>1, <1>3, <1>4, RequestKeepsRuns
  <1>6. OthersOK'
    BY <1>1, <1>2, <1>5 DEF TypeOK, Stages, OthersOK, IInv, PassIsShutdown
  <1>7. r \in pendingTasks => origin'[r] \notin Limits \cup {"none"}
    BY <1>2, <1>5
  <1>8. \A q \in Runs : RunIs(rec[q], child[q], origin'[q], entry'[q], announced[q],
                              asmTimer'[q], q \in cancelling', grace'[q], isShuttingDown')
    BY <1>1, <1>5
  <1> QED
    BY <1>1, <1>6, <1>7, <1>8, CancelKeeps

\* shutdown signals every live run.
LEMMA ShutdownKeeps ==
    ASSUME IInv, shutdown
    PROVE  IInv'
  <1>1. /\ isShuttingDown' = TRUE /\ request(Live, "shutdown") /\ pass' = Live
        /\ UNCHANGED <<rec, access, child, failed, cancelling, entry, announced, queueVars, leaving>>
    BY DEF shutdown, shutdownSignals
  <1>2. TypeOK
    BY DEF IInv
  <1>3. Live \in SUBSET Runs /\ "shutdown" \notin Limits
        /\ \A r \in Live : rec[r] \in {"queued"} \cup Holding
    BY DEF Live, Limits
  <1>4. /\ origin' \in [Runs -> {"none", "shutdown"} \cup Origins \cup {"caller"} \cup Limits]
        /\ asmTimer' \in [Runs -> BOOLEAN]
        /\ grace' \in [Runs -> {"idle", "armed", "over"}]
        /\ \A q \in Live : origin'[q] # "none" /\ (rec[q] = "queued" => origin'[q] \notin Limits)
        /\ \A q \in Runs : RunIs(rec[q], child[q], origin'[q], entry[q], announced[q],
                                 asmTimer'[q], q \in cancelling, grace'[q], isShuttingDown)
    BY <1>1, <1>3, RequestKeepsRuns
  <1>5. OthersOK'
    <2>1. isShuttingDown' \in BOOLEAN /\ PassIsShutdown'
      BY <1>1 DEF PassIsShutdown
    <2> QED
      BY <1>1, <1>2, <1>3, <1>4, <2>1 DEF TypeOK, Stages, OthersOK
  <1>6. ASSUME NEW q \in Runs
        PROVE  RunOK(q)'
    <2>1. RunIs(rec[q], child[q], origin'[q], entry[q], announced[q], asmTimer'[q],
                q \in cancelling, grace'[q], isShuttingDown)
      BY <1>4
    <2>2. rec[q] \in {"queued"} \cup Holding => origin'[q] # "none"
      BY <1>4 DEF Live
    <2>3. RunIs(rec[q], child[q], origin'[q], entry[q], announced[q], asmTimer'[q],
                q \in cancelling, grace'[q], isShuttingDown')
      BY <2>1, <2>2 DEF RunIs, Signalled
    <2> QED
      BY <2>3, <1>1 DEF RunOK
  <1>7. /\ rec' \in [Runs -> Status] /\ announced' \in [Runs -> Nat]
        /\ child' \in [Runs -> Stages]
    BY <1>1, <1>2 DEF TypeOK, Stages, Status
  <1>8. UNCHANGED <<queueVars, leaving>> /\ UNCHANGED rec /\ UNCHANGED access
    BY <1>1
  <1> QED
    BY <1>5, <1>6, <1>7, <1>8, OthersKeep

\* One run of the second loop of shutdown.
LEMMA ShutdownCancelsKeeps ==
    ASSUME IInv, shutdownCancels
    PROVE  IInv'
  <1>1. PICK r : pass' = pass \ {r} /\ cancelTask(r)
    BY DEF shutdownCancels
  <1>2. /\ UNCHANGED <<access, origin, failed, asmTimer, grace, cancelling, entry, isShuttingDown>>
        /\ isShuttingDown
    BY DEF shutdownCancels, IInv, PassIsShutdown
  <1>3. TypeOK /\ pendingTasks = {q \in Runs : rec[q] = "queued"}
    BY QueueFacts
  <1>4. OthersOK'
    BY <1>1, <1>2, <1>3 DEF TypeOK, Stages, OthersOK, PassIsShutdown
  <1>5. \A q \in Runs : RunIs(rec[q], child[q], origin[q], entry[q], announced[q], asmTimer[q],
                              q \in cancelling, grace[q], isShuttingDown)
    BY DEF IInv, RunOK
  <1>6. r \in pendingTasks => origin'[r] \notin Limits \cup {"none"}
    BY <1>2, <1>3, <1>5 DEF RunIs, Interruption, Signalled
  <1>7. \A q \in Runs : RunIs(rec[q], child[q], origin'[q], entry'[q], announced[q],
                              asmTimer'[q], q \in cancelling', grace'[q], isShuttingDown')
    BY <1>2, <1>5
  <1>8. access' = access
    BY <1>2
  <1> QED
    BY <1>1, <1>4, <1>6, <1>7, <1>8, CancelKeeps

\* The tasks that threw in that loop give back their slots.
LEMMA ShutdownLeavesKeeps ==
    ASSUME IInv, shutdownLeaves
    PROVE  IInv'
  <1>1. /\ UNCHANGED <<access, origin, failed, asmTimer, grace, cancelling, entry, isShuttingDown, pass>>
        /\ drain(leaving, pendingTasks, rec, child, announced)
    BY DEF shutdownLeaves
  <1>2. TypeOK
    BY DEF IInv
  <1>3. /\ leaving \in SUBSET Holders /\ pendingTasks \in SUBSET Runs
        /\ rec \in [Runs -> Status] /\ announced \in [Runs -> Nat]
        /\ child \in [Runs -> Stages]
    BY <1>2 DEF TypeOK, Stages, Status, Holders
  <1>4. Matches(leaving, pendingTasks, rec)
    <2>1. \A r \in leaving : rec[r] \notin Holding
      BY QueueFacts DEF Holding
    <2>2. pendingTasks = {r \in Runs : rec[r] = "queued"}
      BY QueueFacts
    <2>3. {r \in Runs : rec[r] \in Holding} = Holders \ leaving
      BY <2>1 DEF Holders
    <2> QED
      BY <2>2, <2>3 DEF Matches
  <1>5. OthersOK'
    BY <1>1, <1>2 DEF TypeOK, Stages, OthersOK, IInv, PassIsShutdown
  <1>6. \A q \in Runs : RunIs(rec[q], child[q], origin'[q], entry'[q], announced[q],
                              asmTimer'[q], q \in cancelling', grace'[q], isShuttingDown')
    BY <1>1 DEF IInv, RunOK
  <1>7. \A q \in Holders : access'[q] = access[q]
    BY <1>1
  <1> QED
    BY <1>1, <1>3, <1>4, <1>5, <1>6, <1>7, DrainKeeps

\* The end of a task, after a step that kept the runs in order but for its own.
LEMMA SettleKeeps ==
    ASSUME IInv, leaving = {}, NEW r \in Runs, NEW st \in Terminal,
           NEW ch \in [Runs -> Stages],
           settle(r, st, ch), OthersOK', access' = access,
           \A q \in Runs \ {r} :
               RunIs(rec[q], ch[q], origin'[q], entry'[q], announced[q], asmTimer'[q],
                     q \in cancelling', grace'[q], isShuttingDown'),
           IF rec[r] \in Holding
           THEN RunIs(st, ch[r], origin'[r], entry'[r], announced[r] + 1, asmTimer'[r],
                      r \in cancelling', grace'[r], isShuttingDown')
           ELSE RunIs(rec[r], ch[r], origin'[r], entry'[r], announced[r], asmTimer'[r],
                      r \in cancelling', grace'[r], isShuttingDown')
    PROVE  IInv'
  <1>1. TypeOK
    BY DEF IInv
  <1>2. CASE rec[r] \in Holding
    <2> DEFINE rc  == [rec EXCEPT ![r] = st]
               ann == [announced EXCEPT ![r] = @ + 1]
    <2>1. drain({r}, pendingTasks, rc, ch, ann)
      BY <1>2 DEF settle
    <2>2. /\ {r} \in SUBSET Holders /\ pendingTasks \in SUBSET Runs
          /\ rc \in [Runs -> Status] /\ ann \in [Runs -> Nat]
          /\ \A q \in Runs : rc[q] = IF q = r THEN st ELSE rec[q]
          /\ \A q \in Runs : ann[q] = IF q = r THEN announced[q] + 1 ELSE announced[q]
      BY <1>1, <1>2 DEF TypeOK, Stages, Status, Holders
    <2>3. Matches({r}, pendingTasks, rc)
      <3>1. st \notin Holding /\ st # "queued" /\ rec[r] # "queued"
        BY <1>2 DEF Terminal, Holding
      <3>2. pendingTasks = {q \in Runs : rc[q] = "queued"}
        BY <2>2, <3>1, QueueFacts
      <3>3. Holders = {q \in Runs : rec[q] \in Holding}
        BY DEF Holders
      <3>4. {q \in Runs : rc[q] \in Holding} = Holders \ {r}
        BY <2>2, <3>1, <3>3
      <3> QED
        BY <3>2, <3>4 DEF Matches
    <2>4. ASSUME NEW q \in Runs
          PROVE  RunIs(rc[q], ch[q], origin'[q], entry'[q], ann[q], asmTimer'[q],
                       q \in cancelling', grace'[q], isShuttingDown')
      BY <1>2, <2>2
    <2>5. \A q \in Holders : access'[q] = access[q]
      OBVIOUS
    <2> HIDE DEF rc, ann
    <2> QED
      BY <2>1, <2>2, <2>3, <2>4, <2>5, DrainKeeps
  <1>3. CASE rec[r] \notin Holding
    <2>1. child' = ch /\ UNCHANGED <<rec, announced, queueVars, leaving>>
      BY <1>3 DEF settle
    <2>2. rec' \in [Runs -> Status] /\ announced' \in [Runs -> Nat]
      BY <1>1, <2>1 DEF TypeOK, Stages, Status
    <2>3. \A q \in Runs : RunOK(q)'
      BY <1>3, <2>1 DEF RunOK
    <2>4. UNCHANGED <<queueVars, leaving>> /\ UNCHANGED rec
      BY <2>1
    <2> QED
      BY <2>1, <2>2, <2>3, <2>4, OthersKeep
  <1> QED
    BY <1>2, <1>3

\* The result of a run follows from its origin and its error.
LEMMA ResultIs ==
    ASSUME NEW r \in Runs
    PROVE  /\ Result(r) \in Terminal
           /\ origin[r] \in Limits => Result(r) = "failed"
           /\ origin[r] \notin Limits \cup {"none"} => Result(r) = "cancelled"
           /\ origin[r] = "none" => Result(r) \in {"failed", "completed"}
  BY DEF Result, Terminal, Limits

\* A session was assembled, perhaps after the manager gave its run up.
LEMMA AssembledKeeps ==
    ASSUME IInv, NEW r \in Runs, assembled(r)
    PROVE  IInv'
  <1>1. /\ child[r] = "assembling"
        /\ child' = [child EXCEPT ![r] = IF origin[r] = "none" THEN "prompting" ELSE "persisting"]
        /\ grace' = [grace EXCEPT ![r] = IF origin[r] = "none" THEN "idle" ELSE "armed"]
        /\ rec' = [rec EXCEPT ![r] = IF @ = "starting" THEN "running" ELSE @]
        /\ cancelling' = IF origin[r] # "none" /\ rec[r] = "starting"
                         THEN cancelling \cup {r} ELSE cancelling
        /\ asmTimer' = [asmTimer EXCEPT ![r] = FALSE]
        /\ UNCHANGED <<access, origin, failed, entry, announced, queueVars, stopVars>>
    BY DEF assembled
  <1>2. TypeOK
    BY DEF IInv
  <1>3. /\ rec' \in [Runs -> Status] /\ announced' \in [Runs -> Nat]
        /\ child' \in [Runs -> Stages]
    BY <1>1, <1>2 DEF TypeOK, Stages, Status, Holding
  <1>4. OthersOK'
    BY <1>1, <1>2 DEF TypeOK, Stages, OthersOK, stopVars, IInv, PassIsShutdown
  <1>5. ASSUME NEW q \in Runs
        PROVE  RunOK(q)'
    <2>1. RunIs(rec[q], child[q], origin[q], entry[q], announced[q], asmTimer[q],
                q \in cancelling, grace[q], isShuttingDown)
      BY DEF IInv, RunOK
    <2>2. CASE q # r
      BY <1>1, <1>2, <2>1, <2>2 DEF RunOK, TypeOK, Stages, stopVars
    <2>3. CASE q = r
      <3>1. /\ rec'[r] = IF rec[r] = "starting" THEN "running" ELSE rec[r]
            /\ child'[r] = IF origin[r] = "none" THEN "prompting" ELSE "persisting"
            /\ asmTimer'[r] = FALSE
            /\ grace'[r] = IF origin[r] = "none" THEN "idle" ELSE "armed"
            /\ r \in cancelling' <=> r \in cancelling \/ (origin[r] # "none" /\ rec[r] = "starting")
        BY <1>1, <1>2 DEF TypeOK, Stages
      <3> QED
        BY <3>1, <1>1, <2>1, <2>3
        DEF RunOK, stopVars, RunIs, Stage, Cancelling, Interruption, Outcome, Signalled, Terminal, Holding, Limits
    <2> QED
      BY <2>2, <2>3
  <1>6. ASSUME NEW q \in Runs
        PROVE  /\ rec'[q] \in Holding <=> rec[q] \in Holding
               /\ rec'[q] = "queued" <=> rec[q] = "queued"
               /\ rec[q] = "cancelled" => rec'[q] = "cancelled"
               /\ rec[q] \in Holding \cup {"queued", "cancelled"} => access'[q] = access[q]
    BY <1>1, <1>2 DEF TypeOK, Stages, Holding
  <1>7. UNCHANGED <<queueVars, leaving>>
    BY <1>1 DEF stopVars
  <1> QED
    BY <1>3, <1>4, <1>5, <1>6, <1>7, OthersKeep

\* A session could not be assembled.
LEMMA AssemblyFailedKeeps ==
    ASSUME IInv, NEW r \in Runs, assemblyFailed(r)
    PROVE  IInv'
  <1> DEFINE st == IF origin[r] = "none" THEN "failed" ELSE Result(r)
             ch == [child EXCEPT ![r] = "ended"]
  <1>1. /\ leaving = {} /\ child[r] = "assembling"
        /\ asmTimer' = [asmTimer EXCEPT ![r] = FALSE]
        /\ UNCHANGED <<access, origin, failed, grace, cancelling, entry, isShuttingDown, pass>>
        /\ settle(r, st, ch)
    BY DEF assemblyFailed, Idle
  <1>2. TypeOK
    BY DEF IInv
  <1>3. st \in Terminal /\ ch \in [Runs -> Stages]
    BY <1>2, ResultIs DEF TypeOK, Stages, Terminal
  <1>4. OthersOK'
    BY <1>1, <1>2 DEF TypeOK, Stages, OthersOK, IInv, PassIsShutdown
  <1>5. \A q \in Runs : RunIs(rec[q], child[q], origin[q], entry[q], announced[q], asmTimer[q],
                              q \in cancelling, grace[q], isShuttingDown)
    BY DEF IInv, RunOK
  <1>6. \A q \in Runs \ {r} :
            RunIs(rec[q], ch[q], origin'[q], entry'[q], announced[q], asmTimer'[q],
                  q \in cancelling', grace'[q], isShuttingDown')
    BY <1>1, <1>2, <1>5 DEF TypeOK, Stages
  <1>7. asmTimer'[r] = FALSE /\ ch[r] = "ended" /\ announced[r] \in Nat
    BY <1>1, <1>2 DEF TypeOK, Stages
  <1>8. IF rec[r] \in Holding
        THEN RunIs(st, ch[r], origin'[r], entry'[r], announced[r] + 1, asmTimer'[r],
                   r \in cancelling', grace'[r], isShuttingDown')
        ELSE RunIs(rec[r], ch[r], origin'[r], entry'[r], announced[r], asmTimer'[r],
                   r \in cancelling', grace'[r], isShuttingDown')
    BY <1>1, <1>5, <1>7, ResultIs
    DEF RunIs, Stage, Cancelling, Interruption, Outcome, Signalled, Terminal, Holding, Limits
  <1>9. access' = access
    BY <1>1
  <1> HIDE DEF st, ch
  <1> QED
    BY <1>1, <1>3, <1>4, <1>6, <1>8, <1>9, SettleKeeps

\* The manager stops waiting for an assembly.
LEMMA AssemblyTimeoutKeeps ==
    ASSUME IInv, NEW r \in Runs, assemblyTimeout(r)
    PROVE  IInv'
  <1>1. /\ leaving = {} /\ asmTimer[r]
        /\ asmTimer' = [asmTimer EXCEPT ![r] = FALSE]
        /\ UNCHANGED <<access, origin, failed, grace, cancelling, entry, isShuttingDown, pass>>
        /\ settle(r, Result(r), child)
    BY DEF assemblyTimeout, Idle
  <1>2. TypeOK /\ Result(r) \in Terminal
    BY ResultIs DEF IInv
  <1>3. child \in [Runs -> Stages]
    BY <1>2 DEF TypeOK, Stages
  <1>4. OthersOK'
    BY <1>1, <1>2 DEF TypeOK, Stages, OthersOK, IInv, PassIsShutdown
  <1>5. \A q \in Runs : RunIs(rec[q], child[q], origin[q], entry[q], announced[q], asmTimer[q],
                              q \in cancelling, grace[q], isShuttingDown)
    BY DEF IInv, RunOK
  <1>6. \A q \in Runs \ {r} :
            RunIs(rec[q], child[q], origin'[q], entry'[q], announced[q], asmTimer'[q],
                  q \in cancelling', grace'[q], isShuttingDown')
    BY <1>1, <1>2, <1>5 DEF TypeOK, Stages
  <1>7. asmTimer'[r] = FALSE /\ announced[r] \in Nat
    BY <1>1, <1>2 DEF TypeOK, Stages
  <1>8. IF rec[r] \in Holding
        THEN RunIs(Result(r), child[r], origin'[r], entry'[r], announced[r] + 1, asmTimer'[r],
                   r \in cancelling', grace'[r], isShuttingDown')
        ELSE RunIs(rec[r], child[r], origin'[r], entry'[r], announced[r], asmTimer'[r],
                   r \in cancelling', grace'[r], isShuttingDown')
    BY <1>1, <1>5, <1>7, ResultIs
    DEF RunIs, Stage, Cancelling, Interruption, Outcome, Signalled, Terminal, Holding, Limits
  <1>9. access' = access
    BY <1>1
  <1> QED
    BY <1>1, <1>2, <1>3, <1>4, <1>6, <1>8, <1>9, SettleKeeps

\* The runner has persisted its session: it hands over its result, unless the task still awaits
\* cancelRun.
LEMMA PersistedKeeps ==
    ASSUME IInv, NEW r \in Runs, persisted(r)
    PROVE  IInv'
  <1> DEFINE ch == [child EXCEPT ![r] = "ended"]
  <1>1. /\ leaving = {} /\ child[r] = "persisting"
        /\ entry' = [entry EXCEPT ![r] = Result(r)]
        /\ grace' = [grace EXCEPT ![r] = "over"]
        /\ UNCHANGED <<access, origin, failed, asmTimer, cancelling, isShuttingDown, pass>>
        /\ r \notin cancelling => settle(r, Result(r), ch)
        /\ r \in cancelling => child' = ch /\ UNCHANGED <<rec, announced, queueVars, leaving>>
    BY DEF persisted, Idle
  <1>2. TypeOK /\ Result(r) \in Terminal
    BY ResultIs DEF IInv
  <1>3. ch \in [Runs -> Stages]
    BY <1>2 DEF TypeOK, Stages
  <1>4. OthersOK'
    BY <1>1, <1>2 DEF TypeOK, Stages, OthersOK, IInv, PassIsShutdown
  <1>5. \A q \in Runs : RunIs(rec[q], child[q], origin[q], entry[q], announced[q], asmTimer[q],
                              q \in cancelling, grace[q], isShuttingDown)
    BY DEF IInv, RunOK
  <1>6. \A q \in Runs \ {r} :
            RunIs(rec[q], ch[q], origin'[q], entry'[q], announced[q], asmTimer'[q],
                  q \in cancelling', grace'[q], isShuttingDown')
    BY <1>1, <1>2, <1>5 DEF TypeOK, Stages
  <1>7. entry'[r] = Result(r) /\ ch[r] = "ended" /\ announced[r] \in Nat /\ grace'[r] = "over"
    BY <1>1, <1>2 DEF TypeOK, Stages
  <1>8. access' = access
    BY <1>1
  <1> HIDE DEF ch
  <1>9. CASE r \notin cancelling
    <2>1. IF rec[r] \in Holding
          THEN RunIs(Result(r), ch[r], origin'[r], entry'[r], announced[r] + 1, asmTimer'[r],
                     r \in cancelling', grace'[r], isShuttingDown')
          ELSE RunIs(rec[r], ch[r], origin'[r], entry'[r], announced[r], asmTimer'[r],
                     r \in cancelling', grace'[r], isShuttingDown')
      BY <1>1, <1>5, <1>7, <1>9, ResultIs
      DEF RunIs, Stage, Cancelling, Interruption, Outcome, Signalled, Terminal, Holding, Limits
    <2> QED
      BY <1>1, <1>2, <1>3, <1>4, <1>6, <1>8, <1>9, <2>1, SettleKeeps
  <1>10. CASE r \in cancelling
    <2>1. RunIs(rec[r], ch[r], origin'[r], entry'[r], announced[r], asmTimer'[r],
                r \in cancelling', grace'[r], isShuttingDown')
      BY <1>1, <1>5, <1>7, <1>10, ResultIs
      DEF RunIs, Stage, Cancelling, Interruption, Outcome, Signalled, Terminal, Holding, Limits
    <2>2. \A q \in Runs : RunOK(q)'
      BY <1>1, <1>6, <1>10, <2>1 DEF RunOK
    <2>3. /\ rec' \in [Runs -> Status] /\ announced' \in [Runs -> Nat]
          /\ child' \in [Runs -> Stages]
      BY <1>1, <1>2, <1>3, <1>10 DEF TypeOK, Stages, Status
    <2>4. UNCHANGED <<queueVars, leaving>> /\ UNCHANGED rec
      BY <1>1, <1>10
    <2> QED
      BY <1>4, <1>8, <2>2, <2>3, <2>4, OthersKeep
  <1> QED
    BY <1>9, <1>10

\* abort() settled: the task goes on to the completion, and ends if there is one.
LEMMA AbortSettlesKeeps ==
    ASSUME IInv, NEW r \in Runs, abortSettles(r)
    PROVE  IInv'
  <1>1. /\ leaving = {} /\ r \in cancelling
        /\ cancelling' = cancelling \ {r}
        /\ UNCHANGED <<access, origin, failed, asmTimer, grace, entry, isShuttingDown, pass>>
        /\ child[r] = "ended" => settle(r, Result(r), child)
        /\ child[r] # "ended" => UNCHANGED <<rec, child, announced, queueVars, leaving>>
    BY DEF abortSettles, Idle
  <1>2. TypeOK /\ Result(r) \in Terminal
    BY ResultIs DEF IInv
  <1>3. child \in [Runs -> Stages] /\ announced[r] \in Nat
    BY <1>2 DEF TypeOK, Stages
  <1>4. OthersOK'
    BY <1>1, <1>2 DEF TypeOK, Stages, OthersOK, IInv, PassIsShutdown
  <1>5. \A q \in Runs : RunIs(rec[q], child[q], origin[q], entry[q], announced[q], asmTimer[q],
                              q \in cancelling, grace[q], isShuttingDown)
    BY DEF IInv, RunOK
  <1>6. \A q \in Runs \ {r} :
            RunIs(rec[q], child[q], origin'[q], entry'[q], announced[q], asmTimer'[q],
                  q \in cancelling', grace'[q], isShuttingDown')
    <2>1. \A q \in Runs \ {r} : q \in cancelling' <=> q \in cancelling
      BY <1>1
    <2> QED
      BY <1>1, <1>5, <2>1 DEF RunIs, Cancelling
  <1>7. access' = access /\ r \notin cancelling'
    BY <1>1
  <1>8. rec[r] = "running" /\ origin[r] # "none"
    BY <1>1, <1>5 DEF RunIs, Cancelling
  <1>9. CASE child[r] = "ended"
    <2>1. RunIs(Result(r), child[r], origin'[r], entry'[r], announced[r] + 1, asmTimer'[r],
                r \in cancelling', grace'[r], isShuttingDown')
      BY <1>1, <1>3, <1>5, <1>7, <1>8, <1>9, ResultIs
      DEF RunIs, Stage, Cancelling, Interruption, Outcome, Signalled, Terminal, Holding, Limits
    <2>2. rec[r] \in Holding
      BY <1>8 DEF Holding
    <2> QED
      BY <1>1, <1>2, <1>3, <1>4, <1>6, <1>7, <1>9, <2>1, <2>2, SettleKeeps
  <1>10. CASE child[r] # "ended"
    <2>1. RunIs(rec[r], child[r], origin'[r], entry'[r], announced[r], asmTimer'[r],
                r \in cancelling', grace'[r], isShuttingDown')
      BY <1>1, <1>5, <1>7, <1>10 DEF RunIs, Cancelling
    <2>2. \A q \in Runs : RunOK(q)'
      BY <1>1, <1>6, <1>10, <2>1 DEF RunOK
    <2>3. /\ rec' \in [Runs -> Status] /\ announced' \in [Runs -> Nat]
          /\ child' \in [Runs -> Stages]
      BY <1>1, <1>2, <1>10 DEF TypeOK, Stages, Status
    <2>4. UNCHANGED <<queueVars, leaving>> /\ UNCHANGED rec
      BY <1>1, <1>10
    <2> QED
      BY <1>4, <1>7, <2>2, <2>3, <2>4, OthersKeep
  <1> QED
    BY <1>9, <1>10

\* A turn ends, or the runner stops waiting for it.
LEMMA TurnEndKeeps ==
    ASSUME IInv, NEW r \in Runs,
           graceElapsed(r) \/ \E error \in BOOLEAN : promptEnds(r, error)
    PROVE  IInv'
  <1>1. /\ child' = [child EXCEPT ![r] = IF @ = "prompting" THEN "persisting" ELSE @]
        /\ cancelling' \subseteq cancelling
        /\ \/ UNCHANGED <<grace, cancelling>>
           \/ grace' = [grace EXCEPT ![r] = "over"] /\ cancelling' = cancelling \ {r}
              /\ grace[r] = "armed"
        /\ UNCHANGED <<rec, access, origin, asmTimer, entry, announced, queueVars, stopVars>>
    <2>1. CASE graceElapsed(r)
      BY <2>1 DEF graceElapsed
    <2>2. CASE \E error \in BOOLEAN : promptEnds(r, error)
      BY <2>2 DEF promptEnds, IInv, TypeOK, Stages
    <2> QED
      BY <2>1, <2>2
  <1>2. TypeOK
    BY DEF IInv
  <1>3. failed' \in [Runs -> BOOLEAN] /\ grace' \in [Runs -> {"idle", "armed", "over"}]
    BY <1>2 DEF TypeOK, Stages, graceElapsed, promptEnds
  <1>4. /\ rec' \in [Runs -> Status] /\ announced' \in [Runs -> Nat]
        /\ child' \in [Runs -> Stages]
    BY <1>1, <1>2 DEF TypeOK, Stages, Status
  <1>5. OthersOK'
    BY <1>1, <1>2, <1>3 DEF TypeOK, Stages, OthersOK, stopVars, IInv, PassIsShutdown
  <1>6. ASSUME NEW q \in Runs
        PROVE  RunOK(q)'
    <2>1. RunIs(rec[q], child[q], origin[q], entry[q], announced[q], asmTimer[q],
                q \in cancelling, grace[q], isShuttingDown)
      BY DEF IInv, RunOK
    <2>2. child'[q] = child[q] \/ (child[q] = "prompting" /\ child'[q] = "persisting")
      BY <1>1, <1>2 DEF TypeOK, Stages
    <2>3. /\ q \in cancelling' => q \in cancelling
          /\ q \in cancelling /\ q \notin cancelling' => grace[q] = "armed"
          /\ grace'[q] = "armed" => grace[q] = "armed"
      BY <1>1, <1>2 DEF TypeOK, Stages
    <2>4. RunIs(rec[q], child'[q], origin[q], entry[q], announced[q], asmTimer[q],
                q \in cancelling', grace'[q], isShuttingDown)
      BY <2>1, <2>2, <2>3 DEF RunIs, Stage, Cancelling
    <2> QED
      BY <2>4, <1>1 DEF RunOK, stopVars
  <1>7. UNCHANGED <<queueVars, leaving>> /\ UNCHANGED rec /\ UNCHANGED access
    BY <1>1 DEF stopVars
  <1> QED
    BY <1>4, <1>5, <1>6, <1>7, OthersKeep

\* A run meets one of its own limits.
LEMMA LimitKeeps ==
    ASSUME IInv, NEW r \in Runs, NEW o \in Limits, limit(r, o)
    PROVE  IInv'
  <1>1. /\ child[r] \in {"prompting", "persisting"} /\ request({r}, o)
        /\ UNCHANGED <<rec, access, child, failed, cancelling, entry, announced, queueVars, stopVars>>
    BY DEF limit
  <1>2. TypeOK
    BY DEF IInv
  <1>3. origin[r] = "none" => rec[r] = "running"
    BY <1>1 DEF IInv, RunOK, RunIs, Stage
  <1>4. {r} \in SUBSET Runs /\ o \in {"shutdown"} \cup Origins \cup Limits
    OBVIOUS
  <1>5. \A q \in {r} : origin[q] = "none" => /\ rec[q] \in {"queued"} \cup Holding
                                             /\ rec[q] = "queued" => o \notin Limits
    BY <1>3 DEF Holding
  <1>6. /\ origin' \in [Runs -> {"none", "shutdown"} \cup Origins \cup {"caller"} \cup Limits]
        /\ asmTimer' \in [Runs -> BOOLEAN]
        /\ grace' \in [Runs -> {"idle", "armed", "over"}]
        /\ \A q \in Runs : RunIs(rec[q], child[q], origin'[q], entry[q], announced[q],
                                 asmTimer'[q], q \in cancelling, grace'[q], isShuttingDown)
    BY <1>1, <1>4, <1>5, RequestKeepsRuns
  <1>7. OthersOK'
    BY <1>1, <1>2, <1>6 DEF TypeOK, Stages, OthersOK, stopVars, IInv, PassIsShutdown
  <1>8. \A q \in Runs : RunOK(q)'
    BY <1>1, <1>6 DEF RunOK, stopVars
  <1>9. /\ rec' \in [Runs -> Status] /\ announced' \in [Runs -> Nat]
        /\ child' \in [Runs -> Stages]
    BY <1>1, <1>2 DEF TypeOK, Stages, Status
  <1>10. UNCHANGED <<queueVars, leaving>> /\ UNCHANGED rec /\ UNCHANGED access
    BY <1>1 DEF stopVars
  <1> QED
    BY <1>7, <1>8, <1>9, <1>10, OthersKeep

\* A step that changes nothing.
LEMMA StutterKeeps ==
    ASSUME IInv, UNCHANGED vars
    PROVE  IInv'
  <1>1. UNCHANGED runVars /\ UNCHANGED queueVars /\ UNCHANGED stopVars
    BY DEF vars
  <1>2. TypeOK'
    BY <1>1 DEF IInv, TypeOK, Stages, runVars, queueVars, stopVars
  <1>3. QueueOK'
    <2>1. TypeOK /\ QueueOK /\ UNCHANGED <<queueVars, leaving>> /\ UNCHANGED rec /\ UNCHANGED access
      BY <1>1 DEF IInv, runVars, stopVars
    <2> QED
      BY <2>1, QueueKept
  <1>4. PassIsShutdown' /\ \A r \in Runs : RunOK(r)'
    BY <1>1 DEF IInv, PassIsShutdown, RunOK, runVars, stopVars
  <1> QED
    BY <1>2, <1>3, <1>4 DEF IInv

\* Every step keeps the invariant.
LEMMA StepKeeps == IInv /\ [Next]_vars => IInv'
  <1> SUFFICES ASSUME IInv, [Next]_vars PROVE IInv'
    OBVIOUS
  <1>1. ASSUME NEW r \in Runs, NEW a \in Access, start(r, a) \/ startAborted(r, a)
        PROVE  IInv'
    BY <1>1, StartKeeps, StartAbortedKeeps
  <1>2. ASSUME NEW r \in Runs, NEW o \in Origins, stop(r, o)
        PROVE  IInv'
    BY <1>2, StopKeeps
  <1>3. ASSUME NEW r \in Runs, assembled(r) \/ assemblyFailed(r) \/ assemblyTimeout(r)
        PROVE  IInv'
    BY <1>3, AssembledKeeps, AssemblyFailedKeeps, AssemblyTimeoutKeeps
  <1>4. ASSUME NEW r \in Runs, graceElapsed(r) \/ \E error \in BOOLEAN : promptEnds(r, error)
        PROVE  IInv'
    BY <1>4, TurnEndKeeps
  <1>5. ASSUME NEW r \in Runs, NEW o \in Limits, limit(r, o)
        PROVE  IInv'
    BY <1>5, LimitKeeps
  <1>6. ASSUME NEW r \in Runs, persisted(r) \/ abortSettles(r)
        PROVE  IInv'
    BY <1>6, PersistedKeeps, AbortSettlesKeeps
  <1>7. CASE shutdown \/ shutdownCancels \/ shutdownLeaves
    BY <1>7, ShutdownKeeps, ShutdownCancelsKeeps, ShutdownLeavesKeeps
  <1>8. CASE UNCHANGED vars
    BY <1>8, StutterKeeps
  <1> QED
    BY <1>1, <1>2, <1>3, <1>4, <1>5, <1>6, <1>7, <1>8 DEF Next

\* The invariant holds throughout.
LEMMA Invariance == Spec => []IInv
  BY InitOK, StepKeeps, PTL DEF Spec

---------------------------------------------------------------------------
(* The theorems. *)

\* Records, runners, timers and the queue keep their types for any number of runs and slots.
THEOREM TypeCorrect == Spec => []TypeOK
  <1>1. IInv => TypeOK
    BY DEF IInv
  <1> QED
    BY <1>1, Invariance, PTL

\* The counters of the queue are exact: through cancellations, failures, late assemblies and the
\* loop of shutdown no slot leaks and none is given back twice (concurrencyQueue.ts runTask).
THEOREM SlotsAreExact == Spec => []SlotsExact
  <1>1. IInv => SlotsExact
    BY DEF IInv, QueueOK
  <1> QED
    BY <1>1, Invariance, PTL

\* No child session that may write has its turn while another one is waited for, for any number
\* of slots and whatever a late assembly does.
THEOREM WritersAreAlone == Spec => []WriterAlone
  <1>1. ASSUME IInv PROVE WriterAlone
    <2>1. \A r \in Runs : child[r] = "prompting" => r \in Holders
      BY <1>1 DEF IInv, RunOK, RunIs, Stage, Holders, Holding
    <2> QED
      BY <1>1, <2>1 DEF IInv, QueueOK, WriterHasAllSlots, WriterAlone
  <1> QED
    BY <1>1, Invariance, PTL

\* No wake-up is lost: between macrotasks the head of the queue cannot start (drain).
THEOREM NoWakeupLost == Spec => []NoLostWakeup
  <1>1. IInv => NoLostWakeup
    BY DEF IInv, QueueOK, HeadWaits, NoLostWakeup
  <1> QED
    BY <1>1, Invariance, PTL

\* The record, the cancellation and the transcript entry agree, and the terminal event is
\* emitted exactly once (applyResult), even for a run the manager gave up before its runner.
THEOREM OutcomesDoAgree == Spec => []OutcomesAgree
  <1>1. ASSUME IInv PROVE OutcomesAgree
    <2>1. ASSUME NEW r \in Runs
          PROVE  /\ Outcome(rec[r], origin[r], entry[r], announced[r])
                 /\ entry[r] # "none" => rec[r] \in Terminal \/ (r \in cancelling /\ origin[r] # "none")
      BY <1>1 DEF IInv, RunOK, RunIs, Stage, Cancelling
    <2> QED
      BY <2>1, ResultIs DEF Outcome, OutcomesAgree
  <1> QED
    BY <1>1, Invariance, PTL

---------------------------------------------------------------------------
(* What begins in a step. *)

\* The run r is started in this step, and no run before it goes on waiting.
Begun(r) ==
    /\ rec'[r] = "starting" /\ child'[r] = "assembling" /\ origin'[r] = "none"
    /\ \A q \in pendingTasks' : ~(q < r)

\* A run is starting, or its session assembled or prompted, because it was or because this step
\* begins it; nobody prompts a session of an interrupted run.
BeginsAtMost(r) ==
    /\ rec'[r] = "starting" => rec[r] = "starting" \/ Begun(r)
    /\ child'[r] = "assembling" => child[r] = "assembling" \/ Begun(r)
    /\ child'[r] = "prompting" => child[r] = "prompting" \/ origin'[r] = "none"

\* A drain begins nothing else.
LEMMA DrainBegins ==
    ASSUME TypeOK, SlotsExact, NEW R \in SUBSET Holders, NEW P \in SUBSET Runs,
           NEW rc, NEW ch, NEW ann, drain(R, P, rc, ch, ann),
           \A r \in Runs : /\ rc[r] = "starting" => rec[r] = "starting"
                           /\ ch[r] \in {"assembling", "prompting"} => child[r] = ch[r]
    PROVE  \A r \in Runs : BeginsAtMost(r)
  <1> SUFFICES ASSUME NEW r \in Runs PROVE BeginsAtMost(r)
    OBVIOUS
  <1>1. Drained(P, rc, ch, ann)
    BY DrainRun
  <1>2. DrainedRun(r, P, rc, ch, ann) /\ pendingTasks' \subseteq P
    BY <1>1 DEF Drained
  <1>3. CASE rec'[r] = rc[r] /\ child'[r] = ch[r]
    BY <1>3 DEF BeginsAtMost
  <1>4. CASE /\ origin'[r] = "none" /\ rec'[r] = "starting" /\ child'[r] = "assembling"
             /\ \A q \in P : q < r => q \notin pendingTasks'
    BY <1>2, <1>4 DEF BeginsAtMost, Begun
  <1>5. CASE rec'[r] = "cancelled" /\ child'[r] = ch[r]
    BY <1>5 DEF BeginsAtMost
  <1> QED
    BY <1>2, <1>3, <1>4, <1>5 DEF DrainedRun

\* Nor does the cancellation of a waiting run.
LEMMA CancelBegins ==
    ASSUME IInv, NEW r, cancelTask(r)
    PROVE  \A q \in Runs : BeginsAtMost(q)
  <1>1. TypeOK /\ SlotsExact /\ {} \in SUBSET Holders
    BY QueueFacts
  <1>2. CASE r \in pendingTasks
    <2> DEFINE P   == pendingTasks \ {r}
               rc  == [rec EXCEPT ![r] = "cancelled"]
               ann == [announced EXCEPT ![r] = @ + 1]
    <2>1. drain({}, P, rc, child, ann)
      BY <1>2 DEF cancelTask
    <2>2. P \in SUBSET Runs /\ \A q \in Runs : rc[q] = "starting" => rec[q] = "starting"
      BY <1>1 DEF TypeOK, Stages
    <2> HIDE DEF P, rc, ann
    <2> QED
      BY <1>1, <2>1, <2>2, DrainBegins
  <1>3. CASE r \notin pendingTasks
    BY <1>3 DEF cancelTask, BeginsAtMost
  <1> QED
    BY <1>2, <1>3

\* Nor does the end of a task.
LEMMA SettleBegins ==
    ASSUME IInv, NEW r \in Runs, NEW st \in Terminal, NEW ch, settle(r, st, ch),
           \A q \in Runs : ch[q] \in {"assembling", "prompting"} => child[q] = ch[q]
    PROVE  \A q \in Runs : BeginsAtMost(q)
  <1>1. TypeOK /\ SlotsExact
    BY QueueFacts
  <1>2. CASE rec[r] \in Holding
    <2> DEFINE rc  == [rec EXCEPT ![r] = st]
               ann == [announced EXCEPT ![r] = @ + 1]
    <2>1. drain({r}, pendingTasks, rc, ch, ann)
      BY <1>2 DEF settle
    <2>2. /\ {r} \in SUBSET Holders /\ pendingTasks \in SUBSET Runs
          /\ \A q \in Runs : rc[q] = "starting" => rec[q] = "starting"
      BY <1>1, <1>2 DEF TypeOK, Stages, Holders, Terminal
    <2> HIDE DEF rc, ann
    <2> QED
      BY <1>1, <2>1, <2>2, DrainBegins
  <1>3. CASE rec[r] \notin Holding
    BY <1>3 DEF settle, BeginsAtMost
  <1> QED
    BY <1>2, <1>3

\* Nor does any step, and shutdown is not undone.
LEMMA StepBegins ==
    ASSUME IInv, Next
    PROVE  /\ \A r \in Runs : BeginsAtMost(r)
           /\ isShuttingDown => isShuttingDown'
  <1> DEFINE Goal == (\A r \in Runs : BeginsAtMost(r)) /\ (isShuttingDown => isShuttingDown')
  <1>1. TypeOK /\ SlotsExact /\ {} \in SUBSET Holders /\ leaving \in SUBSET Holders
    BY QueueFacts DEF Holders
  <1>2. ASSUME NEW r \in Runs, NEW a \in Access, start(r, a)
        PROVE  Goal
    <2> DEFINE P  == pendingTasks \cup {r}
               rc == [rec EXCEPT ![r] = "queued"]
    <2>1. drain({}, P, rc, child, announced) /\ UNCHANGED isShuttingDown
      BY <1>2 DEF start
    <2>2. P \in SUBSET Runs /\ \A q \in Runs : rc[q] = "starting" => rec[q] = "starting"
      BY <1>1 DEF TypeOK, Stages
    <2> HIDE DEF P, rc
    <2> QED
      BY <1>1, <2>1, <2>2, DrainBegins
  <1>3. ASSUME NEW r \in Runs, NEW a \in Access, startAborted(r, a)
        PROVE  Goal
    BY <1>1, <1>3 DEF startAborted, stopVars, BeginsAtMost, TypeOK, Stages
  <1>4. ASSUME NEW r \in Runs, NEW o \in Origins, stop(r, o)
        PROVE  Goal
    BY <1>4, CancelBegins DEF stop
  <1>5. ASSUME NEW r \in Runs, assembled(r)
        PROVE  Goal
    BY <1>1, <1>5 DEF assembled, stopVars, BeginsAtMost, TypeOK, Stages
  <1>6. ASSUME NEW r \in Runs, assemblyFailed(r)
        PROVE  Goal
    <2> DEFINE st == IF origin[r] = "none" THEN "failed" ELSE Result(r)
               ch == [child EXCEPT ![r] = "ended"]
    <2>1. settle(r, st, ch) /\ UNCHANGED isShuttingDown
      BY <1>6 DEF assemblyFailed
    <2>2. /\ st \in Terminal
          /\ \A q \in Runs : ch[q] \in {"assembling", "prompting"} => child[q] = ch[q]
      BY <1>1, ResultIs DEF TypeOK, Stages, Terminal
    <2> HIDE DEF st, ch
    <2> QED
      BY <2>1, <2>2, SettleBegins
  <1>7. ASSUME NEW r \in Runs, assemblyTimeout(r)
        PROVE  Goal
    <2>1. settle(r, Result(r), child) /\ UNCHANGED isShuttingDown /\ Result(r) \in Terminal
      BY <1>7, ResultIs DEF assemblyTimeout
    <2> QED
      BY <2>1, SettleBegins
  <1>8. ASSUME NEW r \in Runs, graceElapsed(r) \/ \E error \in BOOLEAN : promptEnds(r, error)
        PROVE  Goal
    BY <1>1, <1>8 DEF graceElapsed, promptEnds, stopVars, BeginsAtMost, TypeOK, Stages
  <1>9. ASSUME NEW r \in Runs, NEW o \in Limits, limit(r, o)
        PROVE  Goal
    BY <1>9 DEF limit, stopVars, BeginsAtMost
  <1>10. ASSUME NEW r \in Runs, persisted(r)
         PROVE  Goal
    <2> DEFINE ch == [child EXCEPT ![r] = "ended"]
    <2>1. /\ UNCHANGED isShuttingDown /\ Result(r) \in Terminal
          /\ settle(r, Result(r), ch) \/ (child' = ch /\ UNCHANGED rec)
      BY <1>10, ResultIs DEF persisted
    <2>2. \A q \in Runs : ch[q] \in {"assembling", "prompting"} => child[q] = ch[q]
      BY <1>1 DEF TypeOK, Stages
    <2> HIDE DEF ch
    <2>3. CASE child' = ch /\ UNCHANGED rec
      BY <2>1, <2>2, <2>3 DEF BeginsAtMost
    <2> QED
      BY <2>1, <2>2, <2>3, SettleBegins
  <1>11. ASSUME NEW r \in Runs, abortSettles(r)
         PROVE  Goal
    <2>1. /\ UNCHANGED isShuttingDown /\ Result(r) \in Terminal
          /\ settle(r, Result(r), child) \/ UNCHANGED <<rec, child>>
      BY <1>11, ResultIs DEF abortSettles
    <2>2. CASE UNCHANGED <<rec, child>>
      BY <2>1, <2>2 DEF BeginsAtMost
    <2> QED
      BY <2>1, <2>2, SettleBegins
  <1>12. ASSUME shutdown
         PROVE  Goal
    BY <1>12 DEF shutdown, BeginsAtMost
  <1>13. ASSUME shutdownCancels
         PROVE  Goal
    <2>1. PICK r : cancelTask(r)
      BY <1>13 DEF shutdownCancels
    <2>2. UNCHANGED isShuttingDown
      BY <1>13 DEF shutdownCancels
    <2> QED
      BY <2>1, <2>2, CancelBegins
  <1>14. ASSUME shutdownLeaves
         PROVE  Goal
    <2>1. drain(leaving, pendingTasks, rec, child, announced) /\ UNCHANGED isShuttingDown
      BY <1>14 DEF shutdownLeaves
    <2>2. pendingTasks \in SUBSET Runs
      BY <1>1 DEF TypeOK, Stages
    <2> QED
      BY <1>1, <2>1, <2>2, DrainBegins
  <1> HIDE DEF Goal
  <1>15. Goal
    BY <1>2, <1>3, <1>4, <1>5, <1>6, <1>7, <1>8, <1>9, <1>10, <1>11, <1>12, <1>13,
       <1>14 DEF Next
  <1> QED
    BY <1>15 DEF Goal

\* After shutdown has closed admission no child session is begun or prompted, although the
\* cancellation of one queued run lets the queue take up the runs behind it.
THEOREM ShutdownIsForGood == Spec => ClosedForGood
  <1> DEFINE A == isShuttingDown => \A r \in Runs :
                    /\ child'[r] = "assembling" => child[r] = "assembling"
                    /\ child'[r] = "prompting" => child[r] = "prompting"
  <1>1. ASSUME IInv, [Next]_vars PROVE [A]_vars
    <2>1. IInv'
      BY <1>1, StepKeeps
    <2>2. CASE Next
      <3> SUFFICES ASSUME isShuttingDown, NEW r \in Runs
                   PROVE  /\ child'[r] = "assembling" => child[r] = "assembling"
                          /\ child'[r] = "prompting" => child[r] = "prompting"
        BY DEF A
      <3>1. BeginsAtMost(r) /\ isShuttingDown'
        BY <1>1, <2>2, StepBegins
      <3>2. RunIs(rec'[r], child'[r], origin'[r], entry'[r], announced'[r], asmTimer'[r],
                  r \in cancelling', grace'[r], isShuttingDown')
        BY <2>1 DEF IInv, RunOK
      <3> QED
        BY <3>1, <3>2 DEF BeginsAtMost, Begun, RunIs, Stage, Signalled, Holding
    <2>3. CASE UNCHANGED vars
      BY <2>3
    <2> QED
      BY <1>1, <2>2, <2>3
  <1> QED
    BY <1>1, Invariance, PTL DEF Spec, ClosedForGood

\* The queue is first come first served: a run that is started overtakes no run that goes on
\* waiting, so that readers cannot starve a writer (concurrencyQueue.ts drain takes the head).
THEOREM FirstComeFirstServed == Spec => NoOvertaking
  <1> DEFINE A == \A r, q \in Runs :
                    q < r /\ q \in pendingTasks' /\ rec'[r] = "starting" => rec[r] = "starting"
  <1>1. ASSUME IInv, [Next]_vars PROVE [A]_vars
    <2>1. CASE Next
      BY <1>1, <2>1, StepBegins DEF BeginsAtMost, Begun
    <2>2. CASE UNCHANGED vars
      BY <2>2
    <2> QED
      BY <1>1, <2>1, <2>2
  <1> QED
    BY <1>1, Invariance, PTL DEF Spec, NoOvertaking

--------------------------------------------------------------------------------
(* The delivery of completions: the inductive invariant of CompletionOwner. *)

\* The send under way belongs to the running loop and to an entry that says so, unless the
\* owner was closed meanwhile, and Pi has not taken it yet.
SendUnderWay ==
    /\ sending # NoSend => draining /\ accepted[sending] = 0
    /\ ~closed => \A r \in Completions : entries[r].state = "sending" <=> sending = r

\* An exhausted entry has used up its retries and is not sent again; retries are counted up to
\* the number of delays before that.
RetriesCounted ==
    \A r \in Completions :
        /\ entries[r].exhausted <=> entries[r].retries = Retries + 1
        /\ entries[r].exhausted => entries[r].state = "pending"
        /\ entries[r].timer => entries[r].state = "pending" /\ ~entries[r].exhausted

\* A closed owner has no entries.
ClosedIsEmpty == closed => entries = Empty

OwnerInv ==
    /\ OwnerTypeOK /\ SendUnderWay /\ RetriesCounted /\ ClosedIsEmpty
    /\ AcceptedOnce /\ NothingForgotten

\* What a delivery entry is.
Entry == [state : States, retries : 0..(Retries + 1), timer : BOOLEAN, exhausted : BOOLEAN]

\* Entries stay entries when their state or timer changes.
LEMMA EntryTypes ==
    /\ \A e \in Entry : \A st \in States : [e EXCEPT !.state = st] \in Entry
    /\ \A e \in Entry : [e EXCEPT !.timer = FALSE] \in Entry
    /\ Empty \in [Completions -> Entry]
  <1>1. \A e \in Entry : \A st \in States : [e EXCEPT !.state = st] \in Entry
    BY DEF Entry
  <1>2. \A e \in Entry : [e EXCEPT !.timer = FALSE] \in Entry
    BY DEF Entry
  <1>3. "absent" \in States /\ 0 \in 0..(Retries + 1)
    BY OwnerAssumption DEF States
  <1>4. Absent \in Entry
    BY <1>3 DEF Entry, Absent
  <1> QED
    BY <1>1, <1>2, <1>4 DEF Empty

\* A failed send leaves an entry with one retry more, as long as it was not exhausted.
LEMMA FailedEntry ==
    ASSUME NEW e \in Entry, e.retries <= Retries
    PROVE  /\ Failed(e) \in Entry /\ Failed(e).state = "pending" /\ Failed(e).retries = e.retries + 1
           /\ e.retries < Retries => Failed(e).timer = TRUE /\ Failed(e).exhausted = e.exhausted
           /\ e.retries = Retries => Failed(e).timer = e.timer /\ Failed(e).exhausted = TRUE
  <1> DEFINE n == e.retries + 1
  <1>1. e.retries \in Nat /\ n \in 0..(Retries + 1) /\ "pending" \in States
    BY OwnerAssumption DEF Entry, States
  <1>2. CASE e.retries < Retries
    <2>1. Failed(e) = [e EXCEPT !.state = "pending", !.retries = n, !.timer = TRUE]
      BY <1>2 DEF Failed
    <2> HIDE DEF n
    <2>2. Failed(e) \in Entry
      BY <1>1, <2>1 DEF Entry
    <2>3. /\ Failed(e).state = "pending" /\ Failed(e).retries = n
          /\ Failed(e).timer = TRUE /\ Failed(e).exhausted = e.exhausted
      BY <2>1 DEF Entry
    <2> QED
      BY <1>1, <1>2, <2>2, <2>3, OwnerAssumption DEF n
  <1>3. CASE e.retries = Retries
    <2>1. Failed(e) = [e EXCEPT !.state = "pending", !.retries = n, !.exhausted = TRUE]
      BY <1>3, OwnerAssumption DEF Failed
    <2> HIDE DEF n
    <2>2. Failed(e) \in Entry
      BY <1>1, <2>1 DEF Entry
    <2>3. /\ Failed(e).state = "pending" /\ Failed(e).retries = n
          /\ Failed(e).timer = e.timer /\ Failed(e).exhausted = TRUE
      BY <2>1 DEF Entry
    <2> QED
      BY <1>1, <1>3, <2>2, <2>3, OwnerAssumption DEF n
  <1>4. e.retries < Retries \/ e.retries = Retries
    BY <1>1, OwnerAssumption
  <1> QED
    BY <1>2, <1>3, <1>4, Zenon

\* A send that throws finds an entry with a retry left, unless the owner was closed.
LEMMA RetryLeft ==
    ASSUME OwnerTypeOK, SendUnderWay, RetriesCounted, sending # NoSend, ~closed
    PROVE  /\ sending \in Completions /\ entries[sending] \in Entry /\ entries[sending].retries <= Retries
           /\ ~entries[sending].timer /\ ~entries[sending].exhausted
  <1>1. sending \in Completions /\ entries[sending] \in Entry /\ entries[sending].state = "sending"
    BY DEF OwnerTypeOK, Entry, SendUnderWay
  <1>2. ~entries[sending].timer /\ ~entries[sending].exhausted
    BY <1>1 DEF RetriesCounted
  <1>3. entries[sending].retries # Retries + 1
    BY <1>1, <1>2 DEF RetriesCounted
  <1>4. entries[sending].retries \in 0..(Retries + 1)
    BY <1>1 DEF Entry
  <1> QED
    BY <1>1, <1>2, <1>3, <1>4, OwnerAssumption

\* Every step keeps the delivery entries entries.
LEMMA EntriesStep ==
    ASSUME OwnerTypeOK, SendUnderWay, RetriesCounted, OwnerNext
    PROVE  entries' \in [Completions -> Entry]
  <1>0. entries \in [Completions -> Entry] /\ {"enrolled", "pending", "sending", "accepted"} \subseteq States
    BY DEF OwnerTypeOK, Entry, States
  <1>1. ASSUME NEW r \in Completions, NEW st \in States, entries' = [entries EXCEPT ![r].state = st]
        PROVE  entries' \in [Completions -> Entry]
    BY <1>0, <1>1, EntryTypes
  <1>2. ASSUME NEW r \in Completions, enroll(r) \/ terminal(r) \/ visit(r)
        PROVE  entries' \in [Completions -> Entry]
    BY <1>0, <1>1, <1>2 DEF enroll, terminal, visit
  <1>3. ASSUME NEW r \in Completions, retryTimer(r) PROVE entries' \in [Completions -> Entry]
    BY <1>0, <1>3, EntryTypes DEF retryTimer
  <1>4. ASSUME sendReturns PROVE entries' \in [Completions -> Entry]
    <2>1. sending \in Completions
      BY <1>4 DEF sendReturns, OwnerTypeOK
    <2> QED
      BY <1>0, <1>1, <1>4, <2>1 DEF sendReturns
  <1>5. ASSUME sendThrows PROVE entries' \in [Completions -> Entry]
    <2>1. CASE closed
      BY <1>0, <1>5, <2>1 DEF sendThrows
    <2>2. CASE ~closed
      <3>1. sending \in Completions /\ Failed(entries[sending]) \in Entry
        BY <1>5, <2>2, RetryLeft, FailedEntry DEF sendThrows
      <3> QED
        BY <1>0, <1>5, <2>2, <3>1 DEF sendThrows
    <2> QED
      BY <2>1, <2>2
  <1>6. ASSUME endLoop \/ sessionShutdown \/ sessionStart PROVE entries' \in [Completions -> Entry]
    BY <1>0, <1>6, EntryTypes DEF endLoop, sessionShutdown, sessionStart
  <1> QED
    BY <1>2, <1>3, <1>4, <1>5, <1>6 DEF OwnerNext

\* The initial owner has no entries.
LEMMA OwnerInitOK == OwnerInit => OwnerInv
  <1>1. OwnerInit => entries \in [Completions -> Entry]
    BY EntryTypes DEF OwnerInit
  <1>2. OwnerInit => cursor \in 0..MaxCompletions /\ accepted \in [Completions -> Nat]
    BY OwnerAssumption DEF OwnerInit
  <1>3. OwnerInit => OwnerTypeOK
    BY <1>1, <1>2 DEF OwnerInit, OwnerTypeOK, Entry
  <1> QED
    BY <1>3, OwnerAssumption
    DEF OwnerInit, OwnerInv, SendUnderWay, RetriesCounted, ClosedIsEmpty, AcceptedOnce, NothingForgotten,
      Empty, Absent, States, Completions, NoSend

\* Every step keeps the types.
LEMMA OwnerTypeStep ==
    ASSUME OwnerTypeOK, SendUnderWay, RetriesCounted, OwnerNext
    PROVE  OwnerTypeOK'
  <1>1. entries' \in [Completions -> Entry]
    BY EntriesStep
  <1>2. \/ draining' = draining
        \/ draining' = TRUE
        \/ draining' = \E r \in Completions : Ready(r)
    BY DEF OwnerNext, enroll, terminal, visit, retryTimer, endLoop, sendReturns, sendThrows,
      sessionShutdown, sessionStart, ownerDrain
  <1>3. draining' \in BOOLEAN
    BY <1>2, Zenon DEF OwnerTypeOK
  <1>4. closed' \in BOOLEAN
    BY
    DEF OwnerNext, OwnerTypeOK, enroll, terminal, visit, retryTimer, endLoop, sendReturns, sendThrows,
      sessionShutdown, sessionStart
  <1>5. cursor' \in {cursor, 0} \cup Completions
    BY DEF OwnerNext, enroll, terminal, visit, retryTimer, endLoop, sendReturns, sendThrows,
      sessionShutdown, sessionStart, ownerDrain
  <1>6. cursor' \in 0..MaxCompletions
    BY <1>5, OwnerAssumption DEF OwnerTypeOK, Completions
  <1>7. sending' \in Completions \cup {NoSend}
    BY
    DEF OwnerNext, OwnerTypeOK, enroll, terminal, visit, retryTimer, endLoop, sendReturns, sendThrows,
      sessionShutdown, sessionStart
  <1>8. accepted' \in [Completions -> Nat]
    <2>1. CASE sendReturns
      <3>1. sending \in Completions /\ accepted' = [accepted EXCEPT ![sending] = @ + 1]
        BY <2>1 DEF sendReturns, OwnerTypeOK
      <3> QED
        BY <3>1 DEF OwnerTypeOK
    <2>2. accepted' = accepted \/ accepted' = [r \in Completions |-> 0] \/ sendReturns
      BY DEF OwnerNext, enroll, terminal, visit, retryTimer, endLoop, sendThrows,
        sessionShutdown, sessionStart
    <2> QED
      BY <2>1, <2>2 DEF OwnerTypeOK
  <1> QED
    BY <1>1, <1>3, <1>4, <1>6, <1>7, <1>8 DEF OwnerTypeOK, Entry

\* Every step of the owner, of Pi and of the session keeps the invariant.
LEMMA OwnerStep == OwnerInv /\ [OwnerNext]_ownerVars => OwnerInv'
  <1> SUFFICES ASSUME OwnerInv, [OwnerNext]_ownerVars PROVE OwnerInv'
    OBVIOUS
  <1> USE OwnerAssumption
      DEF OwnerInv, OwnerTypeOK, SendUnderWay, RetriesCounted, ClosedIsEmpty, AcceptedOnce, NothingForgotten,
          Empty, Absent, States, Completions, NoSend
  <1>1. ASSUME NEW r \in Completions, enroll(r) PROVE OwnerInv'
    <2>1. OwnerTypeOK'
      BY <1>1, OwnerTypeStep DEF OwnerNext
    <2>2. SendUnderWay'
      BY <1>1 DEF enroll, Callable
    <2>3. RetriesCounted'
      BY <1>1 DEF enroll, Callable
    <2>4. ClosedIsEmpty'
      BY <1>1 DEF enroll, Callable
    <2>5. AcceptedOnce'
      BY <1>1 DEF enroll, Callable
    <2>6. NothingForgotten'
      BY <1>1 DEF enroll, Callable
    <2> QED
      BY <2>1, <2>2, <2>3, <2>4, <2>5, <2>6
  <1>2. ASSUME NEW r \in Completions, terminal(r) PROVE OwnerInv'
    <2>1. OwnerTypeOK'
      BY <1>2, OwnerTypeStep DEF OwnerNext
    <2>2. SendUnderWay'
      BY <1>2 DEF terminal, Awaiting, ownerDrain, Callable
    <2>3. RetriesCounted'
      BY <1>2 DEF terminal, Awaiting, ownerDrain, Callable
    <2>4. ClosedIsEmpty'
      BY <1>2 DEF terminal, Awaiting, ownerDrain, Callable
    <2>5. AcceptedOnce'
      BY <1>2 DEF terminal, Awaiting, ownerDrain, Callable
    <2>6. NothingForgotten'
      BY <1>2 DEF terminal, Awaiting, ownerDrain, Callable
    <2> QED
      BY <2>1, <2>2, <2>3, <2>4, <2>5, <2>6
  <1>3. ASSUME NEW r \in Completions, visit(r) PROVE OwnerInv'
    <2>1. OwnerTypeOK'
      BY <1>3, OwnerTypeStep DEF OwnerNext
    <2>2. SendUnderWay'
      BY <1>3 DEF visit, Ready
    <2>3. RetriesCounted'
      BY <1>3 DEF visit, Ready
    <2>4. ClosedIsEmpty'
      BY <1>3 DEF visit, Ready
    <2>5. AcceptedOnce'
      BY <1>3 DEF visit, Ready
    <2>6. NothingForgotten'
      BY <1>3 DEF visit, Ready
    <2> QED
      BY <2>1, <2>2, <2>3, <2>4, <2>5, <2>6
  <1>4. ASSUME NEW r \in Completions, retryTimer(r) PROVE OwnerInv'
    <2>1. OwnerTypeOK'
      BY <1>4, OwnerTypeStep DEF OwnerNext
    <2>2. SendUnderWay'
      BY <1>4 DEF retryTimer, ownerDrain
    <2>3. RetriesCounted'
      BY <1>4 DEF retryTimer, ownerDrain
    <2>4. ClosedIsEmpty'
      BY <1>4 DEF retryTimer, ownerDrain
    <2>5. AcceptedOnce'
      BY <1>4 DEF retryTimer, ownerDrain
    <2>6. NothingForgotten'
      BY <1>4 DEF retryTimer, ownerDrain
    <2> QED
      BY <2>1, <2>2, <2>3, <2>4, <2>5, <2>6
  <1>5. ASSUME endLoop PROVE OwnerInv'
    BY <1>5 DEF endLoop, Ready
  <1>6. ASSUME sendReturns PROVE OwnerInv'
    <2>1. OwnerTypeOK'
      BY <1>6, OwnerTypeStep DEF OwnerNext
    <2>2. SendUnderWay'
      BY <1>6 DEF sendReturns
    <2>3. RetriesCounted'
      BY <1>6 DEF sendReturns
    <2>4. ClosedIsEmpty'
      BY <1>6 DEF sendReturns
    <2>5. AcceptedOnce'
      BY <1>6 DEF sendReturns
    <2>6. NothingForgotten'
      BY <1>6 DEF sendReturns
    <2> QED
      BY <2>1, <2>2, <2>3, <2>4, <2>5, <2>6
  <1>7. ASSUME sendThrows PROVE OwnerInv'
    <2>1. OwnerTypeOK'
      BY <1>7, OwnerTypeStep DEF OwnerNext
    <2>2. SendUnderWay'
      BY <1>7 DEF sendThrows, Failed
    <2>3. RetriesCounted'
      <3>1. CASE closed
        BY <1>7, <3>1 DEF sendThrows
      <3>2. CASE ~closed
        <4>1. PICK e \in Entry : e = entries[sending] /\ e.retries <= Retries /\ ~e.timer /\ ~e.exhausted
          BY <1>7, <3>2, RetryLeft DEF sendThrows
        <4>2. sending \in Completions /\ entries' = [entries EXCEPT ![sending] = Failed(e)]
          BY <1>7, <3>2, <4>1 DEF sendThrows
        <4>3. e.retries \in Nat
          BY DEF Entry
        <4>4. /\ Failed(e).state = "pending" /\ Failed(e).retries = e.retries + 1
              /\ e.retries < Retries => Failed(e).timer = TRUE /\ Failed(e).exhausted = FALSE
              /\ e.retries = Retries => Failed(e).timer = FALSE /\ Failed(e).exhausted = TRUE
          <5>1. e.timer = FALSE /\ e.exhausted = FALSE
            BY <4>1, Zenon DEF Entry
          <5> QED
            BY <4>1, <5>1, FailedEntry
        <4>5. ASSUME NEW r \in Completions, r # sending PROVE entries'[r] = entries[r]
          BY <4>2, <4>5
        <4>6. entries'[sending] = Failed(e)
          BY <4>2
        <4> HIDE DEF OwnerTypeOK, SendUnderWay, ClosedIsEmpty, AcceptedOnce, NothingForgotten
        <4> QED
          BY <4>1, <4>2, <4>3, <4>4, <4>5, <4>6
      <3> QED
        BY <3>1, <3>2
    <2>4. ClosedIsEmpty'
      BY <1>7 DEF sendThrows, Failed
    <2>5. AcceptedOnce'
      BY <1>7 DEF sendThrows, Failed
    <2>6. NothingForgotten'
      BY <1>7 DEF sendThrows, Failed
    <2> QED
      BY <2>1, <2>2, <2>3, <2>4, <2>5, <2>6
  <1>8. ASSUME sessionShutdown PROVE OwnerInv'
    BY <1>8 DEF sessionShutdown, Callable
  <1>9. ASSUME sessionStart PROVE OwnerInv'
    <2>1. OwnerTypeOK'
      BY <1>9, OwnerTypeStep DEF OwnerNext
    <2>2. SendUnderWay'
      BY <1>9 DEF sessionStart
    <2>3. RetriesCounted'
      BY <1>9 DEF sessionStart
    <2>4. ClosedIsEmpty'
      BY <1>9 DEF sessionStart
    <2>5. AcceptedOnce'
      BY <1>9 DEF sessionStart
    <2>6. NothingForgotten'
      BY <1>9 DEF sessionStart
    <2> QED
      BY <2>1, <2>2, <2>3, <2>4, <2>5, <2>6
  <1>10. CASE UNCHANGED ownerVars
    BY <1>10 DEF ownerVars
  <1> QED
    BY <1>1, <1>2, <1>3, <1>4, <1>5, <1>6, <1>7, <1>8, <1>9, <1>10 DEF OwnerNext

\* The inductive invariant, on which every theorem below rests.
LEMMA OwnerInductive == OwnerSpec => []OwnerInv
  BY OwnerInitOK, OwnerStep, PTL DEF OwnerSpec

\* Entries, the loop and the send under way have their types; retries are bounded.
THEOREM OwnerTypeCorrect == OwnerSpec => []OwnerTypeOK
  BY OwnerInductive, PTL DEF OwnerInv

\* Pi takes a completion at most once in a lifetime, for any number of retries and re-entrant
\* calls from inside a send.
THEOREM TakenOnce == OwnerSpec => []AcceptedOnce
  BY OwnerInductive, PTL DEF OwnerInv

\* Between macrotasks no completion is left without a retry timer before its retries are used up.
THEOREM NoneForgotten == OwnerSpec => []NothingForgotten
  BY OwnerInductive, PTL DEF OwnerInv
================================================================================
