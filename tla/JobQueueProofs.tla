--------------------------- MODULE JobQueueProofs ---------------------------
(***************************************************************************)
(* Proofs about JobQueue, for every set of run IDs, nodes and goroutines   *)
(* and every value of MaxRetries and of the bounds: type correctness, the  *)
(* refinement of RunLifecycle with the retry limit and the finality of     *)
(* node_offline, the gauges, and last the timers and watchers of a run.    *)
(***************************************************************************)
EXTENDS JobQueue, FiniteSetTheorems, TLAPS

WellFormed == TypeOK /\ Bookkeeping

\* No object appears or disappears: every action but Dispatch.
Persist == \A o \in Runs : status[o] = "none" <=> status'[o] = "none"

-----------------------------------------------------------------------------
(* What the helpers of the actions do to the goroutines                    *)

LEMMA NoRunIsNoRun == NoRun \notin Runs
BY DEF NoRun, Runs

LEMMA RunsFinite == IsFiniteSet(Runs)
<1>1. IsFiniteSet(1..MaxIncarnations)
  BY BoundsAssumption, FS_Interval
<1>2. QED
  BY <1>1, FinitenessAssumption, FS_Product DEF Runs

LEMMA IdleType == Idle \in ThreadType
BY DEF Idle, ThreadType, PCs, Kinds, NoRun

\* A goroutine that is put at a place in the code, on an existing object.
LEMMA PlacedEffect ==
  ASSUME NEW g \in Goroutines, thread \in [Goroutines -> ThreadType],
         NEW pc \in PCs \ {"idle"}, NEW kind \in Kinds, NEW o \in Runs, NEW gen \in Nat,
         NEW todo \in SUBSET Runs,
         todo # {} => kind \in {"retry", "reconnect"},
         pc \in {"retry", "ackTimeout"} => kind # "dispatch",
         status'[o] # "none", \A t \in todo : status'[t] # "none",
         thread' = [thread EXCEPT ![g] = At(pc, kind, o, gen, todo)]
  PROVE  /\ thread' \in [Goroutines -> ThreadType]
         /\ \A h \in Goroutines : h # g => thread'[h] = thread[h]
         /\ thread'[g] = At(pc, kind, o, gen, todo)
         /\ ThreadOnObjects(g)'
<1>1. At(pc, kind, o, gen, todo) \in ThreadType
  BY DEF At, ThreadType
<1>2. thread'[g] = At(pc, kind, o, gen, todo)
  OBVIOUS
<1>3. ThreadOnObjects(g)'
  BY <1>2 DEF ThreadOnObjects, At
<1>4. QED
  BY <1>1, <1>2, <1>3

LEMMA GotoEffect ==
  ASSUME WellFormed, NEW g \in Goroutines, thread[g].pc # "idle", Persist,
         NEW pc \in PCs \ {"idle", "retry", "ackTimeout"}, NEW gen \in Nat, Goto(g, pc, gen)
  PROVE  /\ thread' \in [Goroutines -> ThreadType]
         /\ \A h \in Goroutines : h # g => thread'[h] = thread[h]
         /\ thread'[g] = At(pc, thread[g].kind, thread[g].run, gen, thread[g].todo)
         /\ ThreadOnObjects(g)'
<1> DEFINE kind == thread[g].kind
           o == thread[g].run
           todo == thread[g].todo
<1>1. thread \in [Goroutines -> ThreadType] /\ ThreadOnObjects(g)
  BY DEF WellFormed, TypeOK, Bookkeeping, ThreadsOnObjects
<1>2. kind \in Kinds /\ todo \in SUBSET Runs
  BY <1>1 DEF ThreadType
<1>3. /\ o \in Runs /\ status'[o] # "none" /\ \A t \in todo : status'[t] # "none"
      /\ todo # {} => kind \in {"retry", "reconnect"}
  BY <1>1, <1>2 DEF ThreadOnObjects, Persist
<1>4. thread' = [thread EXCEPT ![g] = At(pc, kind, o, gen, todo)]
  BY DEF Goto
<1>5. pc \in PCs \ {"idle"} /\ (pc \in {"retry", "ackTimeout"} => kind # "dispatch")
  OBVIOUS
<1> HIDE DEF kind, o, todo
<1>6. /\ thread' \in [Goroutines -> ThreadType]
      /\ \A h \in Goroutines : h # g => thread'[h] = thread[h]
      /\ thread'[g] = At(pc, kind, o, gen, todo)
      /\ ThreadOnObjects(g)'
  BY ONLY <1>1, <1>2, <1>3, <1>4, <1>5, PlacedEffect, g \in Goroutines, gen \in Nat
<1>7. QED
  BY <1>6 DEF kind, o, todo

\* A loop over existing runs leaves the goroutine idle or at the entry of one of them.
LEMMA EnterLoopEffect ==
  ASSUME NEW g \in Goroutines, NEW kind \in Kinds, NEW S \in SUBSET Runs,
         thread \in [Goroutines -> ThreadType],
         S # {} => kind \in {"retry", "reconnect"},
         \A o \in S : status'[o] # "none",
         EnterLoop(g, kind, S)
  PROVE  /\ thread' \in [Goroutines -> ThreadType]
         /\ \A h \in Goroutines : h # g => thread'[h] = thread[h]
         /\ \/ S = {} /\ thread'[g] = Idle
            \/ \E o \in S : thread'[g] = At(LoopEntry(kind), kind, o, 0, S \ {o})
         /\ ThreadOnObjects(g)'
<1>1. CASE S = {} /\ thread' = [thread EXCEPT ![g] = Idle]
  BY <1>1, IdleType DEF ThreadOnObjects, Idle
<1>2. CASE \E o \in S : thread' = [thread EXCEPT ![g] = At(LoopEntry(kind), kind, o, 0, S \ {o})]
  <2>1. PICK o \in S : thread' = [thread EXCEPT ![g] = At(LoopEntry(kind), kind, o, 0, S \ {o})]
    BY <1>2
  <2>2. LoopEntry(kind) \in PCs \ {"idle"} /\ kind # "dispatch"
    BY DEF LoopEntry, PCs
  <2>3. /\ o \in Runs /\ 0 \in Nat /\ S \ {o} \in SUBSET Runs
        /\ status'[o] # "none" /\ \A t \in S \ {o} : status'[t] # "none"
        /\ S \ {o} # {} => kind \in {"retry", "reconnect"}
    OBVIOUS
  <2>4. /\ thread' \in [Goroutines -> ThreadType]
        /\ \A h \in Goroutines : h # g => thread'[h] = thread[h]
        /\ thread'[g] = At(LoopEntry(kind), kind, o, 0, S \ {o})
        /\ ThreadOnObjects(g)'
    BY ONLY <2>1, <2>2, <2>3, PlacedEffect, g \in Goroutines, kind \in Kinds,
            thread \in [Goroutines -> ThreadType]
  <2>5. QED
    BY <2>4
<1>3. QED
  BY <1>1, <1>2 DEF EnterLoop

\* A goroutine that leaves its run goes on with its list, or ends.
LEMMA LeaveRunEffect ==
  ASSUME NEW g \in Goroutines, WellFormed, Persist, LeaveRun(g)
  PROVE  /\ thread' \in [Goroutines -> ThreadType]
         /\ \A h \in Goroutines : h # g => thread'[h] = thread[h]
         /\ \/ thread[g].todo = {} /\ thread'[g] = Idle
            \/ \E o \in thread[g].todo :
                  /\ thread[g].kind \in {"retry", "reconnect"}
                  /\ thread'[g] = At(LoopEntry(thread[g].kind), thread[g].kind, o, 0,
                                     thread[g].todo \ {o})
         /\ ThreadOnObjects(g)'
<1>1. thread \in [Goroutines -> ThreadType] /\ ThreadOnObjects(g)
  BY DEF WellFormed, TypeOK, Bookkeeping, ThreadsOnObjects
<1>2. thread[g].kind \in Kinds /\ thread[g].todo \in SUBSET Runs
  BY <1>1 DEF ThreadType
<1>3. thread[g].todo # {} => thread[g].kind \in {"retry", "reconnect"}
  BY <1>1 DEF ThreadOnObjects
<1>4. \A o \in thread[g].todo : status'[o] # "none"
  BY <1>1, <1>2 DEF ThreadOnObjects, Persist
<1>5. EnterLoop(g, thread[g].kind, thread[g].todo)
  BY DEF LeaveRun
<1>6. QED
  BY ZenonT(60), <1>1, <1>2, <1>3, <1>4, <1>5, EnterLoopEffect

\* What every action but Dispatch has to show for the bookkeeping.
LEMMA BookkeepingKept ==
  ASSUME WellFormed, TypeOK', Persist,
         created' = created, params' = params,
         \A r \in RunIDs : runs'[r] \in {0, runs[r]},
         \A h \in Goroutines : thread'[h] = thread[h] \/ ThreadOnObjects(h)',
         \A r \in RunIDs : ackTimers'[r].armed =>
            ackTimers'[r] = ackTimers[r]
            \/ (ackTimers'[r].run # 0 /\ status[<<r, ackTimers'[r].run>>] # "none"),
         \A r \in RunIDs : resultTimers'[r].armed =>
            resultTimers'[r] = resultTimers[r]
            \/ (resultTimers'[r].run # 0 /\ status[<<r, resultTimers'[r].run>>] # "none")
  PROVE  WellFormed'
<1> USE DEF WellFormed, Bookkeeping
<1>1. ObjectsInOrder'
  BY DEF ObjectsInOrder, Persist
<1>2. ThreadsOnObjects'
  <2>1. ASSUME NEW h \in Goroutines, thread'[h] = thread[h] PROVE ThreadOnObjects(h)'
    <3>1. thread[h].todo \in SUBSET Runs
      BY DEF TypeOK, ThreadType
    <3>2. QED
      BY <2>1, <3>1 DEF ThreadsOnObjects, ThreadOnObjects, Persist
  <2>2. QED
    BY <2>1 DEF ThreadsOnObjects
<1>3. TimersOnObjects'
  <2> SUFFICES ASSUME NEW r \in RunIDs
               PROVE  /\ ackTimers'[r].armed =>
                            ackTimers'[r].run # 0 /\ status'[<<r, ackTimers'[r].run>>] # "none"
                      /\ resultTimers'[r].armed =>
                            resultTimers'[r].run # 0 /\ status'[<<r, resultTimers'[r].run>>] # "none"
    BY DEF TimersOnObjects
  <2>1. ackTimers'[r].run \in 0..MaxIncarnations /\ resultTimers'[r].run \in 0..MaxIncarnations
    BY DEF TypeOK, TimerType
  <2>2. ackTimers'[r].run # 0 => <<r, ackTimers'[r].run>> \in Runs
    BY <2>1, BoundsAssumption DEF Runs
  <2>3. resultTimers'[r].run # 0 => <<r, resultTimers'[r].run>> \in Runs
    BY <2>1, BoundsAssumption DEF Runs
  <2>4. QED
    BY <2>2, <2>3 DEF TimersOnObjects, Persist
<1>4. QED
  BY <1>1, <1>2, <1>3

-----------------------------------------------------------------------------
(* Type correctness and bookkeeping                                        *)

LEMMA InitWellFormed == Init => WellFormed
<1> SUFFICES ASSUME Init PROVE WellFormed
  OBVIOUS
<1> USE BoundsAssumption DEF Init, Transport!Init
<1>1. TypeOK
  BY IdleType DEF TypeOK, Runs, Statuses, NoTimer, TimerType
<1>2. ObjectsInOrder
  BY DEF ObjectsInOrder, Runs
<1>3. ThreadsOnObjects
  BY DEF ThreadsOnObjects, ThreadOnObjects, Idle
<1>4. TimersOnObjects
  BY DEF TimersOnObjects, NoTimer
<1>5. QED
  BY <1>1, <1>2, <1>3, <1>4 DEF WellFormed, Bookkeeping

LEMMA DispatchWellFormed ==
  ASSUME WellFormed, NEW g \in Goroutines, NEW r \in RunIDs, NEW n \in Nodes, NEW b \in Bodies,
         Dispatch(g, r, n, b)
  PROVE  WellFormed'
<1> DEFINE o == <<r, created[r] + 1>>
           pc == IF online[n] THEN "claim" ELSE "skip"
<1> USE BoundsAssumption DEF WellFormed, Bookkeeping
<1>1. o \in Runs
  BY DEF TypeOK, Runs, Dispatch
<1>2. status[o] = "none"
  BY <1>1 DEF TypeOK, ObjectsInOrder
<1>3. status' = [status EXCEPT ![o] = "dispatching"]
  BY DEF Dispatch, SetStatus
<1>4. /\ thread' \in [Goroutines -> ThreadType]
      /\ \A h \in Goroutines : h # g => thread'[h] = thread[h]
      /\ ThreadOnObjects(g)'
  <2>1. pc \in PCs \ {"idle"} /\ pc \notin {"retry", "ackTimeout"} /\ "dispatch" \in Kinds
    BY DEF PCs, Kinds
  <2>2. status'[o] # "none"
    BY <1>1, <1>3 DEF TypeOK
  <2>3. thread' = [thread EXCEPT ![g] = At(pc, "dispatch", o, 0, {})]
    BY DEF Dispatch
  <2>4. thread \in [Goroutines -> ThreadType]
    BY DEF TypeOK
  <2> HIDE DEF pc, o
  <2>5. 0 \in Nat /\ {} \in SUBSET Runs
    OBVIOUS
  <2>6. QED
    BY ONLY ZenonT(60), <1>1, <2>1, <2>2, <2>3, <2>4, <2>5, PlacedEffect, g \in Goroutines
<1>5. TypeOK'
  <2>1. metrics' \in [Gauges -> Int]
    BY SMTT(60) DEF Dispatch, TypeOK, Gauges
  <2>2. created' \in [RunIDs -> 0..MaxIncarnations] /\ runs' \in [RunIDs -> 0..MaxIncarnations]
    BY DEF Dispatch, TypeOK
  <2>3. status' \in [Runs -> Statuses] /\ params' \in [Runs -> (Nodes \X Bodies) \union {<<>>}]
    BY <1>1, <1>3 DEF Dispatch, TypeOK, Statuses
  <2>4. QED
    BY <1>4, <2>1, <2>2, <2>3 DEF Dispatch, TypeOK, transportVars
<1>6. ObjectsInOrder'
  BY SMTT(60), <1>1, <1>2, <1>3 DEF Dispatch, TypeOK, ObjectsInOrder, Runs, Statuses
<1>7. ThreadsOnObjects'
  <2>1. ASSUME NEW h \in Goroutines, h # g PROVE ThreadOnObjects(h)'
    <3>1. thread[h].todo \in SUBSET Runs
      BY DEF TypeOK, ThreadType
    <3>2. QED
      BY <1>1, <1>3, <1>4, <2>1, <3>1 DEF TypeOK, ThreadsOnObjects, ThreadOnObjects
  <2>2. QED
    BY <1>4, <2>1 DEF ThreadsOnObjects
<1>8. TimersOnObjects'
  <2>1. ackTimers' = ackTimers /\ resultTimers' = resultTimers
    BY DEF Dispatch
  <2>2. \A x \in Runs : status[x] # "none" => status'[x] # "none"
    BY <1>3, <1>1 DEF TypeOK
  <2>3. \A s \in RunIDs : /\ ackTimers[s].run \in 0..MaxIncarnations
                          /\ resultTimers[s].run \in 0..MaxIncarnations
    BY DEF TypeOK, TimerType
  <2>4. \A s \in RunIDs : /\ ackTimers[s].run # 0 => <<s, ackTimers[s].run>> \in Runs
                          /\ resultTimers[s].run # 0 => <<s, resultTimers[s].run>> \in Runs
    BY <2>3 DEF Runs
  <2>5. QED
    BY <2>1, <2>2, <2>4 DEF TimersOnObjects
<1>9. QED
  BY <1>5, <1>6, <1>7, <1>8

\* A goroutine inside the queue works on an existing run of an existing node.
LEMMA AtWork ==
  ASSUME WellFormed, NEW g \in Goroutines, thread[g].pc # "idle"
  PROVE  /\ thread[g].run \in Runs /\ status[thread[g].run] # "none"
         /\ NodeOf(thread[g].run) \in Nodes /\ thread[g].run[1] \in RunIDs
         /\ thread[g].run[2] \in 1..MaxIncarnations
         /\ thread[g].run = <<thread[g].run[1], thread[g].run[2]>>
         /\ thread[g].kind \in Kinds /\ thread[g].gen \in Nat /\ thread[g].todo \in SUBSET Runs
         /\ thread[g].todo # {} => thread[g].kind \in {"retry", "reconnect"}
         /\ \A t \in thread[g].todo : status[t] # "none"
<1>1. thread[g] \in ThreadType /\ ThreadOnObjects(g)
  BY DEF WellFormed, TypeOK, Bookkeeping, ThreadsOnObjects
<1>2. thread[g].run \in Runs /\ status[thread[g].run] # "none"
  BY <1>1 DEF ThreadOnObjects
<1>3. params[thread[g].run] \in Nodes \X Bodies
  BY <1>2 DEF WellFormed, Bookkeeping, ObjectsInOrder
<1>4. QED
  BY <1>1, <1>2, <1>3 DEF ThreadType, ThreadOnObjects, NodeOf, Runs

\* The object a tracked run ID maps to exists.
LEMMA TrackedExists ==
  ASSUME WellFormed, NEW r \in RunIDs, runs[r] # 0
  PROVE  /\ Current(r) \in Runs /\ status[Current(r)] # "none" /\ Current(r)[1] = r
         /\ NodeOf(Current(r)) \in Nodes
<1>1. runs[r] \in 1..MaxIncarnations /\ runs[r] = created[r]
  BY BoundsAssumption DEF WellFormed, TypeOK, Bookkeeping, ObjectsInOrder
<1>2. Current(r) \in Runs /\ Current(r)[1] = r /\ Current(r)[2] = created[r]
  BY <1>1 DEF Current, Runs
<1>3. status[Current(r)] # "none"
  BY <1>1, <1>2 DEF WellFormed, Bookkeeping, ObjectsInOrder
<1>4. params[Current(r)] \in Nodes \X Bodies
  BY <1>2, <1>3 DEF WellFormed, Bookkeeping, ObjectsInOrder
<1>5. QED
  BY <1>2, <1>3, <1>4 DEF NodeOf

LEMMA ReplyType ==
  ASSUME WellFormed, NEW g \in Goroutines, NEW o \in Runs, NEW a \in Answers, Reply(g, o, a)
  PROVE  answers' \subseteq Runs \X Answers
BY DEF Reply, WellFormed, TypeOK

LEMMA skipOfflineWellFormed ==
  ASSUME WellFormed, NEW g \in Goroutines, skipOffline(g)
  PROVE  WellFormed'
<1> DEFINE o == thread[g].run
<1>1. o \in Runs /\ status[o] # "none"
  BY AtWork DEF skipOffline
<1>2. Persist /\ status' \in [Runs -> Statuses]
  BY <1>1 DEF skipOffline, SetStatus, Persist, WellFormed, TypeOK, Statuses
<1>3. metrics' \in [Gauges -> Int]
  BY DEF skipOffline, WellFormed, TypeOK, Gauges
<1>4. answers' \subseteq Runs \X Answers
  BY <1>1, ReplyType DEF skipOffline, Answers
<1>5. /\ thread' \in [Goroutines -> ThreadType]
      /\ \A h \in Goroutines : h # g => thread'[h] = thread[h]
      /\ ThreadOnObjects(g)'
  BY <1>2, LeaveRunEffect DEF skipOffline
<1>6. TypeOK'
  BY <1>2, <1>3, <1>4, <1>5 DEF skipOffline, WellFormed, TypeOK, transportVars
<1>7. QED
  BY <1>2, <1>5, <1>6, BookkeepingKept DEF skipOffline

LEMMA claimDispatchLockedWellFormed ==
  ASSUME WellFormed, NEW g \in Goroutines, claimDispatchLocked(g)
  PROVE  WellFormed'
<1> DEFINE o == thread[g].run
<1>1. o \in Runs /\ status[o] # "none"
  BY AtWork DEF claimDispatchLocked
<1>2. Persist /\ status' \in [Runs -> Statuses]
  BY <1>1 DEF claimDispatchLocked, SetStatus, Persist, WellFormed, TypeOK, Statuses
<1>3. metrics' \in [Gauges -> Int] /\ attempts' \in [Runs -> Nat]
  BY SMTT(60) DEF claimDispatchLocked, WellFormed, TypeOK, Gauges
<1>4. answers' \subseteq Runs \X Answers
  BY <1>1, ReplyType DEF claimDispatchLocked, Answers, WellFormed, TypeOK
<1>5. /\ thread' \in [Goroutines -> ThreadType]
      /\ \A h \in Goroutines : h # g => thread'[h] = thread[h]
      /\ ThreadOnObjects(g)'
  <2>1. CASE LeaveRun(g)
    BY <1>2, <2>1, LeaveRunEffect
  <2>2. CASE Goto(g, "send", attempts[o] + 1)
    <3>1. attempts[o] + 1 \in Nat /\ thread[g].pc # "idle"
      BY <1>1 DEF claimDispatchLocked, WellFormed, TypeOK
    <3>2. "send" \in PCs \ {"idle", "retry", "ackTimeout"}
      BY DEF PCs
    <3>3. QED
      BY <1>2, <2>2, <3>1, <3>2, GotoEffect
  <2>3. QED
    BY <2>1, <2>2 DEF claimDispatchLocked
<1>6. TypeOK'
  BY <1>2, <1>3, <1>4, <1>5 DEF claimDispatchLocked, WellFormed, TypeOK, transportVars
<1>7. QED
  BY <1>2, <1>5, <1>6, BookkeepingKept DEF claimDispatchLocked

LEMMA sendWellFormed ==
  ASSUME WellFormed, NEW g \in Goroutines, send(g)
  PROVE  WellFormed'
<1> DEFINE o == thread[g].run
<1>1. o \in Runs /\ NodeOf(o) \in Nodes /\ o[1] \in RunIDs /\ thread[g].gen \in Nat
  BY AtWork DEF send
<1>2. Persist
  BY DEF send, Persist, queueVars
<1>3. delivered' \subseteq Nodes \X RunIDs
  BY <1>1 DEF send, WellFormed, TypeOK
<1>4. /\ thread' \in [Goroutines -> ThreadType]
      /\ \A h \in Goroutines : h # g => thread'[h] = thread[h]
      /\ ThreadOnObjects(g)'
  BY <1>1, <1>2, GotoEffect DEF send, PCs
<1>5. TypeOK'
  BY <1>3, <1>4 DEF send, WellFormed, TypeOK, queueVars, transportVars
<1>6. QED
  BY <1>2, <1>4, <1>5, BookkeepingKept DEF send, queueVars

LEMMA handleDispatchFailureWellFormed ==
  ASSUME WellFormed, NEW g \in Goroutines, handleDispatchFailure(g)
  PROVE  WellFormed'
<1> DEFINE o == thread[g].run
<1>1. o \in Runs /\ status[o] # "none"
  BY AtWork DEF handleDispatchFailure
<1>2. Persist /\ status' \in [Runs -> Statuses]
  BY <1>1 DEF handleDispatchFailure, SetStatus, Persist, WellFormed, TypeOK, Statuses
<1>3. metrics' \in [Gauges -> Int]
  BY DEF handleDispatchFailure, WellFormed, TypeOK, Gauges
<1>4. answers' \subseteq Runs \X Answers
  BY <1>1, ReplyType DEF handleDispatchFailure, Answers
<1>5. /\ thread' \in [Goroutines -> ThreadType]
      /\ \A h \in Goroutines : h # g => thread'[h] = thread[h]
      /\ ThreadOnObjects(g)'
  BY <1>2, LeaveRunEffect DEF handleDispatchFailure
<1>6. TypeOK'
  BY <1>2, <1>3, <1>4, <1>5 DEF handleDispatchFailure, WellFormed, TypeOK, transportVars
<1>7. QED
  BY <1>2, <1>5, <1>6, BookkeepingKept DEF handleDispatchFailure

LEMMA startAckTimerWellFormed ==
  ASSUME WellFormed, NEW g \in Goroutines, startAckTimer(g)
  PROVE  WellFormed'
<1> DEFINE o == thread[g].run
<1>1. /\ o \in Runs /\ status[o] # "none" /\ o[1] \in RunIDs /\ o[2] \in 1..MaxIncarnations
      /\ o = <<o[1], o[2]>> /\ thread[g].gen \in Nat
  BY AtWork DEF startAckTimer
<1>2. Persist
  BY DEF startAckTimer, Persist
<1>3. ackTimers' = ackTimers \/ ackTimers' = [ackTimers EXCEPT ![o[1]] = Timer(o, thread[g].gen)]
  BY DEF startAckTimer
<1>4. Timer(o, thread[g].gen) \in TimerType(Nat)
  BY <1>1, BoundsAssumption DEF Timer, TimerType
<1>5. ackTimers' \in [RunIDs -> TimerType(Nat)]
  BY <1>3, <1>4 DEF WellFormed, TypeOK
<1>6. answers' \subseteq Runs \X Answers
  BY <1>1, ReplyType DEF startAckTimer, Answers
<1>7. /\ thread' \in [Goroutines -> ThreadType]
      /\ \A h \in Goroutines : h # g => thread'[h] = thread[h]
      /\ ThreadOnObjects(g)'
  BY <1>2, LeaveRunEffect DEF startAckTimer
<1>8. TypeOK'
  BY <1>5, <1>6, <1>7 DEF startAckTimer, WellFormed, TypeOK, transportVars
<1>9. \A r \in RunIDs : ackTimers'[r] = ackTimers[r]
         \/ (ackTimers'[r].run # 0 /\ status[<<r, ackTimers'[r].run>>] # "none")
  <2>1. Timer(o, thread[g].gen).run = o[2] /\ o[2] # 0
    BY <1>1, BoundsAssumption DEF Timer
  <2>2. \A r \in RunIDs : ackTimers'[r] = ackTimers[r] \/ (r = o[1] /\ ackTimers'[r] = Timer(o, thread[g].gen))
    BY <1>1, <1>3 DEF WellFormed, TypeOK
  <2>3. QED
    BY <1>1, <2>1, <2>2
<1>10. QED
  BY <1>2, <1>7, <1>8, <1>9, BookkeepingKept DEF startAckTimer

LEMMA startResultTimerWellFormed ==
  ASSUME WellFormed, NEW g \in Goroutines, startResultTimer(g)
  PROVE  WellFormed'
<1> DEFINE o == thread[g].run
<1>1. /\ o \in Runs /\ status[o] # "none" /\ o[1] \in RunIDs /\ o[2] \in 1..MaxIncarnations
      /\ o = <<o[1], o[2]>>
  BY AtWork DEF startResultTimer
<1>2. Persist
  BY DEF startResultTimer, Persist
<1>3. resultTimers' = resultTimers \/ resultTimers' = [resultTimers EXCEPT ![o[1]] = Timer(o, 0)]
  BY DEF startResultTimer
<1>4. Timer(o, 0) \in TimerType({0})
  BY <1>1, BoundsAssumption DEF Timer, TimerType
<1>5. resultTimers' \in [RunIDs -> TimerType({0})]
  BY <1>3, <1>4 DEF WellFormed, TypeOK
<1>6. /\ thread' \in [Goroutines -> ThreadType]
      /\ \A h \in Goroutines : h # g => thread'[h] = thread[h]
      /\ ThreadOnObjects(g)'
  BY <1>2, LeaveRunEffect DEF startResultTimer
<1>7. TypeOK'
  BY <1>5, <1>6 DEF startResultTimer, WellFormed, TypeOK, transportVars
<1>8. \A r \in RunIDs : resultTimers'[r] = resultTimers[r]
         \/ (resultTimers'[r].run # 0 /\ status[<<r, resultTimers'[r].run>>] # "none")
  <2>1. Timer(o, 0).run = o[2] /\ o[2] # 0
    BY <1>1, BoundsAssumption DEF Timer
  <2>2. \A r \in RunIDs : resultTimers'[r] = resultTimers[r] \/ (r = o[1] /\ resultTimers'[r] = Timer(o, 0))
    BY <1>1, <1>3 DEF WellFormed, TypeOK
  <2>3. QED
    BY <1>1, <2>1, <2>2
<1>9. QED
  BY <1>2, <1>6, <1>7, <1>8, BookkeepingKept DEF startResultTimer

LEMMA dispatchRetryWellFormed ==
  ASSUME WellFormed, NEW g \in Goroutines, dispatchRetry(g)
  PROVE  WellFormed'
<1>1. Persist /\ thread[g].pc # "idle"
  BY DEF dispatchRetry, Persist, queueVars
<1>2. /\ thread' \in [Goroutines -> ThreadType]
      /\ \A h \in Goroutines : h # g => thread'[h] = thread[h]
      /\ ThreadOnObjects(g)'
  <2>1. CASE LeaveRun(g)
    BY <1>1, <2>1, LeaveRunEffect
  <2>2. CASE Goto(g, "claim", 0)
    <3>1. 0 \in Nat /\ "claim" \in PCs \ {"idle", "retry", "ackTimeout"}
      BY DEF PCs
    <3>2. QED
      BY <1>1, <2>2, <3>1, GotoEffect
  <2>3. QED
    BY <2>1, <2>2 DEF dispatchRetry
<1>3. TypeOK'
  BY <1>2 DEF dispatchRetry, WellFormed, TypeOK, queueVars, transportVars
<1>4. QED
  BY <1>1, <1>2, <1>3, BookkeepingKept DEF dispatchRetry, queueVars

LEMMA handleResultTimeoutWellFormed ==
  ASSUME WellFormed, NEW g \in Goroutines, handleResultTimeout(g)
  PROVE  WellFormed'
<1> DEFINE o == thread[g].run
<1>1. o \in Runs /\ status[o] # "none" /\ o[1] \in RunIDs
  BY AtWork DEF handleResultTimeout
<1>2. Persist /\ status' \in [Runs -> Statuses]
  BY <1>1 DEF handleResultTimeout, SetStatus, Persist, WellFormed, TypeOK, Statuses
<1>3. metrics' \in [Gauges -> Int]
  BY DEF handleResultTimeout, WellFormed, TypeOK, Gauges
<1>4. resultTimers' = resultTimers \/ resultTimers' = [resultTimers EXCEPT ![o[1]] = NoTimer]
  BY DEF handleResultTimeout
<1>5. NoTimer \in TimerType({0}) /\ NoTimer.armed = FALSE
  BY BoundsAssumption DEF NoTimer, TimerType
<1>6. /\ resultTimers' \in [RunIDs -> TimerType({0})]
      /\ \A r \in RunIDs : resultTimers'[r].armed => resultTimers'[r] = resultTimers[r]
  BY <1>1, <1>4, <1>5 DEF WellFormed, TypeOK
<1>7. /\ thread' \in [Goroutines -> ThreadType]
      /\ \A h \in Goroutines : h # g => thread'[h] = thread[h]
      /\ ThreadOnObjects(g)'
  BY <1>2, LeaveRunEffect DEF handleResultTimeout
<1>8. TypeOK'
  BY <1>2, <1>3, <1>6, <1>7 DEF handleResultTimeout, WellFormed, TypeOK, transportVars
<1>9. QED
  BY <1>2, <1>6, <1>7, <1>8, BookkeepingKept DEF handleResultTimeout

LEMMA AckTimerFiresWellFormed ==
  ASSUME WellFormed, NEW g \in Goroutines, NEW r \in RunIDs, AckTimerFires(g, r)
  PROVE  WellFormed'
<1> DEFINE o == <<r, ackTimers[r].run>>
           gen == ackTimers[r].gen
<1>1. /\ ackTimers[r] \in TimerType(Nat) /\ gen \in Nat
      /\ ackTimers[r].run \in 0..MaxIncarnations
  BY DEF WellFormed, TypeOK, TimerType
<1>2. ackTimers[r].run # 0 /\ status[o] # "none"
  BY DEF AckTimerFires, WellFormed, Bookkeeping, TimersOnObjects
<1>3. o \in Runs
  BY <1>1, <1>2, BoundsAssumption DEF Runs
<1>4. Persist /\ status' = status
  BY DEF AckTimerFires, Persist
<1>5. thread' = [thread EXCEPT ![g] = At("ackTimeout", "retry", o, gen, {})]
  BY DEF AckTimerFires
<1>6. Fired(ackTimers[r]) \in TimerType(Nat) /\ Fired(ackTimers[r]).armed = FALSE
  BY <1>1 DEF Fired, TimerType
<1>7. /\ ackTimers' \in [RunIDs -> TimerType(Nat)]
      /\ \A s \in RunIDs : ackTimers'[s].armed => ackTimers'[s] = ackTimers[s]
  BY <1>6 DEF AckTimerFires, WellFormed, TypeOK
<1>8. thread \in [Goroutines -> ThreadType]
  BY DEF WellFormed, TypeOK
<1>9. /\ "ackTimeout" \in PCs \ {"idle"} /\ "retry" \in Kinds /\ {} \in SUBSET Runs
      /\ status'[o] # "none"
  BY <1>2, <1>4 DEF PCs, Kinds
<1> HIDE DEF o, gen
<1>10. /\ thread' \in [Goroutines -> ThreadType]
       /\ \A h \in Goroutines : h # g => thread'[h] = thread[h]
       /\ ThreadOnObjects(g)'
  BY ONLY ZenonT(60), <1>1, <1>3, <1>5, <1>8, <1>9, PlacedEffect, g \in Goroutines
<1>11. TypeOK'
  BY <1>4, <1>7, <1>10 DEF AckTimerFires, WellFormed, TypeOK, transportVars
<1>12. QED
  BY <1>4, <1>7, <1>10, <1>11, BookkeepingKept DEF AckTimerFires

LEMMA ResultTimerFiresWellFormed ==
  ASSUME WellFormed, NEW g \in Goroutines, NEW r \in RunIDs, ResultTimerFires(g, r)
  PROVE  WellFormed'
<1> DEFINE o == <<r, resultTimers[r].run>>
<1>1. resultTimers[r] \in TimerType({0}) /\ resultTimers[r].run \in 0..MaxIncarnations
  BY DEF WellFormed, TypeOK, TimerType
<1>2. resultTimers[r].run # 0 /\ status[o] # "none"
  BY DEF ResultTimerFires, WellFormed, Bookkeeping, TimersOnObjects
<1>3. o \in Runs
  BY <1>1, <1>2, BoundsAssumption DEF Runs
<1>4. Persist /\ status' = status
  BY DEF ResultTimerFires, Persist
<1>5. thread' = [thread EXCEPT ![g] = At("resultTimeout", "timer", o, 0, {})]
  BY DEF ResultTimerFires
<1>6. Fired(resultTimers[r]) \in TimerType({0}) /\ Fired(resultTimers[r]).armed = FALSE
  BY <1>1 DEF Fired, TimerType
<1>7. /\ resultTimers' \in [RunIDs -> TimerType({0})]
      /\ \A s \in RunIDs : resultTimers'[s].armed => resultTimers'[s] = resultTimers[s]
  BY <1>6 DEF ResultTimerFires, WellFormed, TypeOK
<1>8. thread \in [Goroutines -> ThreadType]
  BY DEF WellFormed, TypeOK
<1>9. /\ "resultTimeout" \in PCs \ {"idle"} /\ "timer" \in Kinds /\ {} \in SUBSET Runs
      /\ status'[o] # "none" /\ 0 \in Nat /\ "resultTimeout" \notin {"retry", "ackTimeout"}
  BY <1>2, <1>4 DEF PCs, Kinds
<1> HIDE DEF o
<1>10. /\ thread' \in [Goroutines -> ThreadType]
       /\ \A h \in Goroutines : h # g => thread'[h] = thread[h]
       /\ ThreadOnObjects(g)'
  BY ONLY ZenonT(60), <1>3, <1>5, <1>8, <1>9, PlacedEffect, g \in Goroutines
<1>11. TypeOK'
  BY <1>4, <1>7, <1>10 DEF ResultTimerFires, WellFormed, TypeOK, transportVars
<1>12. QED
  BY <1>4, <1>7, <1>10, <1>11, BookkeepingKept DEF ResultTimerFires

LEMMA NoTimerType == /\ NoTimer \in TimerType(Nat) /\ NoTimer \in TimerType({0})
                     /\ NoTimer.armed = FALSE
BY BoundsAssumption DEF NoTimer, TimerType

LEMMA HandleAckAcceptedWellFormed ==
  ASSUME WellFormed, NEW g \in Goroutines, NEW n \in Nodes, NEW r \in RunIDs,
         HandleAckAccepted(g, n, r)
  PROVE  WellFormed'
<1> DEFINE o == Current(r)
<1>1. o \in Runs /\ status[o] # "none"
  BY TrackedExists DEF HandleAckAccepted
<1>2. Persist /\ status' \in [Runs -> Statuses] /\ status'[o] # "none"
  BY <1>1 DEF HandleAckAccepted, SetStatus, Persist, WellFormed, TypeOK, Statuses
<1>3. metrics' \in [Gauges -> Int]
  BY SMTT(60) DEF HandleAckAccepted, WellFormed, TypeOK, Gauges
<1>4. /\ ackTimers' \in [RunIDs -> TimerType(Nat)]
      /\ \A s \in RunIDs : ackTimers'[s].armed => ackTimers'[s] = ackTimers[s]
  BY NoTimerType DEF HandleAckAccepted, WellFormed, TypeOK
<1>5. thread' = [thread EXCEPT ![g] = At("armResult", "ack", o, 0, {})]
  BY DEF HandleAckAccepted
<1>6. thread \in [Goroutines -> ThreadType]
  BY DEF WellFormed, TypeOK
<1>7. /\ "armResult" \in PCs \ {"idle"} /\ "ack" \in Kinds /\ {} \in SUBSET Runs
      /\ 0 \in Nat /\ "armResult" \notin {"retry", "ackTimeout"}
  BY DEF PCs, Kinds
<1> HIDE DEF o
<1>8. /\ thread' \in [Goroutines -> ThreadType]
      /\ \A h \in Goroutines : h # g => thread'[h] = thread[h]
      /\ ThreadOnObjects(g)'
  BY ONLY ZenonT(60), <1>1, <1>2, <1>5, <1>6, <1>7, PlacedEffect, g \in Goroutines
<1>9. TypeOK'
  BY <1>2, <1>3, <1>4, <1>8 DEF HandleAckAccepted, WellFormed, TypeOK, transportVars
<1>10. QED
  BY <1>2, <1>4, <1>8, <1>9, BookkeepingKept DEF HandleAckAccepted

\* What settling a run does to the gauges of Metrics leaves each of them an integer.
LEMMA SettledGauges ==
  ASSUME NEW f \in [Gauges -> Int], NEW a \in Gauges, NEW b \in Gauges, NEW c \in Gauges
  PROVE  [f EXCEPT ![a] = @ - 1, ![b] = @ - 1, ![c] = @ + 1] \in [Gauges -> Int]
<1> DEFINE f1 == [f EXCEPT ![a] = @ - 1]
           f2 == [f1 EXCEPT ![b] = @ - 1]
<1>1. f1 \in [Gauges -> Int]
  OBVIOUS
<1>2. f2 \in [Gauges -> Int]
  <2> HIDE DEF f1
  <2> QED
    BY <1>1
<1>3. [f2 EXCEPT ![c] = @ + 1] \in [Gauges -> Int]
  <2> HIDE DEF f2
  <2> QED
    BY <1>2
<1>4. QED
  BY <1>3

LEMMA HandleAckRejectedWellFormed ==
  ASSUME WellFormed, NEW n \in Nodes, NEW r \in RunIDs, HandleAckRejected(n, r)
  PROVE  WellFormed'
<1> DEFINE o == Current(r)
<1>1. o \in Runs /\ status[o] # "none"
  BY TrackedExists DEF HandleAckRejected
<1>2. Persist /\ status' \in [Runs -> Statuses]
  BY <1>1 DEF HandleAckRejected, SetStatus, Persist, WellFormed, TypeOK, Statuses
<1>3. metrics' \in [Gauges -> Int]
  <2>1. metrics \in [Gauges -> Int]
    BY DEF WellFormed, TypeOK
  <2>2. metrics' = [metrics EXCEPT !["pendingDepth"] = @ - 1, !["awaitingAck"] = @ - 1,
                                   !["totalFailed"] = @ + 1]
    BY DEF HandleAckRejected
  <2>3. "pendingDepth" \in Gauges /\ "awaitingAck" \in Gauges /\ "totalFailed" \in Gauges
    BY DEF Gauges
  <2>4. QED
    BY ONLY <2>1, <2>2, <2>3, SettledGauges
<1>4. /\ ackTimers' \in [RunIDs -> TimerType(Nat)]
      /\ \A s \in RunIDs : ackTimers'[s].armed => ackTimers'[s] = ackTimers[s]
  BY NoTimerType DEF HandleAckRejected, WellFormed, TypeOK
<1>5. TypeOK'
  BY <1>2, <1>3, <1>4 DEF HandleAckRejected, WellFormed, TypeOK, transportVars
<1>6. QED
  BY <1>2, <1>4, <1>5, BookkeepingKept DEF HandleAckRejected

LEMMA HandleResultWellFormed ==
  ASSUME WellFormed, NEW n \in Nodes, NEW r \in RunIDs, NEW ok \in BOOLEAN, HandleResult(n, r, ok)
  PROVE  WellFormed'
<1> DEFINE o == Current(r)
<1>1. o \in Runs /\ status[o] # "none"
  BY TrackedExists DEF HandleResult
<1>2. Persist /\ status' \in [Runs -> Statuses]
  BY <1>1 DEF HandleResult, SetStatus, Persist, WellFormed, TypeOK, Statuses
<1>3. metrics' \in [Gauges -> Int]
  <2> DEFINE total == IF ok THEN "totalCompleted" ELSE "totalFailed"
  <2>1. metrics \in [Gauges -> Int]
    BY DEF WellFormed, TypeOK
  <2>2. metrics' = [metrics EXCEPT !["pendingDepth"] = @ - 1, !["awaitingResult"] = @ - 1,
                                   ![total] = @ + 1]
    BY DEF HandleResult
  <2>3. "pendingDepth" \in Gauges /\ "awaitingResult" \in Gauges /\ total \in Gauges
    BY DEF Gauges
  <2> HIDE DEF total
  <2>4. QED
    BY ONLY <2>1, <2>2, <2>3, SettledGauges
<1>4. /\ resultTimers' \in [RunIDs -> TimerType({0})]
      /\ \A s \in RunIDs : resultTimers'[s].armed => resultTimers'[s] = resultTimers[s]
  BY NoTimerType DEF HandleResult, WellFormed, TypeOK
<1>5. TypeOK'
  BY <1>2, <1>3, <1>4 DEF HandleResult, WellFormed, TypeOK, transportVars
<1>6. QED
  BY <1>2, <1>4, <1>5, BookkeepingKept DEF HandleResult

\* claimRetryLocked and the failure of the lost runs, for sets of existing runs.
LEMMA ClaimRetriesEffect ==
  ASSUME WellFormed, NEW claimed \in SUBSET Runs, NEW lost \in SUBSET Runs,
         \A o \in claimed \union lost : status[o] # "none",
         ClaimRetries(claimed, lost)
  PROVE  /\ Persist
         /\ status' \in [Runs -> Statuses]
         /\ metrics' \in [Gauges -> Int]
         /\ ackTimers' \in [RunIDs -> TimerType(Nat)]
         /\ \A s \in RunIDs : ackTimers'[s].armed => ackTimers'[s] = ackTimers[s]
         /\ resultTimers' \in [RunIDs -> TimerType({0})]
         /\ \A s \in RunIDs : resultTimers'[s].armed => resultTimers'[s] = resultTimers[s]
<1>1. Persist /\ status' \in [Runs -> Statuses]
  BY DEF ClaimRetries, Persist, Exhausted, WellFormed, TypeOK, Statuses
<1>2. /\ ackTimers' \in [RunIDs -> TimerType(Nat)]
      /\ \A s \in RunIDs : ackTimers'[s].armed => ackTimers'[s] = ackTimers[s]
  BY NoTimerType DEF ClaimRetries, WellFormed, TypeOK
<1>3. /\ resultTimers' \in [RunIDs -> TimerType({0})]
      /\ \A s \in RunIDs : resultTimers'[s].armed => resultTimers'[s] = resultTimers[s]
  BY NoTimerType DEF ClaimRetries, WellFormed, TypeOK
<1>4. metrics' \in [Gauges -> Int]
  <2>1. IsFiniteSet(Runs)
    BY RunsFinite
  <2>2. /\ Cardinality(Exhausted(claimed) \union lost) \in Int
        /\ Cardinality(Acking(claimed)) \in Int
        /\ Cardinality(lost) \in Int
        /\ Cardinality(Retried(claimed)) \in Int
    <3>1. /\ Exhausted(claimed) \union lost \subseteq Runs /\ Acking(claimed) \subseteq Runs
          /\ Retried(claimed) \subseteq Runs
      BY DEF Exhausted, Acking, Retried, InStatus
    <3>2. \A S \in SUBSET Runs : Cardinality(S) \in Int
      BY <2>1, FS_Subset, FS_CardinalityType
    <3>3. QED
      BY <3>1, <3>2
  <2>3. QED
    BY SMTT(60), <2>2 DEF ClaimRetries, WellFormed, TypeOK, Gauges
<1>5. QED
  BY <1>1, <1>2, <1>3, <1>4

LEMMA handleAckTimeoutWellFormed ==
  ASSUME WellFormed, NEW g \in Goroutines, handleAckTimeout(g)
  PROVE  WellFormed'
<1> DEFINE o == thread[g].run
<1>1. o \in Runs /\ status[o] # "none"
  BY AtWork DEF handleAckTimeout
<1>2. CASE ~SameAttempt(g)
  <2>1. Persist
    BY <1>2 DEF handleAckTimeout, Persist
  <2>2. /\ thread' \in [Goroutines -> ThreadType]
        /\ \A h \in Goroutines : h # g => thread'[h] = thread[h]
        /\ ThreadOnObjects(g)'
    BY <1>2, <2>1, LeaveRunEffect DEF handleAckTimeout
  <2>3. TypeOK'
    BY <1>2, <2>2 DEF handleAckTimeout, WellFormed, TypeOK, transportVars
  <2>4. QED
    BY <1>2, <2>1, <2>2, <2>3, BookkeepingKept DEF handleAckTimeout
<1>3. CASE SameAttempt(g)
  <2>1. ClaimRetries({o}, {}) /\ EnterLoop(g, "retry", Retried({o}))
    BY <1>3 DEF handleAckTimeout
  <2>2. /\ Persist
        /\ status' \in [Runs -> Statuses]
        /\ metrics' \in [Gauges -> Int]
        /\ ackTimers' \in [RunIDs -> TimerType(Nat)]
        /\ \A s \in RunIDs : ackTimers'[s].armed => ackTimers'[s] = ackTimers[s]
        /\ resultTimers' \in [RunIDs -> TimerType({0})]
        /\ \A s \in RunIDs : resultTimers'[s].armed => resultTimers'[s] = resultTimers[s]
    <3>1. {o} \in SUBSET Runs /\ {} \in SUBSET Runs /\ \A x \in {o} \union {} : status[x] # "none"
      BY <1>1
    <3>2. QED
      BY ONLY <2>1, <3>1, WellFormed, ClaimRetriesEffect
  <2>3. /\ Retried({o}) \in SUBSET Runs /\ "retry" \in Kinds
        /\ \A x \in Retried({o}) : status'[x] # "none"
    BY <1>1, <2>2 DEF Retried, Kinds, Persist
  <2>4. /\ thread' \in [Goroutines -> ThreadType]
        /\ \A h \in Goroutines : h # g => thread'[h] = thread[h]
        /\ ThreadOnObjects(g)'
    BY <2>1, <2>3, EnterLoopEffect DEF WellFormed, TypeOK
  <2>5. TypeOK'
    BY <2>2, <2>4 DEF handleAckTimeout, WellFormed, TypeOK, transportVars
  <2>6. QED
    BY <2>2, <2>4, <2>5, BookkeepingKept DEF handleAckTimeout
<1>4. QED
  BY <1>2, <1>3

LEMMA HandleNodeDisconnectWellFormed ==
  ASSUME WellFormed, NEW g \in Goroutines, NEW n \in Nodes, HandleNodeDisconnect(g, n)
  PROVE  WellFormed'
<1> DEFINE claimed == NodeRuns(n) \intersect (InStatus("awaiting_ack") \union InStatus("dispatching"))
           lost    == NodeRuns(n) \intersect InStatus("awaiting_result")
<1>1. ClaimRetries(claimed, lost) /\ EnterLoop(g, "retry", Retried(claimed))
  BY DEF HandleNodeDisconnect
<1>2. /\ claimed \in SUBSET Runs /\ lost \in SUBSET Runs
      /\ \A o \in claimed \union lost : status[o] # "none"
  BY DEF NodeRuns, InStatus
<1> HIDE DEF claimed, lost
<1>3. /\ Persist
      /\ status' \in [Runs -> Statuses]
      /\ metrics' \in [Gauges -> Int]
      /\ ackTimers' \in [RunIDs -> TimerType(Nat)]
      /\ \A s \in RunIDs : ackTimers'[s].armed => ackTimers'[s] = ackTimers[s]
      /\ resultTimers' \in [RunIDs -> TimerType({0})]
      /\ \A s \in RunIDs : resultTimers'[s].armed => resultTimers'[s] = resultTimers[s]
  BY <1>1, <1>2, ClaimRetriesEffect
<1>4. /\ Retried(claimed) \in SUBSET Runs /\ "retry" \in Kinds
      /\ \A x \in Retried(claimed) : status'[x] # "none"
  BY <1>2, <1>3 DEF Retried, Kinds, Persist
<1>5. /\ thread' \in [Goroutines -> ThreadType]
      /\ \A h \in Goroutines : h # g => thread'[h] = thread[h]
      /\ ThreadOnObjects(g)'
  BY <1>1, <1>4, EnterLoopEffect DEF WellFormed, TypeOK
<1>6. downs' \in [Nodes -> 0..MaxPendingEvents]
  BY BoundsAssumption DEF HandleNodeDisconnect, Transport!TakeDown, WellFormed, TypeOK
<1>7. TypeOK'
  BY <1>3, <1>5, <1>6 DEF HandleNodeDisconnect, Transport!TakeDown, WellFormed, TypeOK
<1>8. QED
  BY <1>3, <1>5, <1>7, BookkeepingKept DEF HandleNodeDisconnect

LEMMA HandleNodeReconnectWellFormed ==
  ASSUME WellFormed, NEW g \in Goroutines, NEW n \in Nodes, HandleNodeReconnect(g, n)
  PROVE  WellFormed'
<1> DEFINE S == NodeRuns(n) \intersect InStatus("retrying")
<1>1. EnterLoop(g, "reconnect", S)
  BY DEF HandleNodeReconnect
<1>2. Persist /\ status' = status
  BY DEF HandleNodeReconnect, queueVars, Persist
<1>3. S \in SUBSET Runs /\ "reconnect" \in Kinds /\ \A o \in S : status'[o] # "none"
  BY <1>2 DEF NodeRuns, InStatus, Kinds
<1> HIDE DEF S
<1>4. /\ thread' \in [Goroutines -> ThreadType]
      /\ \A h \in Goroutines : h # g => thread'[h] = thread[h]
      /\ ThreadOnObjects(g)'
  BY <1>1, <1>3, EnterLoopEffect DEF WellFormed, TypeOK
<1>5. ups' \in [Nodes -> 0..MaxPendingEvents]
  BY BoundsAssumption DEF HandleNodeReconnect, Transport!TakeUp, WellFormed, TypeOK
<1>6. TypeOK'
  BY <1>4, <1>5 DEF HandleNodeReconnect, Transport!TakeUp, WellFormed, TypeOK, queueVars
<1>7. QED
  BY <1>2, <1>4, <1>6, BookkeepingKept DEF HandleNodeReconnect, queueVars

\* The actions that start and move no goroutine.
LEMMA PassiveWellFormed ==
  ASSUME WellFormed,
         \/ \E r \in RunIDs, n \in Nodes, b \in Bodies : Redeliver(r, n, b)
         \/ \E S \in SUBSET Prunable : PruneCompleted(S)
         \/ \E n \in Nodes : NodeUp(n) \/ NodeDown(n) \/ OldSessionDown(n)
         \/ UNCHANGED vars
  PROVE  WellFormed'
<1>1. CASE \E r \in RunIDs, n \in Nodes, b \in Bodies : Redeliver(r, n, b)
  <2>1. PICK r \in RunIDs, n \in Nodes, b \in Bodies : Redeliver(r, n, b)
    BY <1>1
  <2>2. Current(r) \in Runs
    BY <2>1, TrackedExists DEF Redeliver
  <2>3. answers' \subseteq Runs \X Answers
    BY <2>1, <2>2 DEF Redeliver, redeliveryResult, Answers, WellFormed, TypeOK
  <2>4. TypeOK'
    BY <2>1, <2>3 DEF Redeliver, WellFormed, TypeOK, transportVars
  <2>5. QED
    BY <2>1, <2>4, BookkeepingKept DEF Redeliver, Persist
<1>2. CASE \E S \in SUBSET Prunable : PruneCompleted(S)
  <2>1. PICK S \in SUBSET Prunable : PruneCompleted(S)
    BY <1>2
  <2>2. runs' \in [RunIDs -> 0..MaxIncarnations] /\ \A r \in RunIDs : runs'[r] \in {0, runs[r]}
    BY <2>1, BoundsAssumption DEF PruneCompleted, WellFormed, TypeOK
  <2>3. TypeOK'
    BY <2>1, <2>2 DEF PruneCompleted, WellFormed, TypeOK, transportVars
  <2>4. QED
    BY <2>1, <2>2, <2>3, BookkeepingKept DEF PruneCompleted, Persist
<1>3. CASE \E n \in Nodes : NodeUp(n) \/ NodeDown(n) \/ OldSessionDown(n)
  <2>1. /\ online' \in [Nodes -> BOOLEAN] /\ ups' \in [Nodes -> 0..MaxPendingEvents]
        /\ downs' \in [Nodes -> 0..MaxPendingEvents]
    <3>1. ASSUME NEW n \in Nodes, NodeUp(n) PROVE <2>1!:
      BY <3>1, BoundsAssumption DEF NodeUp, Transport!NodeUp, WellFormed, TypeOK
    <3>2. ASSUME NEW n \in Nodes, NodeDown(n) PROVE <2>1!:
      BY <3>2, BoundsAssumption DEF NodeDown, Transport!NodeDown, WellFormed, TypeOK
    <3>3. ASSUME NEW n \in Nodes, OldSessionDown(n) PROVE <2>1!:
      BY <3>3, BoundsAssumption DEF OldSessionDown, Transport!OldSessionDown, WellFormed, TypeOK
    <3>4. QED
      BY <1>3, <3>1, <3>2, <3>3
  <2>2. UNCHANGED <<queueVars, thread, delivered>>
    BY <1>3 DEF NodeUp, NodeDown, OldSessionDown
  <2>3. TypeOK'
    BY <2>1, <2>2 DEF WellFormed, TypeOK, queueVars
  <2>4. QED
    BY <2>2, <2>3, BookkeepingKept DEF queueVars, Persist
<1>4. CASE UNCHANGED vars
  <2>1. TypeOK'
    BY <1>4 DEF vars, queueVars, transportVars, WellFormed, TypeOK
  <2>2. QED
    BY <1>4, <2>1, BookkeepingKept DEF vars, queueVars, Persist
<1>5. QED
  BY <1>1, <1>2, <1>3, <1>4

LEMMA NextWellFormed == WellFormed /\ [Next]_vars => WellFormed'
<1> SUFFICES ASSUME WellFormed, [Next]_vars PROVE WellFormed'
  OBVIOUS
<1>1. ASSUME NEW g \in Goroutines, Step(g) PROVE WellFormed'
  BY <1>1, skipOfflineWellFormed, claimDispatchLockedWellFormed, sendWellFormed,
     startAckTimerWellFormed, handleDispatchFailureWellFormed, dispatchRetryWellFormed,
     handleAckTimeoutWellFormed, startResultTimerWellFormed, handleResultTimeoutWellFormed
     DEF Step
<1>2. ASSUME NEW r \in RunIDs, AckTimer(r) \/ ResultTimer(r) PROVE WellFormed'
  BY <1>2, AckTimerFiresWellFormed, ResultTimerFiresWellFormed DEF AckTimer, ResultTimer
<1>3. ASSUME NEW n \in Nodes, DownDelivered(n) \/ UpDelivered(n) PROVE WellFormed'
  BY <1>3, HandleNodeDisconnectWellFormed, HandleNodeReconnectWellFormed
     DEF DownDelivered, UpDelivered
<1>4. ASSUME NEW r \in RunIDs, NEW n \in Nodes, NEW b \in Bodies, NEW g \in Goroutines,
             Dispatch(g, r, n, b)
      PROVE  WellFormed'
  BY <1>4, DispatchWellFormed
<1>5. ASSUME NEW r \in RunIDs, NEW n \in Nodes,
             \/ \E g \in Goroutines : HandleAckAccepted(g, n, r)
             \/ HandleAckRejected(n, r)
             \/ \E ok \in BOOLEAN : HandleResult(n, r, ok)
      PROVE  WellFormed'
  BY <1>5, HandleAckAcceptedWellFormed, HandleAckRejectedWellFormed, HandleResultWellFormed
<1>6. QED
  BY <1>1, <1>2, <1>3, <1>4, <1>5, PassiveWellFormed DEF Next

\* Manager's fields keep their types, and every pointer held by a goroutine or a timer is
\* a run that exists.
THEOREM TypeCorrect == Spec => []TypeOK
<1>1. Spec => []WellFormed
  BY InitWellFormed, NextWellFormed, PTL DEF Spec
<1>2. WellFormed => TypeOK
  BY DEF WellFormed
<1>3. QED
  BY <1>1, <1>2, PTL

-----------------------------------------------------------------------------
(***************************************************************************)
(* The job queue implements RunLifecycle, respects the retry limit, and    *)
(* never takes back a node_offline answer.                                 *)
(*                                                                         *)
(* Every action moves each run by one Transition or leaves it alone; this  *)
(* is the only place where the actions are taken apart.  The retry limit,  *)
(* the refinement and the finality of outcomes then follow from Transition *)
(* and not from the individual actions.                                    *)
(***************************************************************************)

\* What one step may do to a run's status and to its number of attempts.
Kept(o) == attempts'[o] = attempts[o]
Transition(o) ==
    \/ status'[o] = status[o] /\ Kept(o)
    \/ status[o] = "none" /\ status'[o] = "dispatching" /\ Kept(o)
    \/ /\ status[o] \in {"dispatching", "retrying"} /\ status'[o] = "awaiting_ack"
       /\ attempts'[o] = attempts[o] + 1
    \/ status[o] = "dispatching" /\ status'[o] = "skipped_offline" /\ Kept(o)
    \/ /\ status[o] = "awaiting_ack" /\ Kept(o)
       /\ status'[o] \in {"skipped_offline", "rejected", "awaiting_result"}
    \/ /\ status[o] \in {"dispatching", "awaiting_ack"} /\ Kept(o)
       /\ \/ status'[o] = "retrying" /\ attempts[o] < MaxRetries
          \/ status'[o] = "failed" /\ attempts[o] >= MaxRetries
    \/ status[o] = "awaiting_result" /\ status'[o] \in {"completed", "failed"} /\ Kept(o)

Transitions == \A o \in Runs : Transition(o)

\* The strengthening of AttemptsBounded: a run that was never claimed was never attempted.
LimitKept ==
    /\ AttemptsBounded
    /\ \A o \in Runs : status[o] \in {"none", "dispatching"} => attempts[o] = 0

-----------------------------------------------------------------------------
(* Every action moves every run by a Transition                            *)

LEMMA DispatchTransitions ==
  ASSUME WellFormed, NEW g \in Goroutines, NEW r \in RunIDs, NEW n \in Nodes, NEW b \in Bodies,
         Dispatch(g, r, n, b)
  PROVE  Transitions
<1> DEFINE o == <<r, created[r] + 1>>
<1>1. o \in Runs /\ status[o] = "none"
  BY BoundsAssumption DEF Dispatch, Runs, WellFormed, TypeOK, Bookkeeping, ObjectsInOrder
<1>2. attempts' = attempts /\ status' = [status EXCEPT ![o] = "dispatching"]
  BY DEF Dispatch, SetStatus
<1>3. QED
  BY <1>1, <1>2 DEF Transitions, Transition, Kept, WellFormed, TypeOK

LEMMA skipOfflineTransitions ==
  ASSUME WellFormed, NEW g \in Goroutines, skipOffline(g)
  PROVE  Transitions
<1> DEFINE o == thread[g].run
<1>1. /\ attempts' = attempts
      /\ \/ status' = status
         \/ status[o] = "dispatching" /\ status' = [status EXCEPT ![o] = "skipped_offline"]
  BY DEF skipOffline, SetStatus
<1>2. QED
  BY <1>1 DEF Transitions, Transition, Kept, WellFormed, TypeOK

LEMMA claimDispatchLockedTransitions ==
  ASSUME WellFormed, NEW g \in Goroutines, claimDispatchLocked(g)
  PROVE  Transitions
<1> DEFINE o == thread[g].run
<1>1. \/ attempts' = attempts /\ status' = status
      \/ /\ status[o] \in {"dispatching", "retrying"}
         /\ status' = [status EXCEPT ![o] = "awaiting_ack"]
         /\ attempts' = [attempts EXCEPT ![o] = @ + 1]
  BY DEF claimDispatchLocked, SetStatus, ExpectedStatus
<1>2. QED
  BY <1>1 DEF Transitions, Transition, Kept, WellFormed, TypeOK

LEMMA handleDispatchFailureTransitions ==
  ASSUME WellFormed, NEW g \in Goroutines, handleDispatchFailure(g)
  PROVE  Transitions
<1> DEFINE o == thread[g].run
<1>1. /\ attempts' = attempts
      /\ \/ status' = status
         \/ status[o] = "awaiting_ack" /\ status' = [status EXCEPT ![o] = "skipped_offline"]
  BY DEF handleDispatchFailure, SetStatus, SameAttempt
<1>2. QED
  BY <1>1 DEF Transitions, Transition, Kept, WellFormed, TypeOK

LEMMA handleResultTimeoutTransitions ==
  ASSUME WellFormed, NEW g \in Goroutines, handleResultTimeout(g)
  PROVE  Transitions
<1> DEFINE o == thread[g].run
<1>1. /\ attempts' = attempts
      /\ \/ status' = status
         \/ status[o] = "awaiting_result" /\ status' = [status EXCEPT ![o] = "failed"]
  BY DEF handleResultTimeout, SetStatus
<1>2. QED
  BY <1>1 DEF Transitions, Transition, Kept, WellFormed, TypeOK

LEMMA AnswerTransitions ==
  ASSUME WellFormed, NEW n \in Nodes, NEW r \in RunIDs,
         \/ \E g \in Goroutines : HandleAckAccepted(g, n, r)
         \/ HandleAckRejected(n, r)
         \/ \E ok \in BOOLEAN : HandleResult(n, r, ok)
  PROVE  Transitions
<1> DEFINE o == Current(r)
<1>1. /\ attempts' = attempts
      /\ \/ /\ status[o] = "awaiting_ack"
            /\ \/ status' = [status EXCEPT ![o] = "awaiting_result"]
               \/ status' = [status EXCEPT ![o] = "rejected"]
         \/ /\ status[o] = "awaiting_result"
            /\ \/ status' = [status EXCEPT ![o] = "completed"]
               \/ status' = [status EXCEPT ![o] = "failed"]
  <2>1. ASSUME NEW g \in Goroutines, HandleAckAccepted(g, n, r) PROVE <1>1!:
    BY <2>1 DEF HandleAckAccepted, SetStatus
  <2>2. ASSUME HandleAckRejected(n, r) PROVE <1>1!:
    BY <2>2 DEF HandleAckRejected, SetStatus
  <2>3. ASSUME NEW ok \in BOOLEAN, HandleResult(n, r, ok) PROVE <1>1!:
    BY <2>3 DEF HandleResult, SetStatus
  <2>4. QED
    BY <2>1, <2>2, <2>3
<1> HIDE DEF o
<1>2. QED
  BY <1>1 DEF Transitions, Transition, Kept, WellFormed, TypeOK

\* claimRetryLocked on dispatched or unacknowledged runs, and the loss of accepted ones.
LEMMA ClaimRetriesTransitions ==
  ASSUME WellFormed, NEW claimed \in SUBSET Runs, NEW lost \in SUBSET Runs,
         \A o \in claimed : status[o] \in {"dispatching", "awaiting_ack"},
         \A o \in lost : status[o] = "awaiting_result",
         ClaimRetries(claimed, lost), attempts' = attempts
  PROVE  Transitions
<1> SUFFICES ASSUME NEW o \in Runs PROVE Transition(o)
  BY DEF Transitions
<1>1. status'[o] = IF o \in Exhausted(claimed) \union lost THEN "failed"
                   ELSE IF o \in claimed THEN "retrying" ELSE status[o]
  BY DEF ClaimRetries
<1>2. o \in Exhausted(claimed) <=> o \in claimed /\ attempts[o] >= MaxRetries
  BY DEF Exhausted
<1>3. attempts[o] \in Nat /\ attempts'[o] = attempts[o]
  BY DEF WellFormed, TypeOK
<1>4. CASE o \in lost
  BY <1>1, <1>3, <1>4 DEF Transition, Kept
<1>5. CASE o \in claimed /\ o \notin lost
  BY <1>1, <1>2, <1>3, <1>5, MaxRetriesAssumption DEF Transition, Kept
<1>6. CASE o \notin claimed /\ o \notin lost
  BY <1>1, <1>2, <1>3, <1>6 DEF Transition, Kept
<1>7. QED
  BY <1>4, <1>5, <1>6

LEMMA handleAckTimeoutTransitions ==
  ASSUME WellFormed, NEW g \in Goroutines, handleAckTimeout(g)
  PROVE  Transitions
<1> DEFINE o == thread[g].run
<1>1. attempts' = attempts
  BY DEF handleAckTimeout
<1>2. CASE ~SameAttempt(g)
  BY <1>1, <1>2 DEF handleAckTimeout, Transitions, Transition, Kept
<1>3. CASE SameAttempt(g)
  <2>1. ClaimRetries({o}, {}) /\ status[o] = "awaiting_ack" /\ o \in Runs
    BY <1>3, AtWork DEF handleAckTimeout, SameAttempt
  <2>2. /\ {o} \in SUBSET Runs /\ {} \in SUBSET Runs
        /\ \A x \in {o} : status[x] \in {"dispatching", "awaiting_ack"}
        /\ \A x \in {} : status[x] = "awaiting_result"
    BY <2>1
  <2>3. QED
    BY ONLY WellFormed, <1>1, <2>1, <2>2, ClaimRetriesTransitions
<1>4. QED
  BY <1>2, <1>3

LEMMA HandleNodeDisconnectTransitions ==
  ASSUME WellFormed, NEW g \in Goroutines, NEW n \in Nodes, HandleNodeDisconnect(g, n)
  PROVE  Transitions
<1> DEFINE claimed == NodeRuns(n) \intersect (InStatus("awaiting_ack") \union InStatus("dispatching"))
           lost    == NodeRuns(n) \intersect InStatus("awaiting_result")
<1>1. ClaimRetries(claimed, lost) /\ attempts' = attempts
  BY DEF HandleNodeDisconnect
<1>2. /\ claimed \in SUBSET Runs /\ lost \in SUBSET Runs
      /\ \A o \in claimed : status[o] \in {"dispatching", "awaiting_ack"}
      /\ \A o \in lost : status[o] = "awaiting_result"
  BY DEF NodeRuns, InStatus
<1> HIDE DEF claimed, lost
<1>3. QED
  BY <1>1, <1>2, ClaimRetriesTransitions

LEMMA NextTransitions == WellFormed /\ [Next]_vars => Transitions
<1> SUFFICES ASSUME WellFormed, [Next]_vars PROVE Transitions
  OBVIOUS
<1>1. ASSUME UNCHANGED <<status, attempts>> PROVE Transitions
  BY <1>1 DEF Transitions, Transition, Kept
<1>2. ASSUME NEW g \in Goroutines, Step(g) PROVE Transitions
  <2>1. CASE send(g) \/ startAckTimer(g) \/ dispatchRetry(g) \/ startResultTimer(g)
    BY <1>1, <2>1 DEF send, startAckTimer, dispatchRetry, startResultTimer, queueVars
  <2>2. QED
    BY <1>2, <2>1, skipOfflineTransitions, claimDispatchLockedTransitions,
       handleDispatchFailureTransitions, handleAckTimeoutTransitions,
       handleResultTimeoutTransitions DEF Step
<1>3. ASSUME NEW r \in RunIDs, AckTimer(r) \/ ResultTimer(r) PROVE Transitions
  BY <1>1, <1>3 DEF AckTimer, ResultTimer, AckTimerFires, ResultTimerFires
<1>4. ASSUME NEW n \in Nodes, DownDelivered(n) \/ UpDelivered(n) PROVE Transitions
  <2>1. CASE UpDelivered(n)
    BY <1>1, <2>1 DEF UpDelivered, HandleNodeReconnect, queueVars
  <2>2. QED
    BY <1>4, <2>1, HandleNodeDisconnectTransitions DEF DownDelivered
<1>5. ASSUME NEW r \in RunIDs, NEW n \in Nodes, NEW b \in Bodies,
             Redeliver(r, n, b) \/ \E g \in Goroutines : Dispatch(g, r, n, b)
      PROVE  Transitions
  <2>1. CASE Redeliver(r, n, b)
    BY <1>1, <2>1 DEF Redeliver
  <2>2. QED
    BY <1>5, <2>1, DispatchTransitions
<1>6. ASSUME NEW r \in RunIDs, NEW n \in Nodes,
             \/ \E g \in Goroutines : HandleAckAccepted(g, n, r)
             \/ HandleAckRejected(n, r)
             \/ \E ok \in BOOLEAN : HandleResult(n, r, ok)
      PROVE  Transitions
  BY <1>6, AnswerTransitions
<1>7. ASSUME NEW S \in SUBSET Prunable, PruneCompleted(S) PROVE Transitions
  BY <1>1, <1>7 DEF PruneCompleted
<1>8. ASSUME NEW n \in Nodes, NodeUp(n) \/ NodeDown(n) \/ OldSessionDown(n) PROVE Transitions
  BY <1>1, <1>8 DEF NodeUp, NodeDown, OldSessionDown, queueVars
<1>9. CASE UNCHANGED vars
  BY <1>1, <1>9 DEF vars, queueVars
<1>10. QED
  BY <1>2, <1>3, <1>4, <1>5, <1>6, <1>7, <1>8, <1>9 DEF Next

-----------------------------------------------------------------------------
(* The retry limit                                                         *)

LEMMA InitLimitKept == Init => LimitKept
BY MaxRetriesAssumption DEF Init, LimitKept, AttemptsBounded

LEMMA NextLimitKept == WellFormed /\ LimitKept /\ Transitions => LimitKept'
<1> SUFFICES ASSUME WellFormed, LimitKept, Transitions PROVE LimitKept'
  OBVIOUS
<1> SUFFICES ASSUME NEW o \in Runs
             PROVE  /\ attempts'[o] <= IF MaxRetries = 0 THEN 1 ELSE MaxRetries
                    /\ status'[o] = "retrying" => attempts'[o] < MaxRetries
                    /\ status'[o] \in {"none", "dispatching"} => attempts'[o] = 0
  BY DEF LimitKept, AttemptsBounded
<1>1. /\ attempts[o] \in Nat
      /\ attempts[o] <= IF MaxRetries = 0 THEN 1 ELSE MaxRetries
      /\ status[o] = "retrying" => attempts[o] < MaxRetries
      /\ status[o] \in {"none", "dispatching"} => attempts[o] = 0
  BY DEF LimitKept, AttemptsBounded, WellFormed, TypeOK
<1>2. Transition(o)
  BY DEF Transitions
<1>3. QED
  BY <1>1, <1>2, MaxRetriesAssumption DEF Transition, Kept

LEMMA Reachable == Spec => [](WellFormed /\ LimitKept)
<1>1. Init => WellFormed /\ LimitKept
  BY InitWellFormed, InitLimitKept
<1>2. WellFormed /\ LimitKept /\ [Next]_vars => (WellFormed /\ LimitKept)'
  BY NextWellFormed, NextTransitions, NextLimitKept
<1>3. QED
  BY <1>1, <1>2, PTL DEF Spec

\* claimRetryLocked's limit holds whatever acknowledgements, timeouts, disconnects and
\* reconnects interleave: a run is attempted at most MaxRetries times (once when that is
\* 0), and one that is queued for a retry still has a try left.
THEOREM RetryLimit == Spec => []AttemptsBounded
<1>1. LimitKept => AttemptsBounded
  BY DEF LimitKept
<1>2. QED
  BY <1>1, Reachable, PTL

-----------------------------------------------------------------------------
(* The refinement                                                          *)

LEMMA InitRefines == Init => Lifecycle!Init
BY DEF Init, Lifecycle!Init, Phase

LEMMA PhaseType ==
  ASSUME NEW s \in Statuses
  PROVE  Phase(s) \in Lifecycle!Phases
BY DEF Statuses, Phase, Lifecycle!Phases, Lifecycle!Outcomes

LEMMA StepRefines ==
  ASSUME WellFormed, WellFormed', LimitKept, Transitions
  PROVE  Lifecycle!Next
<1> DEFINE phase == [o \in Runs |-> Phase(status[o])]
           phaseP == [o \in Runs |-> Phase(status'[o])]
<1>1. phaseP \in [Runs -> Lifecycle!Phases] /\ attempts' \in [Runs -> Nat]
  BY PhaseType DEF WellFormed, TypeOK
<1>2. ASSUME NEW o \in Runs
      PROVE  Lifecycle!RunStep(o) \/ (phaseP[o] = phase[o] /\ Lifecycle!Keep(o))
  <2>1. /\ phase[o] = Phase(status[o]) /\ phaseP[o] = Phase(status'[o])
        /\ attempts[o] \in Nat /\ Transition(o)
        /\ status[o] = "retrying" => attempts[o] < MaxRetries
        /\ status[o] \in {"none", "dispatching"} => attempts[o] = 0
    BY DEF Transitions, WellFormed, TypeOK, LimitKept, AttemptsBounded
  <2>2. CASE status'[o] = status[o] /\ Kept(o)
    BY <2>1, <2>2 DEF Kept, Lifecycle!Keep
  <2>3. CASE status[o] = "none" /\ status'[o] = "dispatching" /\ Kept(o)
    BY <2>1, <2>3 DEF Kept, Phase, Lifecycle!RunStep, Lifecycle!Enqueue, Lifecycle!Move, Lifecycle!Keep
  <2>4. CASE /\ status[o] \in {"dispatching", "retrying"} /\ status'[o] = "awaiting_ack"
             /\ attempts'[o] = attempts[o] + 1
    BY <2>1, <2>4 DEF Phase, Lifecycle!RunStep, Lifecycle!Offer, Lifecycle!Move
  <2>5. CASE status[o] = "dispatching" /\ status'[o] = "skipped_offline" /\ Kept(o)
    BY <2>1, <2>5 DEF Kept, Phase, Lifecycle!RunStep, Lifecycle!Skip, Lifecycle!Move, Lifecycle!Keep
  <2>6. CASE /\ status[o] = "awaiting_ack" /\ Kept(o)
             /\ status'[o] \in {"skipped_offline", "rejected", "awaiting_result"}
    BY <2>1, <2>6 DEF Kept, Phase, Lifecycle!RunStep, Lifecycle!Skip, Lifecycle!Reject,
       Lifecycle!Accept, Lifecycle!Move, Lifecycle!Keep
  <2>7. CASE /\ status[o] \in {"dispatching", "awaiting_ack"} /\ Kept(o)
             /\ status'[o] = "retrying" /\ attempts[o] < MaxRetries
    BY <2>1, <2>7 DEF Kept, Phase, Lifecycle!RunStep, Lifecycle!Requeue, Lifecycle!Move, Lifecycle!Keep
  <2>8. CASE /\ status[o] \in {"dispatching", "awaiting_ack"} /\ Kept(o)
             /\ status'[o] = "failed" /\ attempts[o] >= MaxRetries
    BY <2>1, <2>8 DEF Kept, Phase, Lifecycle!RunStep, Lifecycle!Fail, Lifecycle!Move, Lifecycle!Keep
  <2>9. CASE status[o] = "awaiting_result" /\ status'[o] \in {"completed", "failed"} /\ Kept(o)
    BY <2>1, <2>9 DEF Kept, Phase, Lifecycle!RunStep, Lifecycle!Fail, Lifecycle!Complete,
       Lifecycle!Move, Lifecycle!Keep
  <2>10. QED
    BY <2>1, <2>2, <2>3, <2>4, <2>5, <2>6, <2>7, <2>8, <2>9 DEF Transition
<1>3. QED
  BY <1>1, <1>2 DEF Lifecycle!Next

\* The job queue implements RunLifecycle: seen through the phase of each run and its number
\* of attempts, every behaviour of manager.go is a behaviour of the abstract specification.
THEOREM Refinement == Spec => FollowsLifecycle
<1>1. WellFormed /\ LimitKept /\ (WellFormed /\ LimitKept)' /\ [Next]_vars
        => [Lifecycle!Next]_<<[o \in Runs |-> Phase(status[o])], attempts>>
  BY NextTransitions, StepRefines
<1>2. QED
  BY <1>1, InitRefines, Reachable, PTL DEF Spec, FollowsLifecycle, Lifecycle!Spec

-----------------------------------------------------------------------------
(* node_offline answers                                                    *)

\* Whoever adds a node_offline answer leaves the run skipped.
LEMMA NewOfflineAnswers ==
  ASSUME WellFormed, [Next]_vars, NEW o \in Runs,
         <<o, "node_offline">> \in answers', <<o, "node_offline">> \notin answers
  PROVE  status'[o] = "skipped_offline"
<1>1. ASSUME answers' = answers PROVE status'[o] = "skipped_offline"
  BY <1>1
<1>2. ASSUME NEW g \in Goroutines, Step(g) PROVE status'[o] = "skipped_offline"
  <2>1. ASSUME NEW x \in Runs, Reply(g, x, "ok") PROVE FALSE
    BY <2>1 DEF Reply
  <2>2. ASSUME NEW x \in Runs, Reply(g, x, "node_offline") PROVE x = o
    BY <2>2 DEF Reply
  <2>3. thread[g].run \in Runs /\ status \in [Runs -> Statuses]
    BY <1>2, AtWork DEF Step, skipOffline, claimDispatchLocked, send, startAckTimer,
       handleDispatchFailure, dispatchRetry, handleAckTimeout, startResultTimer,
       handleResultTimeout, WellFormed, TypeOK
  <2>4. CASE skipOffline(g)
    BY <2>1, <2>2, <2>3, <2>4 DEF skipOffline, SetStatus
  <2>5. CASE claimDispatchLocked(g)
    BY <1>1, <2>1, <2>3, <2>5 DEF claimDispatchLocked
  <2>6. CASE startAckTimer(g)
    BY <2>1, <2>3, <2>6 DEF startAckTimer
  <2>7. CASE handleDispatchFailure(g)
    BY <2>1, <2>2, <2>3, <2>7 DEF handleDispatchFailure, SetStatus
  <2>8. CASE send(g) \/ dispatchRetry(g) \/ handleAckTimeout(g) \/ startResultTimer(g)
             \/ handleResultTimeout(g)
    BY <1>1, <2>8 DEF send, dispatchRetry, handleAckTimeout, startResultTimer,
       handleResultTimeout, queueVars
  <2>9. QED
    BY <1>2, <2>4, <2>5, <2>6, <2>7, <2>8 DEF Step
<1>3. ASSUME NEW r \in RunIDs, NEW n \in Nodes, NEW b \in Bodies, Redeliver(r, n, b)
      PROVE  status'[o] = "skipped_offline"
  <2>1. Current(r) = o /\ redeliveryResult(o, n, b) = "node_offline"
    BY <1>3 DEF Redeliver
  <2>2. QED
    BY <1>3, <2>1 DEF Redeliver, redeliveryResult
<1>4. ASSUME NEW r \in RunIDs, AckTimer(r) \/ ResultTimer(r) PROVE answers' = answers
  BY <1>4 DEF AckTimer, ResultTimer, AckTimerFires, ResultTimerFires
<1>5. ASSUME NEW n \in Nodes, DownDelivered(n) \/ UpDelivered(n) PROVE answers' = answers
  BY <1>5 DEF DownDelivered, UpDelivered, HandleNodeDisconnect, HandleNodeReconnect, queueVars
<1>6. ASSUME NEW r \in RunIDs, NEW n \in Nodes, NEW b \in Bodies, NEW g \in Goroutines,
             Dispatch(g, r, n, b)
      PROVE  answers' = answers
  BY <1>6 DEF Dispatch
<1>7. ASSUME NEW r \in RunIDs, NEW n \in Nodes,
             \/ \E g \in Goroutines : HandleAckAccepted(g, n, r)
             \/ HandleAckRejected(n, r)
             \/ \E ok \in BOOLEAN : HandleResult(n, r, ok)
      PROVE  answers' = answers
  BY <1>7 DEF HandleAckAccepted, HandleAckRejected, HandleResult
<1>8. ASSUME NEW S \in SUBSET Prunable, PruneCompleted(S) PROVE answers' = answers
  BY <1>8 DEF PruneCompleted
<1>9. ASSUME NEW n \in Nodes, NodeUp(n) \/ NodeDown(n) \/ OldSessionDown(n)
      PROVE  answers' = answers
  BY <1>9 DEF NodeUp, NodeDown, OldSessionDown, queueVars
<1>10. CASE UNCHANGED vars
  BY <1>1, <1>10 DEF vars, queueVars
<1>11. QED
  BY <1>1, <1>2, <1>3, <1>4, <1>5, <1>6, <1>7, <1>8, <1>9, <1>10 DEF Next

\* A caller of Dispatch that was told node_offline was told the truth for good: no retry,
\* acknowledgement, result or redelivery ever revives the run.
THEOREM OfflineIsFinal == Spec => []OfflineAnswerIsFinal
<1>1. Init => OfflineAnswerIsFinal
  BY DEF Init, OfflineAnswerIsFinal
<1>2. WellFormed /\ OfflineAnswerIsFinal /\ [Next]_vars => OfflineAnswerIsFinal'
  <2> SUFFICES ASSUME WellFormed, OfflineAnswerIsFinal, [Next]_vars, NEW o \in Runs,
                      <<o, "node_offline">> \in answers'
               PROVE  status'[o] = "skipped_offline"
    BY DEF OfflineAnswerIsFinal
  <2>1. CASE <<o, "node_offline">> \in answers
    <3>1. status[o] = "skipped_offline" /\ Transition(o)
      BY <2>1, NextTransitions DEF OfflineAnswerIsFinal, Transitions
    <3>2. QED
      BY <3>1 DEF Transition
  <2>2. QED
    BY <2>1, NewOfflineAnswers
<1>3. QED
  BY <1>1, <1>2, Reachable, PTL DEF Spec
-----------------------------------------------------------------------------
(***************************************************************************)
(* The gauges are exact.                                                   *)
(*                                                                         *)
(* A gauge counts the runs whose status is in one set.  A step moves a set *)
(* of runs out of that set and another one into it, and changes the gauge  *)
(* by the difference of their sizes.                                       *)
(***************************************************************************)

Members(T) == {o \in Runs : status[o] \in T}
Counts(m, T) == metrics[m] = Cardinality(Members(T))

LEMMA GaugesAreCounts ==
  /\ GaugesExact <=>
        /\ Counts("pendingDepth", Active)
        /\ Counts("awaitingAck", {"awaiting_ack"})
        /\ Counts("awaitingResult", {"awaiting_result"})
        /\ Counts("totalCompleted", {"completed"})
        /\ Counts("totalFailed", {"failed", "rejected"})
        /\ Counts("totalSkippedOffline", {"skipped_offline"})
<1>1. \A s : InStatus(s) = Members({s})
  BY DEF InStatus, Members
<1>2. InStatus("failed") \union InStatus("rejected") = Members({"failed", "rejected"})
  BY DEF InStatus, Members
<1>3. {o \in Runs : status[o] \in Active} = Members(Active)
  BY DEF Members
<1>4. QED
  BY <1>1, <1>2, <1>3 DEF GaugesExact, Counts

\* The size of a set that some elements leave and others enter.
LEMMA SizeMoved ==
  ASSUME NEW M, NEW In, NEW Out, IsFiniteSet(M), IsFiniteSet(In), Out \subseteq M, In \cap M = {}
  PROVE  /\ Cardinality((M \ Out) \union In) = Cardinality(M) - Cardinality(Out) + Cardinality(In)
         /\ Cardinality(M) \in Nat /\ Cardinality(Out) \in Nat /\ Cardinality(In) \in Nat
<1>1. IsFiniteSet(Out) /\ M \cap Out = Out
  BY FS_Subset
<1>2. IsFiniteSet(M \ Out) /\ Cardinality(M \ Out) = Cardinality(M) - Cardinality(Out)
  BY <1>1, FS_Difference
<1>3. (M \ Out) \cap In = {}
  OBVIOUS
<1>4. Cardinality((M \ Out) \union In) = Cardinality(M \ Out) + Cardinality(In) - 0
  BY <1>2, <1>3, FS_Union, FS_EmptySet
<1>5. /\ Cardinality(M) \in Nat /\ Cardinality(Out) \in Nat /\ Cardinality(In) \in Nat
      /\ Cardinality(M \ Out) \in Nat
  BY <1>1, <1>2, FS_CardinalityType
<1>6. QED
  BY <1>2, <1>4, <1>5

\* A gauge that is changed by the number of runs that enter and leave its set stays exact.
LEMMA CountMoved ==
  ASSUME NEW T, NEW m \in Gauges, NEW In \in SUBSET Runs, NEW Out \in SUBSET Runs,
         WellFormed, Counts(m, T),
         \A o \in Out : status[o] \in T /\ status'[o] \notin T,
         \A o \in In : status[o] \notin T /\ status'[o] \in T,
         \A o \in Runs \ (In \union Out) : status[o] \in T <=> status'[o] \in T,
         metrics'[m] = metrics[m] - Cardinality(Out) + Cardinality(In)
  PROVE  Counts(m, T)'
<1>1. Members(T)' = (Members(T) \ Out) \union In
  BY DEF Members
<1>2. Out \subseteq Members(T) /\ In \cap Members(T) = {}
  BY DEF Members
<1>3. IsFiniteSet(Members(T)) /\ IsFiniteSet(In)
  BY RunsFinite, FS_Subset DEF Members
<1>4. Cardinality((Members(T) \ Out) \union In)
        = Cardinality(Members(T)) - Cardinality(Out) + Cardinality(In)
  BY <1>2, <1>3, SizeMoved
<1>5. QED
  BY <1>1, <1>4 DEF Counts

\* By how much the runs in a set of statuses grow in number when one run goes from s to t.
Gain(s, t, T) == IF s \notin T /\ t \in T THEN 1 ELSE IF s \in T /\ t \notin T THEN -1 ELSE 0

LEMMA CountOfOne ==
  ASSUME NEW T, NEW m \in Gauges, NEW o \in Runs, NEW t,
         WellFormed, Counts(m, T), status' = [status EXCEPT ![o] = t],
         metrics'[m] = metrics[m] + Gain(status[o], t, T)
  PROVE  Counts(m, T)'
<1>1. /\ status'[o] = t /\ \A x \in Runs \ {o} : status'[x] = status[x]
      /\ metrics[m] \in Int
  BY DEF WellFormed, TypeOK
<1>2. Cardinality({o}) = 1 /\ Cardinality({}) = 0
  BY FS_Singleton, FS_EmptySet
<1>3. CASE status[o] \notin T /\ t \in T
  <2>1. metrics'[m] = metrics[m] - Cardinality({}) + Cardinality({o})
    BY <1>1, <1>2, <1>3 DEF Gain
  <2>2. QED
    BY <1>1, <1>3, <2>1, CountMoved
<1>4. CASE status[o] \in T /\ t \notin T
  <2>1. metrics'[m] = metrics[m] - Cardinality({o}) + Cardinality({})
    BY <1>1, <1>2, <1>4 DEF Gain
  <2>2. QED
    BY <1>1, <1>4, <2>1, CountMoved
<1>5. CASE status[o] \in T <=> t \in T
  <2>1. metrics'[m] = metrics[m] - Cardinality({}) + Cardinality({})
    BY <1>1, <1>2, <1>5 DEF Gain
  <2>2. QED
    BY <1>1, <1>5, <2>1, CountMoved
<1>6. QED
  BY <1>3, <1>4, <1>5

\* What an action that moves one run owes to the gauges.
Owed(o, t, m, T) == metrics'[m] = metrics[m] + Gain(status[o], t, T)
GaugesOwed(o, t) ==
    /\ Owed(o, t, "pendingDepth", Active)
    /\ Owed(o, t, "awaitingAck", {"awaiting_ack"})
    /\ Owed(o, t, "awaitingResult", {"awaiting_result"})
    /\ Owed(o, t, "totalCompleted", {"completed"})
    /\ Owed(o, t, "totalFailed", {"failed", "rejected"})
    /\ Owed(o, t, "totalSkippedOffline", {"skipped_offline"})

LEMMA GaugesOfOne ==
  ASSUME WellFormed, GaugesExact, NEW o \in Runs, NEW t, status' = [status EXCEPT ![o] = t],
         GaugesOwed(o, t)
  PROVE  GaugesExact'
<1>1. ASSUME NEW T, NEW m \in Gauges, Counts(m, T), Owed(o, t, m, T) PROVE Counts(m, T)'
  BY <1>1, CountOfOne DEF Owed
<1>2. /\ Counts("pendingDepth", Active)
      /\ Counts("awaitingAck", {"awaiting_ack"})
      /\ Counts("awaitingResult", {"awaiting_result"})
      /\ Counts("totalCompleted", {"completed"})
      /\ Counts("totalFailed", {"failed", "rejected"})
      /\ Counts("totalSkippedOffline", {"skipped_offline"})
  BY GaugesAreCounts
<1>3. /\ "pendingDepth" \in Gauges /\ "awaitingAck" \in Gauges /\ "awaitingResult" \in Gauges
      /\ "totalCompleted" \in Gauges /\ "totalFailed" \in Gauges
      /\ "totalSkippedOffline" \in Gauges
  BY DEF Gauges
<1>4. /\ Counts("pendingDepth", Active)'
      /\ Counts("awaitingAck", {"awaiting_ack"})'
      /\ Counts("awaitingResult", {"awaiting_result"})'
      /\ Counts("totalCompleted", {"completed"})'
      /\ Counts("totalFailed", {"failed", "rejected"})'
      /\ Counts("totalSkippedOffline", {"skipped_offline"})'
  BY ONLY <1>1, <1>2, <1>3, GaugesOwed(o, t) DEF GaugesOwed
<1>5. QED
  BY <1>4, GaugesAreCounts, PTL

\* What settling a run does to three gauges, read off one by one.
LEMMA SettledValues ==
  ASSUME NEW f \in [Gauges -> Int], NEW a \in Gauges, NEW b \in Gauges, NEW c \in Gauges,
         a # b, a # c, b # c, NEW h, h = [f EXCEPT ![a] = @ - 1, ![b] = @ - 1, ![c] = @ + 1]
  PROVE  /\ h[a] = f[a] - 1 /\ h[b] = f[b] - 1 /\ h[c] = f[c] + 1
         /\ \A m \in Gauges \ {a, b, c} : h[m] = f[m]
OBVIOUS

LEMMA DispatchGauges ==
  ASSUME WellFormed, GaugesExact, NEW g \in Goroutines, NEW r \in RunIDs, NEW n \in Nodes,
         NEW b \in Bodies, Dispatch(g, r, n, b)
  PROVE  GaugesExact'
<1> DEFINE o == <<r, created[r] + 1>>
<1>1. o \in Runs /\ status[o] = "none"
  BY BoundsAssumption DEF Dispatch, Runs, WellFormed, TypeOK, Bookkeeping, ObjectsInOrder
<1>2. status' = [status EXCEPT ![o] = "dispatching"]
  BY DEF Dispatch, SetStatus
<1>3. /\ metrics'["pendingDepth"] = metrics["pendingDepth"] + 1
      /\ \A m \in Gauges \ {"pendingDepth"} : metrics'[m] = metrics[m]
      /\ \A m \in Gauges : metrics[m] \in Int
  BY DEF Dispatch, WellFormed, TypeOK, Gauges
<1> HIDE DEF o
<1>4. GaugesOwed(o, "dispatching")
  BY <1>1, <1>3 DEF GaugesOwed, Owed, Gain, Active, Gauges
<1>5. QED
  BY <1>1, <1>2, <1>4, GaugesOfOne

\* An action that leaves the statuses and the gauges alone.
LEMMA GaugesLeft ==
  ASSUME GaugesExact, status' = status, metrics' = metrics
  PROVE  GaugesExact'
BY DEF GaugesExact, InStatus

LEMMA skipOfflineGauges ==
  ASSUME WellFormed, GaugesExact, NEW g \in Goroutines, skipOffline(g)
  PROVE  GaugesExact'
<1>1. CASE status' = status /\ metrics' = metrics
  BY <1>1, GaugesLeft
<1>2. CASE ~(status' = status /\ metrics' = metrics)
  <2>1. PICK o \in Runs : o = thread[g].run
    BY AtWork DEF skipOffline
  <2>2. status[o] = "dispatching" /\ status' = [status EXCEPT ![o] = "skipped_offline"]
    BY <1>2, <2>1 DEF skipOffline, SetStatus
  <2>3. /\ metrics'["pendingDepth"] = metrics["pendingDepth"] - 1
        /\ metrics'["totalSkippedOffline"] = metrics["totalSkippedOffline"] + 1
        /\ \A m \in Gauges \ {"pendingDepth", "totalSkippedOffline"} : metrics'[m] = metrics[m]
        /\ \A m \in Gauges : metrics[m] \in Int
    BY <1>2 DEF skipOffline, WellFormed, TypeOK, Gauges
  <2>4. GaugesOwed(o, "skipped_offline")
    BY <2>2, <2>3 DEF GaugesOwed, Owed, Gain, Active, Gauges
  <2>5. QED
    BY <2>2, <2>4, GaugesOfOne
<1>3. QED
  BY <1>1, <1>2

LEMMA claimDispatchLockedGauges ==
  ASSUME WellFormed, GaugesExact, NEW g \in Goroutines, claimDispatchLocked(g)
  PROVE  GaugesExact'
<1>1. CASE status' = status /\ metrics' = metrics
  BY <1>1, GaugesLeft
<1>2. CASE ~(status' = status /\ metrics' = metrics)
  <2>1. PICK o \in Runs : o = thread[g].run
    BY AtWork DEF claimDispatchLocked
  <2>2. status[o] \in {"dispatching", "retrying"} /\ status' = [status EXCEPT ![o] = "awaiting_ack"]
    BY <1>2, <2>1 DEF claimDispatchLocked, SetStatus, ExpectedStatus
  <2>3. /\ metrics'["totalDispatched"] = metrics["totalDispatched"] + 1
        /\ metrics'["awaitingAck"] = metrics["awaitingAck"] + 1
        /\ \A m \in Gauges \ {"totalDispatched", "awaitingAck"} : metrics'[m] = metrics[m]
        /\ \A m \in Gauges : metrics[m] \in Int
    BY <1>2 DEF claimDispatchLocked, WellFormed, TypeOK, Gauges
  <2>4. GaugesOwed(o, "awaiting_ack")
    BY <2>2, <2>3 DEF GaugesOwed, Owed, Gain, Active, Gauges
  <2>5. QED
    BY <2>2, <2>4, GaugesOfOne
<1>3. QED
  BY <1>1, <1>2

LEMMA handleDispatchFailureGauges ==
  ASSUME WellFormed, GaugesExact, NEW g \in Goroutines, handleDispatchFailure(g)
  PROVE  GaugesExact'
<1>1. CASE status' = status /\ metrics' = metrics
  BY <1>1, GaugesLeft
<1>2. CASE ~(status' = status /\ metrics' = metrics)
  <2>1. PICK o \in Runs : o = thread[g].run
    BY AtWork DEF handleDispatchFailure
  <2>2. status[o] = "awaiting_ack" /\ status' = [status EXCEPT ![o] = "skipped_offline"]
    BY <1>2, <2>1 DEF handleDispatchFailure, SetStatus, SameAttempt
  <2>3. /\ metrics'["pendingDepth"] = metrics["pendingDepth"] - 1
        /\ metrics'["awaitingAck"] = metrics["awaitingAck"] - 1
        /\ metrics'["totalSkippedOffline"] = metrics["totalSkippedOffline"] + 1
        /\ \A m \in Gauges \ {"pendingDepth", "awaitingAck", "totalSkippedOffline"} : metrics'[m] = metrics[m]
        /\ \A m \in Gauges : metrics[m] \in Int
    BY <1>2 DEF handleDispatchFailure, WellFormed, TypeOK, Gauges
  <2>4. GaugesOwed(o, "skipped_offline")
    BY <2>2, <2>3 DEF GaugesOwed, Owed, Gain, Active, Gauges
  <2>5. QED
    BY <2>2, <2>4, GaugesOfOne
<1>3. QED
  BY <1>1, <1>2

LEMMA handleResultTimeoutGauges ==
  ASSUME WellFormed, GaugesExact, NEW g \in Goroutines, handleResultTimeout(g)
  PROVE  GaugesExact'
<1>1. CASE status' = status /\ metrics' = metrics
  BY <1>1, GaugesLeft
<1>2. CASE ~(status' = status /\ metrics' = metrics)
  <2>1. PICK o \in Runs : o = thread[g].run
    BY AtWork DEF handleResultTimeout
  <2>2. status[o] = "awaiting_result" /\ status' = [status EXCEPT ![o] = "failed"]
    BY <1>2, <2>1 DEF handleResultTimeout, SetStatus
  <2>3. /\ metrics'["pendingDepth"] = metrics["pendingDepth"] - 1
        /\ metrics'["awaitingResult"] = metrics["awaitingResult"] - 1
        /\ metrics'["totalFailed"] = metrics["totalFailed"] + 1
        /\ \A m \in Gauges \ {"pendingDepth", "awaitingResult", "totalFailed"} : metrics'[m] = metrics[m]
        /\ \A m \in Gauges : metrics[m] \in Int
    BY <1>2 DEF handleResultTimeout, WellFormed, TypeOK, Gauges
  <2>4. GaugesOwed(o, "failed")
    BY <2>2, <2>3 DEF GaugesOwed, Owed, Gain, Active, Gauges
  <2>5. QED
    BY <2>2, <2>4, GaugesOfOne
<1>3. QED
  BY <1>1, <1>2

LEMMA HandleAckAcceptedGauges ==
  ASSUME WellFormed, GaugesExact, NEW g \in Goroutines, NEW n \in Nodes,
         NEW r \in RunIDs, HandleAckAccepted(g, n, r)
  PROVE  GaugesExact'
<1>1. PICK o \in Runs : o = Current(r)
  BY TrackedExists DEF HandleAckAccepted
<1>2. status[o] = "awaiting_ack" /\ status' = [status EXCEPT ![o] = "awaiting_result"]
  BY <1>1 DEF HandleAckAccepted, SetStatus
<1>3. /\ metrics'["awaitingAck"] = metrics["awaitingAck"] - 1
      /\ metrics'["awaitingResult"] = metrics["awaitingResult"] + 1
      /\ \A m \in Gauges \ {"awaitingAck", "awaitingResult"} : metrics'[m] = metrics[m]
      /\ \A m \in Gauges : metrics[m] \in Int
  BY DEF HandleAckAccepted, WellFormed, TypeOK, Gauges
<1>4. GaugesOwed(o, "awaiting_result")
  BY <1>2, <1>3 DEF GaugesOwed, Owed, Gain, Active, Gauges
<1>5. QED
  BY <1>2, <1>4, GaugesOfOne

LEMMA HandleAckRejectedGauges ==
  ASSUME WellFormed, GaugesExact, NEW n \in Nodes, NEW r \in RunIDs,
         HandleAckRejected(n, r)
  PROVE  GaugesExact'
<1>1. PICK o \in Runs : o = Current(r)
  BY TrackedExists DEF HandleAckRejected
<1>2. status[o] = "awaiting_ack" /\ status' = [status EXCEPT ![o] = "rejected"]
  BY <1>1 DEF HandleAckRejected, SetStatus
<1>3. /\ metrics'["pendingDepth"] = metrics["pendingDepth"] - 1
      /\ metrics'["awaitingAck"] = metrics["awaitingAck"] - 1
      /\ metrics'["totalFailed"] = metrics["totalFailed"] + 1
      /\ \A m \in Gauges \ {"pendingDepth", "awaitingAck", "totalFailed"} : metrics'[m] = metrics[m]
      /\ \A m \in Gauges : metrics[m] \in Int
  BY DEF HandleAckRejected, WellFormed, TypeOK, Gauges
<1>4. GaugesOwed(o, "rejected")
  BY <1>2, <1>3 DEF GaugesOwed, Owed, Gain, Active, Gauges
<1>5. QED
  BY <1>2, <1>4, GaugesOfOne

LEMMA HandleResultGauges ==
  ASSUME WellFormed, GaugesExact, NEW n \in Nodes, NEW r \in RunIDs, NEW ok \in BOOLEAN,
         HandleResult(n, r, ok)
  PROVE  GaugesExact'
<1> DEFINE t == IF ok THEN "completed" ELSE "failed"
           total == IF ok THEN "totalCompleted" ELSE "totalFailed"
<1>1. PICK o \in Runs : o = Current(r)
  BY TrackedExists DEF HandleResult
<1>2. status[o] = "awaiting_result" /\ status' = [status EXCEPT ![o] = t]
  BY <1>1 DEF HandleResult, SetStatus
<1>3. /\ metrics \in [Gauges -> Int] /\ total \in Gauges
      /\ "pendingDepth" \in Gauges /\ "awaitingResult" \in Gauges
      /\ metrics' = [metrics EXCEPT !["pendingDepth"] = @ - 1, !["awaitingResult"] = @ - 1,
                                    ![total] = @ + 1]
  BY DEF HandleResult, WellFormed, TypeOK, Gauges
<1>4. /\ metrics'["pendingDepth"] = metrics["pendingDepth"] - 1
      /\ metrics'["awaitingResult"] = metrics["awaitingResult"] - 1
      /\ metrics'[total] = metrics[total] + 1
      /\ \A m \in Gauges \ {"pendingDepth", "awaitingResult", total} :
            metrics'[m] = metrics[m]
      /\ \A m \in Gauges : metrics[m] \in Int
  <2>1. "pendingDepth" # "awaitingResult" /\ "pendingDepth" # total /\ "awaitingResult" # total
    OBVIOUS
  <2> HIDE DEF total
  <2>2. QED
    BY <1>3, <2>1, SettledValues
<1>5. /\ ok => t = "completed" /\ total = "totalCompleted"
      /\ ~ok => t = "failed" /\ total = "totalFailed"
  OBVIOUS
<1> HIDE DEF t, total
<1>6. GaugesOwed(o, t)
  BY <1>2, <1>4, <1>5 DEF GaugesOwed, Owed, Gain, Active, Gauges
<1>7. QED
  BY <1>2, <1>6, GaugesOfOne

\* The retries and failures of one critical section, for any number of runs.
LEMMA ClaimRetriesGauges ==
  ASSUME WellFormed, GaugesExact, NEW claimed \in SUBSET Runs, NEW lost \in SUBSET Runs,
         \A o \in claimed : status[o] \in {"dispatching", "awaiting_ack"},
         \A o \in lost : status[o] = "awaiting_result",
         ClaimRetries(claimed, lost)
  PROVE  GaugesExact'
<1> DEFINE failed == Exhausted(claimed) \union lost
           acking == Acking(claimed)
<1>1. /\ failed \in SUBSET Runs /\ acking \in SUBSET Runs /\ {} \in SUBSET Runs
      /\ \A S \in SUBSET Runs : Cardinality(S) \in Int
      /\ Cardinality({}) = 0
  BY RunsFinite, FS_Subset, FS_CardinalityType, FS_EmptySet DEF Exhausted, Acking, InStatus
<1>2. \A o \in Runs : status'[o] = IF o \in failed THEN "failed"
                                   ELSE IF o \in claimed THEN "retrying" ELSE status[o]
  BY DEF ClaimRetries
<1>3. /\ failed \subseteq claimed \union lost /\ lost \subseteq failed
      /\ \A o \in Runs : o \in acking <=> o \in claimed /\ status[o] = "awaiting_ack"
  BY DEF Exhausted, Acking, InStatus
<1>4. \A m \in Gauges : metrics[m] \in Int
  BY DEF WellFormed, TypeOK
<1>5. /\ metrics'["pendingDepth"] = metrics["pendingDepth"] - Cardinality(failed)
      /\ metrics'["awaitingAck"] = metrics["awaitingAck"] - Cardinality(acking)
      /\ metrics'["awaitingResult"] = metrics["awaitingResult"] - Cardinality(lost)
      /\ metrics'["totalFailed"] = metrics["totalFailed"] + Cardinality(failed)
      /\ metrics'["totalCompleted"] = metrics["totalCompleted"]
      /\ metrics'["totalSkippedOffline"] = metrics["totalSkippedOffline"]
  BY DEF ClaimRetries, WellFormed, TypeOK, Gauges
<1>6. /\ "pendingDepth" \in Gauges /\ "awaitingAck" \in Gauges /\ "awaitingResult" \in Gauges
      /\ "totalCompleted" \in Gauges /\ "totalFailed" \in Gauges
      /\ "totalSkippedOffline" \in Gauges
  BY DEF Gauges
<1> HIDE DEF failed, acking
<1>7. /\ Counts("pendingDepth", Active)
      /\ Counts("awaitingAck", {"awaiting_ack"})
      /\ Counts("awaitingResult", {"awaiting_result"})
      /\ Counts("totalCompleted", {"completed"})
      /\ Counts("totalFailed", {"failed", "rejected"})
      /\ Counts("totalSkippedOffline", {"skipped_offline"})
  BY GaugesAreCounts
<1>8. Counts("pendingDepth", Active)'
  <2>1. /\ \A o \in failed : status[o] \in Active /\ status'[o] \notin Active
        /\ \A o \in Runs \ ({} \union failed) : status[o] \in Active <=> status'[o] \in Active
    BY <1>1, <1>2, <1>3 DEF Active
  <2>2. metrics'["pendingDepth"] = metrics["pendingDepth"] - Cardinality(failed) + Cardinality({})
    BY <1>1, <1>4, <1>5, <1>6
  <2>3. QED
    BY <1>1, <1>6, <1>7, <2>1, <2>2, CountMoved
<1>9. Counts("awaitingAck", {"awaiting_ack"})'
  <2> DEFINE T == {"awaiting_ack"}
  <2>1. /\ \A o \in acking : status[o] \in T /\ status'[o] \notin T
        /\ \A o \in Runs \ ({} \union acking) : status[o] \in T <=> status'[o] \in T
    BY <1>1, <1>2, <1>3
  <2>2. metrics'["awaitingAck"] = metrics["awaitingAck"] - Cardinality(acking) + Cardinality({})
    BY <1>1, <1>4, <1>5, <1>6
  <2>3. Counts("awaitingAck", T)
    BY <1>7
  <2> HIDE DEF T
  <2>4. Counts("awaitingAck", T)'
    BY <1>1, <1>6, <2>1, <2>2, <2>3, CountMoved
  <2>5. QED
    BY <2>4 DEF T
<1>10. Counts("awaitingResult", {"awaiting_result"})'
  <2> DEFINE T == {"awaiting_result"}
  <2>1. /\ \A o \in lost : status[o] \in T /\ status'[o] \notin T
        /\ \A o \in Runs \ ({} \union lost) : status[o] \in T <=> status'[o] \in T
    BY <1>1, <1>2, <1>3
  <2>2. metrics'["awaitingResult"] = metrics["awaitingResult"] - Cardinality(lost) + Cardinality({})
    BY <1>1, <1>4, <1>5, <1>6
  <2>3. Counts("awaitingResult", T)
    BY <1>7
  <2> HIDE DEF T
  <2>4. Counts("awaitingResult", T)'
    BY <1>1, <1>6, <2>1, <2>2, <2>3, CountMoved
  <2>5. QED
    BY <2>4 DEF T
<1>11. Counts("totalFailed", {"failed", "rejected"})'
  <2> DEFINE T == {"failed", "rejected"}
  <2>1. /\ \A o \in failed : status[o] \notin T /\ status'[o] \in T
        /\ \A o \in Runs \ (failed \union {}) : status[o] \in T <=> status'[o] \in T
    BY <1>1, <1>2, <1>3
  <2>2. metrics'["totalFailed"] = metrics["totalFailed"] - Cardinality({}) + Cardinality(failed)
    BY <1>1, <1>4, <1>5, <1>6
  <2>3. Counts("totalFailed", T)
    BY <1>7
  <2> HIDE DEF T
  <2>4. Counts("totalFailed", T)'
    BY <1>1, <1>6, <2>1, <2>2, <2>3, CountMoved
  <2>5. QED
    BY <2>4 DEF T
<1>12. ASSUME NEW m \in {"totalCompleted", "totalSkippedOffline"}, NEW T,
              T \cap {"dispatching", "awaiting_ack", "awaiting_result", "retrying", "failed"} = {},
              Counts(m, T), metrics'[m] = metrics[m]
       PROVE  Counts(m, T)'
  <2>1. Members(T)' = Members(T)
    BY <1>2, <1>3, <1>12 DEF Members
  <2>2. QED
    BY <1>12, <2>1 DEF Counts
<1>13. Counts("totalCompleted", {"completed"})' /\ Counts("totalSkippedOffline", {"skipped_offline"})'
  BY <1>5, <1>7, <1>12
<1>14. QED
  BY <1>8, <1>9, <1>10, <1>11, <1>13, GaugesAreCounts, PTL

LEMMA NextGauges == WellFormed /\ GaugesExact /\ [Next]_vars => GaugesExact'
<1> SUFFICES ASSUME WellFormed, GaugesExact, [Next]_vars PROVE GaugesExact'
  OBVIOUS
<1>1. ASSUME NEW g \in Goroutines, handleAckTimeout(g) PROVE GaugesExact'
  <2>1. CASE ~SameAttempt(g)
    BY <1>1, <2>1, GaugesLeft DEF handleAckTimeout
  <2>2. CASE SameAttempt(g)
    <3>1. PICK o \in Runs : o = thread[g].run
      BY <1>1, AtWork DEF handleAckTimeout
    <3>2. ClaimRetries({o}, {}) /\ status[o] = "awaiting_ack"
      BY <1>1, <2>2, <3>1 DEF handleAckTimeout, SameAttempt
    <3>3. QED
      BY <3>2, ClaimRetriesGauges
  <2>3. QED
    BY <2>1, <2>2
<1>2. ASSUME NEW g \in Goroutines, NEW n \in Nodes, HandleNodeDisconnect(g, n) PROVE GaugesExact'
  <2> DEFINE claimed == NodeRuns(n) \intersect (InStatus("awaiting_ack") \union InStatus("dispatching"))
             lost    == NodeRuns(n) \intersect InStatus("awaiting_result")
  <2>1. ClaimRetries(claimed, lost)
    BY <1>2 DEF HandleNodeDisconnect
  <2>2. /\ claimed \in SUBSET Runs /\ lost \in SUBSET Runs
        /\ \A o \in claimed : status[o] \in {"dispatching", "awaiting_ack"}
        /\ \A o \in lost : status[o] = "awaiting_result"
    BY DEF NodeRuns, InStatus
  <2> HIDE DEF claimed, lost
  <2>3. QED
    BY <2>1, <2>2, ClaimRetriesGauges
<1>3. ASSUME NEW g \in Goroutines, Step(g) PROVE GaugesExact'
  <2>1. CASE send(g) \/ startAckTimer(g) \/ dispatchRetry(g) \/ startResultTimer(g)
    BY <2>1, GaugesLeft DEF send, startAckTimer, dispatchRetry, startResultTimer, queueVars
  <2>2. QED
    BY <1>1, <1>3, <2>1, skipOfflineGauges, claimDispatchLockedGauges,
       handleDispatchFailureGauges, handleResultTimeoutGauges DEF Step
<1>4. ASSUME NEW r \in RunIDs, AckTimer(r) \/ ResultTimer(r) PROVE GaugesExact'
  BY <1>4, GaugesLeft DEF AckTimer, ResultTimer, AckTimerFires, ResultTimerFires
<1>5. ASSUME NEW n \in Nodes, DownDelivered(n) \/ UpDelivered(n) PROVE GaugesExact'
  <2>1. CASE UpDelivered(n)
    BY <2>1, GaugesLeft DEF UpDelivered, HandleNodeReconnect, queueVars
  <2>2. QED
    BY <1>2, <1>5, <2>1 DEF DownDelivered
<1>6. ASSUME NEW r \in RunIDs, NEW n \in Nodes, NEW b \in Bodies,
             Redeliver(r, n, b) \/ \E g \in Goroutines : Dispatch(g, r, n, b)
      PROVE  GaugesExact'
  <2>1. CASE Redeliver(r, n, b)
    BY <2>1, GaugesLeft DEF Redeliver
  <2>2. QED
    BY <1>6, <2>1, DispatchGauges
<1>7. ASSUME NEW r \in RunIDs, NEW n \in Nodes,
             \/ \E g \in Goroutines : HandleAckAccepted(g, n, r)
             \/ HandleAckRejected(n, r)
             \/ \E ok \in BOOLEAN : HandleResult(n, r, ok)
      PROVE  GaugesExact'
  BY <1>7, HandleAckAcceptedGauges, HandleAckRejectedGauges, HandleResultGauges
<1>8. ASSUME NEW S \in SUBSET Prunable, PruneCompleted(S) PROVE GaugesExact'
  BY <1>8, GaugesLeft DEF PruneCompleted
<1>9. ASSUME NEW n \in Nodes, NodeUp(n) \/ NodeDown(n) \/ OldSessionDown(n) PROVE GaugesExact'
  BY <1>9, GaugesLeft DEF NodeUp, NodeDown, OldSessionDown, queueVars
<1>10. CASE UNCHANGED vars
  BY <1>10, GaugesLeft DEF vars, queueVars
<1>11. QED
  BY <1>3, <1>4, <1>5, <1>6, <1>7, <1>8, <1>9, <1>10 DEF Next

\* The gauges GetMetrics reports are the numbers of runs in each state, whatever retries,
\* failures, disconnects and late answers come together.
THEOREM MetricsAreExact == Spec => []GaugesExact
<1>1. Init => GaugesExact
  <2> SUFFICES ASSUME Init PROVE GaugesExact
    OBVIOUS
  <2>1. ASSUME NEW m \in Gauges, NEW T, "none" \notin T PROVE Counts(m, T)
    <3>1. Members(T) = {} /\ metrics[m] = 0
      BY <2>1 DEF Init, Members
    <3>2. QED
      BY <3>1, FS_EmptySet DEF Counts
  <2>2. "none" \notin Active
    BY DEF Active
  <2>3. QED
    BY <2>1, <2>2, GaugesAreCounts DEF Gauges
<1>2. QED
  BY <1>1, NextGauges, Reachable, PTL DEF Spec

-----------------------------------------------------------------------------
(***************************************************************************)
(* No timer is stale and no run is stranded.                               *)
(*                                                                         *)
(* The two need each other: a timer that fires starts a goroutine which    *)
(* carries the run only if the timer was the current one, and a timer is   *)
(* current because a run that is waited for stays tracked.  That a failed  *)
(* send leaves no timer behind needs a third fact: an attempt has one      *)
(* sender, and no timer while that sender is under way.                    *)
(***************************************************************************)

Sending(g) == thread[g].pc \in {"send", "arm", "fail"}

\* The ack timer entry of the run ID of object o was armed for this object and attempt.
TimerOf(o, gen) ==
    ackTimers[o[1]] # NoTimer /\ ackTimers[o[1]].run = o[2] /\ ackTimers[o[1]].gen = gen

SenderAlone(g) ==
    Sending(g) =>
        /\ thread[g].gen <= attempts[thread[g].run]
        /\ \A h \in Goroutines \ {g} :
              Sending(h) /\ thread[h].run = thread[g].run => thread[h].gen # thread[g].gen
        /\ ~TimerOf(thread[g].run, thread[g].gen)
SendersAlone == \A g \in Goroutines : SenderAlone(g)

\* The callback of an ack timer has no list of runs.
CallbacksAlone == \A g \in Goroutines : thread[g].pc = "ackTimeout" => thread[g].todo = {}

QueueInv == WellFormed /\ NoStaleTimer /\ NoStrandedRun /\ SendersAlone /\ CallbacksAlone

-----------------------------------------------------------------------------
(* What the invariant says of one run                                      *)

\* The tracked object of a run ID is the only active one.
LEMMA ActiveIsCurrent ==
  ASSUME QueueInv, NEW o \in Runs, status[o] \in Active
  PROVE  o[1] \in RunIDs /\ runs[o[1]] # 0 /\ o = Current(o[1]) /\ Tracked(o)
<1>1. Tracked(o) /\ o[1] \in RunIDs /\ o[2] \in 1..MaxIncarnations /\ o = <<o[1], o[2]>>
  BY DEF QueueInv, NoStrandedRun, Runs
<1>2. QED
  BY <1>1 DEF Tracked, Current

LEMMA ActiveUnique ==
  ASSUME QueueInv, NEW o \in Runs, status[o] \in Active, NEW x \in Runs, status[x] \in Active,
         x[1] = o[1]
  PROVE  x = o
BY ActiveIsCurrent

\* A run ID has an ack timer only while its object awaits the ack, at that attempt, and a
\* result timer only while it awaits the result.
LEMMA TimersFollowStatus ==
  ASSUME QueueInv, NEW r \in RunIDs
  PROVE  /\ status[Current(r)] # "awaiting_ack" => ackTimers[r] = NoTimer
         /\ status[Current(r)] # "awaiting_result" => resultTimers[r] = NoTimer
         /\ runs[r] = 0 => ackTimers[r] = NoTimer /\ resultTimers[r] = NoTimer
BY DEF QueueInv, NoStaleTimer

\* What NoStaleTimer says of one run ID.
AckCurrent(r) ==
    ackTimers[r] # NoTimer =>
        /\ runs[r] # 0 /\ ackTimers[r].run = runs[r]
        /\ status[Current(r)] = "awaiting_ack" /\ ackTimers[r].gen = attempts[Current(r)]
ResultCurrent(r) ==
    resultTimers[r] # NoTimer =>
        runs[r] # 0 /\ resultTimers[r].run = runs[r] /\ status[Current(r)] = "awaiting_result"

LEMMA NoStaleTimerByRun == NoStaleTimer <=> \A r \in RunIDs : AckCurrent(r) /\ ResultCurrent(r)
BY DEF NoStaleTimer, AckCurrent, ResultCurrent

\* A run ID whose object and timers a step leaves alone.
LEMMA TimersLeft ==
  ASSUME QueueInv, NEW r \in RunIDs, runs'[r] = runs[r],
         status'[Current(r)] = status[Current(r)], attempts'[Current(r)] = attempts[Current(r)],
         ackTimers'[r] = ackTimers[r] \/ ackTimers'[r] = NoTimer,
         resultTimers'[r] = resultTimers[r] \/ resultTimers'[r] = NoTimer
  PROVE  AckCurrent(r)' /\ ResultCurrent(r)'
<1>1. AckCurrent(r) /\ ResultCurrent(r)
  BY NoStaleTimerByRun DEF QueueInv
<1>2. Current(r)' = Current(r)
  BY DEF Current
<1>3. QED
  BY <1>1, <1>2 DEF AckCurrent, ResultCurrent

\* A step that changes the status or attempts of one active run o only.
LEMMA TimersOfOne ==
  ASSUME QueueInv, NEW o \in Runs, status[o] \in Active, runs' = runs,
         \A x \in Runs \ {o} : status'[x] = status[x] /\ attempts'[x] = attempts[x],
         \A r \in RunIDs \ {o[1]} :
            ackTimers'[r] = ackTimers[r] /\ resultTimers'[r] = resultTimers[r],
         AckCurrent(o[1])' /\ ResultCurrent(o[1])'
  PROVE  NoStaleTimer'
<1>1. o[1] \in RunIDs /\ o = Current(o[1])
  BY ActiveIsCurrent
<1>2. ASSUME NEW r \in RunIDs, r # o[1] PROVE AckCurrent(r)' /\ ResultCurrent(r)'
  <2>1. CASE runs[r] = 0
    BY <1>2, <2>1, TimersFollowStatus DEF AckCurrent, ResultCurrent
  <2>2. CASE runs[r] # 0
    <3>1. Current(r) \in Runs \ {o}
      BY <1>1, <1>2, <2>2, TrackedExists DEF QueueInv
    <3>2. QED
      BY <1>2, <3>1, TimersLeft
  <2>3. QED
    BY <2>1, <2>2
<1>3. \A r \in RunIDs : AckCurrent(r)' /\ ResultCurrent(r)'
  BY <1>1, <1>2
<1>4. QED
  BY <1>3 DEF NoStaleTimer, AckCurrent, ResultCurrent

\* A step that changes no object and no timer.
LEMMA TimersUntouched ==
  ASSUME QueueInv, runs' = runs, status' = status, attempts' = attempts,
         ackTimers' = ackTimers, resultTimers' = resultTimers
  PROVE  NoStaleTimer'
BY DEF QueueInv, NoStaleTimer, Current

-----------------------------------------------------------------------------
(* No stale timer: one lemma per action that can disturb it                *)

LEMMA DispatchTimers ==
  ASSUME QueueInv, NEW g \in Goroutines, NEW r \in RunIDs, NEW n \in Nodes, NEW b \in Bodies,
         Dispatch(g, r, n, b)
  PROVE  NoStaleTimer'
<1> DEFINE o == <<r, created[r] + 1>>
<1>1. ackTimers'[r] = NoTimer /\ resultTimers'[r] = NoTimer
  BY TimersFollowStatus DEF Dispatch
<1>2. ASSUME NEW s \in RunIDs, s # r PROVE AckCurrent(s)' /\ ResultCurrent(s)'
  <2>1. runs'[s] = runs[s]
    BY <1>2 DEF Dispatch, QueueInv, WellFormed, TypeOK
  <2>2. CASE runs[s] = 0
    BY <1>2, <2>1, <2>2, TimersFollowStatus DEF AckCurrent, ResultCurrent, Dispatch
  <2>3. CASE runs[s] # 0
    <3>1. Current(s) \in Runs /\ Current(s) # o
      BY <1>2, <2>3, TrackedExists DEF QueueInv
    <3>2. status'[Current(s)] = status[Current(s)]
      BY <3>1 DEF Dispatch, SetStatus, QueueInv, WellFormed, TypeOK
    <3>3. QED
      BY <1>2, <2>1, <3>2, TimersLeft DEF Dispatch
  <2>4. QED
    BY <2>2, <2>3
<1>3. AckCurrent(r)' /\ ResultCurrent(r)'
  BY <1>1 DEF AckCurrent, ResultCurrent
<1>4. QED
  BY <1>2, <1>3 DEF NoStaleTimer, AckCurrent, ResultCurrent

LEMMA skipOfflineTimers ==
  ASSUME QueueInv, NEW g \in Goroutines, skipOffline(g)
  PROVE  NoStaleTimer'
<1>1. CASE status' = status
  BY <1>1, TimersUntouched DEF skipOffline
<1>2. CASE status' # status
  <2>1. PICK o \in Runs : o = thread[g].run
    BY AtWork DEF skipOffline, QueueInv
  <2>2. status[o] = "dispatching" /\ status' = [status EXCEPT ![o] = "skipped_offline"]
    BY <1>2, <2>1 DEF skipOffline, SetStatus
  <2>3. status[o] \in Active /\ \A x \in Runs \ {o} : status'[x] = status[x]
    BY <2>2 DEF Active, QueueInv, WellFormed, TypeOK
  <2>4. ackTimers[o[1]] = NoTimer /\ resultTimers[o[1]] = NoTimer
    BY <2>2, <2>3, ActiveIsCurrent, TimersFollowStatus
  <2>5. AckCurrent(o[1])' /\ ResultCurrent(o[1])'
    BY <2>4 DEF AckCurrent, ResultCurrent, skipOffline
  <2>6. QED
    BY <2>3, <2>5, TimersOfOne DEF skipOffline
<1>3. QED
  BY <1>1, <1>2

LEMMA claimDispatchLockedTimers ==
  ASSUME QueueInv, NEW g \in Goroutines, claimDispatchLocked(g)
  PROVE  NoStaleTimer'
<1>1. CASE status' = status /\ attempts' = attempts
  BY <1>1, TimersUntouched DEF claimDispatchLocked
<1>2. CASE ~(status' = status /\ attempts' = attempts)
  <2>1. PICK o \in Runs : o = thread[g].run
    BY AtWork DEF claimDispatchLocked, QueueInv
  <2>2. /\ status[o] \in {"dispatching", "retrying"}
        /\ status' = [status EXCEPT ![o] = "awaiting_ack"]
        /\ attempts' = [attempts EXCEPT ![o] = @ + 1]
    BY <1>2, <2>1 DEF claimDispatchLocked, SetStatus, ExpectedStatus
  <2>3. /\ status[o] \in Active
        /\ \A x \in Runs \ {o} : status'[x] = status[x] /\ attempts'[x] = attempts[x]
    BY <2>2 DEF Active, QueueInv, WellFormed, TypeOK
  <2>4. ackTimers[o[1]] = NoTimer /\ resultTimers[o[1]] = NoTimer
    BY <2>2, <2>3, ActiveIsCurrent, TimersFollowStatus
  <2>5. AckCurrent(o[1])' /\ ResultCurrent(o[1])'
    BY <2>4 DEF AckCurrent, ResultCurrent, claimDispatchLocked
  <2>6. QED
    BY <2>3, <2>5, TimersOfOne DEF claimDispatchLocked
<1>3. QED
  BY <1>1, <1>2

\* A send that failed leaves no timer: the sender would have armed it itself.
LEMMA handleDispatchFailureTimers ==
  ASSUME QueueInv, NEW g \in Goroutines, handleDispatchFailure(g)
  PROVE  NoStaleTimer'
<1>1. CASE status' = status
  BY <1>1, TimersUntouched DEF handleDispatchFailure
<1>2. CASE status' # status
  <2>1. PICK o \in Runs : o = thread[g].run
    BY AtWork DEF handleDispatchFailure, QueueInv
  <2>2. /\ status[o] = "awaiting_ack" /\ attempts[o] = thread[g].gen
        /\ status' = [status EXCEPT ![o] = "skipped_offline"]
    BY <1>2, <2>1 DEF handleDispatchFailure, SetStatus, SameAttempt
  <2>3. status[o] \in Active /\ \A x \in Runs \ {o} : status'[x] = status[x]
    BY <2>2 DEF Active, QueueInv, WellFormed, TypeOK
  <2>4. o[1] \in RunIDs /\ o = Current(o[1]) /\ o[2] = runs[o[1]]
    BY <2>3, ActiveIsCurrent DEF Tracked
  <2>5. ~TimerOf(o, attempts[o])
    BY <2>1, <2>2 DEF QueueInv, SendersAlone, SenderAlone, Sending, handleDispatchFailure
  <2>6. AckCurrent(o[1])
    BY <2>4, NoStaleTimerByRun DEF QueueInv
  <2>7. ackTimers[o[1]] = NoTimer /\ resultTimers[o[1]] = NoTimer
    BY <2>2, <2>4, <2>5, <2>6, TimersFollowStatus DEF TimerOf, AckCurrent
  <2>8. AckCurrent(o[1])' /\ ResultCurrent(o[1])'
    BY <2>7 DEF AckCurrent, ResultCurrent, handleDispatchFailure
  <2>9. QED
    BY <2>3, <2>8, TimersOfOne DEF handleDispatchFailure
<1>3. QED
  BY <1>1, <1>2

LEMMA startAckTimerTimers ==
  ASSUME QueueInv, NEW g \in Goroutines, startAckTimer(g)
  PROVE  NoStaleTimer'
<1>1. CASE ~SameAttempt(g)
  BY <1>1, TimersUntouched DEF startAckTimer
<1>2. CASE SameAttempt(g)
  <2>1. PICK o \in Runs : o = thread[g].run
    BY AtWork DEF startAckTimer, QueueInv
  <2>2. /\ status[o] = "awaiting_ack" /\ attempts[o] = thread[g].gen
        /\ ackTimers' = [ackTimers EXCEPT ![o[1]] = Timer(o, attempts[o])]
    BY <1>2, <2>1 DEF startAckTimer, SameAttempt
  <2>3. status[o] \in Active
    BY <2>2 DEF Active
  <2>4. o[1] \in RunIDs /\ o = Current(o[1]) /\ o[2] = runs[o[1]] /\ runs[o[1]] # 0
    BY <2>3, ActiveIsCurrent DEF Tracked
  <2>5. /\ ackTimers'[o[1]] = Timer(o, attempts[o])
        /\ \A r \in RunIDs \ {o[1]} : ackTimers'[r] = ackTimers[r]
    BY <2>2, <2>4 DEF QueueInv, WellFormed, TypeOK
  <2>6. /\ runs' = runs /\ status' = status /\ attempts' = attempts
        /\ resultTimers' = resultTimers /\ Current(o[1])' = Current(o[1])
    BY DEF startAckTimer, Current
  <2>7. AckCurrent(o[1])'
    BY <2>2, <2>4, <2>5, <2>6 DEF AckCurrent, Timer
  <2>8. ResultCurrent(o[1])'
    BY <2>4, <2>6, NoStaleTimerByRun DEF ResultCurrent, QueueInv
  <2>9. QED
    BY <2>3, <2>5, <2>6, <2>7, <2>8, TimersOfOne
<1>3. QED
  BY <1>1, <1>2

LEMMA startResultTimerTimers ==
  ASSUME QueueInv, NEW g \in Goroutines, startResultTimer(g)
  PROVE  NoStaleTimer'
<1>1. CASE status[thread[g].run] # "awaiting_result"
  BY <1>1, TimersUntouched DEF startResultTimer
<1>2. CASE status[thread[g].run] = "awaiting_result"
  <2>1. PICK o \in Runs : o = thread[g].run
    BY AtWork DEF startResultTimer, QueueInv
  <2>2. /\ status[o] = "awaiting_result"
        /\ resultTimers' = [resultTimers EXCEPT ![o[1]] = Timer(o, 0)]
    BY <1>2, <2>1 DEF startResultTimer
  <2>3. status[o] \in Active
    BY <2>2 DEF Active
  <2>4. o[1] \in RunIDs /\ o = Current(o[1]) /\ o[2] = runs[o[1]] /\ runs[o[1]] # 0
    BY <2>3, ActiveIsCurrent DEF Tracked
  <2>5. /\ resultTimers'[o[1]] = Timer(o, 0)
        /\ \A r \in RunIDs \ {o[1]} : resultTimers'[r] = resultTimers[r]
    BY <2>2, <2>4 DEF QueueInv, WellFormed, TypeOK
  <2>6. /\ runs' = runs /\ status' = status /\ attempts' = attempts
        /\ ackTimers' = ackTimers /\ Current(o[1])' = Current(o[1])
    BY DEF startResultTimer, Current
  <2>7. ResultCurrent(o[1])'
    BY <2>2, <2>4, <2>5, <2>6 DEF ResultCurrent, Timer
  <2>8. AckCurrent(o[1])'
    BY <2>4, <2>6, NoStaleTimerByRun DEF AckCurrent, QueueInv
  <2>9. QED
    BY <2>3, <2>5, <2>6, <2>7, <2>8, TimersOfOne
<1>3. QED
  BY <1>1, <1>2

LEMMA handleResultTimeoutTimers ==
  ASSUME QueueInv, NEW g \in Goroutines, handleResultTimeout(g)
  PROVE  NoStaleTimer'
<1>1. CASE status[thread[g].run] # "awaiting_result"
  BY <1>1, TimersUntouched DEF handleResultTimeout
<1>2. CASE status[thread[g].run] = "awaiting_result"
  <2>1. PICK o \in Runs : o = thread[g].run
    BY AtWork DEF handleResultTimeout, QueueInv
  <2>2. /\ status[o] = "awaiting_result" /\ status' = [status EXCEPT ![o] = "failed"]
        /\ resultTimers' = [resultTimers EXCEPT ![o[1]] = NoTimer]
    BY <1>2, <2>1 DEF handleResultTimeout, SetStatus
  <2>3. status[o] \in Active /\ \A x \in Runs \ {o} : status'[x] = status[x]
    BY <2>2 DEF Active, QueueInv, WellFormed, TypeOK
  <2>4. o[1] \in RunIDs /\ ackTimers[o[1]] = NoTimer
    BY <2>2, <2>3, ActiveIsCurrent, TimersFollowStatus
  <2>5. /\ resultTimers'[o[1]] = NoTimer
        /\ \A r \in RunIDs \ {o[1]} : resultTimers'[r] = resultTimers[r]
    BY <2>2, <2>4 DEF QueueInv, WellFormed, TypeOK
  <2>6. AckCurrent(o[1])' /\ ResultCurrent(o[1])'
    BY <2>4, <2>5 DEF AckCurrent, ResultCurrent, handleResultTimeout
  <2>7. QED
    BY <2>3, <2>5, <2>6, TimersOfOne DEF handleResultTimeout
<1>3. QED
  BY <1>1, <1>2

\* A message that settles one wait of a run: both timers of the run ID are then gone.
LEMMA AnswerTimers ==
  ASSUME QueueInv, NEW n \in Nodes, NEW r \in RunIDs,
         \/ \E g \in Goroutines : HandleAckAccepted(g, n, r)
         \/ HandleAckRejected(n, r)
         \/ \E ok \in BOOLEAN : HandleResult(n, r, ok)
  PROVE  NoStaleTimer'
<1>1. PICK o \in Runs : o = Current(r)
  BY TrackedExists DEF HandleAckAccepted, HandleAckRejected, HandleResult, QueueInv
<1>2. /\ runs' = runs /\ attempts' = attempts
      /\ \E t : status' = [status EXCEPT ![o] = t]
      /\ \/ status[o] = "awaiting_ack" /\ ackTimers' = [ackTimers EXCEPT ![r] = NoTimer]
            /\ resultTimers' = resultTimers
         \/ status[o] = "awaiting_result" /\ resultTimers' = [resultTimers EXCEPT ![r] = NoTimer]
            /\ ackTimers' = ackTimers
  BY <1>1 DEF HandleAckAccepted, HandleAckRejected, HandleResult, SetStatus
<1>3. /\ status[o] \in Active /\ \A x \in Runs \ {o} : status'[x] = status[x]
      /\ o[1] = r
  BY <1>1, <1>2 DEF Active, QueueInv, WellFormed, TypeOK, Current
<1>4. /\ ackTimers'[r] = NoTimer /\ resultTimers'[r] = NoTimer
      /\ \A s \in RunIDs \ {r} :
            ackTimers'[s] = ackTimers[s] /\ resultTimers'[s] = resultTimers[s]
  BY <1>1, <1>2, TimersFollowStatus DEF QueueInv, WellFormed, TypeOK
<1>5. AckCurrent(r)' /\ ResultCurrent(r)'
  BY <1>4 DEF AckCurrent, ResultCurrent
<1>6. QED
  BY <1>2, <1>3, <1>4, <1>5, TimersOfOne

\* The callback of a timer starts: the entry stays, no longer armed.
LEMMA TimerFiresTimers ==
  ASSUME QueueInv, NEW g \in Goroutines, NEW r \in RunIDs,
         AckTimerFires(g, r) \/ ResultTimerFires(g, r)
  PROVE  NoStaleTimer'
<1>1. runs' = runs /\ status' = status /\ attempts' = attempts
  BY DEF AckTimerFires, ResultTimerFires
<1>2. ASSUME NEW s \in RunIDs PROVE AckCurrent(s)' /\ ResultCurrent(s)'
  <2>1. /\ AckCurrent(s) /\ ResultCurrent(s) /\ Current(s)' = Current(s)
    BY <1>1, NoStaleTimerByRun DEF QueueInv, Current
  <2>2. \/ ackTimers'[s] = ackTimers[s]
        \/ /\ ackTimers[s] # NoTimer /\ ackTimers'[s].run = ackTimers[s].run
           /\ ackTimers'[s].gen = ackTimers[s].gen
    BY DEF AckTimerFires, ResultTimerFires, Fired, NoTimer, QueueInv, WellFormed, TypeOK
  <2>3. \/ resultTimers'[s] = resultTimers[s]
        \/ resultTimers[s] # NoTimer /\ resultTimers'[s].run = resultTimers[s].run
    BY DEF AckTimerFires, ResultTimerFires, Fired, NoTimer, QueueInv, WellFormed, TypeOK
  <2>4. QED
    BY <1>1, <2>1, <2>2, <2>3 DEF AckCurrent, ResultCurrent
<1>3. QED
  BY <1>2 DEF NoStaleTimer, AckCurrent, ResultCurrent

LEMMA ClaimRetriesTimers ==
  ASSUME QueueInv, NEW claimed \in SUBSET Runs, NEW lost \in SUBSET Runs,
         \A o \in claimed : status[o] \in {"dispatching", "awaiting_ack"},
         \A o \in lost : status[o] = "awaiting_result",
         ClaimRetries(claimed, lost), runs' = runs, attempts' = attempts
  PROVE  NoStaleTimer'
<1>1. /\ \A o \in Runs \ (claimed \union lost) : status'[o] = status[o]
      /\ \A r \in RunIDs :
            /\ ackTimers'[r] = IF Current(r) \in claimed THEN NoTimer ELSE ackTimers[r]
            /\ resultTimers'[r] = IF Current(r) \in lost THEN NoTimer ELSE resultTimers[r]
  BY DEF ClaimRetries, Exhausted
<1>2. ASSUME NEW r \in RunIDs PROVE AckCurrent(r)' /\ ResultCurrent(r)'
  <2>1. CASE Current(r) \in claimed \union lost
    <3>1. ackTimers'[r] = NoTimer /\ resultTimers'[r] = NoTimer
      BY <1>1, <2>1, TimersFollowStatus
    <3>2. QED
      BY <3>1 DEF AckCurrent, ResultCurrent
  <2>2. CASE Current(r) \notin claimed \union lost
    <3>1. CASE runs[r] = 0
      BY <1>1, <2>2, <3>1, TimersFollowStatus DEF AckCurrent, ResultCurrent
    <3>2. CASE runs[r] # 0
      <4>1. Current(r) \in Runs
        BY <3>2, TrackedExists DEF QueueInv
      <4>2. QED
        BY <1>1, <2>2, <4>1, TimersLeft
    <3>3. QED
      BY <3>1, <3>2
  <2>3. QED
    BY <2>1, <2>2
<1>3. QED
  BY <1>2 DEF NoStaleTimer, AckCurrent, ResultCurrent

\* Only finished runs are pruned, and a finished run has no timer.
LEMMA PruneTimers ==
  ASSUME QueueInv, NEW S \in SUBSET Prunable, PruneCompleted(S)
  PROVE  NoStaleTimer'
<1>1. ASSUME NEW r \in RunIDs PROVE AckCurrent(r)' /\ ResultCurrent(r)'
  <2>1. CASE Current(r) \in S
    <3>1. status[Current(r)] \in Terminal
      BY <2>1 DEF Prunable
    <3>2. ackTimers[r] = NoTimer /\ resultTimers[r] = NoTimer
      BY <3>1, TimersFollowStatus DEF Terminal
    <3>3. QED
      BY <3>2 DEF AckCurrent, ResultCurrent, PruneCompleted
  <2>2. CASE Current(r) \notin S
    BY <2>2, TimersLeft DEF PruneCompleted
  <2>3. QED
    BY <2>1, <2>2
<1>2. QED
  BY <1>1 DEF NoStaleTimer, AckCurrent, ResultCurrent

LEMMA NextTimers == QueueInv /\ [Next]_vars => NoStaleTimer'
<1> SUFFICES ASSUME QueueInv, [Next]_vars PROVE NoStaleTimer'
  OBVIOUS
<1>1. ASSUME NEW g \in Goroutines, handleAckTimeout(g) PROVE NoStaleTimer'
  <2>1. CASE ~SameAttempt(g)
    BY <1>1, <2>1, TimersUntouched DEF handleAckTimeout
  <2>2. CASE SameAttempt(g)
    <3>1. PICK o \in Runs : o = thread[g].run
      BY <1>1, AtWork DEF handleAckTimeout, QueueInv
    <3>2. ClaimRetries({o}, {}) /\ status[o] = "awaiting_ack" /\ runs' = runs /\ attempts' = attempts
      BY <1>1, <2>2, <3>1 DEF handleAckTimeout, SameAttempt
    <3>3. QED
      BY <3>2, ClaimRetriesTimers
  <2>3. QED
    BY <2>1, <2>2
<1>2. ASSUME NEW g \in Goroutines, NEW n \in Nodes, HandleNodeDisconnect(g, n) PROVE NoStaleTimer'
  <2> DEFINE claimed == NodeRuns(n) \intersect (InStatus("awaiting_ack") \union InStatus("dispatching"))
             lost    == NodeRuns(n) \intersect InStatus("awaiting_result")
  <2>1. ClaimRetries(claimed, lost) /\ runs' = runs /\ attempts' = attempts
    BY <1>2 DEF HandleNodeDisconnect
  <2>2. /\ claimed \in SUBSET Runs /\ lost \in SUBSET Runs
        /\ \A o \in claimed : status[o] \in {"dispatching", "awaiting_ack"}
        /\ \A o \in lost : status[o] = "awaiting_result"
    BY DEF NodeRuns, InStatus
  <2> HIDE DEF claimed, lost
  <2>3. QED
    BY <2>1, <2>2, ClaimRetriesTimers
<1>3. ASSUME NEW g \in Goroutines, Step(g) PROVE NoStaleTimer'
  <2>1. CASE send(g) \/ dispatchRetry(g)
    BY <2>1, TimersUntouched DEF send, dispatchRetry, queueVars
  <2>2. QED
    BY <1>1, <1>3, <2>1, skipOfflineTimers, claimDispatchLockedTimers, handleDispatchFailureTimers,
       startAckTimerTimers, startResultTimerTimers, handleResultTimeoutTimers DEF Step
<1>4. ASSUME NEW r \in RunIDs, AckTimer(r) \/ ResultTimer(r) PROVE NoStaleTimer'
  BY <1>4, TimerFiresTimers DEF AckTimer, ResultTimer
<1>5. ASSUME NEW n \in Nodes, DownDelivered(n) \/ UpDelivered(n) PROVE NoStaleTimer'
  <2>1. CASE UpDelivered(n)
    BY <2>1, TimersUntouched DEF UpDelivered, HandleNodeReconnect, queueVars
  <2>2. QED
    BY <1>2, <1>5, <2>1 DEF DownDelivered
<1>6. ASSUME NEW r \in RunIDs, NEW n \in Nodes, NEW b \in Bodies,
             Redeliver(r, n, b) \/ \E g \in Goroutines : Dispatch(g, r, n, b)
      PROVE  NoStaleTimer'
  <2>1. CASE Redeliver(r, n, b)
    BY <2>1, TimersUntouched DEF Redeliver
  <2>2. QED
    BY <1>6, <2>1, DispatchTimers
<1>7. ASSUME NEW n \in Nodes, NodeUp(n) \/ NodeDown(n) \/ OldSessionDown(n) PROVE NoStaleTimer'
  BY <1>7, TimersUntouched DEF NodeUp, NodeDown, OldSessionDown, queueVars
<1>8. CASE UNCHANGED vars
  BY <1>8, TimersUntouched DEF vars, queueVars
<1>9. QED
  BY <1>3, <1>4, <1>5, <1>6, <1>7, <1>8, AnswerTimers, PruneTimers DEF Next

-----------------------------------------------------------------------------
(* One sender for each attempt                                             *)

\* What a step does to the goroutines h: it is left alone, or it is at a place that is no
\* part of a send and no timer callback.
Aside(h) == thread'[h].pc \notin {"send", "arm", "fail", "ackTimeout"}

\* A step that starts no attempt and arms no ack timer.
LEMMA SendersKept ==
  ASSUME QueueInv,
         \A h \in Goroutines : thread'[h] = thread[h] \/ Aside(h),
         \A o \in Runs : attempts'[o] = attempts[o],
         \A r \in RunIDs : ackTimers'[r] = ackTimers[r] \/ ackTimers'[r] = NoTimer
  PROVE  SendersAlone' /\ CallbacksAlone'
<1>1. CallbacksAlone'
  BY DEF QueueInv, CallbacksAlone, Aside
<1>2. ASSUME NEW h \in Goroutines, Sending(h)'
      PROVE  Sending(h) /\ thread'[h].run = thread[h].run /\ thread'[h].gen = thread[h].gen
  BY <1>2 DEF Aside, Sending
<1>3. ASSUME NEW h \in Goroutines, Sending(h) PROVE thread[h].run \in Runs /\ thread[h].run[1] \in RunIDs
  BY <1>3, AtWork DEF QueueInv, Sending
<1>4. ASSUME NEW h \in Goroutines, Sending(h)' PROVE SenderAlone(h)'
  <2>1. SenderAlone(h) /\ thread[h].run \in Runs /\ thread[h].run[1] \in RunIDs
    BY <1>2, <1>3, <1>4 DEF QueueInv, SendersAlone
  <2>2. ~TimerOf(thread[h].run, thread[h].gen)'
    BY <1>2, <1>4, <2>1 DEF SenderAlone, TimerOf
  <2>3. QED
    BY <1>2, <1>4, <2>1, <2>2 DEF SenderAlone
<1>5. QED
  BY <1>1, <1>4 DEF SendersAlone, SenderAlone

\* A goroutine that leaves its run, enters a loop, or starts elsewhere, is aside.
LEMMA LoopAside ==
  ASSUME NEW g \in Goroutines, thread \in [Goroutines -> ThreadType], NEW kind, NEW S,
         EnterLoop(g, kind, S)
  PROVE  Aside(g) /\ \A h \in Goroutines : h # g => thread'[h] = thread[h]
<1>1. \/ thread' = [thread EXCEPT ![g] = Idle]
      \/ \E o \in S : thread' = [thread EXCEPT ![g] = At(LoopEntry(kind), kind, o, 0, S \ {o})]
  BY DEF EnterLoop
<1>2. QED
  BY <1>1 DEF Aside, Idle, At, LoopEntry

LEMMA LeaveAside ==
  ASSUME NEW g \in Goroutines, WellFormed, LeaveRun(g)
  PROVE  \A h \in Goroutines : thread'[h] = thread[h] \/ Aside(h)
<1>1. thread \in [Goroutines -> ThreadType] /\ EnterLoop(g, thread[g].kind, thread[g].todo)
  BY DEF WellFormed, TypeOK, LeaveRun
<1>2. QED
  BY <1>1, LoopAside

\* claimDispatchLocked begins an attempt nobody has a generation for yet.
LEMMA claimDispatchLockedSenders ==
  ASSUME QueueInv, NEW g \in Goroutines, claimDispatchLocked(g)
  PROVE  SendersAlone' /\ CallbacksAlone'
<1> DEFINE o == thread[g].run
<1>1. o \in Runs /\ o[1] \in RunIDs
  BY AtWork DEF claimDispatchLocked, QueueInv
<1>2. CASE LeaveRun(g) /\ attempts' = attempts
  BY <1>2, LeaveAside, SendersKept DEF claimDispatchLocked, QueueInv
<1>3. CASE ~(LeaveRun(g) /\ attempts' = attempts)
  <2>1. /\ status[o] \in {"dispatching", "retrying"}
        /\ attempts' = [attempts EXCEPT ![o] = @ + 1]
        /\ thread' = [thread EXCEPT ![g] = At("send", thread[g].kind, o, attempts[o] + 1, thread[g].todo)]
        /\ ackTimers' = ackTimers
    BY <1>3 DEF claimDispatchLocked, Goto, ExpectedStatus
  <2>2. /\ thread'[g].pc = "send" /\ thread'[g].run = o /\ thread'[g].gen = attempts[o] + 1
        /\ \A h \in Goroutines \ {g} : thread'[h] = thread[h]
    BY <2>1 DEF At, QueueInv, WellFormed, TypeOK
  <2>3. /\ attempts'[o] = attempts[o] + 1 /\ \A x \in Runs \ {o} : attempts'[x] = attempts[x]
        /\ \A x \in Runs : attempts[x] \in Nat
    BY <1>1, <2>1 DEF QueueInv, WellFormed, TypeOK
  <2>4. ackTimers[o[1]] = NoTimer
    BY <1>1, <2>1, ActiveIsCurrent, TimersFollowStatus DEF Active
  <2> HIDE DEF o
  <2>5. \A h \in Goroutines \ {g} : Sending(h) =>
           thread[h].run \in Runs /\ thread[h].gen \in Nat /\ thread[h].gen <= attempts[thread[h].run]
    BY AtWork DEF QueueInv, Sending, SendersAlone, SenderAlone
  <2>6. SenderAlone(g)'
    <3>1. \A h \in Goroutines \ {g} :
             Sending(h)' /\ thread'[h].run = o => thread'[h].gen # attempts[o] + 1
      BY <1>1, <2>2, <2>3, <2>5 DEF Sending
    <3>2. ~TimerOf(thread[g].run, thread[g].gen)'
      BY <2>1, <2>2, <2>4 DEF TimerOf
    <3>3. QED
      BY <1>1, <2>2, <2>3, <3>1, <3>2 DEF SenderAlone
  <2>7. ASSUME NEW h \in Goroutines \ {g} PROVE SenderAlone(h)'
    <3>1. SenderAlone(h) /\ thread'[h] = thread[h] /\ (Sending(h)' <=> Sending(h))
      BY <2>2 DEF QueueInv, SendersAlone, Sending
    <3>2. CASE ~Sending(h)
      BY <3>1, <3>2 DEF SenderAlone
    <3>3. CASE Sending(h)
      <4>1. thread[h].gen <= attempts'[thread[h].run]
        BY <1>1, <2>3, <2>5, <3>3
      <4>2. \A k \in Goroutines \ {h} :
               Sending(k)' /\ thread'[k].run = thread[h].run => thread'[k].gen # thread[h].gen
        BY <1>1, <2>2, <2>3, <2>5, <3>1, <3>3 DEF SenderAlone, Sending
      <4>3. ~TimerOf(thread[h].run, thread[h].gen)'
        BY <2>1, <3>1, <3>3 DEF SenderAlone, TimerOf
      <4>4. QED
        BY <3>1, <4>1, <4>2, <4>3 DEF SenderAlone
    <3>4. QED
      BY <3>2, <3>3
  <2>8. CallbacksAlone'
    BY <2>2 DEF CallbacksAlone, QueueInv
  <2>9. QED
    BY <2>6, <2>7, <2>8 DEF SendersAlone
<1>4. QED
  BY <1>2, <1>3

\* The write to the socket keeps the sender where it is: its run and generation.
LEMMA sendSenders ==
  ASSUME QueueInv, NEW g \in Goroutines, send(g)
  PROVE  SendersAlone' /\ CallbacksAlone'
<1>1. /\ thread'[g].pc \in {"arm", "fail"} /\ thread'[g].run = thread[g].run
      /\ thread'[g].gen = thread[g].gen /\ \A h \in Goroutines \ {g} : thread'[h] = thread[h]
  BY DEF send, Goto, At, QueueInv, WellFormed, TypeOK
<1>2. attempts' = attempts /\ ackTimers' = ackTimers
  BY DEF send, queueVars
<1>3. \A h \in Goroutines : /\ Sending(h)' <=> Sending(h)
                            /\ thread'[h].run = thread[h].run /\ thread'[h].gen = thread[h].gen
  BY <1>1 DEF Sending, send
<1>4. ASSUME NEW h \in Goroutines PROVE SenderAlone(h)'
  <2>1. SenderAlone(h) /\ (TimerOf(thread[h].run, thread[h].gen)' <=> TimerOf(thread[h].run, thread[h].gen))
    BY <1>2, <1>3 DEF QueueInv, SendersAlone, TimerOf
  <2>2. QED
    BY <1>2, <1>3, <2>1 DEF SenderAlone
<1>5. CallbacksAlone'
  BY <1>1 DEF CallbacksAlone, QueueInv
<1>6. QED
  BY <1>4, <1>5 DEF SendersAlone

\* The sender that arms the timer of an attempt is the only one of that attempt, and is done.
LEMMA startAckTimerSenders ==
  ASSUME QueueInv, NEW g \in Goroutines, startAckTimer(g)
  PROVE  SendersAlone' /\ CallbacksAlone'
<1>1. CASE ackTimers' = ackTimers
  BY <1>1, LeaveAside, SendersKept DEF startAckTimer, QueueInv
<1>2. CASE ackTimers' # ackTimers
  <2>1. PICK o \in Runs : o = thread[g].run /\ o[1] \in RunIDs
    BY AtWork DEF startAckTimer, QueueInv
  <2>2. ackTimers' = [ackTimers EXCEPT ![o[1]] = Timer(o, thread[g].gen)] /\ attempts' = attempts
    BY <1>2, <2>1 DEF startAckTimer
  <2>3. /\ thread'[g].pc \notin {"send", "arm", "fail", "ackTimeout"}
        /\ \A h \in Goroutines \ {g} : thread'[h] = thread[h]
    <3>1. thread \in [Goroutines -> ThreadType] /\ EnterLoop(g, thread[g].kind, thread[g].todo)
      BY DEF startAckTimer, LeaveRun, QueueInv, WellFormed, TypeOK
    <3>2. QED
      BY <3>1, LoopAside DEF Aside
  <2>4. /\ ackTimers'[o[1]].run = o[2] /\ ackTimers'[o[1]].gen = thread[g].gen
        /\ \A r \in RunIDs \ {o[1]} : ackTimers'[r] = ackTimers[r]
    BY <2>1, <2>2 DEF Timer, QueueInv, WellFormed, TypeOK
  <2>5. ASSUME NEW h \in Goroutines, Sending(h)' PROVE SenderAlone(h)'
    <3>1. h # g /\ thread'[h] = thread[h] /\ Sending(h) /\ SenderAlone(h)
      BY <2>3, <2>5 DEF Sending, QueueInv, SendersAlone
    <3>2. thread[h].run = o => thread[h].gen # thread[g].gen
      BY <2>1, <3>1 DEF SenderAlone, Sending, startAckTimer
    <3>3. /\ thread[h].run \in Runs /\ thread[h].run[1] \in RunIDs
          /\ thread[h].run = <<thread[h].run[1], thread[h].run[2]>>
      BY <3>1, AtWork DEF QueueInv, Sending
    <3>4. o = <<o[1], o[2]>>
      BY DEF Runs
    <3>5. ~TimerOf(thread[h].run, thread[h].gen)'
      <4>1. CASE thread[h].run[1] # o[1]
        BY <2>4, <3>1, <3>3, <4>1 DEF TimerOf, SenderAlone
      <4>2. CASE thread[h].run[1] = o[1]
        BY <2>4, <3>1, <3>2, <3>3, <3>4, <4>2 DEF TimerOf
      <4>3. QED
        BY <4>1, <4>2
    <3>6. \A k \in Goroutines \ {h} :
             Sending(k)' /\ thread'[k].run = thread[h].run => thread'[k].gen # thread[h].gen
      BY <2>3, <3>1 DEF SenderAlone, Sending
    <3>7. QED
      BY <2>2, <3>1, <3>5, <3>6 DEF SenderAlone
  <2>6. CallbacksAlone'
    BY <2>3 DEF CallbacksAlone, QueueInv
  <2>7. QED
    BY <2>5, <2>6 DEF SendersAlone, SenderAlone
<1>3. QED
  BY <1>1, <1>2

\* A timer that fires keeps its object and generation, and its callback has no list.
LEMMA TimerFiresSenders ==
  ASSUME QueueInv, NEW g \in Goroutines, NEW r \in RunIDs,
         AckTimerFires(g, r) \/ ResultTimerFires(g, r)
  PROVE  SendersAlone' /\ CallbacksAlone'
<1>1. /\ thread'[g].pc \in {"ackTimeout", "resultTimeout"} /\ thread'[g].todo = {}
      /\ \A h \in Goroutines \ {g} : thread'[h] = thread[h]
      /\ attempts' = attempts
  BY DEF AckTimerFires, ResultTimerFires, At, QueueInv, WellFormed, TypeOK
<1>2. \A s \in RunIDs : \/ ackTimers'[s] = ackTimers[s]
                        \/ /\ ackTimers[s] # NoTimer /\ ackTimers'[s].run = ackTimers[s].run
                           /\ ackTimers'[s].gen = ackTimers[s].gen
  BY DEF AckTimerFires, ResultTimerFires, Fired, NoTimer, QueueInv, WellFormed, TypeOK
<1>3. ASSUME NEW h \in Goroutines, Sending(h)' PROVE SenderAlone(h)'
  <2>1. h # g /\ thread'[h] = thread[h] /\ Sending(h) /\ SenderAlone(h)
    BY <1>1, <1>3 DEF Sending, QueueInv, SendersAlone
  <2>2. thread[h].run[1] \in RunIDs
    BY <2>1, AtWork DEF QueueInv, Sending
  <2>3. ~TimerOf(thread[h].run, thread[h].gen)'
    BY <1>2, <2>1, <2>2 DEF TimerOf, SenderAlone
  <2>4. \A k \in Goroutines \ {h} :
           Sending(k)' /\ thread'[k].run = thread[h].run => thread'[k].gen # thread[h].gen
    BY <1>1, <2>1 DEF SenderAlone, Sending
  <2>5. QED
    BY <1>1, <2>1, <2>3, <2>4 DEF SenderAlone
<1>4. CallbacksAlone'
  BY <1>1 DEF CallbacksAlone, QueueInv
<1>5. QED
  BY <1>3, <1>4 DEF SendersAlone, SenderAlone

LEMMA NextSenders == QueueInv /\ [Next]_vars => SendersAlone' /\ CallbacksAlone'
<1> SUFFICES ASSUME QueueInv, [Next]_vars PROVE SendersAlone' /\ CallbacksAlone'
  OBVIOUS
<1> DEFINE Undisturbed ==
             /\ \A h \in Goroutines : thread'[h] = thread[h] \/ Aside(h)
             /\ \A o \in Runs : attempts'[o] = attempts[o]
             /\ \A r \in RunIDs : ackTimers'[r] = ackTimers[r] \/ ackTimers'[r] = NoTimer
<1>1. ASSUME Undisturbed PROVE SendersAlone' /\ CallbacksAlone'
  BY <1>1, SendersKept
<1>2. thread \in [Goroutines -> ThreadType] /\ ackTimers \in [RunIDs -> TimerType(Nat)] /\ WellFormed
  BY DEF QueueInv, WellFormed, TypeOK
<1>3. ASSUME NEW g \in Goroutines, NEW kind, NEW S, EnterLoop(g, kind, S)
      PROVE  \A h \in Goroutines : thread'[h] = thread[h] \/ Aside(h)
  BY <1>2, <1>3, LoopAside
<1>4. ASSUME NEW claimed, NEW lost, ClaimRetries(claimed, lost)
      PROVE  \A r \in RunIDs : ackTimers'[r] = ackTimers[r] \/ ackTimers'[r] = NoTimer
  BY <1>4 DEF ClaimRetries
<1>5. ASSUME NEW g \in Goroutines, Step(g) PROVE SendersAlone' /\ CallbacksAlone'
  <2>1. CASE skipOffline(g) \/ handleDispatchFailure(g) \/ startResultTimer(g) \/ handleResultTimeout(g)
    <3>1. LeaveRun(g) /\ attempts' = attempts /\ ackTimers' = ackTimers
      BY <2>1 DEF skipOffline, handleDispatchFailure, startResultTimer, handleResultTimeout
    <3>2. QED
      BY <1>1, <1>2, <3>1, LeaveAside
  <2>2. CASE dispatchRetry(g)
    <3>1. attempts' = attempts /\ ackTimers' = ackTimers
      BY <2>2 DEF dispatchRetry, queueVars
    <3>2. CASE LeaveRun(g)
      BY <1>1, <1>2, <3>1, <3>2, LeaveAside
    <3>3. CASE Goto(g, "claim", 0)
      BY <1>1, <1>2, <3>1, <3>3 DEF Goto, Aside, At
    <3>4. QED
      BY <2>2, <3>2, <3>3 DEF dispatchRetry
  <2>3. CASE handleAckTimeout(g)
    <3>1. CASE ~SameAttempt(g)
      BY <1>1, <1>2, <2>3, <3>1, LeaveAside DEF handleAckTimeout
    <3>2. CASE SameAttempt(g)
      BY <1>1, <1>3, <1>4, <2>3, <3>2 DEF handleAckTimeout
    <3>3. QED
      BY <3>1, <3>2
  <2>4. QED
    BY <1>5, <2>1, <2>2, <2>3, claimDispatchLockedSenders, sendSenders, startAckTimerSenders DEF Step
<1>6. ASSUME NEW n \in Nodes, DownDelivered(n) \/ UpDelivered(n)
      PROVE  SendersAlone' /\ CallbacksAlone'
  <2>1. ASSUME NEW g \in Goroutines, HandleNodeDisconnect(g, n) PROVE SendersAlone' /\ CallbacksAlone'
    BY <1>1, <1>3, <1>4, <2>1 DEF HandleNodeDisconnect
  <2>2. ASSUME NEW g \in Goroutines, HandleNodeReconnect(g, n) PROVE SendersAlone' /\ CallbacksAlone'
    BY <1>1, <1>3, <2>2 DEF HandleNodeReconnect, queueVars
  <2>3. QED
    BY <1>6, <2>1, <2>2 DEF DownDelivered, UpDelivered
<1>7. ASSUME NEW g \in Goroutines, NEW r \in RunIDs, NEW n \in Nodes, NEW b \in Bodies,
             Dispatch(g, r, n, b)
      PROVE  SendersAlone' /\ CallbacksAlone'
  <2>1. \A h \in Goroutines : thread'[h] = thread[h] \/ Aside(h)
    BY <1>2, <1>7 DEF Dispatch, At, Aside
  <2>2. QED
    BY <1>1, <1>7, <2>1 DEF Dispatch
<1>8. ASSUME NEW r \in RunIDs, NEW n \in Nodes,
             \/ \E g \in Goroutines : HandleAckAccepted(g, n, r)
             \/ HandleAckRejected(n, r)
             \/ \E ok \in BOOLEAN : HandleResult(n, r, ok)
      PROVE  SendersAlone' /\ CallbacksAlone'
  <2>1. \A h \in Goroutines : thread'[h] = thread[h] \/ Aside(h)
    BY <1>2, <1>8 DEF HandleAckAccepted, HandleAckRejected, HandleResult, At, Aside
  <2>2. /\ attempts' = attempts
        /\ \A s \in RunIDs : ackTimers'[s] = ackTimers[s] \/ ackTimers'[s] = NoTimer
    BY <1>2, <1>8 DEF HandleAckAccepted, HandleAckRejected, HandleResult
  <2>3. QED
    BY <1>1, <2>1, <2>2
<1>9. CASE \/ \E r \in RunIDs, n \in Nodes, b \in Bodies : Redeliver(r, n, b)
           \/ \E S \in SUBSET Prunable : PruneCompleted(S)
           \/ \E n \in Nodes : NodeUp(n) \/ NodeDown(n) \/ OldSessionDown(n)
           \/ UNCHANGED vars
  <2>1. thread' = thread /\ attempts' = attempts /\ ackTimers' = ackTimers
    BY <1>9 DEF Redeliver, PruneCompleted, NodeUp, NodeDown, OldSessionDown, vars, queueVars
  <2>2. QED
    BY <1>1, <2>1
<1>10. QED
  BY <1>5, <1>6, <1>7, <1>8, <1>9, TimerFiresSenders DEF Next, AckTimer, ResultTimer

-----------------------------------------------------------------------------
(* Somebody watches every active run                                       *)

\* A goroutine that stays where it is keeps carrying a run whose own state is unchanged.
LEMMA CarriesKept ==
  ASSUME NEW x \in Runs, NEW h \in Goroutines, thread'[h] = thread[h],
         status'[x] = status[x], attempts'[x] = attempts[x], Carries(h, x)
  PROVE  Carries(h, x)'
BY DEF Carries

\* The node x runs on is still awaited, unless a session event of that node is handled.
LEMMA AwaitingKept ==
  ASSUME NEW x \in Runs, status'[x] = status[x], params'[x] = params[x],
         UNCHANGED transportVars, AwaitingNode(x)
  PROVE  AwaitingNode(x)'
BY DEF AwaitingNode, NodeOf, transportVars

\* A run whose own state and timers do not change, when the goroutines that move, and the
\* session events, take care of the run if it was them it relied on.
LEMMA WatchHandedOver ==
  ASSUME NEW x \in Runs, Watched(x), status'[x] = status[x], attempts'[x] = attempts[x],
         AckTimed(x) => ackTimers'[x[1]] = ackTimers[x[1]],
         ResultTimed(x) => resultTimers'[x[1]] = resultTimers[x[1]],
         AwaitingNode(x) => Watched(x)',
         \A h \in Goroutines : thread'[h] = thread[h] \/ (Carries(h, x) => Watched(x)')
  PROVE  Watched(x)'
<1>1. AckTimed(x) => AckTimed(x)'
  BY DEF AckTimed, Timer
<1>2. ResultTimed(x) => ResultTimed(x)'
  BY DEF ResultTimed, Timer
<1>3. ASSUME NEW h \in Goroutines, Carries(h, x) PROVE Watched(x)'
  BY <1>3, CarriesKept DEF Watched
<1>4. QED
  BY <1>1, <1>2, <1>3 DEF Watched

LEMMA WatchKept ==
  ASSUME NEW x \in Runs, Watched(x), status'[x] = status[x], attempts'[x] = attempts[x],
         params'[x] = params[x], UNCHANGED transportVars,
         AckTimed(x) => ackTimers'[x[1]] = ackTimers[x[1]],
         ResultTimed(x) => resultTimers'[x[1]] = resultTimers[x[1]],
         \A h \in Goroutines : thread'[h] = thread[h] \/ (Carries(h, x) => Watched(x)')
  PROVE  Watched(x)'
<1>1. AwaitingNode(x) => Watched(x)'
  BY AwaitingKept DEF Watched
<1>2. QED
  BY <1>1, WatchHandedOver

\* A goroutine that enters a loop carries every run of its list.
LEMMA LoopCarries ==
  ASSUME NEW g \in Goroutines, thread \in [Goroutines -> ThreadType],
         NEW kind \in {"retry", "reconnect"}, NEW S, EnterLoop(g, kind, S),
         NEW x \in S, x \in Runs, status'[x] = "retrying"
  PROVE  Watched(x)'
<1>1. PICK o \in S : thread' = [thread EXCEPT ![g] = At(LoopEntry(kind), kind, o, 0, S \ {o})]
  BY DEF EnterLoop
<1>2. /\ thread'[g].run = o /\ thread'[g].todo = S \ {o}
      /\ thread'[g].kind # "dispatch" /\ thread'[g].pc \in {"retry", "claim"}
  BY <1>1 DEF At, LoopEntry
<1>3. Carries(g, x)'
  BY <1>2 DEF Carries
<1>4. QED
  BY <1>3 DEF Watched

\* A goroutine leaves the run it worked on, and carried no run but those of its list.
LEMMA LeftWatched ==
  ASSUME WellFormed, NEW g \in Goroutines, LeaveRun(g), NEW x \in Runs, Watched(x),
         status'[x] = status[x], attempts'[x] = attempts[x],
         params'[x] = params[x], UNCHANGED transportVars,
         AckTimed(x) => ackTimers'[x[1]] = ackTimers[x[1]],
         ResultTimed(x) => resultTimers'[x[1]] = resultTimers[x[1]],
         Carries(g, x) => x \in thread[g].todo /\ status[x] = "retrying"
  PROVE  Watched(x)'
<1>1. /\ thread \in [Goroutines -> ThreadType] /\ EnterLoop(g, thread[g].kind, thread[g].todo)
      /\ thread[g].todo # {} => thread[g].kind \in {"retry", "reconnect"}
  BY DEF LeaveRun, WellFormed, TypeOK, Bookkeeping, ThreadsOnObjects, ThreadOnObjects
<1>2. Carries(g, x) => Watched(x)'
  BY <1>1, LoopCarries
<1>3. \A h \in Goroutines : h # g => thread'[h] = thread[h]
  BY <1>1, LoopAside
<1>4. QED
  BY <1>2, <1>3, WatchKept

\* Two active runs have different run IDs, so a step on the timers of o leaves those of x.
LEMMA OtherRunID ==
  ASSUME QueueInv, NEW o \in Runs, NEW x \in Runs, status[o] \in Active, status[x] \in Active, x # o
  PROVE  x[1] # o[1] /\ x[1] \in RunIDs /\ o[1] \in RunIDs
BY ActiveUnique, ActiveIsCurrent

LEMMA skipOfflineWatched ==
  ASSUME QueueInv, NEW g \in Goroutines, skipOffline(g), NEW x \in Runs, status'[x] \in Active,
         status[x] \in Active
  PROVE  Watched(x)'
<1>1. Watched(x) /\ WellFormed /\ thread[g].run \in Runs
  BY AtWork DEF QueueInv, NoStrandedRun, skipOffline
<1>2. status'[x] = status[x]
  BY <1>1 DEF skipOffline, SetStatus, Active, WellFormed, TypeOK
<1>3. Carries(g, x) => x \in thread[g].todo /\ status[x] = "retrying"
  BY <1>1, <1>2 DEF Carries, skipOffline, SetStatus, WellFormed, TypeOK
<1>4. QED
  BY <1>1, <1>2, <1>3, LeftWatched DEF skipOffline

LEMMA handleDispatchFailureWatched ==
  ASSUME QueueInv, NEW g \in Goroutines, handleDispatchFailure(g), NEW x \in Runs,
         status'[x] \in Active, status[x] \in Active
  PROVE  Watched(x)'
<1>1. Watched(x) /\ WellFormed /\ thread[g].run \in Runs
  BY AtWork DEF QueueInv, NoStrandedRun, handleDispatchFailure
<1>2. status'[x] = status[x]
  BY <1>1 DEF handleDispatchFailure, SetStatus, Active, WellFormed, TypeOK
<1>3. Carries(g, x) => x \in thread[g].todo /\ status[x] = "retrying"
  BY <1>1, <1>2 DEF Carries, handleDispatchFailure, SetStatus, SameAttempt, WellFormed, TypeOK
<1>4. QED
  BY <1>1, <1>2, <1>3, LeftWatched DEF handleDispatchFailure

LEMMA claimDispatchLockedWatched ==
  ASSUME QueueInv, NEW g \in Goroutines, claimDispatchLocked(g), NEW x \in Runs,
         status[x] \in Active
  PROVE  Watched(x)'
<1> DEFINE o == thread[g].run
<1>1. Watched(x) /\ WellFormed /\ o \in Runs
  BY AtWork DEF QueueInv, NoStrandedRun, claimDispatchLocked
<1>2. CASE status[o] # ExpectedStatus(thread[g].kind)
  <2>1. LeaveRun(g) /\ status' = status /\ attempts' = attempts
    BY <1>2 DEF claimDispatchLocked
  <2>2. Carries(g, x) => x \in thread[g].todo /\ status[x] = "retrying"
    BY <1>2 DEF Carries, claimDispatchLocked, ExpectedStatus
  <2>3. QED
    BY <1>1, <2>1, <2>2, LeftWatched DEF claimDispatchLocked
<1>3. CASE status[o] = ExpectedStatus(thread[g].kind)
  <2>1. /\ attempts' = [attempts EXCEPT ![o] = @ + 1]
        /\ status' = [status EXCEPT ![o] = "awaiting_ack"]
        /\ thread' = [thread EXCEPT ![g] = At("send", thread[g].kind, o, attempts[o] + 1, thread[g].todo)]
    BY <1>3 DEF claimDispatchLocked, SetStatus, Goto
  <2>2. /\ thread'[g].pc = "send" /\ thread'[g].run = o /\ thread'[g].gen = attempts[o] + 1
        /\ thread'[g].todo = thread[g].todo
        /\ \A h \in Goroutines \ {g} : thread'[h] = thread[h]
        /\ attempts'[o] = attempts[o] + 1 /\ status'[o] = "awaiting_ack"
        /\ \A y \in Runs \ {o} : status'[y] = status[y] /\ attempts'[y] = attempts[y]
    BY <1>1, <2>1 DEF At, WellFormed, TypeOK
  <2>3. CASE x = o
    <3>1. Carries(g, x)'
      BY <2>2, <2>3 DEF Carries
    <3>2. QED
      BY <3>1 DEF Watched
  <2>4. CASE x # o
    <3>1. Carries(g, x) => x \in thread[g].todo /\ status[x] = "retrying"
      BY <2>4 DEF Carries
    <3>2. Carries(g, x) => Carries(g, x)'
      BY <2>2, <2>4, <3>1 DEF Carries
    <3>3. \A h \in Goroutines : thread'[h] = thread[h] \/ (Carries(h, x) => Watched(x)')
      BY <2>2, <3>2 DEF Watched
    <3>4. QED
      BY <1>1, <2>2, <2>4, <3>3, WatchKept DEF claimDispatchLocked
  <2>5. QED
    BY <2>3, <2>4
<1>4. QED
  BY <1>2, <1>3

LEMMA sendWatched ==
  ASSUME QueueInv, NEW g \in Goroutines, send(g), NEW x \in Runs, status[x] \in Active
  PROVE  Watched(x)'
<1>1. Watched(x) /\ WellFormed
  BY DEF QueueInv, NoStrandedRun
<1>2. /\ thread'[g].pc \in {"arm", "fail"} /\ thread'[g].run = thread[g].run
      /\ thread'[g].gen = thread[g].gen /\ thread'[g].todo = thread[g].todo
      /\ \A h \in Goroutines \ {g} : thread'[h] = thread[h]
  BY <1>1 DEF send, Goto, At, WellFormed, TypeOK
<1>3. Carries(g, x) => Carries(g, x)'
  BY <1>2 DEF Carries, send, queueVars
<1>4. \A h \in Goroutines : thread'[h] = thread[h] \/ (Carries(h, x) => Watched(x)')
  BY <1>2, <1>3 DEF Watched
<1>5. QED
  BY <1>1, <1>4, WatchKept DEF send, queueVars

LEMMA dispatchRetryWatched ==
  ASSUME QueueInv, NEW g \in Goroutines, dispatchRetry(g), NEW x \in Runs, status[x] \in Active
  PROVE  Watched(x)'
<1>1. Watched(x) /\ WellFormed
  BY DEF QueueInv, NoStrandedRun
<1>2. thread[g].kind # "dispatch" /\ thread[g].run \in Runs
  BY <1>1, AtWork DEF dispatchRetry, WellFormed, Bookkeeping, ThreadsOnObjects, ThreadOnObjects
<1>3. status' = status /\ attempts' = attempts /\ params' = params /\ UNCHANGED transportVars
      /\ ackTimers' = ackTimers /\ resultTimers' = resultTimers
  BY DEF dispatchRetry, queueVars
<1>4. CASE Goto(g, "claim", 0)
  <2>1. /\ thread'[g].pc = "claim" /\ thread'[g].run = thread[g].run
        /\ thread'[g].kind = thread[g].kind /\ thread'[g].todo = thread[g].todo
        /\ \A h \in Goroutines \ {g} : thread'[h] = thread[h]
    BY <1>1, <1>4 DEF Goto, At, WellFormed, TypeOK
  <2>2. Carries(g, x) => Carries(g, x)'
    BY <1>2, <1>3, <2>1 DEF Carries, dispatchRetry
  <2>3. \A h \in Goroutines : thread'[h] = thread[h] \/ (Carries(h, x) => Watched(x)')
    BY <2>1, <2>2 DEF Watched
  <2>4. QED
    BY <1>1, <1>3, <2>3, WatchKept
<1>5. CASE ~online[NodeOf(thread[g].run)] /\ LeaveRun(g)
  <2>1. CASE x = thread[g].run /\ status[x] = "retrying"
    <3>1. AwaitingNode(x)
      BY <1>5, <2>1 DEF AwaitingNode
    <3>2. QED
      BY <1>3, <3>1, AwaitingKept DEF Watched
  <2>2. CASE ~(x = thread[g].run /\ status[x] = "retrying")
    <3>1. Carries(g, x) => x \in thread[g].todo /\ status[x] = "retrying"
      BY <2>2 DEF Carries, dispatchRetry
    <3>2. QED
      BY <1>1, <1>3, <1>5, <3>1, LeftWatched
  <2>3. QED
    BY <2>1, <2>2
<1>6. QED
  BY <1>4, <1>5 DEF dispatchRetry

\* The sender is done and the timer takes over.
LEMMA startAckTimerWatched ==
  ASSUME QueueInv, NEW g \in Goroutines, startAckTimer(g), NEW x \in Runs, status[x] \in Active
  PROVE  Watched(x)'
<1>1. Watched(x) /\ WellFormed
  BY DEF QueueInv, NoStrandedRun
<1>2. PICK o \in Runs : o = thread[g].run /\ o[1] \in RunIDs
  BY <1>1, AtWork DEF startAckTimer
<1>3. /\ status' = status /\ attempts' = attempts /\ params' = params /\ UNCHANGED transportVars
      /\ resultTimers' = resultTimers /\ LeaveRun(g)
  BY DEF startAckTimer
<1>4. CASE SameAttempt(g) /\ x = o
  <2>1. status[o] = "awaiting_ack" /\ ackTimers'[o[1]] = Timer(o, attempts[o])
    BY <1>1, <1>2, <1>4 DEF startAckTimer, SameAttempt, WellFormed, TypeOK
  <2>2. AckTimed(x)'
    BY <1>3, <1>4, <2>1 DEF AckTimed, Timer
  <2>3. QED
    BY <2>2 DEF Watched
<1>5. CASE ~(SameAttempt(g) /\ x = o)
  <2>1. ackTimers'[x[1]] = ackTimers[x[1]]
    <3>1. CASE ~SameAttempt(g)
      BY <3>1 DEF startAckTimer
    <3>2. CASE SameAttempt(g)
      <4>1. status[o] \in Active /\ x # o
        BY <1>2, <1>5, <3>2 DEF SameAttempt, Active
      <4>2. x[1] # o[1] /\ x[1] \in RunIDs
        BY <4>1, OtherRunID
      <4>3. QED
        BY <1>1, <1>2, <3>2, <4>2 DEF startAckTimer, WellFormed, TypeOK
    <3>3. QED
      BY <3>1, <3>2
  <2>2. Carries(g, x) => x \in thread[g].todo /\ status[x] = "retrying"
    BY <1>2, <1>5 DEF Carries, startAckTimer, SameAttempt
  <2>3. QED
    BY <1>1, <1>3, <2>1, <2>2, LeftWatched
<1>6. QED
  BY <1>4, <1>5

LEMMA startResultTimerWatched ==
  ASSUME QueueInv, NEW g \in Goroutines, startResultTimer(g), NEW x \in Runs, status[x] \in Active
  PROVE  Watched(x)'
<1>1. Watched(x) /\ WellFormed
  BY DEF QueueInv, NoStrandedRun
<1>2. PICK o \in Runs : o = thread[g].run /\ o[1] \in RunIDs
  BY <1>1, AtWork DEF startResultTimer
<1>3. /\ status' = status /\ attempts' = attempts /\ params' = params /\ UNCHANGED transportVars
      /\ ackTimers' = ackTimers /\ LeaveRun(g)
  BY DEF startResultTimer
<1>4. CASE status[o] = "awaiting_result" /\ x = o
  <2>1. resultTimers'[o[1]] = Timer(o, 0)
    BY <1>1, <1>2, <1>4 DEF startResultTimer, WellFormed, TypeOK
  <2>2. ResultTimed(x)'
    BY <1>3, <1>4, <2>1 DEF ResultTimed, Timer
  <2>3. QED
    BY <2>2 DEF Watched
<1>5. CASE ~(status[o] = "awaiting_result" /\ x = o)
  <2>1. resultTimers'[x[1]] = resultTimers[x[1]]
    <3>1. CASE status[o] # "awaiting_result"
      BY <1>2, <3>1 DEF startResultTimer
    <3>2. CASE status[o] = "awaiting_result"
      <4>1. status[o] \in Active /\ x # o
        BY <1>5, <3>2 DEF Active
      <4>2. x[1] # o[1] /\ x[1] \in RunIDs
        BY <4>1, OtherRunID
      <4>3. QED
        BY <1>1, <1>2, <3>2, <4>2 DEF startResultTimer, WellFormed, TypeOK
    <3>3. QED
      BY <3>1, <3>2
  <2>2. Carries(g, x) => x \in thread[g].todo /\ status[x] = "retrying"
    BY <1>2, <1>5 DEF Carries, startResultTimer
  <2>3. QED
    BY <1>1, <1>3, <2>1, <2>2, LeftWatched
<1>6. QED
  BY <1>4, <1>5

LEMMA handleResultTimeoutWatched ==
  ASSUME QueueInv, NEW g \in Goroutines, handleResultTimeout(g), NEW x \in Runs,
         status[x] \in Active, status'[x] \in Active
  PROVE  Watched(x)'
<1>1. Watched(x) /\ WellFormed
  BY DEF QueueInv, NoStrandedRun
<1>2. PICK o \in Runs : o = thread[g].run /\ o[1] \in RunIDs
  BY <1>1, AtWork DEF handleResultTimeout
<1>3. /\ attempts' = attempts /\ params' = params /\ UNCHANGED transportVars
      /\ ackTimers' = ackTimers /\ LeaveRun(g)
  BY DEF handleResultTimeout
<1>4. status'[x] = status[x] /\ (status[o] = "awaiting_result" => x # o)
  BY <1>1, <1>2 DEF handleResultTimeout, SetStatus, Active, WellFormed, TypeOK
<1>5. resultTimers'[x[1]] = resultTimers[x[1]]
  <2>1. CASE status[o] # "awaiting_result"
    BY <1>2, <2>1 DEF handleResultTimeout
  <2>2. CASE status[o] = "awaiting_result"
    <3>1. x[1] # o[1] /\ x[1] \in RunIDs
      BY <1>4, <2>2, OtherRunID DEF Active
    <3>2. QED
      BY <1>1, <1>2, <2>2, <3>1 DEF handleResultTimeout, WellFormed, TypeOK
  <2>3. QED
    BY <2>1, <2>2
<1>6. Carries(g, x) => x \in thread[g].todo /\ status[x] = "retrying"
  BY <1>2, <1>4 DEF Carries, handleResultTimeout
<1>7. QED
  BY <1>1, <1>3, <1>4, <1>5, <1>6, LeftWatched

\* The timer that watched a run becomes the goroutine of its callback.
LEMMA AckTimerFiresWatched ==
  ASSUME QueueInv, NEW g \in Goroutines, NEW r \in RunIDs, AckTimerFires(g, r), NEW x \in Runs,
         status[x] \in Active
  PROVE  Watched(x)'
<1>1. Watched(x) /\ WellFormed
  BY DEF QueueInv, NoStrandedRun
<1>2. /\ status' = status /\ attempts' = attempts /\ params' = params /\ UNCHANGED transportVars
      /\ resultTimers' = resultTimers
  BY DEF AckTimerFires
<1>3. /\ thread'[g].pc = "ackTimeout" /\ thread'[g].run = <<r, ackTimers[r].run>>
      /\ thread'[g].gen = ackTimers[r].gen
      /\ \A h \in Goroutines \ {g} : thread'[h] = thread[h]
      /\ \A s \in RunIDs \ {r} : ackTimers'[s] = ackTimers[s]
      /\ ~Carries(g, x)
  BY <1>1 DEF AckTimerFires, At, Idle, Carries, WellFormed, TypeOK
<1>4. x = <<x[1], x[2]>> /\ x[1] \in RunIDs
  BY DEF Runs
<1>5. CASE AckTimed(x) /\ x[1] = r
  <2>1. ackTimers[r].run = x[2] /\ ackTimers[r].gen = attempts[x] /\ status[x] = "awaiting_ack"
    BY <1>5 DEF AckTimed, Timer
  <2>2. Carries(g, x)'
    BY <1>2, <1>3, <1>4, <1>5, <2>1 DEF Carries
  <2>3. QED
    BY <2>2 DEF Watched
<1>6. CASE ~(AckTimed(x) /\ x[1] = r)
  <2>1. \A h \in Goroutines : thread'[h] = thread[h] \/ (Carries(h, x) => Watched(x)')
    BY <1>3
  <2>2. AckTimed(x) => ackTimers'[x[1]] = ackTimers[x[1]]
    BY <1>3, <1>4, <1>6
  <2>3. QED
    BY <1>1, <1>2, <2>1, <2>2, WatchKept
<1>7. QED
  BY <1>5, <1>6

LEMMA ResultTimerFiresWatched ==
  ASSUME QueueInv, NEW g \in Goroutines, NEW r \in RunIDs, ResultTimerFires(g, r), NEW x \in Runs,
         status[x] \in Active
  PROVE  Watched(x)'
<1>1. Watched(x) /\ WellFormed
  BY DEF QueueInv, NoStrandedRun
<1>2. /\ status' = status /\ attempts' = attempts /\ params' = params /\ UNCHANGED transportVars
      /\ ackTimers' = ackTimers
  BY DEF ResultTimerFires
<1>3. /\ thread'[g].pc = "resultTimeout" /\ thread'[g].run = <<r, resultTimers[r].run>>
      /\ \A h \in Goroutines \ {g} : thread'[h] = thread[h]
      /\ \A s \in RunIDs \ {r} : resultTimers'[s] = resultTimers[s]
      /\ ~Carries(g, x)
  BY <1>1 DEF ResultTimerFires, At, Idle, Carries, WellFormed, TypeOK
<1>4. x = <<x[1], x[2]>> /\ x[1] \in RunIDs
  BY DEF Runs
<1>5. CASE ResultTimed(x) /\ x[1] = r
  <2>1. resultTimers[r].run = x[2] /\ status[x] = "awaiting_result"
    BY <1>5 DEF ResultTimed, Timer
  <2>2. Carries(g, x)'
    BY <1>2, <1>3, <1>4, <1>5, <2>1 DEF Carries
  <2>3. QED
    BY <2>2 DEF Watched
<1>6. CASE ~(ResultTimed(x) /\ x[1] = r)
  <2>1. \A h \in Goroutines : thread'[h] = thread[h] \/ (Carries(h, x) => Watched(x)')
    BY <1>3
  <2>2. ResultTimed(x) => resultTimers'[x[1]] = resultTimers[x[1]]
    BY <1>3, <1>4, <1>6
  <2>3. QED
    BY <1>1, <1>2, <2>1, <2>2, WatchKept
<1>7. QED
  BY <1>5, <1>6

\* An accepted run is watched by the handler that will arm its result timer; a message
\* about one run leaves the watchers of the others alone.
LEMMA AnswerWatched ==
  ASSUME QueueInv, NEW n \in Nodes, NEW r \in RunIDs,
         \/ \E g \in Goroutines : HandleAckAccepted(g, n, r)
         \/ HandleAckRejected(n, r)
         \/ \E ok \in BOOLEAN : HandleResult(n, r, ok),
         NEW x \in Runs, status[x] \in Active, status'[x] \in Active
  PROVE  Watched(x)'
<1>1. Watched(x) /\ WellFormed
  BY DEF QueueInv, NoStrandedRun
<1>2. PICK o \in Runs : o = Current(r) /\ o[1] = r
  BY <1>1, TrackedExists DEF HandleAckAccepted, HandleAckRejected, HandleResult
<1>3. /\ status[o] \in Active /\ \A y \in Runs \ {o} : status'[y] = status[y]
      /\ attempts' = attempts /\ params' = params /\ UNCHANGED transportVars
      /\ \A s \in RunIDs \ {r} : ackTimers'[s] = ackTimers[s] /\ resultTimers'[s] = resultTimers[s]
  BY <1>1, <1>2 DEF HandleAckAccepted, HandleAckRejected, HandleResult, SetStatus, Active,
     WellFormed, TypeOK
<1>4. CASE x # o
  <2>1. x[1] # r /\ x[1] \in RunIDs
    BY <1>2, <1>3, <1>4, OtherRunID
  <2>2. \A h \in Goroutines : thread'[h] = thread[h] \/ ~Carries(h, x)
    BY <1>1 DEF HandleAckAccepted, HandleAckRejected, HandleResult, Idle, Carries, WellFormed, TypeOK
  <2>3. QED
    BY <1>1, <1>3, <1>4, <2>1, <2>2, WatchKept
<1>5. CASE x = o
  <2>1. PICK g \in Goroutines : HandleAckAccepted(g, n, r)
    BY <1>1, <1>2, <1>5 DEF HandleAckRejected, HandleResult, SetStatus, Active, WellFormed, TypeOK
  <2>2. /\ thread'[g].pc = "armResult" /\ thread'[g].run = o /\ status'[o] = "awaiting_result"
    BY <1>1, <1>2, <2>1 DEF HandleAckAccepted, SetStatus, At, WellFormed, TypeOK
  <2>3. Carries(g, x)'
    BY <1>5, <2>2 DEF Carries
  <2>4. QED
    BY <2>3 DEF Watched
<1>6. QED
  BY <1>4, <1>5

LEMMA DispatchWatched ==
  ASSUME QueueInv, NEW g \in Goroutines, NEW r \in RunIDs, NEW n \in Nodes, NEW b \in Bodies,
         Dispatch(g, r, n, b), NEW x \in Runs, status'[x] \in Active
  PROVE  Tracked(x)' /\ Watched(x)'
<1> DEFINE o == <<r, created[r] + 1>>
<1>1. WellFormed
  BY DEF QueueInv
<1>2. o \in Runs /\ runs[r] = 0 /\ created[r] \in Nat
  BY <1>1, BoundsAssumption DEF Dispatch, Runs, WellFormed, TypeOK
<1>3. /\ status' = [status EXCEPT ![o] = "dispatching"] /\ attempts' = attempts
      /\ runs' = [runs EXCEPT ![r] = created[r] + 1]
      /\ ackTimers' = ackTimers /\ resultTimers' = resultTimers /\ UNCHANGED transportVars
      /\ params' = [params EXCEPT ![o] = <<n, b>>]
      /\ thread[g] = Idle
      /\ thread' = [thread EXCEPT ![g] = At(IF online[n] THEN "claim" ELSE "skip", "dispatch", o, 0, {})]
  BY DEF Dispatch, SetStatus
<1>4. CASE x = o
  <2>1. /\ thread'[g].pc \in {"skip", "claim"} /\ thread'[g].run = o /\ thread'[g].kind = "dispatch"
        /\ status'[o] = "dispatching" /\ runs'[r] = created[r] + 1
    BY <1>1, <1>2, <1>3 DEF At, WellFormed, TypeOK
  <2>2. Carries(g, x)'
    BY <1>4, <2>1 DEF Carries
  <2>3. QED
    BY <1>4, <2>1, <2>2 DEF Watched, Tracked
<1>5. CASE x # o
  <2>1. /\ status'[x] = status[x] /\ params'[x] = params[x]
    BY <1>1, <1>2, <1>3, <1>5 DEF WellFormed, TypeOK
  <2>2. Tracked(x) /\ Watched(x) /\ x[1] \in RunIDs /\ x[2] \in 1..MaxIncarnations
    BY <2>1 DEF QueueInv, NoStrandedRun, Runs
  <2>3. x[1] # r
    BY <1>2, <2>2, BoundsAssumption DEF Tracked
  <2>4. Tracked(x)'
    BY <1>1, <1>3, <2>2, <2>3 DEF Tracked, WellFormed, TypeOK
  <2>5. \A h \in Goroutines : thread'[h] = thread[h] \/ ~Carries(h, x)
    BY <1>1, <1>3 DEF Idle, Carries, WellFormed, TypeOK
  <2>6. QED
    BY <1>3, <2>1, <2>2, <2>4, <2>5, WatchKept
<1>6. QED
  BY <1>4, <1>5

\* The runs that one critical section claims for a retry are on the list of the goroutine
\* that claimed them; the others keep their watchers.
LEMMA ClaimRetriesWatched ==
  ASSUME QueueInv, NEW g \in Goroutines, NEW claimed \in SUBSET Runs, NEW lost \in SUBSET Runs,
         \A o \in claimed : status[o] \in {"dispatching", "awaiting_ack"},
         \A o \in lost : status[o] = "awaiting_result",
         ClaimRetries(claimed, lost), EnterLoop(g, "retry", Retried(claimed)),
         attempts' = attempts, params' = params, online' = online, ups' = ups,
         NEW x \in Runs, status[x] \in Active, status'[x] \in Active,
         Carries(g, x) => x \in claimed
  PROVE  Watched(x)'
<1>1. Watched(x) /\ thread \in [Goroutines -> ThreadType]
  BY DEF QueueInv, NoStrandedRun, WellFormed, TypeOK
<1>2. \A o \in Runs : status'[o] = IF o \in Exhausted(claimed) \union lost THEN "failed"
                                   ELSE IF o \in claimed THEN "retrying" ELSE status[o]
  BY DEF ClaimRetries
<1>3. x \notin Exhausted(claimed) \union lost
  BY <1>2 DEF Active
<1>4. CASE x \in claimed
  <2>1. x \in Retried(claimed) /\ status'[x] = "retrying"
    BY <1>2, <1>3, <1>4 DEF Retried
  <2>2. QED
    BY <1>1, <2>1, LoopCarries
<1>5. CASE x \notin claimed
  <2>1. status'[x] = status[x]
    BY <1>2, <1>3, <1>5
  <2>2. x[1] \in RunIDs /\ x = Current(x[1])
    BY ActiveIsCurrent
  <2>3. ackTimers'[x[1]] = ackTimers[x[1]] /\ resultTimers'[x[1]] = resultTimers[x[1]]
    BY <1>3, <1>5, <2>2 DEF ClaimRetries
  <2>4. AwaitingNode(x) => AwaitingNode(x)'
    BY <2>1 DEF AwaitingNode, NodeOf
  <2>5. \A h \in Goroutines : thread'[h] = thread[h] \/ ~Carries(h, x)
    BY <1>1, <1>5, LoopAside
  <2>6. QED
    BY <1>1, <2>1, <2>3, <2>4, <2>5, WatchHandedOver DEF Watched
<1>6. QED
  BY <1>4, <1>5

LEMMA handleAckTimeoutWatched ==
  ASSUME QueueInv, NEW g \in Goroutines, handleAckTimeout(g), NEW x \in Runs,
         status[x] \in Active, status'[x] \in Active
  PROVE  Watched(x)'
<1>1. Watched(x) /\ WellFormed
  BY DEF QueueInv, NoStrandedRun
<1>2. PICK o \in Runs : o = thread[g].run
  BY <1>1, AtWork DEF handleAckTimeout
<1>3. CASE ~SameAttempt(g)
  <2>1. Carries(g, x) => x \in thread[g].todo /\ status[x] = "retrying"
    BY <1>3 DEF Carries, handleAckTimeout, SameAttempt
  <2>2. QED
    BY <1>1, <1>3, <2>1, LeftWatched DEF handleAckTimeout
<1>4. CASE SameAttempt(g)
  <2>1. /\ ClaimRetries({o}, {}) /\ EnterLoop(g, "retry", Retried({o})) /\ status[o] = "awaiting_ack"
        /\ attempts' = attempts /\ params' = params /\ online' = online /\ ups' = ups
    BY <1>2, <1>4 DEF handleAckTimeout, SameAttempt, transportVars
  <2>2. Carries(g, x) => x \in {o}
    BY <1>2 DEF Carries, handleAckTimeout, QueueInv, CallbacksAlone
  <2>3. /\ {o} \in SUBSET Runs /\ {} \in SUBSET Runs
        /\ \A y \in {o} : status[y] \in {"dispatching", "awaiting_ack"}
        /\ \A y \in {} : status[y] = "awaiting_result"
    BY <2>1
  <2>4. QED
    BY <2>1, <2>2, <2>3, ClaimRetriesWatched
<1>5. QED
  BY <1>3, <1>4

LEMMA HandleNodeDisconnectWatched ==
  ASSUME QueueInv, NEW g \in Goroutines, NEW n \in Nodes, HandleNodeDisconnect(g, n),
         NEW x \in Runs, status[x] \in Active, status'[x] \in Active
  PROVE  Watched(x)'
<1> DEFINE claimed == NodeRuns(n) \intersect (InStatus("awaiting_ack") \union InStatus("dispatching"))
           lost    == NodeRuns(n) \intersect InStatus("awaiting_result")
<1>1. /\ ClaimRetries(claimed, lost) /\ EnterLoop(g, "retry", Retried(claimed))
      /\ attempts' = attempts /\ params' = params /\ online' = online /\ ups' = ups
      /\ thread[g] = Idle
  BY DEF HandleNodeDisconnect, Transport!TakeDown
<1>2. /\ claimed \in SUBSET Runs /\ lost \in SUBSET Runs
      /\ \A o \in claimed : status[o] \in {"dispatching", "awaiting_ack"}
      /\ \A o \in lost : status[o] = "awaiting_result"
  BY DEF NodeRuns, InStatus
<1>3. ~Carries(g, x)
  BY <1>1 DEF Carries, Idle
<1> HIDE DEF claimed, lost
<1>4. QED
  BY <1>1, <1>2, <1>3, ClaimRetriesWatched

\* The "connected" event a queued run waited for puts it on the list of its handler.
LEMMA HandleNodeReconnectWatched ==
  ASSUME QueueInv, NEW g \in Goroutines, NEW n \in Nodes, HandleNodeReconnect(g, n),
         NEW x \in Runs, status[x] \in Active
  PROVE  Watched(x)'
<1> DEFINE S == NodeRuns(n) \intersect InStatus("retrying")
<1>1. Watched(x) /\ Tracked(x) /\ thread \in [Goroutines -> ThreadType]
  BY DEF QueueInv, NoStrandedRun, WellFormed, TypeOK
<1>2. /\ status' = status /\ attempts' = attempts /\ params' = params
      /\ ackTimers' = ackTimers /\ resultTimers' = resultTimers
      /\ thread[g] = Idle /\ EnterLoop(g, "reconnect", S)
  BY DEF HandleNodeReconnect, queueVars
<1>3. x \in S => Watched(x)'
  BY <1>1, <1>2, LoopCarries DEF InStatus
<1>4. ASSUME AwaitingNode(x) PROVE Watched(x)'
  <2>1. CASE NodeOf(x) = n
    BY <1>1, <1>3, <1>4, <2>1 DEF AwaitingNode, NodeRuns, InStatus
  <2>2. CASE NodeOf(x) # n
    <3>1. NodeOf(x) \in Nodes
      BY <1>1 DEF QueueInv, WellFormed, Bookkeeping, ObjectsInOrder, NodeOf, Active
    <3>2. online' = online /\ ups'[NodeOf(x)] = ups[NodeOf(x)]
      BY <2>2, <3>1 DEF HandleNodeReconnect, Transport!TakeUp, QueueInv, WellFormed, TypeOK
    <3>3. AwaitingNode(x)'
      BY <1>2, <1>4, <3>2 DEF AwaitingNode, NodeOf
    <3>4. QED
      BY <3>3 DEF Watched
  <2>3. QED
    BY <2>1, <2>2
<1>5. \A h \in Goroutines : thread'[h] = thread[h] \/ ~Carries(h, x)
  BY <1>1, <1>2, LoopAside DEF Idle, Carries
<1>6. QED
  BY <1>1, <1>2, <1>4, <1>5, WatchHandedOver

\* A connection that goes leaves its node offline, and one that comes brings an event.
LEMMA TransportWatched ==
  ASSUME QueueInv, NEW n \in Nodes, NodeUp(n) \/ NodeDown(n) \/ OldSessionDown(n),
         NEW x \in Runs, status[x] \in Active
  PROVE  Watched(x)'
<1>1. Watched(x) /\ WellFormed /\ NodeOf(x) \in Nodes
  BY DEF QueueInv, NoStrandedRun, WellFormed, Bookkeeping, ObjectsInOrder, NodeOf, Active
<1>2. /\ status' = status /\ attempts' = attempts /\ params' = params /\ thread' = thread
      /\ ackTimers' = ackTimers /\ resultTimers' = resultTimers
  BY DEF NodeUp, NodeDown, OldSessionDown, queueVars
<1>3. AwaitingNode(x) => AwaitingNode(x)'
  <2>1. ups[NodeOf(x)] \in Nat /\ NodeOf(x)' = NodeOf(x)
    BY <1>1, <1>2, BoundsAssumption DEF WellFormed, TypeOK, NodeOf
  <2>2. CASE NodeUp(n)
    BY <1>1, <1>2, <2>1, <2>2 DEF NodeUp, Transport!NodeUp, AwaitingNode, WellFormed, TypeOK
  <2>3. CASE NodeDown(n)
    BY <1>1, <1>2, <2>1, <2>3 DEF NodeDown, Transport!NodeDown, AwaitingNode, WellFormed, TypeOK
  <2>4. CASE OldSessionDown(n)
    BY <1>2, <2>1, <2>4 DEF OldSessionDown, Transport!OldSessionDown, AwaitingNode
  <2>5. QED
    BY <2>2, <2>3, <2>4
<1>4. QED
  BY <1>1, <1>2, <1>3, WatchHandedOver DEF Watched

\* An active run was active before, or is the one that Dispatch has just created.
LEMMA NextWatched ==
  ASSUME QueueInv, [Next]_vars, NEW x \in Runs, status[x] \in Active, status'[x] \in Active,
         ~\E g \in Goroutines, r \in RunIDs, n \in Nodes, b \in Bodies : Dispatch(g, r, n, b)
  PROVE  Watched(x)'
<1>1. ASSUME NEW g \in Goroutines, Step(g) PROVE Watched(x)'
  BY <1>1, skipOfflineWatched, claimDispatchLockedWatched, sendWatched, startAckTimerWatched,
     handleDispatchFailureWatched, dispatchRetryWatched, handleAckTimeoutWatched,
     startResultTimerWatched, handleResultTimeoutWatched DEF Step
<1>2. ASSUME NEW r \in RunIDs, AckTimer(r) \/ ResultTimer(r) PROVE Watched(x)'
  BY <1>2, AckTimerFiresWatched, ResultTimerFiresWatched DEF AckTimer, ResultTimer
<1>3. ASSUME NEW n \in Nodes, DownDelivered(n) \/ UpDelivered(n) PROVE Watched(x)'
  BY <1>3, HandleNodeDisconnectWatched, HandleNodeReconnectWatched DEF DownDelivered, UpDelivered
<1>4. ASSUME NEW r \in RunIDs, NEW n \in Nodes,
             \/ \E g \in Goroutines : HandleAckAccepted(g, n, r)
             \/ HandleAckRejected(n, r)
             \/ \E ok \in BOOLEAN : HandleResult(n, r, ok)
      PROVE  Watched(x)'
  BY <1>4, AnswerWatched
<1>5. CASE \/ \E r \in RunIDs, n \in Nodes, b \in Bodies : Redeliver(r, n, b)
           \/ \E S \in SUBSET Prunable : PruneCompleted(S)
           \/ UNCHANGED vars
  <2>1. /\ thread' = thread /\ status' = status /\ attempts' = attempts /\ params' = params
        /\ ackTimers' = ackTimers /\ resultTimers' = resultTimers /\ UNCHANGED transportVars
    BY <1>5 DEF Redeliver, PruneCompleted, vars, queueVars
  <2>2. Watched(x)
    BY DEF QueueInv, NoStrandedRun
  <2>3. QED
    BY <2>1, <2>2, WatchKept
<1>6. QED
  BY <1>1, <1>2, <1>3, <1>4, <1>5, TransportWatched DEF Next

\* A run that is still active stays in Manager.runs: only finished runs are pruned.
LEMMA NextTracked ==
  ASSUME QueueInv, [Next]_vars, NEW x \in Runs, status[x] \in Active, status'[x] \in Active,
         ~\E g \in Goroutines, r \in RunIDs, n \in Nodes, b \in Bodies : Dispatch(g, r, n, b)
  PROVE  Tracked(x)'
<1>1. x[1] \in RunIDs /\ x = Current(x[1]) /\ Tracked(x)
  BY ActiveIsCurrent
<1>2. ASSUME NEW S \in SUBSET Prunable, PruneCompleted(S) PROVE runs'[x[1]] = runs[x[1]]
  <2>1. x \notin S
    BY DEF Prunable, Active, Terminal
  <2>2. QED
    BY <1>1, <1>2, <2>1 DEF PruneCompleted
<1>3. ASSUME NEW g \in Goroutines, Step(g) PROVE runs' = runs
  BY <1>3 DEF Step, skipOffline, claimDispatchLocked, send, startAckTimer, handleDispatchFailure,
     dispatchRetry, handleAckTimeout, startResultTimer, handleResultTimeout, queueVars
<1>4. ASSUME NEW r \in RunIDs, AckTimer(r) \/ ResultTimer(r) PROVE runs' = runs
  BY <1>4 DEF AckTimer, ResultTimer, AckTimerFires, ResultTimerFires
<1>5. ASSUME NEW n \in Nodes, DownDelivered(n) \/ UpDelivered(n) PROVE runs' = runs
  BY <1>5 DEF DownDelivered, UpDelivered, HandleNodeDisconnect, HandleNodeReconnect, queueVars
<1>6. ASSUME NEW r \in RunIDs, NEW n \in Nodes,
             \/ \E g \in Goroutines : HandleAckAccepted(g, n, r)
             \/ HandleAckRejected(n, r)
             \/ \E ok \in BOOLEAN : HandleResult(n, r, ok)
      PROVE  runs' = runs
  BY <1>6 DEF HandleAckAccepted, HandleAckRejected, HandleResult
<1>7. CASE \/ \E r \in RunIDs, n \in Nodes, b \in Bodies : Redeliver(r, n, b)
           \/ \E n \in Nodes : NodeUp(n) \/ NodeDown(n) \/ OldSessionDown(n)
           \/ UNCHANGED vars
  BY <1>1, <1>7 DEF Redeliver, NodeUp, NodeDown, OldSessionDown, vars, queueVars, Tracked
<1>8. QED
  BY <1>1, <1>2, <1>3, <1>4, <1>5, <1>6, <1>7 DEF Next, Tracked

\* Only Dispatch creates an object.
LEMMA OnlyDispatchCreates ==
  ASSUME [Next]_vars,
         ~\E g \in Goroutines, r \in RunIDs, n \in Nodes, b \in Bodies : Dispatch(g, r, n, b)
  PROVE  created' = created
<1>1. ASSUME NEW g \in Goroutines, Step(g) PROVE created' = created
  BY <1>1 DEF Step, skipOffline, claimDispatchLocked, send, startAckTimer, handleDispatchFailure,
     dispatchRetry, handleAckTimeout, startResultTimer, handleResultTimeout, queueVars
<1>2. ASSUME NEW r \in RunIDs, AckTimer(r) \/ ResultTimer(r) PROVE created' = created
  BY <1>2 DEF AckTimer, ResultTimer, AckTimerFires, ResultTimerFires
<1>3. ASSUME NEW n \in Nodes, DownDelivered(n) \/ UpDelivered(n) PROVE created' = created
  BY <1>3 DEF DownDelivered, UpDelivered, HandleNodeDisconnect, HandleNodeReconnect, queueVars
<1>4. ASSUME NEW r \in RunIDs, NEW n \in Nodes,
             \/ \E g \in Goroutines : HandleAckAccepted(g, n, r)
             \/ HandleAckRejected(n, r)
             \/ \E ok \in BOOLEAN : HandleResult(n, r, ok)
      PROVE  created' = created
  BY <1>4 DEF HandleAckAccepted, HandleAckRejected, HandleResult
<1>5. CASE \/ \E r \in RunIDs, n \in Nodes, b \in Bodies : Redeliver(r, n, b)
           \/ \E S \in SUBSET Prunable : PruneCompleted(S)
           \/ \E n \in Nodes : NodeUp(n) \/ NodeDown(n) \/ OldSessionDown(n)
           \/ UNCHANGED vars
  BY <1>5 DEF Redeliver, PruneCompleted, NodeUp, NodeDown, OldSessionDown, vars, queueVars
<1>6. QED
  BY <1>1, <1>2, <1>3, <1>4, <1>5 DEF Next

LEMMA NextNoStrandedRun == QueueInv /\ [Next]_vars => NoStrandedRun'
<1> SUFFICES ASSUME QueueInv, [Next]_vars, NEW x \in Runs, status'[x] \in Active
             PROVE  Tracked(x)' /\ Watched(x)'
  BY DEF NoStrandedRun
<1>1. CASE \E g \in Goroutines, r \in RunIDs, n \in Nodes, b \in Bodies : Dispatch(g, r, n, b)
  BY <1>1, DispatchWatched
<1>2. CASE ~\E g \in Goroutines, r \in RunIDs, n \in Nodes, b \in Bodies : Dispatch(g, r, n, b)
  <2>1. CASE status[x] \in Active
    BY <1>2, <2>1, NextWatched, NextTracked
  <2>2. CASE status[x] \notin Active
    <3>1. status[x] = "none" /\ status'[x] = "dispatching"
      BY <2>2, NextTransitions DEF QueueInv, Transitions, Transition, Active
    <3>2. created' = created /\ WellFormed'
      BY <1>2, OnlyDispatchCreates, NextWellFormed DEF QueueInv
    <3>3. QED
      BY <3>1, <3>2 DEF QueueInv, WellFormed, Bookkeeping, ObjectsInOrder
  <2>3. QED
    BY <2>1, <2>2
<1>3. QED
  BY <1>1, <1>2

-----------------------------------------------------------------------------
LEMMA InitQueueInv == Init => QueueInv
<1> SUFFICES ASSUME Init PROVE QueueInv
  OBVIOUS
<1>1. NoStaleTimer
  BY DEF Init, NoStaleTimer
<1>2. NoStrandedRun
  BY DEF Init, NoStrandedRun, Active
<1>3. SendersAlone /\ CallbacksAlone
  BY DEF Init, SendersAlone, SenderAlone, Sending, CallbacksAlone, Idle
<1>4. QED
  BY <1>1, <1>2, <1>3, InitWellFormed DEF QueueInv

LEMMA NextQueueInv == QueueInv /\ [Next]_vars => QueueInv'
BY NextWellFormed, NextTimers, NextSenders, NextNoStrandedRun DEF QueueInv

LEMMA QueueInvHolds == Spec => []QueueInv
BY InitQueueInv, NextQueueInv, PTL DEF Spec

\* A timer in Manager's maps belongs to the tracked object of its run ID, in the status and
\* at the attempt it was armed for, however acks, results, disconnects, failed sends, prunes
\* and new dispatches of the same run ID interleave.
THEOREM TimersAreCurrent == Spec => []NoStaleTimer
<1>1. QueueInv => NoStaleTimer
  BY DEF QueueInv
<1>2. QED
  BY <1>1, QueueInvHolds, PTL

\* No run is forgotten: in every reachable state an unfinished run is in Manager.runs and
\* has a goroutine, a timer, a pending session event or an offline node that it waits for.
THEOREM EveryRunIsWatched == Spec => []NoStrandedRun
<1>1. QueueInv => NoStrandedRun
  BY DEF QueueInv
<1>2. QED
  BY <1>1, QueueInvHolds, PTL
=============================================================================
