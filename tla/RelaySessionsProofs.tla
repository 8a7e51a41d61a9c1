------------------------ MODULE RelaySessionsProofs -------------------------
(***************************************************************************)
(* Proofs about RelaySessions, for any number of nodes, connections and    *)
(* terminal streams.  The invariants the runs check are not inductive by   *)
(* themselves: what a goroutine does to the session it found in Register   *)
(* depends on who may still reach that session.  Books collects it: the    *)
(* map only holds sessions of their node, a session somebody found as old  *)
(* is in the map no more, and whoever announces a loss has marked it.      *)
(***************************************************************************)
EXTENDS RelaySessions, FiniteSetTheorems, TLAPS

Enders == {"checkOld", "closeOld", "markOld", "replaced"}
Ending == {"checkSelf", "closeSelf", "markSelf", "gone", "done"}

\* A session that has not begun has no node, no state and no predecessor; one that has begun
\* has a node.
BegunOnce ==
    \A s \in Sessions :
        /\ pc[s] = "start" => owner[s] = NoNode /\ state[s] = "none" /\ old[s] = NoSession
        /\ pc[s] # "start" => owner[s] \in Nodes /\ state[s] # "none"

\* SessionManager.sessions holds sessions of their node.
MapOwned ==
    \A n \in Nodes : sessions[n] # NoSession => owner[sessions[n]] = n /\ pc[sessions[n]] # "start"

\* A session that a newer one found in the map is not in the map.
OldIsReplaced ==
    \A h \in Sessions :
        old[h] # NoSession => pc[old[h]] # "start" /\ \A n \in Nodes : sessions[n] # old[h]

\* Who ends an old session has one.
OldIsHeld == \A h \in Sessions : pc[h] \in Enders => old[h] \in Sessions

\* A loss is announced for a session that is marked.
LossIsMarked ==
    \A h \in Sessions :
        /\ pc[h] = "replaced" => state[old[h]] = "disconnected"
        /\ pc[h] = "gone" => state[h] = "disconnected"

\* A goroutine ends its own session only after its connection failed.
EndedIsDown == \A s \in Sessions : pc[s] \in Ending => ~wire[s]

\* A stream request is open only between its two locks.
RequestIsOpen == \A s \in Sessions : request[s] # {} => pc[s] = "subscribe"

\* ReachedThroughItsConnection, from Register on and up to the end of the session.
Attached ==
    \A s \in Sessions :
        pc[s] \notin {"start", "gone", "done"} =>
            \/ sessions[owner[s]] = s /\ state[s] = "connected"
            \/ \E h \in Sessions : old[h] = s

Books ==
    /\ BegunOnce /\ MapOwned /\ OldIsReplaced /\ OldIsHeld /\ LossIsMarked /\ EndedIsDown

-----------------------------------------------------------------------------
\* The initial states have the types and satisfy every part of the invariant.
LEMMA InitOK ==
    Init => TypeOK /\ Books /\ RequestIsOpen /\ Attached /\ ReplacedSessionsAreEnded
            /\ LossIsAnnounced /\ OwnersNotLeaked
  BY SessionsAssumption, NodesAssumption
  DEF Init, TypeOK, Places, Books, BegunOnce, MapOwned, OldIsReplaced, OldIsHeld, LossIsMarked,
      EndedIsDown, RequestIsOpen, Attached, ReplacedSessionsAreEnded, LossIsAnnounced,
      OwnersNotLeaked, Enders, Ending

\* Every step keeps the types.
LEMMA TypeStep == TypeOK /\ Books /\ [Next]_vars => TypeOK'
  <1> SUFFICES ASSUME TypeOK, Books, [Next]_vars PROVE TypeOK'
    OBVIOUS
  <1> USE DEF TypeOK, Places, Goto, Close, streamVars, sessionVars
  <1>1. ASSUME NEW s \in Sessions, NEW n \in Nodes, Register(s, n) PROVE TypeOK'
    BY <1>1 DEF Register
  <1>2. ASSUME NEW s \in Sessions, checkOld(s) \/ closeOld(s) \/ readFails(s) PROVE TypeOK'
    BY <1>2 DEF checkOld, closeOld, readFails
  <1>3. ASSUME NEW s \in Sessions, markOld(s) PROVE TypeOK'
    BY <1>3 DEF markOld, markDisconnected
  <1>4. ASSUME NEW s \in Sessions, NEW x \in Sessions, AnnounceLoss(x),
               UNCHANGED <<sessionVars, wire, request, reconnects>>,
               \E p \in {"announce", "done"} : Goto(s, p)
        PROVE TypeOK'
    BY <1>4 DEF AnnounceLoss, cancelStreamSubsForNode
  <1>5. ASSUME NEW s \in Sessions, emitReplaced(s) PROVE TypeOK'
    BY <1>4, <1>5 DEF emitReplaced, Books, OldIsHeld, Enders
  <1>6. ASSUME NEW s \in Sessions, emitDisconnected(s) PROVE TypeOK'
    BY <1>4, <1>6 DEF emitDisconnected
  <1>7. ASSUME NEW s \in Sessions, emitConnected(s) PROVE TypeOK'
    BY <1>7 DEF emitConnected, Books, BegunOnce
  <1>8. ASSUME NEW s \in Sessions, addStreamSub(s) PROVE TypeOK'
    BY <1>8 DEF addStreamSub, Books, BegunOnce
  <1>9. ASSUME NEW s \in Sessions, checkSelf(s) \/ closeSelf(s) \/ ConnectionFails(s) PROVE TypeOK'
    BY <1>9 DEF checkSelf, closeSelf, ConnectionFails
  <1>10. ASSUME NEW s \in Sessions, markSelf(s) PROVE TypeOK'
    BY <1>10 DEF markSelf, markDisconnected, Ended
  <1>11. ASSUME NEW s \in Sessions, Message(s) PROVE TypeOK'
    BY <1>11 DEF Message, streamRequest, removeStreamSub
  <1>12. ASSUME NEW n \in Nodes, HandleNodeReconnect(n) PROVE TypeOK'
    BY <1>12 DEF HandleNodeReconnect
  <1>13. ASSUME NEW N \in SUBSET Stale, EvictStale(N) PROVE TypeOK'
    BY <1>13 DEF EvictStale, Stale
  <1>14. CASE UNCHANGED vars
    BY <1>14 DEF vars
  <1> QED
    BY <1>1, <1>2, <1>3, <1>5, <1>6, <1>7, <1>8, <1>9, <1>10, <1>11, <1>12, <1>13, <1>14
    DEF Next, Step

-----------------------------------------------------------------------------
\* Every step keeps the books on who holds which session.
LEMMA BooksStep == TypeOK /\ Books /\ [Next]_vars => Books'
  <1> SUFFICES ASSUME TypeOK, Books, [Next]_vars PROVE Books'
    OBVIOUS
  <1> USE SessionsAssumption, NodesAssumption DEF TypeOK, Books, BegunOnce, MapOwned, OldIsReplaced, OldIsHeld, LossIsMarked,
      EndedIsDown, Enders, Ending, Goto, sessionVars, streamVars
  <1>1. ASSUME NEW s \in Sessions, NEW n \in Nodes, Register(s, n) PROVE Books'
    BY <1>1 DEF Register
  <1>2. ASSUME NEW s \in Sessions, checkOld(s) PROVE Books'
    BY <1>2 DEF checkOld
  <1>3. ASSUME NEW s \in Sessions, closeOld(s) PROVE Books'
    BY <1>3 DEF closeOld, Close
  <1>4. ASSUME NEW s \in Sessions, markOld(s) PROVE Books'
    BY <1>4 DEF markOld, markDisconnected
  <1>5. ASSUME NEW s \in Sessions, emitReplaced(s) PROVE Books'
    BY <1>5 DEF emitReplaced, AnnounceLoss
  <1>6. ASSUME NEW s \in Sessions, emitConnected(s) PROVE Books'
    BY <1>6 DEF emitConnected
  <1>7. ASSUME NEW s \in Sessions, readFails(s) PROVE Books'
    BY <1>7 DEF readFails
  <1>8. ASSUME NEW s \in Sessions, addStreamSub(s) PROVE Books'
    BY <1>8 DEF addStreamSub
  <1>9. ASSUME NEW s \in Sessions, checkSelf(s) PROVE Books'
    BY <1>9 DEF checkSelf, Ended
  <1>10. ASSUME NEW s \in Sessions, closeSelf(s) PROVE Books'
    BY <1>10 DEF closeSelf, Close
  <1>11. ASSUME NEW s \in Sessions, markSelf(s) PROVE Books'
    BY <1>11 DEF markSelf, markDisconnected, Ended
  <1>12. ASSUME NEW s \in Sessions, emitDisconnected(s) PROVE Books'
    BY <1>12 DEF emitDisconnected, AnnounceLoss
  <1>13. ASSUME NEW s \in Sessions, Message(s) PROVE Books'
    BY <1>13 DEF Message, streamRequest, removeStreamSub
  <1>14. ASSUME NEW s \in Sessions, ConnectionFails(s) PROVE Books'
    BY <1>14 DEF ConnectionFails, Close
  <1>15. ASSUME NEW n \in Nodes, HandleNodeReconnect(n) PROVE Books'
    BY <1>15 DEF HandleNodeReconnect
  <1>16. ASSUME NEW N \in SUBSET Stale, EvictStale(N) PROVE Books'
    BY <1>16 DEF EvictStale, Stale
  <1>17. CASE UNCHANGED vars
    BY <1>17 DEF vars
  <1> QED
    BY <1>1, <1>2, <1>3, <1>4, <1>5, <1>6, <1>7, <1>8, <1>9, <1>10, <1>11, <1>12, <1>13, <1>14, <1>15, <1>16, <1>17
    DEF Next, Step

\* A connection stays the node's session until a newer one has replaced it.
LEMMA AttachedStep == TypeOK /\ Books /\ Attached /\ [Next]_vars => Attached'
  <1> SUFFICES ASSUME TypeOK, Books, Attached, [Next]_vars PROVE Attached'
    OBVIOUS
  <1> USE SessionsAssumption, NodesAssumption DEF TypeOK, Books, BegunOnce, MapOwned, OldIsHeld, Attached, Enders, Goto,
      sessionVars, streamVars
  <1>1. ASSUME NEW s \in Sessions, NEW n \in Nodes, Register(s, n) PROVE Attached'
    BY <1>1 DEF Register
  <1>2. ASSUME NEW s \in Sessions, checkOld(s) PROVE Attached'
    BY <1>2 DEF checkOld
  <1>3. ASSUME NEW s \in Sessions, closeOld(s) PROVE Attached'
    BY <1>3 DEF closeOld, Close
  <1>4. ASSUME NEW s \in Sessions, markOld(s) PROVE Attached'
    BY <1>4 DEF markOld, markDisconnected
  <1>5. ASSUME NEW s \in Sessions, emitReplaced(s) PROVE Attached'
    BY <1>5 DEF emitReplaced, AnnounceLoss
  <1>6. ASSUME NEW s \in Sessions, emitConnected(s) PROVE Attached'
    BY <1>6 DEF emitConnected
  <1>7. ASSUME NEW s \in Sessions, readFails(s) PROVE Attached'
    BY <1>7 DEF readFails
  <1>8. ASSUME NEW s \in Sessions, addStreamSub(s) PROVE Attached'
    BY <1>8 DEF addStreamSub
  <1>9. ASSUME NEW s \in Sessions, checkSelf(s) PROVE Attached'
    BY <1>9 DEF checkSelf, Ended
  <1>10. ASSUME NEW s \in Sessions, closeSelf(s) PROVE Attached'
    BY <1>10 DEF closeSelf, Close
  <1>11. ASSUME NEW s \in Sessions, markSelf(s) PROVE Attached'
    BY <1>11 DEF markSelf, markDisconnected, Ended
  <1>12. ASSUME NEW s \in Sessions, emitDisconnected(s) PROVE Attached'
    BY <1>12 DEF emitDisconnected, AnnounceLoss
  <1>13. ASSUME NEW s \in Sessions, Message(s) PROVE Attached'
    BY <1>13 DEF Message, streamRequest, removeStreamSub
  <1>14. ASSUME NEW s \in Sessions, ConnectionFails(s) PROVE Attached'
    BY <1>14 DEF ConnectionFails, Close
  <1>15. ASSUME NEW n \in Nodes, HandleNodeReconnect(n) PROVE Attached'
    BY <1>15 DEF HandleNodeReconnect
  <1>16. ASSUME NEW N \in SUBSET Stale, EvictStale(N) PROVE Attached'
    BY <1>16 DEF EvictStale, Stale
  <1>17. CASE UNCHANGED vars
    BY <1>17 DEF vars
  <1> QED
    BY <1>1, <1>2, <1>3, <1>4, <1>5, <1>6, <1>7, <1>8, <1>9, <1>10, <1>11, <1>12, <1>13, <1>14, <1>15, <1>16, <1>17
    DEF Next, Step

\* A replaced session keeps somebody who will end it.
LEMMA EndersStep == TypeOK /\ Books /\ ReplacedSessionsAreEnded /\ [Next]_vars => ReplacedSessionsAreEnded'
  <1> SUFFICES ASSUME TypeOK, Books, ReplacedSessionsAreEnded, [Next]_vars
      PROVE  ReplacedSessionsAreEnded'
    OBVIOUS
  <1> USE SessionsAssumption, NodesAssumption DEF TypeOK, Books, BegunOnce, MapOwned, OldIsHeld, LossIsMarked,
      ReplacedSessionsAreEnded, Ender, Enders, Goto, sessionVars, streamVars
  <1>1. ASSUME NEW s \in Sessions, NEW n \in Nodes, Register(s, n) PROVE ReplacedSessionsAreEnded'
    BY <1>1 DEF Register
  <1>2. ASSUME NEW s \in Sessions, checkOld(s) PROVE ReplacedSessionsAreEnded'
    BY <1>2 DEF checkOld
  <1>3. ASSUME NEW s \in Sessions, closeOld(s) PROVE ReplacedSessionsAreEnded'
    BY <1>3 DEF closeOld, Close
  <1>4. ASSUME NEW s \in Sessions, markOld(s) PROVE ReplacedSessionsAreEnded'
    BY <1>4 DEF markOld, markDisconnected
  <1>5. ASSUME NEW s \in Sessions, emitReplaced(s) PROVE ReplacedSessionsAreEnded'
    BY <1>5 DEF emitReplaced, AnnounceLoss
  <1>6. ASSUME NEW s \in Sessions, emitConnected(s) PROVE ReplacedSessionsAreEnded'
    BY <1>6 DEF emitConnected
  <1>7. ASSUME NEW s \in Sessions, readFails(s) PROVE ReplacedSessionsAreEnded'
    BY <1>7 DEF readFails
  <1>8. ASSUME NEW s \in Sessions, addStreamSub(s) PROVE ReplacedSessionsAreEnded'
    BY <1>8 DEF addStreamSub
  <1>9. ASSUME NEW s \in Sessions, checkSelf(s) PROVE ReplacedSessionsAreEnded'
    BY <1>9 DEF checkSelf, Ended
  <1>10. ASSUME NEW s \in Sessions, closeSelf(s) PROVE ReplacedSessionsAreEnded'
    BY <1>10 DEF closeSelf, Close
  <1>11. ASSUME NEW s \in Sessions, markSelf(s) PROVE ReplacedSessionsAreEnded'
    BY <1>11 DEF markSelf, markDisconnected, Ended
  <1>12. ASSUME NEW s \in Sessions, emitDisconnected(s) PROVE ReplacedSessionsAreEnded'
    BY <1>12 DEF emitDisconnected, AnnounceLoss
  <1>13. ASSUME NEW s \in Sessions, Message(s) PROVE ReplacedSessionsAreEnded'
    BY <1>13 DEF Message, streamRequest, removeStreamSub
  <1>14. ASSUME NEW s \in Sessions, ConnectionFails(s) PROVE ReplacedSessionsAreEnded'
    BY <1>14 DEF ConnectionFails, Close
  <1>15. ASSUME NEW n \in Nodes, HandleNodeReconnect(n) PROVE ReplacedSessionsAreEnded'
    BY <1>15 DEF HandleNodeReconnect
  <1>16. ASSUME NEW N \in SUBSET Stale, EvictStale(N) PROVE ReplacedSessionsAreEnded'
    BY <1>16 DEF EvictStale, Stale
  <1>17. CASE UNCHANGED vars
    BY <1>17 DEF vars
  <1> QED
    BY <1>1, <1>2, <1>3, <1>4, <1>5, <1>6, <1>7, <1>8, <1>9, <1>10, <1>11, <1>12, <1>13, <1>14, <1>15, <1>16, <1>17
    DEF Next, Step

\* A marked session has been announced or is about to be.
LEMMA LossStep == TypeOK /\ Books /\ LossIsAnnounced /\ [Next]_vars => LossIsAnnounced'
  <1> SUFFICES ASSUME TypeOK, Books, LossIsAnnounced, [Next]_vars PROVE LossIsAnnounced'
    OBVIOUS
  <1> USE SessionsAssumption, NodesAssumption DEF TypeOK, Books, BegunOnce, OldIsReplaced, OldIsHeld, LossIsAnnounced, Ender, Enders,
      Goto, sessionVars, streamVars
  <1>1. ASSUME NEW s \in Sessions, NEW n \in Nodes, Register(s, n) PROVE LossIsAnnounced'
    BY <1>1 DEF Register
  <1>2. ASSUME NEW s \in Sessions, checkOld(s) PROVE LossIsAnnounced'
    BY <1>2 DEF checkOld
  <1>3. ASSUME NEW s \in Sessions, closeOld(s) PROVE LossIsAnnounced'
    BY <1>3 DEF closeOld, Close
  <1>4. ASSUME NEW s \in Sessions, markOld(s) PROVE LossIsAnnounced'
    BY <1>4 DEF markOld, markDisconnected
  <1>5. ASSUME NEW s \in Sessions, emitReplaced(s) PROVE LossIsAnnounced'
    BY <1>5 DEF emitReplaced, AnnounceLoss
  <1>6. ASSUME NEW s \in Sessions, emitConnected(s) PROVE LossIsAnnounced'
    BY <1>6 DEF emitConnected
  <1>7. ASSUME NEW s \in Sessions, readFails(s) PROVE LossIsAnnounced'
    BY <1>7 DEF readFails
  <1>8. ASSUME NEW s \in Sessions, addStreamSub(s) PROVE LossIsAnnounced'
    BY <1>8 DEF addStreamSub
  <1>9. ASSUME NEW s \in Sessions, checkSelf(s) PROVE LossIsAnnounced'
    BY <1>9 DEF checkSelf, Ended
  <1>10. ASSUME NEW s \in Sessions, closeSelf(s) PROVE LossIsAnnounced'
    BY <1>10 DEF closeSelf, Close
  <1>11. ASSUME NEW s \in Sessions, markSelf(s) PROVE LossIsAnnounced'
    BY <1>11 DEF markSelf, markDisconnected, Ended
  <1>12. ASSUME NEW s \in Sessions, emitDisconnected(s) PROVE LossIsAnnounced'
    BY <1>12 DEF emitDisconnected, AnnounceLoss
  <1>13. ASSUME NEW s \in Sessions, Message(s) PROVE LossIsAnnounced'
    BY <1>13 DEF Message, streamRequest, removeStreamSub
  <1>14. ASSUME NEW s \in Sessions, ConnectionFails(s) PROVE LossIsAnnounced'
    BY <1>14 DEF ConnectionFails, Close
  <1>15. ASSUME NEW n \in Nodes, HandleNodeReconnect(n) PROVE LossIsAnnounced'
    BY <1>15 DEF HandleNodeReconnect
  <1>16. ASSUME NEW N \in SUBSET Stale, EvictStale(N) PROVE LossIsAnnounced'
    BY <1>16 DEF EvictStale, Stale
  <1>17. CASE UNCHANGED vars
    BY <1>17 DEF vars
  <1> QED
    BY <1>1, <1>2, <1>3, <1>4, <1>5, <1>6, <1>7, <1>8, <1>9, <1>10, <1>11, <1>12, <1>13, <1>14, <1>15, <1>16, <1>17
    DEF Next, Step

\* Every step keeps the owner entries of streams without subscribers tied to a request.
LEMMA OwnersStep ==
    TypeOK /\ RequestIsOpen /\ OwnersNotLeaked /\ [Next]_vars => (RequestIsOpen /\ OwnersNotLeaked)'
  <1> SUFFICES ASSUME TypeOK, RequestIsOpen, OwnersNotLeaked, [Next]_vars
      PROVE  (RequestIsOpen /\ OwnersNotLeaked)'
    OBVIOUS
  <1> USE NodesAssumption DEF TypeOK, RequestIsOpen, OwnersNotLeaked, Goto, sessionVars, streamVars
  <1>1. ASSUME NEW s \in Sessions, NEW n \in Nodes, Register(s, n)
        PROVE  (RequestIsOpen /\ OwnersNotLeaked)'
    BY <1>1 DEF Register
  <1>2. ASSUME NEW s \in Sessions,
               checkOld(s) \/ closeOld(s) \/ markOld(s) \/ emitConnected(s) \/ readFails(s)
               \/ checkSelf(s) \/ closeSelf(s) \/ markSelf(s) \/ ConnectionFails(s)
        PROVE  (RequestIsOpen /\ OwnersNotLeaked)'
    BY <1>2 DEF checkOld, closeOld, markOld, emitConnected, readFails, checkSelf, closeSelf, markSelf,
                ConnectionFails
  <1>3. ASSUME NEW s \in Sessions, emitReplaced(s) \/ emitDisconnected(s)
        PROVE  (RequestIsOpen /\ OwnersNotLeaked)'
    <2>1. PICK n : cancelStreamSubsForNode(n)
      BY <1>3 DEF emitReplaced, emitDisconnected, AnnounceLoss
    <2>2. /\ request' = request /\ request[s] = {}
          /\ pc' \in {[pc EXCEPT ![s] = "announce"], [pc EXCEPT ![s] = "done"]}
      BY <1>3 DEF emitReplaced, emitDisconnected
    <2>3. RequestIsOpen'
      BY <2>2
    <2>4. ASSUME NEW t \in Streams, streamOwners'[t] # NoNode
          PROVE  streamSubs'[t] # {} \/ \E h \in Sessions : t \in request'[h]
      <3>1. CASE streamSubs[t] = {}
        <4>1. streamOwners'[t] = streamOwners[t]
          BY <2>1, <3>1 DEF cancelStreamSubsForNode
        <4> QED
          BY <2>2, <2>4, <3>1, <4>1
      <3>2. CASE streamSubs[t] # {}
        <4>1. streamSubs[t] # {n} /\ streamSubs'[t] = streamSubs[t] \ {n}
          BY <2>1, <2>4, <3>2 DEF cancelStreamSubsForNode
        <4> QED
          BY <3>2, <4>1
      <3> QED
        BY <3>1, <3>2
    <2> QED
      BY <2>3, <2>4
  <1>4. ASSUME NEW s \in Sessions, addStreamSub(s) PROVE (RequestIsOpen /\ OwnersNotLeaked)'
    BY <1>4 DEF addStreamSub
  <1>5. ASSUME NEW s \in Sessions, Message(s) PROVE (RequestIsOpen /\ OwnersNotLeaked)'
    BY <1>5 DEF Message, streamRequest, removeStreamSub
  <1>6. ASSUME NEW n \in Nodes, HandleNodeReconnect(n) PROVE (RequestIsOpen /\ OwnersNotLeaked)'
    BY <1>6 DEF HandleNodeReconnect
  <1>7. ASSUME NEW N \in SUBSET Stale, EvictStale(N) PROVE (RequestIsOpen /\ OwnersNotLeaked)'
    BY <1>7 DEF EvictStale
  <1>8. CASE UNCHANGED vars
    BY <1>8 DEF vars
  <1> QED
    BY <1>1, <1>2, <1>3, <1>4, <1>5, <1>6, <1>7, <1>8 DEF Next, Step

\* A node that is online goes offline only by the end of its own session's connection.
LEMMA OfflineStep ==
    ASSUME TypeOK, Books, [Next]_vars, NEW n \in Nodes, IsOnline(n), ~IsOnline(n)'
    PROVE  /\ sessions'[n] = sessions[n]
           /\ pc[sessions[n]] = "markSelf" /\ ~wire[sessions[n]]
  <1> USE SessionsAssumption
      DEF TypeOK, Books, BegunOnce, MapOwned, OldIsReplaced, OldIsHeld, EndedIsDown, Enders, Ending,
          IsOnline, Goto, sessionVars, streamVars
  <1>1. ASSUME NEW s \in Sessions, NEW m \in Nodes, Register(s, m) PROVE FALSE
    BY <1>1 DEF Register
  <1>2. ASSUME NEW s \in Sessions, markOld(s) PROVE FALSE
    BY <1>2 DEF markOld, markDisconnected
  <1>3. ASSUME NEW s \in Sessions, markSelf(s)
        PROVE  sessions'[n] = sessions[n] /\ pc[sessions[n]] = "markSelf" /\ ~wire[sessions[n]]
    BY <1>3 DEF markSelf, markDisconnected, Ended
  <1>4. ASSUME NEW N \in SUBSET Stale, EvictStale(N) PROVE FALSE
    BY <1>4 DEF EvictStale, Stale
  <1>5. ASSUME UNCHANGED <<sessions, state>> PROVE FALSE
    BY <1>5
  <1>6. ASSUME NEW s \in Sessions,
               checkOld(s) \/ closeOld(s) \/ emitReplaced(s) \/ emitConnected(s) \/ readFails(s)
               \/ addStreamSub(s) \/ checkSelf(s) \/ closeSelf(s) \/ emitDisconnected(s)
               \/ Message(s) \/ ConnectionFails(s)
        PROVE  FALSE
    BY <1>5, <1>6 DEF checkOld, closeOld, emitReplaced, emitConnected, readFails, addStreamSub,
                      checkSelf, closeSelf, emitDisconnected, Message, streamRequest, removeStreamSub,
                      ConnectionFails
  <1>7. ASSUME NEW m \in Nodes, HandleNodeReconnect(m) PROVE FALSE
    BY <1>5, <1>7 DEF HandleNodeReconnect
  <1>8. CASE UNCHANGED vars
    BY <1>5, <1>8 DEF vars
  <1> QED
    BY <1>1, <1>2, <1>3, <1>4, <1>6, <1>7, <1>8 DEF Next, Step

-----------------------------------------------------------------------------
\* The inductive invariant, on which every theorem below rests.
LEMMA Inductive == Spec => [](TypeOK /\ Books)
  BY InitOK, TypeStep, BooksStep, PTL DEF Spec

\* The fields of sessions, goroutines and streams have their types in every behaviour of the
\* session manager.
THEOREM TypeCorrect == Spec => []TypeOK
  BY Inductive, PTL

\* A connection the relay reads from is the node's session, or a newer one has replaced it.
THEOREM Reached == Spec => []ReachedThroughItsConnection
  <1>1. Attached => ReachedThroughItsConnection
    BY DEF Attached, ReachedThroughItsConnection
  <1> QED
    BY <1>1, Inductive, InitOK, AttachedStep, PTL DEF Spec

\* Every session that was replaced in Register and still looks connected is ended by somebody.
THEOREM EveryReplacedIsEnded == Spec => []ReplacedSessionsAreEnded
  BY Inductive, InitOK, EndersStep, PTL DEF Spec

\* No loss of a session is swallowed between two goroutines that end it.
THEOREM NoLossSwallowed == Spec => []LossIsAnnounced
  BY Inductive, InitOK, LossStep, PTL DEF Spec

\* No owner entry of a terminal stream outlives its subscribers and requests.
THEOREM NoOwnerLeaks == Spec => []OwnersNotLeaked
  BY Inductive, InitOK, OwnersStep, PTL DEF Spec

\* The goroutine of an old session never takes the node's new session offline.
THEOREM OnlyOwnEnd == Spec => OnlyItsOwnEndTakesANodeOffline
  <1>1. TypeOK /\ Books /\ [Next]_vars =>
          [\A n \in Nodes : IsOnline(n) /\ ~IsOnline(n)' =>
              /\ sessions'[n] = sessions[n]
              /\ pc[sessions[n]] = "markSelf" /\ ~wire[sessions[n]]]_vars
    BY OfflineStep
  <1> QED
    BY <1>1, Inductive, PTL DEF Spec, OnlyItsOwnEndTakesANodeOffline

-----------------------------------------------------------------------------
(* The session manager implements NodeTransport, up to its fairness.  What is pending of a node
   is counted, so the steps are first described by what they do to the counted sets.        *)

Own(n) == {s \in Sessions : owner[s] = n}

Ups(n)   == reconnects[n] + Cardinality(Announcing(n))
Downs(n) == Cardinality(Losing(n))

\* A node has at most one pending "connected" for each of its sessions.
UpsBounded == \A n \in Nodes : Ups(n) <= Cardinality(Own(n))

\* The counted sets are finite, and adding or removing a session counts one.
LEMMA Counting ==
    ASSUME NEW S \in SUBSET Sessions
    PROVE  /\ IsFiniteSet(S) /\ Cardinality(S) \in Nat
           /\ Cardinality(S) <= Cardinality(Sessions) /\ Cardinality(Sessions) \in Nat
           /\ \A s \in Sessions : s \notin S =>
                 /\ Cardinality(S \cup {s}) = Cardinality(S) + 1
                 /\ Cardinality(S) < Cardinality(Sessions)
           /\ \A s \in S : Cardinality(S \ {s}) = Cardinality(S) - 1 /\ Cardinality(S) > 0
  <1>1. /\ IsFiniteSet(S) /\ Cardinality(S) \in Nat /\ Cardinality(S) <= Cardinality(Sessions)
        /\ Cardinality(Sessions) \in Nat
        /\ Cardinality(Sessions) = Cardinality(S) => Sessions = S
    BY SessionsAssumption, FS_Subset, FS_CardinalityType
  <1>2. ASSUME NEW s \in Sessions, s \notin S
        PROVE  Cardinality(S \cup {s}) = Cardinality(S) + 1 /\ Cardinality(S) < Cardinality(Sessions)
    <2>1. Cardinality(S \cup {s}) = Cardinality(S) + 1
      BY <1>1, <1>2, FS_AddElement
    <2>2. Cardinality(S) # Cardinality(Sessions)
      BY <1>1, <1>2
    <2> QED
      BY <1>1, <2>1, <2>2
  <1>3. ASSUME NEW s \in S
        PROVE  Cardinality(S \ {s}) = Cardinality(S) - 1 /\ Cardinality(S) > 0
    BY <1>1, FS_RemoveElement, FS_EmptySet
  <1> QED
    BY <1>1, <1>2, <1>3

\* What the pending announcements of every node are before and after a step.
Kept == \A n \in Nodes : Ups(n)' = Ups(n) /\ Downs(n)' = Downs(n) /\ IsOnline(n)' = IsOnline(n)

\* All nodes but m are left alone.
KeptBut(m) ==
    \A n \in Nodes \ {m} : Ups(n)' = Ups(n) /\ Downs(n)' = Downs(n) /\ IsOnline(n)' = IsOnline(n)

\* What one step may do to the announcements of node m.
StepUp(m)   == /\ KeptBut(m) /\ Ups(m) < Cardinality(Sessions) /\ IsOnline(m)'
               /\ Ups(m)' = Ups(m) + 1 /\ Downs(m)' = Downs(m)
StepDown(m) == /\ KeptBut(m) /\ Downs(m) < Cardinality(Sessions)
               /\ (IsOnline(m)' = IsOnline(m) \/ (IsOnline(m) /\ ~IsOnline(m)'))
               /\ Ups(m)' = Ups(m) /\ Downs(m)' = Downs(m) + 1
StepTakeUp(m)   == /\ KeptBut(m) /\ Ups(m) > 0 /\ IsOnline(m)' = IsOnline(m)
                   /\ Ups(m)' = Ups(m) - 1 /\ Downs(m)' = Downs(m)
StepTakeDown(m) == /\ KeptBut(m) /\ Downs(m) > 0 /\ IsOnline(m)' = IsOnline(m)
                   /\ Ups(m)' = Ups(m) /\ Downs(m)' = Downs(m) - 1

\* A step that leaves the counted sets alone keeps the announcements.
LEMMA SetsKept ==
    ASSUME NEW n \in Nodes, Announcing(n)' = Announcing(n), Losing(n)' = Losing(n),
           reconnects'[n] = reconnects[n]
    PROVE  Ups(n)' = Ups(n) /\ Downs(n)' = Downs(n)
  BY DEF Ups, Downs

\* Register announces its node as connected.
LEMMA RegisterUp ==
    ASSUME TypeOK, Books, UpsBounded, NEW s \in Sessions, NEW m \in Nodes, Register(s, m)
    PROVE  StepUp(m) /\ UpsBounded'
  <1> USE SessionsAssumption, NodesAssumption
      DEF TypeOK, Books, BegunOnce, MapOwned, Register, Goto, streamVars
  <1>1. owner[s] = NoNode /\ old[s] = NoSession
    OBVIOUS
  <1>2. \A n \in Nodes \ {m} : /\ Announcing(n)' = Announcing(n) /\ Losing(n)' = Losing(n)
                               /\ Own(n)' = Own(n) /\ IsOnline(n)' = IsOnline(n)
    BY <1>1 DEF Announcing, Losing, Own, IsOnline
  <1>3. /\ Announcing(m)' = Announcing(m) \cup {s} /\ Losing(m)' = Losing(m)
        /\ Own(m)' = Own(m) \cup {s} /\ s \notin Announcing(m) /\ s \notin Own(m) /\ IsOnline(m)'
    BY <1>1 DEF Announcing, Losing, Own, IsOnline
  <1>4. Announcing(m) \in SUBSET Sessions /\ Own(m) \in SUBSET Sessions
    BY DEF Announcing, Own
  <1>5. /\ Ups(m)' = Ups(m) + 1 /\ Downs(m)' = Downs(m)
        /\ Cardinality(Own(m)') = Cardinality(Own(m)) + 1
        /\ Cardinality(Own(m)) < Cardinality(Sessions) /\ Cardinality(Own(m)) \in Nat
        /\ Ups(m) \in Nat /\ Cardinality(Sessions) \in Nat
    <2>1. /\ Cardinality(Announcing(m) \cup {s}) = Cardinality(Announcing(m)) + 1
          /\ Cardinality(Announcing(m)) \in Nat
      BY <1>3, <1>4, Counting
    <2>2. /\ Cardinality(Own(m) \cup {s}) = Cardinality(Own(m)) + 1
          /\ Cardinality(Own(m)) < Cardinality(Sessions) /\ Cardinality(Own(m)) \in Nat
          /\ Cardinality(Sessions) \in Nat
      BY <1>3, <1>4, Counting
    <2>3. reconnects'[m] = reconnects[m] /\ reconnects[m] \in Nat
      OBVIOUS
    <2> QED
      BY <1>3, <2>1, <2>2, <2>3 DEF Ups, Downs
  <1>6. Ups(m) <= Cardinality(Own(m))
    BY DEF UpsBounded
  <1>7. KeptBut(m)
    BY <1>2, SetsKept DEF KeptBut
  <1>8. StepUp(m)
    BY <1>3, <1>5, <1>6, <1>7 DEF StepUp
  <1>9. UpsBounded'
    <2> SUFFICES ASSUME NEW n \in Nodes PROVE Ups(n)' <= Cardinality(Own(n)')
      BY DEF UpsBounded
    <2>1. CASE n = m
      BY <2>1, <1>5, <1>6
    <2>2. CASE n # m
      BY <2>2, <1>2, <1>7 DEF KeptBut, UpsBounded
    <2> QED
      BY <2>1, <2>2
  <1> QED
    BY <1>8, <1>9

\* Marking a session makes the announcement of its loss pending.
LEMMA MarkDown ==
    ASSUME TypeOK, Books, NEW s \in Sessions, markOld(s) \/ markSelf(s)
    PROVE  StepDown(owner[s]) /\ (owner[s] \in Nodes) /\ (\A n \in Nodes : Ups(n)' = Ups(n))
  <1> USE SessionsAssumption, NodesAssumption
      DEF TypeOK, Books, BegunOnce, MapOwned, OldIsReplaced, OldIsHeld, Enders, markOld, markSelf,
          markDisconnected, Ended, Goto, streamVars
  <1>1. owner[s] \in Nodes
    OBVIOUS
  <1>2. \A n \in Nodes : Announcing(n)' = Announcing(n) /\ reconnects'[n] = reconnects[n]
    BY DEF Announcing
  <1>3. \A n \in Nodes \ {owner[s]} : Losing(n)' = Losing(n) /\ IsOnline(n)' = IsOnline(n)
    BY DEF Losing, IsOnline
  <1>4. Losing(owner[s])' = Losing(owner[s]) \cup {s} /\ s \notin Losing(owner[s])
    BY DEF Losing
  <1>5. Losing(owner[s]) \in SUBSET Sessions
    BY DEF Losing
  <1>6. Downs(owner[s])' = Downs(owner[s]) + 1 /\ Downs(owner[s]) < Cardinality(Sessions)
    <2>1. /\ Cardinality(Losing(owner[s]) \cup {s}) = Cardinality(Losing(owner[s])) + 1
          /\ Cardinality(Losing(owner[s])) < Cardinality(Sessions)
      BY <1>4, <1>5, Counting
    <2> QED
      BY <1>4, <2>1 DEF Downs
  <1>7. \A n \in Nodes : Ups(n)' = Ups(n)
    BY <1>2 DEF Ups
  <1>8. KeptBut(owner[s])
    BY <1>3, <1>7 DEF KeptBut, Downs
  <1>9. IsOnline(owner[s])' = IsOnline(owner[s]) \/ (IsOnline(owner[s]) /\ ~IsOnline(owner[s])')
    BY <1>1 DEF IsOnline
  <1> QED
    BY <1>1, <1>6, <1>7, <1>8, <1>9 DEF StepDown

\* Announcing a loss takes it from what is pending.
LEMMA EmitDown ==
    ASSUME TypeOK, Books, NEW s \in Sessions, emitReplaced(s) \/ emitDisconnected(s)
    PROVE  StepTakeDown(owner[s]) /\ (owner[s] \in Nodes) /\ (\A n \in Nodes : Ups(n)' = Ups(n))
  <1> USE DEF TypeOK, Books, BegunOnce, emitReplaced, emitDisconnected, AnnounceLoss, Goto, sessionVars
  <1>1. owner[s] \in Nodes
    OBVIOUS
  <1>2. \A n \in Nodes : /\ Announcing(n)' = Announcing(n) /\ reconnects'[n] = reconnects[n]
                         /\ IsOnline(n)' = IsOnline(n)
    BY DEF Announcing, IsOnline
  <1>3. \A n \in Nodes \ {owner[s]} : Losing(n)' = Losing(n)
    BY DEF Losing
  <1>4. Losing(owner[s])' = Losing(owner[s]) \ {s} /\ s \in Losing(owner[s])
    BY DEF Losing
  <1>5. Losing(owner[s]) \in SUBSET Sessions
    BY DEF Losing
  <1>6. Downs(owner[s])' = Downs(owner[s]) - 1 /\ Downs(owner[s]) > 0
    BY <1>4, <1>5, Counting DEF Downs
  <1>7. \A n \in Nodes : Ups(n)' = Ups(n)
    BY <1>2 DEF Ups
  <1>8. KeptBut(owner[s])
    BY <1>2, <1>3, <1>7 DEF KeptBut, Downs
  <1> QED
    BY <1>1, <1>2, <1>6, <1>7, <1>8 DEF StepTakeDown

\* Handing "connected" to its goroutine moves it from one count to the other.
LEMMA EmitUp ==
    ASSUME TypeOK, Books, NEW s \in Sessions, emitConnected(s)
    PROVE  Kept
  <1> USE DEF TypeOK, Books, BegunOnce, emitConnected, Goto, sessionVars
  <1>1. owner[s] \in Nodes
    OBVIOUS
  <1>2. \A n \in Nodes : Losing(n)' = Losing(n) /\ IsOnline(n)' = IsOnline(n)
    BY DEF Losing, IsOnline
  <1>3. \A n \in Nodes \ {owner[s]} : Announcing(n)' = Announcing(n) /\ reconnects'[n] = reconnects[n]
    BY DEF Announcing
  <1>4. /\ Announcing(owner[s])' = Announcing(owner[s]) \ {s} /\ s \in Announcing(owner[s])
        /\ reconnects'[owner[s]] = reconnects[owner[s]] + 1
    BY <1>1 DEF Announcing
  <1>5. Announcing(owner[s]) \in SUBSET Sessions
    BY DEF Announcing
  <1>6. Ups(owner[s])' = Ups(owner[s])
    <2>1. /\ Cardinality(Announcing(owner[s]) \ {s}) = Cardinality(Announcing(owner[s])) - 1
          /\ Cardinality(Announcing(owner[s])) \in Nat
      BY <1>4, <1>5, Counting
    <2>2. Ups(owner[s])' = (reconnects[owner[s]] + 1) + Cardinality(Announcing(owner[s]) \ {s})
      BY <1>4 DEF Ups
    <2>3. reconnects[owner[s]] \in Nat
      BY <1>1
    <2> QED
      BY <2>1, <2>2, <2>3 DEF Ups
  <1> QED
    BY <1>2, <1>3, <1>6 DEF Kept, Ups, Downs

\* The goroutine of the queue takes one "connected".
LEMMA ReconnectTakes ==
    ASSUME TypeOK, NEW m \in Nodes, HandleNodeReconnect(m)
    PROVE  StepTakeUp(m)
  <1> USE DEF TypeOK, HandleNodeReconnect, sessionVars
  <1>1. \A n \in Nodes : /\ Announcing(n)' = Announcing(n) /\ Losing(n)' = Losing(n)
                         /\ IsOnline(n)' = IsOnline(n)
    BY DEF Announcing, Losing, IsOnline
  <1>2. Announcing(m) \in SUBSET Sessions
    BY DEF Announcing
  <1>3. Ups(m)' = Ups(m) - 1 /\ Ups(m) > 0
    BY <1>1, <1>2, Counting DEF Ups
  <1>4. KeptBut(m)
    BY <1>1, SetsKept DEF KeptBut
  <1> QED
    BY <1>1, <1>3, <1>4 DEF StepTakeUp, Downs

\* The other steps keep all announcements, and whether a node is online.
LEMMA OthersKeep ==
    ASSUME TypeOK, Books, NEW s \in Sessions,
           \/ checkOld(s) \/ closeOld(s) \/ readFails(s) \/ addStreamSub(s) \/ checkSelf(s)
           \/ closeSelf(s) \/ Message(s) \/ ConnectionFails(s)
    PROVE  Kept
  <1> USE DEF TypeOK, Goto, sessionVars, streamVars
  <1>1. /\ UNCHANGED <<owner, sessions, state, reconnects>>
        /\ \E p \in Places : pc' = [pc EXCEPT ![s] = p] /\ (
              \/ p = pc[s]
              \/ {p, pc[s]} \subseteq {"checkOld", "closeOld", "markOld", "announce"}
              \/ {p, pc[s]} \subseteq {"reading", "subscribe", "checkSelf", "closeSelf", "markSelf", "done"})
    <2>1. CASE checkOld(s)
      BY <2>1 DEF checkOld, Places
    <2>2. CASE closeOld(s)
      BY <2>2 DEF closeOld, Places
    <2>3. CASE readFails(s) \/ addStreamSub(s) \/ closeSelf(s)
      BY <2>3 DEF readFails, addStreamSub, closeSelf, Places
    <2>4. CASE checkSelf(s)
      BY <2>4 DEF checkSelf, Places
    <2>5. CASE Message(s)
      BY <2>5 DEF Message, streamRequest, removeStreamSub, Places
    <2>6. CASE ConnectionFails(s)
      BY <2>6 DEF ConnectionFails, Places
    <2> QED
      BY <2>1, <2>2, <2>3, <2>4, <2>5, <2>6
  <1>2. \A n \in Nodes : /\ Announcing(n)' = Announcing(n) /\ Losing(n)' = Losing(n)
                         /\ IsOnline(n)' = IsOnline(n)
    BY <1>1 DEF Announcing, Losing, IsOnline
  <1> QED
    BY <1>1, <1>2, SetsKept DEF Kept

\* Eviction takes no node offline and announces nothing.
LEMMA EvictKeeps ==
    ASSUME TypeOK, NEW N \in SUBSET Stale, EvictStale(N)
    PROVE  Kept
  <1> USE DEF TypeOK, EvictStale, Stale
  <1>1. \A n \in Nodes : /\ Announcing(n)' = Announcing(n) /\ Losing(n)' = Losing(n)
                         /\ IsOnline(n)' = IsOnline(n)
    BY SessionsAssumption DEF Announcing, Losing, IsOnline
  <1> QED
    BY <1>1, SetsKept DEF Kept

\* Every step of the session manager is one of these for some node, and keeps the bound.
LEMMA Described ==
    ASSUME TypeOK, Books, UpsBounded, [Next]_vars
    PROVE  /\ Kept \/ \E m \in Nodes : StepUp(m) \/ StepDown(m) \/ StepTakeUp(m) \/ StepTakeDown(m)
           /\ UpsBounded'
  <1> DEFINE Some == \E m \in Nodes : StepUp(m) \/ StepDown(m) \/ StepTakeUp(m) \/ StepTakeDown(m)
  <1> DEFINE Fewer == /\ \A n \in Nodes : Ups(n)' = Ups(n) \/ (Ups(n)' = Ups(n) - 1 /\ Ups(n) > 0)
                      /\ \A n \in Nodes : Own(n)' = Own(n)
  <1>1. ASSUME Fewer PROVE UpsBounded'
    <2> SUFFICES ASSUME NEW n \in Nodes PROVE Ups(n)' <= Cardinality(Own(n)')
      BY DEF UpsBounded
    <2>1. Own(n) \in SUBSET Sessions /\ Announcing(n) \in SUBSET Sessions
      BY DEF Own, Announcing
    <2>2. Cardinality(Own(n)) \in Nat /\ Cardinality(Announcing(n)) \in Nat
      BY <2>1, Counting
    <2>3. Ups(n) \in Nat
      BY <2>2 DEF Ups, TypeOK
    <2>4. Ups(n) <= Cardinality(Own(n))
      BY DEF UpsBounded
    <2> HIDE DEF Fewer
    <2>5. (Ups(n)' = Ups(n) \/ Ups(n)' = Ups(n) - 1) /\ Own(n)' = Own(n)
      BY <1>1 DEF Fewer
    <2> QED
      BY <2>2, <2>3, <2>4, <2>5
  <1>2. ASSUME NEW s \in Sessions, NEW m \in Nodes, Register(s, m) PROVE Some /\ UpsBounded'
    BY <1>2, RegisterUp
  <1>3. ASSUME NEW s \in Sessions, markOld(s) \/ markSelf(s) PROVE Some /\ UpsBounded'
    <2>1. \A n \in Nodes : Own(n)' = Own(n)
      BY <1>3 DEF markOld, markSelf, Own
    <2> QED
      BY <1>1, <1>3, <2>1, MarkDown
  <1>4. ASSUME NEW s \in Sessions, emitReplaced(s) \/ emitDisconnected(s) PROVE Some /\ UpsBounded'
    <2>1. \A n \in Nodes : Own(n)' = Own(n)
      BY <1>4 DEF emitReplaced, emitDisconnected, sessionVars, Own
    <2> QED
      BY <1>1, <1>4, <2>1, EmitDown
  <1>5. ASSUME NEW s \in Sessions, emitConnected(s) PROVE Kept /\ UpsBounded'
    <2>1. \A n \in Nodes : Own(n)' = Own(n)
      BY <1>5 DEF emitConnected, sessionVars, Own
    <2> QED
      BY <1>1, <1>5, <2>1, EmitUp DEF Kept
  <1>6. ASSUME NEW m \in Nodes, HandleNodeReconnect(m) PROVE Some /\ UpsBounded'
    <2>1. \A n \in Nodes : Own(n)' = Own(n)
      BY <1>6 DEF HandleNodeReconnect, sessionVars, Own
    <2>2. StepTakeUp(m)
      BY <1>6, ReconnectTakes
    <2> QED
      BY <1>1, <2>1, <2>2 DEF StepTakeUp, KeptBut
  <1>7. ASSUME NEW s \in Sessions,
               \/ checkOld(s) \/ closeOld(s) \/ readFails(s) \/ addStreamSub(s) \/ checkSelf(s)
               \/ closeSelf(s) \/ Message(s) \/ ConnectionFails(s)
        PROVE  Kept /\ UpsBounded'
    <2>1. \A n \in Nodes : Own(n)' = Own(n)
      BY <1>7 DEF checkOld, closeOld, readFails, addStreamSub, checkSelf, closeSelf, Message,
                  streamRequest, removeStreamSub, ConnectionFails, sessionVars, Own
    <2> QED
      BY <1>1, <1>7, <2>1, OthersKeep DEF Kept
  <1>8. ASSUME NEW N \in SUBSET Stale, EvictStale(N) PROVE Kept /\ UpsBounded'
    <2>1. \A n \in Nodes : Own(n)' = Own(n)
      BY <1>8 DEF EvictStale, Own
    <2> QED
      BY <1>1, <1>8, <2>1, EvictKeeps DEF Kept
  <1>9. ASSUME UNCHANGED vars PROVE Kept /\ UpsBounded'
    BY <1>9 DEF vars, sessionVars, Kept, Ups, Downs, Announcing, Losing, IsOnline, UpsBounded, Own
  <1> QED
    BY <1>2, <1>3, <1>4, <1>5, <1>6, <1>7, <1>8, <1>9 DEF Next, Step

\* No session has begun, so nothing is pending.
LEMMA InitTransport == Init => Transport!Init /\ UpsBounded
  <1> SUFFICES ASSUME Init PROVE Transport!Init /\ UpsBounded
    OBVIOUS
  <1>1. \A n \in Nodes : Announcing(n) = {} /\ Losing(n) = {} /\ Own(n) = {} /\ ~IsOnline(n)
    BY NodesAssumption DEF Init, Announcing, Losing, Own, IsOnline
  <1>2. \A n \in Nodes : Ups(n) = 0 /\ Downs(n) = 0 /\ Cardinality(Own(n)) = 0
    BY <1>1, FS_EmptySet DEF Init, Ups, Downs
  <1>3. UpsBounded
    BY <1>2 DEF UpsBounded
  <1>4. [n \in Nodes |-> IsOnline(n)] = [n \in Nodes |-> FALSE]
    BY <1>1 DEF IsOnline
  <1>5. [n \in Nodes |-> Ups(n)] = [n \in Nodes |-> 0] /\ [n \in Nodes |-> Downs(n)] = [n \in Nodes |-> 0]
    BY <1>2
  <1> QED
    BY <1>3, <1>4, <1>5 DEF Transport!Init, Ups, Downs

\* Each of these steps is a step of NodeTransport, or changes nothing of it.
LEMMA StepRefines ==
    ASSUME Kept \/ \E m \in Nodes : StepUp(m) \/ StepDown(m) \/ StepTakeUp(m) \/ StepTakeDown(m)
    PROVE  [Transport!Next]_<<[n \in Nodes |-> IsOnline(n)], [n \in Nodes |-> Ups(n)],
                              [n \in Nodes |-> Downs(n)]>>
  <1> USE DEF Transport!Next, KeptBut, Ups, Downs
  <1>1. CASE Kept
    BY <1>1 DEF Kept
  <1>2. ASSUME NEW m \in Nodes, StepUp(m) PROVE Transport!NodeUp(m)
    BY <1>2 DEF StepUp, Transport!NodeUp
  <1>3. ASSUME NEW m \in Nodes, StepDown(m) PROVE Transport!NodeDown(m) \/ Transport!OldSessionDown(m)
    <2>1. CASE IsOnline(m)' = IsOnline(m)
      BY <1>3, <2>1 DEF StepDown, Transport!OldSessionDown
    <2>2. CASE IsOnline(m) /\ ~IsOnline(m)'
      BY <1>3, <2>2 DEF StepDown, Transport!NodeDown, IsOnline
    <2> QED
      BY <1>3, <2>1, <2>2 DEF StepDown
  <1>4. ASSUME NEW m \in Nodes, StepTakeUp(m) PROVE Transport!TakeUp(m)
    BY <1>4 DEF StepTakeUp, Transport!TakeUp
  <1>5. ASSUME NEW m \in Nodes, StepTakeDown(m) PROVE Transport!TakeDown(m)
    BY <1>5 DEF StepTakeDown, Transport!TakeDown
  <1> QED
    BY <1>1, <1>2, <1>3, <1>4, <1>5

\* Whatever the goroutines of connections do, the job queue sees what NodeTransport allows: a
\* node changes between online and offline only together with an announcement that is then
\* pending, and no more are pending than connections were made.
THEOREM TransportRefinement == Spec => Transport!Spec
  <1>1. TypeOK /\ Books /\ UpsBounded /\ [Next]_vars => UpsBounded'
    BY Described
  <1>2. TypeOK /\ Books /\ UpsBounded /\ [Next]_vars => [Transport!Next]_(Transport!vars)
    BY Described, StepRefines DEF Transport!vars, Ups, Downs
  <1> QED
    BY <1>1, <1>2, InitTransport, Inductive, PTL DEF Spec, Transport!Spec
=============================================================================
