-------------------------- MODULE DaemonRpcProofs ---------------------------
(***************************************************************************)
(* Proofs about DaemonRpc, for any number of calls, subscriptions and      *)
(* sockets.                                                                *)
(*                                                                         *)
(* The invariants hold together: an open is under way only while no socket *)
(* is open (else a failed open would show "disconnected" over a working    *)
(* socket), and before the first socket every subscription still waits     *)
(* (else opening it, which then restores nothing, would lose one).         *)
(***************************************************************************)
EXTENDS DaemonRpc, TLAPS

\* ensureSocket opens only when the current socket is not open.
OpensWhenNeeded == socketOpenPromise => ~IsOpen

\* A call that was sent was sent on a socket.
SentOnASocket == \A c \in Calls : calls[c].pc = "sent" => calls[c].socket # NoSocket

\* Without a socket and with nothing to restore, no socket was there before.
FirstOpenSendsAll ==
    socket = NoSocket /\ ~disposed /\ ~needsSubscriptionRestore =>
        \A s \in subscriptions : calls[s].pc = "waiting"

IInv ==
    /\ TypeOK /\ OpensWhenNeeded /\ SentOnASocket /\ FirstOpenSendsAll
    /\ ReconnectUnderWay /\ StatusIsTrue /\ NoDeadWait /\ SubscriptionsRestored

\* The initial state has no socket, no call and no subscription.
LEMMA InitOK == Init => IInv
  <1>1. Idle \in [pc : {"idle", "waiting", "sent", "answered", "failed"}, socket : Sockets \cup {NoSocket}]
    BY DEF Idle
  <1>2. Init => TypeOK
    BY <1>1 DEF Init, TypeOK
  <1> QED
    BY <1>2, SocketsAssumption
  DEF Init, IInv, OpensWhenNeeded, SentOnASocket, FirstOpenSendsAll, ReconnectUnderWay,
      StatusIsTrue, NoDeadWait, SubscriptionsRestored, SubscriptionsFollow, IsOpen, Idle, Sockets, NoSocket

\* What a call is.
CallRec == [pc : {"idle", "waiting", "sent", "answered", "failed"}, socket : Sockets \cup {NoSocket}]

\* Calls stay calls when their step changes, and when they are sent or wait.
LEMMA CallTypes ==
    /\ \A e \in CallRec : \A p \in {"idle", "waiting", "sent", "answered", "failed"} :
          [e EXCEPT !.pc = p] \in CallRec
    /\ \A k \in Sockets \cup {NoSocket} : [pc |-> "sent", socket |-> k] \in CallRec
    /\ [pc |-> "waiting", socket |-> NoSocket] \in CallRec
    /\ Idle \in CallRec
  BY DEF CallRec, Idle, NoSocket

\* Rejecting the calls of a socket keeps their types.
LEMMA RejectedType ==
    ASSUME NEW cs \in [Calls -> CallRec], NEW k PROVE Rejected(cs, k) \in [Calls -> CallRec]
  BY CallTypes DEF Rejected

\* Every step keeps the types.
LEMMA TypeStep == TypeOK /\ [Next]_vars => TypeOK'
  <1> SUFFICES ASSUME TypeOK, [Next]_vars PROVE TypeOK'
    OBVIOUS
  <1>0. calls \in [Calls -> CallRec] /\ (calls' \in [Calls -> CallRec] =>
           calls' \in [Calls -> [pc : {"idle", "waiting", "sent", "answered", "failed"},
                                 socket : Sockets \cup {NoSocket}]])
    BY DEF TypeOK, CallRec
  <1> USE DEF TypeOK, sessionVars, clientVars
  <1>a. ASSUME NEW cs \in [Calls -> CallRec], invalidateCurrent(cs) PROVE TypeOK'
    <2>1. calls' \in [Calls -> CallRec]
      BY <1>a, RejectedType DEF invalidateCurrent
    <2> QED
      BY <1>0, <1>a, <2>1 DEF invalidateCurrent
  <1>b. ASSUME NEW c \in Calls, send(c) PROVE /\ calls' \in [Calls -> CallRec]
                                              /\ socketOpenPromise' \in BOOLEAN
                                              /\ connectionStatus' \in {"connecting", "connected", "disconnected"}
    BY <1>0, <1>b, CallTypes DEF send, beginOpen
  <1>1. ASSUME NEW c \in Requests, request(c) PROVE TypeOK'
    <2>1. c \in Calls
      BY DEF Calls
    <2>2. CASE disposed
      <3>0. [calls EXCEPT ![c].pc = "failed"] \in [Calls -> CallRec]
        BY <1>0, <2>1, CallTypes
      <3>1. calls' \in [Calls -> CallRec]
        BY <1>1, <2>2, <3>0 DEF request
      <3> QED
        BY <1>0, <1>1, <2>2, <3>1 DEF request
    <2>3. CASE ~disposed
      BY <1>0, <1>1, <1>b, <2>1, <2>3 DEF request
    <2> QED
      BY <2>2, <2>3
  <1>2. ASSUME NEW s \in Subs, subscribe(s) PROVE TypeOK'
    <2>1. s \in Calls
      BY DEF Calls
    <2> QED
      BY <1>0, <1>2, <1>b, <2>1 DEF subscribe
  <1>3. ASSUME NEW s \in Subs, unsubscribe(s) PROVE TypeOK'
    BY <1>3 DEF unsubscribe
  <1>4. ASSUME NEW c \in Calls, requestTimeout(c) PROVE TypeOK'
    <2>1. [calls EXCEPT ![c].pc = "failed"] \in [Calls -> CallRec]
      BY <1>0, CallTypes
    <2>2. CASE calls[c].socket = socket
      BY <1>4, <1>a, <2>1, <2>2 DEF requestTimeout
    <2>3. CASE calls[c].socket # socket
      BY <1>0, <1>4, <2>1, <2>3 DEF requestTimeout
    <2> QED
      BY <2>2, <2>3
  <1>5. ASSUME NEW c \in Calls, NEW ok \in BOOLEAN, response(c, ok) PROVE TypeOK'
    <2>1. calls' \in [Calls -> CallRec]
      BY <1>0, <1>5, CallTypes DEF response
    <2> QED
      BY <1>0, <1>5, <2>1 DEF response
  <1>6. ASSUME NEW k \in Sockets, opened(k) PROVE TypeOK'
    <2>1. calls' \in [Calls -> CallRec]
      <3>1. CASE disposed
        <4>1. calls' = [c \in Calls |-> IF calls[c].pc = "waiting" THEN [calls[c] EXCEPT !.pc = "failed"]
                                        ELSE calls[c]]
          BY <1>6, <3>1 DEF opened
        <4> QED
          BY <1>0, <4>1, CallTypes
      <3>2. CASE ~disposed
        BY <1>0, <1>6, <3>2, CallTypes DEF opened
      <3> QED
        BY <3>1, <3>2
    <2> QED
      BY <1>0, <1>6, <2>1 DEF opened
  <1>7. ASSUME NEW k \in Sockets, closeEvent(k) PROVE TypeOK'
    BY <1>0, <1>7, <1>a DEF closeEvent
  <1>8. ASSUME openFailed PROVE TypeOK'
    <2>1. calls' \in [Calls -> CallRec]
      BY <1>0, <1>8, CallTypes DEF openFailed
    <2> QED
      BY <1>0, <1>8, <2>1 DEF openFailed, resumeReconnectIfNeeded
  <1>9. ASSUME closingHandshake \/ reconnect PROVE TypeOK'
    BY <1>9 DEF closingHandshake, reconnect, beginOpen
  <1>10. ASSUME dispose PROVE TypeOK'
    <2>1. calls' \in [Calls -> CallRec]
      BY <1>0, <1>10, CallTypes DEF dispose
    <2> QED
      BY <1>0, <1>10, <2>1 DEF dispose
  <1>11. CASE UNCHANGED vars
    BY <1>11 DEF vars
  <1> QED
    BY <1>1, <1>2, <1>3, <1>4, <1>5, <1>6, <1>7, <1>8, <1>9, <1>10, <1>11 DEF Next

\* Every macrotask keeps the invariant.
LEMMA NextOK == IInv /\ [Next]_vars => IInv'
  <1> SUFFICES ASSUME IInv, [Next]_vars PROVE IInv'
    OBVIOUS
  <1> USE SocketsAssumption
      DEF IInv, TypeOK, OpensWhenNeeded, SentOnASocket, FirstOpenSendsAll, ReconnectUnderWay,
          StatusIsTrue, NoDeadWait, SubscriptionsRestored, SubscriptionsFollow, IsOpen, Sockets,
          NoSocket, Calls, sessionVars, clientVars
  <1>1. ASSUME NEW c \in Requests, request(c) PROVE IInv'
    <2>2. OpensWhenNeeded'
      BY <1>1, CallsAssumption DEF request, send, beginOpen
    <2>3. SentOnASocket'
      BY <1>1, CallsAssumption DEF request, send, beginOpen
    <2>4. FirstOpenSendsAll'
      BY <1>1, CallsAssumption DEF request, send, beginOpen
    <2>5. ReconnectUnderWay'
      BY <1>1, CallsAssumption DEF request, send, beginOpen
    <2>6. StatusIsTrue'
      BY <1>1, CallsAssumption DEF request, send, beginOpen
    <2>7. NoDeadWait'
      BY <1>1, CallsAssumption DEF request, send, beginOpen
    <2>8. SubscriptionsRestored'
      BY <1>1, CallsAssumption DEF request, send, beginOpen
    <2> QED
      BY TypeStep, <2>2, <2>3, <2>4, <2>5, <2>6, <2>7, <2>8
  <1>2. ASSUME NEW s \in Subs, subscribe(s) PROVE IInv'
    <2>2. OpensWhenNeeded'
      BY <1>2 DEF subscribe, send, beginOpen
    <2>3. SentOnASocket'
      BY <1>2 DEF subscribe, send, beginOpen
    <2>4. FirstOpenSendsAll'
      BY <1>2 DEF subscribe, send, beginOpen
    <2>5. ReconnectUnderWay'
      BY <1>2 DEF subscribe, send, beginOpen
    <2>6. StatusIsTrue'
      BY <1>2 DEF subscribe, send, beginOpen
    <2>7. NoDeadWait'
      BY <1>2 DEF subscribe, send, beginOpen
    <2>8. SubscriptionsRestored'
      BY <1>2 DEF subscribe, send, beginOpen
    <2> QED
      BY TypeStep, <2>2, <2>3, <2>4, <2>5, <2>6, <2>7, <2>8
  <1>3. ASSUME NEW s \in Subs, unsubscribe(s) PROVE IInv'
    BY <1>3 DEF unsubscribe
  <1>4. ASSUME NEW c \in Calls, requestTimeout(c) PROVE IInv'
    <2>2. OpensWhenNeeded'
      BY <1>4 DEF requestTimeout, invalidateCurrent, Rejected
    <2>3. SentOnASocket'
      BY <1>4 DEF requestTimeout, invalidateCurrent, Rejected
    <2>4. FirstOpenSendsAll'
      BY <1>4 DEF requestTimeout, invalidateCurrent, Rejected
    <2>5. ReconnectUnderWay'
      BY <1>4 DEF requestTimeout, invalidateCurrent, Rejected
    <2>6. StatusIsTrue'
      BY <1>4 DEF requestTimeout, invalidateCurrent, Rejected
    <2>7. NoDeadWait'
      BY <1>4 DEF requestTimeout, invalidateCurrent, Rejected
    <2>8. SubscriptionsRestored'
      BY <1>4 DEF requestTimeout, invalidateCurrent, Rejected
    <2> QED
      BY TypeStep, <2>2, <2>3, <2>4, <2>5, <2>6, <2>7, <2>8
  <1>5. ASSUME NEW c \in Calls, NEW ok \in BOOLEAN, response(c, ok) PROVE IInv'
    BY <1>5 DEF response
  <1>6. ASSUME NEW k \in Sockets, opened(k) PROVE IInv'
    <2>2. OpensWhenNeeded'
      BY <1>6 DEF opened, Restored
    <2>3. SentOnASocket'
      BY <1>6 DEF opened, Restored
    <2>4. FirstOpenSendsAll'
      BY <1>6 DEF opened, Restored
    <2>5. ReconnectUnderWay'
      BY <1>6 DEF opened, Restored
    <2>6. StatusIsTrue'
      BY <1>6 DEF opened, Restored
    <2>7. NoDeadWait'
      BY <1>6 DEF opened, Restored
    <2>8. SubscriptionsRestored'
      <3> SUFFICES ASSUME ~swapped', IsOpen', ~disposed', NEW s \in subscriptions'
          PROVE  calls'[s].socket = socket'
        OBVIOUS
      <3>1. ~disposed /\ socket = NoSocket /\ socket' = k /\ s \in subscriptions /\ s \in Calls
        BY <1>6 DEF opened
      <3>2. calls[s].pc = "waiting" \/ s \in Restored
        BY <3>1 DEF Restored
      <3>3. calls'[s] = [pc |-> "sent", socket |-> k]
        BY <1>6, <3>1, <3>2 DEF opened
      <3> QED
        BY <3>1, <3>3
    <2> QED
      BY TypeStep, <2>2, <2>3, <2>4, <2>5, <2>6, <2>7, <2>8
  <1>7. ASSUME NEW k \in Sockets, closeEvent(k) PROVE IInv'
    <2>2. OpensWhenNeeded'
      <3>1. CASE socket = k
        <4>1. socket' = NoSocket
          BY <1>7, <3>1 DEF closeEvent, invalidateCurrent
        <4> QED
          BY <4>1
      <3>2. CASE socket # k
        <4>1. /\ sockets' = [sockets EXCEPT ![k] = "closed"]
              /\ socket' = socket /\ socketOpenPromise' = socketOpenPromise
          BY <1>7, <3>2 DEF closeEvent
        <4>2. IsOpen' => IsOpen
          BY <4>1, <3>2
        <4> QED
          BY <4>1, <4>2
      <3> QED
        BY <3>1, <3>2
    <2>3. SentOnASocket'
      BY <1>7 DEF closeEvent, invalidateCurrent, Rejected
    <2>4. FirstOpenSendsAll'
      BY <1>7 DEF closeEvent, invalidateCurrent, Rejected
    <2>5. ReconnectUnderWay'
      BY <1>7 DEF closeEvent, invalidateCurrent, Rejected
    <2>6. StatusIsTrue'
      BY <1>7 DEF closeEvent, invalidateCurrent, Rejected
    <2>7. NoDeadWait'
      BY <1>7 DEF closeEvent, invalidateCurrent, Rejected
    <2>8. SubscriptionsRestored'
      BY <1>7 DEF closeEvent, invalidateCurrent, Rejected
    <2> QED
      BY TypeStep, <2>2, <2>3, <2>4, <2>5, <2>6, <2>7, <2>8
  <1>8. ASSUME openFailed PROVE IInv'
    BY <1>8 DEF openFailed, resumeReconnectIfNeeded
  <1>9. ASSUME closingHandshake PROVE IInv'
    BY <1>9 DEF closingHandshake
  <1>10. ASSUME reconnect PROVE IInv'
    BY <1>10 DEF reconnect, beginOpen
  <1>11. ASSUME dispose PROVE IInv'
    BY <1>11 DEF dispose
  <1>12. CASE UNCHANGED vars
    BY <1>12 DEF vars
  <1> QED
    BY <1>1, <1>2, <1>3, <1>4, <1>5, <1>6, <1>7, <1>8, <1>9, <1>10, <1>11, <1>12 DEF Next

\* The inductive invariant, on which every theorem below rests.
LEMMA Inductive == Spec => []IInv
  BY InitOK, NextOK, PTL DEF Spec

\* Sockets, timers, statuses and calls have their types.
THEOREM TypeCorrect == Spec => []TypeOK
  BY Inductive, PTL DEF IInv

\* A client that was disconnected is never left without a socket, an open or a reconnect timer.
THEOREM KeepsReconnecting == Spec => []ReconnectUnderWay
  BY Inductive, PTL DEF IInv

\* The status the user sees never contradicts the current socket.
THEOREM ShownStatus == Spec => []StatusIsTrue
  BY Inductive, PTL DEF IInv

\* No call waits for an open that is not under way, and a disposed client keeps nothing.
THEOREM WaitsAreLive == Spec => []NoDeadWait
  BY Inductive, PTL DEF IInv

\* After any invalidated socket, every subscription is registered again on the next one.
THEOREM Restoration == Spec => []SubscriptionsRestored
  BY Inductive, PTL DEF IInv
=============================================================================
