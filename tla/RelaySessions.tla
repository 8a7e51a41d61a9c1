---------------------------- MODULE RelaySessions ---------------------------
(***************************************************************************)
(* The relay's node sessions: SessionManager in                            *)
(* apps/relay/internal/relay/session.go, the goroutines server.go runs for *)
(* each daemon connection, and the terminal stream subscriptions that are  *)
(* cancelled when a node goes away.                                        *)
(*                                                                         *)
(* A session is one WebSocket connection; HandleWebSocket is its goroutine *)
(* from Register to the deferred DisconnectSession.  Each lock is taken    *)
(* for one map or one session only, so a replacement (the new connection's *)
(* goroutine closing the old session) and the end of the old connection    *)
(* (the old goroutine closing its own session) interleave freely.          *)
(*                                                                         *)
(* What the job queue is told is the interface NodeTransport.              *)
(***************************************************************************)
EXTENDS Integers, FiniteSets

CONSTANTS Nodes,
          Sessions,   \* bound: the connections made, a *NodeSession each
          Streams,    \* terminal session IDs
          NoSession, NoNode

ASSUME SessionsAssumption == IsFiniteSet(Sessions) /\ NoSession \notin Sessions
ASSUME NodesAssumption == NoNode \notin Nodes

VARIABLES
  sessions,    \* SessionManager.sessions
  owner,       \* NodeSession.Identity.NodeID
  state,       \* NodeSession.State, "none" before the session exists
  wire,        \* the connection works: neither end has closed it and the network has not failed
  pc,          \* where HandleWebSocket is for this session
  old,         \* the local variable existing of Register
  request,     \* the stream request handleMessage is working on
  reconnects,  \* HandleNodeReconnect goroutines started and not yet run, by node
  streamSubs,  \* Server.streamSubs, {} when absent
  streamOwners, \* Server.streamOwners, NoNode when absent
  lost         \* history: how often the loss of a session was announced

sessionVars == <<sessions, owner, state, old>>
streamVars  == <<request, streamSubs, streamOwners>>
vars        == <<sessionVars, streamVars, wire, pc, reconnects, lost>>

Goto(s, place) == pc' = [pc EXCEPT ![s] = place]

IsOnline(n) == sessions[n] # NoSession /\ state[sessions[n]] = "connected"

-----------------------------------------------------------------------------
Init ==
    /\ sessions = [n \in Nodes |-> NoSession]
    /\ owner = [s \in Sessions |-> NoNode]
    /\ state = [s \in Sessions |-> "none"]
    /\ wire = [s \in Sessions |-> FALSE]
    /\ pc = [s \in Sessions |-> "start"]
    /\ old = [s \in Sessions |-> NoSession]
    /\ request = [s \in Sessions |-> {}]
    /\ reconnects = [n \in Nodes |-> 0]
    /\ streamSubs = [t \in Streams |-> {}]
    /\ streamOwners = [t \in Streams |-> NoNode]
    /\ lost = [s \in Sessions |-> 0]

-----------------------------------------------------------------------------
(* Register                                                                *)

\* The connection may fail from the moment it is made.
Register(s, n) ==
    /\ pc[s] = "start"
    /\ owner' = [owner EXCEPT ![s] = n]
    /\ state' = [state EXCEPT ![s] = "connected"]
    /\ wire' = [wire EXCEPT ![s] = TRUE]
    /\ old' = [old EXCEPT ![s] = sessions[n]]
    /\ sessions' = [sessions EXCEPT ![n] = s]
    /\ Goto(s, IF sessions[n] = NoSession THEN "announce" ELSE "checkOld")
    /\ UNCHANGED <<streamVars, reconnects, lost>>

\* (mutant: the old session is left to its own goroutine)
checkOldSkipped(s) ==
    /\ pc[s] = "checkOld"
    /\ Goto(s, "announce")
    /\ UNCHANGED <<sessionVars, streamVars, wire, reconnects, lost>>
checkOld(s) ==
    /\ pc[s] = "checkOld"
    /\ Goto(s, IF state[old[s]] = "connected" THEN "closeOld" ELSE "announce")
    /\ UNCHANGED <<sessionVars, streamVars, wire, reconnects, lost>>

Close(x) == wire' = [wire EXCEPT ![x] = FALSE]

closeOld(s) ==
    /\ pc[s] = "closeOld"
    /\ Close(old[s])
    /\ Goto(s, "markOld")
    /\ UNCHANGED <<sessionVars, streamVars, reconnects, lost>>

\* markDisconnected; Close has already set conn to nil.
markDisconnected(x) == state' = [state EXCEPT ![x] = "disconnected"]

markOld(s) ==
    /\ pc[s] = "markOld"
    /\ markDisconnected(old[s])
    /\ Goto(s, "replaced")
    /\ UNCHANGED <<sessions, owner, old, streamVars, wire, reconnects, lost>>

\* cancelStreamSubsForNode: n stops receiving, and the streams it owns end.
cancelStreamSubsForNode(n) ==
    LET ended == {t \in Streams : streamSubs[t] # {} /\
                                  (streamSubs[t] = {n} \/ streamOwners[t] = n)} IN
    /\ streamSubs' = [t \in Streams |-> IF t \in ended THEN {} ELSE streamSubs[t] \ {n}]
    /\ streamOwners' = [t \in Streams |-> IF t \in ended THEN NoNode ELSE streamOwners[t]]

\* The handler of "replaced" and "disconnected": the queue's HandleNodeDisconnect, then
\* the streams.  x is the session that was lost.
AnnounceLoss(x) ==
    /\ lost' = [lost EXCEPT ![x] = @ + 1]
    /\ cancelStreamSubsForNode(owner[x])

emitReplaced(s) ==
    /\ pc[s] = "replaced"
    /\ AnnounceLoss(old[s])
    /\ Goto(s, "announce")
    /\ UNCHANGED <<sessionVars, wire, request, reconnects>>

\* "connected" is handed to the queue in a goroutine of its own.
emitConnected(s) ==
    /\ pc[s] = "announce"
    /\ reconnects' = [reconnects EXCEPT ![owner[s]] = @ + 1]
    /\ Goto(s, "reading")
    /\ UNCHANGED <<sessionVars, streamVars, wire, lost>>

HandleNodeReconnect(n) ==
    /\ reconnects[n] > 0
    /\ reconnects' = [reconnects EXCEPT ![n] = @ - 1]
    /\ UNCHANGED <<sessionVars, streamVars, wire, pc, lost>>

-----------------------------------------------------------------------------
(* readLoop                                                                *)

\* The peer closes, or the network fails.
ConnectionFails(s) ==
    /\ wire[s]
    /\ Close(s)
    /\ UNCHANGED <<sessionVars, streamVars, pc, reconnects, lost>>

\* ReadMessage fails, or panics on the conn that Close has set to nil: either way the
\* deferred DisconnectSession runs.
readFails(s) ==
    /\ pc[s] = "reading"
    /\ ~wire[s]
    /\ Goto(s, "checkSelf")
    /\ UNCHANGED <<sessionVars, streamVars, wire, reconnects, lost>>

\* terminal.stream.request: setStreamOwner, then addStreamSub under a second lock.
\* FromNode is the sender: daemons fill in their own node ID (node/terminal/relay.go).  A
\* message that was read is handled to its end whatever happens to the connection.
streamRequest(s, t, m) ==
    /\ pc[s] = "reading"
    /\ streamOwners' = [streamOwners EXCEPT ![t] = m]
    /\ request' = [request EXCEPT ![s] = {t}]
    /\ Goto(s, "subscribe")
    /\ UNCHANGED <<sessionVars, streamSubs, wire, reconnects, lost>>

addStreamSub(s) ==
    /\ pc[s] = "subscribe"
    /\ streamSubs' = [t \in Streams |-> IF t \in request[s] THEN streamSubs[t] \union {owner[s]}
                                        ELSE streamSubs[t]]
    /\ request' = [request EXCEPT ![s] = {}]
    /\ Goto(s, "reading")
    /\ UNCHANGED <<sessionVars, streamOwners, wire, reconnects, lost>>

\* terminal.stream.cancel
removeStreamSub(s, t) ==
    LET left == streamSubs[t] \ {owner[s]} IN
    /\ pc[s] = "reading"
    /\ streamSubs[t] # {}
    /\ streamSubs' = [streamSubs EXCEPT ![t] = left]
    /\ streamOwners' = [streamOwners EXCEPT ![t] = IF left = {} THEN NoNode ELSE @]
    /\ UNCHANGED <<sessionVars, request, wire, pc, reconnects, lost>>

-----------------------------------------------------------------------------
(* DisconnectSession, deferred by HandleWebSocket                          *)

\* The session this goroutine ends: its own, by pointer.
\* (mutant: the session the map now has for the node, as Disconnect(nodeID) finds it)
EndedByNode(s) == sessions[owner[s]]
Ended(s) == s

checkSelf(s) ==
    /\ pc[s] = "checkSelf"
    /\ Goto(s, IF Ended(s) # NoSession /\ state[Ended(s)] = "connected" THEN "closeSelf" ELSE "done")
    /\ UNCHANGED <<sessionVars, streamVars, wire, reconnects, lost>>

\* Close; the connection has already failed.
closeSelf(s) ==
    /\ pc[s] = "closeSelf"
    /\ Close(s)
    /\ Goto(s, "markSelf")
    /\ UNCHANGED <<sessionVars, streamVars, reconnects, lost>>

markSelf(s) ==
    /\ pc[s] = "markSelf"
    /\ markDisconnected(Ended(s))
    /\ Goto(s, "gone")
    /\ UNCHANGED <<sessions, owner, old, streamVars, wire, reconnects, lost>>

emitDisconnected(s) ==
    /\ pc[s] = "gone"
    /\ AnnounceLoss(s)
    /\ Goto(s, "done")
    /\ UNCHANGED <<sessionVars, wire, request, reconnects>>

\* EvictStale: which disconnected sessions are old enough is left open.
\* (mutant: looks at the age of the connection only)
StaleAny  == {n \in Nodes : sessions[n] # NoSession}
Stale     == {n \in Nodes : sessions[n] # NoSession /\ state[sessions[n]] = "disconnected"}
EvictStale(N) ==
    /\ N # {}
    /\ sessions' = [n \in Nodes |-> IF n \in N THEN NoSession ELSE sessions[n]]
    /\ UNCHANGED <<owner, state, old, streamVars, wire, pc, reconnects, lost>>

-----------------------------------------------------------------------------
\* What HandleWebSocket does on its own, without a message and without the network.
Step(s) ==
    \/ checkOld(s) \/ closeOld(s) \/ markOld(s) \/ emitReplaced(s) \/ emitConnected(s)
    \/ readFails(s) \/ addStreamSub(s)
    \/ checkSelf(s) \/ closeSelf(s) \/ markSelf(s) \/ emitDisconnected(s)

Message(s) ==
    \/ \E t \in Streams, m \in Nodes : streamRequest(s, t, m)
    \/ \E t \in Streams : removeStreamSub(s, t)

Next ==
    \/ \E s \in Sessions, n \in Nodes : Register(s, n)
    \/ \E s \in Sessions : Step(s) \/ Message(s) \/ ConnectionFails(s)
    \/ \E n \in Nodes : HandleNodeReconnect(n)
    \/ \E N \in SUBSET Stale : EvictStale(N)

Spec == Init /\ [][Next]_vars

\* Goroutines run.  Nothing is assumed of daemons, the network or the eviction loop.
\* Strong fairness for the failing read: a peer that keeps sending cannot keep a closed
\* connection readable, the model only lets it because messages are not queued.
Fairness ==
    /\ \A s \in Sessions : WF_vars(Step(s)) /\ SF_vars(readFails(s))
    /\ \A n \in Nodes : WF_vars(HandleNodeReconnect(n))

FairSpec == Spec /\ Fairness

-----------------------------------------------------------------------------
(* Properties                                                              *)

Places == {"start", "checkOld", "closeOld", "markOld", "replaced", "announce", "reading",
           "subscribe", "checkSelf", "closeSelf", "markSelf", "gone", "done"}

\* Every field has its type, and a goroutine that ends the old session has one to end.
TypeOK ==
    /\ sessions \in [Nodes -> Sessions \union {NoSession}]
    /\ owner \in [Sessions -> Nodes \union {NoNode}]
    /\ state \in [Sessions -> {"none", "connected", "disconnected"}]
    /\ wire \in [Sessions -> BOOLEAN]
    /\ pc \in [Sessions -> Places]
    /\ old \in [Sessions -> Sessions \union {NoSession}]
    /\ request \in [Sessions -> SUBSET Streams]
    /\ reconnects \in [Nodes -> Nat]
    /\ streamSubs \in [Streams -> SUBSET Nodes]
    /\ streamOwners \in [Streams -> Nodes \union {NoNode}]
    /\ lost \in [Sessions -> Nat]

\* Who is about to mark x disconnected and announce it.
Ender(h, x) ==
    \/ pc[h] \in {"checkOld", "closeOld", "markOld", "replaced"} /\ old[h] = x
    \/ pc[h] \in {"checkSelf", "closeSelf", "markSelf", "gone"} /\ h = x

\* session.go on the double-disconnect race: a goroutine that ends an old session "cannot
\* corrupt the new live session".  The session a node is reached through goes offline only
\* because its own connection has failed, and by the goroutine that read from it.
OnlyItsOwnEndTakesANodeOffline ==
    [][\A n \in Nodes : IsOnline(n) /\ ~IsOnline(n)' =>
          /\ sessions'[n] = sessions[n]
          /\ pc[sessions[n]] = "markSelf" /\ ~wire[sessions[n]]]_vars

\* A connection the relay still reads from, and that no newer one has replaced, is the
\* node's session: the node is online, however old ends, replacements and evictions interleave.
ReachedThroughItsConnection ==
    \A s \in Sessions :
        pc[s] \in {"announce", "reading", "subscribe"} =>
            \/ sessions[owner[s]] = s /\ state[s] = "connected"
            \/ \E h \in Sessions : old[h] = s

\* A session that was replaced but still looks connected has somebody who will end it.
ReplacedSessionsAreEnded ==
    \A s \in Sessions :
        state[s] = "connected" /\ sessions[owner[s]] # s => \E h \in Sessions : Ender(h, s)

\* The loss of a session is never swallowed: it was announced, or the goroutine that marked
\* the session is about to announce it.  The queue's retries depend on it.
LossIsAnnounced ==
    \A s \in Sessions :
        state[s] = "disconnected" =>
            \/ lost[s] > 0
            \/ \E h \in Sessions : pc[h] \in {"replaced", "gone"} /\ Ender(h, s)

\* An owner entry exists only for a stream with subscribers or one being subscribed to.
OwnersNotLeaked ==
    \A t \in Streams :
        streamOwners[t] # NoNode =>
            streamSubs[t] # {} \/ \E s \in Sessions : t \in request[s]

\* SessionManager implements what the job queue relies on: a node comes online or goes
\* offline only together with an announcement that is then pending, EvictStale takes no node
\* offline, and no announcement stays pending for ever.  That a pending loss is handed over
\* rather than dropped is LossIsAnnounced.
Announcing(n) == {s \in Sessions : owner[s] = n /\
                     pc[s] \in {"checkOld", "closeOld", "markOld", "replaced", "announce"}}
Losing(n)     == {s \in Sessions : owner[s] = n /\ pc[s] \in {"replaced", "gone"}}

Transport == INSTANCE NodeTransport
    WITH online <- [n \in Nodes |-> IsOnline(n)],
         ups    <- [n \in Nodes |-> reconnects[n] + Cardinality(Announcing(n))],
         downs  <- [n \in Nodes |-> Cardinality(Losing(n))],
         MaxPendingEvents <- Cardinality(Sessions)

ImplementsTransport == Transport!FairSpec

\* At most one session of a node stays connected.
ReplacedSessionsEnd ==
    \A s \in Sessions :
        state[s] = "connected" /\ sessions[owner[s]] # s ~> state[s] = "disconnected"
=============================================================================
