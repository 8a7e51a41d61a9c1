------------------------------ MODULE DaemonRpc ------------------------------
(***************************************************************************)
(* The desktop's connection to the daemon (apps/desktop renderer/rpc):     *)
(* the socket session that opens and replaces the WebSocket, and the       *)
(* client that correlates requests and restores subscriptions on it.       *)
(*                                                                         *)
(* An action is one macrotask with its microtasks: a call, a timer, or an  *)
(* event of a socket. What happens to a socket before the renderer is told *)
(* of it (a closing handshake) is visible only in its readyState.          *)
(***************************************************************************)
EXTENDS Integers

CONSTANTS
    Requests,     \* calls of request
    Subs,         \* subscriptions that are registered with the daemon
    MaxSockets    \* bound on the sockets that ever open

ASSUME SocketsAssumption == MaxSockets \in Nat \ {0}
ASSUME CallsAssumption == Requests \cap Subs = {}

VARIABLES
    sockets,             \* readyState of each socket, "none" before it opens
    socket,              \* the current one, or NoSocket
    socketOpenPromise,   \* an open is under way
    reconnectTimer,
    connectionStatus,    \* as emitted last
    needsSubscriptionRestore,
    disposed,
    calls,               \* calls[c]: a request, or the registration of a subscription
    subscriptions,       \* subscriptionsById
    swapped              \* history: the current socket took the place of one
                         \* that was never invalidated

sessionVars == <<sockets, socket, socketOpenPromise, reconnectTimer, swapped>>
clientVars  == <<connectionStatus, needsSubscriptionRestore, disposed, calls, subscriptions>>
vars        == <<sessionVars, clientVars>>

Sockets  == 1..MaxSockets
NoSocket == 0
Calls    == Requests \cup Subs
Idle     == [pc |-> "idle", socket |-> NoSocket]

Init ==
    /\ sockets = [k \in Sockets |-> "none"]
    /\ socket = NoSocket
    /\ socketOpenPromise = FALSE
    /\ reconnectTimer = FALSE
    /\ connectionStatus = "connecting"
    /\ needsSubscriptionRestore = FALSE
    /\ disposed = FALSE
    /\ calls = [c \in Calls |-> Idle]
    /\ subscriptions = {}
    /\ swapped = FALSE

IsOpen == socket # NoSocket /\ sockets[socket] = "open"

\* ensureSocket without an open socket: the open under way is shared.
beginOpen ==
    /\ socketOpenPromise' = TRUE
    /\ connectionStatus' = IF socketOpenPromise THEN connectionStatus ELSE "connecting"

\* rejectPendingRequestsForSocket, on the calls cs.
Rejected(cs, k) ==
    [c \in Calls |-> IF cs[c].pc = "sent" /\ cs[c].socket = k
                     THEN [cs[c] EXCEPT !.pc = "failed"] ELSE cs[c]]

\* invalidateSocket of the current socket: its calls are rejected, it is closed,
\* and scheduleReconnect opens another one unless an open is under way.
invalidateCurrent(cs) ==
    /\ socket' = NoSocket
    /\ sockets' = [sockets EXCEPT ![socket] = "closed"]
    /\ calls' = Rejected(cs, socket)
    /\ needsSubscriptionRestore' = TRUE
    /\ socketOpenPromise' = TRUE
    /\ connectionStatus' = IF socketOpenPromise THEN "disconnected" ELSE "connecting"
    /\ swapped' = FALSE
    /\ UNCHANGED <<reconnectTimer, disposed, subscriptions>>

---------------------------------------------------------------------------
(* The client's calls. *)

\* A request goes out on the open socket, or waits for one.
send(c) ==
    IF IsOpen
    THEN /\ calls' = [calls EXCEPT ![c] = [pc |-> "sent", socket |-> socket]]
         /\ UNCHANGED <<socketOpenPromise, connectionStatus>>
    ELSE /\ calls' = [calls EXCEPT ![c] = [pc |-> "waiting", socket |-> NoSocket]]
         /\ beginOpen

request(c) ==
    /\ calls[c].pc = "idle"
    /\ IF disposed
       THEN /\ calls' = [calls EXCEPT ![c].pc = "failed"]
            /\ UNCHANGED <<socketOpenPromise, connectionStatus>>
       ELSE send(c)
    /\ UNCHANGED <<sockets, socket, reconnectTimer, swapped, needsSubscriptionRestore, disposed, subscriptions>>

\* subscribe; the answer to its request is ignored.
subscribe(s) ==
    /\ s \notin subscriptions
    /\ calls[s].pc \notin {"waiting", "sent"}
    /\ ~disposed
    /\ subscriptions' = subscriptions \cup {s}
    /\ send(s)
    /\ UNCHANGED <<sockets, socket, reconnectTimer, swapped, needsSubscriptionRestore, disposed>>

unsubscribe(s) ==
    /\ s \in subscriptions
    /\ subscriptions' = subscriptions \ {s}
    /\ UNCHANGED <<sessionVars, connectionStatus, needsSubscriptionRestore, disposed, calls>>

\* The client is disposed: pending calls are rejected, those that wait for the
\* socket when its open settles.
dispose ==
    /\ ~disposed
    /\ disposed' = TRUE
    /\ calls' = [c \in Calls |-> IF calls[c].pc = "sent" THEN [calls[c] EXCEPT !.pc = "failed"] ELSE calls[c]]
    /\ subscriptions' = {}
    /\ reconnectTimer' = FALSE
    /\ socket' = NoSocket
    /\ sockets' = IF socket = NoSocket THEN sockets ELSE [sockets EXCEPT ![socket] = "closed"]
    /\ swapped' = FALSE
    /\ UNCHANGED <<socketOpenPromise, connectionStatus, needsSubscriptionRestore>>

---------------------------------------------------------------------------
(* Answers, timers and events of sockets. *)

\* handleSocketMessage: a response is taken from the current socket only.
response(c, ok) ==
    /\ calls[c].pc = "sent"
    /\ calls[c].socket = socket
    /\ calls' = [calls EXCEPT ![c].pc = IF ok THEN "answered" ELSE "failed"]
    /\ UNCHANGED <<sessionVars, connectionStatus, needsSubscriptionRestore, disposed, subscriptions>>

\* (mutant: a timeout is ignored when the socket has been replaced)
requestTimeoutCurrent(c) ==
    /\ calls[c].pc = "sent"
    /\ calls[c].socket = socket
    /\ invalidateCurrent([calls EXCEPT ![c].pc = "failed"])

\* RPC_REQUEST_TIMEOUT, or a send that threw: the call is rejected and its
\* socket invalidated, which does nothing when another one has taken its place.
requestTimeout(c) ==
    /\ calls[c].pc = "sent"
    /\ LET cs == [calls EXCEPT ![c].pc = "failed"]
       IN  IF calls[c].socket = socket
           THEN invalidateCurrent(cs)
           ELSE calls' = cs /\ UNCHANGED <<sessionVars, connectionStatus, needsSubscriptionRestore,
                                           disposed, subscriptions>>

\* (mutant: nothing is restored)
RestoredNever == {}

\* The calls that are registered anew when status "connected" is emitted.
Restored == IF needsSubscriptionRestore THEN subscriptions ELSE {}

\* openSocket resolved: the socket is installed, subscriptions are restored
\* after a disconnect, and the calls that waited are sent on it.
opened(k) ==
    /\ socketOpenPromise
    /\ sockets[k] = "none"
    /\ \A j \in Sockets : j < k => sockets[j] # "none"
    /\ socketOpenPromise' = FALSE
    /\ IF disposed
       THEN /\ sockets' = [sockets EXCEPT ![k] = "closed"]
            /\ calls' = [c \in Calls |-> IF calls[c].pc = "waiting" THEN [calls[c] EXCEPT !.pc = "failed"] ELSE calls[c]]
            /\ UNCHANGED <<socket, swapped, connectionStatus, needsSubscriptionRestore>>
       ELSE /\ sockets' = [sockets EXCEPT ![k] = "open"]
            /\ socket' = k
            /\ swapped' = (socket # NoSocket)
            /\ connectionStatus' = "connected"
            /\ needsSubscriptionRestore' = FALSE
            /\ calls' = [c \in Calls |-> IF calls[c].pc = "waiting" \/ c \in Restored
                                         THEN [pc |-> "sent", socket |-> k] ELSE calls[c]]
    /\ UNCHANGED <<reconnectTimer, disposed, subscriptions>>

\* resumeReconnectIfNeeded
resumeReconnectIfNeeded == reconnectTimer \/ (~disposed /\ socket = NoSocket)

\* openSocket used up its retries: the calls that waited are rejected, and the
\* open is tried again after a delay.
openFailed ==
    /\ socketOpenPromise
    /\ socketOpenPromise' = FALSE
    /\ calls' = [c \in Calls |-> IF calls[c].pc = "waiting" THEN [calls[c] EXCEPT !.pc = "failed"] ELSE calls[c]]
    /\ connectionStatus' = IF disposed THEN connectionStatus ELSE "disconnected"
    /\ needsSubscriptionRestore' = (needsSubscriptionRestore \/ ~disposed)
    /\ reconnectTimer' = resumeReconnectIfNeeded
    /\ UNCHANGED <<sockets, socket, swapped, disposed, subscriptions>>

\* The daemon begins the closing handshake of the current socket; the renderer
\* sees it in readyState, the close event comes later.
closingHandshake ==
    /\ IsOpen
    /\ sockets' = [sockets EXCEPT ![socket] = "closing"]
    /\ UNCHANGED <<socket, socketOpenPromise, reconnectTimer, swapped, clientVars>>

\* The close or error event of a socket.
closeEvent(k) ==
    /\ sockets[k] \in {"open", "closing"}
    /\ IF socket = k
       THEN invalidateCurrent(calls)
       ELSE /\ sockets' = [sockets EXCEPT ![k] = "closed"]
            /\ UNCHANGED <<socket, socketOpenPromise, reconnectTimer, swapped, clientVars>>

\* The reconnect timer: scheduleReconnect, unless the socket is open again.
reconnect ==
    /\ reconnectTimer
    /\ reconnectTimer' = FALSE
    /\ IF IsOpen THEN UNCHANGED <<socketOpenPromise, connectionStatus>> ELSE beginOpen
    /\ UNCHANGED <<sockets, socket, swapped, needsSubscriptionRestore, disposed, calls, subscriptions>>

---------------------------------------------------------------------------

Next ==
    \/ \E c \in Requests : request(c)
    \/ \E s \in Subs : subscribe(s) \/ unsubscribe(s)
    \/ \E c \in Calls : requestTimeout(c) \/ \E ok \in BOOLEAN : response(c, ok)
    \/ \E k \in Sockets : opened(k) \/ closeEvent(k)
    \/ openFailed \/ closingHandshake \/ reconnect \/ dispose

Spec == Init /\ [][Next]_vars

\* Timers fire, and openSocket, whose retries are bounded, resolves or throws.
Fairness ==
    /\ \A c \in Calls : WF_vars(requestTimeout(c))
    /\ WF_vars(openFailed \/ \E k \in Sockets : opened(k))
    /\ WF_vars(reconnect)

FairSpec == Spec /\ Fairness

---------------------------------------------------------------------------

\* Sockets, timers, statuses and calls have their types.
TypeOK ==
    /\ sockets \in [Sockets -> {"none", "open", "closing", "closed"}]
    /\ socket \in Sockets \cup {NoSocket}
    /\ socketOpenPromise \in BOOLEAN
    /\ reconnectTimer \in BOOLEAN
    /\ connectionStatus \in {"connecting", "connected", "disconnected"}
    /\ needsSubscriptionRestore \in BOOLEAN
    /\ disposed \in BOOLEAN
    /\ calls \in [Calls -> [pc : {"idle", "waiting", "sent", "answered", "failed"},
                            socket : Sockets \cup {NoSocket}]]
    /\ subscriptions \subseteq Subs
    /\ swapped \in BOOLEAN

\* The client never gives up on the daemon: after any disconnect an open or the
\* timer that leads to one is under way until a socket is there again.
ReconnectUnderWay ==
    ~disposed /\ needsSubscriptionRestore =>
        socketOpenPromise \/ reconnectTimer \/ socket # NoSocket

\* The status shown to the user is true of the current socket.
StatusIsTrue ==
    ~disposed =>
        /\ connectionStatus = "connected" => socket # NoSocket
        /\ connectionStatus = "disconnected" => ~IsOpen

\* Nothing waits for ever: a call waits only for an open under way, and a
\* disposed client has no socket, no timer and no call on a socket.
NoDeadWait ==
    /\ \A c \in Calls : calls[c].pc = "waiting" => socketOpenPromise
    /\ disposed => socket = NoSocket /\ ~reconnectTimer /\ \A c \in Calls : calls[c].pc # "sent"

\* Every subscription has been registered with the daemon on the open socket, whichever way the earlier sockets ended.
SubscriptionsFollow ==
    IsOpen /\ ~disposed => \A s \in subscriptions : calls[s].socket = socket

\* The same, for a socket that replaced one the client had invalidated.
SubscriptionsRestored == ~swapped => SubscriptionsFollow

\* Every call ends with an answer or an error.
CallsSettle ==
    \A c \in Calls : (calls[c].pc \in {"waiting", "sent"}) ~> (calls[c].pc \notin {"waiting", "sent"})

=============================================================================
