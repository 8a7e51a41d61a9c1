---------------------------- MODULE NodeTransport ---------------------------
(***************************************************************************)
(* What the job queue may rely on about the nodes' connections: jobqueue's *)
(* NodeTransport interface together with the session events that           *)
(* NewServer forwards to the queue.                                        *)
(*                                                                         *)
(* A node goes online and offline; each change is announced later.  A      *)
(* connection that is replaced by a newer one is announced as lost         *)
(* although the node never was offline, and a connection may be announced  *)
(* as lost twice.  JobQueue is written against this module and             *)
(* RelaySessions implements it.                                            *)
(***************************************************************************)
EXTENDS Naturals

CONSTANTS Nodes,
          MaxPendingEvents  \* bound: undelivered announcements of one kind per node

VARIABLES online,  \* what NodeTransport.IsOnline answers
          ups,     \* "connected" events not yet handed to the queue
          downs    \* "disconnected" and "replaced" events not yet handed to the queue

vars == <<online, ups, downs>>

Init ==
    /\ online = [n \in Nodes |-> FALSE]
    /\ ups = [n \in Nodes |-> 0]
    /\ downs = [n \in Nodes |-> 0]

NodeUp(n) ==
    /\ ups[n] < MaxPendingEvents
    /\ online' = [online EXCEPT ![n] = TRUE]
    /\ ups' = [ups EXCEPT ![n] = @ + 1]
    /\ UNCHANGED downs

NodeDown(n) ==
    /\ online[n]
    /\ downs[n] < MaxPendingEvents
    /\ online' = [online EXCEPT ![n] = FALSE]
    /\ downs' = [downs EXCEPT ![n] = @ + 1]
    /\ UNCHANGED ups

OldSessionDown(n) ==
    /\ downs[n] < MaxPendingEvents
    /\ downs' = [downs EXCEPT ![n] = @ + 1]
    /\ UNCHANGED <<online, ups>>

TakeUp(n) ==
    /\ ups[n] > 0
    /\ ups' = [ups EXCEPT ![n] = @ - 1]
    /\ UNCHANGED <<online, downs>>

TakeDown(n) ==
    /\ downs[n] > 0
    /\ downs' = [downs EXCEPT ![n] = @ - 1]
    /\ UNCHANGED <<online, ups>>

Next ==
    \E n \in Nodes :
        NodeUp(n) \/ NodeDown(n) \/ OldSessionDown(n) \/ TakeUp(n) \/ TakeDown(n)

Spec == Init /\ [][Next]_vars

\* Announcements do not get lost.
FairSpec == Spec /\ \A n \in Nodes : WF_vars(TakeUp(n)) /\ WF_vars(TakeDown(n))
=============================================================================
