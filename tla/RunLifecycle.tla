---------------------------- MODULE RunLifecycle ----------------------------
(***************************************************************************)
(* What the relay promises about the runs it is given, without timers,     *)
(* goroutines, sessions or metrics.                                        *)
(*                                                                         *)
(* A run is queued, offered to its node a bounded number of times, at most *)
(* once accepted, and ends with exactly one outcome.  Several runs may     *)
(* move in one step: a disconnect settles all the runs of a node.          *)
(***************************************************************************)
EXTENDS Naturals

CONSTANTS Runs, MaxRetries

VARIABLES phase,  \* where each run is
          tries   \* how many times it was offered

Outcomes == {"completed", "failed", "rejected", "skipped"}
Phases   == {"unknown", "queued", "offered", "accepted"} \union Outcomes

Move(o, from, to) == phase[o] = from /\ phase'[o] = to
Keep(o)           == tries'[o] = tries[o]

Enqueue(o) == Move(o, "unknown", "queued") /\ Keep(o)

\* MaxRetries bounds the offers; the first one is made whatever MaxRetries is.
Offer(o) ==
    /\ Move(o, "queued", "offered")
    /\ tries[o] = 0 \/ tries[o] < MaxRetries
    /\ tries'[o] = tries[o] + 1

Requeue(o) == Move(o, "offered", "queued") /\ tries[o] < MaxRetries /\ Keep(o)

Accept(o) == Move(o, "offered", "accepted") /\ Keep(o)

\* Refused by the node, or found unreachable before the node answered.
Reject(o) == Move(o, "offered", "rejected") /\ Keep(o)
Skip(o)   == /\ \/ Move(o, "queued", "skipped") /\ tries[o] = 0
                \/ Move(o, "offered", "skipped")
             /\ Keep(o)

\* Given up on: every try was used, or the accepted run was lost or failed.
Fail(o) ==
    /\ \/ Move(o, "queued", "failed") /\ tries[o] >= MaxRetries
       \/ Move(o, "offered", "failed") /\ tries[o] >= MaxRetries
       \/ Move(o, "accepted", "failed")
    /\ Keep(o)

Complete(o) == Move(o, "accepted", "completed") /\ Keep(o)

RunStep(o) ==
    \/ Enqueue(o) \/ Offer(o) \/ Requeue(o) \/ Accept(o)
    \/ Reject(o) \/ Skip(o) \/ Fail(o) \/ Complete(o)

Init == phase = [o \in Runs |-> "unknown"] /\ tries = [o \in Runs |-> 0]

Next ==
    /\ phase' \in [Runs -> Phases]
    /\ tries' \in [Runs -> Nat]
    /\ \A o \in Runs : RunStep(o) \/ (phase'[o] = phase[o] /\ Keep(o))

Spec == Init /\ [][Next]_<<phase, tries>>
=============================================================================
