-------------------------- MODULE CompletionOwner --------------------------
(***************************************************************************)
(* Delivery of sub-agent completions to the parent session                 *)
(* (pi-subagents delivery/completionOwner.ts), with the session events of  *)
(* extension.ts: a session that shuts down closes its owner, one that      *)
(* starts gets a new owner, which shares nothing with the one it replaces. *)
(*                                                                         *)
(* Sending is a synchronous call into Pi that may call back before it      *)
(* returns, so drain is modelled visit by visit: between visits nothing    *)
(* else runs, during a send only the calls Pi may make from it.            *)
(***************************************************************************)
EXTENDS Integers, FiniteSets

CONSTANTS
    MaxCompletions,   \* bound on the runs enrolled in one lifetime
    Retries           \* the length of RETRY_DELAYS_MS

ASSUME OwnerAssumption ==
    MaxCompletions \in Nat \ {0} /\ Retries \in Nat

VARIABLES
    closed,      \* the current owner is closed
    entries,     \* entries[r]: the delivery entry of the current owner
    draining,
    cursor,      \* the last entry the loop of drain visited
    sending,     \* the run whose send is under way, or NoSend
    accepted     \* accepted[r]: sends for that run Pi took

ownerVars == <<closed, entries, draining, cursor, sending, accepted>>

Completions == 1..MaxCompletions   \* of runs in the order of enrolment, that of the Map
NoSend      == 0
States      == {"absent", "enrolled", "pending", "sending", "accepted"}

Absent == [state |-> "absent", retries |-> 0, timer |-> FALSE, exhausted |-> FALSE]

Empty == [r \in Completions |-> Absent]

OwnerInit ==
    /\ closed = FALSE
    /\ entries = Empty
    /\ draining = FALSE
    /\ cursor = 0
    /\ sending = NoSend
    /\ accepted = [r \in Completions |-> 0]

\* A new macrotask may begin, or Pi calls back from inside a send.
Callable == ~draining \/ sending # NoSend

\* What a visit of drain sends.
Ready(r) == entries[r].state = "pending" /\ ~entries[r].timer /\ ~entries[r].exhausted

\* A call of drain: it returns at once when the loop is running already.
ownerDrain ==
    /\ draining' = TRUE
    /\ cursor' = IF draining THEN cursor ELSE 0

---------------------------------------------------------------------------

\* onAdmitted of a background run or a command.
enroll(r) ==
    /\ Callable
    /\ ~closed
    /\ entries[r].state = "absent"
    /\ \A q \in Completions : q < r => entries[q].state # "absent"
    /\ entries' = [entries EXCEPT ![r].state = "enrolled"]
    /\ UNCHANGED <<closed, draining, cursor, sending, accepted>>

\* (mutant: a duplicate event is taken after the delivery)
AwaitingAgain == {"enrolled", "accepted"}

\* The states in which an entry takes the terminal event.
Awaiting == {"enrolled"}

\* The terminal event of a run of this lifetime, or a duplicate of it, which
\* finds the entry in another state.
terminal(r) ==
    /\ Callable
    /\ ~closed
    /\ entries[r].state \in Awaiting
    /\ entries' = [entries EXCEPT ![r].state = "pending"]
    /\ ownerDrain
    /\ UNCHANGED <<closed, sending, accepted>>

\* The next visit of the loop of drain: it sends the next entry that is ready.
visit(r) ==
    /\ draining
    /\ sending = NoSend
    /\ r > cursor
    /\ Ready(r)
    /\ \A q \in Completions : cursor < q /\ q < r => ~Ready(q)
    /\ entries' = [entries EXCEPT ![r].state = "sending"]
    /\ cursor' = r
    /\ sending' = r
    /\ UNCHANGED <<closed, draining, accepted>>

\* (mutant: the loop runs once)
endLoopOnce ==
    /\ draining
    /\ sending = NoSend
    /\ \A r \in Completions : r > cursor => ~Ready(r)
    /\ draining' = FALSE
    /\ cursor' = 0
    /\ UNCHANGED <<closed, entries, sending, accepted>>

\* The loop is over; entries that became ready behind it start another one.
endLoop ==
    /\ draining
    /\ sending = NoSend
    /\ \A r \in Completions : r > cursor => ~Ready(r)
    /\ draining' = \E r \in Completions : Ready(r)
    /\ cursor' = 0
    /\ UNCHANGED <<closed, entries, sending, accepted>>

\* pi.sendMessage returned.
sendReturns ==
    /\ sending # NoSend
    /\ accepted' = [accepted EXCEPT ![sending] = @ + 1]
    /\ entries' = IF closed THEN entries ELSE [entries EXCEPT ![sending].state = "accepted"]
    /\ sending' = NoSend
    /\ UNCHANGED <<closed, draining, cursor>>

\* (mutant: a retry at once, without a timer and without end)
FailedAtOnce(e) == [e EXCEPT !.state = "pending"]

\* The entry after a send that threw.
Failed(e) ==
    IF e.retries < Retries
    THEN [e EXCEPT !.state = "pending", !.retries = @ + 1, !.timer = TRUE]
    ELSE [e EXCEPT !.state = "pending", !.retries = @ + 1, !.exhausted = TRUE]

\* pi.sendMessage threw.
sendThrows ==
    /\ sending # NoSend
    /\ entries' = IF closed THEN entries ELSE [entries EXCEPT ![sending] = Failed(@)]
    /\ sending' = NoSend
    /\ UNCHANGED <<closed, draining, cursor, accepted>>

\* A retry timer fires; close clears the timers of the entries.
retryTimer(r) ==
    /\ ~draining
    /\ entries[r].timer
    /\ entries' = [entries EXCEPT ![r].timer = FALSE]
    /\ ownerDrain
    /\ UNCHANGED <<closed, sending, accepted>>

\* session_shutdown: owner.close().
sessionShutdown ==
    /\ Callable
    /\ closed' = TRUE
    /\ entries' = Empty
    /\ UNCHANGED <<draining, cursor, sending, accepted>>

\* session_start with another session, or after a shutdown: the old owner is
\* closed and a new one, with its own entries and no timers, takes its place.
sessionStart ==
    /\ ~draining
    /\ closed' = FALSE
    /\ entries' = Empty
    /\ accepted' = [r \in Completions |-> 0]
    /\ UNCHANGED <<draining, cursor, sending>>

OwnerNext ==
    \/ \E r \in Completions : enroll(r) \/ terminal(r) \/ visit(r) \/ retryTimer(r)
    \/ endLoop \/ sendReturns \/ sendThrows \/ sessionShutdown \/ sessionStart

OwnerSpec == OwnerInit /\ [][OwnerNext]_ownerVars

\* A loop runs to its end, a synchronous call returns or throws, and the timers
\* of the process fire.
OwnerFairness ==
    /\ WF_ownerVars(endLoop \/ \E r \in Completions : visit(r))
    /\ WF_ownerVars(sendReturns \/ sendThrows)
    /\ \A r \in Completions : WF_ownerVars(retryTimer(r))

OwnerFairSpec == OwnerSpec /\ OwnerFairness

---------------------------------------------------------------------------

\* Entries, the loop and the send under way have their types; the retries of an
\* entry are bounded by RETRY_DELAYS_MS.
OwnerTypeOK ==
    /\ closed \in BOOLEAN
    /\ entries \in [Completions -> [state : States, retries : 0..(Retries + 1),
                                    timer : BOOLEAN, exhausted : BOOLEAN]]
    /\ draining \in BOOLEAN
    /\ cursor \in 0..MaxCompletions
    /\ sending \in Completions \cup {NoSend}
    /\ accepted \in [Completions -> Nat]

\* Pi takes the completion of a run at most once in a lifetime, and the entry of
\* an open owner says so exactly: through retries, duplicate events, and events
\* and shutdowns that Pi delivers from inside a send.
AcceptedOnce ==
    \A r \in Completions :
        /\ accepted[r] <= 1
        /\ ~closed => (accepted[r] = 1 <=> entries[r].state = "accepted")

\* No completion is forgotten: between macrotasks a terminal run that Pi has not
\* taken waits for a retry timer or has used up its retries, all of them. A
\* terminal event that arrives from inside a send, for an entry the loop has
\* passed, is not left behind.
NothingForgotten ==
    ~draining => \A r \in Completions :
        entries[r].state \in {"pending", "sending"} =>
            IF entries[r].exhausted THEN entries[r].retries = Retries + 1 ELSE entries[r].timer

\* The completion of a terminal run ends up with Pi or exhausted, unless its
\* session ends first.
Delivered ==
    \A r \in Completions :
        entries[r].state = "pending" ~>
            \/ entries[r].state \in {"accepted", "absent"}
            \/ entries[r].exhausted

===========================================================================
