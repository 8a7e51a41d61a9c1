-------------------------- MODULE MCScheduledRuns --------------------------
(* Small instances of ScheduledRuns for TLC. *)
EXTENDS ScheduledRuns, TLC

CONSTANTS s1, s2

RunSymmetry == Permutations({s1, s2})

===========================================================================
