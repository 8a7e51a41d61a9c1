--------------------------- MODULE MCManualRuns ---------------------------
(* A small instance of ManualRuns for TLC; no symmetry, as it checks liveness. *)
EXTENDS ManualRuns

CONSTANTS m1, c1, c2, d1, d2, d3

===========================================================================
