----------------------------- MODULE MCJobQueue -----------------------------
(* Instances of JobQueue for TLC.                                          *)
EXTENDS JobQueue, TLC

GoroutineSymmetry == Permutations(Goroutines)
=============================================================================
