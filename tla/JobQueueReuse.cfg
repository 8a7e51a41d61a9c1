SPECIFICATION Spec
CONSTANTS
  RunIDs = {r1}
  Nodes = {n1}
  Bodies = {b1}
  Goroutines = {g1, g2}
  MaxRetries = 2
  MaxIncarnations = 2
  MaxPendingEvents = 1
SYMMETRY GoroutineSymmetry
INVARIANTS
  NoStaleTimer
  OfflineAnswerIsFinal
