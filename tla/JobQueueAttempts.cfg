SPECIFICATION FairSpec
CONSTANTS
  RunIDs = {r1}
  Nodes = {n1}
  Bodies = {b1, b2}
  Goroutines = {g1, g2}
  MaxRetries = 2
  MaxIncarnations = 1
  MaxPendingEvents = 1
INVARIANTS
  NoStrandedRun
  GaugesExact
PROPERTIES
  FollowsLifecycle
  FinishesWhenOnline
