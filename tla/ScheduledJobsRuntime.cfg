CONSTANTS
  Jobs = {j1, j2}
  Instants = {1, 2}
  MaxTime = 2
  Cutoff = 0
  ReconcileInterval = 2
  MaxChanges = 1
SPECIFICATION Spec
CHECK_DEADLOCK FALSE
SYMMETRY JobSymmetry
INVARIANTS TimersFollowSchedule ClaimedIsRun CloseReturns RefreshIsComing
