SPECIFICATION FairSpec
CONSTANTS
  InitialCapacity = 2
  GrownSlots = 4
  MaxPid = 5
  Batch = 2
  MaxLeaks = 2
  MaxEvents = 2
  InitialStates = {"target", "hidden", "unborn"}
CHECK_DEADLOCK FALSE
INVARIANT TypeOK
INVARIANT NothingForgotten
INVARIANT FailsOnlyCrowded
INVARIANT HuntInBounds
PROPERTY KillerReturns
