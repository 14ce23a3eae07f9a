SPECIFICATION Spec
CONSTANTS
  Instance = {i1}
  Faults = {}
  MaxHeld = 2
  MaxThreads = 1
INVARIANT ReleasedIsFreed
CHECK_DEADLOCK FALSE
