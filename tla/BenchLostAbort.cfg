SPECIFICATION Spec
CONSTANTS
  Percents <- OnePercent
  Starters = {s1}
  Move = Move
  MoveSweep = FALSE
  ForcedExit = FALSE
  MaxSteps = 1
  MaxFaults = 0
CHECK_DEADLOCK FALSE
INVARIANTS AbortIsKept
