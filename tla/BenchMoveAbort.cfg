SPECIFICATION Spec
CONSTANTS
  Percents <- NoPercents
  Starters = {s1}
  Move = Move
  MoveSweep = TRUE
  ForcedExit = FALSE
  MaxSteps = 1
  MaxFaults = 0
CHECK_DEADLOCK FALSE
PROPERTIES ClaimOutlivesMove
