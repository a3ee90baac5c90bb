SPECIFICATION Spec
CONSTANTS
  Percents <- OnePercent
  Starters = {s1, s2}
  Move = Move
  MoveSweep = TRUE
  ForcedExit = TRUE
  MaxSteps = 1
  MaxFaults = 1
CHECK_DEADLOCK FALSE
INVARIANTS StopIsLast HoldIsKeptAlive
PROPERTIES OneWorker
