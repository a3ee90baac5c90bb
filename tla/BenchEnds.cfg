SPECIFICATION FairSpec
CONSTANTS
  Percents <- OnePercent
  Starters = {s1}
  Move = Move
  MoveSweep = TRUE
  ForcedExit = FALSE
  MaxSteps = 1
  MaxFaults = 2
CHECK_DEADLOCK FALSE
PROPERTIES SweepEnds StoppingStopsDome
