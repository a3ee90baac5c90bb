SPECIFICATION FairSpec
CONSTANTS
  NoValue = NoValue
  Settings <- MotorSettings
  Saved <- SavedSettings
  RawSettings <- RawMotor
  Calls = {}
  HomeHere = 90
  Initial <- SetAll
  NoWrite = NoWrite
  NoCounters = NoCounters
  Faults = {"late", "send"}
  MaxEvents = 2
  CountRefreshes = TRUE
  MaxQueue = 3
INVARIANTS RestoredWhateverPends
