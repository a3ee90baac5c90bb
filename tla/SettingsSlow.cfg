SPECIFICATION FairSpec
CONSTANTS
  NoValue = NoValue
  Settings <- MotorSettings
  Saved <- SavedSettings
  RawSettings <- RawMotor
  Calls <- OperatorWants
  HomeHere = 90
  Initial <- SetAll
  NoWrite = NoWrite
  NoCounters = NoCounters
  Faults = {"slow"}
  MaxEvents = 1
  CountRefreshes = TRUE
  MaxQueue = 3
PROPERTIES SettingsAreWrites
