SPECIFICATION FairSpec
CONSTANTS
  NoValue = NoValue
  Settings <- MotorSettings
  Saved <- SavedSettings
  RawSettings <- RawMotor
  Calls <- OperatorWants
  HomeHere = 90
  Initial <- SetAll
  NoWrite = NoWrite
  NoCounters = NoCounters
  Faults = {"send", "command", "line", "refresh", "partial", "late", "stop", "silent"}
  MaxEvents = 1
  CountRefreshes = TRUE
  MaxQueue = 3
INVARIANTS RestoredIsTrue WrittenIsReadBack
PROPERTIES SettingsAreWrites ParamsFollowDevice
