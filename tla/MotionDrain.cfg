SPECIFICATION FairSpec
CONSTANTS
  Percents <- OneSpeed
  Moves = {}
  NoMove = NoMove
  NoPercent = NoPercent
  ControllerModes = {"VELOCITY"}
  Requests <- TimerCalls
  MaxQueue = 3
  MaxFailures = 0
  MaxLines = 0
PROPERTIES SettingsWritesProceed
