SPECIFICATION FairSpec
CONSTANTS
  Percents <- OneSpeed
  Moves = {}
  NoMove = NoMove
  NoPercent = NoPercent
  ControllerModes = {"VELOCITY"}
  Requests <- WatchdogCalls
  MaxQueue = 2
  MaxFailures = 2
  MaxLines = 0
PROPERTIES WatchdogStops AcceptedDriveIsSent
