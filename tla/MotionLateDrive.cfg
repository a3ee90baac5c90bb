SPECIFICATION Spec
CONSTANTS
  Percents <- OneSpeed
  Moves = {}
  NoMove = NoMove
  NoPercent = NoPercent
  ControllerModes = {}
  Requests = {"drive", "deactivate"}
  MaxQueue = 2
  MaxFailures = 0
  MaxLines = 0
PROPERTY DriveAcceptedWhileActive
