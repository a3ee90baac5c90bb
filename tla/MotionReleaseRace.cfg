SPECIFICATION Spec
CONSTANTS
  Percents <- OneSpeed
  Moves = {m1}
  NoMove = NoMove
  NoPercent = NoPercent
  ControllerModes = {}
  Requests = {"move", "drive"}
  MaxQueue = 2
  MaxFailures = 0
  MaxLines = 0
PROPERTY NoDriveOverMove
