SPECIFICATION Spec
CONSTANTS
  Percents <- OneSpeed
  Moves = {}
  NoMove = NoMove
  NoPercent = NoPercent
  ControllerModes = {"VELOCITY"}
  Requests = {"switch", "settings"}
  MaxQueue = 2
  MaxFailures = 0
  MaxLines = 0
PROPERTY NoWriteWhileRotating
