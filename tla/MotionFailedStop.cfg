SPECIFICATION Spec
CONSTANTS
  Percents <- OneSpeed
  Moves = {}
  NoMove = NoMove
  NoPercent = NoPercent
  ControllerModes = {"VELOCITY"}
  Requests = {"deactivate", "switch"}
  MaxQueue = 2
  MaxFailures = 1
  MaxLines = 0
INVARIANT NeverLeftTurning
