SPECIFICATION Spec
CONSTANTS
  Percents <- OneSpeed
  Moves = {m1}
  NoMove = NoMove
  NoPercent = NoPercent
  ControllerModes = {"VELOCITY"}
  Requests = {"drive", "move", "switch"}
  MaxQueue = 2
  MaxFailures = 1
  MaxLines = 0
INVARIANT MoveClaimIsBench
