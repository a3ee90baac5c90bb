SPECIFICATION Spec
CONSTANTS
  Percents <- OneSpeed
  Moves = {m1, m2}
  NoMove = NoMove
  NoPercent = NoPercent
  ControllerModes = {}
  Requests = {"move"}
  MaxQueue = 2
  MaxFailures = 0
  MaxLines = 1
INVARIANT MoveIsOutstanding
