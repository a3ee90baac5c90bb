SPECIFICATION DomeSpec
CONSTANTS
  Turn = 25
  MaxRate = 1
  MinDt = 1
  Slack = 0
  Wrap = 1
  ResyncAfter = 3
  Gaps <- AnyGap
  NoReport = NoReport
  MaxReports = 6
  Apart = 2
  MaxAngle = 28
CHECK_DEADLOCK FALSE
INVARIANTS AngleIsTrue NeverResynced
