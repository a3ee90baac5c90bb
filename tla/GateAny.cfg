SPECIFICATION Spec
CONSTANTS
  Turn = 12
  MaxRate = 1
  MinDt = 1
  Slack = 1
  Wrap = 1
  ResyncAfter = 3
  Gaps <- AnyGap
  NoReport = NoReport
  MaxReports = 5
INVARIANTS TypeOK EveryReportAccounted TrackerFollowsGate HeldIsNews
PROPERTIES GateIsFilter
