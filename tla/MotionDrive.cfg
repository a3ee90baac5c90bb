SPECIFICATION Spec
CONSTANTS
  LinearSlope = 30
  NotANumber = NotANumber
  NoMap = NoMap
  Parameters <- SomeParameters
  Velocities <- SomeVelocities
  Percents <- MapPercents
  Moves = {m1}
  NoMove = NoMove
  NoPercent = NoPercent
  ControllerModes = {"POSITION", "VELOCITY"}
  Requests <- MoveCalls
  MaxQueue = 2
  MaxFailures = 1
  MaxLines = 1
INVARIANTS TypeOK RecordNeverLow BenchRecordTrue LetGoIsStill IdleTelemetryIsStill BenchYieldsToController ActiveMapSteersTrue
PROPERTIES NoMotionBehindWrite NoWriteUnderBenchDrive VelocityStartsStill
