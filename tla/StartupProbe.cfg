SPECIFICATION Spec
CONSTANTS
  AutoMode = TRUE
  HomeMode = FALSE
  MaxRetries = 1
  Leftovers <- Nothing
  NoConfig = NoConfig
  Devices <- SomeDevices
  Rates <- BaudRates
  WantedBaud = 9600
  MaxFailures = 0
  MaxLost = 0
CHECK_DEADLOCK FALSE
PROPERTIES ProbeMeansExecuted
