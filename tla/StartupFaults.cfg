SPECIFICATION FairSpec
CONSTANTS
  AutoMode = TRUE
  HomeMode = FALSE
  MaxRetries = 1
  Leftovers <- LateAnswers
  NoConfig = NoConfig
  Devices <- SomeDevices
  Rates <- BaudRates
  WantedBaud = 9600
  MaxFailures = 1
  MaxLost = 1
CHECK_DEADLOCK FALSE
INVARIANTS LinkAgrees CompleteMeansSafe CompleteMeansConfigured FailureHasReason
PROPERTIES StartupEnds
