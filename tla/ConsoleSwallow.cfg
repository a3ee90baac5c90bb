SPECIFICATION Spec
CONSTANTS
  StaleAfter = 1
  ErrorFor = 1
  Unknown = Unknown
  DumpOrder <- TwoKeys
  Values = {0, 1}
  DefaultValue = 0
  BadValue = 9
  NoKey = NoKey
  FlushAfter = 1
  Settle = 1
  MaxBuffer = 2
  KeepLines = 1
  MaxWire = 2
  MaxQueue = 0
  MaxCommands = 1
  StartSettings <- AllOnes
  Events = {"move"}
  MaxEvents = 1
INVARIANT EndedMoveIsNotOutstanding
