CONSTANTS
  a = a
  b = b
  Paths <- MCPaths
  Versions = {}
  NoVersion = none
  NoText = NoText
  NoSnapshot = NoSnapshot
  NoJob = NoJob
  NoEdit = NoEdit
  EarlyClient = TRUE
  Commands = {"folders", "analysis"}
  ClientsUsed = {"editing", "files", "folders", "analysis", "early"}
  MaxEdits = 3
  MaxWrites = 2
  MaxPulls = 2
  MaxFailures = 1
  MaxCommands = 1
SPECIFICATION MCSpec
INVARIANT TypeOK
INVARIANT OnePush
PROPERTY PushesKeptInTime
PROPERTY EditsDiagnosed
PROPERTY ReportsIndexed
PROPERTY PullsEnd
CHECK_DEADLOCK FALSE
