CONSTANTS
  a = a
  b = b
  Paths <- MCPaths
  Versions = {}
  NoVersion = none
  NoText = NoText
  NoSnapshot = NoSnapshot
  NoJob = NoJob
  NoEdit = NoEdit
  EarlyClient = TRUE
  Commands = {"folders", "analysis"}
  ClientsUsed = {"analysis"}
  MaxEdits = 3
  MaxWrites = 2
  MaxPulls = 2
  MaxFailures = 1
  MaxCommands = 1
SPECIFICATION MCSpec
PROPERTY PushesSettle
CHECK_DEADLOCK FALSE
