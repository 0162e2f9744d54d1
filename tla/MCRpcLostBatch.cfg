CONSTANTS
  Ids = {1, 2}
  NoId = 0
  Messages <- MCMessages
  Clients = {"failing"}
  MaxMessages = 4
  MaxItems = 2
  MaxInFlight = 2
  Servers <- MCServers
SPECIFICATION MCSpec
INVARIANT BatchAnswered
CHECK_DEADLOCK FALSE
