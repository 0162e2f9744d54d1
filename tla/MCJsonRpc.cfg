CONSTANTS
  Ids = {1, 2}
  NoId = 0
  Messages <- MCMessages
  Clients = {"single", "slow", "batching", "failing"}
  MaxMessages = 4
  MaxItems = 2
  MaxInFlight = 2
  Servers <- MCServers
SPECIFICATION MCSpec
INVARIANT TypeOK
INVARIANT TableExact
PROPERTY RepliesKeptOnce
PROPERTY RepliesCome
PROPERTY CancelActs
PROPERTY CancelHits
CHECK_DEADLOCK FALSE
