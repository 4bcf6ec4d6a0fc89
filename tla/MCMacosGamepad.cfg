SPECIFICATION FairSpec
CONSTANTS
  c1 = c1
  c2 = c2
  Clients <- TwoClients
  Worker = Worker
  None = None
  NumReports = 2
  QueueLimit = 1
  CallbackCloses = TRUE
  MaxCalls <- CallBounds
  MaxOutputs = 2
INVARIANTS
  TypeOK
  MessagesMatch
  ClosedIsQuiet
PROPERTIES
  CallsReturn
  DeviceIsRemoved
CHECK_DEADLOCK FALSE
