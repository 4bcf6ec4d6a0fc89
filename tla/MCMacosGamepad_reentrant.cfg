SPECIFICATION FairSpec
CONSTANTS
  c1 = c1
  c2 = c2
  Clients <- TwoClients
  Worker = Worker
  None = None
  NumReports = 1
  QueueLimit = 1
  CallbackCloses = TRUE
  MaxCalls <- CallBounds
  MaxOutputs = 1
PROPERTIES
  CallbackMayClose
CHECK_DEADLOCK FALSE
