SPECIFICATION ReportsSpec
CONSTANTS
  NaN = NaN
  Wires <- AllWires
  MaxLoad = 2
  Sticks <- SomeSticks
  Pulls <- SomePulls
  Vectors <- SomeVectors
  Batteries <- SomeBatteries
  Contacts <- SomeContacts
  States <- SomeStates
  Requests <- SomeRequests
  NumBlocks = 1
  Durations <- SomeDurations
  Delays = {0, 1}
  Loops <- SomeLoops
  MaxTime = 3
  MaxEvents = 1
  MaxReports = 3
CHECK_DEADLOCK FALSE
INVARIANTS
  TypesOK
  HostSeesAccepted
  OrdersFollowed
  AnswersFit
  EffectsAgree
