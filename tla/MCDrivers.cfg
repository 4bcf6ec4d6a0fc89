SPECIFICATION DriversSpec
CONSTANTS
  Submitters = {s1}
  Readiers = {r1}
  Writers = {w1}
  Kinds = {"gamepad", "keyboard", "mouse"}
  Limit = 2
  Reach = 1
  Moves <- EndMoves
  MaxReports = 3
  MaxPackets = 2
  Setters = {g1, g2}
  Levels = {0, 1}
  c1 = c1  d1 = d1  d2 = d2
  Clients = {c1}
  Devices = {d1, d2}
  Owner <- OneClient
  MaxOutputs = 2
INVARIANTS TypeOK TypesOK WindowsContractKept ReportsKept NewestNotLost OneOwner ReportsInOrder CleanedUp
CHECK_DEADLOCK FALSE
PROPERTIES ReportsArrive OutputArrives
