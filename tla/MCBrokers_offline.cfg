SPECIFICATION BrokersSpec
CONSTANTS
  c1 = c1  c2 = c2  yearly = yearly  lifetime = lifetime
  Clients = {c1}
  Keys = {yearly, lifetime}
  Yearly = {yearly}
  Kinds = {"gamepad", "xbox_360"}
  Machines = {"own", "runner"}
  None = None
  MaxDevices = 1
  MaxActivations = 2
  RunnerDevices = 1  RunnerActivations = 1
  Sessions = {s1, s2}
  MacosKeys = {yearly, lifetime}
  MacosYearly = {yearly}
  MacosDevices = 2
  MaxEvents = 1
INVARIANTS OneGamepadOffline
