SPECIFICATION BrokersFairSpec
CONSTANTS
  c1 = c1  c2 = c2  yearly = yearly  lifetime = lifetime
  Clients = {c1}
  Keys = {lifetime}
  Yearly = {}
  Kinds = {"keyboard"}
  Machines = {"own", "runner"}
  None = None
  MaxDevices = 2
  MaxActivations = 1
  RunnerDevices = 1  RunnerActivations = 0
  Sessions = {s1, s2}
  MacosKeys = {yearly, lifetime}
  MacosYearly = {yearly}
  MacosDevices = 2
  MaxEvents = 0
PROPERTIES DevicesGo GamepadsGo ValidationGoesOn
