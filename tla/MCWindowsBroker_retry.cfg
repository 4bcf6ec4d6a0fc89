SPECIFICATION Spec
CONSTANTS
  c1 = c1  c2 = c2  yearly = yearly  lifetime = lifetime
  Clients = {c1}
  Keys = {lifetime}
  Yearly = {}
  Kinds = {"keyboard"}
  Machines = {"own"}
  None = None
  MaxDevices = 1
  MaxActivations = 1
  RunnerDevices = 0  RunnerActivations = 0
INVARIANT RetryIsSoon
