SPECIFICATION FairSpec
CONSTANTS
  placeB = placeB
  endA = endA
  button = button
  Threads = {t1, t2}
  NumKinds = 2
  Inputs = {placeB, endA, button}
  ContactEnds = {endA}
  Unkept = {button}
  Contacts = {"a", "b"}
  ContactOf <- InputContact
  Callbacks = {c1}
  None = None
  MaxDevices = 2
  MaxCalls = 3
INVARIANTS
  BackendCallsSerialized
  HandlesAreTrue
  NoneMissed
PROPERTIES
  ImplementsContract
  CallsReturn
CHECK_DEADLOCK FALSE
