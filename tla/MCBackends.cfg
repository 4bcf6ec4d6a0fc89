SPECIFICATION Spec
CONSTANTS
  Kinds = {"keyboard", "mouse", "touchscreen", "trackpad", "pen_tablet"}
  Contacts = {"c1", "c2", "c3"}
  MaxContacts = 2
  Detent = 2
  Distances <- SomeDistances
  MaxScroll = 3
  MaxTouches = 3
  Profiles = {"playstation", "switch_pro", "xbox_one", "xbox_360"}
  MaxSubmits = 2
  MaxRequests = 2
  Effects = {1}
  Lengths = {0, 1}
  Counts = {2}
  MaxTime = 2
  MaxOrders = 4
  PointerIds = {"c1", "c2"}
  VirtualKeys = {65, 36, 103, 160, 163, 174, 144, 135, 44}
  Capacity = 1
  MaxHeld = 2
  Reach = 1
  Motions <- SomeMotions
  MaxDetents = 1
  Pads = {"switch_pro", "xbox_360", "xbox_one", "generic"}
  Reports = {1, 2}
  MaxOutputs = 2
INVARIANTS TypesOK ActionsShown PointersTrue HostShowsNewest OneDeviceLeft FeltIsPlaying
PROPERTY CallsReturn
