SPECIFICATION FairSpec
CONSTANTS
  Hubs = {"hub"}
  HubOf <- OneHub
  Outer <- OneOuter
  MaxAddr = 4
  Faults = {"hasty", "stale", "statusFails", "resetFails", "enumFails", "taskFails"}
  MaxPlugs = 4
INVARIANTS OnePerHub UniqueAddress AddressesBacked OwnDevice
PROPERTY PortServed
CHECK_DEADLOCK FALSE
