SPECIFICATION Spec
CONSTANTS
  Hubs = {"hub", "inner"}
  HubOf <- TwoHubs
  Outer <- TwoOuter
  MaxAddr = 5
  Faults = {}
  MaxPlugs = 2
INVARIANT OneAtZero
CHECK_DEADLOCK FALSE
