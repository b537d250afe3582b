SPECIFICATION Spec
CONSTANTS
  Endpoints <- MCLostAck
  N = 4
  Retries = 2
INVARIANT FaultCost
