SPECIFICATION Spec
CONSTANTS
  W = 2
  L = 2
  Size = 28
  Values = {1, 2}
  Modes = {2}
  MaxFails = 0
  MaxOps = 4
  MaxCrashes = 1
INVARIANT Durable
CHECK_DEADLOCK FALSE
