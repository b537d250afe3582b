SPECIFICATION Spec
CONSTANTS
  W = 2
  L = 2
  Size = 28
  Values = {1, 2}
  Modes = {2}
  MaxFails = 1
  MaxOps = 4
  MaxCrashes = 2
INVARIANTS TypeOK NeverOverprogrammed FileKept ModeKept NoTorn
CHECK_DEADLOCK FALSE
