SPECIFICATION FairSpec
CONSTANTS
  Clients <- MCRefused
  K = 2
  MaxErrorCount = 2
  TotalErrLimit = 1
PROPERTY Answered
CHECK_DEADLOCK FALSE
