SPECIFICATION FairSpec
CONSTANTS
  Clients <- MCClients
  K = 2
  MaxErrorCount = 2
  TotalErrLimit = 1
INVARIANTS TypeOK OkMeansDone
PROPERTIES StatusMeansOver Answered TaskRunsAgain
CHECK_DEADLOCK FALSE
