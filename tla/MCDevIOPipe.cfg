SPECIFICATION FairSpec
CONSTANTS
  Endpoints <- MCEndpoints
  N = 3
  Retries = 2
INVARIANTS TypeOK ExactlyOnce LossBounded PidInSync
PROPERTY Served
