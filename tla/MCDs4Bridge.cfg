SPECIFICATION Spec
CONSTANTS
  ds4 = ds4
  ps4 = ps4
  Ds4 = ds4
  Ps4 = ps4
  Ctrl = ctrl
  Intr = intr
  Peers <- MCPeers
  Psms = {ctrl, intr}
  Ssp <- MCPeers
  LocalSsp = TRUE
  CmdSlots = 2
  TotalAcl = 2
  NrPending = 2
  NrBuffered = 1
  QueueSize = 2
  CountMod = 4
  Budgets <- MCBudgets
INVARIANTS TypeOK NoOverrun BufferIntact ResetAlone ReadyMeansKnown RadioKnown PendingHasCause
PROPERTIES Fresh InitDone Bridging Drained
CHECK_DEADLOCK FALSE
