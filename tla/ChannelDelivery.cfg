SPECIFICATION ChannelSpec
CONSTANTS
  Rows = {1, 2}
  Relays = {w1}
  WorkspaceOf <- MCWorkspaceOf
  HoldBacks = {0}
  BatchSize = 1
  CandidateBatches = 1
  Lease = 2
  Backoff <- MCBackoff
  MaxAttempts = 2
  DispatchLimit = 1
  MaxDisruptions = 1
INVARIANTS
  DeliveryTypeOK
  PostedOnce
  LogSettledFirst
SYMMETRY RelaySymmetry
VIEW DeliveryView
CHECK_DEADLOCK FALSE
