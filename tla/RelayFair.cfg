SPECIFICATION Spec
CONSTANTS
  Rows = {1, 2, 3, 4}
  Relays = {w1, w2}
  WorkspaceOf <- MCWorkspaceOf
  HoldBacks = {0}
  BatchSize = 3
  CandidateBatches = 1
  Lease = 4
  Backoff <- MCBackoff
  BackoffCap = 2
  MaxAttempts = 1
  DispatchLimit = 1
  MaxDisruptions = 1
INVARIANT
  FairDispatch
PROPERTY
  NoTenantShutOut
SYMMETRY RelaySymmetry
VIEW FairnessView
CHECK_DEADLOCK FALSE
