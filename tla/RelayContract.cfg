SPECIFICATION Spec
CONSTANTS
  Rows = {1, 2}
  Relays = {w1, w2}
  WorkspaceOf <- MCWorkspaceOf
  HoldBacks = {0}
  BatchSize = 2
  CandidateBatches = 2
  Lease = 3
  Backoff <- MCBackoff
  BackoffCap = 2
  MaxAttempts = 1
  DispatchLimit = 1
  MaxDisruptions = 1
PROPERTY
  ImplementsContract
CHECK_DEADLOCK FALSE
