SPECIFICATION ChannelSpec
CONSTANTS
  Rows = {1}
  Relays = {w1}
  WorkspaceOf <- MCWorkspaceOf
  HoldBacks = {0}
  BatchSize = 1
  CandidateBatches = 1
  Lease = 2
  Backoff <- MCBackoff
  MaxAttempts = 2
  DispatchLimit = 1
  MaxDisruptions = 0
INVARIANT
  FailureIsRetried
CHECK_DEADLOCK FALSE
