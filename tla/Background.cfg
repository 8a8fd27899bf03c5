SPECIFICATION MCSpec
CONSTANTS
  Settings = {"audit", "run", "inbox", "pool", "batches", "changes"}
  Rows = {1, 2, 3, 4}
  Passes = {p1, p2}
  BatchSize = 2
  MaxCrashes = 1
  Runs = {1}
  Length = 2
  Workers = {w1, w2}
  Deciders = {d1, d2}
  Alone = d1
  c1 = c1
  Copilot = {c1}
  Proposals <- MCProposals
  Nobody = nobody
  MaxDeaths = 1
  a1 = a1
  a2 = a2
  a3 = a3
  a4 = a4
  s1 = s1
  Calls = {a1, a2, a3, a4, e1}
  Here = {a1, a2, a3, a4}
  q1 = q1
  Unadmitted = {s1, q1}
  Within <- MCWithin
  NoCaller = nocaller
  PoolMax = 3
  Limit = 2
  MaxKilled = 1
  Notes = {1, 2, 3}
  Batches = {b1, b2, b3}
  NoBatch = nobatch
  LineLimit = 1
  Scripts = {1, 2}
  Items = {1, 2}
  r1 = r1
  r2 = r2
  Runners = {r1, r2}
  NoRunner = norunner
  ChecksumOf <- MCChecksumOf
  MaxDropped = 4
CHECK_DEADLOCK FALSE
INVARIANTS
  ChainVerifies
  OutOfOrderExplained
  BackgroundTypeOK
  AppliedOnce
  RecordMatchesEffect
  StepMeetsItsRun
  NeverStranded
  LogTruthful
  CapKept
  SlotLeft
  NothingForgotten
  ChangedOnce
PROPERTIES
  EveryRowChained
  ImplementsLedger
  DecisionStands
  RunEnds
