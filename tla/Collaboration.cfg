SPECIFICATION MCSpec
CONSTANTS
  s1 = s1
  s2 = s2
  m1 = m1
  cx = cx
  cy = cy
  cz = cz
  h1 = h1
  h2 = h2
  MaxRequests = 5
  MaxChanges = 1
  MaxWrites = 3
  Settings = {"votes", "stages", "weeks", "board", "goals", "cycles"}
  Rounds <- MCRounds
  Members = {m1, m2}
  Scores = {3, 8}
  Ballots = {b1, b2}
  MaxVotes = 2
  Meetings = {s1, s2}
  Krs = {"k", "l"}
  Clerks = {c1, c2}
  Bounds = {0, 1}
  MaxCommitments = 1
  MaxBlockers = 1
  MaxWeek = 3
  Cards = {cx, cy, cz}
  Columns = {"todo", "done"}
  Hands = {h1, h2}
  Top = Top
  Spacing = 2
  Depth = 0
  Ceiling = 6
  k1 = k1
  k2 = k2
  k3 = k3
  Goals = {1, 2, 3}
  KeyResults = {k1, k2, k3}
  OwnerOf <- MCOwnerOf
  Values = {0, 1}
  Writers = {w1, w2}
  RollUps = {TRUE, FALSE}
  Cycles = {1, 2, 3}
  Grades = {1, 2}
  Desks = {d1, d2}
  Keeping = {1}
  MaxReruns = 1
SYMMETRY Interchangeable
CHECK_DEADLOCK FALSE
INVARIANTS
  CollaborationTypeOK
  VotesAsPromised
  GatesHeld
  StreakCountsWeeks
  DistinctPlaces
  NumbersExplained
  LoopsExplained
  CloseKept
PROPERTIES
  RevealedStands
  StagesInOrder
  DragsMoveOneCard
