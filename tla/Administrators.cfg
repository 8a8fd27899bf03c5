SPECIFICATION Spec
CONSTANTS
  Members = {founder, m1, m2}
  Founder = founder
  Directory = directory
  Txns = {t1, t2}
  Requests <- MCRequests
  MaxRequests = 4
SYMMETRY AdministratorSymmetry
VIEW AskerView
CHECK_DEADLOCK FALSE
INVARIANTS
  TypeOK
  GuestsHoldNothing
PROPERTIES
  LastHolderKept
