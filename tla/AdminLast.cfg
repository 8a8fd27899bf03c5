SPECIFICATION Spec
CONSTANTS
  Members = {founder, m1}
  Founder = founder
  Directory = directory
  Txns = {t1, t2}
  Requests <- MCRequests
  MaxRequests = 3
CHECK_DEADLOCK FALSE
PROPERTIES
  LastAdministratorStays
