SPECIFICATION Spec
CONSTANTS
  Members = {founder, m1}
  Founder = founder
  Directory = directory
  Txns = {t1}
  Requests <- MCRequests
  MaxRequests = 3
CHECK_DEADLOCK FALSE
PROPERTIES
  AppointmentGrantsFullAccess
