SPECIFICATION Spec
CONSTANTS
  Guest = Guest
  User = User
  Exports = {e1, e2}
  Writers = {t1, t2}
  NONE = NONE
  Retries = 1
  MaxTime = 1
  MaxFaults = 1
CHECK_DEADLOCK FALSE
INVARIANT TypeOK
INVARIANT NotOlderThanVersion
PROPERTY ExportFinishes
