SPECIFICATION SafetySpec
CONSTANTS
  Guest = Guest
  User = User
  Retries = 1
  MaxFaults = 0
  MaxEdits = 1
CHECK_DEADLOCK FALSE
INVARIANT NothingLeft
