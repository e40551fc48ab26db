SPECIFICATION Spec
CONSTANTS
  Guest = Guest
  User = User
  Retries = 2
  MaxFaults = 2
  MaxEdits = 1
CHECK_DEADLOCK FALSE
INVARIANT TypeOK
PROPERTY ResultsFrozen
PROPERTY ImplementsLifecycle
PROPERTY WorkflowSettles
