SPECIFICATION Spec
CONSTANTS
  Edits = {"e1", "e2", "e3"}
  Fields = {"rent"}
  Values = {"ai", "v1"}
  AI = "ai"
  NONE = NONE
CHECK_DEADLOCK FALSE
INVARIANT RevertRestoresAI
