SPECIFICATION Spec
CONSTANTS
  Edits = {"e1", "e2"}
  Fields = {"rent", "term"}
  Values = {"ai", "v1"}
  AI = "ai"
  NONE = NONE
CHECK_DEADLOCK FALSE
INVARIANT TypeOK
INVARIANT HistoryExplainsData
INVARIANT CacheIsServers
INVARIANT FlagsWereServers
