SPECIFICATION DelegationSpec
CONSTANTS
  MaxSessions = 2
  MessageTTL = 1
  TodoTTL = 2
  MaxItems = 1
  MaxEdits = 1
  MaxTime = 2
  MaxDepth = 2
  MaxAttempts = 1
  MaxMistakes = 1
  RunTurns = 2
  MaxRuns = 3
  Nil = Nil
INVARIANT
  CautionsAreCounted
PROPERTIES
  StaleOnlyWhileUsed
  DelegationsEnd
\* Requests come to an end.
CHECK_DEADLOCK FALSE
