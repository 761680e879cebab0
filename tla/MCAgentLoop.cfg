SPECIFICATION FairSpec
CONSTANTS
  MaxRuns = 2
  MaxTurns = 2
  MaxMistakes = 1
  MaxCalls = 1
  ChanCap = 2
  MaxSlack = 2
  Seeing = {1}
INVARIANTS
  SessionMirrorsContext
  StoredCallsAnswered
PROPERTIES
  LoopLeavesSessionAlone
  HistoryIsKeptOrSummarised
  RunsEnd
CHECK_DEADLOCK FALSE
