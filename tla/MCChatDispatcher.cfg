SPECIFICATION FairSpec
CONSTANTS
  Requests = {r1, r2, r3}
  Interrupts = {i1}
  Directs = {}
  Keys = {k1}
  FreshKeys = {}
  DeletableKeys = {}
  MaxTurns = 1
  None = None
INVARIANTS
  MutualExclusion
  EntriesMatchRuns
PROPERTIES
  NoCallIsStuck
  ImplementsSerialSessions
CHECK_DEADLOCK FALSE
