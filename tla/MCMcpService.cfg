SPECIFICATION FairSpec
CONSTANTS
  Names = {n1}
  Calls = {a1}
  None = None
  MaxEdits = 3
  MaxServers = 6
  MaxLeaks = 1
INVARIANTS
  RegisteredWhileAlive
  NoneForgotten
  AppliedUnlessMissed
PROPERTY
  ReloadAndShutdownEnd
\* With no server left and no edits to come the service rests.
CHECK_DEADLOCK FALSE
