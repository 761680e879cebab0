SPECIFICATION MCSpec
CONSTANTS
  Names = {n1, n2}
  None = None
  MaxEdits = 2
  MaxCrashes = 1
INVARIANTS
  EveryLoopRegistered
  OneshotRunsOnce
  AppliedUnlessMissed
PROPERTY
  ReloadEnds
\* Without tasks, events and edits left the scheduler rests.
CHECK_DEADLOCK FALSE
