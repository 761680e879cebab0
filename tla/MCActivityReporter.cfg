SPECIFICATION Spec
CONSTANTS
  Sessions = {s1, s2}
  MaxCommits = 3
  MaxSwitches = 2
  None = None
INVARIANTS
  JournalIsFaithful
PROPERTY
  CommittedIsLogged
\* Commits end, and then the timers have fired.
CHECK_DEADLOCK FALSE
