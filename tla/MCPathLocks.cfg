SPECIFICATION Spec
CONSTANTS
  Ops = {p1, p2, p3}
  Paths = {1, 2}
  Entries = {e1, e2, e3}
  None = None
INVARIANTS
  TableIsExact
PROPERTIES
  ImplementsPathMutex
  OpsEndIfOrdered
\* Operations that cross each other's paths wait for one another for ever.
CHECK_DEADLOCK FALSE
