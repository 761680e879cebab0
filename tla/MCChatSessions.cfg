SPECIFICATION Spec
CONSTANTS
  Requests = {r1, r2}
  Interrupts = {i1}
  Directs = {d1}
  Keys = {k1, k2}
  FreshKeys = {k2}
  DeletableKeys = {k1}
  MaxTurns = 1
  None = None
INVARIANTS
  ServedInArrivalOrder
  NoLostHistory
PROPERTIES
  InterruptQuiesces
CHECK_DEADLOCK FALSE
