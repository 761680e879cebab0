SPECIFICATION ConsolidationSpec
CONSTANTS
  Agents = {a1, a2}
  Configs = {c1, c2}
  Calls = {r1}
  MaxDays = 2
  MaxReloads = 2
  MaxChanges = 1
  Nil = Nil
INVARIANT
  OneConfigPerLoop
PROPERTY
  NobodyIsLeftOut
\* Days, calls and changes come to an end.
CHECK_DEADLOCK FALSE
