SPECIFICATION Spec
CONSTANTS
  Providers = {p1, p2}
  Names = {m1}
  Urls = {u1}
  MaxChanges = 3
  None = None
SYMMETRY Symmetry
INVARIANTS
  RegistryFollowsFile
  SectionsSurvive
  ConsolidatorFollowsFile
\* The changes come to an end.
CHECK_DEADLOCK FALSE
