CONSTANTS
  Path = {p1, p2}
  Freezer = {f1}
  MaxLog = 2
  Removals = TRUE
  CanDie = FALSE
SPECIFICATION Spec
CHECK_DEADLOCK FALSE
INVARIANT StoredVectorWasLive
