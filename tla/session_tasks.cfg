CONSTANTS
  Client = {c1, c2}
  Actor = {a1}
  Task = {t1}
  Note = {n1}
  Reference = {x}
  Receipt = {r1, r2}
  MaxRefs = 1
  Kinds = {"task", "lifecycle", "bind", "receipt"}
  Blind = TRUE
  CanDie = FALSE
  MaxRev = 3
  MaxTip = 0
SPECIFICATION Spec
CHECK_DEADLOCK FALSE
SYMMETRY Symmetry
PROPERTIES
  LedgerExplained
  TasksFollowEdges
INVARIANTS
  TypeOK
