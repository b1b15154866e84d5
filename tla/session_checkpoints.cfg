CONSTANTS
  Client = {c1, c2}
  Actor = {a1, a2}
  Task = {}
  Note = {n1}
  Reference = {x}
  Receipt = {r1}
  MaxRefs = 1
  Kinds = {"checkpoint", "compile", "receipt"}
  Blind = FALSE
  CanDie = TRUE
  MaxRev = 3
  MaxTip = 1
SPECIFICATION Spec
CHECK_DEADLOCK FALSE
SYMMETRY Symmetry
INVARIANTS
  CheckpointsBacked
PROPERTIES
  ImplementsAtomicSession
