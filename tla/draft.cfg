CONSTANTS
  c1 = c1
  c2 = c2
  p1 = p1
  p2 = p2
  empty = empty
  text = text
  blob = blob
  a1 = a1
  a2 = a2
  Client = {c1, c2}
  Path = {p1, p2}
  Content = {empty, text, blob}
  Actor = {a1}
  EmptyText = empty
  GitRef = {blob}
  Kinds <- AllKinds
  MaxRev = 3
  Mortal = {"rename"}
SPECIFICATION SliceSpec
SYMMETRY ClientSymmetry
CHECK_DEADLOCK FALSE
INVARIANTS
  TypeOK
  TipsBackedByLog
  InlineTipHasBlob
PROPERTY ImplementsCasTree
