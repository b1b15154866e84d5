CONSTANTS
  c1 = c1
  c2 = c2
  p1 = p1
  p2 = p2
  empty = empty
  text = text
  blob = blob
  a1 = a1
  a2 = a2
  Client = {c1}
  Path = {p1}
  Content = {empty, text}
  Actor = {a1}
  EmptyText = empty
  GitRef = {}
  Kinds <- EditKinds
  MaxRev = 3
  Mortal = {}
SPECIFICATION Spec
CHECK_DEADLOCK FALSE
INVARIANT RefTipNamesRefRevision
