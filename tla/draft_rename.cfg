CONSTANTS
  c1 = c1
  c2 = c2
  p1 = p1
  p2 = p2
  empty = empty
  text = text
  blob = blob
  a1 = a1
  a2 = a2
  Client = {c1, c2}
  Path = {p1, p2}
  Content = {empty}
  Actor = {a1}
  EmptyText = empty
  GitRef = {}
  Kinds <- RenameKinds
  MaxRev = 3
  Mortal = {}
SPECIFICATION Spec
SYMMETRY ClientSymmetry
CHECK_DEADLOCK FALSE
PROPERTY RenameRelinks
