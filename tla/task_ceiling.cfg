CONSTANTS
  Client = {c1}
  Run = {r1, r2}
  Ref = {stone}
  Cap = {"repo.read", "repo.edit"}
  Override = {}
  Hint = {{}, {"repo.edit"}}
  MaxDepth = 2
  MaxFanout = 3
  MaxInvoked = 1
SPECIFICATION Spec
CHECK_DEADLOCK FALSE
INVARIANT CapsNest
