CONSTANTS
  Client = {c1, c2}
  Actor = {a1, a2}
  Kinds = {"acquire", "renew", "release", "list"}
  Sharing = {FALSE}
  Scope <- TwoScopes
  Ttl = {2}
  MaxList = 4
  MaxDelay = 1
  MaxClock = 3
  MaxLeases = 2
SPECIFICATION SliceSpec
CHECK_DEADLOCK FALSE
SYMMETRY Symmetry
INVARIANTS
  OverlapIsExplained
PROPERTIES
  NeverRevived
  EndsByRelease
