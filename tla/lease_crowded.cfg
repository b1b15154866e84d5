CONSTANTS
  Client = {c1}
  Actor = {a1, a2}
  Kinds = {"acquire", "renew", "release"}
  Sharing = {FALSE}
  Scope <- OneScope
  Ttl = {2, 3, 4}
  MaxList = 1
  MaxDelay = 0
  MaxClock = 1
  MaxLeases = 4
SPECIFICATION OrderedSpec
CHECK_DEADLOCK FALSE
INVARIANTS
  OverlapIsExplained
