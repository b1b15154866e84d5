CONSTANTS
  Client = {c1, c2}
  MaxNonce = 3
  Branch = {"b1", "b2"}
  Root = {"r1"}
  MaxCommit = 2
  Agent = {"agent"}
  Manifest = {"m", "n"}
  Attachment = {"a1", "a2"}
  BoxClass = {"full", "local"}
  Command = {"install"}
  Permitted <- Allowed
  MaxRev = 3
  Archive <- Bundles
  StoneId = {"s1", "s2"}
  File <- Files
  Content = {"x", "y"}
  Actor = {"a"}
  Workspace = {"v", "w"}
  Object = {"o"}
  Folder <- Folders
  Capability <- Capabilities
  AutomaticRead = {"chain", "search"}
  Mutation = {"set_head"}
  Withdrawn = {"gone"}
  ProfileTool = {"search", "set_head"}
  Plan <- Plans
  Keyed = {"openai"}
  MaxLive = 2
  MaxTurns = 3
  MaxCalls = 3
  MaxPerTurn = 2
  MaxRoute = 2
  MaxIntents = 2
  Version = {1, 2}
  BriefFor <- Briefs
  Found <- Findings
  Hits = {0, 2}
  Room = 2
  MaxMoves = 2
  Path = {p1, p2}
  Freezer = {f1}
  MaxLog = 3
  Removals = FALSE
  CanDie = TRUE
  Service = {"snapshots", "invites", "stones", "freshness", "sandboxes", "environments", "import", "transport", "gate", "delegation", "bootstrap"}
SPECIFICATION ServiceSpec
CHECK_DEADLOCK FALSE
SYMMETRY Symmetry
INVARIANTS
  StoredVectorWasLive
  HeadsKept
  GateKept
  DelegationKept
  PackageKept
PROPERTIES
  EnvironmentsKept
  RevocationHolds
  ImportsKept
  BindKept
