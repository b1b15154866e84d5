CONSTANTS
  c1 = c1
  c2 = c2
  Client = {c1, c2}
  Actor = {"owner", "guest"}
  Creator = "owner"
  Entry <- Turns
  Standing = {"active", "closed"}
  Scope <- Scopes
  Setting <- Settings
  MaxLog = 2
  MaxRev = 3
  MaxPolicy = 1
  Time = {"t1", "t2"}
  OtherHead = {"other"}
  Run = {"r1", "r2", "r3"}
  Ref = {"stone", "repo"}
  Power = {}
  Override = {}
  Hint = {{}}
  MaxDepth = 2
  MaxFanout = 1
  MaxInvoked = 2
  Eligible = {"e1", "e2", "e3"}
  OtherTool = {"o"}
  MaxTools = 2
  Event = {1, 2, 3}
  Limit = 1
  MaxTime = 3
  Content = {"task", "note it"}
  Handoff = {"note it"}
  Recipients <- Parties
  MaxStone = 3
  MaxTick = 2
  Chain = {"k", "l"}
  HeadStone = {"h", "i"}
  Source = {"e", "h"}
  Wording = {"x", "y"}
  Model = {"llama", "gpt"}
  Generator = "llama"
  Depth = {1, 2, 3}
  MaxMoves = 3
  MaxResponses = 2
  MaxSwaps = 1
  Path <- Paths
  Blob = {"x", "y"}
  Noted = {"x"}
  Ingestion <- Ingestions
  MaxDocumented = 1
  MaxExamined = 2
  MaxReviewed = 1
  MaxStones = 7
  MaxRuns = 2
  Caller = {c1, c2}
  Code = {"k"}
  MaxPairs = 2
  Conn = {"a", "b"}
  Inbox = {"i"}
  Letter = {"m"}
  Body = {"x", "y"}
  Login = {"s1", "s2"}
  Invite = {"i"}
  Target <- InvitedAs
  Passkey = {"p0", "p1"}
  Enrolled <- EnrolledAs
  Service = {"appends", "turnsync", "authorizations", "task runs", "grants", "mail", "worker", "tools", "journal", "tokens", "homes", "letters", "sign-ins", "files", "repository", "manifests", "answers", "responses"}
SPECIFICATION Spec
CHECK_DEADLOCK FALSE
SYMMETRY Symmetry
INVARIANTS
  ConversationKept
  ClaimsKept
  FamilyKept
  ToolsKept
  PagesKept
  AuthorityKept
  HomeKept
  SignInsKept
  RepositoryKept
PROPERTIES
  MailKept
  ConversationMoves
  OutcomesKept
  OverUnlessRaced
  GrantKept
  ImplementsHomeStore
  SignedInStays
  GroundedKept
