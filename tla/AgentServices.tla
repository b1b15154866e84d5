---------------------------- MODULE AgentServices ----------------------------
(***************************************************************************)
(* The services that agents and their clients use, side by side: they share *)
(* the Worker and its clients, and no table.                                *)
(***************************************************************************)
EXTENDS Naturals, Sequences

CONSTANTS
  Client,                        \* concurrent requests
  Actor, Creator, Entry, Standing, Scope, Setting, MaxLog, MaxRev, MaxPolicy,
  Time, OtherHead,
  Run, Ref, Power, Override, Hint, MaxDepth, MaxFanout, MaxInvoked,
  Eligible, OtherTool, MaxTools,
  Event, Limit, MaxTime,
  Content, Handoff, Recipients, MaxStone, MaxTick,
  Chain, HeadStone, Source, Wording, Model, Generator, Depth,
  MaxMoves, MaxResponses, MaxSwaps,
  Path, Blob, Noted, Ingestion, MaxDocumented, MaxExamined, MaxReviewed, MaxStones, MaxRuns

VARIABLES session, turns, policy, req,
          auth, head, invoked, aReq,
          runs, ran, runReq,
          grant, sent, grantReq,
          row, promised, meddled, rpc,
          clock, taken, journal, reader, late, seen,
          posted, delivery, mirror, acked, raced, calls, again, mail,
          accepted, scoped, known, answers, asker, moves, past, returned, fresh, rewritten,
          branch, chain, pathHeads, chainHead, edges, ingestion, view, latest, begun, calm, cut

Conv   == INSTANCE Conversation WITH Status <- Standing
Tool   == INSTANCE ToolAuthorization WITH Other <- OtherHead, req <- aReq
Task   == INSTANCE TaskRun WITH Cap <- Power, invoked <- ran, req <- runReq
Grants == INSTANCE AccessGrant WITH req <- grantReq
Mcp    == INSTANCE McpSession WITH Other <- OtherTool, raced <- meddled
Events == INSTANCE EventJournal
Mail   == INSTANCE Correspondence WITH Text <- Content, stones <- posted
Answer == INSTANCE Grounding WITH
  Evidence <- Source, Text <- Wording, heads <- accepted, scope <- scoped, found <- known,
  responses <- answers, request <- asker
Repo   == INSTANCE RepoStones WITH
  Text <- Blob, Request <- Ingestion, stones <- chain, pathHead <- pathHeads, job <- ingestion,
  last <- latest, runs <- begun

convVars  == <<session, turns, policy, req>>
toolVars  == <<auth, head, invoked, aReq>>
taskVars  == <<runs, ran, runReq>>
grantVars == <<grant, sent, grantReq>>
mcpVars   == <<row, promised, meddled, rpc>>
eventVars == <<clock, taken, journal, reader, late, seen>>
mailVars  == <<posted, delivery, mirror, acked, raced, calls, again, mail>>
answerVars == <<accepted, scoped, known, answers, asker, moves, past, returned, fresh, rewritten>>
repoVars  == <<branch, chain, pathHeads, chainHead, edges, ingestion, view, latest, begun, calm, cut>>

-----------------------------------------------------------------------------
(* What the constants are, where a theorem needs to know *)

\* There is something to append, and the scopes of a session are a list.
ScopesAreLists == Entry # {} /\ \A s \in Scope : s \in Seq(Conv!ScopeKey)

\* The model writes the id of a request where the code writes a time, and
\* "none" where there is none.
ClientsAreSomebody == Grants!Nobody \notin Client

\* What a dispatch names or a run implies are capabilities, and depths are
\* counted.
CapsAreCaps == MaxDepth \in Nat /\ Override \subseteq SUBSET Power /\ Hint \subseteq SUBSET Power

\* MAX_NATIVE_HYDRATED_TOOLS is a number.
LimitIsNumber == MaxTools \in Nat

\* Event ids are ordered, and a page has room for an event: listEvents clamps
\* its limit to at least one.
EventsAreOrdered == Event \subseteq Nat /\ Limit \in Nat \ {0}

\* There is a chain to ask about and a stone for its head, and levels are
\* counted from one.
ScopesAndLevels == Chain # {} /\ HeadStone # {} /\ Depth \subseteq Nat \ {0}

\* A tree lists paths, and what an ingestion may do at most is counted.
RepositoryIsListed ==
  /\ Path \in Seq(STRING) /\ MaxStones \in Nat
  /\ MaxDocumented \in Nat /\ MaxExamined \in Nat /\ MaxReviewed \in Nat
  /\ \A ask \in Ingestion : ask.most \in Nat

-----------------------------------------------------------------------------
(* Properties, each of the service it names *)

\* What a conversation shows, and what callers of TurnSync are told of it.
ConversationKept == Conv!ConversationKept

\* How a conversation and the standing policies change.
ConversationMoves == Conv!ConversationMoves

\* One call per approval of a tool, and answers that the row bears out.
ClaimsKept == Tool!ClaimsKept

\* Outcomes and abandoned claims of authorizations do not change.
OutcomesKept == Tool!OutcomesKept

\* Task runs and the children they list.
FamilyKept == Task!FamilyKept

\* A task run that is over stays over but for a dispatch that raced its end.
OverUnlessRaced == Task!OverUnlessRaced

\* The row of a grant, what is answered about it and what becomes of it.
GrantKept == Grants!GrantKept

\* The tools an MCP session has loaded.
ToolsKept == Mcp!ToolsKept

\* What a reader of the journal sees and misses.
PagesKept == Events!PagesKept

\* What correspondence acknowledges, and what a worker makes of it.
MailKept == Mail!MailKept

\* What answers and grounded responses rest on.
GroundedKept == Answer!GroundedKept

\* What the heads and edges of a chain name, and where an ingestion brings it.
RepositoryKept == Repo!RepositoryKept
=============================================================================
