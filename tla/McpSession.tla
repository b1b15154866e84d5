----------------------------- MODULE McpSession -----------------------------
(***************************************************************************)
(* The tools one MCP core session has loaded: a row that initialize makes   *)
(* or resets, that loading replaces after reading it, and that whoever      *)
(* finds it expired deletes by its id.                                      *)
(***************************************************************************)
EXTENDS Naturals, FiniteSets

CONSTANTS
  Client,     \* concurrent requests
  Eligible,   \* read-only tools whose use needs no approval
  Other,      \* the rest of the catalog
  MaxTools    \* MAX_NATIVE_HYDRATED_TOOLS

VARIABLES
  row,        \* the mcp_core_sessions row
  promised,   \* history: tools whose loading was answered ok since the row was made
  raced,      \* history: the row changed between a read of it and the write that followed
  rpc         \* the request each client is working on

vars == <<row, promised, raced, rpc>>

-----------------------------------------------------------------------------
NoSession == [state |-> "none", tools |-> {}]
Idle == [stage |-> "idle"]

Init == /\ row = NoSession
        /\ promised = {}
        /\ raced = FALSE
        /\ rpc = [c \in Client |-> Idle]

Become(c, r) == rpc' = [rpc EXCEPT ![c] = r]
Reply(c) == Become(c, Idle)
At(c, stage) == rpc[c].stage = stage

-----------------------------------------------------------------------------
\* initialize: a new row, or the old one emptied and live again.
Create ==
  /\ row' = [state |-> "live", tools |-> {}]
  /\ promised' = {}
  /\ UNCHANGED <<raced, rpc>>

\* The client ends its session.
Delete ==
  /\ row.state # "none"
  /\ row' = NoSession
  /\ promised' = {}
  /\ UNCHANGED <<raced, rpc>>

\* tools/list and tools/call read the row too, and delete it expired.
BeginRead(c) ==
  /\ At(c, "idle")
  /\ row.state = "expired"
  /\ Become(c, [stage |-> "expire"])
  /\ UNCHANGED <<row, promised, raced>>

\* By id: a row made since goes with it.
Expire(c) ==
  /\ At(c, "expire")
  /\ raced' = (raced \/ row.state = "live")
  /\ row' = NoSession
  /\ promised' = {}
  /\ Reply(c)

Fits(asked, tools) == Cardinality(tools) <= MaxTools

\* Any tool that is not eligible rejects the whole request.
Selectable == Eligible

BeginLoad(c) ==
  /\ At(c, "idle")
  /\ row.state = "live"
  /\ \E asked \in SUBSET (Eligible \cup Other) \ {{}} :
       /\ Cardinality(asked) <= MaxTools
       /\ asked \subseteq Selectable
       /\ Become(c, [stage |-> "set", asked |-> asked, tools |-> row.tools \cup asked])
  /\ UNCHANGED <<row, promised, raced>>

\* setMcpCoreSessionTools reads the row again, for its expiry only.
BeginSet(c) ==
  /\ At(c, "set")
  /\ CASE row.state = "none" -> Reply(c)
       [] row.state = "expired" -> Become(c, [stage |-> "expire"])
       [] OTHER -> IF Fits(rpc[c].asked, rpc[c].tools)
                   THEN Become(c, [rpc[c] EXCEPT !.stage = "update"]) ELSE Reply(c)
  /\ UNCHANGED <<row, promised, raced>>

\* Mutant: the tools requested replace those of the session.
UpdateAlone(c) ==
  /\ At(c, "update")
  /\ row' = IF row.state = "none" THEN row ELSE [state |-> "live", tools |-> rpc[c].asked]
  /\ raced' = (raced \/ row.state # "live" \/ row.tools \cup rpc[c].asked # rpc[c].tools)
  /\ promised' = promised \cup rpc[c].asked
  /\ Reply(c)

\* Whatever the row holds by now; the answer is ok even when it is gone.
Update(c) ==
  /\ At(c, "update")
  /\ row' = IF row.state = "none" THEN row ELSE [state |-> "live", tools |-> rpc[c].tools]
  /\ raced' = (raced \/ row.state # "live" \/ row.tools \cup rpc[c].asked # rpc[c].tools)
  /\ promised' = promised \cup rpc[c].asked
  /\ Reply(c)

Lapse ==
  /\ row.state = "live"
  /\ row' = [row EXCEPT !.state = "expired"]
  /\ UNCHANGED <<promised, raced, rpc>>

Die(c) ==
  /\ ~At(c, "idle")
  /\ Reply(c)
  /\ UNCHANGED <<row, promised, raced>>

Next == Create \/ Delete \/ Lapse \/ \E c \in Client :
          \/ BeginRead(c) \/ Expire(c)
          \/ BeginLoad(c) \/ BeginSet(c) \/ Update(c) \/ Die(c)
Spec == Init /\ [][Next]_vars

-----------------------------------------------------------------------------
(* Properties *)

\* A session lists no more tools than the limit, and only eligible ones,
\* however many loads add to it.
LoadedWithinPolicy ==
  Cardinality(row.tools) <= MaxTools /\ row.tools \subseteq Eligible

\* What a load was answered ok for stays loaded until the session ends, unless
\* another request changed the row between a read and the write after it.
LoadedStays ==
  ~raced /\ row.state = "live" => promised \subseteq row.tools

\* The tools a session lists: neither too many nor, once promised, too few.
ToolsKept ==
  /\ LoadedWithinPolicy
  /\ LoadedStays
=============================================================================
