--------------------------- MODULE WorkspaceGate ---------------------------
(***************************************************************************)
(* The gate in front of every workspace, code session and sandbox handler:  *)
(* a signed capability is verified, looked up in the deny list and held     *)
(* against the member's role, one read after the other, while roles change  *)
(* and capabilities are denied or expire; and the making of a workspace,    *)
(* which needs no membership.  What a handler does once it is let through   *)
(* is in the modules of its component.                                      *)
(***************************************************************************)
EXTENDS Naturals, Sequences

CONSTANTS
  Client,      \* concurrent requests
  Actor,       \* actor ids
  Workspace,   \* workspace ids
  Object,      \* sessions, checkpoints, manifests, attachments and receipts
  Path,        \* canonical paths: sequences of components
  Capability   \* what may be asked to be signed, each with its own nonce

VARIABLES
  workspaces,  \* workspaces: those that exist
  members,     \* workspace_members: the role of each actor in each workspace
  home,        \* the workspace_id of the row of each object
  revoked,     \* workspace_capability_denylist
  expired,     \* capabilities whose time is over
  cut,         \* history: workspaces whose creation was cut short
  req          \* the request each client is working on

vars == <<workspaces, members, home, revoked, expired, cut, req>>

-----------------------------------------------------------------------------
(* Capabilities *)

RoleScopes ==
  [reader   |-> {"diff", "ls", "read"},
   drafter  |-> {"diff", "ls", "read", "write_draft"},
   proposer |-> {"diff", "ls", "propose", "read", "write_draft"},
   owner    |-> {"diff", "ls", "propose", "read", "write_draft"},
   none     |-> {}]

\* Only scopes of the role are signed.
Narrows(k) == k.scopes # {} /\ k.scopes \subseteq RoleScopes[k.role]

Signed == {k \in Capability : Narrows(k)}

\* No path, and no prefix, is the empty sequence.
NoPath == <<>>
Within(path, prefix) ==
  Len(prefix) <= Len(path) /\ SubSeq(path, 1, Len(prefix)) = prefix

-----------------------------------------------------------------------------
(* What can be asked: the scope it takes, the workspace or the row it names, *)
(* the path that is checked and, for some, another one.                      *)

Any == "any"
None == "none"

Ask(scope, kinds, ons, paths, others) ==
  [scope: {scope}, kind: kinds, on: ons, path: paths, other: others]
Plain(scope, kinds, ons) == Ask(scope, kinds, ons, {NoPath}, {NoPath})
MaybePath == Path \cup {NoPath}

Creating == Plain("write_draft", {"create"}, Workspace)
Listing  == Plain("ls", {"other"}, Workspace \cup {Any})
            \cup Ask("ls", {"other"}, Workspace, MaybePath, {NoPath})
Reading  == Ask("read", {"other"}, Workspace, Path, {NoPath})
Writing  == Ask("write_draft", {"write"}, Workspace, Path, {NoPath})
Diffing  == Ask("diff", {"other"}, Workspace, Path, {NoPath})
\* Of a list of paths the first is checked.
Proposing == Ask("propose", {"other"}, Workspace, MaybePath, {NoPath})

Deleting   == Ask("write_draft", {"write"}, Workspace, Path, {NoPath})
Renaming   == Ask("write_draft", {"rename"}, Workspace, Path, Path)
Pointing   == Ask("write_draft", {"write"}, Workspace, Path, {NoPath})
\* The path is the path_prefix, the other one the root in the repository.
Hydrating  == Ask("write_draft", {"hydrate"}, Workspace, MaybePath, MaybePath)
Binding    == Ask("write_draft", {"other"}, Workspace, MaybePath, {NoPath})
ListingTree == UNION {Ask(scope, {"other"}, Workspace, MaybePath, {NoPath}) : scope \in {"ls", "diff"}}
Zipping    == Plain("write_draft", {"other"}, Workspace)

\* Code sessions and their checkpoints: the workspace is the row's.
OpeningSession == Plain("write_draft", {"open"}, Workspace)
Looking        == Plain("ls", {"other"}, Object)
Pausing        == Plain("write_draft", {"other"}, Object)
Transporting   == Plain("write_draft", {"other"}, Object)
Compiling      == Plain("read", {"other"}, Object)
Checkpointing  == Plain("write_draft", {"other"}, Object) \cup Plain("ls", {"other"}, Object)
Tasking        == Plain("write_draft", {"other"}, Object)
Leasing        == Plain("write_draft", {"other"}, Object)
ListingLeases  == Plain("ls", {"other"}, Object)

\* Environments: a manifest names its workspace, all else has a row.
Describing   == Plain("write_draft", {"open"}, Workspace) \cup Plain("ls", {"other"}, Object)
Attaching    == Plain("write_draft", {"other"}, Object)
Detaching    == Plain("write_draft", {"other"}, Object) \cup Plain("ls", {"other"}, Object)
Receipting   == Plain("write_draft", {"other"}, Object) \cup Plain("ls", {"other"}, Object)

Asks == UNION {Creating, Listing, Reading, Writing, Diffing, Proposing,
               Deleting, Renaming, Pointing, Hydrating, Binding, ListingTree, Zipping,
               OpeningSession, Looking, Pausing, Transporting, Compiling,
               Checkpointing, Tasking, Leasing, ListingLeases,
               Describing, Attaching, Detaching, Receipting}

WorkspaceOf(on) == IF on \in Object THEN home[on] ELSE on

Or(path, other) == IF path # NoPath THEN path ELSE other

\* hydrate is checked at its prefix or else its root.
Checked(ask) == IF ask.kind = "hydrate" THEN Or(ask.path, ask.other) ELSE ask.path

\* A file of the repository comes under the prefix asked for or else the
\* capability's own.
Mapped(ask, k) == Append(Or(ask.path, k.prefix), "file")

\* The drafts a request changes once it is let through.
Changes(ask, k) == CASE ask.kind = "write"   -> {ask.path}
                     [] ask.kind = "rename"  -> {ask.path, ask.other}
                     [] ask.kind = "hydrate" -> {Mapped(ask, k)}
                     [] OTHER                -> {}

-----------------------------------------------------------------------------
Idle == [stage |-> "idle"]

Init == /\ workspaces = {}
        /\ members = [w \in Workspace |-> [a \in Actor |-> None]]
        /\ home = [o \in Object |-> None]
        /\ revoked = {} /\ expired = {} /\ cut = {}
        /\ req = [c \in Client |-> Idle]

Become(c, r) == req' = [req EXCEPT ![c] = r]
Reply(c) == Become(c, Idle)
At(c, stage) == req[c].stage = stage
Goto(c, stage) == Become(c, [req[c] EXCEPT !.stage = stage])
RoleOf(k) == members[k.workspace][k.actor]

\* The role allows all of the capability, not only what is needed of it.
Allows(role, k, scope) == k.scopes \subseteq RoleScopes[role] /\ scope \in RoleScopes[role]

\* The signature, the time, the workspace, the scope and the path.
Verified(k, ask) ==
  /\ k \in Signed /\ k \notin expired
  /\ WorkspaceOf(ask.on) \in {Any, k.workspace}
  /\ ask.scope \in k.scopes
  /\ Checked(ask) # NoPath => Within(Checked(ask), k.prefix)

\* A request arrives; whatever is not verified is refused at once.  The actor
\* it names is the capability's, or else it is refused as well.
Arrive(c) ==
  /\ At(c, "idle")
  /\ \E ask \in Asks, k \in Capability :
       /\ Verified(k, ask)
       /\ Become(c, [stage |-> "denied?", ask |-> ask, cap |-> k,
                     void |-> k \in revoked, fits |-> Allows(RoleOf(k), k, ask.scope)])
  /\ UNCHANGED <<workspaces, members, home, revoked, expired, cut>>

LookInDenylist(c) ==
  /\ At(c, "denied?")
  /\ IF req[c].cap \in revoked THEN Reply(c)
     ELSE Goto(c, IF req[c].ask.kind = "create" THEN "exists?" ELSE "member?")
  /\ UNCHANGED <<workspaces, members, home, revoked, expired, cut>>

\* Mutant: the destination of a rename is not checked.
DestinationAny(r) == TRUE

\* The destination of a rename is checked once the rest is allowed.
DestinationFits(r) ==
  r.ask.kind = "rename" => Within(r.ask.other, r.cap.prefix)

LookAtMember(c) ==
  LET r == req[c]
  IN /\ At(c, "member?")
     /\ IF Allows(RoleOf(r.cap), r.cap, r.ask.scope) /\ DestinationFits(r)
        THEN Goto(c, "serve")
        ELSE Reply(c)
     /\ UNCHANGED <<workspaces, members, home, revoked, expired, cut>>

\* The handler's own work, which may make a row with the workspace's id.
Serve(c) ==
  /\ At(c, "serve")
  /\ IF req[c].ask.kind = "open"
     THEN \E o \in Object : /\ home[o] = None
                            /\ home' = [home EXCEPT ![o] = req[c].cap.workspace]
     ELSE UNCHANGED home
  /\ Reply(c)
  /\ UNCHANGED <<workspaces, members, revoked, expired, cut>>

-----------------------------------------------------------------------------
(* Making a workspace takes a capability for the role of an owner *)

LookAtWorkspace(c) ==
  LET k == req[c].cap
  IN /\ At(c, "exists?")
     /\ IF k.role = "owner" /\ k.workspace \notin workspaces
        THEN Goto(c, "create") ELSE Reply(c)
     /\ UNCHANGED <<workspaces, members, home, revoked, expired, cut>>

\* The id is the primary key: the second of two creations fails.
InsertWorkspace(c) ==
  LET w == req[c].cap.workspace
  IN /\ At(c, "create")
     /\ workspaces' = workspaces \cup {w}
     /\ IF w \in workspaces THEN Reply(c) ELSE Goto(c, "own")
     /\ UNCHANGED <<members, home, revoked, expired, cut>>

\* A change of a role, as it is seen by the requests under way.
Assign(k, role, rest) ==
  /\ members' = [members EXCEPT ![k.workspace][k.actor] = role]
  /\ req' = [d \in Client |->
       IF rest[d].stage \notin {"idle", "join"} /\ rest[d].cap.workspace = k.workspace /\ rest[d].cap.actor = k.actor
       THEN [rest[d] EXCEPT !.fits = @ \/ Allows(role, rest[d].cap, rest[d].ask.scope)]
       ELSE rest[d]]

\* It fails when the creator was made a member in between.
InsertOwner(c) ==
  LET k == req[c].cap
  IN /\ At(c, "own")
     /\ IF RoleOf(k) = None
        THEN Assign(k, "owner", [req EXCEPT ![c] = Idle])
        ELSE Reply(c) /\ UNCHANGED members
     /\ UNCHANGED <<workspaces, home, revoked, expired, cut>>

-----------------------------------------------------------------------------
(* Meanwhile *)

\* A claimed invite makes its principal a member, if there is no row yet; the
\* row is an upsert, and a role given in between is lost.
BeginJoin(c) ==
  /\ At(c, "idle")
  /\ \E w \in workspaces, a \in Actor, role \in DOMAIN RoleScopes \ {None} :
       /\ members[w][a] = None
       /\ Become(c, [stage |-> "join", workspace |-> w, actor |-> a, role |-> role])
  /\ UNCHANGED <<workspaces, members, home, revoked, expired, cut>>

Join(c) ==
  /\ At(c, "join")
  /\ Assign(req[c], req[c].role, [req EXCEPT ![c] = Idle])
  /\ UNCHANGED <<workspaces, home, revoked, expired, cut>>

\* A revoked invite denies the capability it gave.
Deny == /\ \E k \in Signed : revoked' = revoked \cup {k}
        /\ UNCHANGED <<workspaces, members, home, expired, cut, req>>

Expire == /\ \E k \in Signed : expired' = expired \cup {k}
          /\ UNCHANGED <<workspaces, members, home, revoked, cut, req>>

\* The Worker dies between two statements.
Die(c) ==
  /\ ~At(c, "idle")
  /\ cut' = cut \cup (IF At(c, "own") THEN {req[c].cap.workspace} ELSE {})
  /\ Reply(c)
  /\ UNCHANGED <<workspaces, members, home, revoked, expired>>

Next == \/ \E c \in Client :
             \/ Arrive(c) \/ LookInDenylist(c) \/ LookAtMember(c) \/ Serve(c)
             \/ LookAtWorkspace(c) \/ InsertWorkspace(c) \/ InsertOwner(c)
             \/ BeginJoin(c) \/ Join(c) \/ Die(c)
        \/ Deny \/ Expire

Spec == Init /\ [][Next]_vars

-----------------------------------------------------------------------------
(* Correctness *)

\* What is let through: a capability that was not denied when its request
\* arrived, for a role its holder has had since then, on a row of its own
\* workspace, and no draft changes that lies outside its prefix.
LetThrough ==
  \A c \in Client : At(c, "serve") =>
    LET r == req[c]
    IN /\ ~r.void /\ r.fits
       /\ r.cap.scopes \subseteq RoleScopes[r.cap.role] /\ r.ask.scope \in r.cap.scopes
       /\ WorkspaceOf(r.ask.on) \in {Any, r.cap.workspace}
       /\ \A p \in Changes(r.ask, r.cap) : Within(p, r.cap.prefix)

\* Nobody is a member of, and no row belongs to, a workspace that does not
\* exist; and one that exists has a member, unless its creation is under way or
\* was cut short.
Peopled ==
  /\ \A w \in Workspace, a \in Actor : members[w][a] # None => w \in workspaces
  /\ \A o \in Object : home[o] \in workspaces \cup {None}
  /\ \A w \in workspaces :
       \/ \E a \in Actor : members[w][a] # None
       \/ \E c \in Client : At(c, "own") /\ req[c].cap.workspace = w
       \/ w \in cut

\* The gate holds while capabilities and roles change under its requests.
GateKept == LetThrough /\ Peopled
=============================================================================
