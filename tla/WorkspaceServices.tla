-------------------------- MODULE WorkspaceServices --------------------------
(***************************************************************************)
(* The services around a workspace, side by side: its invites and the gate  *)
(* in front of it, its GitHub transport, stones with their heads, the       *)
(* import of a chain, the environment of a code session, delegations to a   *)
(* model, and the compile of an agent's package.  They share the Worker and *)
(* its clients, and no table.                                               *)
(***************************************************************************)
EXTENDS Naturals, Sequences

CONSTANTS
  Client,                        \* concurrent requests
  MaxNonce,
  Branch, Root, MaxCommit,
  Agent, Manifest, Attachment, BoxClass, Command, Permitted, MaxRev,
  Archive,
  StoneId, File, Content,
  Actor, Workspace, Object, Folder, Capability,
  AutomaticRead, Mutation, Withdrawn, ProfileTool, Plan, Keyed,
  MaxLive, MaxTurns, MaxCalls, MaxPerTurn, MaxRoute, MaxIntents,
  Version, BriefFor, Found, Hits, Room, MaxMoves

VARIABLES
  invite, denied, member, issued, crossed, inviteReq,
  stones, pathHead, chainHead, edges, source, fresh, broken, write,
  manifests, attachments, box, receipts, newest, overtaken, op,
  raw, rows, index, place, chain, moved, complete, wrote, refused, importJob,
  bind, tip, was, pointers, request,
  workspaces, members, home, revoked, expired, cut, gateReq,
  delegation, ran, asked, told,
  heads, compile, package

Invites == INSTANCE WorkspaceInvite WITH req <- inviteReq
Github  == INSTANCE GithubBind
Box     == INSTANCE Sandbox WITH
  Actor <- Agent, Class <- BoxClass, Allows <- Permitted, crossed <- overtaken
Import  == INSTANCE V5Import WITH Bundle <- Archive, job <- importJob
Heads   == INSTANCE Stones WITH Stone <- StoneId
Gate    == INSTANCE WorkspaceGate WITH Path <- Folder, req <- gateReq
Delegate == INSTANCE Delegation WITH job <- delegation
Boot    == INSTANCE AgentBootstrap WITH job <- compile, told <- package

inviteVars == <<invite, denied, member, issued, crossed, inviteReq>>
stoneVars  == <<stones, pathHead, chainHead, edges, source, fresh, broken, write>>
boxVars    == <<manifests, attachments, box, receipts, newest, overtaken, op>>
importVars == <<raw, rows, index, place, chain, moved, complete, wrote, refused, importJob>>
githubVars == <<bind, tip, was, pointers, request>>
gateVars   == <<workspaces, members, home, revoked, expired, cut, gateReq>>
delegationVars == <<delegation, ran, asked, told>>
bootstrapVars == <<heads, compile, package>>

-----------------------------------------------------------------------------
(* What the constants are, where a theorem needs to know *)

\* A place is a path and a chain.
FilesArePlaces == File \subseteq Heads!FilePath \X Heads!Chain

\* A capability names a workspace, an actor and a path of components.
CapabilitiesAreSigned ==
  \A k \in Capability : k.workspace \in Workspace /\ k.actor \in Actor /\ k.prefix \in Seq(STRING)

\* Canonical paths have components.
PathsAreCanonical == Folder \subseteq Seq(STRING) /\ Gate!NoPath \notin Folder

\* No workspace has the name that says there is none.
NamesAreNames == Gate!None \notin Workspace

\* Budgets are numbers, and a plan is a list of tools.
BudgetsAreNumbers ==
  MaxLive \in Nat /\ MaxCalls \in Nat /\ MaxPerTurn \in Nat /\ Plan \subseteq Seq(STRING)

\* The search over refs finds rows of the chain; its limits are numbers.
RowsAreOfTheChain ==
  /\ Hits \subseteq Nat /\ Room \in Nat
  /\ Found \subseteq Seq([path: Boot!Target, stone: Version, ref: Nat])

-----------------------------------------------------------------------------
(* Properties, each of the service it names *)

\* What a revoked invite recorded is denied, and a revocation is final.
RevocationHolds == Invites!RevocationHolds

\* Heads are of their path and chain, and complete; edges join stones.
HeadsKept == Heads!HeadsKept

\* The pointer of a session, its manifests and the commands they allow.
EnvironmentsKept == Box!EnvironmentsKept

\* The head of an import comes last, and replaces no head of others.
ImportsKept == Import!ImportsKept

\* Commits are of the branch beside them.
BindKept == Github!BindKept

\* What a capability lets through was allowed since it arrived.
GateKept == Gate!GateKept

\* What a delegation runs, in which order, and when it answers.
DelegationKept == Delegate!DelegationKept

\* What an agent's package is made of.
PackageKept == Boot!PackageKept
=============================================================================
