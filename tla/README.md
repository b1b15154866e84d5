# Cairnstone V6: TLA+ models and proofs

Cairnstone V6 is a Cloudflare Worker (plain JavaScript, `src/src/*.js`) that
keeps the durable memory of coding agents: content-addressed stones with movable
heads, shared draft workspaces, code sessions, conversations, messages, task
runs, sandboxes and the authorization that guards them.  State lives in D1
(SQLite) and R2 (objects).  A Worker request is single-threaded, but many
requests run at once, every `await` lets others run, D1 gives atomicity only to
one statement (or one `batch`), and a request may be cut off between any two of
its calls.  Almost every handler is *read, decide, write*, with the guard
repeated, or not, in the `WHERE` clause of the write.  That gap is what these
models are about.

Paths below are relative to the repository root, which the project's files name
`src/`: the Worker's own code is `src/src/*.js`.

## 1. Inventory

| Component | State | Operations | What is hard | What makes it correct |
|---|---|---|---|---|
| Workspace drafts (`workspace.js`, `workspace-tree.js`) | R2 blobs, `workspace_revisions`, `workspace_tips`, `workspace_tree_ops` | write, write_content_ref, delete, rename, hydrate | compare-and-swap races, blob/row/tip written separately, ids reused | no last-write-wins; a tip is always backed by a row and a body |
| Workspace snapshots (`workspace.js`) | `workspace_snapshots` | freeze, propose_accept | two reads of a moving tip vector | a stored vector existed at one instant |
| Workspace gate (`workspace.js`, `workspace-tree.js`, `code-session.js`, `environment-sandbox.js`) | signed capabilities, members, deny list | verify, look up, serve; create and own | deny, role and row read one after the other | what is let through was allowed since it arrived |
| Workspace invites (`workspace-invite.js`) | invites, deny list, members | mint, claim, revoke | claim racing revoke, re-claim | a revoked invite gives no access |
| GitHub transport (`workspace-tree.js`) | `github_bind_json` | set, resolve, record | one JSON column written back whole after a call | a commit is one its branch was at |
| Code sessions (`code-session.js`) | sessions, tasks, checkpoints, events, receipts | create, transition, bind, checkpoint, compile_context | append-only rows written before the compare-and-swap | the row is an atomic register; its pointers are backed |
| Code session leases (`code-session.js`) | leases | acquire, renew, release, list | expiry against a late renew, overlapping scopes, read-then-insert | overlaps are explained; what ended stays ended |
| Environment and sandbox (`environment-sandbox.js`) | manifests, attachments, pointer, receipts | create, bind, attach, detach, receipt | attach racing attach, receipt after detach, a manifest its creator named unchecked | the pointer is the newest; commands are allowed |
| Conversation sessions (`conversation-session.js`) | sessions, turns | create, update, append | a turn inserted before the compare-and-swap | the log names durable turns, in order |
| TurnSync (`turnsync-ingest.js`, `turnsync-policy.js`) | policies, turn identities | gate, look up, append, retry | replays, a policy that changes, one second attempt | an acknowledged turn is in the log |
| Tool authorization (`tool-authorization.js`) | authorization, decision stone | request, prepare, decide, execute | execute raced by execute, death after the claim | one call per approval; outcomes stay |
| Task runs (`task-run.js`) | runs | propose, dispatch, cancel | dispatch racing cancel, children in two writes | terminal states stay; a child's references narrow |
| Access grants (`access-grant.js`) | grants | create, notify, first read, revoke | guarded UPDATE answered from a later SELECT | revoked for good |
| Correspondence (`correspondence.js`) | stones, deliveries; GitHub mirror | send, note, handoff, read | retry, two sends of one id, mirror after the commit | one stone per message; delivered stays |
| Worker sessions (`worker-session.js`) | task requests | pick up, delegate, reply | two workers on one request | delegated once but for known races |
| Stones and heads (`index.js`) | stones, edges, `chain_heads`, `path_heads`, freshness | create, commit, set_head, set_path_head, check | several statements, heads after | a head names a whole stone of its path |
| Repo stones (`repo-stones-*.js`) | stones and heads of a repository | ingest, reconcile, manifest | hundreds of statements without a transaction | a run that ends brings the chain to the tree |
| V5 import (`v5-import.js`) | raw objects, rows, index, heads | inspect, stage, set the head | death anywhere, replay, commits beside it | head last; replayable; no head of others replaced |
| Grounded responses, scopes (`grounded-response.js`, `vault-catalog.js`) | `grounded_responses`; reads heads | compile, show, expand, swap envelope | heads read one after the other around a model call | a given answer rests on accepted heads |
| Agent bootstrap (`agent-bootstrap.js`, `skills.js`) | reads heads | compile a package | dozens of reads while heads move | one generation, or none |
| Model router and delegate loop (`model-router.js`, `delegate-loop.js`) | per-request attempts and turns | failover, bounded read loop | fallback after partial answers, budgets | bounded turns; only reads run |
| Core authorization server (`core-auth.js`) | codes, connections, families, tokens, authenticators | redeem, rotate, use, revoke | one token used twice, revocation between steps | single use; nothing of a revoked family passes |
| User authentication (`oauth-user-auth.js`, `webauthn.js`) | authorize sessions, invites, passkeys, challenges | start, invite, assert, enroll, approve, deny | two sign-ins of one session, approve racing deny | one code per approved session |
| Private realm (`private-realm/`) | connections, inboxes, grants, messages | role, revoke, create, grant, ungrant, send, read, ack | authority checked, then written | each write is one the in-memory store makes |
| MCP sessions (`mcp-session.js`, `tool-catalog.js`) | `mcp_core_sessions` | initialize, load, expire | read-modify-write of the tool set | a loaded tool is not lost |
| Event journal and plane (`event-journal.js`, `event-plane.js`) | append-only journal | append, page by cursor | time taken before the insertion | a reader misses only late events |
| Pure policy and formatting (decision plane, context retention, intent router, executor profiles and adapters, attachment references, paid agent catalog, contracts, resource scope, realm guard) | none of their own | compute a plan or a verdict | input variety | functional |

How they interact: capabilities stand in front of workspaces, code sessions and
sandboxes; a proposal takes a snapshot and a transport pointer; TurnSync appends
through the conversation; worker sessions and grants send through
correspondence; a dispatch of a task run hands a package to an executor; stones
and their heads lie under authorization receipts, messages, imports, repository
ingestion, grounded responses and the bootstrap.  Where one component only reads
what another writes, or calls it, the other's part in it is an action of the
module's environment (tips move, heads move, roles change, branches are pushed);
where they share one row they are composed in one module.

## 2. Plan

Done: the draft plane and its snapshots, code sessions and leases, each with
proofs; then every component of the table above that keeps state, with the
liveness of TurnSync and of tool authorizations and the private home as an
implementation of the in-memory store; then the proofs: for the conversation with
TurnSync, for tool authorizations, access grants, task runs, MCP sessions and the
journal, for tokens, sign-ins and the private home with its refinement, for the
services around a workspace, for mail, for grounded answers, for delegations and
for the packages they are given, and for the stones of a repository.  Every safety
and action property that a run checks is now a theorem.

Left, in this order:

1. The operations that the partly modelled components miss (section 7): client
   registration and tenant versions of `core-auth.js`, the question to a single
   chain in `ask.js`, `forward-note.js`, the GitZip receipts.
2. Context retention and the decision plane as functions checked against a
   reference definition.

## 3. What is modelled

One convention everywhere: each D1 statement (or batch) and each R2 call is one
atomic step; `req` (or `job`, `request`, `mail`, `op`, `write`, `rpc`) holds, for
each request slot, where the handler is and what it has read; the values a later
statement uses come from there, never from the table.  A request whose checks fail
replies without changing anything, so only requests that pass are actions, except
where the failing path writes or its answer matters.  `Die` is the Worker stopping,
or a call throwing, between two statements.  Timestamps, texts, summaries and the
shape of replies are left out, `updated_at` included, where no property tells them
apart.  A hash is a model value, or the row it is a hash of.  Variables marked
*history* in the modules are not in the code; properties use them to say what raced.

### WorkspaceDraft (abstract: CasTree)

`revs` is `workspace_revisions`, `tips` is `workspace_tips`, `blobs` the objects in
R2, `treeOps` the audit table.  A revision id is a hash of (path, parent, content,
actor); the model identifies an id with the position of its row, so that
`INSERT OR IGNORE` on a known envelope reuses the old row (`RecordKnown`).

| Actions | Code |
|---|---|
| `BeginWrite`, `PutBlob`, `RecordNew`/`RecordKnown`, `CommitWrite` | `writeDraft`, `writeDraftFromContentRef` |
| `BeginDelete`, `Unlink`, `Audit` | `deleteDraft`, `deleteTipCas`, `insertTreeOp` |
| `BeginRename`, `ReadDestination`, `Unlink`, `LinkDestination` | `renameDraft` |
| `BeginHydrate`, `HydrateSkip`, `HydrateEntry`, `HydrateFallBack`, `HydrateEnd` | `hydrateWorkspaceFromGit` |
| `Die` | the Worker stops, or a call throws out of the handler |

`CasTree` promises that every path is a compare-and-swap register over an
append-only log: a path moves only to a child of the revision it holds, or
becomes empty.  The refinement maps a tip to its revision id and drops everything
else.

### WorkspaceSnapshot

`freezeWorkspaceSnapshot` and `propose_accept` above the registers of `CasTree`:
the vector is read, read again, stored, read a third time and published.  Reading
named paths is one SELECT per path (`ReadPath`); reading a prefix is one statement
(`ReadListing`).  `live` is a history variable: every vector the workspace had.

### CodeSessionRow, CodeSession (abstract: AtomicSession)

`CodeSessionRow` holds the row and what each UPDATE makes of it; it is used by
the detailed and by the abstract specification alike.  `CodeSession` runs the
requests: read the row and check `base_revision` (`Begin`), read the tips twice
(`FirstTips`, `SecondTips`), insert into the append-only table (`RecordCheckpoint`,
`RecordEvent`, `RecordReceipt`), then the UPDATE (`Commit`; `CommitBlind` for a
receipt without `base_revision`; `Refresh` for `compile_context`).
`AtomicSession` has no requests: each accepted operation applies to the row as it
stands.  The session's pointer to its latest sandbox attachment is in `Sandbox`.
The manifest a session is created with is in `Sandbox` too.  Not in either:
sessions created with a checkpoint, with receipts or with actors that their creator
names, and the texts a session carries.

### CodeLease

`leases` are the rows in the order they were inserted, `clock` the time in ticks,
`now` the time a request saw at its start.  Every handler first sweeps
(`ExpireStaleLeases`), then reads, then writes.  `ReadAcquire` sees what the
handler sees: live rows among the first `2 * MAX_LEASE_LIST` by expiry, ties broken
in any way.  `shared` and `missed` are histories used by the properties only:
whether the row was written with `allow_overlap`, and which leases were written
between the requester's look at the table and its own write.  Two agents that both
look before either writes do own the same scope; `OverlapIsExplained` says that
this is the only way, apart from `allow_overlap`.

### The services

The other components keep tables of their own and are one module each.
`AgentServices`, `AccountServices` and `WorkspaceServices` put those of one area
side by side: they declare constants and variables for all, instantiate each module
with them, say what a theorem has to know of the constants (`ScopesAreLists` and the
like), and name the properties that the runs check and the theorems state.  The MC
modules assume those conditions of their instances, so TLC evaluates them.  `MCServices` and
`MCWorkspaceServices` extend them with bounds, slices and a next-state relation.

| Module | State and tables | Requests | Checked |
|---|---|---|---|
| `Conversation` | `session` = `conversation_sessions` with its `message_log`, `turns`, `policy` = standing policies | create, update, append (`BeginAppend`, `ReadForAppend`, `InsertTurn`, `CommitTurn`); sync (`BeginSync`, `Lookup`, `Rows`/`Missing`, `Load`, `Gate`, the append, `Reload` and one second attempt); `BeginPolicy`, `CommitPolicy` | `ConversationKept`: the log's stubs have their rows, an acknowledged turn is in the log, a synced append was allowed by the policy of its scope. `ConversationMoves`: the log grows at its end while open, orphans stay orphans, nothing is replaced unread. `SyncsEnd` |
| `ToolAuthorization` | `auth` = the row and its decision stone, `head` = what it guards | request, prepare, persist; decide (`Claim`, `Evidence`/`Undecided`, `Settle`); execute (`Consume`, `Observe`, `Mismatch` or `Invoke`, `Verify`, `Finish`) | `ClaimsKept`: one call per approval, answers are what the row says. `OutcomesKept`: neither an outcome nor an abandoned claim changes. `ClaimsSettle` |
| `TaskRun` | `runs` = `task_runs` | propose, child (`InsertChild`, `ReadParent`, `ListChild`), dispatch (`Invoke`, `Record`), cancel | `FamilyKept`: listed children exist, references nest. `OverUnlessRaced` |
| `AccessGrant` | `grant` = the row, `sent` = its notice | create and notify, first read, revoke | `GrantKept`: revoked for good, answers hold |
| `WorkspaceInvite` | the invite, `denied`, `member` | mint, claim and join, revoke and deny, role changes | `RevocationHolds`: what a revoked invite recorded is denied, and it is final |
| `WorkspaceGate` | `workspaces`, `members`, `revoked`, `expired`, `home` = the workspace of each row | one entry of `Asks` per handler, with the scope, the paths and the row it names; creation of a workspace and its owner; joins | `GateKept`: what is let through was not denied when it arrived, is of the role and of the row's workspace, inside its prefix; a workspace that exists has a member unless its creation was cut short |
| `Correspondence` | `stones`, `delivery`, `mirror` | send, note, handoff (`Look`, `MakeStone`, `Deliver`, `MirrorLookup`, `MirrorPut`), read; a worker's tick (`PickTask`, `ReadTask`, `Delegate`) | `MailKept`: acknowledged means delivered, one stone per message, mirrors are of the delivered stone, delegated once but for known races, delivered and read stay |
| `Stones` | `stones` (row, refs, receipt), `pathHead`, `chainHead`, `edges`, `fresh` | commit in its separate writes, set_head, set_path_head, links, freshness check; `Push` in the repository | `HeadsKept`: heads are of their path and chain and complete, edges join stones, in sync means the same content |
| `Sandbox` | `manifests`, `attachments`, `receipts`, `box` = revision, manifest and pointer of the session | create, bind, annotate, attach and point, detach, receipt | `EnvironmentsKept`: the pointer leads to an attachment, the newest; attachments, recorded commands and a manifest bound later are of the workspace, whatever the session was created with; commands are allowed; what is over stays over |
| `McpSession` | `row` = `mcp_core_sessions` | create, load, set, expire, delete | `ToolsKept`: never above the limit, a loaded tool stays unless raced |
| `EventJournal` | `journal`, `taken` = `occurred_at` | take a time, insert, page | `PagesKept`: only late events are missed, none is shown twice |
| `V5Import` | `raw` in R2, `rows`, `index`, `place`, `chain` | inspection, raw, batch, index, head; commits beside it | `ImportsKept`: head last, replayable, heads of others kept |
| `CoreAuth` | `code`, `auth`, `grants`, `pairs` | redeem (`Claim`, `Check`, `Connect`, `StartFamily`, `IssueAccess`, `IssueRefresh`), call, rotate, revoke a token, a connection, an authenticator | `AuthorityKept`: one grant per code; after an answered revocation nothing is let through |
| `GithubBind` | `bind` = `github_bind_json`; `tip`, `was` external | set, propose, record; `Push` | `BindKept`: commits are of the branch beside them, the root moves as named or under an overtaken setter |
| `PrivateHome` (abstract: `HomeStore`) | `conns`, `inboxes`, `rights`, `messages`, `seen`, `acked` = `priv_*` | check, then one guarded statement or batch, then `Classify`; ensure, role, revoke, create, grant, ungrant, send, read, ack | `ImplementsHomeStore`, `HomeKept`: an admin is left, the revoked hold nothing, an answered send is stored |
| `AuthorizeSession` | `sessions`, `invites`, `challenges`, `passkeys`, `codes` | authorize, invite, assertion, enrollment, step-up, approve, deny, expiry | `SignInsKept`: one code per approved session, a verified user names a passkey of the account, invites are used once; `SignedInStays` |
| `Delegation` | per request: plan, route, turn, budgets | `PlanReads`, `Ground`, `Compile`, `Route`, `Call`, `Offered`, `EndTurn`; `ToolExecute` | `DelegationKept`: only reads of the profile run, within the budgets, grounding first; an answer ends a turn or the budget |
| `AgentBootstrap` | `heads` = what they named since the compile began | chain, paths, owner, guide, brief, skills, recall, and the reads again | `PackageKept`: one generation, evidence classed by the heads of the package, the brief fits the guide |
| `RepoStones` | `stones`, `pathHead`, `chainHead`, `edges`; `branch` external | ingestion file by file, orientation, architecture, lint, review; reconcile, manifest | `RepositoryKept`: heads are files, younger supersede, an ingestion that ended alone brought the chain to its tree |
| `Grounding` | `responses` = `grounded_responses`, `heads`, `scope` | seven passes of head reads, search, model, upsert; get, expand with freshness, envelope swap | `GroundedKept`: a given answer rests on accepted heads, current is current, levels are complete, nothing is lost or says another thing |

`HomeStore` is the in-memory store of `private-realm/`: each operation with all its
checks in one step.  `ImplementsHomeStore` says that every change of the tables by
the D1 store is such a step, so authority that is lost between a check and the
write is never acted on.

What these modules assume of the world around them, or leave to others:

* message ids are not shared between senders (`Correspondence`);
* the contents and branches of GitHub are external, and move by themselves
  (`Stones`, `RepoStones`, `GithubBind`, `V5Import`'s commits);
* the session revision in `Sandbox` is moved by binds only: other operations of
  the session are in `CodeSession`.  The manifest a session is created with may be
  any id (`createCodeSession` stores `environment_manifest_id` as it comes,
  `code-session.js:2052`): none, a manifest that is not there yet or never, or one of
  another workspace.  A bind, an attachment and a receipt look at the manifest they
  use and refuse such a one;
* stones outside a chain are left out of `Stones`;
* `PrivateHome`: one account with one home in one tenant, no archived inboxes;
  reads that only make a request give up early are the checks of `Check`; the
  in-memory store does not protect the last admin on a revocation and the D1 store
  does, so `HomeStore` has no such condition and `SomebodyAdministers` is the D1
  store's own;
* `AuthorizeSession`: whether a signature verifies is a yes or no; sign counts, rate
  limits and the closing of accounts are left out (a request may always `Stop`), and
  there is one challenge per purpose and session;
* `WorkspaceGate`: a signature is taken to hold, an actor who is not the
  capability's holder is refused, and of a list of proposed paths the first is the
  one that is checked, as in the code;
* `Delegation`: one request at a time, as it keeps no table; the stones of its
  receipts are left out; one provider stands for all that speak OpenAI's format;
* `ToolAuthorization`: one identity of the request, whose stone varies by its time;
* `Grounding`: one question about one repository's scope, no budget of bytes.

## 4. Runs and bounds

| Run | Instance | What it shows |
|---|---|---|
| `draft` | slice "edit": 2 requests, 1 path, write, content_ref, delete; slice "tree": 2 requests, 2 paths, delete, hydrate, and a rename that may die between any two statements; 3 revisions | concurrent edits keep the log and the tips together and implement `CasTree`; bodies exist, with a rename in two statements and a hydrate that falls back |
| `draft_encoding` (violation) | 1 request at a time, 1 path | an inline write over a `content_ref` tip keeps the tip's `content_ref` |
| `draft_rename` (violation) | 2 requests, 2 paths; write, delete, rename | a rename can end with its source gone and its destination another's |
| `snapshot_aba` (violation) | removals, 2 revisions | with removals two equal readings prove nothing |
| `session_tasks` | 2 requests, 1 task, 2 receipts, list limited to 1, receipts also without `base_revision` | the ledger follows its edges, every change has its event, the list of receipts stays in its limit |
| `session_checkpoints` | 2 requests that may die, 2 actors, moving tips | the row points to recorded checkpoints and implements `AtomicSession` |
| `leases` | slice "scopes": 2 agents, 2 leases, 2 ticks; slice "expiry": all four kinds, 1 lease, 3 ticks | overlapping leases are explained; what ended stays ended; only the owner ends what has not expired |
| `lease_crowded` (violation) | 1 request at a time, listing limited to 1 (the first 2 rows), 4 leases, three times to live, no ties in the table's order | released rows of a later expiry hide a live lease |
| `task_ceiling` (violation) | 1 client, parent and child, no override | a dispatched child holds more capabilities than its parent |
| `workspace` | `MCWorkspaceServices`: snapshots, invites, stones, freshness, sandboxes, environments, import, transport, gate, delegation, bootstrap | each keeps its own property with 2 requests that may die between their statements |
| `services` | `MCServices`: appends, turnsync, authorizations, task runs, grants, mail, worker, tools, journal, tokens, homes, letters, sign-ins, files, repository, manifests, answers, responses | the same for the services of accounts, agents and clients |
| `services_live` | `MCServices` under `LiveSpec`: turnsync, authorizations | claims settle and syncs end |

`workspace` and `services` hold several independent state spaces in one run:
`service` is chosen initially and never changes, the component it names moves, and
the variables of all others stay as their `Init` left them.  Nothing is lost by
this, because the components share no table; it would be lost by a product, whose
states nobody could count.  An invariant that is about one component is evaluated
in the slices where it moves.  Some components are explored in more than one slice
(`appends` and `turnsync`, `mail` and `worker`, `homes` and `letters`, `files`,
`repository` and `manifests`, `answers` and `responses`, `stones` and `freshness`,
`sandboxes` and `environments`): a slice restricts which requests meet, by a
condition on the next state in the MC module, and between them the slices fire
every action.  The comments there say what each slice keeps.

Two of the violation runs leave out what is not their question.  `draft_encoding`
has one request at a time, so its trace is an inline UPDATE over a `content_ref` tip;
with more requests an INSERT OR IGNORE that keeps an inline row of the same envelope
is a second way to such a tip.  `lease_crowded` has one request at a time and
(`OrderedSpec`) no two leases that tie in `ORDER BY expires_at DESC, acquired_at DESC`,
so what its acquire does not see was neither written in between nor left out by the
database's choice: two released leases of a later expiry are the two rows it reads.

A property that ends in `Kept` (and `ConversationMoves`, `RevocationHolds`) is the
conjunction of the named parts of its module, in the table above; a part is a
sentence of its own with its own comment.  `X == []I /\ [][A]_v` is used where
invariants and action properties of one component belong together.

The bounds are small because each hazard needs few actors: two requests on one
row, one deletion and one re-creation, one expiry, one move of a head.  Three
revisions are enough for a delete followed by an identical re-creation, which is
where ids are reused; two paths for a rename onto a path another request writes;
`MaxRefs = 1`, `MaxList = 1`, `MaxTools = 2`, `Limit = 1` for a list, a tool set or a
page that is full early.  A session of three revisions lets a request finish twice
while another holds the first.  Three runs give a root, a child and a
grandchild's proposal; two token pairs a rotation; two ingestions a retry after a
death and a change of the tree between; two responses a refresh of the first; three
moves of two chains' heads a return to a head that was left.  The generation of a
bootstrap's owner head stays fixed and the owner's chains move for tasks about the
present only, which halves two dimensions that no property relates.  `MaxDelay`,
the time a lease request may take, is less than any time to live, as a Worker's
request is.  Requests are interchangeable, and so are agents, which the symmetry
sets use; the liveness run uses no symmetry.

Deadlock is not checked because the bounded instances really stop: every bound
(`MaxRev`, `MaxLog`, `MaxClock`, `MaxLeases`, `MaxMoves` and the like) is a limit on
what has happened so far.

**Fairness.**  All runs but one check safety and assume none: every request may be
cut off by the platform between two calls, and nothing obliges a client to retry.
`services_live` asks what holds of requests that are *not* cut off.  `LiveSpec`
has no `Die`, and `Fairness` is `WF_vars(Step(c))` for each request in flight: an
awaited D1 call returns, or fails, and the handler goes on; a request need never
begin.  Weak fairness is enough, since no other request can disable the next step of
one that is under way.  Under it every claim of an authorization gets its outcome
and every sync is answered, although another client appends and updates between
its two attempts all the while: the code bounds its retries, it does not wait.

Every property of a passing run has a mutant: the definition a plausible bug
would change, named `...Unguarded`, `...WithoutBlob` and the like and marked
`Mutant` where it stands.

## 5. Proofs

All proofs are checked by TLAPS for every value of the constants, with the
assumptions named in the modules.  Each follows one pattern: an inductive
invariant `IInv`, the lemma `Init => IInv`, one lemma per action that the step
preserves it, and the temporal step.

| Module | Theorems | Assumes |
|---|---|---|
| `WorkspaceDraftProofs` | `InductiveInvariant`, `TypeCorrect`, `TipsAlwaysBackedByLog`, `InlineTipsAlwaysHaveBlob`, `DraftImplementsCasTree` | the constants' own assumptions |
| `WorkspaceSnapshotProofs` | `InductiveInvariant`, `StoredVectorsWereLive` | `Removals = FALSE` |
| `CodeSessionProofs` | `InductiveInvariant`, `TypeCorrect`, `CheckpointsAreBacked`, `LedgerIsExplained`, `TasksAlwaysFollowEdges`, `SessionIsAtomic` | for `SessionIsAtomic`: `Blind = FALSE` |
| `CodeLeaseProofs` | `InductiveInvariant`, `OverlapsAreExplained`, `EndedLeasesStayEnded`, `OnlyReleaseEnds` | `MaxLeases <= MaxList`: the listing shows every lease |
| `ConversationProofs` | `ConversationIsKept`, `ConversationMovesRight` | `ScopesAreLists`: there is something to append, and a scope is a finite list |
| | `MailIsKept` | nothing |
| | `ResponsesAreKept` | `ScopesAndLevels`: there is a chain and a head, and levels are counted from one |
| `AgentServiceProofs` | `ClaimsAreKept`, `OutcomesAreKept` | nothing |
| | `GrantIsKept` | `ClientsAreSomebody`: no client is called `"none"` |
| | `FamilyIsKept`, `OverIsFinal` | `CapsAreCaps`: what a dispatch names are capabilities, a depth is a number |
| | `ToolsAreKept` | `LimitIsNumber`: the limit of loaded tools is a number |
| | `PagesAreKept` | `EventsAreOrdered`: event ids are ordered, and a page has room for one |
| | `RepositoryIsKept` | `RepositoryIsListed`: a tree is a finite list of paths, and the limits are numbers |
| `AccountServiceProofs` | `AuthorityIsKept`, `HomeIsKept`, `HomeRefinesStore` | nothing |
| | `SignInsAreKept`, `SignedInIsFinal` | `AccountsAreNamed`: an invite is for an account, and no id of a session or a passkey is a value that says there is none |
| `WorkspaceServiceProofs` | `RevocationIsFinal`, `BindIsKept`, `EnvironmentsAreKept`, `ImportsAreKept` | nothing |
| | `HeadsAreKept` | `FilesArePlaces`: a file is a path of a chain |
| | `GateIsKept` | `CapabilitiesAreSigned`, `PathsAreCanonical`, `NamesAreNames`: a capability names a workspace, an actor and a prefix, a path has components, no workspace is called `"none"` |
| | `DelegationIsKept` | `BudgetsAreNumbers`: budgets are numbers, and a plan is a list of tools |
| | `PackageIsKept` | `RowsAreOfTheChain`: the search finds rows of the chain's paths, and its limits are numbers |

Why the invariants need strengthening:

* *Drafts.*  That a tip is backed by the log says nothing of a request about to
  move it.  `RequestOK` adds that a recorded request's id names a row with its
  own envelope (although `INSERT OR IGNORE` may have kept another's row), that
  the body of what it will publish is in R2, and which stages belong to which
  operation.
* *Snapshots.*  While nothing is removed, tips only grow.  What a request read of a
  path in its first reading is at most the tip when that reading ended, and what it
  reads in the second is at least that; if the two are equal, the instant between
  them had the vector.  `JobOK` says this half way through a reading.
* *Sessions.*  A request that still holds the row's revision holds the row's
  contents (`ReadIsCurrent`): the UPDATE computed from the old row is therefore the
  UPDATE of the row as it stands, which is the refinement step, and the step that
  shows that tasks follow their edges.  A blind receipt changes `refs` without a
  new revision, hence the assumption on the refinement.  `EventsRecorded` adds that
  a request about to move a task has its event in the table.
* *Leases.*  `OverlapIsExplained` speaks of leases live now; the proof needs all
  those not yet marked expired, and of a request: it is not late, it has swept what
  had expired when it started, and what it decided still holds but for leases
  written since.  That a request lasts at most `MaxDelay` ticks, less than any
  time to live, is what keeps a write from being born expired.
* *Conversations.*  A request that still holds the row's revision holds the row
  (`Current`), so the log it writes is the log as it stands with one turn more; its
  turn is already inserted, which no property of the log says of a request before
  its UPDATE.  A sync half way through the gate (`HalfWay`) has passed only scopes
  that had no policy when it arrived, or whose policy was changed since.
* *Tool authorizations.*  A claim has one holder: a request that is deciding or
  calling names the status and the claim the row has, and until the call of that
  request the tool has not run for this approval.
* *Grants.*  A request about to answer from a SELECT after its UPDATE relies on a
  reader or a revocation in the row, and both stay (`GrantRequestOK`, `GrantMovesOn`).
* *Tokens.*  A claimed code has one claimant.  The connection or the family of a
  revocation that was answered is revoked and stays so; a use that is already past
  the check of its family and began after that has a revoked connection still to
  meet.
* *Task runs.*  A run's references, its parent and its depth are written once, so
  what a proposal checked of the parent at its first read still holds when the row
  is inserted and listed, however long that takes and whoever lists meanwhile.  Whoever
  may still change a run that is over had read it before, and is known by its
  request (`TaskRequestOK`).
* *MCP sessions.*  What a load writes is computed from its first reading of the row
  and held against the limit before the UPDATE, so the invariant has the limit of the
  request too.  If the row is by then another than the one read, the UPDATE itself
  notes it in the history `meddled`.
* *Journal.*  Of the events in the journal that were not late, all up to where the
  last round began were shown; and half way through a round, what is older than an
  event already shown, and not covered by the last round, is shown too or older than
  all that was shown, so that it is still to come.  That a page is the newest of what
  is left, and that it is all of it when the page is not full, follows from counting a
  finite set (`EventCounting` and the lemmas after it).
* *Private home.*  Three things nobody takes back: that the home was found, that an
  inbox is the home's, and that a message was delivered; a request may rely on them
  after any number of other requests.  Everything else it read is asked again in the
  `WHERE` clause of its write, so at that statement the operation of the store is
  enabled, and every other step leaves the tables alone: this is `HomeMapped`, the
  refinement.  The last admin stays because the guard counts more than one, so one
  that is not the requester's target is left.
* *Sign-ins.*  An account that a session has, the account of a passkey and the
  session of a redeemed invite stay once they are set.  Of all requests at one
  session only the one that approved it mints, and only while there is no code
  (`SignInIInv`).
* *Invites.*  Unless the two crossed, a revocation under way holds the nonce the row
  has recorded, and of a revoked invite that nonce is denied or about to be.
* *GitHub transport.*  The commit a request has looked up is in the history of the
  branch beside it, and histories only grow; a root that was not named is the
  column's unless another setter came between.
* *Sandboxes.*  A manifest that could be used when a request looked at it is still
  there and of its class when the request writes, and an attachment stays once it is
  made, so the pointer leads to one.  Nothing is known of the manifest the session was
  created with, and nothing is needed: whoever uses it looks.  Unless two attaches
  crossed, who is about to set the pointer sets it to the newest.
* *Imports.*  At every stage of an import, what is there and what it has yet to write
  make up its snapshot, for objects, rows and index alike (`ImportRequestOK`); a head
  that no commit moved is the head of an import.
* *Stones.*  A stone that exists never changes its path, its chain or its content.  A
  stone without its references is being made, or was cut short and is known as such.
* *Gate.*  What was verified of a request (its scope, role, row and paths) holds while
  it is under way; a role implies its workspace, and a workspace has a member, is
  being given one, or was cut short.
* *Mail.*  A delivery and its stone stay once they are there, and so does that a message
  was read; a mirror under way holds the stone that was delivered, unless its lookup
  raced with another.  Each delegation is paid for by a tick that found the request
  delivered or read, so a second one needs a second tick that looked before the first
  had written.
* *Answers.*  What a pass read of a chain was its head then or is one it has left since,
  and a pass that met no single state of all chains leaves one that must come back to be
  read as it was.  A response keeps its text; the levels above it are copies of that text
  until someone compiles them again, and a `fresh` is known of heads since the row was
  loaded, not since it was shown.
* *Delegations.*  The reads of the grounding come before every call of the model and are
  the plan's own, within its budget; a turn has run no more than its share when it asks
  for the next.  The profile validator lets a plan have up to 25 live reads
  (`profiles.js:59`) and the loop at most 16 calls (`delegate-loop.js:19`): the bound on
  the whole run is that of the loop, or nothing but the grounding ran.
* *Packages.*  What was read was a head at or before the instant at which the first
  second reading ended, and what was read again was the same head at or after it
  (`BootByThen`, `BootSince`): without a return it was that head at this instant, for all
  pointers at once.  The manifest has three readings, in an order, and the last is its
  recheck.  The rows of the evidence are described by the ranks of the positions that
  are kept (`BootRanks`): each filter keeps the order, so the seeds stay in front, and the
  trim keeps the first row of the chain's head and of a path's.
* *Repositories.*  A stone never changes its path, sha or text and is never less whole
  (`RepoAges`), so what an ingestion has read or written stays true however many others
  run.  What it knows is said stage by stage (`RepoFullOK`): of each candidate that it
  is still to come, could not be fetched, or has a stone of the blob in the tree; that
  what it is about to supersede is older; that, once all are accepted, the heads it set
  are its own stones for as long as it is alone; and, past the chain's head, that the
  documenting links are written or still on its list.  `RepoLastOK` carries this from the
  end of the ingestion to the next one that begins, and so to the reconciliation.

Three assumptions restrict the program.  What happens without `Removals = FALSE` and
`MaxLeases <= MaxList` is shown by `snapshot_aba` and `lease_crowded`;
`Blind = FALSE` leaves out receipts without `base_revision`, which `session_tasks`
has.  The others say that constants are of the kind their names say.

Out of the provers' reach, and only model-checked: liveness under fairness
(`ClaimsSettle`, `SyncsEnd`), ENABLED, and what a recursive definition computes.

## 6. Where the code and its documents disagree

Five violation runs, each with the quoted line in `PROJECT.json`:

* an inline write over a `content_ref` tip leaves the encoding (`workspace.js:947`);
* a rename that loses its destination has already deleted its source
  (`workspace-tree.js:567`);
* a snapshot can mix instants when a path is deleted and re-created identically
  between its readings (`workspace.js:694`);
* released leases of a later expiry crowd a live one out of the overlap check
  (`code-session.js:733`);
* a child run proposed within its parent's capabilities is handed more of them at
  its dispatch (`task-run.js:824`).

Behaviours the models have, or that were met while reading, and that no property
forbids:

* *Drafts and sessions.*  A path re-created with the envelope of an earlier
  revision may come to name a row that a deletion wrote; an acquire that extends
  its own lease answers `renewed_existing` without looking at whether the UPDATE
  changed anything; a receipt without `base_revision` may drop another receipt's
  reference; a checkpoint that read the tips earlier may put an older vector back
  under a newer revision (`code-session.js:2217`); a checkpoint whose request died
  after the INSERT is refused on retry until the session moves on.
* *Conversations and authorizations.*  An append that lost its compare-and-swap, or
  died before it, leaves its turn row, and every further sync of that identity is
  refused (`OrphansStay`); an authorization whose request died after its claim stays
  `deciding` or `consuming` (`AbandonedStays`).
* *Workspaces.*  A claim that falls between a revocation's read and its deny leaves
  a fresh nonce undenied (`crossed` in `WorkspaceInvite`); of a list of proposed
  paths only the first is held against the prefix; a claim racing the owner's
  insertion may overwrite the role it gave; a workspace whose creation died has no
  owner.
* *Sandboxes.*  A session may name a manifest that is missing or another workspace's
  from its creation until it is bound to one (`code-session.js:2052`).
* *Imports.*  The comment at `v5-import.js:466` says that failures before the chain's
  head leave rows non-canonical, but path heads are written in the same batch, before
  the index and the chain's head.
* *Repositories.*  A stone cut short between its row and its references is found by
  the index of prior stones and reused for ever; files are fetched by the branch's
  name, not the tree's commit, so a stone's recorded sha may name other content
  (a later reconcile uses the blob's own sha and says "changed"); overlapping
  ingestions may set a head back; removed files keep their path heads; edges lost
  in a death are not made later; a truncated tree is accepted by ingestion and
  refused by reconciliation.
* *Grounded responses.*  Compiling a response again under the same id overwrites its
  levels and its envelope's history while the skeleton stays, so its levels may mix
  two texts, although `docs/V7_7_8A` has an expansion render the same skeleton;
  concurrent expansions lose each other's levels; classes that rest on path heads
  are never read again; all heads are known to have been accepted at once only while
  no chain returns to one it had left.
* *Bootstrap.*  `V7_0_CONTEXT_COMPILER_CONTRACT.md:553` asks for a recheck of what was
  used; skill path heads are not among what is read again, and a head that moved
  there and back compares equal.  The structural seed required at line 437 is
  dropped when rows of the chain's head fill `max_memory_hits`.
* *Delegation.*  A delegation stopped by its budget answers `ok` although its last
  turn still asked for reads (`delegate-loop.js:379`); a receipt stone that could
  not be made yields no receipt and no error (`model-router.js:2638`); a failed
  grounding reports no executed tools although reads ran; attempts do not count the
  candidates that failed.
* *Accounts.*  A connection minted under an account takes the account's version
  only, while freshness asks for the larger of the account's and the membership's.
* *Context retention* (not modelled).  `KEEP_REF` asks whether a reference is
  there, `rehydrateRoute` whether it is exact: a read kept as `repo:o/r@main/path`
  is refused when it is asked for again (`context-retention.js`), while
  `docs/V7_7_10G_CONTEXT_RETENTION_PLANE.md` wants more caution where the original
  cannot be recovered exactly.

## 7. What is not modelled

`PROJECT.json` lists every component with its reason.  In short:

* decisions and texts computed from one input, which keep no state: context
  retention, the decision plane, the intent router with executor profiles and
  adapters, attachment references, identities of the paid agent catalog, resource
  scopes and the realm guard, the computer contract;
* listings over the tables of other components: unified conversations, the code
  session console, inboxes, trees and diffs;
* input and output: the HTTP and MCP entry point, the providers' wire formats, the
  browser panel, the staging gateway (a proxy that only asks whether a token
  family is live), deployment and acceptance scripts.

Of the modelled components the omissions are: GitZip receipts (drafts); a session
created with a checkpoint, receipts or actors its creator names; accounts, tenants and their versions,
client registration and its rate limit (`CoreAuth`, where they may refuse at any
time); rate limits, sign counts and the bootstrap of the first account
(`AuthorizeSession`); the workers around the private realm and where a long body is
put; `forward-note.js`, which sends a copy of a message through correspondence; the
question to a single chain in `ask.js`; lint and agent of the skills; the inbox,
capabilities and size in bytes of a bootstrap package.
