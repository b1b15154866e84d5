------------------------------- MODULE Sandbox -------------------------------
(***************************************************************************)
(* The environment of one code session: manifests, the one the session is   *)
(* bound to by a compare-and-swap of its revision, sandbox attachments with *)
(* the session's pointer to the latest, and the receipts of what ran.       *)
(***************************************************************************)
EXTENDS Naturals

CONSTANTS
  Client,      \* concurrent requests
  Actor,       \* who attaches and detaches
  Manifest,    \* manifest ids
  Attachment,  \* attachment ids
  Class,       \* sandbox_execution_class
  Command,     \* command_class
  Allows,      \* Allows[class]: the commands of a class
  MaxRev       \* bound: session_revision

VARIABLES
  manifests,    \* environment_manifests
  attachments,  \* code_session_sandbox_attachments
  box,          \* the session's revision, manifest and latest attachment
  receipts,     \* code_session_execution_receipts
  newest,       \* history: the attachment inserted last
  crossed,      \* history: two attachments crossed, or one was cut short
  op            \* the request each client is working on

vars == <<manifests, attachments, box, receipts, newest, crossed, op>>

-----------------------------------------------------------------------------
None == "none"
NoManifest == [class |-> None, home |-> FALSE, bound |-> FALSE]
NoAttachment == [status |-> None]
Over == {"detached", "destroyed"}
Idle == [stage |-> "idle"]

\* The creator of the session may name a manifest, and nothing looks whether it
\* is there or of which workspace: one that is not may appear later in either.
Init == /\ manifests = [m \in Manifest |-> NoManifest]
        /\ attachments = [a \in Attachment |-> NoAttachment]
        /\ box \in [rev: {1}, manifest: Manifest \cup {None}, latest: {None}]
        /\ receipts = {}
        /\ newest = None
        /\ crossed = FALSE
        /\ op = [c \in Client |-> Idle]

Become(c, r) == op' = [op EXCEPT ![c] = r]
Reply(c) == Become(c, Idle)
At(c, stage) == op[c].stage = stage

\* In the session's workspace (home), or in another.
Known(m) == m # None /\ manifests[m] # NoManifest
Usable(m) == Known(m) /\ manifests[m].home
Exists(a) == attachments[a] # NoAttachment

-----------------------------------------------------------------------------
CreateManifest ==
  /\ \E m \in Manifest, k \in Class, home \in BOOLEAN :
       /\ ~Known(m)
       /\ manifests' = [manifests EXCEPT ![m] = [class |-> k, home |-> home, bound |-> FALSE]]
  /\ UNCHANGED <<attachments, box, receipts, newest, crossed, op>>

BeginBind(c) ==
  /\ At(c, "idle")
  /\ \E m \in Manifest :
       Usable(m) /\ Become(c, [stage |-> "bind", manifest |-> m, base |-> box.rev])
  /\ UNCHANGED <<manifests, attachments, box, receipts, newest, crossed>>

Bind(c) ==
  /\ At(c, "bind")
  /\ box.rev < MaxRev
  /\ IF box.rev = op[c].base
     THEN /\ box' = [box EXCEPT !.rev = @ + 1, !.manifest = op[c].manifest]
          /\ Become(c, [stage |-> "annotate", manifest |-> op[c].manifest])
     ELSE Reply(c) /\ UNCHANGED box
  /\ UNCHANGED <<manifests, attachments, receipts, newest, crossed>>

Annotate(c) ==
  /\ At(c, "annotate")
  /\ manifests' = [manifests EXCEPT ![op[c].manifest].bound = TRUE]
  /\ Reply(c)
  /\ UNCHANGED <<attachments, box, receipts, newest, crossed>>

-----------------------------------------------------------------------------
(* attachSandbox: the manifest named, or the session's *)

BeginAttach(c) ==
  /\ At(c, "idle")
  /\ \E m \in Manifest \cup {box.manifest}, a \in Attachment, who \in Actor :
       /\ Usable(m)
       /\ Become(c, [stage |-> "attach", manifest |-> m, id |-> a, actor |-> who])
  /\ UNCHANGED <<manifests, attachments, box, receipts, newest, crossed>>

\* The id is a primary key.
Attach(c) ==
  /\ At(c, "attach")
  /\ IF Exists(op[c].id)
     THEN Reply(c) /\ UNCHANGED <<attachments, newest, crossed>>
     ELSE /\ attachments' = [attachments EXCEPT ![op[c].id] =
               [status |-> "attached", manifest |-> op[c].manifest, actor |-> op[c].actor]]
          /\ newest' = op[c].id
          /\ crossed' = (crossed \/ \E d \in Client : At(d, "point"))
          /\ Become(c, [op[c] EXCEPT !.stage = "point"])
  /\ UNCHANGED <<manifests, box, receipts>>

\* Mutant: the first attachment keeps the pointer.
PointFirst(c) ==
  /\ At(c, "point")
  /\ box' = [box EXCEPT !.latest = IF @ = None THEN op[c].id ELSE @]
  /\ Reply(c)
  /\ UNCHANGED <<manifests, attachments, receipts, newest, crossed>>

\* Without a look at the revision, and without a new one.
Point(c) ==
  /\ At(c, "point")
  /\ box' = [box EXCEPT !.latest = op[c].id]
  /\ Reply(c)
  /\ UNCHANGED <<manifests, attachments, receipts, newest, crossed>>

-----------------------------------------------------------------------------
BeginDetach(c) ==
  /\ At(c, "idle")
  /\ \E a \in Attachment, next \in Over :
       /\ Exists(a) /\ attachments[a].status \notin Over
       /\ Become(c, [stage |-> "detach", id |-> a, next |-> next])
  /\ UNCHANGED <<manifests, attachments, box, receipts, newest, crossed>>

\* By the owner, whatever the status has become.
Detach(c) ==
  /\ At(c, "detach")
  /\ attachments' = [attachments EXCEPT ![op[c].id].status = op[c].next]
  /\ Reply(c)
  /\ UNCHANGED <<manifests, box, receipts, newest, crossed>>

-----------------------------------------------------------------------------
(* createExecutionReceipt; how the session's list of receipts is kept is the *)
(* code session's matter *)

\* Of the manifest named, or the session's; without either there is no class
\* that allows a command, whatever the attachment says.
ReceiptAllowed(m, a, k) ==
  /\ Usable(m)
  /\ k \in Allows[manifests[m].class]

BeginReceipt(c) ==
  /\ At(c, "idle")
  /\ \E m \in Manifest \cup {box.manifest}, a \in {x \in Attachment : Exists(x)} \cup {None},
        k \in Command :
       /\ ReceiptAllowed(m, a, k)
       /\ Become(c, [stage |-> "receipt", manifest |-> m, id |-> a, command |-> k])
  /\ UNCHANGED <<manifests, attachments, box, receipts, newest, crossed>>

InsertReceipt(c) ==
  /\ At(c, "receipt")
  /\ receipts' = receipts \cup
       {[manifest |-> op[c].manifest, id |-> op[c].id, command |-> op[c].command]}
  /\ Reply(c)
  /\ UNCHANGED <<manifests, attachments, box, newest, crossed>>

-----------------------------------------------------------------------------
Die(c) ==
  /\ ~At(c, "idle")
  /\ crossed' = (crossed \/ At(c, "point"))
  /\ Reply(c)
  /\ UNCHANGED <<manifests, attachments, box, receipts, newest>>

Next == CreateManifest \/ \E c \in Client :
          \/ BeginBind(c) \/ Bind(c) \/ Annotate(c)
          \/ BeginAttach(c) \/ Attach(c) \/ Point(c)
          \/ BeginDetach(c) \/ Detach(c)
          \/ BeginReceipt(c) \/ InsertReceipt(c) \/ Die(c)
Spec == Init /\ [][Next]_vars

-----------------------------------------------------------------------------
(* Properties *)

\* The session's latest attachment is the one inserted last, unless two crossed
\* between the insertion and the pointer, or one was cut short there.
LatestIsNewest ==
  ~crossed /\ (\A c \in Client : ~At(c, "point")) => box.latest = newest

\* An attachment that was detached or destroyed is never live again, though
\* requests that read it live may still change which of the two it is.
OverForGood ==
  [][\A a \in Attachment : attachments[a].status \in Over => attachments'[a].status \in Over]_vars

\* Whatever the session was created with, its attachments and the recorded
\* commands are of manifests of its own workspace, and the latest attachment is
\* one that is there.
EnvironmentAtHome ==
  /\ \A a \in Attachment : Exists(a) => Usable(attachments[a].manifest)
  /\ \A r \in receipts : Usable(r.manifest)
  /\ box.latest # None => Exists(box.latest)

\* A session that changes its manifest changes to one of its own workspace,
\* though the manifest was looked at before the compare-and-swap.
BoundAtHome == [][box'.manifest # box.manifest => Usable(box'.manifest)]_vars

\* Every recorded command was one its manifest's class allows, whatever the
\* session has been bound to since it was checked.
CommandsAllowed ==
  \A r \in receipts : r.command \in Allows[manifests[r.manifest].class]

\* A session's attachments, the pointer to them and the commands recorded in
\* them agree, although each is written by a statement of its own and the
\* manifest of the session itself may be missing or another workspace's.
EnvironmentsKept ==
  /\ [](LatestIsNewest /\ EnvironmentAtHome /\ CommandsAllowed)
  /\ BoundAtHome /\ OverForGood
=============================================================================
