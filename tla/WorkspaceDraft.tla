--------------------------- MODULE WorkspaceDraft ---------------------------
(***************************************************************************)
(* The draft plane of one shared workspace: content-addressed blobs in R2, *)
(* the append-only table workspace_revisions and the mutable per-path tip   *)
(* table workspace_tips in D1.  Requests run concurrently: every D1         *)
(* statement and every R2 call is one atomic step, and between two of them  *)
(* any other request may run, or the request itself may die with its        *)
(* Worker.                                                                  *)
(*                                                                         *)
(* A revision id is the SHA-256 of (path, parent, content hash, actor), so  *)
(* two rows with the same envelope have the same id and INSERT OR IGNORE    *)
(* keeps the first.  The model hash-conses: an id is the position of its    *)
(* row in revs, and a row whose envelope is already there reuses that       *)
(* position.  Ids start at 1; 0 is SQL's NULL.                              *)
(***************************************************************************)
EXTENDS Naturals, Sequences

CONSTANTS
  Client,     \* concurrent request slots
  Path,       \* canonical workspace paths
  Content,    \* content hashes
  EmptyText,  \* the hash of the empty text, which deleteDraft records
  GitRef,     \* hashes of Git blob ids, which stand for bodies kept in Git
  Actor,      \* actor ids
  Kinds,      \* the operations this instance offers
  MaxRev,     \* bound: rows in workspace_revisions
  Mortal      \* the kinds of request that may die between two steps

OpKinds == {"write", "content_ref", "delete", "rename", "hydrate"}

ASSUME NonEmptyAssumption   == Path # {} /\ Actor # {}
ASSUME EmptyTextAssumption == EmptyText \in Content
ASSUME GitRefAssumption    == GitRef \subseteq Content \ {EmptyText}
ASSUME KindsAssumption     == Kinds \subseteq OpKinds
ASSUME MaxRevAssumption    == MaxRev \in Nat
ASSUME MortalAssumption    == Mortal \subseteq {"write", "content_ref", "delete", "rename"}

VARIABLES
  revs,     \* workspace_revisions, in insertion order
  tips,     \* workspace_tips
  blobs,    \* content hashes with an object in R2
  treeOps,  \* workspace_tree_ops
  req       \* the request each slot is working on

vars == <<revs, tips, blobs, treeOps, req>>

-----------------------------------------------------------------------------
(* Rows *)

Encoding == {"utf8_text", "content_ref", "tombstone"}

\* `path` is the path that was hashed into the id; `at` is the path column,
\* which for a rename is the source while the hashed path is the destination.
Revision == [path: Path, parent: Nat, content: Content, actor: Actor,
             op: {"write", "delete", "rename"}, encoding: Encoding, at: Path]

Tip   == [rev: Nat, content: Content, encoding: Encoding]
NoTip == [rev |-> 0, content |-> EmptyText, encoding |-> "tombstone"]

HasTip(p) == tips[p].rev # 0

TreeOp == [op: {"delete", "rename", "content_ref", "hydrate"},
           base: Nat, result: Nat]

SameEnvelope(r, s) == /\ r.path = s.path
                      /\ r.parent = s.parent
                      /\ r.content = s.content
                      /\ r.actor = s.actor

(* Requests.  `base` is base_revision, `rev` the revision id computed for   *)
(* the request, `todo` the entries a hydrate has still to visit.            *)

Stage == {"idle", "dest", "blob", "record", "commit", "link", "audit", "next"}

Request == [stage: Stage, op: {"write", "content_ref", "delete", "rename"},
            path: Path, to: Path, content: Content, encoding: Encoding,
            base: Nat, actor: Actor, rev: Nat,
            hydrating: BOOLEAN, todo: SUBSET Path]

AnyPath  == CHOOSE p \in Path : TRUE
AnyActor == CHOOSE a \in Actor : TRUE

Idle == [stage |-> "idle", op |-> "write", path |-> AnyPath, to |-> AnyPath,
         content |-> EmptyText, encoding |-> "utf8_text", base |-> 0,
         actor |-> AnyActor, rev |-> 0, hydrating |-> FALSE, todo |-> {}]

Init == /\ revs = <<>>
        /\ tips = [p \in Path |-> NoTip]
        /\ blobs = {}
        /\ treeOps = {}
        /\ req = [c \in Client |-> Idle]

-----------------------------------------------------------------------------
(* Steps shared by the handlers *)

\* The check every handler makes against the tip it has just read: a null
\* base only where there is no tip, otherwise exactly the tip's revision.
BaseMatches(p, base) == tips[p].rev = base

\* Where a request goes when its current operation is over: a hydrate moves
\* on to its next entry, anything else replies.
Over(r) == IF r.hydrating
           THEN [Idle EXCEPT !.stage = "next", !.actor = r.actor,
                             !.hydrating = TRUE, !.todo = r.todo]
           ELSE Idle

Become(c, r)   == req' = [req EXCEPT ![c] = r]
Goto(c, stage) == Become(c, [req[c] EXCEPT !.stage = stage])
Reply(c)       == Become(c, Over(req[c]))

\* writeDraft puts the blob first; the other operations have no body to put.
FirstStage(op) == CASE op = "write"  -> "blob"
                    [] op = "rename" -> "dest"
                    [] OTHER         -> "record"

\* A request that has passed its first read.
Operation(op, p, q, x, encoding, base, a) ==
  [stage |-> FirstStage(op), op |-> op, path |-> p, to |-> q, content |-> x,
   encoding |-> encoding, base |-> base, actor |-> a, rev |-> 0,
   hydrating |-> FALSE, todo |-> {}]

\* The text of a write is hashed; a content_ref brings any hash with it, and
\* the ones that hydrate makes up are hashes of Git blob ids.
WriteContent(op)   == IF op = "write" THEN Content \ GitRef ELSE Content
HydrateContent(op) == IF op = "write" THEN Content \ (GitRef \cup {EmptyText})
                                      ELSE GitRef

WriteEncoding(op) == IF op = "write" THEN "utf8_text" ELSE "content_ref"

-----------------------------------------------------------------------------
(* Arrival of a request: validation and the first read of the tip.  A       *)
(* request that fails either replies without having changed anything, so    *)
(* only the ones that pass are actions.                                     *)

BeginWrite(c) ==
  \E op \in {"write", "content_ref"} \cap Kinds, p \in Path, a \in Actor,
     base \in 0..Len(revs) : \E x \in WriteContent(op) :
    /\ req[c].stage = "idle"
    /\ BaseMatches(p, base)
    /\ Become(c, Operation(op, p, p, x, WriteEncoding(op), base, a))
    /\ UNCHANGED <<revs, tips, blobs, treeOps>>

\* deleteDraft records the hash of the empty text under the tip it deletes.
BeginDelete(c) ==
  \E p \in Path, a \in Actor, base \in 1..Len(revs) :
    /\ "delete" \in Kinds
    /\ req[c].stage = "idle"
    /\ BaseMatches(p, base)
    /\ Become(c, Operation("delete", p, p, EmptyText, "tombstone", base, a))
    /\ UNCHANGED <<revs, tips, blobs, treeOps>>

\* renameDraft carries the content and the encoding of the tip it has read.
BeginRename(c) ==
  \E p, q \in Path, a \in Actor, base \in 1..Len(revs) :
    /\ "rename" \in Kinds
    /\ req[c].stage = "idle"
    /\ p # q
    /\ BaseMatches(p, base)
    /\ Become(c, Operation("rename", p, q, tips[p].content,
                           tips[p].encoding, base, a))
    /\ UNCHANGED <<revs, tips, blobs, treeOps>>

\* renameDraft's second read: the destination must have no tip.
ReadDestination(c) ==
  /\ req[c].stage = "dest"
  /\ IF HasTip(req[c].to) THEN Reply(c) ELSE Goto(c, "record")
  /\ UNCHANGED <<revs, tips, blobs, treeOps>>

PutBlob(c) ==
  /\ req[c].stage = "blob"
  /\ blobs' = blobs \cup {req[c].content}
  /\ Goto(c, "record")
  /\ UNCHANGED <<revs, tips, treeOps>>

-----------------------------------------------------------------------------
(* INSERT OR IGNORE INTO workspace_revisions *)

\* Mutant: the operation is stored as it is audited.
RowOfAudited(r) ==
  [path |-> IF r.op = "rename" THEN r.to ELSE r.path, parent |-> r.base,
   content |-> r.content, actor |-> r.actor, op |-> r.op,
   encoding |-> r.encoding, at |-> r.path]

RowOf(r) ==
  [path     |-> IF r.op = "rename" THEN r.to ELSE r.path,
   parent   |-> r.base,
   content  |-> r.content,
   actor    |-> r.actor,
   op       |-> IF r.op = "content_ref" THEN "write" ELSE r.op,
   encoding |-> r.encoding,
   at       |-> r.path]

RecordNew(c) ==
  /\ req[c].stage = "record"
  /\ Len(revs) < MaxRev
  /\ \A i \in 1..Len(revs) : ~SameEnvelope(revs[i], RowOf(req[c]))
  /\ revs' = Append(revs, RowOf(req[c]))
  /\ Become(c, [req[c] EXCEPT !.stage = "commit", !.rev = Len(revs) + 1])
  /\ UNCHANGED <<tips, blobs, treeOps>>

\* The id is taken: the row that is there stays as it is.
RecordKnown(c) ==
  /\ req[c].stage = "record"
  /\ \E i \in 1..Len(revs) :
       /\ SameEnvelope(revs[i], RowOf(req[c]))
       /\ Become(c, [req[c] EXCEPT !.stage = "commit", !.rev = i])
  /\ UNCHANGED <<revs, tips, blobs, treeOps>>

-----------------------------------------------------------------------------
(* The statement that moves the tip *)

\* The UPDATE of writeDraft sets revision_id and content_hash only; the one
\* of writeDraftFromContentRef (updateTipCas) also sets the encoding.
EncodingAfter(r, old) ==
  IF r.op = "write" /\ r.base # 0 THEN old.encoding ELSE r.encoding

\* Mutant: the UPDATE has no "AND revision_id = ?", so the last write wins.
CommitWriteUnguarded(c) ==
  LET r == req[c] IN
  /\ r.stage = "commit"
  /\ r.op \in {"write", "content_ref"}
  /\ tips' = [tips EXCEPT ![r.path] =
                 [rev |-> r.rev, content |-> r.content,
                  encoding |-> EncodingAfter(r, tips[r.path])]]
  /\ IF r.op = "content_ref" THEN Goto(c, "audit") ELSE Reply(c)
  /\ UNCHANGED <<revs, blobs, treeOps>>

\* INSERT of a new tip or compare-and-swap of an existing one: both take
\* effect exactly when the tip is still what the request has read.
CommitWrite(c) ==
  LET r == req[c] IN
  /\ r.stage = "commit"
  /\ r.op \in {"write", "content_ref"}
  /\ IF BaseMatches(r.path, r.base)
     THEN /\ tips' = [tips EXCEPT ![r.path] =
                        [rev |-> r.rev, content |-> r.content,
                         encoding |-> EncodingAfter(r, tips[r.path])]]
          /\ IF r.op = "content_ref" THEN Goto(c, "audit") ELSE Reply(c)
     ELSE /\ Reply(c)
          /\ UNCHANGED tips
  /\ UNCHANGED <<revs, blobs, treeOps>>

\* deleteTipCas, the whole commit of a delete and the first half of a rename.
Unlink(c) ==
  LET r == req[c] IN
  /\ r.stage = "commit"
  /\ r.op \in {"delete", "rename"}
  /\ IF BaseMatches(r.path, r.base)
     THEN /\ tips' = [tips EXCEPT ![r.path] = NoTip]
          /\ Goto(c, IF r.op = "rename" THEN "link" ELSE "audit")
     ELSE /\ Reply(c)
          /\ UNCHANGED tips
  /\ UNCHANGED <<revs, blobs, treeOps>>

\* The second half of a rename: insert the tip at the destination, or report
\* workspace_rename_destination_exists if another request got there first.
LinkDestination(c) ==
  LET r == req[c] IN
  /\ r.stage = "link"
  /\ IF HasTip(r.to)
     THEN /\ Reply(c)
          /\ UNCHANGED tips
     ELSE /\ tips' = [tips EXCEPT ![r.to] =
                        [rev |-> r.rev, content |-> r.content,
                         encoding |-> r.encoding]]
          /\ Goto(c, "audit")
  /\ UNCHANGED <<revs, blobs, treeOps>>

\* insertTreeOp, then the reply.
Audit(c) ==
  /\ req[c].stage = "audit"
  /\ treeOps' = treeOps \cup
       {[op |-> req[c].op, base |-> req[c].base, result |-> req[c].rev]}
  /\ Reply(c)
  /\ UNCHANGED <<revs, tips, blobs>>

-----------------------------------------------------------------------------
(* hydrateWorkspaceFromGit: creates every path of a Git tree that has no    *)
(* tip yet, each by the write above with a null base.                       *)

BeginHydrate(c) ==
  \E a \in Actor, entries \in SUBSET Path :
    /\ "hydrate" \in Kinds
    /\ req[c].stage = "idle"
    /\ Become(c, [Idle EXCEPT !.stage = "next", !.actor = a,
                              !.hydrating = TRUE, !.todo = entries])
    /\ UNCHANGED <<revs, tips, blobs, treeOps>>

\* The next entry has a tip already: skip it.
HydrateSkip(c) ==
  \E p \in req[c].todo :
    /\ req[c].stage = "next"
    /\ HasTip(p)
    /\ Become(c, [req[c] EXCEPT !.todo = @ \ {p}])
    /\ UNCHANGED <<revs, tips, blobs, treeOps>>

\* The next entry is fetched and, if small and not empty, written inline;
\* otherwise it is pointed at by a ref.
HydrateEntry(c) ==
  \E p \in req[c].todo, op \in {"write", "content_ref"} :
  \E x \in HydrateContent(op) :
    /\ req[c].stage = "next"
    /\ BaseMatches(p, 0)
    /\ Become(c,
         [Operation(op, p, p, x, WriteEncoding(op), 0, req[c].actor)
            EXCEPT !.hydrating = TRUE, !.todo = req[c].todo \ {p}])
    /\ UNCHANGED <<revs, tips, blobs, treeOps>>

\* Mutant: the retry keeps the encoding of the attempt that failed.
HydrateFallBackInline(c) ==
  \E x \in HydrateContent("content_ref") :
    /\ req[c].hydrating
    /\ req[c].op = "write"
    /\ req[c].stage \in {"blob", "record", "commit"}
    /\ BaseMatches(req[c].path, 0)
    /\ Become(c, [req[c] EXCEPT !.stage = "record", !.op = "content_ref",
                                !.content = x, !.rev = 0])
    /\ UNCHANGED <<revs, tips, blobs, treeOps>>

\* Mutant: the retry takes over the revision the failed attempt had recorded.
HydrateFallBackReusing(c) ==
  \E x \in HydrateContent("content_ref") :
    /\ req[c].hydrating
    /\ req[c].op = "write"
    /\ req[c].stage \in {"blob", "record", "commit"}
    /\ BaseMatches(req[c].path, 0)
    /\ Become(c, [req[c] EXCEPT !.op = "content_ref", !.content = x,
                                !.encoding = "content_ref"])
    /\ UNCHANGED <<revs, tips, blobs, treeOps>>

\* A call of the inline write throws: the catch records the error and the
\* entry is retried as a content_ref, which skips it if it has a tip by now.
HydrateFallBack(c) ==
  \E x \in HydrateContent("content_ref") :
    /\ req[c].hydrating
    /\ req[c].op = "write"
    /\ req[c].stage \in {"blob", "record", "commit"}
    /\ IF BaseMatches(req[c].path, 0)
       THEN Become(c,
              [Operation("content_ref", req[c].path, req[c].path, x,
                         WriteEncoding("content_ref"), 0, req[c].actor)
                 EXCEPT !.hydrating = TRUE, !.todo = req[c].todo])
       ELSE Reply(c)
    /\ UNCHANGED <<revs, tips, blobs, treeOps>>

HydrateEnd(c) ==
  /\ req[c].stage = "next"
  /\ req[c].todo = {}
  /\ treeOps' = treeOps \cup {[op |-> "hydrate", base |-> 0, result |-> 0]}
  /\ Become(c, Idle)
  /\ UNCHANGED <<revs, tips, blobs>>

-----------------------------------------------------------------------------
\* The Worker is evicted, times out or a call throws out of the handler:
\* whatever the request has done stays, the rest never happens.
Die(c) ==
  /\ req[c].op \in Mortal
  /\ req[c].stage # "idle"
  /\ Become(c, Idle)
  /\ UNCHANGED <<revs, tips, blobs, treeOps>>

Step(c) ==
  \/ ReadDestination(c) \/ PutBlob(c)
  \/ RecordNew(c) \/ RecordKnown(c)
  \/ CommitWrite(c) \/ Unlink(c) \/ LinkDestination(c) \/ Audit(c)
  \/ HydrateSkip(c) \/ HydrateEntry(c) \/ HydrateFallBack(c) \/ HydrateEnd(c)

Begin(c) ==
  BeginWrite(c) \/ BeginDelete(c) \/ BeginRename(c) \/ BeginHydrate(c)

Next == \E c \in Client : Begin(c) \/ Step(c) \/ Die(c)

Spec == Init /\ [][Next]_vars

-----------------------------------------------------------------------------
(* Correctness *)

\* Every table and every request stays within its columns' domains.
TypeOK ==
  /\ revs \in Seq(Revision)
  /\ tips \in [Path -> Tip]
  /\ blobs \in SUBSET Content
  /\ treeOps \in SUBSET TreeOp
  /\ req \in [Client -> Request]

\* The tip table never disagrees with the log it points into: a tip names an
\* existing row hashed from that very path, with the tip's content hash.  The
\* two statements that establish it (the INSERT OR IGNORE that may keep an
\* older row, and the tip update) are separate, and the request may die or
\* lose a race between them.
TipsBackedByLog ==
  \A p \in Path : HasTip(p) =>
    /\ tips[p].rev \in 1..Len(revs)
    /\ revs[tips[p].rev].path = p
    /\ revs[tips[p].rev].content = tips[p].content

\* readDraft finds the body of every tip marked as inline text, whatever
\* died between the R2 put and the D1 statements and whichever tip a rename
\* moved (otherwise: workspace_blob_missing).
InlineTipHasBlob ==
  \A p \in Path :
    HasTip(p) /\ tips[p].encoding = "utf8_text" => tips[p].content \in blobs

(* The inductive invariant: what holds of the requests in flight as well.   *)

\* Its base is in the log; once recorded, so is its revision, with its own
\* envelope, until it ends.
RequestLogged(r) ==
  /\ r.base \in 0..Len(revs)
  /\ r.stage \in {"commit", "link", "audit"} =>
       r.rev \in 1..Len(revs) /\ SameEnvelope(revs[r.rev], RowOf(r))

\* The body of the text it is about to publish is in R2 already.
RequestBodyStored(r) ==
  /\ r.op = "write" /\ r.stage \in {"record", "commit"} => r.content \in blobs
  /\ r.op = "rename" /\ r.encoding = "utf8_text" => r.content \in blobs

RequestShape(r) ==
  /\ r.stage \in {"dest", "link"} => r.op = "rename"
  /\ r.stage = "blob"  => r.op = "write"
  /\ r.stage = "audit" => r.op # "write"
  /\ r.op = "content_ref" => r.encoding = "content_ref"
  /\ r.op \in {"delete", "rename"} => r.base # 0

RequestOK(r) == RequestLogged(r) /\ RequestBodyStored(r) /\ RequestShape(r)

IInv == /\ TypeOK
        /\ TipsBackedByLog
        /\ InlineTipHasBlob
        /\ \A c \in Client : RequestOK(req[c])

\* What the plane promises: a tree of compare-and-swap registers over an
\* append-only log ("no last-write-wins"), whatever the interleaving.
Abstract == INSTANCE CasTree
  WITH head <- [p \in Path |-> tips[p].rev],
       log  <- [i \in 1..Len(revs) |->
                  [path |-> revs[i].path, parent |-> revs[i].parent]]

ImplementsCasTree == Abstract!Spec

-----------------------------------------------------------------------------
(* Statements of the documentation that the code does not keep *)

\* docs/V7_7_7D_REPO_SCALE_WORKING_TREE.md: content_encoding=content_ref
\* marks a tip without R2 body, so the revision such a tip names was written
\* as a reference.
RefTipNamesRefRevision ==
  \A p \in Path : HasTip(p) /\ tips[p].encoding = "content_ref" =>
    revs[tips[p].rev].encoding = "content_ref"

\* Same document, invariant 7, "fail closed on stale CAS": a rename that has
\* taken its source away does not end without having linked it again.
RenameRelinks ==
  [][\A c \in Client :
       req[c].stage = "link" /\ req'[c].stage # "link" =>
         tips'[req[c].to].rev = req[c].rev]_vars

=============================================================================
