------------------------ MODULE WorkspaceDraftProofs ------------------------
(***************************************************************************)
(* Machine-checked proofs about WorkspaceDraft: its inductive invariant,    *)
(* and that it implements CasTree.                                          *)
(***************************************************************************)
EXTENDS WorkspaceDraft, TLAPS

-----------------------------------------------------------------------------
(* Types of the values the actions build *)

LEMMA IdleType == Idle \in Request
<1>1. AnyPath \in Path /\ AnyActor \in Actor
  BY NonEmptyAssumption DEF AnyPath, AnyActor
<1>2. QED
  BY <1>1, EmptyTextAssumption DEF Idle, Request, Stage, Encoding

LEMMA NoTipType == NoTip \in Tip
BY EmptyTextAssumption DEF NoTip, Tip, Encoding

\* Whatever a finished request leaves behind publishes nothing.
LEMMA OverType ==
  ASSUME NEW r \in Request
  PROVE  /\ Over(r) \in Request
         /\ Over(r).stage \in {"idle", "next"}
         /\ Over(r).op = "write"
         /\ Over(r).base = 0
<1>1. CASE r.hydrating
  <2>1. Over(r) = [Idle EXCEPT !.stage = "next", !.actor = r.actor,
                               !.hydrating = TRUE, !.todo = r.todo]
    BY <1>1 DEF Over
  <2>2. QED
    BY <2>1, IdleType DEF Idle, Request, Stage
<1>2. CASE ~r.hydrating
  BY <1>2, IdleType DEF Over, Idle
<1>3. QED
  BY <1>1, <1>2

LEMMA OperationType ==
  ASSUME NEW op \in {"write", "content_ref", "delete", "rename"},
         NEW p \in Path, NEW q \in Path, NEW x \in Content,
         NEW e \in Encoding, NEW base \in Nat, NEW a \in Actor
  PROVE  Operation(op, p, q, x, e, base, a) \in Request
BY DEF Operation, Request, FirstStage, Stage

LEMMA RecordedType ==
  ASSUME NEW r \in Request, NEW i \in Nat
  PROVE  [r EXCEPT !.stage = "commit", !.rev = i] \in Request
BY DEF Request, Stage

LEMMA RowType ==
  ASSUME NEW r \in Request
  PROVE  RowOf(r) \in Revision
BY DEF RowOf, Revision, Request

-----------------------------------------------------------------------------
(* What is true of a request stays true while the log and the bucket grow *)

Grows == /\ blobs \subseteq blobs'
         /\ Len(revs) <= Len(revs')
         /\ \A i \in 1..Len(revs) : revs'[i] = revs[i]

LEMMA RequestStable ==
  ASSUME NEW r \in Request, TypeOK, revs' \in Seq(Revision), Grows, RequestOK(r)
  PROVE  RequestOK(r)'
<1>1. Len(revs) \in Nat /\ Len(revs') \in Nat
  BY DEF TypeOK
<1>2. RequestLogged(r)'
  BY <1>1 DEF RequestLogged, RequestOK, Grows, SameEnvelope, RowOf
<1>3. RequestBodyStored(r)'
  BY DEF RequestBodyStored, RequestOK, Grows
<1>4. RequestShape(r)'
  BY DEF RequestShape, RequestOK
<1>5. QED
  BY <1>2, <1>3, <1>4 DEF RequestOK

LEMMA RequestsStable ==
  ASSUME IInv, revs' \in Seq(Revision), Grows,
         NEW c \in Client, NEW n \in Request, Become(c, n), RequestOK(n)'
  PROVE  /\ req' \in [Client -> Request]
         /\ \A d \in Client : RequestOK(req[d])'
<1>1. req \in [Client -> Request] /\ TypeOK
  BY DEF IInv, TypeOK
<1>2. req' \in [Client -> Request]
  BY <1>1 DEF Become
<1>3. ASSUME NEW d \in Client PROVE RequestOK(req[d])'
  <2>1. CASE d = c
    <3>1. req'[d] = n
      BY <1>1, <2>1 DEF Become
    <3>2. QED
      BY <3>1 DEF RequestOK, RequestLogged, RequestBodyStored, RequestShape,
                  SameEnvelope, RowOf
  <2>2. CASE d # c
    <3>1. PICK r \in Request : r = req[d]
      BY <1>1
    <3>2. req'[d] = r
      BY <1>1, <2>2, <3>1 DEF Become
    <3>3. RequestOK(r)
      BY <3>1 DEF IInv
    <3>4. RequestOK(r)'
      BY <1>1, <3>3, RequestStable
    <3>5. QED
      BY <3>2, <3>4 DEF RequestOK, RequestLogged, RequestBodyStored,
                        RequestShape, SameEnvelope, RowOf
  <2>3. QED
    BY <2>1, <2>2
<1>4. QED
  BY <1>2, <1>3

-----------------------------------------------------------------------------
(* The same for the tips *)

TipOK(p, t) ==
  t.rev # 0 =>
    /\ t.rev \in 1..Len(revs)
    /\ revs[t.rev].path = p
    /\ revs[t.rev].content = t.content
    /\ t.encoding = "utf8_text" => t.content \in blobs

\* TipsBackedByLog and InlineTipHasBlob, taken tip by tip.
LEMMA TipByTip ==
  TipsBackedByLog /\ InlineTipHasBlob <=> \A p \in Path : TipOK(p, tips[p])
BY DEF TipsBackedByLog, InlineTipHasBlob, HasTip, TipOK

LEMMA TipByTipPrimed ==
  (TipsBackedByLog /\ InlineTipHasBlob)' <=> \A p \in Path : TipOK(p, tips[p])'
BY DEF TipsBackedByLog, InlineTipHasBlob, HasTip, TipOK

LEMMA TipStable ==
  ASSUME NEW p \in Path, NEW t \in Tip, TypeOK, revs' \in Seq(Revision),
         Grows, TipOK(p, t)
  PROVE  TipOK(p, t)'
<1>1. Len(revs) \in Nat /\ Len(revs') \in Nat
  BY DEF TypeOK
<1>2. QED
  BY <1>1 DEF TipOK, Grows, Tip

LEMMA TipsUnchanged ==
  ASSUME IInv, revs' \in Seq(Revision), Grows, UNCHANGED tips
  PROVE  tips' \in [Path -> Tip] /\ (TipsBackedByLog /\ InlineTipHasBlob)'
<1>1. TypeOK /\ tips \in [Path -> Tip]
  BY DEF IInv, TypeOK
<1>2. ASSUME NEW p \in Path PROVE TipOK(p, tips[p])'
  <2>1. PICK t \in Tip : t = tips[p]
    BY <1>1
  <2>2. TipOK(p, t)
    BY <2>1, TipByTip DEF IInv
  <2>3. TipOK(p, t)'
    BY <1>1, <2>2, TipStable
  <2>4. QED
    BY <2>1, <2>3 DEF TipOK
<1>3. QED
  BY <1>1, <1>2, TipByTipPrimed

LEMMA TipReplaced ==
  ASSUME IInv, UNCHANGED <<revs, blobs>>,
         NEW p \in Path, NEW t \in Tip, TipOK(p, t), tips' = [tips EXCEPT ![p] = t]
  PROVE  tips' \in [Path -> Tip] /\ (TipsBackedByLog /\ InlineTipHasBlob)'
<1>1. TypeOK /\ tips \in [Path -> Tip]
  BY DEF IInv, TypeOK
<1>2. ASSUME NEW q \in Path PROVE TipOK(q, tips[q])'
  <2>1. CASE q = p
    <3>1. tips'[q] = t
      BY <1>1, <2>1
    <3>2. QED
      BY <2>1, <3>1 DEF TipOK
  <2>2. CASE q # p
    <3>1. tips'[q] = tips[q]
      BY <1>1, <2>2
    <3>2. TipOK(q, tips[q])
      BY TipByTip DEF IInv
    <3>3. QED
      BY <3>1, <3>2 DEF TipOK
  <2>3. QED
    BY <2>1, <2>2
<1>3. QED
  BY <1>1, <1>2, TipByTipPrimed

-----------------------------------------------------------------------------
(* The inductive invariant *)

\* A request that has nothing to publish is in order in every state.
LEMMA QuietRequestOK ==
  ASSUME NEW r \in Request, r.stage \in {"idle", "next"}, r.op = "write",
         r.base = 0, TypeOK
  PROVE  RequestOK(r)
<1>1. Len(revs) \in Nat
  BY DEF TypeOK
<1>2. QED
  BY <1>1 DEF RequestOK, RequestLogged, RequestBodyStored, RequestShape

LEMMA InitIInv == Init => IInv
<1> SUFFICES ASSUME Init PROVE IInv
  OBVIOUS
<1>1. TypeOK
  BY IdleType, NoTipType DEF Init, TypeOK
<1>2. TipsBackedByLog /\ InlineTipHasBlob
  BY DEF Init, TipsBackedByLog, InlineTipHasBlob, HasTip, NoTip
<1>3. \A c \in Client : RequestOK(req[c])
  <2>1. Idle.stage = "idle" /\ Idle.op = "write" /\ Idle.base = 0
    BY DEF Idle
  <2>2. RequestOK(Idle)
    BY <1>1, <2>1, IdleType, QuietRequestOK
  <2>3. QED
    BY <2>2 DEF Init
<1>4. QED
  BY <1>1, <1>2, <1>3 DEF IInv

\* A step that leaves the tips alone keeps the invariant when the log and the
\* bucket grow and the slot it moves is left in order.
LEMMA QuietStep ==
  ASSUME IInv, revs' \in Seq(Revision), blobs' \subseteq Content, Grows,
         UNCHANGED tips, treeOps' \subseteq TreeOp,
         NEW c \in Client, NEW n \in Request, Become(c, n), RequestOK(n)'
  PROVE  IInv'
BY RequestsStable, TipsUnchanged DEF IInv, TypeOK

\* A step that moves one tip and nothing of the log keeps it when the tip and
\* the slot are in order.
LEMMA TipStep ==
  ASSUME IInv, UNCHANGED <<revs, blobs, treeOps>>,
         NEW p \in Path, NEW t \in Tip, TipOK(p, t), tips' = [tips EXCEPT ![p] = t],
         NEW c \in Client, NEW n \in Request, Become(c, n), RequestOK(n)
  PROVE  IInv'
<1>1. TypeOK /\ revs \in Seq(Revision) /\ Grows /\ Len(revs) \in Nat
  BY DEF IInv, TypeOK, Grows
<1>2. RequestOK(n)'
  BY DEF RequestOK, RequestLogged, RequestBodyStored, RequestShape,
         SameEnvelope, RowOf
<1>3. QED
  BY <1>1, <1>2, RequestsStable, TipReplaced DEF IInv, TypeOK

\* The slot's new request, when the step changes neither log nor bucket.
LEMMA SlotStep ==
  ASSUME IInv, UNCHANGED <<revs, tips, blobs>>, treeOps' \subseteq TreeOp,
         NEW c \in Client, NEW n \in Request, Become(c, n), RequestOK(n)
  PROVE  IInv'
<1>1. TypeOK /\ revs \in Seq(Revision) /\ Grows /\ blobs \subseteq Content
      /\ Len(revs) \in Nat
  BY DEF IInv, TypeOK, Grows
<1>2. RequestOK(n)'
  BY DEF RequestOK, RequestLogged, RequestBodyStored, RequestShape,
         SameEnvelope, RowOf
<1>3. QED
  BY <1>1, <1>2, QuietStep

LEMMA BeginIInv ==
  ASSUME IInv, NEW c \in Client, Begin(c)
  PROVE  IInv'
<1>0. /\ TypeOK /\ treeOps \subseteq TreeOp /\ Len(revs) \in Nat
      /\ tips \in [Path -> Tip]
  BY DEF IInv, TypeOK
<1>1. CASE BeginWrite(c)
  <2>1. PICK op \in {"write", "content_ref"}, p \in Path, x \in Content,
             a \in Actor, base \in 0..Len(revs) :
               /\ Become(c, Operation(op, p, p, x, WriteEncoding(op), base, a))
               /\ UNCHANGED <<revs, tips, blobs, treeOps>>
    BY <1>1 DEF BeginWrite, WriteContent
  <2>2. PICK n \in Request :
          n = Operation(op, p, p, x, WriteEncoding(op), base, a)
    BY <1>0, <2>1, OperationType DEF WriteEncoding, Encoding
  <2>3. RequestOK(n)
    BY <1>0, <2>1, <2>2 DEF Operation, FirstStage, WriteEncoding, RequestOK,
       RequestLogged, RequestBodyStored, RequestShape
  <2>4. QED
    BY <1>0, <2>1, <2>2, <2>3, SlotStep
<1>2. CASE BeginDelete(c)
  <2>1. PICK p \in Path, a \in Actor, base \in 1..Len(revs) :
          /\ Become(c, Operation("delete", p, p, EmptyText, "tombstone", base, a))
          /\ UNCHANGED <<revs, tips, blobs, treeOps>>
    BY <1>2 DEF BeginDelete
  <2>2. PICK n \in Request :
          n = Operation("delete", p, p, EmptyText, "tombstone", base, a)
    BY <1>0, <2>1, EmptyTextAssumption, OperationType DEF Encoding
  <2>3. RequestOK(n)
    BY <1>0, <2>1, <2>2 DEF Operation, FirstStage, RequestOK, RequestLogged,
       RequestBodyStored, RequestShape
  <2>4. QED
    BY <1>0, <2>1, <2>2, <2>3, SlotStep
<1>3. CASE BeginRename(c)
  <2>1. PICK p \in Path, q \in Path, a \in Actor, base \in 1..Len(revs) :
          /\ BaseMatches(p, base)
          /\ Become(c, Operation("rename", p, q, tips[p].content,
                                 tips[p].encoding, base, a))
          /\ UNCHANGED <<revs, tips, blobs, treeOps>>
    BY <1>3 DEF BeginRename
  <2>2. tips[p].content \in Content /\ tips[p].encoding \in Encoding
    BY <1>0, <2>1 DEF Tip
  <2>3. PICK n \in Request :
          n = Operation("rename", p, q, tips[p].content, tips[p].encoding,
                        base, a)
    BY <1>0, <2>1, <2>2, OperationType
  <2>4. tips[p].encoding = "utf8_text" => tips[p].content \in blobs
    BY <1>0, <2>1 DEF IInv, InlineTipHasBlob, HasTip, BaseMatches
  <2>5. RequestOK(n)
    BY <1>0, <2>1, <2>3, <2>4 DEF Operation, FirstStage, RequestOK,
       RequestLogged, RequestBodyStored, RequestShape
  <2>6. QED
    BY <1>0, <2>1, <2>3, <2>5, SlotStep
<1>4. CASE BeginHydrate(c)
  <2>1. PICK a \in Actor, entries \in SUBSET Path :
          /\ Become(c, [Idle EXCEPT !.stage = "next", !.actor = a,
                                    !.hydrating = TRUE, !.todo = entries])
          /\ UNCHANGED <<revs, tips, blobs, treeOps>>
    BY <1>4 DEF BeginHydrate
  <2>2. PICK n \in Request :
          n = [Idle EXCEPT !.stage = "next", !.actor = a,
                           !.hydrating = TRUE, !.todo = entries]
    BY <2>1, IdleType DEF Request, Stage
  <2>3. RequestOK(n)
    BY <1>0, <2>2, QuietRequestOK DEF Idle
  <2>4. QED
    BY <1>0, <2>1, <2>2, <2>3, SlotStep
<1>5. QED
  BY <1>1, <1>2, <1>3, <1>4 DEF Begin

LEMMA StepIInv ==
  ASSUME IInv, NEW c \in Client, Step(c)
  PROVE  IInv'
<1> DEFINE r == req[c]
<1>0. /\ TypeOK /\ treeOps \subseteq TreeOp /\ Len(revs) \in Nat
      /\ revs \in Seq(Revision) /\ blobs \subseteq Content
      /\ tips \in [Path -> Tip] /\ r \in Request
      /\ RequestOK(r)
  BY DEF IInv, TypeOK
<1>a. PICK over \in Request : over = Over(r)
  BY <1>0, OverType
<1>b. RequestOK(over)
  BY <1>0, <1>a, OverType, QuietRequestOK
<1>1. CASE ReadDestination(c)
  <2>1. CASE Reply(c)
    BY <1>0, <1>1, <1>a, <1>b, <2>1, SlotStep DEF ReadDestination, Reply
  <2>2. CASE Goto(c, "record")
    <3>1. PICK n \in Request : n = [r EXCEPT !.stage = "record"]
      BY <1>0 DEF Request, Stage
    <3>2. r.op = "rename"
      BY <1>0, <1>1 DEF ReadDestination, RequestOK, RequestShape
    <3>3. RequestOK(n)
      BY <1>0, <3>1, <3>2 DEF Request, RequestOK, RequestLogged,
         RequestBodyStored, RequestShape
    <3>4. QED
      BY <1>0, <1>1, <2>2, <3>1, <3>3, SlotStep DEF ReadDestination, Goto
  <2>3. QED
    BY <1>1, <2>1, <2>2 DEF ReadDestination
<1>2. CASE PutBlob(c)
  <2>1. PICK n \in Request : n = [r EXCEPT !.stage = "record"]
    BY <1>0 DEF Request, Stage
  <2>2. Grows
    BY <1>0, <1>2 DEF PutBlob, Grows
  <2>3. RequestOK(n)'
    BY <1>0, <1>2, <2>1 DEF PutBlob, Request, RequestOK, RequestLogged,
       RequestBodyStored, RequestShape
  <2>4. blobs' \subseteq Content
    BY <1>0, <1>2 DEF PutBlob, Request
  <2>5. QED
    BY <1>0, <1>2, <2>1, <2>2, <2>3, <2>4, QuietStep DEF PutBlob, Goto
<1>3. CASE RecordNew(c)
  <2>1. PICK n \in Request :
          n = [r EXCEPT !.stage = "commit", !.rev = Len(revs) + 1]
    <3>1. Len(revs) + 1 \in Nat
      BY <1>0
    <3>2. [r EXCEPT !.stage = "commit", !.rev = Len(revs) + 1] \in Request
      BY <1>0, <3>1, RecordedType
    <3>3. QED
      BY <3>2
  <2>2. revs' = Append(revs, RowOf(r)) /\ RowOf(r) \in Revision
    BY <1>0, <1>3, RowType DEF RecordNew
  <2>3. revs' \in Seq(Revision) /\ Len(revs') = Len(revs) + 1
    BY <1>0, <2>2
  <2>4. revs'[Len(revs) + 1] = RowOf(r) /\ Grows
    BY <1>0, <1>3, <2>2 DEF RecordNew, Grows
  <2>5. RowOf(n) = RowOf(r)
    BY <1>0, <2>1 DEF RowOf, Request
  <2>6. RequestLogged(n)'
    <3>1. n.base \in 0..Len(revs')
      BY <1>0, <2>1, <2>3 DEF Request, RequestOK, RequestLogged
    <3>2. n.rev \in 1..Len(revs')
      BY <1>0, <2>1, <2>3 DEF Request
    <3>3. n.rev = Len(revs) + 1
      BY <1>0, <2>1 DEF Request
    <3>4. SameEnvelope(revs'[n.rev], RowOf(n))
      BY <2>4, <2>5, <3>3 DEF SameEnvelope
    <3>5. QED
      BY <3>1, <3>2, <3>4 DEF RequestLogged, SameEnvelope
  <2>7. RequestBodyStored(n)' /\ RequestShape(n)'
    BY <1>0, <1>3, <2>1 DEF RecordNew, Request, RequestOK, RequestBodyStored,
       RequestShape
  <2>8. QED
    BY <1>0, <1>3, <2>1, <2>3, <2>4, <2>6, <2>7, QuietStep
    DEF RecordNew, RequestOK
<1>4. CASE RecordKnown(c)
  <2>1. PICK i \in 1..Len(revs) :
          /\ SameEnvelope(revs[i], RowOf(r))
          /\ Become(c, [r EXCEPT !.stage = "commit", !.rev = i])
    BY <1>4 DEF RecordKnown
  <2>2. PICK n \in Request : n = [r EXCEPT !.stage = "commit", !.rev = i]
    <3>1. i \in Nat
      BY <1>0, <2>1
    <3>2. [r EXCEPT !.stage = "commit", !.rev = i] \in Request
      BY <1>0, <3>1, RecordedType
    <3>3. QED
      BY <3>2
  <2>3. RowOf(n) = RowOf(r) /\ n.rev = i
    BY <1>0, <2>2 DEF RowOf, Request
  <2>4. RequestLogged(n)
    BY <1>0, <2>1, <2>2, <2>3 DEF Request, RequestOK, RequestLogged
  <2>5. RequestBodyStored(n) /\ RequestShape(n)
    BY <1>0, <1>4, <2>2 DEF RecordKnown, Request, RequestOK,
       RequestBodyStored, RequestShape
  <2>6. QED
    BY <1>0, <1>4, <2>1, <2>2, <2>4, <2>5, SlotStep DEF RecordKnown, RequestOK
<1>5. CASE CommitWrite(c)
  <2> DEFINE t == [rev |-> r.rev, content |-> r.content,
                   encoding |-> EncodingAfter(r, tips[r.path])]
  <2>1. CASE ~BaseMatches(r.path, r.base)
    BY <1>0, <1>5, <1>a, <1>b, <2>1, SlotStep DEF CommitWrite, Reply
  <2>2. CASE BaseMatches(r.path, r.base)
    <3>1. r.path \in Path /\ tips[r.path] \in Tip /\ t \in Tip
      BY <1>0 DEF EncodingAfter, Tip, Request
    <3>2. r.op = "content_ref" => t.encoding = "content_ref"
      BY <1>0 DEF EncodingAfter, RequestOK, RequestShape
    <3>3. r.op = "write" => r.content \in blobs
      BY <1>0, <1>5 DEF CommitWrite, RequestOK, RequestBodyStored
    <3>4. TipOK(r.path, t)
      BY <1>0, <1>5, <3>2, <3>3
      DEF TipOK, CommitWrite, RequestOK, RequestLogged, SameEnvelope, RowOf
    <3>5. tips' = [tips EXCEPT ![r.path] = t] /\ UNCHANGED <<revs, blobs, treeOps>>
      BY <1>5, <2>2 DEF CommitWrite
    <3>6. CASE r.op = "content_ref"
      <4>1. PICK n \in Request : n = [r EXCEPT !.stage = "audit"]
        BY <1>0 DEF Request, Stage
      <4>2. RowOf(n) = RowOf(r)
        BY <1>0, <4>1 DEF RowOf, Request
      <4>3. RequestOK(n)
        BY <1>0, <1>5, <3>6, <4>1, <4>2 DEF CommitWrite, Request, RequestOK,
           RequestLogged, RequestBodyStored, RequestShape
      <4>4. Become(c, n)
        BY <1>5, <2>2, <3>6, <4>1 DEF CommitWrite, Goto
      <4>5. QED
        BY <3>1, <3>4, <3>5, <4>3, <4>4, TipStep
    <3>7. CASE r.op # "content_ref"
      <4>1. Become(c, over)
        BY <1>5, <1>a, <2>2, <3>7 DEF CommitWrite, Reply
      <4>2. QED
        BY <1>b, <3>1, <3>4, <3>5, <4>1, TipStep
    <3>8. QED
      BY <3>6, <3>7
  <2>3. QED
    BY <2>1, <2>2
<1>6. CASE Unlink(c)
  <2>1. CASE ~BaseMatches(r.path, r.base)
    BY <1>0, <1>6, <1>a, <1>b, <2>1, SlotStep DEF Unlink, Reply
  <2>2. CASE BaseMatches(r.path, r.base)
    <3>1. PICK n \in Request :
            n = [r EXCEPT !.stage = IF r.op = "rename" THEN "link" ELSE "audit"]
      BY <1>0 DEF Request, Stage
    <3>2. RowOf(n) = RowOf(r)
      BY <1>0, <3>1 DEF RowOf, Request
    <3>3. RequestOK(n)
      BY <1>0, <1>6, <3>1, <3>2 DEF Unlink, Request, RequestOK, RequestLogged,
         RequestBodyStored, RequestShape
    <3>4. TipOK(r.path, NoTip) /\ r.path \in Path
      BY <1>0 DEF TipOK, NoTip, Request
    <3>5. QED
      BY <1>0, <1>6, <2>2, <3>1, <3>3, <3>4, NoTipType, TipStep
      DEF Unlink, Goto
  <2>3. QED
    BY <2>1, <2>2
<1>7. CASE LinkDestination(c)
  <2> DEFINE t == [rev |-> r.rev, content |-> r.content,
                   encoding |-> r.encoding]
  <2>1. CASE HasTip(r.to)
    BY <1>0, <1>7, <1>a, <1>b, <2>1, SlotStep DEF LinkDestination, Reply
  <2>2. CASE ~HasTip(r.to)
    <3>1. r.to \in Path /\ t \in Tip
      BY <1>0 DEF Tip, Request
    <3>2. r.op = "rename"
      BY <1>0, <1>7 DEF LinkDestination, RequestOK, RequestShape
    <3>3. TipOK(r.to, t)
      BY <1>0, <1>7, <3>2 DEF TipOK, LinkDestination, RequestOK,
         RequestLogged, RequestBodyStored, SameEnvelope, RowOf
    <3>4. PICK n \in Request : n = [r EXCEPT !.stage = "audit"]
      BY <1>0 DEF Request, Stage
    <3>5. RowOf(n) = RowOf(r)
      BY <1>0, <3>4 DEF RowOf, Request
    <3>6. RequestOK(n)
      BY <1>0, <1>7, <3>2, <3>4, <3>5 DEF LinkDestination, Request,
         RequestOK, RequestLogged, RequestBodyStored, RequestShape
    <3>7. QED
      BY <1>0, <1>7, <2>2, <3>1, <3>3, <3>4, <3>6, TipStep
      DEF LinkDestination, Goto
  <2>3. QED
    BY <2>1, <2>2
<1>8. CASE Audit(c)
  <2>1. treeOps' \subseteq TreeOp
    BY <1>0, <1>8 DEF Audit, RequestOK, RequestShape, Request, TreeOp
  <2>2. QED
    BY <1>0, <1>8, <1>a, <1>b, <2>1, SlotStep DEF Audit, Reply
<1>9. CASE HydrateSkip(c)
  <2>1. PICK p \in r.todo : Become(c, [r EXCEPT !.todo = @ \ {p}])
    BY <1>9 DEF HydrateSkip
  <2>2. PICK n \in Request : n = [r EXCEPT !.todo = @ \ {p}]
    BY <1>0 DEF Request
  <2>3. n.stage = "next" /\ n.op = r.op /\ n.base = r.base
        /\ n.content = r.content /\ n.encoding = r.encoding
    BY <1>0, <1>9, <2>2 DEF HydrateSkip, Request
  <2>4. RequestOK(n)
    BY <1>0, <2>3 DEF RequestOK, RequestLogged, RequestBodyStored, RequestShape
  <2>5. QED
    BY <1>0, <1>9, <2>1, <2>2, <2>4, SlotStep DEF HydrateSkip
<1>10. CASE HydrateEntry(c)
  <2>1. PICK p \in r.todo, x \in Content, op \in {"write", "content_ref"} :
          Become(c, [Operation(op, p, p, x, WriteEncoding(op), 0, r.actor)
                       EXCEPT !.hydrating = TRUE, !.todo = r.todo \ {p}])
    BY <1>10, GitRefAssumption DEF HydrateEntry, HydrateContent
  <2>2. WriteEncoding(op) \in Encoding /\ p \in Path /\ r.actor \in Actor
    BY <1>0, <2>1 DEF WriteEncoding, Encoding, Request
  <2>3. Operation(op, p, p, x, WriteEncoding(op), 0, r.actor) \in Request
    BY <2>2, OperationType
  <2>4. PICK n \in Request :
          n = [Operation(op, p, p, x, WriteEncoding(op), 0, r.actor)
                 EXCEPT !.hydrating = TRUE, !.todo = r.todo \ {p}]
    BY <1>0, <2>3 DEF Request
  <2>5. n.stage = FirstStage(op) /\ n.op = op /\ n.base = 0
        /\ n.encoding = WriteEncoding(op)
    BY <2>4 DEF Operation
  <2>6. RequestOK(n)
    BY <1>0, <2>5 DEF FirstStage, WriteEncoding, RequestOK, RequestLogged,
       RequestBodyStored, RequestShape
  <2>7. QED
    BY <1>0, <1>10, <2>1, <2>4, <2>6, SlotStep DEF HydrateEntry
<1>11. CASE HydrateFallBack(c)
  <2> DEFINE w(x) == Operation("content_ref", r.path, r.path, x,
                               WriteEncoding("content_ref"), 0, r.actor)
  <2>0. CASE Reply(c)
    BY <1>0, <1>11, <1>a, <1>b, <2>0, SlotStep DEF HydrateFallBack, Reply
  <2> SUFFICES ASSUME ~Reply(c) PROVE IInv'
    BY <2>0
  <2>1. PICK x \in Content :
          Become(c, [w(x) EXCEPT !.hydrating = TRUE, !.todo = r.todo])
    BY <1>11, GitRefAssumption DEF HydrateFallBack, HydrateContent
  <2>2. w(x) \in Request
    <3>1. r.path \in Path /\ r.actor \in Actor
      BY <1>0 DEF Request
    <3>2. WriteEncoding("content_ref") \in Encoding
      BY DEF WriteEncoding, Encoding
    <3>3. QED
      BY <3>1, <3>2, OperationType
  <2>3. PICK n \in Request :
          n = [w(x) EXCEPT !.hydrating = TRUE, !.todo = r.todo]
    BY <1>0, <2>2 DEF Request
  <2>4. n.stage = "record" /\ n.op = "content_ref" /\ n.base = 0
        /\ n.encoding = "content_ref"
    BY <2>3 DEF Operation, FirstStage, WriteEncoding
  <2>5. RequestOK(n)
    BY <1>0, <2>4 DEF RequestOK, RequestLogged, RequestBodyStored, RequestShape
  <2>6. QED
    BY <1>0, <1>11, <2>1, <2>3, <2>5, SlotStep DEF HydrateFallBack
<1>12. CASE HydrateEnd(c)
  <2>1. treeOps' \subseteq TreeOp
    BY <1>0, <1>12 DEF HydrateEnd, TreeOp
  <2>2. RequestOK(Idle)
    BY <1>0, IdleType, QuietRequestOK DEF Idle
  <2>3. QED
    BY <1>0, <1>12, <2>1, <2>2, IdleType, SlotStep DEF HydrateEnd
<1>13. QED
  BY <1>1, <1>2, <1>3, <1>4, <1>5, <1>6, <1>7, <1>8, <1>9, <1>10, <1>11,
     <1>12 DEF Step

LEMMA DieIInv ==
  ASSUME IInv, NEW c \in Client, Die(c)
  PROVE  IInv'
<1>1. TypeOK /\ treeOps \subseteq TreeOp
  BY DEF IInv, TypeOK
<1>2. Idle.stage = "idle" /\ Idle.op = "write" /\ Idle.base = 0
  BY DEF Idle
<1>3. RequestOK(Idle)
  BY <1>1, <1>2, IdleType, QuietRequestOK
<1>4. QED
  BY <1>1, <1>3, IdleType, SlotStep DEF Die

LEMMA StutterIInv == IInv /\ UNCHANGED vars => IInv'
BY DEF vars, IInv, TypeOK, TipsBackedByLog, InlineTipHasBlob, HasTip, RequestOK,
       RequestLogged, RequestBodyStored, RequestShape, SameEnvelope, RowOf

LEMMA NextIInv == IInv /\ [Next]_vars => IInv'
BY BeginIInv, StepIInv, DieIInv, StutterIInv DEF Next

\* In every reachable state, whatever requests race, die or are retried: the
\* tables are well formed, each tip is backed by the log and by a body, and
\* so is each request on its way to publish one.
THEOREM InductiveInvariant == Spec => []IInv
BY InitIInv, NextIInv, PTL DEF Spec

\* Every table and request keeps its column domains.
THEOREM TypeCorrect == Spec => []TypeOK
<1>1. IInv => TypeOK
  BY DEF IInv
<1>2. QED
  BY <1>1, InductiveInvariant, PTL

\* workspace_tips never disagrees with workspace_revisions.
THEOREM TipsAlwaysBackedByLog == Spec => []TipsBackedByLog
<1>1. IInv => TipsBackedByLog
  BY DEF IInv
<1>2. QED
  BY <1>1, InductiveInvariant, PTL

\* readDraft never meets workspace_blob_missing on an inline tip.
THEOREM InlineTipsAlwaysHaveBlob == Spec => []InlineTipHasBlob
<1>1. IInv => InlineTipHasBlob
  BY DEF IInv
<1>2. QED
  BY <1>1, InductiveInvariant, PTL

-----------------------------------------------------------------------------
(* Refinement: the tips are compare-and-swap registers *)

TipRevs == [p \in Path |-> tips[p].rev]
Entry(row) == [path |-> row.path, parent |-> row.parent]
Log == [i \in 1..Len(revs) |-> Entry(revs[i])]

LEMMA FunctionIsSeq ==
  ASSUME NEW S, NEW n \in Nat, NEW g \in [1..n -> S]
  PROVE  g \in Seq(S) /\ Len(g) = n
OBVIOUS

LEMMA LogType ==
  ASSUME TypeOK
  PROVE  Log \in Seq([path : Path, parent : Nat]) /\ Len(Log) = Len(revs)
<1>1. revs \in Seq(Revision) /\ Len(revs) \in Nat
  BY DEF TypeOK
<1>2. \A i \in 1..Len(revs) : Entry(revs[i]) \in [path : Path, parent : Nat]
  <2>1. revs \in [1..Len(revs) -> Revision]
    BY <1>1
  <2>2. QED
    BY <2>1 DEF Revision, Entry
<1>3. Log \in [1..Len(revs) -> [path : Path, parent : Nat]]
  BY <1>2 DEF Log
<1>4. QED
  BY <1>1, <1>3, FunctionIsSeq

LEMMA InitRefines == Init => Abstract!Init
<1> SUFFICES ASSUME Init PROVE Abstract!Init
  OBVIOUS
<1>1. TipRevs = [p \in Path |-> 0]
  BY DEF Init, TipRevs, NoTip
<1>2. Log = << >>
  <2>1. Len(revs) = 0
    BY DEF Init
  <2>2. TypeOK
    BY InitIInv DEF IInv
  <2>3. Log \in Seq([path : Path, parent : Nat]) /\ Len(Log) = 0
    BY <2>1, <2>2, LogType
  <2>4. QED
    BY <2>3
<1>3. QED
  BY <1>1, <1>2 DEF Abstract!Init, TipRevs, Log, Entry

LEMMA StepRefines ==
  ASSUME IInv, NEW c \in Client, Step(c)
  PROVE  [Abstract!Next]_<<TipRevs, Log>>
<1> DEFINE r == req[c]
<1>0. /\ TypeOK /\ Len(revs) \in Nat /\ revs \in Seq(Revision)
      /\ tips \in [Path -> Tip] /\ r \in Request /\ RequestOK(r)
  BY DEF IInv, TypeOK
<1>1. CASE UNCHANGED <<revs, tips>>
  BY <1>1 DEF TipRevs, Log
<1>2. CASE RecordNew(c)
  <2>1. /\ revs' = Append(revs, RowOf(r)) /\ RowOf(r).parent = r.base
        /\ RowOf(r) \in Revision
    BY <1>0, <1>2, RowType DEF RecordNew, RowOf
  <2>2. Log' = Append(Log, Entry(RowOf(r)))
    <3>1. revs' \in Seq(Revision) /\ Len(revs') = Len(revs) + 1
      BY <1>0, <2>1
    <3>2. \A i \in 1..Len(revs) : revs'[i] = revs[i]
      BY <1>0, <2>1
    <3>3. revs'[Len(revs) + 1] = RowOf(r)
      BY <1>0, <2>1
    <3>4. /\ Log \in Seq([path : Path, parent : Nat]) /\ Len(Log) = Len(revs)
          /\ Entry(RowOf(r)) \in [path : Path, parent : Nat]
      BY <1>0, <2>1, LogType DEF Entry, Revision
    <3>5. Append(Log, Entry(RowOf(r)))
          = [i \in 1..(Len(revs) + 1) |->
               IF i = Len(revs) + 1 THEN Entry(RowOf(r)) ELSE Log[i]]
      BY <1>0, <3>4
    <3>6. Log' = [i \in 1..(Len(revs) + 1) |-> Entry(revs'[i])]
      BY <3>1 DEF Log, Entry
    <3>7. \A i \in 1..(Len(revs) + 1) :
            Entry(revs'[i])
              = IF i = Len(revs) + 1 THEN Entry(RowOf(r)) ELSE Log[i]
      BY <1>0, <3>2, <3>3 DEF Log
    <3>8. QED
      BY <3>5, <3>6, <3>7
  <2>3. /\ r.base \in 0..Len(Log) /\ RowOf(r).path \in Path
        /\ Entry(RowOf(r)) = [path |-> RowOf(r).path, parent |-> r.base]
    BY <1>0, <2>1, LogType DEF RequestOK, RequestLogged, Entry, Revision
  <2>4. TipRevs' = TipRevs
    BY <1>2 DEF RecordNew, TipRevs
  <2>5. Abstract!Record
    BY <2>2, <2>3, <2>4 DEF Abstract!Record, TipRevs, Log, Entry
  <2>6. QED
    BY <2>5 DEF Abstract!Next
<1>3. ASSUME NEW p \in Path, NEW t \in Tip, tips' = [tips EXCEPT ![p] = t],
             UNCHANGED revs
      PROVE  TipRevs' = [TipRevs EXCEPT ![p] = t.rev] /\ Log' = Log
  BY <1>0, <1>3 DEF TipRevs, Log
<1>4. CASE CommitWrite(c) /\ BaseMatches(r.path, r.base)
  <2>0. PICK p \in Path : p = r.path
    BY <1>0 DEF Request
  <2> DEFINE t == [rev |-> r.rev, content |-> r.content,
                   encoding |-> EncodingAfter(r, tips[r.path])]
  <2>1. r.path \in Path /\ t \in Tip /\ TipRevs[r.path] = r.base
    BY <1>0, <1>4 DEF EncodingAfter, Tip, Request, BaseMatches, TipRevs
  <2>2. TipRevs' = [TipRevs EXCEPT ![r.path] = r.rev] /\ Log' = Log
    <3>1. tips' = [tips EXCEPT ![r.path] = t] /\ UNCHANGED revs
      BY <1>4 DEF CommitWrite
    <3>2. t.rev = r.rev
      OBVIOUS
    <3>3. QED
      BY <1>3, <2>1, <3>1, <3>2
  <2>3. r.rev \in 1..Len(Log) /\ Log[r.rev] = [path |-> r.path, parent |-> r.base]
    BY <1>0, <1>4, LogType DEF CommitWrite, RequestOK, RequestLogged,
       SameEnvelope, RowOf, Log, Entry
  <2>4. CASE r.base = 0
    <3>1. Log[r.rev].path = p /\ TipRevs[p] = 0
      BY <2>0, <2>1, <2>3, <2>4
    <3>2. Abstract!Create(p)
      BY <2>0, <2>2, <2>3, <3>1 DEF Abstract!Create, TipRevs, Log, Entry
    <3>3. QED
      BY <3>2 DEF Abstract!Next
  <2>5. CASE r.base # 0
    <3>1. Abstract!Advance(p)
      BY <2>0, <2>1, <2>2, <2>3, <2>5 DEF Abstract!Advance, TipRevs, Log, Entry
    <3>2. QED
      BY <2>1, <3>1 DEF Abstract!Next
  <2>6. QED
    BY <2>4, <2>5
<1>5. CASE Unlink(c) /\ BaseMatches(r.path, r.base)
  <2>0. PICK p \in Path : p = r.path
    BY <1>0 DEF Request
  <2>1. r.path \in Path /\ TipRevs[r.path] # 0
    BY <1>0, <1>5 DEF Unlink, RequestOK, RequestShape, Request, BaseMatches, TipRevs
  <2>2. TipRevs' = [TipRevs EXCEPT ![r.path] = 0] /\ Log' = Log
    <3>1. tips' = [tips EXCEPT ![r.path] = NoTip] /\ UNCHANGED revs
      BY <1>5 DEF Unlink
    <3>2. QED
      BY <1>3, <2>1, <3>1, NoTipType DEF NoTip
  <2>3. Abstract!Remove(p)
    BY <2>0, <2>1, <2>2 DEF Abstract!Remove, TipRevs, Log, Entry
  <2>4. QED
    BY <2>3 DEF Abstract!Next
<1>6. CASE LinkDestination(c) /\ ~HasTip(r.to)
  <2>0. PICK p \in Path : p = r.to
    BY <1>0 DEF Request
  <2> DEFINE t == [rev |-> r.rev, content |-> r.content,
                   encoding |-> r.encoding]
  <2>1. r.to \in Path /\ t \in Tip /\ TipRevs[r.to] = 0
    BY <1>0, <1>6 DEF Tip, Request, HasTip, TipRevs
  <2>2. TipRevs' = [TipRevs EXCEPT ![r.to] = r.rev] /\ Log' = Log
    BY <1>3, <1>6, <2>1 DEF LinkDestination
  <2>3. r.rev \in 1..Len(Log) /\ Log[r.rev].path = r.to
    BY <1>0, <1>6, LogType DEF LinkDestination, RequestOK, RequestLogged,
       RequestShape, SameEnvelope, RowOf, Log, Entry
  <2>4. Abstract!Create(p)
    BY <2>0, <2>1, <2>2, <2>3 DEF Abstract!Create, TipRevs, Log, Entry
  <2>5. QED
    BY <2>1, <2>4 DEF Abstract!Next
<1>7. QED
  BY <1>1, <1>2, <1>4, <1>5, <1>6 DEF Step, ReadDestination, PutBlob,
     RecordKnown, CommitWrite, Unlink, LinkDestination, Audit, HydrateSkip,
     HydrateEntry, HydrateFallBack, HydrateEnd

LEMMA NextRefines == IInv /\ [Next]_vars => [Abstract!Next]_<<TipRevs, Log>>
<1>1. Abstract!Next \/ UNCHANGED <<TipRevs, Log>>
      <=> [Abstract!Next]_<<TipRevs, Log>>
  OBVIOUS
<1>2. ASSUME UNCHANGED <<revs, tips>> PROVE UNCHANGED <<TipRevs, Log>>
  BY <1>2 DEF TipRevs, Log
<1>3. ASSUME NEW c \in Client, Begin(c) \/ Die(c) PROVE UNCHANGED <<revs, tips>>
  BY <1>3 DEF Begin, BeginWrite, BeginDelete, BeginRename, BeginHydrate, Die
<1>4. QED
  BY <1>2, <1>3, StepRefines DEF Next, vars

\* "No last-write-wins": whatever requests race and die, each path moves only
\* from a revision to a child of it, to nothing, or from nothing.
THEOREM DraftImplementsCasTree == Spec => ImplementsCasTree
<1>1. Abstract!Init /\ [][Abstract!Next]_<<TipRevs, Log>> <=> Abstract!Spec
  BY DEF Abstract!Spec, TipRevs, Log, Entry
<1>2. QED
  BY <1>1, InitRefines, NextRefines, InductiveInvariant, PTL
  DEF Spec, ImplementsCasTree
=============================================================================
