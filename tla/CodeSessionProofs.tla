-------------------------- MODULE CodeSessionProofs --------------------------
(***************************************************************************)
(* For any number of clients, tasks and revisions, the row only ever points *)
(* to checkpoints that were recorded before it, tasks move along the edges  *)
(* of the ledger with their events, and, when receipts carry their          *)
(* base_revision, the session is an atomic one.                             *)
(***************************************************************************)
EXTENDS CodeSession, SequenceTheorems, TLAPS

Swapping == Blind = FALSE

-----------------------------------------------------------------------------
(* The row *)

LEMMA OperationParts ==
  ASSUME NEW op \in Operation
  PROVE  /\ op.kind \in {"task", "lifecycle", "bind", "checkpoint", "receipt"}
         /\ op.kind = "task" =>
              op.by \in Actor /\ op.task \in Task /\ op.to \in TaskState
         /\ op.kind = "lifecycle" => op.by \in Actor /\ op.to \in {"active", "paused"}
         /\ op.kind = "bind" => op.column \in Column /\ op.value \in Reference
         /\ op.kind = "checkpoint" => op.by \in Actor /\ op.note \in Note
         /\ op.kind = "receipt" => op.receipt \in Receipt /\ op.guarded \in BOOLEAN
BY DEF Operation

Refs == {s \in Seq(Receipt) : Len(s) <= MaxRefs}

LEMMA FirstRefsType ==
  ASSUME NEW s \in Seq(Receipt)
  PROVE  FirstRefs(s) \in Refs
<1> DEFINE n == IF Len(s) < MaxRefs THEN Len(s) ELSE MaxRefs
<1>1. n \in Nat /\ n <= MaxRefs /\ n <= Len(s)
  BY MaxRefsAssumption
<1>2. \A i \in 1..n : s[i] \in Receipt
  BY <1>1
<1> HIDE DEF n
<1>3. SubSeq(s, 1, n) \in Seq(Receipt) /\ Len(SubSeq(s, 1, n)) <= MaxRefs
  BY <1>1, <1>2, SubSeqProperties, MaxRefsAssumption
<1>4. FirstRefs(s) = SubSeq(s, 1, n)
  BY DEF FirstRefs, n
<1>5. QED
  BY <1>3, <1>4 DEF Refs

Last == [checkpoint: Checkpoint \cup {NoCheckpoint}, rev: Nat]

LEMMA RowType ==
  ASSUME NEW op \in Operation, op.kind = "checkpoint",
         NEW read \in Session, NEW tip \in Tip
  PROVE  Row(op, read, tip) \in Checkpoint
BY OperationParts DEF Row, Checkpoint, Session

LEMMA SeenType ==
  ASSUME NEW actors \in [Actor -> Last], NEW a \in Actor, NEW n \in Nat
  PROVE  [actors EXCEPT ![a].rev = n] \in [Actor -> Last]
BY DEF Last

LEMMA UpdatedType ==
  ASSUME NEW op \in Operation, NEW read \in Session,
         NEW row \in Session, NEW tip \in Tip
  PROVE  /\ Updated(op, read, row, tip) \in Session
         /\ Updated(op, read, row, tip).rev \in {row.rev, read.rev + 1}
<1>1. /\ read.rev \in Nat \ {0} /\ read.rev + 1 \in Nat \ {0}
      /\ read.ledger \in [Task -> TaskState \cup {"none"}]
      /\ read.actors \in [Actor -> Last]
      /\ read.refs \in Refs
      /\ row.rev \in Nat \ {0} /\ row.bound \in [Column -> Reference]
  BY DEF Session, Last, Refs
<1>2. CASE op.kind = "task"
  <2>1. op.by \in Actor /\ op.task \in Task /\ op.to \in TaskState
    BY <1>2, OperationParts
  <2>2. [read.ledger EXCEPT ![op.task] = op.to] \in [Task -> TaskState \cup {"none"}]
    BY <2>1, <1>1
  <2>3. [read.actors EXCEPT ![op.by].rev = read.rev + 1] \in [Actor -> Last]
    BY <2>1, <1>1, SeenType
  <2>4. QED
    BY <1>1, <1>2, <2>2, <2>3 DEF Updated, Session, Last
<1>3. CASE op.kind = "lifecycle"
  <2>1. op.by \in Actor /\ op.to \in {"active", "paused"}
    BY <1>3, OperationParts
  <2>2. [read.actors EXCEPT ![op.by].rev = read.rev + 1] \in [Actor -> Last]
    BY <2>1, <1>1, SeenType
  <2>3. QED
    BY <1>1, <1>3, <2>1, <2>2 DEF Updated, Session, Last
<1>4. CASE op.kind = "bind"
  <2>1. op.column \in Column /\ op.value \in Reference
    BY <1>4, OperationParts
  <2>2. [row.bound EXCEPT ![op.column] = op.value] \in [Column -> Reference]
    BY <2>1, <1>1
  <2>3. Updated(op, read, row, tip) =
          [row EXCEPT !.rev = read.rev + 1,
                      !.bound = [row.bound EXCEPT ![op.column] = op.value]]
    BY <1>4 DEF Updated, Session
  <2>4. QED
    BY <1>1, <2>2, <2>3 DEF Session
<1>5. CASE op.kind = "checkpoint"
  <2>1. op.by \in Actor
    BY <1>5, OperationParts
  <2>2. Row(op, read, tip) \in Checkpoint
    BY <1>5, RowType
  <2>3. [read.actors EXCEPT ![op.by] = [checkpoint |-> Row(op, read, tip),
                                        rev |-> read.rev + 1]] \in [Actor -> Last]
    BY <1>1, <2>1, <2>2 DEF Last
  <2>4. QED
    BY <1>1, <1>5, <2>2, <2>3 DEF Updated, Session, Last
<1>6. CASE op.kind = "receipt"
  <2>1. op.receipt \in Receipt
    BY <1>6, OperationParts
  <2>2. <<op.receipt>> \o read.refs \in Seq(Receipt)
    BY <1>1, <2>1 DEF Refs
  <2>3. FirstRefs(<<op.receipt>> \o read.refs) \in Refs
    BY <2>2, FirstRefsType
  <2>4. QED
    BY <1>1, <1>6, <2>3 DEF Updated, Session, Refs
<1>7. QED
  BY <1>2, <1>3, <1>4, <1>5, <1>6, OperationParts

\* What an UPDATE takes from the row its request read.
Agree(read, row) ==
  /\ read.rev = row.rev
  /\ read.ledger = row.ledger
  /\ read.actors = row.actors

LEMMA UpdatedRev ==
  ASSUME NEW op \in Operation, NEW read \in Session, NEW row \in Session,
         NEW tip \in Tip, read.rev = row.rev,
         op.kind = "receipt" => op.guarded
  PROVE  Updated(op, read, row, tip).rev = row.rev + 1
<1>1. CASE op.kind = "task"
  BY <1>1 DEF Updated, Session
<1>2. CASE op.kind = "lifecycle"
  BY <1>2 DEF Updated, Session
<1>3. CASE op.kind = "bind"
  BY <1>3 DEF Updated, Session
<1>4. CASE op.kind = "checkpoint"
  BY <1>4 DEF Updated, Session
<1>5. CASE op.kind = "receipt"
  BY <1>5 DEF Updated, Session
<1>6. QED
  BY <1>1, <1>2, <1>3, <1>4, <1>5, OperationParts

LEMMA UpdatedActors ==
  ASSUME NEW op \in Operation, NEW read \in Session, NEW row \in Session,
         NEW tip \in Tip, read.actors = row.actors, op.kind # "checkpoint",
         NEW a \in Actor
  PROVE  Updated(op, read, row, tip).actors[a].checkpoint = row.actors[a].checkpoint
<1>1. row.actors \in [Actor -> Last]
  BY DEF Session, Last
<1>2. ASSUME NEW b, NEW n
      PROVE  [row.actors EXCEPT ![b].rev = n][a].checkpoint = row.actors[a].checkpoint
  BY <1>1 DEF Last
<1>3. CASE op.kind \in {"task", "lifecycle"}
  <2>1. Updated(op, read, row, tip).actors
          = [row.actors EXCEPT ![op.by].rev = read.rev + 1]
    <3>1. CASE op.kind = "task"
      BY <3>1 DEF Updated, Session
    <3>2. CASE op.kind = "lifecycle"
      BY <3>2 DEF Updated, Session
    <3>3. QED
      BY <3>1, <3>2, <1>3
  <2>2. QED
    BY <2>1, <1>2
<1>4. CASE op.kind = "bind"
  BY <1>4 DEF Updated, Session
<1>5. CASE op.kind = "receipt"
  BY <1>5 DEF Updated, Session
<1>6. QED
  BY <1>3, <1>4, <1>5, OperationParts

\* Only a checkpoint writes the pointer to the latest one.
LEMMA UpdatedPointer ==
  ASSUME NEW op \in Operation, NEW read \in Session, NEW row \in Session,
         NEW tip \in Tip, op.kind # "checkpoint"
  PROVE  /\ Updated(op, read, row, tip).checkpoint = row.checkpoint
         /\ Updated(op, read, row, tip).checkpointTip = row.checkpointTip
<1>1. CASE op.kind = "task"
  BY <1>1 DEF Updated, Session
<1>2. CASE op.kind = "lifecycle"
  BY <1>2 DEF Updated, Session
<1>3. CASE op.kind = "bind"
  BY <1>3 DEF Updated, Session
<1>4. CASE op.kind = "receipt"
  BY <1>4 DEF Updated, Session
<1>5. QED
  BY <1>1, <1>2, <1>3, <1>4, OperationParts

LEMMA UpdatedFromCurrent ==
  ASSUME NEW op, NEW read, NEW row, NEW tip, Agree(read, row),
         op.kind = "receipt" => read.refs = row.refs
  PROVE  Updated(op, read, row, tip) = Updated(op, row, row, tip)
BY DEF Agree, Updated, Row

-----------------------------------------------------------------------------
(* Requests *)

LEMMA BecomeType ==
  ASSUME req \in [Client -> Request \cup {Idle}], NEW c \in Client,
         NEW r \in Request \cup {Idle}, Become(c, r)
  PROVE  /\ req' \in [Client -> Request \cup {Idle}]
         /\ \A d \in Client : req'[d] = IF d = c THEN r ELSE req[d]
BY DEF Become

LEMMA RequestType ==
  ASSUME TypeOK, NEW c \in Client, req[c].stage # "idle"
  PROVE  req[c] \in Request
BY DEF TypeOK, Idle

LEMMA IdleOK == RequestOK(Idle)
BY DEF RequestOK, Idle

\* The row moves on: a revision keeps what an UPDATE is computed from.
MovesOn ==
  /\ checkpoints \subseteq checkpoints'
  /\ session' \in Session
  /\ session.rev <= session'.rev
  /\ session.rev = session'.rev =>
       /\ session.lifecycle = session'.lifecycle
       /\ session.ledger = session'.ledger
       /\ session.actors = session'.actors
       /\ Blind \/ session.refs = session'.refs

LEMMA RequestStable ==
  ASSUME TypeOK, MovesOn, NEW r \in Request, RequestOK(r)
  PROVE  RequestOK(r)'
<1>1. r.read.rev \in Nat /\ session.rev \in Nat /\ session'.rev \in Nat
  BY DEF TypeOK, Request, Session, MovesOn
<1>2. ReadIsCurrent(r) => ReadIsCurrent(r)'
  BY <1>1 DEF ReadIsCurrent, MovesOn
<1>3. QED
  BY <1>2 DEF RequestOK, MovesOn

\* What remains to be shown of a step of one client.
LEMMA StepOfClient ==
  ASSUME IInv, MovesOn, NEW c \in Client, NEW r \in Request \cup {Idle},
         Become(c, r), RequestOK(r)',
         checkpoints' \subseteq Checkpoint, events' \subseteq Event,
         receipts' \subseteq Receipt, workspaceTip' \in Tip,
         CheckpointsBacked'
  PROVE  IInv'
<1>1. /\ req' \in [Client -> Request \cup {Idle}]
      /\ \A d \in Client : req'[d] = IF d = c THEN r ELSE req[d]
  BY BecomeType DEF IInv, TypeOK
<1>2. TypeOK'
  BY <1>1 DEF TypeOK, MovesOn
<1>3. ASSUME NEW d \in Client PROVE RequestOK(req[d])'
  <2>1. CASE d = c
    <3>1. req'[d] = r
      BY <2>1, <1>1
    <3>2. QED
      BY <3>1 DEF RequestOK, ReadIsCurrent
  <2>2. CASE d # c
    <3>1. req'[d] = req[d]
      BY <2>2, <1>1
    <3>2. PICK q \in Request \cup {Idle} : q = req[d]
      BY DEF IInv, TypeOK
    <3>3. RequestOK(q)
      BY <3>2 DEF IInv
    <3>4. RequestOK(q)'
      BY <3>3, RequestStable, IdleOK DEF IInv, RequestOK, Idle
    <3>5. QED
      BY <3>1, <3>2, <3>4 DEF RequestOK, ReadIsCurrent
  <2>3. QED
    BY <2>1, <2>2
<1>4. QED
  BY <1>2, <1>3 DEF IInv

\* Steps that leave the row alone.
LEMMA RowUnchanged ==
  ASSUME IInv, session' = session, checkpoints \subseteq checkpoints'
  PROVE  MovesOn /\ CheckpointsBacked'
<1>1. session.rev \in Nat
  BY DEF IInv, TypeOK, Session
<1>2. QED
  BY <1>1 DEF IInv, TypeOK, MovesOn, CheckpointsBacked, PointsToCheckpoint

\* A step of one client's request that leaves the row alone.
LEMMA QuietStep ==
  ASSUME IInv, session' = session, checkpoints \subseteq checkpoints',
         NEW c \in Client, NEW r \in Request \cup {Idle}, Become(c, r),
         RequestOK(r)',
         checkpoints' \subseteq Checkpoint, events' \subseteq Event,
         receipts' \subseteq Receipt, workspaceTip' = workspaceTip
  PROVE  IInv'
<1>1. MovesOn /\ CheckpointsBacked'
  BY RowUnchanged
<1>2. workspaceTip' \in Tip
  BY DEF IInv, TypeOK
<1>3. QED
  BY <1>1, <1>2, StepOfClient

LEMMA InitOK == Init => IInv
<1> SUFFICES ASSUME Init PROVE IInv
  OBVIOUS
<1>1. PICK value \in Reference, ledger \in Ledger : session = Initial(value, ledger)
  BY DEF Init
<1>2. <<>> \in {s \in Seq(Receipt) : Len(s) <= MaxRefs}
  BY MaxRefsAssumption
<1>3. 0 \in Tip
  BY MaxTipAssumption DEF Tip
<1>4. session \in Session
  BY <1>1, <1>2, <1>3 DEF Initial, Session, Ledger, NoCheckpoint
<1>5. TypeOK
  BY <1>3, <1>4 DEF Init, TypeOK
<1>6. CheckpointsBacked
  BY <1>1 DEF CheckpointsBacked, PointsToCheckpoint, Initial, NoCheckpoint
<1>7. ASSUME NEW c \in Client PROVE RequestOK(req[c])
  BY IdleOK DEF Init
<1>8. QED
  BY <1>5, <1>6, <1>7 DEF IInv

LEMMA BeginOK ==
  ASSUME IInv, NEW c \in Client, Begin(c)
  PROVE  IInv'
<1>1. PICK op \in Operation \cup {Compile} :
        /\ op # Compile => Allowed(op, session)
        /\ op.kind = "receipt" => op.guarded \/ Blind
        /\ Become(c, [stage |-> FirstStage(op), op |-> op, read |-> session, tip |-> 0])
  BY DEF Begin
<1>2. PICK read \in Session : read = session
  BY DEF IInv, TypeOK
<1> DEFINE r == [stage |-> FirstStage(op), op |-> op, read |-> read, tip |-> 0]
<1>3. FirstStage(op) \in {"first", "record", "commit"}
  BY DEF FirstStage
<1>4. r \in Request
  BY <1>3, MaxTipAssumption DEF Request, Tip
<1>5. UNCHANGED <<session, checkpoints, events, receipts, workspaceTip>>
  BY DEF Begin
<1>6. session.rev \in Nat /\ session' = read
  BY <1>2, <1>5 DEF Session
<1>7. ReadIsCurrent(r)'
  BY <1>2, <1>6 DEF ReadIsCurrent, Session
<1>8. op = Compile => FirstStage(op) = "first"
  BY DEF FirstStage, Compile
<1>9. FirstStage(op) = "commit" => op.kind # "checkpoint"
  BY DEF FirstStage
<1>10. RequestOK(r)'
  BY <1>1, <1>2, <1>7, <1>8, <1>9 DEF RequestOK
<1>11. Become(c, r)
  BY <1>1, <1>2
<1> HIDE DEF r
<1>12. QED
  BY <1>4, <1>5, <1>10, <1>11, QuietStep DEF IInv, TypeOK

LEMMA FirstTipsOK ==
  ASSUME IInv, NEW c \in Client, FirstTips(c)
  PROVE  IInv'
<1>1. PICK r \in Request : r = req[c]
  BY RequestType DEF IInv, FirstTips
<1>2. PICK tip \in Tip : tip = workspaceTip
  BY DEF IInv, TypeOK
<1> DEFINE q == [r EXCEPT !.stage = "second", !.tip = tip]
<1>3. q \in Request /\ Become(c, q)
  BY <1>1, <1>2 DEF FirstTips, Request
<1>4. UNCHANGED <<session, checkpoints, events, receipts, workspaceTip>>
  BY DEF FirstTips
<1>5. RequestOK(r) /\ r.stage = "first"
  BY <1>1 DEF IInv, FirstTips
<1>6. RequestOK(q)'
  BY <1>4, <1>5 DEF RequestOK, ReadIsCurrent, Request
<1> HIDE DEF q
<1>7. QED
  BY <1>3, <1>4, <1>6, QuietStep DEF IInv, TypeOK

LEMMA SecondTipsOK ==
  ASSUME IInv, NEW c \in Client, SecondTips(c)
  PROVE  IInv'
<1>1. PICK r \in Request : r = req[c]
  BY RequestType DEF IInv, SecondTips
<1> DEFINE q == [r EXCEPT !.stage = IF r.op = Compile THEN "refresh" ELSE "record"]
<1>2. q \in Request
  BY DEF Request
<1>3. UNCHANGED <<session, checkpoints, events, receipts, workspaceTip>>
  BY DEF SecondTips
<1>4. RequestOK(r) /\ r.stage = "second"
  BY <1>1 DEF IInv, SecondTips
<1>5. RequestOK(q)'
  BY <1>3, <1>4 DEF RequestOK, ReadIsCurrent, Request
<1>6. Become(c, q) \/ Become(c, Idle)
  BY <1>1 DEF SecondTips
<1>7. RequestOK(Idle)'
  BY DEF RequestOK, Idle
<1> HIDE DEF q
<1>8. QED
  BY <1>2, <1>3, <1>5, <1>6, <1>7, QuietStep DEF IInv, TypeOK

LEMMA RecordCheckpointOK ==
  ASSUME IInv, NEW c \in Client, RecordCheckpoint(c)
  PROVE  IInv'
<1>1. PICK r \in Request : r = req[c]
  BY RequestType DEF IInv, RecordCheckpoint
<1>2. PICK row : row = Row(r.op, r.read, r.tip)
  OBVIOUS
<1> DEFINE q == [r EXCEPT !.stage = "commit"]
<1>3. r.stage = "record" /\ r.op.kind = "checkpoint" /\ RequestOK(r)
  BY <1>1 DEF IInv, RecordCheckpoint
<1>4. r.op \in Operation
  BY <1>3 DEF Request, RequestOK
<1>5. row \in Checkpoint
  BY <1>2, <1>3, <1>4, RowType DEF Request
<1>6. /\ checkpoints' = checkpoints \cup {row}
      /\ Become(c, q) \/ Become(c, Idle)
      /\ UNCHANGED <<session, events, receipts, workspaceTip>>
  BY <1>1, <1>2 DEF RecordCheckpoint
<1>7. q \in Request
  BY DEF Request
<1>8. RequestOK(q)' /\ RequestOK(Idle)'
  <2>1. ReadIsCurrent(q)'
    BY <1>3, <1>6 DEF RequestOK, ReadIsCurrent, Request
  <2>2. Row(q.op, q.read, q.tip) \in checkpoints'
    BY <1>2, <1>6 DEF Request, Row
  <2>3. QED
    BY <2>1, <2>2, <1>3 DEF RequestOK, Request, Idle
<1> HIDE DEF q
<1>9. QED
  BY <1>5, <1>6, <1>7, <1>8, QuietStep DEF IInv, TypeOK

LEMMA RecordEventOK ==
  ASSUME IInv, NEW c \in Client, RecordEvent(c)
  PROVE  IInv'
<1>1. PICK r \in Request : r = req[c]
  BY RequestType DEF IInv, RecordEvent
<1> DEFINE q == [r EXCEPT !.stage = "commit"]
<1>2. r.stage = "record" /\ r.op.kind = "task" /\ RequestOK(r)
  BY <1>1 DEF IInv, RecordEvent
<1>3. r.op \in Operation
  BY <1>2 DEF Request, RequestOK
<1>4. PICK e : /\ e = [task |-> r.op.task, from |-> r.read.ledger[r.op.task],
                       to |-> r.op.to, by |-> r.op.by, rev |-> r.read.rev + 1]
               /\ events' = events \cup {e}
               /\ Become(c, q) \/ Become(c, Idle)
               /\ UNCHANGED <<session, checkpoints, receipts, workspaceTip>>
  BY <1>1 DEF RecordEvent
<1>5. e \in Event
  <2>1. r.op.by \in Actor /\ r.op.task \in Task /\ r.op.to \in TaskState
    BY <1>2, <1>3, OperationParts
  <2>2. r.read.ledger[r.op.task] \in TaskState \cup {"none"} /\ r.read.rev + 1 \in Nat
    BY <2>1 DEF Request, Session
  <2>3. QED
    BY <1>4, <2>1, <2>2 DEF Event
<1>6. q \in Request
  BY DEF Request
<1>7. RequestOK(q)' /\ RequestOK(Idle)'
  BY <1>2, <1>4 DEF RequestOK, ReadIsCurrent, Request, Idle
<1> HIDE DEF q
<1>8. QED
  BY <1>4, <1>5, <1>6, <1>7, QuietStep DEF IInv, TypeOK

LEMMA RecordReceiptOK ==
  ASSUME IInv, NEW c \in Client, RecordReceipt(c)
  PROVE  IInv'
<1>1. PICK r \in Request : r = req[c]
  BY RequestType DEF IInv, RecordReceipt
<1> DEFINE q == [r EXCEPT !.stage = "commit"]
<1>2. r.stage = "record" /\ r.op.kind = "receipt" /\ RequestOK(r)
  BY <1>1 DEF IInv, RecordReceipt
<1>3. r.op \in Operation
  BY <1>2 DEF Request, RequestOK
<1>4. /\ receipts' = receipts \cup {r.op.receipt}
      /\ Become(c, q) \/ Become(c, Idle)
      /\ UNCHANGED <<session, checkpoints, events, workspaceTip>>
  BY <1>1 DEF RecordReceipt
<1>5. r.op.receipt \in Receipt
  BY <1>2, <1>3, OperationParts
<1>6. q \in Request
  BY DEF Request
<1>7. RequestOK(q)' /\ RequestOK(Idle)'
  BY <1>2, <1>4 DEF RequestOK, ReadIsCurrent, Request, Idle
<1> HIDE DEF q
<1>8. QED
  BY <1>4, <1>5, <1>6, <1>7, QuietStep DEF IInv, TypeOK

-----------------------------------------------------------------------------
(* Steps that move the row *)

\* What the swap of one request makes of the row.
LEMMA SwapOK ==
  ASSUME IInv, NEW r \in Request, RequestOK(r), r.stage = "commit",
         r.read.rev = session.rev,
         r.op.kind = "receipt" => r.op.guarded,
         session' = Updated(r.op, r.read, session, r.tip),
         checkpoints' = checkpoints
  PROVE  MovesOn /\ CheckpointsBacked'
<1>1. PICK op \in Operation, read \in Session, tip \in Tip, row \in Session :
        op = r.op /\ read = r.read /\ tip = r.tip /\ row = session
  BY DEF IInv, TypeOK, RequestOK, Request
<1>2. session' = Updated(op, read, row, tip) /\ session' \in Session
  BY <1>1, UpdatedType
<1>3. read.actors = row.actors /\ read.rev = row.rev /\ row.rev \in Nat
  BY <1>1 DEF RequestOK, ReadIsCurrent, Session
<1>4. op.kind \in {"task", "lifecycle", "bind", "checkpoint", "receipt"}
  BY OperationParts
<1>5. session'.rev = row.rev + 1
  BY <1>1, <1>2, <1>3, UpdatedRev
<1>6. MovesOn
  BY <1>1, <1>2, <1>3, <1>5 DEF MovesOn
<1>7. /\ PointsToCheckpoint(row.checkpoint)
      /\ row.checkpoint # NoCheckpoint => row.checkpoint.tip = row.checkpointTip
      /\ \A a \in Actor : /\ PointsToCheckpoint(row.actors[a].checkpoint)
                          /\ row.actors[a].checkpoint # NoCheckpoint =>
                               row.actors[a].checkpoint.by = a
  BY <1>1 DEF IInv, CheckpointsBacked
<1>8. \A p \in Checkpoint \cup {NoCheckpoint} :
         PointsToCheckpoint(p) => PointsToCheckpoint(p)'
  BY <1>1, <1>3, <1>5 DEF PointsToCheckpoint, Checkpoint, NoCheckpoint
<1>9. /\ row.checkpoint \in Checkpoint \cup {NoCheckpoint}
      /\ row.actors \in [Actor -> Last]
  BY DEF Session, Last
<1>10. \A a \in Actor : row.actors[a].checkpoint \in Checkpoint \cup {NoCheckpoint}
  BY <1>9 DEF Last
<1>11. CASE op.kind = "checkpoint"
  <2>1. PICK made \in Checkpoint : made = Row(op, read, tip)
    BY <1>11, RowType
  <2>2. made \in checkpoints /\ made.rev = row.rev /\ made.tip = tip /\ made.by = op.by
    BY <2>1, <1>1, <1>3, <1>11 DEF RequestOK, Row
  <2>3. PointsToCheckpoint(made)'
    BY <2>2, <1>3, <1>5 DEF PointsToCheckpoint
  <2>4. op.by \in Actor
    BY <1>11, OperationParts
  <2>5. /\ session'.checkpoint = made /\ session'.checkpointTip = tip
        /\ session'.actors = [row.actors EXCEPT ![op.by] =
                                [checkpoint |-> made, rev |-> row.rev + 1]]
    <3>1. session' = [row EXCEPT
                        !.rev = read.rev + 1,
                        !.checkpoint = made,
                        !.checkpointTip = tip,
                        !.tip = tip,
                        !.actors = [read.actors EXCEPT
                                      ![op.by] = [checkpoint |-> made,
                                                  rev |-> read.rev + 1]]]
      BY <1>2, <1>11, <2>1 DEF Updated
    <3>2. QED
      BY <3>1, <1>3 DEF Session
  <2>6. ASSUME NEW a \in Actor
        PROVE  /\ PointsToCheckpoint(session.actors[a].checkpoint)'
               /\ session'.actors[a].checkpoint # NoCheckpoint =>
                    session'.actors[a].checkpoint.by = a
    <3>1. CASE a = op.by
      <4>1. session'.actors[a].checkpoint = made
        BY <3>1, <2>5, <1>9
      <4>2. QED
        BY <4>1, <3>1, <2>2, <2>3 DEF PointsToCheckpoint
    <3>2. CASE a # op.by
      <4>1. session'.actors[a].checkpoint = row.actors[a].checkpoint
        BY <3>2, <2>5, <1>9
      <4>2. QED
        BY <4>1, <1>7, <1>8, <1>10 DEF PointsToCheckpoint
    <3>3. QED
      BY <3>1, <3>2
  <2>7. QED
    BY <1>6, <2>2, <2>3, <2>5, <2>6 DEF CheckpointsBacked, PointsToCheckpoint
<1>12. CASE op.kind # "checkpoint"
  <2>1. session'.checkpoint = row.checkpoint /\ session'.checkpointTip = row.checkpointTip
    BY <1>2, <1>12, UpdatedPointer
  <2>2. ASSUME NEW a \in Actor
        PROVE  session'.actors[a].checkpoint = row.actors[a].checkpoint
    BY <1>2, <1>3, <1>12, UpdatedActors
  <2>3. QED
    BY <1>6, <1>7, <1>8, <1>9, <1>10, <2>1, <2>2
    DEF CheckpointsBacked, PointsToCheckpoint
<1>13. QED
  BY <1>11, <1>12

LEMMA CommitOK ==
  ASSUME IInv, NEW c \in Client, Commit(c)
  PROVE  IInv'
<1>1. PICK r \in Request : r = req[c]
  BY RequestType DEF IInv, Commit
<1>2. /\ RequestOK(r) /\ r.stage = "commit"
      /\ r.op.kind = "receipt" => r.op.guarded
      /\ Become(c, Idle)
      /\ UNCHANGED <<checkpoints, events, receipts, workspaceTip>>
  BY <1>1 DEF IInv, Commit
<1>3. MovesOn /\ CheckpointsBacked'
  <2>1. CASE session.rev = r.read.rev
    BY <2>1, <1>1, <1>2, SwapOK DEF Commit, Swap
  <2>2. CASE session.rev # r.read.rev
    BY <2>2, <1>1, <1>2, RowUnchanged DEF Commit, Swap
  <2>3. QED
    BY <2>1, <2>2
<1>4. RequestOK(Idle)'
  BY DEF RequestOK, Idle
<1>5. QED
  BY <1>2, <1>3, <1>4, StepOfClient DEF IInv, TypeOK

\* A write that does not move the revision touches the references alone.
LEMMA CommitBlindOK ==
  ASSUME IInv, NEW c \in Client, CommitBlind(c)
  PROVE  IInv'
<1>1. PICK r \in Request : r = req[c]
  BY RequestType DEF IInv, CommitBlind
<1>2. /\ RequestOK(r) /\ r.stage = "commit"
      /\ r.op.kind = "receipt" /\ ~r.op.guarded /\ Blind
      /\ session' = Updated(r.op, r.read, session, r.tip)
      /\ Become(c, Idle)
      /\ UNCHANGED <<checkpoints, events, receipts, workspaceTip>>
  BY <1>1 DEF IInv, RequestOK, CommitBlind
<1>3. r.op \in Operation /\ r.read \in Session /\ r.tip \in Tip
  BY <1>2 DEF RequestOK, Request
<1>4. session \in Session
  BY DEF IInv, TypeOK
<1>5. session' \in Session
  BY <1>2, <1>3, <1>4, UpdatedType
<1>6. session' = [session EXCEPT !.refs = FirstRefs(<<r.op.receipt>> \o r.read.refs)]
  BY <1>2, <1>4 DEF Updated, Session
<1>7. /\ session'.rev = session.rev /\ session.rev \in Nat
      /\ session'.lifecycle = session.lifecycle
      /\ session'.ledger = session.ledger
      /\ session'.actors = session.actors
      /\ session'.checkpoint = session.checkpoint
      /\ session'.checkpointTip = session.checkpointTip
  BY <1>4, <1>6 DEF Session
<1>8. MovesOn
  BY <1>2, <1>5, <1>7 DEF MovesOn
<1>9. CheckpointsBacked'
  BY <1>2, <1>7 DEF IInv, CheckpointsBacked, PointsToCheckpoint
<1>10. RequestOK(Idle)'
  BY DEF RequestOK, Idle
<1>11. QED
  BY <1>2, <1>8, <1>9, <1>10, StepOfClient DEF IInv, TypeOK

LEMMA RefreshOK ==
  ASSUME IInv, NEW c \in Client, Refresh(c)
  PROVE  IInv'
<1>1. PICK r \in Request : r = req[c]
  BY RequestType DEF IInv, Refresh
<1>2. /\ session' = session \/ session' = [session EXCEPT !.tip = r.tip]
      /\ Become(c, Idle)
      /\ UNCHANGED <<checkpoints, events, receipts, workspaceTip>>
  BY <1>1 DEF Refresh
<1>3. session \in Session /\ r.tip \in Tip
  BY DEF IInv, TypeOK, Request
<1>4. /\ session' \in Session
      /\ session'.rev = session.rev /\ session.rev \in Nat
      /\ session'.lifecycle = session.lifecycle
      /\ session'.ledger = session.ledger
      /\ session'.actors = session.actors
      /\ session'.refs = session.refs
      /\ session'.checkpoint = session.checkpoint
      /\ session'.checkpointTip = session.checkpointTip
  BY <1>2, <1>3 DEF Session
<1>5. MovesOn
  BY <1>2, <1>4 DEF MovesOn
<1>6. CheckpointsBacked'
  BY <1>2, <1>4 DEF IInv, CheckpointsBacked, PointsToCheckpoint
<1>7. RequestOK(Idle)'
  BY DEF RequestOK, Idle
<1>8. QED
  BY <1>2, <1>5, <1>6, <1>7, StepOfClient DEF IInv, TypeOK

LEMMA DieOK ==
  ASSUME IInv, NEW c \in Client, Die(c)
  PROVE  IInv'
<1>1. RequestOK(Idle)'
  BY DEF RequestOK, Idle
<1>2. QED
  BY <1>1, QuietStep DEF Die, IInv, TypeOK

\* Steps that leave the row and the requests alone.
LEMMA AsideOK ==
  ASSUME IInv, UNCHANGED <<session, checkpoints, events, receipts, req>>,
         workspaceTip' \in Tip
  PROVE  IInv'
<1>1. TypeOK'
  BY DEF IInv, TypeOK
<1>2. CheckpointsBacked'
  BY DEF IInv, CheckpointsBacked, PointsToCheckpoint
<1>3. ASSUME NEW c \in Client PROVE RequestOK(req[c])'
  BY DEF IInv, RequestOK, ReadIsCurrent
<1>4. QED
  BY <1>1, <1>2, <1>3 DEF IInv

LEMMA MoveTipsOK ==
  ASSUME IInv, MoveTips
  PROVE  IInv'
<1>1. workspaceTip \in Tip /\ workspaceTip < MaxTip /\ workspaceTip' = workspaceTip + 1
  BY DEF IInv, TypeOK, MoveTips
<1>2. workspaceTip' \in Tip
  BY <1>1, MaxTipAssumption DEF Tip
<1>3. QED
  BY <1>2, AsideOK DEF MoveTips

THEOREM InductiveInvariant == Spec => []IInv
<1>1. Init => IInv
  BY InitOK
<1>2. IInv /\ [Next]_vars => IInv'
  <2> SUFFICES ASSUME IInv, [Next]_vars PROVE IInv'
    OBVIOUS
  <2>1. CASE UNCHANGED vars
    BY <2>1, AsideOK DEF vars, IInv, TypeOK
  <2>2. CASE MoveTips
    BY <2>2, MoveTipsOK
  <2>3. ASSUME NEW c \in Client,
               \/ Begin(c) \/ FirstTips(c) \/ SecondTips(c)
               \/ RecordCheckpoint(c) \/ RecordEvent(c) \/ RecordReceipt(c)
               \/ Commit(c) \/ CommitBlind(c) \/ Refresh(c) \/ Die(c)
        PROVE  IInv'
    BY <2>3, BeginOK, FirstTipsOK, SecondTipsOK, RecordCheckpointOK, RecordEventOK,
       RecordReceiptOK, CommitOK, CommitBlindOK, RefreshOK, DieOK
  <2>4. QED
    BY <2>1, <2>2, <2>3 DEF Next
<1>3. QED
  BY <1>1, <1>2, PTL DEF Spec

\* The row never points to a checkpoint that is not in the append-only table,
\* whichever requests died or lost the race for the revision.
THEOREM CheckpointsAreBacked == Spec => []CheckpointsBacked
<1>1. IInv => CheckpointsBacked
  BY DEF IInv
<1>2. QED
  BY <1>1, InductiveInvariant, PTL

\* The row, the tables and the requests are of their types, whatever the number
\* of clients, tasks and revisions.
THEOREM TypeCorrect == Spec => []TypeOK
<1>1. IInv => TypeOK
  BY DEF IInv
<1>2. QED
  BY <1>1, InductiveInvariant, PTL

-----------------------------------------------------------------------------
(* The task ledger *)

EventOf(r) ==
  [task |-> r.op.task, from |-> r.read.ledger[r.op.task], to |-> r.op.to,
   by |-> r.op.by, rev |-> r.read.rev + 1]

Recorded(r) == r.stage = "commit" /\ r.op.kind = "task" => EventOf(r) \in events

\* A request about to move a task has its event in the table.
EventsRecorded == \A c \in Client : Recorded(req[c])

LEMMA EventsStable ==
  ASSUME IInv, EventsRecorded, NEW c \in Client, NEW q, Become(c, q),
         events \subseteq events', Recorded(q)'
  PROVE  EventsRecorded'
<1>1. \A d \in Client : req'[d] = IF d = c THEN q ELSE req[d]
  BY DEF IInv, TypeOK, Become
<1>2. \A r : Recorded(r) => Recorded(r)'
  BY DEF Recorded
<1>3. QED
  BY <1>1, <1>2 DEF EventsRecorded, Recorded

LEMMA EventsNext ==
  ASSUME IInv, EventsRecorded, [Next]_vars
  PROVE  EventsRecorded'
<1>1. CASE UNCHANGED vars \/ MoveTips
  BY <1>1 DEF vars, MoveTips, EventsRecorded, Recorded
<1>2. Recorded(Idle)'
  BY DEF Recorded, Idle
<1>3. ASSUME NEW c \in Client, Begin(c) PROVE EventsRecorded'
  <2>1. PICK op \in Operation \cup {Compile} :
          /\ Become(c, [stage |-> FirstStage(op), op |-> op, read |-> session, tip |-> 0])
          /\ events' = events
    BY <1>3 DEF Begin
  <2>2. op.kind = "task" => FirstStage(op) = "record"
    BY DEF FirstStage
  <2>3. QED
    BY <2>1, <2>2, EventsStable DEF Recorded
<1>4. ASSUME NEW c \in Client, FirstTips(c) \/ SecondTips(c) PROVE EventsRecorded'
  <2>1. PICK r \in Request : r = req[c]
    BY <1>4, RequestType DEF IInv, FirstTips, SecondTips
  <2>2. /\ events' = events
        /\ \/ Become(c, [r EXCEPT !.stage = "second", !.tip = workspaceTip])
           \/ Become(c, [r EXCEPT !.stage = IF r.op = Compile THEN "refresh" ELSE "record"])
           \/ Become(c, Idle)
    BY <1>4, <2>1 DEF FirstTips, SecondTips
  <2>3. QED
    BY <2>2, <1>2, EventsStable DEF Recorded, Request
<1>5. ASSUME NEW c \in Client, RecordCheckpoint(c) \/ RecordReceipt(c)
      PROVE  EventsRecorded'
  <2>1. PICK r \in Request : r = req[c]
    BY <1>5, RequestType DEF IInv, RecordCheckpoint, RecordReceipt
  <2>2. /\ events' = events /\ r.op.kind # "task"
        /\ Become(c, [r EXCEPT !.stage = "commit"]) \/ Become(c, Idle)
    BY <1>5, <2>1 DEF RecordCheckpoint, RecordReceipt
  <2>3. QED
    BY <2>2, <1>2, EventsStable DEF Recorded, Request
<1>6. ASSUME NEW c \in Client, RecordEvent(c) PROVE EventsRecorded'
  <2>1. PICK r \in Request : r = req[c]
    BY <1>6, RequestType DEF IInv, RecordEvent
  <2> DEFINE q == [r EXCEPT !.stage = "commit"]
  <2>2. /\ events' = events \cup {EventOf(r)}
        /\ Become(c, q) \/ Become(c, Idle)
    BY <1>6, <2>1 DEF RecordEvent, EventOf
  <2>3. EventOf(q) = EventOf(r)
    BY DEF EventOf, Request
  <2> HIDE DEF q
  <2>4. QED
    BY <2>2, <2>3, <1>2, EventsStable DEF Recorded
<1>7. ASSUME NEW c \in Client, Commit(c) \/ CommitBlind(c) \/ Refresh(c) \/ Die(c)
      PROVE  EventsRecorded'
  <2>1. Become(c, Idle) /\ events' = events
    BY <1>7 DEF Commit, CommitBlind, Refresh, Die
  <2>2. QED
    BY <2>1, <1>2, EventsStable
<1>8. QED
  BY <1>1, <1>3, <1>4, <1>5, <1>6, <1>7 DEF Next

\* A task changes state only by the UPDATE of a request that read the row as it
\* stands.
LEMMA TaskMoved ==
  ASSUME IInv, [Next]_vars, NEW t \in Task, session'.ledger[t] # session.ledger[t]
  PROVE  \E c \in Client :
           LET r == req[c]
           IN /\ r.stage = "commit" /\ r.op.kind = "task" /\ r.op.task = t
              /\ r.read.ledger[t] = session.ledger[t]
              /\ session'.ledger[t] = r.op.to
              /\ session'.rev = r.read.rev + 1
              /\ r.op.to \in CODE_TASK_TRANSITIONS[session.ledger[t]]
<1>1. session \in Session
  BY DEF IInv, TypeOK
<1>2. ASSUME NEW c \in Client, CommitBlind(c) PROVE FALSE
  <2>1. PICK r \in Request : r = req[c]
    BY <1>2, RequestType DEF IInv, CommitBlind
  <2>2. /\ r.op.kind = "receipt" /\ ~r.op.guarded
        /\ session' = Updated(r.op, r.read, session, r.tip)
    BY <1>2, <2>1 DEF CommitBlind
  <2>3. session' = [session EXCEPT !.refs = FirstRefs(<<r.op.receipt>> \o r.read.refs)]
    BY <2>2, <1>1 DEF Updated, Session
  <2>4. QED
    BY <2>3, <1>1 DEF Session
<1>3. ASSUME NEW c \in Client, Refresh(c) PROVE FALSE
  BY <1>3, <1>1 DEF Refresh, Session
<1>4. ASSUME NEW c \in Client,
             \/ Begin(c) \/ FirstTips(c) \/ SecondTips(c)
             \/ RecordCheckpoint(c) \/ RecordEvent(c) \/ RecordReceipt(c) \/ Die(c)
      PROVE  FALSE
  BY <1>4 DEF Begin, FirstTips, SecondTips, RecordCheckpoint, RecordEvent,
              RecordReceipt, Die
<1>5. PICK c \in Client : Commit(c)
  BY <1>2, <1>3, <1>4 DEF Next, MoveTips, vars
<1>6. PICK r \in Request : r = req[c]
  BY <1>5, RequestType DEF IInv, Commit
<1>7. /\ r.stage = "commit" /\ RequestOK(r) /\ session.rev = r.read.rev
      /\ session' = Updated(r.op, r.read, session, r.tip)
  BY <1>5, <1>6 DEF IInv, Commit, Swap
<1>8. r.op \in Operation /\ Allowed(r.op, r.read) /\ r.read.ledger = session.ledger
  BY <1>7 DEF RequestOK, ReadIsCurrent, Request
<1>9. r.op.kind \in {"task", "lifecycle", "bind", "checkpoint", "receipt"}
  BY <1>8, OperationParts
<1>10. r.op.kind = "task"
  BY <1>1, <1>7, <1>9 DEF Updated, Session
<1>11. /\ session'.ledger = [r.read.ledger EXCEPT ![r.op.task] = r.op.to]
       /\ session'.rev = r.read.rev + 1
  BY <1>1, <1>7, <1>10 DEF Updated, Session
<1>12. r.op.task = t /\ session'.ledger[t] = r.op.to
  BY <1>1, <1>8, <1>11 DEF Session
<1>13. r.op.to \in CODE_TASK_TRANSITIONS[session.ledger[t]]
  BY <1>8, <1>10, <1>12 DEF Allowed
<1>14. QED
  BY <1>6, <1>7, <1>8, <1>10, <1>11, <1>12, <1>13

\* Every change of a task has its event in the append-only table, with the
\* state it left and the new revision, before the row shows it.
THEOREM LedgerIsExplained == Spec => LedgerExplained
<1>1. Init => EventsRecorded
  BY DEF Init, EventsRecorded, Recorded, Idle
<1>2. IInv /\ EventsRecorded /\ [Next]_vars => EventsRecorded'
  BY EventsNext
<1> DEFINE Explained ==
      \A t \in Task : session'.ledger[t] # session.ledger[t] =>
        \E e \in events : /\ e.task = t
                          /\ e.from = session.ledger[t]
                          /\ e.to = session'.ledger[t]
                          /\ e.rev = session'.rev
<1>3. IInv /\ EventsRecorded /\ [Next]_vars => [Explained]_vars
  <2> SUFFICES ASSUME IInv, EventsRecorded, [Next]_vars,
                      NEW t \in Task, session'.ledger[t] # session.ledger[t]
               PROVE  \E e \in events : /\ e.task = t
                                        /\ e.from = session.ledger[t]
                                        /\ e.to = session'.ledger[t]
                                        /\ e.rev = session'.rev
    OBVIOUS
  <2>1. PICK c \in Client :
          LET r == req[c]
          IN /\ r.stage = "commit" /\ r.op.kind = "task" /\ r.op.task = t
             /\ r.read.ledger[t] = session.ledger[t]
             /\ session'.ledger[t] = r.op.to
             /\ session'.rev = r.read.rev + 1
    BY TaskMoved
  <2>2. EventOf(req[c]) \in events
    BY <2>1 DEF EventsRecorded, Recorded
  <2>3. QED
    BY <2>1, <2>2 DEF EventOf
<1>4. QED
  BY <1>1, <1>2, <1>3, InductiveInvariant, PTL DEF Spec, LedgerExplained

\* Tasks follow CODE_TASK_TRANSITIONS, although each request checks its edge
\* against a row it read earlier.
THEOREM TasksAlwaysFollowEdges == Spec => TasksFollowEdges
<1> DEFINE Follows ==
      \A t \in Task : session'.ledger[t] \in
        CODE_TASK_TRANSITIONS[session.ledger[t]] \cup {session.ledger[t]}
<1>1. IInv /\ [Next]_vars => [Follows]_vars
  <2> SUFFICES ASSUME IInv, [Next]_vars, NEW t \in Task,
                      session'.ledger[t] # session.ledger[t]
               PROVE  session'.ledger[t] \in CODE_TASK_TRANSITIONS[session.ledger[t]]
    OBVIOUS
  <2>1. QED
    BY TaskMoved
<1>2. QED
  BY <1>1, InductiveInvariant, PTL DEF Spec, TasksFollowEdges

-----------------------------------------------------------------------------
(* Refinement *)

\* The two specifications share CodeSessionRow.
LEMMA SameRow ==
  /\ Atomic!Tip = Tip
  /\ Atomic!Ledger = Ledger
  /\ Atomic!Operation = Operation
  /\ \A value, ledger : Atomic!Initial(value, ledger) = Initial(value, ledger)
  /\ \A op, row : Atomic!Allowed(op, row) <=> Allowed(op, row)
  /\ \A op, read, row, tip :
       Atomic!Updated(op, read, row, tip) = Updated(op, read, row, tip)
<1>1. Atomic!Tip = Tip
  BY DEF Atomic!Tip, Tip
<1>2. Atomic!TaskState = TaskState /\ Atomic!Column = Column
      /\ Atomic!NoCheckpoint = NoCheckpoint
      /\ Atomic!CODE_TASK_TRANSITIONS = CODE_TASK_TRANSITIONS
  BY DEF Atomic!TaskState, TaskState, Atomic!Column, Column, Atomic!NoCheckpoint,
         NoCheckpoint, Atomic!CODE_TASK_TRANSITIONS, CODE_TASK_TRANSITIONS
<1>3. Atomic!Ledger = Ledger
  BY <1>2 DEF Atomic!Ledger, Ledger
<1>4. Atomic!Operation = Operation
  BY <1>2 DEF Atomic!Operation, Operation
<1>5. \A value, ledger : Atomic!Initial(value, ledger) = Initial(value, ledger)
  BY <1>2 DEF Atomic!Initial, Initial
<1>6. \A op, row : Atomic!Allowed(op, row) <=> Allowed(op, row)
  BY <1>2 DEF Atomic!Allowed, Allowed
<1>7. /\ \A op, read, tip : Atomic!Row(op, read, tip) = Row(op, read, tip)
      /\ \A refs : Atomic!FirstRefs(refs) = FirstRefs(refs)
  BY DEF Atomic!Row, Row, Atomic!FirstRefs, FirstRefs
<1>8. \A op, read, row, tip :
        Atomic!Updated(op, read, row, tip) = Updated(op, read, row, tip)
  BY <1>7 DEF Atomic!Updated, Updated
<1>9. QED
  BY <1>1, <1>3, <1>4, <1>5, <1>6, <1>8

LEMMA CommitIsAtomic ==
  ASSUME Swapping, IInv, NEW c \in Client, Commit(c)
  PROVE  [Atomic!Next]_session
<1>1. PICK r \in Request : r = req[c]
  BY RequestType DEF IInv, Commit
<1>2. /\ RequestOK(r) /\ r.stage = "commit"
      /\ r.op.kind = "receipt" => r.op.guarded
  BY <1>1 DEF IInv, Commit
<1>3. /\ r.op \in Operation /\ r.op # Compile
      /\ r.read \in Session /\ r.tip \in Tip /\ Allowed(r.op, r.read)
  BY <1>2 DEF RequestOK, Request
<1>4. CASE session.rev # r.read.rev
  BY <1>4, <1>1 DEF Commit, Swap
<1>5. CASE session.rev = r.read.rev
  <2>1. session' = Updated(r.op, r.read, session, r.tip)
    BY <1>5, <1>1 DEF Commit, Swap
  <2>2. /\ r.read.lifecycle = session.lifecycle
        /\ r.read.refs = session.refs
        /\ Agree(r.read, session)
    BY <1>2, <1>5 DEF RequestOK, ReadIsCurrent, Agree, Swapping
  <2>3. session' = Updated(r.op, session, session, r.tip)
    BY <2>1, <2>2, UpdatedFromCurrent
  <2>4. Allowed(r.op, session)
    BY <1>3, <2>2 DEF Allowed, Agree
  <2>5. Atomic!Apply
    BY <1>2, <1>3, <2>3, <2>4, SameRow DEF Atomic!Apply
  <2>6. QED
    BY <2>5 DEF Atomic!Next
<1>6. QED
  BY <1>4, <1>5

LEMMA RefreshIsAtomic ==
  ASSUME IInv, NEW c \in Client, Refresh(c)
  PROVE  [Atomic!Next]_session
<1>1. req[c].tip \in Tip
  BY RequestType DEF IInv, Refresh, Request
<1>2. session' = session \/ session' = [session EXCEPT !.tip = req[c].tip]
  BY DEF Refresh
<1>3. QED
  BY <1>1, <1>2, SameRow DEF Atomic!Next, Atomic!Refresh

\* The code session keeps the promise of the atomic one: an operation that is
\* accepted applied to the row as it stood, and none is lost.
THEOREM SessionIsAtomic ==
  ASSUME Swapping
  PROVE  Spec => ImplementsAtomicSession
<1>1. Init => Atomic!Init
  BY SameRow DEF Init, Atomic!Init
<1>2. IInv /\ [Next]_vars => [Atomic!Next]_session
  <2> SUFFICES ASSUME IInv, [Next]_vars PROVE [Atomic!Next]_session
    OBVIOUS
  <2>1. ASSUME NEW c \in Client, Commit(c) PROVE [Atomic!Next]_session
    BY <2>1, CommitIsAtomic, Swapping
  <2>2. ASSUME NEW c \in Client, Refresh(c) PROVE [Atomic!Next]_session
    BY <2>2, RefreshIsAtomic
  <2>3. ASSUME NEW c \in Client, CommitBlind(c) PROVE FALSE
    BY <2>3, Swapping DEF Swapping, CommitBlind, IInv, RequestOK
  <2>4. ASSUME NEW c \in Client,
               \/ Begin(c) \/ FirstTips(c) \/ SecondTips(c)
               \/ RecordCheckpoint(c) \/ RecordEvent(c) \/ RecordReceipt(c)
               \/ Die(c)
        PROVE  session' = session
    BY <2>4 DEF Begin, FirstTips, SecondTips, RecordCheckpoint, RecordEvent,
                RecordReceipt, Die
  <2>5. QED
    BY <2>1, <2>2, <2>3, <2>4 DEF Next, MoveTips, vars
<1>3. QED
  BY <1>1, <1>2, InductiveInvariant, PTL DEF Spec, ImplementsAtomicSession, Atomic!Spec

=============================================================================
