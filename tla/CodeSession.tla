---------------------------- MODULE CodeSession ----------------------------
(***************************************************************************)
(* The durable code session: agents move one code_sessions row with a       *)
(* compare-and-swap on its revision, and the append-only tables around it   *)
(* (checkpoints, task events, receipts) are written before the row, by      *)
(* statements of their own.  The workspace's tips move all the while.       *)
(***************************************************************************)
EXTENDS CodeSessionRow

CONSTANTS
  Client,  \* concurrent requests
  Kinds,   \* the kinds of operation requested
  Blind,   \* whether receipts also come without a base_revision
  CanDie,  \* whether a request may die between two statements
  MaxRev   \* bound: revisions of the row

ASSUME FlagsAssumption == Blind \in BOOLEAN /\ CanDie \in BOOLEAN

VARIABLES
  session,      \* the row
  checkpoints,  \* code_checkpoints
  events,       \* code_session_task_ledger_events
  receipts,     \* code_session_execution_receipts
  workspaceTip, \* the tip vector of the workspace
  req           \* the request each client is working on

vars == <<session, checkpoints, events, receipts, workspaceTip, req>>

Event == [task: Task, from: TaskState \cup {"none"}, to: TaskState, by: Actor,
          rev: Nat]

\* `read` is the row the request read first, `tip` the tips it saw.
Compile == [kind |-> "compile"]

Request ==
  [stage: {"idle", "first", "second", "record", "commit", "refresh"},
   op: Operation \cup {Compile}, read: Session, tip: Tip]

Idle == [stage |-> "idle"]

Become(c, r) == req' = [req EXCEPT ![c] = r]

Init == /\ \E value \in Reference, ledger \in Ledger :
             session = Initial(value, ledger)
        /\ checkpoints = {}
        /\ events = {}
        /\ receipts = {}
        /\ workspaceTip = 0
        /\ req = [c \in Client |-> Idle]

-----------------------------------------------------------------------------
(* Requests *)

\* Mutant: a task's event is not recorded before the row.
FirstStageWithoutEvent(op) ==
  CASE op.kind \in {"checkpoint", "compile"} -> "first"
    [] op.kind = "receipt" -> "record"
    [] OTHER -> "commit"

\* Mutant: a checkpoint's row is not recorded before the pointer to it.
FirstStageWithoutRow(op) ==
  CASE op.kind = "compile" -> "first"
    [] op.kind \in {"task", "receipt"} -> "record"
    [] OTHER -> "commit"

FirstStage(op) ==
  CASE op.kind \in {"checkpoint", "compile"} -> "first"
    [] op.kind \in {"task", "receipt"} -> "record"
    [] OTHER -> "commit"

\* The row is read, the caller's base_revision is its revision (any other is
\* refused), and the operation's own conditions hold of it.
Begin(c) ==
  \E op \in Operation \cup {Compile} :
    /\ req[c] = Idle
    /\ op.kind \in Kinds
    /\ op.kind = "receipt" => op.guarded \/ Blind
    /\ op # Compile => session.rev < MaxRev /\ Allowed(op, session)
    /\ Become(c, [stage |-> FirstStage(op), op |-> op, read |-> session, tip |-> 0])
    /\ UNCHANGED <<session, checkpoints, events, receipts, workspaceTip>>

\* refreshWorkspaceTipState: the tips are listed twice and must agree.
FirstTips(c) ==
  /\ req[c].stage = "first"
  /\ Become(c, [req[c] EXCEPT !.stage = "second", !.tip = workspaceTip])
  /\ UNCHANGED <<session, checkpoints, events, receipts, workspaceTip>>

\* The caller of a checkpoint may also have named the digest it expects.
SecondTips(c) ==
  /\ req[c].stage = "second"
  /\ \/ /\ workspaceTip = req[c].tip
        /\ Become(c, [req[c] EXCEPT
                        !.stage = IF req[c].op = Compile THEN "refresh" ELSE "record"])
     \/ /\ workspaceTip # req[c].tip \/ req[c].op # Compile
        /\ Become(c, Idle)
  /\ UNCHANGED <<session, checkpoints, events, receipts, workspaceTip>>

RecordCheckpoint(c) ==
  LET r == req[c]  row == Row(r.op, r.read, r.tip)
  IN /\ r.stage = "record" /\ r.op.kind = "checkpoint"
     /\ checkpoints' = checkpoints \cup {row}
     /\ Become(c, IF row \in checkpoints THEN Idle ELSE [r EXCEPT !.stage = "commit"])
     /\ UNCHANGED <<session, events, receipts, workspaceTip>>

\* The event's id hashes the time as well: an equal event is refused only when
\* it was recorded in the same millisecond.
RecordEvent(c) ==
  LET r == req[c]
      e == [task |-> r.op.task, from |-> r.read.ledger[r.op.task], to |-> r.op.to,
            by |-> r.op.by, rev |-> r.read.rev + 1]
  IN /\ r.stage = "record" /\ r.op.kind = "task"
     /\ events' = events \cup {e}
     /\ \/ Become(c, [r EXCEPT !.stage = "commit"])
        \/ e \in events /\ Become(c, Idle)
     /\ UNCHANGED <<session, checkpoints, receipts, workspaceTip>>

\* A base_revision is compared with the row only after the receipt is in.
RecordReceipt(c) ==
  LET r == req[c]
  IN /\ r.stage = "record" /\ r.op.kind = "receipt"
     /\ receipts' = receipts \cup {r.op.receipt}
     /\ \/ r.op.receipt \notin receipts /\ Become(c, [r EXCEPT !.stage = "commit"])
        \/ (r.op.receipt \in receipts \/ r.op.guarded) /\ Become(c, Idle)
     /\ UNCHANGED <<session, checkpoints, events, workspaceTip>>

\* Mutant: UPDATE ... WHERE code_session_id = ?
SwapUnguarded(r) == session' = Updated(r.op, r.read, session, r.tip)

\* UPDATE ... WHERE code_session_id = ? AND session_revision = ?
Swap(r) == session' = IF session.rev = r.read.rev
                      THEN Updated(r.op, r.read, session, r.tip)
                      ELSE session

Commit(c) ==
  LET r == req[c]
  IN /\ r.stage = "commit"
     /\ r.op.kind = "receipt" => r.op.guarded
     /\ Swap(r)
     /\ Become(c, Idle)
     /\ UNCHANGED <<checkpoints, events, receipts, workspaceTip>>

\* Without a base_revision the receipt references are written unconditionally.
CommitBlind(c) ==
  LET r == req[c]
  IN /\ r.stage = "commit"
     /\ r.op.kind = "receipt" /\ ~r.op.guarded
     /\ session' = Updated(r.op, r.read, session, r.tip)
     /\ Become(c, Idle)
     /\ UNCHANGED <<checkpoints, events, receipts, workspaceTip>>

\* compile_context remembers the tips it saw, without a new revision.
Refresh(c) ==
  LET r == req[c]
  IN /\ r.stage = "refresh"
     /\ session' = IF r.read.tip # r.tip /\ session.rev = r.read.rev
                   THEN [session EXCEPT !.tip = r.tip]
                   ELSE session
     /\ Become(c, Idle)
     /\ UNCHANGED <<checkpoints, events, receipts, workspaceTip>>

MoveTips ==
  /\ workspaceTip < MaxTip
  /\ workspaceTip' = workspaceTip + 1
  /\ UNCHANGED <<session, checkpoints, events, receipts, req>>

Die(c) ==
  /\ CanDie
  /\ req[c] # Idle
  /\ Become(c, Idle)
  /\ UNCHANGED <<session, checkpoints, events, receipts, workspaceTip>>

Next == \/ MoveTips
        \/ \E c \in Client :
             \/ Begin(c)
             \/ FirstTips(c) \/ SecondTips(c)
             \/ RecordCheckpoint(c) \/ RecordEvent(c) \/ RecordReceipt(c)
             \/ Commit(c) \/ CommitBlind(c) \/ Refresh(c)
             \/ Die(c)

Spec == Init /\ [][Next]_vars

-----------------------------------------------------------------------------
(* Correctness *)

TypeOK ==
  /\ session \in Session
  /\ checkpoints \subseteq Checkpoint
  /\ events \subseteq Event
  /\ receipts \subseteq Receipt
  /\ workspaceTip \in Tip
  /\ req \in [Client -> Request \cup {Idle}]

\* The checkpoints the row points to, as the latest and as each actor's last,
\* are in the append-only table, were made on an earlier revision, and agree
\* with the tips the row says they have; whichever requests died half way.
PointsToCheckpoint(pointer) ==
  pointer = NoCheckpoint \/ (pointer \in checkpoints /\ pointer.rev < session.rev)

CheckpointsBacked ==
  /\ PointsToCheckpoint(session.checkpoint)
  /\ session.checkpoint # NoCheckpoint =>
       session.checkpoint.tip = session.checkpointTip
  /\ \A a \in Actor :
       LET last == session.actors[a].checkpoint
       IN /\ PointsToCheckpoint(last)
          /\ last # NoCheckpoint => last.by = a

\* While the revision a request read is still the row's, so are the parts of
\* the row that the request's UPDATE will be computed from, and the operation
\* is still allowed.  Only receipts without a base_revision break the rule.
ReadIsCurrent(r) ==
  /\ r.read.rev <= session.rev
  /\ r.read.rev = session.rev =>
       /\ r.read.lifecycle = session.lifecycle
       /\ r.read.ledger = session.ledger
       /\ r.read.actors = session.actors
       /\ Blind \/ r.read.refs = session.refs

RequestOK(r) ==
  /\ r.stage # "idle" => ReadIsCurrent(r)
  /\ r.stage # "idle" /\ r.op # Compile => Allowed(r.op, r.read)
  /\ r.stage # "idle" /\ r.op.kind = "receipt" => r.op.guarded \/ Blind
  /\ r.stage \in {"record", "commit"} => r.op # Compile
  /\ r.stage = "commit" /\ r.op.kind = "checkpoint" =>
       Row(r.op, r.read, r.tip) \in checkpoints

IInv == /\ TypeOK
        /\ CheckpointsBacked
        /\ \A c \in Client : RequestOK(req[c])

\* A task changes state only by a transition whose event, with the state it
\* left and the new revision, is already in the append-only table.
LedgerExplained ==
  [][\A t \in Task : session'.ledger[t] # session.ledger[t] =>
       \E e \in events : /\ e.task = t
                         /\ e.from = session.ledger[t]
                         /\ e.to = session'.ledger[t]
                         /\ e.rev = session'.rev]_vars

\* The ledger follows the edges of CODE_TASK_TRANSITIONS, although each
\* request checks its edge against a row it read earlier.
TasksFollowEdges ==
  [][\A t \in Task :
       session'.ledger[t] \in CODE_TASK_TRANSITIONS[session.ledger[t]]
         \cup {session.ledger[t]}]_vars

\* The session is an atomic one: no accepted operation is lost or applied to
\* anything but the row as it stands.
Atomic == INSTANCE AtomicSession
ImplementsAtomicSession == Atomic!Spec

=============================================================================
