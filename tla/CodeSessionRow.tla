--------------------------- MODULE CodeSessionRow ---------------------------
(***************************************************************************)
(* The code_sessions row and what each operation makes of it: the columns   *)
(* one UPDATE statement assigns, computed from a row read earlier.          *)
(***************************************************************************)
EXTENDS Naturals, Sequences

CONSTANTS
  Actor,     \* participants of the session
  Task,      \* ids of the tasks in the ledger
  Note,      \* what tells two checkpoints of one actor and revision apart
  Reference, \* values of working_transport and environment_manifest_id
  Receipt,   \* ids of execution receipts
  MaxRefs,   \* MAX_RECEIPT_REFS, the length of latest_execution_receipt_refs
  MaxTip     \* bound: tip vectors of the workspace, numbered as it moves

ASSUME MaxRefsAssumption == MaxRefs \in Nat \ {0}
ASSUME MaxTipAssumption == MaxTip \in Nat

Tip == 0..MaxTip

TaskState == {"queued", "claimed", "active", "blocked", "review", "done",
              "abandoned"}

\* The edges of the task ledger; a task enters it in any state.
CODE_TASK_TRANSITIONS ==
  [none      |-> TaskState,
   queued    |-> {"claimed", "active", "abandoned"},
   claimed   |-> {"active", "queued", "blocked", "abandoned"},
   active    |-> {"blocked", "review", "done", "abandoned", "claimed"},
   blocked   |-> {"active", "queued", "review", "abandoned"},
   review    |-> {"done", "active", "blocked", "abandoned"},
   done      |-> {"queued"},
   abandoned |-> {"queued"}]

Column == {"working_transport", "environment_manifest_id"}

\* A checkpoint's id is a hash of its body; the revision stands for the parts
\* of the body copied from the row.  0 is the revision of no checkpoint.
Checkpoint   == [by: Actor, note: Note, rev: Nat \ {0}, tip: Tip]
NoCheckpoint == [rev |-> 0]

Session ==
  [rev: Nat \ {0}, lifecycle: {"active", "paused"},
   ledger: [Task -> TaskState \cup {"none"}],
   checkpoint: Checkpoint \cup {NoCheckpoint}, checkpointTip: Tip, tip: Tip,
   bound: [Column -> Reference], refs: {s \in Seq(Receipt) : Len(s) <= MaxRefs},
   actors: [Actor -> [checkpoint: Checkpoint \cup {NoCheckpoint}, rev: Nat]]]

\* The requests that move the row, by what they name.
Operation ==
       [kind: {"task"}, by: Actor, task: Task, to: TaskState]
  \cup [kind: {"lifecycle"}, by: Actor, to: {"active", "paused"}]
  \cup [kind: {"bind"}, by: Actor, column: Column, value: Reference]
  \cup [kind: {"checkpoint"}, by: Actor, note: Note]
  \cup [kind: {"receipt"}, receipt: Receipt, guarded: BOOLEAN]

\* A session is created with the tasks, the transport and the environment its
\* creator names.
Ledger == [Task -> TaskState \cup {"none"}]

Initial(value, ledger) ==
  [rev |-> 1, lifecycle |-> "active", ledger |-> ledger,
   checkpoint |-> NoCheckpoint, checkpointTip |-> 0, tip |-> 0,
   bound |-> [k \in Column |-> value], refs |-> <<>>,
   actors |-> [a \in Actor |-> [checkpoint |-> NoCheckpoint, rev |-> 0]]]

\* What the operation checks of the row before it does anything.
Allowed(op, row) ==
  CASE op.kind = "task" -> op.to \in CODE_TASK_TRANSITIONS[row.ledger[op.task]]
    [] op.kind = "lifecycle" -> op.to # row.lifecycle
    [] OTHER -> TRUE

Row(op, read, tip) == [by |-> op.by, note |-> op.note, rev |-> read.rev, tip |-> tip]

\* Mutant: the list of references is not cut.
FirstRefsUncut(refs) == refs

FirstRefs(refs) == SubSeq(refs, 1, IF Len(refs) < MaxRefs THEN Len(refs) ELSE MaxRefs)

\* The row after the UPDATE: the columns the statement names come from the row
\* the request read (and the tips it saw), the others are left as they are.
Updated(op, read, row, tip) ==
  CASE op.kind = "task" ->
         [row EXCEPT !.rev = read.rev + 1,
                     !.ledger = [read.ledger EXCEPT ![op.task] = op.to],
                     !.actors = [read.actors EXCEPT ![op.by].rev = read.rev + 1]]
    [] op.kind = "lifecycle" ->
         [row EXCEPT !.rev = read.rev + 1,
                     !.lifecycle = op.to,
                     !.actors = [read.actors EXCEPT ![op.by].rev = read.rev + 1]]
    [] op.kind = "bind" ->
         [row EXCEPT !.rev = read.rev + 1, !.bound[op.column] = op.value]
    [] op.kind = "checkpoint" ->
         [row EXCEPT !.rev = read.rev + 1,
                     !.checkpoint = Row(op, read, tip),
                     !.checkpointTip = tip,
                     !.tip = tip,
                     !.actors = [read.actors EXCEPT
                                   ![op.by] = [checkpoint |-> Row(op, read, tip),
                                               rev |-> read.rev + 1]]]
    [] op.kind = "receipt" ->
         [row EXCEPT !.rev = IF op.guarded THEN read.rev + 1 ELSE @,
                     !.refs = FirstRefs(<<op.receipt>> \o read.refs)]

=============================================================================
