------------------------------ MODULE CasTree ------------------------------
(***************************************************************************)
(* The promise of the draft plane: every path is a compare-and-swap         *)
(* register whose value is a revision of an append-only log.  A register    *)
(* that holds a revision changes only to a child of that revision, or is    *)
(* emptied; an update made against any other revision has no effect, and a  *)
(* register never holds a revision of another path.                         *)
(***************************************************************************)
EXTENDS Naturals, Sequences

CONSTANT Path

VARIABLES
  head,  \* the revision each path holds, 0 if none
  log    \* for each revision its path and the revision it was made from

Init == /\ head = [p \in Path |-> 0]
        /\ log = <<>>

Record == \E p \in Path, base \in 0..Len(log) :
            /\ log' = Append(log, [path |-> p, parent |-> base])
            /\ UNCHANGED head

\* A new revision, or one that a rename carries over from another path.
Create(p) == \E r \in 1..Len(log) :
               /\ head[p] = 0
               /\ log[r].path = p
               /\ head' = [head EXCEPT ![p] = r]
               /\ UNCHANGED log

Advance(p) == \E r \in 1..Len(log) :
                /\ head[p] # 0
                /\ log[r] = [path |-> p, parent |-> head[p]]
                /\ head' = [head EXCEPT ![p] = r]
                /\ UNCHANGED log

Remove(p) == /\ head[p] # 0
             /\ head' = [head EXCEPT ![p] = 0]
             /\ UNCHANGED log

Next == \/ Record
        \/ \E p \in Path : Create(p) \/ Advance(p) \/ Remove(p)

Spec == Init /\ [][Next]_<<head, log>>

=============================================================================
