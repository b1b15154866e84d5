--------------------------- MODULE AtomicSession ---------------------------
(***************************************************************************)
(* The promise of the code session: every accepted operation applies to the *)
(* row as it stands, all of it at once, and moves the revision by one.  The *)
(* tips the row remembers of its workspace may be refreshed at any time.    *)
(***************************************************************************)
EXTENDS CodeSessionRow

VARIABLE session

Init == \E value \in Reference, ledger \in Ledger : session = Initial(value, ledger)

Apply == \E op \in Operation, tip \in Tip :
           /\ Allowed(op, session)
           /\ op.kind = "receipt" => op.guarded
           /\ session' = Updated(op, session, session, tip)

Refresh == \E tip \in Tip : session' = [session EXCEPT !.tip = tip]

Next == Apply \/ Refresh

Spec == Init /\ [][Next]_session

=============================================================================
