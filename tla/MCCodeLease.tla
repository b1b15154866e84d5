---------------------------- MODULE MCCodeLease ----------------------------
EXTENDS CodeLease, TLC

Wide   == [task |-> NoTask, paths |-> {}]
Area   == [task |-> NoTask, paths |-> {<<"a">>}]
Other  == [task |-> "t2", paths |-> {<<"c">>}]

TwoScopes  == {Wide, Other}
OneScope   == {Area}

\* Every reading of the table is the only one: no two rows tie in its order.
\* With one request at a time, what an acquire does not see is neither a lease
\* written in between nor one the database chose to leave out.
Ordered == \A i, j \in DOMAIN leases : i # j => Before(i, j) \/ Before(j, i)
OrderedSpec == Init /\ [][Next /\ Ordered']_vars

Symmetry == Permutations(Client) \cup Permutations(Actor)

=============================================================================
