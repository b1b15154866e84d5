---------------------------- MODULE MCLeaseSlices ----------------------------
EXTENDS MCCodeLease

(* Two slices of one state space in one run: "scopes", two leases for the   *)
(* whole session and for another task, acquired and renewed; "expiry", one  *)
(* lease of one scope, every request, and a tick more.                      *)
VARIABLE slice

Fits(r) == r.stage # "idle" =>
  CASE slice = "scopes" -> r.op.kind \in {"acquire", "renew"}
    [] slice = "expiry" -> r.op.kind = "acquire" => r.op.scope = Wide

SliceInit == Init /\ slice \in {"scopes", "expiry"}
SliceNext == /\ Next /\ UNCHANGED slice
             /\ \A c \in Client : Fits(req'[c])
             /\ IF slice = "expiry" THEN Len(leases') <= 1 ELSE clock' <= 2
SliceSpec == SliceInit /\ [][SliceNext]_<<vars, slice>>
=============================================================================
