-------------------------- MODULE MCWorkspaceDraft --------------------------
(* Bounded instances of WorkspaceDraft for TLC. *)
EXTENDS WorkspaceDraft, TLC

CONSTANTS c1, c2, p1, p2, empty, text, blob, a1, a2

\* Request slots are interchangeable; no liveness is checked with this set.
ClientSymmetry == Permutations({c1, c2})

EditKinds   == {"write", "content_ref", "delete"}
RenameKinds == {"write", "delete", "rename"}
AllKinds    == EditKinds \cup RenameKinds \cup {"hydrate"}
=============================================================================
