---------------------------- MODULE MCDraftSlices ----------------------------
EXTENDS MCWorkspaceDraft

(* Two slices of one state space in one run: in "edit" the slots edit a     *)
(* single path by hand; in "tree" they hydrate, rename and delete, and the  *)
(* only writes are those of a hydrate.                                      *)
VARIABLE slice

Fits(r) ==
  CASE slice = "edit" -> /\ r.stage # "idle" => r.path = p1 /\ r.content # blob
                         /\ r.op # "rename" /\ ~r.hydrating
    [] slice = "tree" -> r.op \in {"write", "content_ref"} => r.stage = "idle" \/ r.hydrating

SliceInit == Init /\ slice \in {"edit", "tree"}
SliceNext == Next /\ UNCHANGED slice /\ \A c \in Client : Fits(req'[c])
SliceSpec == SliceInit /\ [][SliceNext]_<<vars, slice>>
=============================================================================
