---------------------------- MODULE AccessGrant ----------------------------
(***************************************************************************)
(* One access grant: created with a notice to its principal, read a first   *)
(* time by the principal, revoked by the grantor.  Both changes of status   *)
(* are UPDATEs whose WHERE names the status; the answer comes from a        *)
(* SELECT after it.                                                         *)
(***************************************************************************)
EXTENDS Naturals

CONSTANT Client   \* concurrent requests

VARIABLES
  grant,   \* the access_grants row
  sent,    \* whether the notice has been sent; its message id is the grant's
  req      \* the request each client is working on

vars == <<grant, sent, req>>

-----------------------------------------------------------------------------
Nobody == "none"

\* `term` is expires_at against the clock; `read_by` and `revoked_by` stand for
\* first_read_at and revoked_at.
NoGrant == [status |-> "none", term |-> "running", read_by |-> Nobody,
            revoked_by |-> Nobody, notified |-> FALSE]

Idle(answer) == [stage |-> "idle", answer |-> answer]

Init == /\ grant = NoGrant
        /\ sent = FALSE
        /\ req = [c \in Client |-> Idle("none")]

Goto(c, stage) == req' = [req EXCEPT ![c] = [stage |-> stage]]
Reply(c, answer) == req' = [req EXCEPT ![c] = Idle(answer)]
At(c, stage) == req[c].stage = stage

-----------------------------------------------------------------------------
(* createAccessGrant, maybeNotifyGrant *)

Create(c) ==
  /\ At(c, "idle")
  /\ grant.status = "none"
  /\ grant' = [grant EXCEPT !.status = "granted"]
  /\ Goto(c, "send") \/ Reply(c, "none")
  /\ UNCHANGED sent

Send(c) ==
  /\ At(c, "send")
  /\ \/ sent' = TRUE /\ Goto(c, "notified")
     \/ UNCHANGED sent /\ Reply(c, "none")
  /\ UNCHANGED grant

Notified(c) ==
  /\ At(c, "notified")
  /\ grant' = [grant EXCEPT !.notified = TRUE]
  /\ Reply(c, "none")
  /\ UNCHANGED sent

-----------------------------------------------------------------------------
(* revokeAccessGrant, by the grantor *)

BeginRevoke(c) ==
  /\ At(c, "idle")
  /\ grant.status # "none"
  /\ IF grant.status = "revoked" THEN Reply(c, "revoked") ELSE Goto(c, "revoke")
  /\ UNCHANGED <<grant, sent>>

\* Mutant: the UPDATE names the grant only.
RevokeAgain(c) ==
  /\ At(c, "revoke")
  /\ grant' = [grant EXCEPT !.status = "revoked", !.revoked_by = c]
  /\ Reply(c, "revoked")
  /\ UNCHANGED sent

Revoke(c) ==
  /\ At(c, "revoke")
  /\ grant' = IF grant.status = "revoked" THEN grant
              ELSE [grant EXCEPT !.status = "revoked", !.revoked_by = c]
  /\ Reply(c, "revoked")
  /\ UNCHANGED sent

-----------------------------------------------------------------------------
(* markAccessGrantFirstRead, by the principal *)

BeginRead(c) ==
  /\ At(c, "idle")
  /\ grant.status # "none"
  /\ CASE grant.status = "revoked" \/ grant.term = "over" -> Reply(c, "refused")
       [] grant.status = "first_read" /\ grant.term = "running" -> Reply(c, "read")
       [] OTHER -> Goto(c, "read")
  /\ UNCHANGED <<grant, sent>>

Read(c) ==
  /\ At(c, "read")
  /\ grant' = IF grant.status = "granted"
              THEN [grant EXCEPT !.status = "first_read", !.read_by = c]
              ELSE grant
  /\ Goto(c, "answer")
  /\ UNCHANGED sent

\* Answered with ok whatever is read: a revoke that came first shows only in
\* the grant that is returned.
Answer(c) ==
  /\ At(c, "answer")
  /\ Reply(c, IF grant.status = "revoked" THEN "revoked" ELSE "read")
  /\ UNCHANGED <<grant, sent>>

Lapse ==
  /\ grant.status # "none" /\ grant.term = "running"
  /\ grant' = [grant EXCEPT !.term = "over"]
  /\ UNCHANGED <<sent, req>>

Die(c) ==
  /\ ~At(c, "idle")
  /\ Reply(c, "none")
  /\ UNCHANGED <<grant, sent>>

Next == Lapse \/ \E c \in Client :
          \/ Create(c) \/ Send(c) \/ Notified(c) \/ BeginRevoke(c) \/ Revoke(c)
          \/ BeginRead(c) \/ Read(c) \/ Answer(c) \/ Die(c)
Spec == Init /\ [][Next]_vars

-----------------------------------------------------------------------------
(* Properties *)

\* A grant that is revoked stays so, with its first revocation and its first
\* read as they were: neither a first read nor a second revocation that was
\* decided earlier, nor the notice, writes over it.
RevokedStays ==
  [][grant.status = "revoked" =>
       grant'.status = "revoked" /\ grant'.revoked_by = grant.revoked_by
       /\ grant'.read_by = grant.read_by]_vars

\* The row and the answers agree: a grant reported as read has its first read
\* on record, one reported as revoked is revoked, and a notice on record was
\* sent.
AnswersHold ==
  /\ \A c \in Client : req[c].stage = "idle" =>
       /\ req[c].answer = "read" => grant.read_by # Nobody
       /\ req[c].answer = "revoked" => grant.status = "revoked"
  /\ grant.notified => sent
  /\ grant.status = "first_read" => grant.read_by # Nobody

\* The row of a grant, what is answered about it and what becomes of it.
GrantKept == []AnswersHold /\ RevokedStays
=============================================================================
