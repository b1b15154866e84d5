-------------------------- MODULE WorkspaceInvite --------------------------
(***************************************************************************)
(* One workspace invite: minted for a principal, claimed (and claimed again *)
(* for a fresh capability), expired or revoked, with the deny list of       *)
(* capability nonces and the membership a claim gives.  A claim issues its  *)
(* capability before it writes; a revocation denies the nonce it read.      *)
(***************************************************************************)
EXTENDS Naturals

CONSTANTS
  Client,      \* concurrent requests
  MaxNonce     \* bound: capabilities issued

VARIABLES
  invite,   \* the workspace_invites row
  denied,   \* workspace_capability_denylist
  member,   \* the principal's role in workspace_members
  issued,   \* the last nonce issued
  crossed,  \* history: a claim, or a death, fell between two steps of a revocation
  req       \* the request each client is working on

vars == <<invite, denied, member, issued, crossed, req>>

-----------------------------------------------------------------------------
\* Nonce 0 is null.
NoInvite == [state |-> "none", nonce |-> 0, term |-> "running"]
Idle == [stage |-> "idle"]

Init == /\ invite = NoInvite
        /\ denied = {}
        /\ member = "none"
        /\ issued = 0
        /\ crossed = FALSE
        /\ req = [c \in Client |-> Idle]

Become(c, r) == req' = [req EXCEPT ![c] = r]
Reply(c) == Become(c, Idle)
At(c, stage) == req[c].stage = stage
Revoking(c) == req[c].stage \in {"revoke", "deny"}

-----------------------------------------------------------------------------
Mint(c) ==
  /\ At(c, "idle")
  /\ invite.state = "none"
  /\ invite' = [NoInvite EXCEPT !.state = "pending"]
  /\ UNCHANGED <<denied, member, issued, crossed, req>>

BeginRevoke(c) ==
  /\ At(c, "idle")
  /\ invite.state \notin {"none", "revoked"}
  /\ Become(c, [stage |-> "revoke", nonce |-> invite.nonce])
  /\ UNCHANGED <<invite, denied, member, issued, crossed>>

Revoke(c) ==
  /\ At(c, "revoke")
  /\ invite' = [invite EXCEPT !.state = "revoked"]
  /\ IF req[c].nonce = 0 THEN Reply(c) ELSE Become(c, [req[c] EXCEPT !.stage = "deny"])
  /\ UNCHANGED <<denied, member, issued, crossed>>

Deny(c) ==
  /\ At(c, "deny")
  /\ denied' = denied \cup {req[c].nonce}
  /\ Reply(c)
  /\ UNCHANGED <<invite, member, issued, crossed>>

-----------------------------------------------------------------------------
(* claimWorkspaceInviteFromBody, by the principal of the invite *)

BeginClaim(c) ==
  /\ At(c, "idle")
  /\ invite.state # "none"
  /\ CASE invite.state = "revoked" -> Reply(c) /\ UNCHANGED issued
       [] invite.state = "expired"
          \/ (invite.state = "claimed" /\ invite.term = "over") -> Reply(c) /\ UNCHANGED issued
       [] invite.state = "pending" /\ invite.term = "over" ->
            Become(c, [stage |-> "expire"]) /\ UNCHANGED issued
       [] OTHER -> /\ issued < MaxNonce
                   /\ issued' = issued + 1
                   /\ Become(c, [stage |-> "claim", seen |-> invite.state, nonce |-> issued + 1])
  /\ UNCHANGED <<invite, denied, member, crossed>>

Expire(c) ==
  /\ At(c, "expire")
  /\ invite' = IF invite.state = "pending" THEN [invite EXCEPT !.state = "expired"] ELSE invite
  /\ Reply(c)
  /\ UNCHANGED <<denied, member, issued, crossed>>

\* Mutant: a claim writes whatever the invite has become.
ClaimAny(c) ==
  /\ At(c, "claim")
  /\ invite' = [invite EXCEPT !.state = "claimed", !.nonce = req[c].nonce]
  /\ crossed' = (crossed \/ \E d \in Client : Revoking(d))
  /\ Become(c, [stage |-> "member"])
  /\ UNCHANGED <<denied, member, issued>>

\* The UPDATE asks for the state that was read; whether it changed a row is
\* not looked at.
Claim(c) ==
  /\ At(c, "claim")
  /\ IF invite.state = req[c].seen
     THEN /\ invite' = [invite EXCEPT !.state = "claimed", !.nonce = req[c].nonce]
          /\ crossed' = (crossed \/ \E d \in Client : Revoking(d))
     ELSE UNCHANGED <<invite, crossed>>
  /\ Become(c, [stage |-> "member"])
  /\ UNCHANGED <<denied, member, issued>>

Join(c) ==
  /\ At(c, "member")
  /\ IF member = "none" THEN Become(c, [stage |-> "join"]) ELSE Reply(c)
  /\ UNCHANGED <<invite, denied, member, issued, crossed>>

Joined(c) ==
  /\ At(c, "join")
  /\ member' = "invited"
  /\ Reply(c)
  /\ UNCHANGED <<invite, denied, issued, crossed>>

-----------------------------------------------------------------------------
\* The operator sets a role of his own.
SetRole ==
  /\ member # "set"
  /\ member' = "set"
  /\ UNCHANGED <<invite, denied, issued, crossed, req>>

Lapse ==
  /\ invite.state # "none" /\ invite.term = "running"
  /\ invite' = [invite EXCEPT !.term = "over"]
  /\ UNCHANGED <<denied, member, issued, crossed, req>>

Die(c) ==
  /\ ~At(c, "idle")
  /\ crossed' = (crossed \/ Revoking(c))
  /\ Reply(c)
  /\ UNCHANGED <<invite, denied, member, issued>>

Next == Lapse \/ SetRole \/ \E c \in Client :
          \/ Mint(c) \/ BeginRevoke(c) \/ Revoke(c) \/ Deny(c)
          \/ BeginClaim(c) \/ Expire(c) \/ Claim(c) \/ Join(c) \/ Joined(c) \/ Die(c)
Spec == Init /\ [][Next]_vars

-----------------------------------------------------------------------------
(* Properties *)

\* A revoked invite is never claimed or expired again, by requests that read
\* it before either.
RevokedForGood == [][invite.state = "revoked" => invite'.state = "revoked"
                                                 /\ invite'.nonce = invite.nonce]_vars

\* Once its revocation is through, the capability an invite records is on the
\* deny list, unless a claim or a death fell in the middle of it.
RecordedGrantDenied ==
  invite.state = "revoked" /\ ~crossed /\ (\A c \in Client : ~Revoking(c)) =>
    invite.nonce = 0 \/ invite.nonce \in denied

\* A revocation reaches the capability an invite records, and is final.
RevocationHolds == []RecordedGrantDenied /\ RevokedForGood
=============================================================================
