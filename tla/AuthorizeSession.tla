-------------------------- MODULE AuthorizeSession --------------------------
(***************************************************************************)
(* The browser sessions of /oauth/authorize: a session is authenticated by  *)
(* an invite code or a passkey, may enroll another passkey, and is approved *)
(* or denied; only an approval mints an authorization code.  Every request  *)
(* reads the session's row first and acts on what it read.                  *)
(***************************************************************************)
EXTENDS Naturals, Sequences

CONSTANTS
  Client,     \* concurrent requests
  Session,    \* authorize sessions
  Invite,     \* login invites
  Target,     \* Target[i]: the account an invite is for
  Passkey,    \* credential ids
  Enrolled    \* Enrolled[p]: the account of a passkey from before, or "none"

VARIABLES
  sessions,    \* auth_authorize_sessions
  invites,     \* auth_login_invites: "none", "unused", "expired" or who redeemed it
  challenges,  \* auth_webauthn_challenges, one of each purpose per session
  passkeys,    \* auth_passkeys: the account of each, or "none"
  codes,       \* the authorization codes minted from each session
  req          \* the request each client is working on

vars == <<sessions, invites, challenges, passkeys, codes, req>>

-----------------------------------------------------------------------------
Purpose == {"assertion", "registration"}
Challenge == [session: Session, purpose: Purpose]

NoSession == [status |-> "none", account |-> "none", authn |-> "none", stepUp |-> FALSE]
Idle == [stage |-> "idle"]

Init == /\ sessions = [s \in Session |-> NoSession]
        /\ invites = [i \in Invite |-> "none"]
        /\ challenges = [ch \in Challenge |-> "none"]
        /\ passkeys = Enrolled
        /\ codes = [s \in Session |-> <<>>]
        /\ req = [c \in Client |-> Idle]

Become(c, r) == req' = [req EXCEPT ![c] = r]
Reply(c) == Become(c, Idle)
At(c, stage) == req[c].stage = stage
Goto(c, stage) == Become(c, [req[c] EXCEPT !.stage = stage])

Open(s) == sessions[s].status \in {"pending", "authenticated"}
Completed == {"approved", "denied", "expired"}

-----------------------------------------------------------------------------
(* What a request asks for, and the row it starts from *)

Ask == [kind: {"invite"}, session: Session, invite: Invite]
       \cup [kind: Purpose, session: Session]
       \cup [kind: {"assert"}, session: Session, challenge: Challenge, passkey: Passkey]
       \cup [kind: {"register"}, session: Session, challenge: Challenge, passkey: Passkey]
       \cup [kind: {"approve", "deny"}, session: Session]

\* Whoever has no account yet signs in; whoever has one enrolls and decides.
Needs(kind) == CASE kind \in {"invite", "assertion", "assert"} -> {"pending"}
                 [] kind \in {"registration", "register", "approve"} -> {"authenticated"}
                 [] kind = "deny" -> {"pending", "authenticated"}

First(kind) == CASE kind = "invite" -> "invite"
                 [] kind \in Purpose -> "issue"
                 [] kind \in {"assert", "register"} -> "challenge"
                 [] kind = "approve" -> "claim"
                 [] kind = "deny" -> "deny"

\* A pending session: no account is made, and no code.
BeginAuthorize(c) ==
  /\ At(c, "idle")
  /\ \E s \in Session : /\ sessions[s].status = "none"
                        /\ sessions' = [sessions EXCEPT ![s].status = "pending"]
  /\ UNCHANGED <<invites, challenges, passkeys, codes, req>>

\* A completed session is refused; one that is overdue is marked expired,
\* unless it has been completed.
Load(c) ==
  /\ At(c, "idle")
  /\ \E ask \in Ask :
       LET row == sessions[ask.session] IN
       /\ row.status \in Needs(ask.kind)
       /\ Become(c, [stage |-> First(ask.kind), ask |-> ask, row |-> row])
  /\ UNCHANGED <<sessions, invites, challenges, passkeys, codes>>

Expire(c) ==
  /\ At(c, "idle")
  /\ \E s \in Session : /\ Open(s)
                        /\ sessions' = [sessions EXCEPT ![s].status = "expired"]
  /\ UNCHANGED <<invites, challenges, passkeys, codes, req>>

\* Mutant: the UPDATE names the session only.
MarkAnyway(c, account, authn, stepUp) ==
  /\ sessions' = [sessions EXCEPT ![req[c].ask.session] =
         [status |-> "authenticated", account |-> account, authn |-> authn, stepUp |-> stepUp]]
  /\ Reply(c)

\* The UPDATE requires a pending session; whether it changed one is not read.
MarkAuthenticated(c, account, authn, stepUp) ==
  LET s == req[c].ask.session IN
  /\ sessions' = IF sessions[s].status = "pending"
                 THEN [sessions EXCEPT ![s] = [status |-> "authenticated", account |-> account,
                                               authn |-> authn, stepUp |-> stepUp]]
                 ELSE sessions
  /\ Reply(c)

-----------------------------------------------------------------------------
(* mintLoginInvite, redeemLoginInviteForSession *)

\* The target is an active account: a closed one gets no invite.
MintInvite ==
  /\ \E i \in Invite : /\ invites[i] = "none"
                       /\ invites' = [invites EXCEPT ![i] = "unused"]
  /\ UNCHANGED <<sessions, challenges, passkeys, codes, req>>

LookAtInvite(c) ==
  /\ At(c, "invite")
  /\ LET i == req[c].ask.invite IN
     \/ /\ invites[i] = "unused"
        /\ Goto(c, "redeem")
        /\ UNCHANGED invites
     \/ /\ invites' = IF invites[i] = "unused" THEN [invites EXCEPT ![i] = "expired"] ELSE invites
        /\ Reply(c)
  /\ UNCHANGED <<sessions, challenges, passkeys, codes>>

\* The invite is used up, whatever becomes of the session.
Redeem(c) ==
  /\ At(c, "redeem")
  /\ LET i == req[c].ask.invite IN
     IF invites[i] = "unused"
     THEN /\ invites' = [invites EXCEPT ![i] = req[c].ask.session]
          /\ Goto(c, "invited")
     ELSE Reply(c) /\ UNCHANGED invites
  /\ UNCHANGED <<sessions, challenges, passkeys, codes>>

SignInByInvite(c) ==
  /\ At(c, "invited")
  /\ MarkAuthenticated(c, Target[req[c].ask.invite], "invite", FALSE)
  /\ UNCHANGED <<invites, challenges, passkeys, codes>>

-----------------------------------------------------------------------------
(* createAssertionOptions, createRegistrationOptions *)

Issue(c) ==
  /\ At(c, "issue")
  /\ LET ch == [session |-> req[c].ask.session, purpose |-> req[c].ask.kind] IN
     challenges' = IF challenges[ch] = "none" THEN [challenges EXCEPT ![ch] = "unused"] ELSE challenges
  /\ Reply(c)
  /\ UNCHANGED <<sessions, invites, passkeys, codes>>

-----------------------------------------------------------------------------
(* consumeWebAuthnChallenge *)

PurposeOf(kind) == IF kind = "assert" THEN "assertion" ELSE "registration"

\* A challenge found overdue is marked expired whatever it has become.
LookAtChallenge(c) ==
  /\ At(c, "challenge")
  /\ LET ask == req[c].ask
         ch == ask.challenge IN
     IF ch = [session |-> ask.session, purpose |-> PurposeOf(ask.kind)] /\ challenges[ch] = "unused"
     THEN Goto(c, "use") \/ Goto(c, "overdue")
     ELSE Reply(c)
  /\ UNCHANGED <<sessions, invites, challenges, passkeys, codes>>

ExpireChallenge(c) ==
  /\ At(c, "overdue")
  /\ challenges' = [challenges EXCEPT ![req[c].ask.challenge] = "expired"]
  /\ Reply(c)
  /\ UNCHANGED <<sessions, invites, passkeys, codes>>

UseChallenge(c) ==
  /\ At(c, "use")
  /\ LET ch == req[c].ask.challenge IN
     IF challenges[ch] = "unused"
     THEN /\ challenges' = [challenges EXCEPT ![ch] = "used"]
          /\ Goto(c, "verify")
     ELSE Reply(c) /\ UNCHANGED challenges
  /\ UNCHANGED <<sessions, invites, passkeys, codes>>

-----------------------------------------------------------------------------
(* verifyAssertionForSession, verifyRegistrationForSession *)

\* The credential is that of a passkey; a signature that fails ends here.
VerifyAssertion(c) ==
  /\ At(c, "verify") /\ req[c].ask.kind = "assert"
  /\ LET p == req[c].ask.passkey IN
     IF passkeys[p] # "none"
     THEN MarkAuthenticated(c, passkeys[p], p, TRUE)
     ELSE Reply(c) /\ UNCHANGED sessions
  /\ UNCHANGED <<invites, challenges, passkeys, codes>>

\* The INSERT fails for a credential id that is taken by then.
Enroll(c) ==
  /\ At(c, "verify") /\ req[c].ask.kind = "register"
  /\ LET p == req[c].ask.passkey IN
     IF passkeys[p] = "none"
     THEN /\ passkeys' = [passkeys EXCEPT ![p] = req[c].row.account]
          /\ Goto(c, "step up")
     ELSE Reply(c) /\ UNCHANGED passkeys
  /\ UNCHANGED <<sessions, invites, challenges, codes>>

\* The UPDATE names the session only: it may be completed by now.
StepUp(c) ==
  /\ At(c, "step up")
  /\ LET s == req[c].ask.session IN
     sessions' = [sessions EXCEPT ![s].authn = req[c].ask.passkey, ![s].stepUp = TRUE]
  /\ Reply(c)
  /\ UNCHANGED <<invites, challenges, passkeys, codes>>

-----------------------------------------------------------------------------
(* approveAuthorizeSession, denyAuthorizeSession *)

\* Mutant: the UPDATE names the session only.
ClaimAnyway(c) ==
  /\ At(c, "claim")
  /\ sessions' = [sessions EXCEPT ![req[c].ask.session].status = "approved"]
  /\ Goto(c, "mint")
  /\ UNCHANGED <<invites, challenges, passkeys, codes>>

\* The session is claimed before a code is minted.
Claim(c) ==
  /\ At(c, "claim")
  /\ LET s == req[c].ask.session IN
     IF sessions[s].status = "authenticated"
     THEN /\ sessions' = [sessions EXCEPT ![s].status = "approved"]
          /\ Goto(c, "mint")
     ELSE Reply(c) /\ UNCHANGED sessions
  /\ UNCHANGED <<invites, challenges, passkeys, codes>>

\* All of it is from the row read at the beginning.
GrantOf(c) == [account |-> req[c].row.account, authn |-> req[c].row.authn, stepUp |-> req[c].row.stepUp]

Mint(c) ==
  /\ At(c, "mint")
  /\ codes' = [codes EXCEPT ![req[c].ask.session] = Append(@, GrantOf(c))]
  /\ Reply(c)
  /\ UNCHANGED <<sessions, invites, challenges, passkeys>>

Deny(c) ==
  /\ At(c, "deny")
  /\ LET s == req[c].ask.session IN
     sessions' = IF Open(s) THEN [sessions EXCEPT ![s].status = "denied"] ELSE sessions
  /\ Reply(c)
  /\ UNCHANGED <<invites, challenges, passkeys, codes>>

\* A death, an account that is closed, a credential that does not verify.
Stop(c) == /\ ~At(c, "idle")
           /\ Reply(c)
           /\ UNCHANGED <<sessions, invites, challenges, passkeys, codes>>

Next == MintInvite \/ \E c \in Client :
  \/ BeginAuthorize(c) \/ Load(c) \/ Expire(c)
  \/ LookAtInvite(c) \/ Redeem(c) \/ SignInByInvite(c)
  \/ Issue(c) \/ LookAtChallenge(c) \/ ExpireChallenge(c) \/ UseChallenge(c)
  \/ VerifyAssertion(c) \/ Enroll(c) \/ StepUp(c)
  \/ Claim(c) \/ Mint(c) \/ Deny(c) \/ Stop(c)
Spec == Init /\ [][Next]_vars

-----------------------------------------------------------------------------
(* Properties *)

\* "Concurrent Approve cannot issue two codes": a session has one code at most,
\* and only if it is approved, whoever denies or expires it at the same time.
CodesApproved ==
  \A s \in Session : /\ Len(codes[s]) <= 1
                     /\ codes[s] # <<>> => sessions[s].status = "approved"

\* A session, or a code, that claims a verified user names a passkey of its
\* own account, although enrolling and approving are several statements.
StepUpIsPasskey ==
  \A s \in Session : \A g \in {sessions[s]} \cup {codes[s][n] : n \in DOMAIN codes[s]} :
    g.stepUp => /\ g.authn \in Passkey
                /\ passkeys[g.authn] = g.account

\* An invite signs one session in, into its own account.
InvitesUsedOnce ==
  \A s \in Session : sessions[s].authn = "invite" =>
    \E i \in Invite : invites[i] = s /\ Target[i] = sessions[s].account

\* Whoever a session was signed in as stays, although an invite and a passkey
\* of different accounts may be verified for it at once; and a session that is
\* completed is never opened again, nor completed otherwise.
SignedInStays ==
  [][\A s \in Session :
       /\ sessions[s].account # "none" => sessions'[s].account = sessions[s].account
       /\ sessions[s].status \in Completed => sessions'[s].status = sessions[s].status]_vars

\* Codes, sign-ins and claims of a verified user are each backed by one
\* approval, one invite or one passkey.
SignInsKept ==
  /\ CodesApproved
  /\ StepUpIsPasskey
  /\ InvitesUsedOnce
=============================================================================
