------------------------ MODULE WorkspaceServiceProofs ------------------------
(*****************************************************************************)
(* For any number of concurrent requests, whichever of them die: a revocation*)
(* is final, heads and environments lead to what is there, imports replace   *)
(* nothing, the gate lets through what was allowed, delegations keep to their*)
(* plan and budgets, and a package is of one generation of heads.            *)
(*****************************************************************************)
EXTENDS WorkspaceServices, Sequences, SequenceTheorems, FiniteSetTheorems, FunctionTheorems,
        NaturalsInduction, TLAPS

(* Invites *)

InviteInviteType == [state: {"none", "pending", "claimed", "expired", "revoked"},
                     nonce: Nat, term: {"running", "over"}]

InviteRequestType ==
  [stage: {"idle", "expire", "member", "join"}]
  \cup [stage: {"revoke", "deny"}, nonce: Nat]
  \cup [stage: {"claim"}, seen: {"pending", "claimed"}, nonce: Nat]

\* Unless crossed, a revocation under way holds the nonce that is recorded.
InviteHeld == ~crossed => \A c \in Client : Invites!Revoking(c) => inviteReq[c].nonce = invite.nonce

\* ... and of a revoked invite it is denied, or about to be.
InviteDeniedOrHeld ==
  invite.state = "revoked" /\ ~crossed =>
    \/ invite.nonce = 0 \/ invite.nonce \in denied
    \/ \E c \in Client : Invites!At(c, "deny")

InviteIInv == /\ invite \in InviteInviteType
              /\ invite.state = "none" => invite.nonce = 0
              /\ issued \in Nat
              /\ crossed \in BOOLEAN
              /\ inviteReq \in [Client -> InviteRequestType]
              /\ InviteHeld /\ InviteDeniedOrHeld

InviteFinal == invite.state = "revoked" => invite'.state = "revoked" /\ invite'.nonce = invite.nonce

LEMMA InviteBecomeOK ==
  ASSUME InviteIInv, NEW c \in Client, NEW r \in InviteRequestType, Invites!Become(c, r)
  PROVE  inviteReq' \in [Client -> InviteRequestType] /\ inviteReq'[c] = r
         /\ \A d \in Client \ {c} : inviteReq'[d] = inviteReq[d]
BY DEF InviteIInv, Invites!Become

LEMMA InviteIdleOK == Invites!Idle \in InviteRequestType /\ Invites!Idle.stage = "idle"
BY DEF Invites!Idle, InviteRequestType

\* What does not begin, finish or meet a revocation leaves it alone.
LEMMA InviteElsewhereOK ==
  ASSUME InviteIInv, NEW c \in Client, NEW r \in InviteRequestType, Invites!Become(c, r),
         ~Invites!Revoking(c), r.stage \notin {"revoke", "deny"},
         issued' \in Nat, UNCHANGED <<invite, denied, crossed>>
  PROVE  InviteIInv' /\ InviteFinal
<1>1. /\ inviteReq' \in [Client -> InviteRequestType] /\ inviteReq'[c] = r
      /\ \A d \in Client \ {c} : inviteReq'[d] = inviteReq[d]
  BY InviteBecomeOK
<1>2. InviteHeld'
  BY <1>1 DEF InviteIInv, InviteHeld, Invites!Revoking
<1>3. InviteDeniedOrHeld'
  BY <1>1 DEF InviteIInv, InviteDeniedOrHeld, Invites!Revoking, Invites!At
<1>4. QED
  BY <1>1, <1>2, <1>3 DEF InviteIInv, InviteFinal

LEMMA InviteReplyOK ==
  ASSUME InviteIInv, NEW c \in Client, Invites!Reply(c), ~Invites!Revoking(c), issued' \in Nat,
         UNCHANGED <<invite, denied, crossed>>
  PROVE  InviteIInv' /\ InviteFinal
BY InviteIdleOK, InviteElsewhereOK DEF Invites!Reply

LEMMA InviteMintOK == ASSUME InviteIInv, NEW c \in Client, Invites!Mint(c) PROVE InviteIInv' /\ InviteFinal
<1>1. invite' \in InviteInviteType /\ invite'.state = "pending" /\ invite'.nonce = invite.nonce
  BY DEF Invites!Mint, InviteIInv, InviteInviteType, Invites!NoInvite
<1>2. InviteHeld'
  BY <1>1 DEF Invites!Mint, InviteIInv, InviteHeld, Invites!Revoking
<1>3. QED
  BY <1>1, <1>2 DEF Invites!Mint, InviteIInv, InviteDeniedOrHeld, InviteFinal

LEMMA InviteBeginRevokeOK == ASSUME InviteIInv, NEW c \in Client, Invites!BeginRevoke(c) PROVE InviteIInv' /\ InviteFinal
<1> DEFINE r == [stage |-> "revoke", nonce |-> invite.nonce]
<1>1. r \in InviteRequestType /\ r.nonce = invite.nonce
  BY DEF InviteIInv, InviteRequestType, InviteInviteType
<1>2. /\ inviteReq' \in [Client -> InviteRequestType] /\ inviteReq'[c] = r
      /\ \A d \in Client \ {c} : inviteReq'[d] = inviteReq[d]
  BY <1>1, InviteBecomeOK DEF Invites!BeginRevoke
<1> HIDE DEF r
<1>3. InviteHeld'
  BY <1>1, <1>2 DEF Invites!BeginRevoke, InviteIInv, InviteHeld, Invites!Revoking
<1>4. QED
  BY <1>2, <1>3 DEF Invites!BeginRevoke, InviteIInv, InviteDeniedOrHeld, InviteFinal

LEMMA InviteRevokeOK == ASSUME InviteIInv, NEW c \in Client, Invites!Revoke(c) PROVE InviteIInv' /\ InviteFinal
<1>1. /\ invite' \in InviteInviteType /\ invite'.state = "revoked"
      /\ invite'.nonce = invite.nonce /\ UNCHANGED <<denied, member, issued, crossed>>
  BY DEF Invites!Revoke, InviteIInv, InviteInviteType
<1>2. PICK q \in [stage: {"revoke"}, nonce: Nat] : q = inviteReq[c]
  BY DEF Invites!Revoke, Invites!At, InviteIInv, InviteRequestType
<1>3. ~crossed => q.nonce = invite.nonce
  BY <1>2 DEF InviteIInv, InviteHeld, Invites!Revoking
<1>4. CASE q.nonce = 0
  <2>1. /\ inviteReq' \in [Client -> InviteRequestType] /\ inviteReq'[c] = Invites!Idle
        /\ \A d \in Client \ {c} : inviteReq'[d] = inviteReq[d]
    BY <1>2, <1>4, InviteIdleOK, InviteBecomeOK DEF Invites!Revoke, Invites!Reply
  <2>2. InviteHeld'
    BY <1>1, <2>1, InviteIdleOK DEF InviteIInv, InviteHeld, Invites!Revoking
  <2>3. InviteDeniedOrHeld'
    BY <1>1, <1>3, <1>4 DEF InviteDeniedOrHeld
  <2>4. QED
    BY <1>1, <2>1, <2>2, <2>3 DEF InviteIInv, InviteFinal
<1>5. CASE q.nonce # 0
  <2> DEFINE r == [q EXCEPT !.stage = "deny"]
  <2>1. r \in InviteRequestType /\ r.stage = "deny" /\ r.nonce = q.nonce
    BY DEF InviteRequestType
  <2>2. Invites!Become(c, r)
    BY <1>2, <1>5 DEF Invites!Revoke
  <2> HIDE DEF r
  <2>3. /\ inviteReq' \in [Client -> InviteRequestType] /\ inviteReq'[c] = r
        /\ \A d \in Client \ {c} : inviteReq'[d] = inviteReq[d]
    BY <2>1, <2>2, InviteBecomeOK
  <2>4. InviteHeld'
    BY <1>1, <1>3, <2>1, <2>3 DEF InviteIInv, InviteHeld, Invites!Revoking
  <2>5. InviteDeniedOrHeld'
    BY <2>1, <2>3 DEF InviteDeniedOrHeld, Invites!At
  <2>6. QED
    BY <1>1, <2>3, <2>4, <2>5 DEF InviteIInv, InviteFinal
<1>6. QED
  BY <1>4, <1>5

LEMMA InviteDenyOK == ASSUME InviteIInv, NEW c \in Client, Invites!Deny(c) PROVE InviteIInv' /\ InviteFinal
<1>1. /\ inviteReq' \in [Client -> InviteRequestType] /\ inviteReq'[c] = Invites!Idle
      /\ \A d \in Client \ {c} : inviteReq'[d] = inviteReq[d]
  BY InviteIdleOK, InviteBecomeOK DEF Invites!Deny, Invites!Reply
<1>2. ~crossed => inviteReq[c].nonce = invite.nonce
  BY DEF Invites!Deny, Invites!At, InviteIInv, InviteHeld, Invites!Revoking
<1>3. InviteHeld'
  BY <1>1, InviteIdleOK DEF Invites!Deny, InviteIInv, InviteHeld, Invites!Revoking
<1>4. InviteDeniedOrHeld'
  BY <1>2 DEF Invites!Deny, InviteDeniedOrHeld
<1>5. QED
  BY <1>1, <1>3, <1>4 DEF Invites!Deny, InviteIInv, InviteFinal

LEMMA InviteBeginClaimOK == ASSUME InviteIInv, NEW c \in Client, Invites!BeginClaim(c) PROVE InviteIInv' /\ InviteFinal
<1>1. UNCHANGED <<invite, denied, crossed>> /\ ~Invites!Revoking(c)
  BY DEF Invites!BeginClaim, Invites!At, Invites!Revoking
<1>2. CASE Invites!Reply(c) /\ UNCHANGED issued
  BY <1>1, <1>2, InviteReplyOK DEF InviteIInv
<1>3. CASE Invites!Become(c, [stage |-> "expire"]) /\ UNCHANGED issued
  <2>1. [stage |-> "expire"] \in InviteRequestType
    BY DEF InviteRequestType
  <2>2. QED
    BY <1>1, <1>3, <2>1, InviteElsewhereOK DEF InviteIInv
<1>4. CASE /\ invite.state \in {"pending", "claimed"}
           /\ issued' = issued + 1
           /\ Invites!Become(c, [stage |-> "claim", seen |-> invite.state, nonce |-> issued + 1])
  <2>1. /\ [stage |-> "claim", seen |-> invite.state, nonce |-> issued + 1] \in InviteRequestType
        /\ issued' \in Nat
    BY <1>4 DEF InviteRequestType, InviteIInv
  <2>2. QED
    BY <1>1, <1>4, <2>1, InviteElsewhereOK
<1>5. QED
  BY <1>2, <1>3, <1>4 DEF Invites!BeginClaim, InviteIInv, InviteInviteType

LEMMA InviteExpireOK == ASSUME InviteIInv, NEW c \in Client, Invites!Expire(c) PROVE InviteIInv' /\ InviteFinal
<1>1. /\ inviteReq' \in [Client -> InviteRequestType] /\ inviteReq'[c] = Invites!Idle
      /\ \A d \in Client \ {c} : inviteReq'[d] = inviteReq[d]
  BY InviteIdleOK, InviteBecomeOK DEF Invites!Expire, Invites!Reply
<1>2. /\ invite' \in InviteInviteType /\ invite'.nonce = invite.nonce
      /\ invite'.state = "revoked" <=> invite.state = "revoked"
      /\ invite'.state = "none" <=> invite.state = "none"
  BY DEF Invites!Expire, InviteIInv, InviteInviteType
<1>3. InviteHeld'
  BY <1>1, <1>2, InviteIdleOK DEF Invites!Expire, InviteIInv, InviteHeld, Invites!Revoking
<1>4. InviteDeniedOrHeld'
  BY <1>1, <1>2, InviteIdleOK DEF Invites!Expire, InviteIInv, InviteDeniedOrHeld, Invites!At
<1>5. QED
  BY <1>1, <1>2, <1>3, <1>4 DEF Invites!Expire, InviteIInv, InviteFinal

LEMMA InviteClaimOK == ASSUME InviteIInv, NEW c \in Client, Invites!Claim(c) PROVE InviteIInv' /\ InviteFinal
<1>1. ~Invites!Revoking(c) /\ UNCHANGED <<denied, member, issued>> /\ issued' \in Nat
  BY DEF Invites!Claim, Invites!At, Invites!Revoking, InviteIInv
<1>2. [stage |-> "member"] \in InviteRequestType
  BY DEF InviteRequestType
<1>3. CASE UNCHANGED <<invite, crossed>>
  BY <1>1, <1>2, <1>3, InviteElsewhereOK DEF Invites!Claim
<1>4. CASE invite.state = inviteReq[c].seen
  <2>1. /\ inviteReq' \in [Client -> InviteRequestType] /\ inviteReq'[c] = [stage |-> "member"]
        /\ \A d \in Client \ {c} : inviteReq'[d] = inviteReq[d]
    BY <1>2, InviteBecomeOK DEF Invites!Claim
  <2>2. inviteReq[c].seen \in {"pending", "claimed"} /\ inviteReq[c].nonce \in Nat
    BY DEF Invites!Claim, Invites!At, InviteIInv, InviteRequestType
  <2>3. invite' \in InviteInviteType /\ invite'.state = "claimed"
    BY <1>4, <2>2 DEF Invites!Claim, InviteIInv, InviteInviteType
  <2>4. crossed' = (crossed \/ \E d \in Client : Invites!Revoking(d))
    BY <1>4 DEF Invites!Claim
  <2>5. crossed' \in BOOLEAN
    BY <2>4, Zenon
  <2>6. InviteHeld'
    <3>1. (\E d \in Client : Invites!Revoking(d)) => crossed'
      BY <2>4, Zenon
    <3>2. \A d \in Client : Invites!Revoking(d)' => Invites!Revoking(d)
      BY <2>1 DEF Invites!Revoking
    <3>3. QED
      BY <3>1, <3>2 DEF InviteHeld
  <2>7. QED
    BY <1>1, <1>4, <2>1, <2>2, <2>3, <2>5, <2>6 DEF InviteIInv, InviteDeniedOrHeld, InviteFinal
<1>5. QED
  BY <1>3, <1>4 DEF Invites!Claim

LEMMA InviteJoinOK == ASSUME InviteIInv, NEW c \in Client, Invites!Join(c) PROVE InviteIInv' /\ InviteFinal
<1>1. ~Invites!Revoking(c) /\ UNCHANGED <<invite, denied, issued, crossed>> /\ issued' \in Nat
  BY DEF Invites!Join, Invites!At, Invites!Revoking, InviteIInv
<1>2. [stage |-> "join"] \in InviteRequestType
  BY DEF InviteRequestType
<1>3. QED
  BY <1>1, <1>2, InviteReplyOK, InviteElsewhereOK DEF Invites!Join

LEMMA InviteJoinedOK == ASSUME InviteIInv, NEW c \in Client, Invites!Joined(c) PROVE InviteIInv' /\ InviteFinal
BY InviteReplyOK DEF Invites!Joined, Invites!At, Invites!Revoking, InviteIInv

LEMMA InviteDieOK == ASSUME InviteIInv, NEW c \in Client, Invites!Die(c) PROVE InviteIInv' /\ InviteFinal
<1>1. CASE Invites!Revoking(c)
  <2>1. /\ inviteReq' \in [Client -> InviteRequestType] /\ inviteReq'[c] = Invites!Idle
        /\ \A d \in Client \ {c} : inviteReq'[d] = inviteReq[d]
    BY InviteIdleOK, InviteBecomeOK DEF Invites!Die, Invites!Reply
  <2>2. crossed' = TRUE
    BY <1>1, Zenon DEF Invites!Die
  <2>3. QED
    BY <2>1, <2>2 DEF Invites!Die, InviteIInv, InviteHeld, InviteDeniedOrHeld, InviteFinal
<1>2. CASE ~Invites!Revoking(c)
  <2>1. UNCHANGED crossed
    BY <1>2 DEF Invites!Die, InviteIInv
  <2>2. QED
    BY <1>2, <2>1, InviteReplyOK DEF Invites!Die, InviteIInv
<1>3. QED
  BY <1>1, <1>2

\* The lapse of the term and the operator's role touch neither nonce nor state.
LEMMA InviteAsideOK == ASSUME InviteIInv, Invites!Lapse \/ Invites!SetRole PROVE InviteIInv' /\ InviteFinal
<1>1. /\ invite' \in InviteInviteType /\ invite'.nonce = invite.nonce /\ invite'.state = invite.state
      /\ UNCHANGED <<denied, issued, crossed, inviteReq>>
  BY DEF Invites!Lapse, Invites!SetRole, InviteIInv, InviteInviteType
<1>2. InviteHeld'
  BY <1>1 DEF InviteIInv, InviteHeld, Invites!Revoking
<1>3. InviteDeniedOrHeld'
  BY <1>1 DEF InviteIInv, InviteDeniedOrHeld, Invites!At
<1>4. QED
  BY <1>1, <1>2, <1>3 DEF InviteIInv, InviteFinal

LEMMA InviteNextOK == ASSUME InviteIInv, Invites!Next PROVE InviteIInv' /\ InviteFinal
<1>1. ASSUME NEW c \in Client,
             Invites!Mint(c) \/ Invites!BeginRevoke(c) \/ Invites!Revoke(c) \/ Invites!Deny(c) \/ Invites!BeginClaim(c) \/ Invites!Expire(c)
             \/ Invites!Claim(c) \/ Invites!Join(c) \/ Invites!Joined(c) \/ Invites!Die(c)
      PROVE  InviteIInv' /\ InviteFinal
  BY <1>1, InviteMintOK, InviteBeginRevokeOK, InviteRevokeOK, InviteDenyOK, InviteBeginClaimOK,
     InviteExpireOK, InviteClaimOK,
     InviteJoinOK, InviteJoinedOK, InviteDieOK
<1>2. QED
  BY <1>1, InviteAsideOK DEF Invites!Next

LEMMA InviteStutterOK == ASSUME InviteIInv, UNCHANGED Invites!vars PROVE InviteIInv' /\ InviteFinal
BY DEF Invites!vars, InviteIInv, InviteHeld, InviteDeniedOrHeld, Invites!Revoking, Invites!At,
   InviteFinal

LEMMA InviteInitOK == Invites!Init => InviteIInv
<1> SUFFICES ASSUME Invites!Init PROVE InviteIInv
  OBVIOUS
<1>1. invite \in InviteInviteType /\ invite.state = "none" /\ invite.nonce = 0
  BY DEF Invites!Init, Invites!NoInvite, InviteInviteType
<1>2. inviteReq \in [Client -> InviteRequestType] /\ \A c \in Client : inviteReq[c].stage = "idle"
  BY InviteIdleOK DEF Invites!Init
<1>3. QED
  BY <1>1, <1>2 DEF Invites!Init, InviteIInv, InviteHeld, InviteDeniedOrHeld, Invites!Revoking

\* A revoked invite stays revoked, also under requests that read it before,
\* and once its revocation is through the capability it records is denied,
\* unless a claim or a death crossed it, for any number of requests
\* (claimWorkspaceInviteFromBody and the revocation beside it).
THEOREM RevocationIsFinal == Invites!Spec => RevocationHolds
<1>1. InviteIInv => Invites!RecordedGrantDenied
  BY DEF InviteIInv, InviteDeniedOrHeld, Invites!RecordedGrantDenied, Invites!Revoking, Invites!At
<1>2. InviteIInv /\ [Invites!Next]_(Invites!vars) => InviteIInv' /\ InviteFinal
  BY InviteNextOK, InviteStutterOK
<1>3. InviteIInv /\ [Invites!Next]_(Invites!vars) => [invite.state = "revoked" => invite'.state = "revoked"
                                                                         /\ invite'.nonce = invite.nonce]_(Invites!vars)
  BY <1>2 DEF InviteFinal
<1>4. QED
  BY <1>1, <1>2, <1>3, InviteInitOK, PTL DEF RevocationHolds, Invites!Spec,
     Invites!RevocationHolds, Invites!RevokedForGood
-----------------------------------------------------------------------------
(* Commits of the transport *)

GithubBindType == [ref: Branch, root: Root \cup {Github!NoRoot}, commit: Nat, given: BOOLEAN]

GithubSetting == [stage: {"resolve", "put", "op"}, ref: Branch, root: Root \cup {Github!NoRoot},
                  commit: Nat, given: BOOLEAN, named: BOOLEAN, crossed: BOOLEAN]
GithubProposing == [stage: {"observe"}, ref: Branch]
             \cup [stage: {"propose"}, ref: Branch, commit: Nat]
GithubRequestType == [stage: {"idle"}] \cup GithubSetting \cup GithubProposing

\* External: a branch has been where it is.
GithubTipsOK == /\ tip \in [Branch -> Nat]
                /\ was \in [Branch -> SUBSET Nat]
                /\ \A b \in Branch : tip[b] \in was[b]

\* The commit a request has looked up is one its branch has had, and a root
\* that was not named is the column's, unless another setter came between.
GithubCommitOK(r) ==
  /\ r.stage \in {"put", "op"} => r.given \/ r.commit \in was[r.ref]
  /\ r.stage = "propose" => r.commit \in was[r.ref]
GithubRootOK(r) == r.stage \in {"resolve", "put"} => r.named \/ r.crossed \/ r.root = bind.root

GithubIInv == /\ GithubTipsOK
              /\ bind \in GithubBindType
              /\ pointers \subseteq [ref: Branch, commit: Nat]
              /\ Github!CommitsOfTheirBranch
              /\ request \in [Client -> GithubRequestType]
              /\ \A c \in Client : GithubCommitOK(request[c]) /\ GithubRootOK(request[c])

GithubAsNamed == bind'.root # bind.root =>
             \E c \in Client : /\ Github!At(c, "put")
                               /\ request[c].named \/ request[c].crossed

LEMMA GithubIdleOK == Github!Idle \in GithubRequestType /\ Github!Idle.stage = "idle"
BY DEF Github!Idle, GithubRequestType

LEMMA GithubBecomeOK ==
  ASSUME GithubIInv, NEW c \in Client, NEW r \in GithubRequestType, Github!Become(c, r),
         GithubCommitOK(r), GithubRootOK(r), UNCHANGED <<bind, tip, was>>,
         pointers' \subseteq [ref: Branch, commit: Nat],
         \A p \in pointers' : p.commit \in was[p.ref]
  PROVE  GithubIInv' /\ GithubAsNamed
<1>1. /\ request' \in [Client -> GithubRequestType] /\ request'[c] = r
      /\ \A d \in Client \ {c} : request'[d] = request[d]
  BY DEF GithubIInv, Github!Become
<1>2. \A d \in Client : GithubCommitOK(request'[d]) /\ GithubRootOK(request'[d])
  BY <1>1 DEF GithubIInv
<1>3. \A d \in Client : GithubCommitOK(request[d])' /\ GithubRootOK(request[d])'
  BY <1>2 DEF GithubCommitOK, GithubRootOK
<1>4. QED
  BY <1>1, <1>3 DEF GithubIInv, GithubTipsOK, Github!CommitsOfTheirBranch, GithubAsNamed

LEMMA GithubReplyOK ==
  ASSUME GithubIInv, NEW c \in Client, Github!Reply(c), UNCHANGED <<bind, tip, was>>,
         pointers' \subseteq [ref: Branch, commit: Nat],
         \A p \in pointers' : p.commit \in was[p.ref]
  PROVE  GithubIInv' /\ GithubAsNamed
<1>1. GithubCommitOK(Github!Idle) /\ GithubRootOK(Github!Idle)
  BY GithubIdleOK DEF GithubCommitOK, GithubRootOK
<1>2. QED
  BY <1>1, GithubIdleOK, GithubBecomeOK DEF Github!Reply

LEMMA GithubPointersOK ==
  ASSUME GithubIInv, UNCHANGED pointers
  PROVE  pointers' \subseteq [ref: Branch, commit: Nat] /\ \A p \in pointers' : p.commit \in was[p.ref]
BY DEF GithubIInv, Github!CommitsOfTheirBranch

LEMMA GithubPushOK == ASSUME GithubIInv, Github!Push PROVE GithubIInv' /\ GithubAsNamed
<1>1. PICK b \in Branch, n \in 1..MaxCommit :
        /\ tip' = [tip EXCEPT ![b] = n]
        /\ was' = [was EXCEPT ![b] = @ \cup {n}]
  BY DEF Github!Push
<1>2. n \in Nat
  OBVIOUS
<1>3. GithubTipsOK' /\ \A d \in Branch : was[d] \subseteq was'[d]
  BY <1>1, <1>2 DEF GithubIInv, GithubTipsOK
<1>4. UNCHANGED <<bind, pointers, request>>
  BY DEF Github!Push
<1>5. Github!CommitsOfTheirBranch'
  <2>1. \A p \in pointers' : p.ref \in Branch /\ p.commit \in was[p.ref]
    BY <1>4 DEF GithubIInv, Github!CommitsOfTheirBranch
  <2>2. \A p \in pointers' : p.commit \in was'[p.ref]
    BY <1>3, <2>1
  <2>3. bind.ref \in Branch
    BY DEF GithubIInv, GithubBindType
  <2>4. QED
    BY <1>3, <1>4, <2>2, <2>3 DEF GithubIInv, Github!CommitsOfTheirBranch
<1>6. ASSUME NEW c \in Client PROVE GithubCommitOK(request[c])' /\ GithubRootOK(request[c])'
  <2>1. request[c] \in GithubRequestType /\ GithubCommitOK(request[c]) /\ GithubRootOK(request[c])
    BY DEF GithubIInv
  <2>2. request[c].stage \in {"put", "op", "propose"} => request[c].ref \in Branch
    BY <2>1 DEF GithubRequestType, GithubSetting, GithubProposing
  <2>3. QED
    BY <1>3, <1>4, <2>1, <2>2 DEF GithubCommitOK, GithubRootOK
<1>7. QED
  BY <1>3, <1>4, <1>5, <1>6 DEF GithubIInv, GithubAsNamed

LEMMA GithubBeginSetOK == ASSUME GithubIInv, NEW c \in Client, Github!BeginSet(c) PROVE GithubIInv' /\ GithubAsNamed
<1>1. PICK b \in Branch, named \in Root \cup {"keep"}, given \in BOOLEAN :
        Github!Become(c, [stage |-> IF given THEN "put" ELSE "resolve", ref |-> b, root |-> Github!RootFor(named),
                          commit |-> IF given THEN 1 ELSE 0, given |-> given,
                          named |-> named # "keep", crossed |-> FALSE])
  BY Zenon DEF Github!BeginSet
<1>2. PICK known \in BOOLEAN : known = (named # "keep")
  BY Zenon
<1>3. PICK root \in Root \cup {Github!NoRoot} : root = Github!RootFor(named) /\ (known \/ root = bind.root)
  BY <1>2 DEF Github!RootFor, GithubIInv, GithubBindType
<1> DEFINE r == [stage |-> IF given THEN "put" ELSE "resolve", ref |-> b, root |-> root,
                 commit |-> IF given THEN 1 ELSE 0, given |-> given,
                 named |-> known, crossed |-> FALSE]
<1>4. /\ r \in GithubRequestType
      /\ r.stage = "put" => r.given
      /\ r.stage \in {"put", "resolve"} /\ r.named = known /\ r.root = root
  BY DEF GithubRequestType, GithubSetting
<1>5. Github!Become(c, r)
  BY <1>1, <1>2, <1>3
<1> HIDE DEF r
<1>6. GithubCommitOK(r) /\ GithubRootOK(r)
  BY <1>3, <1>4 DEF GithubCommitOK, GithubRootOK
<1>7. QED
  BY <1>4, <1>5, <1>6, GithubBecomeOK, GithubPointersOK DEF Github!BeginSet

LEMMA GithubResolveOK == ASSUME GithubIInv, NEW c \in Client, Github!Resolve(c) PROVE GithubIInv' /\ GithubAsNamed
<1>1. PICK q \in GithubSetting : q = request[c] /\ q.stage = "resolve" /\ GithubRootOK(q)
  BY DEF Github!Resolve, Github!At, GithubIInv, GithubRequestType, GithubProposing
<1>2. tip[q.ref] \in Nat /\ tip[q.ref] \in was[q.ref]
  BY DEF GithubIInv, GithubTipsOK, GithubSetting
<1>3. PICK n \in Nat : n = tip[q.ref] /\ n \in was[q.ref]
  BY <1>2
<1> DEFINE r == [[q EXCEPT !.stage = "put"] EXCEPT !.commit = n]
<1>4. /\ r \in GithubRequestType /\ r.stage = "put" /\ r.commit = n /\ r.ref = q.ref
      /\ r.named = q.named /\ r.crossed = q.crossed /\ r.root = q.root
  BY DEF GithubRequestType, GithubSetting
<1>5. Github!Become(c, r) \/ Github!Reply(c)
  BY <1>1, <1>3 DEF Github!Resolve
<1> HIDE DEF r
<1>6. GithubCommitOK(r) /\ GithubRootOK(r)
  BY <1>1, <1>3, <1>4 DEF GithubCommitOK, GithubRootOK
<1>7. QED
  BY <1>4, <1>5, <1>6, GithubBecomeOK, GithubReplyOK, GithubPointersOK DEF Github!Resolve

LEMMA GithubPutOK == ASSUME GithubIInv, NEW c \in Client, Github!Put(c) PROVE GithubIInv' /\ GithubAsNamed
<1>1. PICK q \in GithubSetting : q = request[c] /\ q.stage = "put" /\ GithubCommitOK(q) /\ GithubRootOK(q)
  BY DEF Github!Put, Github!At, GithubIInv, GithubRequestType, GithubProposing
<1>2. UNCHANGED <<tip, was, pointers>>
  BY DEF Github!Put
<1>3. bind' = [ref |-> q.ref, root |-> q.root, commit |-> q.commit, given |-> q.given]
  BY <1>1 DEF Github!Put
<1>4. bind' \in GithubBindType
  BY <1>3 DEF GithubBindType, GithubSetting
<1>5. Github!CommitsOfTheirBranch'
  BY <1>1, <1>2, <1>3 DEF GithubIInv, Github!CommitsOfTheirBranch, GithubCommitOK
<1>6. request' = [d \in Client |->
        IF d = c THEN [request[c] EXCEPT !.stage = "op"]
        ELSE IF "crossed" \in DOMAIN request[d] THEN [request[d] EXCEPT !.crossed = TRUE]
        ELSE request[d]]
  BY DEF Github!Put
<1>7. ASSUME NEW d \in Client
      PROVE  \E r \in GithubRequestType : r = request'[d] /\ GithubCommitOK(r)' /\ GithubRootOK(r)'
  <2>1. CASE d = c
    <3> DEFINE r == [q EXCEPT !.stage = "op"]
    <3>1. r \in GithubRequestType /\ r.stage = "op" /\ r.given = q.given
          /\ r.commit = q.commit /\ r.ref = q.ref
      BY DEF GithubRequestType, GithubSetting
    <3>2. request'[d] = r
      BY <1>1, <1>6, <2>1
    <3> HIDE DEF r
    <3>3. GithubCommitOK(r)' /\ GithubRootOK(r)'
      BY <1>1, <1>2, <3>1 DEF GithubCommitOK, GithubRootOK
    <3>4. QED
      BY <3>1, <3>2, <3>3
  <2>2. ASSUME d # c, request[d] \in GithubSetting
        PROVE  \E r \in GithubRequestType : r = request'[d] /\ GithubCommitOK(r)' /\ GithubRootOK(r)'
    <3>1. PICK p \in GithubSetting : p = request[d] /\ GithubCommitOK(p)
      BY <2>2 DEF GithubIInv
    <3> DEFINE r == [p EXCEPT !.crossed = TRUE]
    <3>2. /\ r \in GithubRequestType /\ r.stage = p.stage /\ r.given = p.given
          /\ r.commit = p.commit /\ r.ref = p.ref /\ r.crossed = TRUE
          /\ "crossed" \in DOMAIN p
      BY DEF GithubRequestType, GithubSetting
    <3>3. request'[d] = r
      BY <1>6, <2>2, <3>1, <3>2
    <3> HIDE DEF r
    <3>4. GithubCommitOK(r)' /\ GithubRootOK(r)'
      BY <1>2, <3>1, <3>2 DEF GithubCommitOK, GithubRootOK
    <3>5. QED
      BY <3>2, <3>3, <3>4
  <2>3. ASSUME d # c, request[d] \notin GithubSetting
        PROVE  \E r \in GithubRequestType : r = request'[d] /\ GithubCommitOK(r)' /\ GithubRootOK(r)'
    <3>1. PICK p \in [stage: {"idle"}] \cup GithubProposing : p = request[d] /\ GithubCommitOK(p)
      BY <2>3 DEF GithubIInv, GithubRequestType
    <3>2. "crossed" \notin DOMAIN p /\ p.stage \notin {"resolve", "put"} /\ p \in GithubRequestType
      BY DEF GithubRequestType, GithubProposing
    <3>3. request'[d] = p
      BY <1>6, <2>3, <3>1, <3>2
    <3>4. GithubCommitOK(p)' /\ GithubRootOK(p)'
      BY <1>2, <3>1, <3>2 DEF GithubCommitOK, GithubRootOK
    <3>5. QED
      BY <3>2, <3>3, <3>4
  <2>4. QED
    BY <2>1, <2>2, <2>3
<1>8. \A d \in Client : request'[d] \in GithubRequestType
  BY <1>7
<1>9. request' \in [Client -> GithubRequestType]
  BY <1>6, <1>8
<1>10. \A d \in Client : GithubCommitOK(request[d])' /\ GithubRootOK(request[d])'
  BY <1>7 DEF GithubCommitOK, GithubRootOK
<1>11. GithubAsNamed
  BY <1>1, <1>3 DEF GithubAsNamed, GithubRootOK, Github!At
<1>12. QED
  BY <1>2, <1>4, <1>5, <1>9, <1>10, <1>11 DEF GithubIInv, GithubTipsOK

LEMMA GithubRecordOpOK == ASSUME GithubIInv, NEW c \in Client, Github!RecordOp(c) PROVE GithubIInv' /\ GithubAsNamed
<1>1. PICK q \in GithubSetting : q = request[c] /\ q.stage = "op" /\ GithubCommitOK(q)
  BY DEF Github!RecordOp, Github!At, GithubIInv, GithubRequestType, GithubProposing
<1>2. q.given \/ q.commit \in was[q.ref]
  BY <1>1 DEF GithubCommitOK
<1>3. [ref |-> q.ref, commit |-> q.commit] \in [ref: Branch, commit: Nat]
  BY DEF GithubSetting
<1>4. \/ pointers' = pointers
      \/ ~q.given /\ pointers' = pointers \cup {[ref |-> q.ref, commit |-> q.commit]}
  BY <1>1 DEF Github!RecordOp, GithubSetting
<1>5. /\ pointers' \subseteq [ref: Branch, commit: Nat]
      /\ \A p \in pointers' : p.commit \in was[p.ref]
  BY <1>2, <1>3, <1>4 DEF GithubIInv, Github!CommitsOfTheirBranch
<1>6. QED
  BY <1>5, GithubReplyOK DEF Github!RecordOp

LEMMA GithubBeginProposeOK == ASSUME GithubIInv, NEW c \in Client, Github!BeginPropose(c) PROVE GithubIInv' /\ GithubAsNamed
<1> DEFINE r == [stage |-> "observe", ref |-> bind.ref]
<1>1. r \in GithubRequestType /\ r.stage = "observe"
  BY DEF GithubIInv, GithubBindType, GithubRequestType, GithubProposing
<1>2. Github!Become(c, r)
  BY DEF Github!BeginPropose
<1> HIDE DEF r
<1>3. GithubCommitOK(r) /\ GithubRootOK(r)
  BY <1>1 DEF GithubCommitOK, GithubRootOK
<1>4. QED
  BY <1>1, <1>2, <1>3, GithubBecomeOK, GithubPointersOK DEF Github!BeginPropose

LEMMA GithubObserveOK == ASSUME GithubIInv, NEW c \in Client, Github!Observe(c) PROVE GithubIInv' /\ GithubAsNamed
<1>1. PICK q \in [stage: {"observe"}, ref: Branch] : q = request[c]
  BY DEF Github!Observe, Github!At, GithubIInv, GithubRequestType, GithubSetting, GithubProposing
<1>2. PICK n \in Nat : n = tip[q.ref] /\ n \in was[q.ref]
  BY DEF GithubIInv, GithubTipsOK
<1> DEFINE r == [stage |-> "propose", ref |-> q.ref, commit |-> n]
<1>3. r \in GithubRequestType /\ r.stage = "propose" /\ r.ref = q.ref /\ r.commit = n
  BY DEF GithubRequestType, GithubProposing
<1>4. Github!Become(c, r) \/ Github!Reply(c)
  BY <1>1, <1>2 DEF Github!Observe
<1> HIDE DEF r
<1>5. GithubCommitOK(r) /\ GithubRootOK(r)
  BY <1>2, <1>3 DEF GithubCommitOK, GithubRootOK
<1>6. QED
  BY <1>3, <1>4, <1>5, GithubBecomeOK, GithubReplyOK, GithubPointersOK DEF Github!Observe

LEMMA GithubProposeOK == ASSUME GithubIInv, NEW c \in Client, Github!Propose(c) PROVE GithubIInv' /\ GithubAsNamed
<1>1. PICK q \in [stage: {"propose"}, ref: Branch, commit: Nat] : q = request[c] /\ GithubCommitOK(q)
  BY DEF Github!Propose, Github!At, GithubIInv, GithubRequestType, GithubSetting, GithubProposing
<1>2. q.commit \in was[q.ref]
  BY <1>1 DEF GithubCommitOK
<1>3. pointers' = pointers \cup {[ref |-> q.ref, commit |-> q.commit]}
  BY <1>1 DEF Github!Propose
<1>4. /\ pointers' \subseteq [ref: Branch, commit: Nat]
      /\ \A p \in pointers' : p.commit \in was[p.ref]
  BY <1>2, <1>3 DEF GithubIInv, Github!CommitsOfTheirBranch
<1>5. QED
  BY <1>4, GithubReplyOK DEF Github!Propose

LEMMA GithubDieOK == ASSUME GithubIInv, NEW c \in Client, Github!Die(c) PROVE GithubIInv' /\ GithubAsNamed
BY GithubReplyOK, GithubPointersOK DEF Github!Die

LEMMA GithubNextOK == ASSUME GithubIInv, Github!Next PROVE GithubIInv' /\ GithubAsNamed
BY GithubPushOK, GithubBeginSetOK, GithubResolveOK, GithubPutOK, GithubRecordOpOK,
   GithubBeginProposeOK, GithubObserveOK, GithubProposeOK, GithubDieOK
   DEF Github!Next

LEMMA GithubStutterOK == ASSUME GithubIInv, UNCHANGED Github!vars PROVE GithubIInv' /\ GithubAsNamed
BY DEF Github!vars, GithubIInv, GithubTipsOK, Github!CommitsOfTheirBranch, GithubCommitOK,
   GithubRootOK, GithubAsNamed

LEMMA GithubInitOK == Github!Init => GithubIInv
<1> SUFFICES ASSUME Github!Init PROVE GithubIInv
  OBVIOUS
<1>1. PICK b \in Branch : bind = [ref |-> b, root |-> Github!NoRoot, commit |-> 0, given |-> FALSE]
  BY DEF Github!Init
<1>2. bind \in GithubBindType /\ bind.commit = 0
  BY <1>1 DEF GithubBindType
<1>3. GithubTipsOK
  BY DEF Github!Init, GithubTipsOK
<1>4. request \in [Client -> GithubRequestType] /\ \A c \in Client : request[c].stage = "idle"
  BY GithubIdleOK DEF Github!Init
<1>5. QED
  BY <1>2, <1>3, <1>4 DEF Github!Init, GithubIInv, Github!CommitsOfTheirBranch, GithubCommitOK,
     GithubRootOK

\* The commit recorded beside a branch is one the branch has had, whatever is
\* pushed between the reads, and the root path changes only when it is named or
\* when another setter came between, for any number of requests
\* (setGithubTransport, proposeAcceptWorkspaceFromBody).
THEOREM BindIsKept == Github!Spec => BindKept
<1>1. GithubIInv => Github!CommitsOfTheirBranch
  BY DEF GithubIInv
<1>2. GithubIInv /\ [Github!Next]_(Github!vars) => GithubIInv' /\ GithubAsNamed
  BY GithubNextOK, GithubStutterOK
<1>3. GithubIInv /\ [Github!Next]_(Github!vars) => [bind'.root # bind.root =>
       \E c \in Client : /\ Github!At(c, "put")
                         /\ request[c].named \/ request[c].crossed]_(Github!vars)
  BY <1>2 DEF GithubAsNamed
<1>4. QED
  BY <1>1, <1>2, <1>3, GithubInitOK, PTL DEF BindKept, Github!Spec, Github!BindKept,
     Github!RootChangesAsNamed
-----------------------------------------------------------------------------
(* Environments *)

BoxManifestRow == [class: BoxClass, home: BOOLEAN, bound: BOOLEAN]
BoxAttachmentRow == [status: {"attached"} \cup Box!Over, manifest: Manifest, actor: Agent]

BoxBindRequest == [stage: {"bind"}, manifest: Manifest, base: Nat]
BoxAnnotateRequest == [stage: {"annotate"}, manifest: Manifest]
BoxAttachRequest == [stage: {"attach", "point"}, manifest: Manifest, id: Attachment, actor: Agent]
BoxDetachRequest == [stage: {"detach"}, id: Attachment, next: Box!Over]
BoxReceipt == [manifest: Manifest, id: Attachment \cup {Box!None}, command: Command]
BoxReceiptRequest == [stage: {"receipt"}, manifest: Manifest, id: Attachment \cup {Box!None},
                      command: Command]
BoxRequestType == [stage: {"idle"}] \cup BoxBindRequest \cup BoxAnnotateRequest \cup BoxAttachRequest
               \cup BoxDetachRequest \cup BoxReceiptRequest

\* What a request has checked holds for as long as it is under way.
BoxRequestOK(r) ==
  /\ r.stage \in {"bind", "annotate", "attach", "point", "receipt"} => Box!Usable(r.manifest)
  /\ r.stage = "receipt" => r.command \in Permitted[manifests[r.manifest].class]
  /\ r.stage \in {"point", "detach"} => Box!Exists(r.id)

BoxRowsOK ==
  /\ manifests \in [Manifest -> {Box!NoManifest} \cup BoxManifestRow]
  /\ attachments \in [Attachment -> {Box!NoAttachment} \cup BoxAttachmentRow]
  /\ box \in [rev: Nat, manifest: Manifest \cup {Box!None}, latest: Attachment \cup {Box!None}]
  /\ receipts \subseteq BoxReceipt
  /\ newest \in Attachment \cup {Box!None}
  /\ overtaken \in BOOLEAN
  /\ Box!EnvironmentAtHome /\ Box!CommandsAllowed

\* Unless two crossed, who is about to set the pointer sets it to the newest.
BoxPointOK(r) == r.stage = "point" /\ ~overtaken => r.id = newest

BoxIInv == /\ BoxRowsOK
           /\ Box!LatestIsNewest
           /\ op \in [Client -> BoxRequestType]
           /\ \A c \in Client : BoxRequestOK(op[c]) /\ BoxPointOK(op[c])

\* A manifest that can be used stays so and keeps its class, and an attachment
\* stays there.
BoxStays == /\ \A m \in Manifest : Box!Usable(m) => /\ Box!Usable(m)'
                                                    /\ manifests'[m].class = manifests[m].class
            /\ \A a \in Attachment : Box!Exists(a) => Box!Exists(a)'

BoxOverStays == \A a \in Attachment : attachments[a].status \in Box!Over => attachments'[a].status \in Box!Over

BoxGoes(c) == \E r \in BoxRequestType : Box!Become(c, r) /\ BoxRequestOK(r)' /\ BoxPointOK(r)'

LEMMA BoxRequestStable ==
  ASSUME BoxIInv, BoxStays, NEW c \in Client
  PROVE  BoxRequestOK(op[c]) => \A q : q = op[c] => BoxRequestOK(q)'
<1> SUFFICES ASSUME NEW q, q = op[c], BoxRequestOK(q), q \in BoxRequestType PROVE BoxRequestOK(q)'
  BY DEF BoxIInv
<1>1. q.stage \in {"bind", "annotate", "attach", "point", "receipt"} => q.manifest \in Manifest
  BY DEF BoxRequestType, BoxBindRequest, BoxAnnotateRequest, BoxAttachRequest, BoxDetachRequest,
     BoxReceiptRequest
<1>2. q.stage \in {"point", "detach"} => q.id \in Attachment
  BY DEF BoxRequestType, BoxBindRequest, BoxAnnotateRequest, BoxAttachRequest, BoxDetachRequest,
     BoxReceiptRequest
<1>3. QED
  BY <1>1, <1>2 DEF BoxRequestOK, BoxStays

LEMMA BoxIdleOK == Box!Idle \in BoxRequestType /\ Box!Idle.stage = "idle"
BY DEF Box!Idle, BoxRequestType

LEMMA BoxReplyGoes == ASSUME NEW c \in Client, Box!Reply(c) PROVE BoxGoes(c)
<1>1. BoxRequestOK(Box!Idle)' /\ BoxPointOK(Box!Idle)'
  BY BoxIdleOK DEF BoxRequestOK, BoxPointOK
<1>2. QED
  BY <1>1, BoxIdleOK DEF Box!Reply, BoxGoes

\* The request of a client moves on and the others stay good, where nothing on
\* the way of a pointer is crossed anew.
LEMMA BoxRequestsOK ==
  ASSUME BoxIInv, BoxStays, NEW c \in Client, BoxGoes(c),
         \A d \in Client \ {c} : BoxPointOK(op[d]) => \A q : q = op[d] => BoxPointOK(q)'
  PROVE  /\ op' \in [Client -> BoxRequestType]
         /\ \A d \in Client : BoxRequestOK(op[d])' /\ BoxPointOK(op[d])'
         /\ \A d \in Client \ {c} : op'[d] = op[d]
<1>1. PICK r \in BoxRequestType : Box!Become(c, r) /\ BoxRequestOK(r)' /\ BoxPointOK(r)'
  BY DEF BoxGoes
<1>2. op' \in [Client -> BoxRequestType] /\ op'[c] = r /\ \A d \in Client \ {c} : op'[d] = op[d]
  BY <1>1 DEF BoxIInv, Box!Become
<1>3. ASSUME NEW d \in Client PROVE BoxRequestOK(op[d])' /\ BoxPointOK(op[d])'
  <2>1. CASE d = c
    BY <1>1, <1>2, <2>1 DEF BoxRequestOK, BoxPointOK
  <2>2. CASE d # c
    <3>1. PICK q \in BoxRequestType : q = op[d] /\ BoxRequestOK(q) /\ BoxPointOK(q)
      BY DEF BoxIInv
    <3>2. BoxRequestOK(q)' /\ BoxPointOK(q)'
      BY <2>2, <3>1, BoxRequestStable
    <3>3. op'[d] = q
      BY <1>2, <2>2, <3>1
    <3>4. QED
      BY <3>2, <3>3 DEF BoxRequestOK, BoxPointOK
  <2>3. QED
    BY <2>1, <2>2
<1>4. QED
  BY <1>2, <1>3

LEMMA BoxStepOfClient ==
  ASSUME BoxIInv, NEW c \in Client, BoxRowsOK', BoxStays, BoxOverStays, BoxGoes(c), UNCHANGED <<newest, overtaken>>,
         box'.latest = box.latest, ~Box!At(c, "point")
  PROVE  BoxIInv' /\ BoxOverStays
<1>1. \A d \in Client \ {c} : BoxPointOK(op[d]) => \A q : q = op[d] => BoxPointOK(q)'
  BY DEF BoxPointOK
<1>2. /\ op' \in [Client -> BoxRequestType]
      /\ \A d \in Client : BoxRequestOK(op[d])' /\ BoxPointOK(op[d])'
      /\ \A d \in Client \ {c} : op'[d] = op[d]
  BY <1>1, BoxRequestsOK
<1>3. Box!LatestIsNewest'
  BY <1>2 DEF BoxIInv, Box!LatestIsNewest, Box!At
<1>4. QED
  BY <1>2, <1>3 DEF BoxIInv

\* Rows, and what is stored, where no row changes.
LEMMA BoxSameOK ==
  ASSUME BoxIInv, UNCHANGED <<manifests, attachments>>
  PROVE  BoxStays /\ BoxOverStays
BY DEF BoxStays, BoxOverStays, Box!Usable, Box!Known, Box!Exists

LEMMA BoxNothingOK ==
  ASSUME BoxIInv, UNCHANGED <<manifests, attachments, box, receipts, newest, overtaken>>
  PROVE  BoxRowsOK' /\ BoxStays /\ BoxOverStays /\ box'.latest = box.latest
<1>1. BoxRowsOK'
  BY DEF BoxIInv, BoxRowsOK, Box!EnvironmentAtHome, Box!CommandsAllowed, Box!Usable, Box!Known,
     Box!Exists
<1>2. QED
  BY <1>1, BoxSameOK

BoxAttachedAtHome == \A a \in Attachment : Box!Exists(a) => Box!Usable(attachments[a].manifest)
BoxRecordedAtHome == \A r \in receipts : Box!Usable(r.manifest)
BoxPointerLeads == box.latest # Box!None => Box!Exists(box.latest)

LEMMA BoxHomeParts ==
  /\ Box!EnvironmentAtHome => BoxAttachedAtHome /\ BoxRecordedAtHome /\ BoxPointerLeads
  /\ BoxAttachedAtHome' /\ BoxRecordedAtHome' /\ BoxPointerLeads' => Box!EnvironmentAtHome'
BY DEF BoxAttachedAtHome, BoxRecordedAtHome, BoxPointerLeads, Box!EnvironmentAtHome

\* Where the tables only grow in what can be used, environments stay at home.
LEMMA BoxHomeOK ==
  ASSUME BoxIInv, BoxStays, UNCHANGED <<box, receipts, attachments>>
  PROVE  Box!EnvironmentAtHome' /\ Box!CommandsAllowed'
<1>1. BoxAttachedAtHome /\ BoxRecordedAtHome /\ BoxPointerLeads
  BY BoxHomeParts DEF BoxIInv, BoxRowsOK
<1>2. \A a \in Attachment : Box!Exists(a) => /\ attachments[a].manifest \in Manifest
                                             /\ Box!Usable(attachments[a].manifest)
  BY <1>1 DEF BoxIInv, BoxRowsOK, BoxAttachedAtHome, Box!Exists, BoxAttachmentRow
<1>3. \A r \in receipts : /\ r.manifest \in Manifest /\ Box!Usable(r.manifest)
                          /\ r.command \in Permitted[manifests[r.manifest].class]
  BY <1>1 DEF BoxIInv, BoxRowsOK, BoxRecordedAtHome, Box!CommandsAllowed, BoxReceipt
<1>4. BoxPointerLeads'
  BY <1>1 DEF BoxPointerLeads, Box!Exists
<1>5. BoxAttachedAtHome'
  <2>1. ASSUME NEW a \in Attachment, Box!Exists(a) PROVE Box!Usable(attachments[a].manifest)'
    <3>1. PICK m \in Manifest : m = attachments[a].manifest /\ Box!Usable(m)
      BY <1>2, <2>1
    <3>2. Box!Usable(m)'
      BY <3>1 DEF BoxStays
    <3>3. QED
      BY <3>1, <3>2 DEF Box!Usable, Box!Known
  <2>2. QED
    BY <2>1 DEF BoxAttachedAtHome, Box!Exists
<1>6. \A r \in receipts : Box!Usable(r.manifest)' /\ r.command \in Permitted[manifests'[r.manifest].class]
  BY <1>3 DEF BoxStays
<1>7. BoxRecordedAtHome'
  BY <1>6 DEF BoxRecordedAtHome
<1>8. Box!EnvironmentAtHome'
  BY <1>4, <1>5, <1>7, BoxHomeParts
<1>9. QED
  BY <1>6, <1>8 DEF Box!CommandsAllowed

-----------------------------------------------------------------------------
\* Manifests

LEMMA BoxCreateManifestOK == ASSUME BoxIInv, Box!CreateManifest PROVE BoxIInv' /\ BoxOverStays
<1>1. PICK m \in Manifest, k \in BoxClass, inside \in BOOLEAN :
        /\ ~Box!Known(m)
        /\ manifests' = [manifests EXCEPT ![m] = [class |-> k, home |-> inside, bound |-> FALSE]]
  BY DEF Box!CreateManifest
<1>2. UNCHANGED <<attachments, box, receipts, newest, overtaken, op>>
  BY DEF Box!CreateManifest
<1>3. [class |-> k, home |-> inside, bound |-> FALSE] \in BoxManifestRow
  BY DEF BoxManifestRow
<1>4. manifests' \in [Manifest -> {Box!NoManifest} \cup BoxManifestRow]
  BY <1>1, <1>3 DEF BoxIInv, BoxRowsOK
<1>5. ~Box!Usable(m) /\ \A n \in Manifest \ {m} : manifests'[n] = manifests[n]
  BY <1>1 DEF BoxIInv, BoxRowsOK, Box!Usable
<1>6. BoxStays
  BY <1>2, <1>5 DEF BoxStays, Box!Usable, Box!Known, Box!Exists
<1>7. BoxRowsOK'
  BY <1>2, <1>4, <1>6, BoxHomeOK DEF BoxIInv, BoxRowsOK
<1>8. ASSUME NEW c \in Client PROVE BoxRequestOK(op[c])' /\ BoxPointOK(op[c])'
  <2>1. PICK q \in BoxRequestType : q = op[c] /\ BoxRequestOK(q) /\ BoxPointOK(q)
    BY DEF BoxIInv
  <2>2. BoxRequestOK(q)' /\ BoxPointOK(q)' /\ op'[c] = q
    BY <1>2, <1>6, <2>1, BoxRequestStable DEF BoxPointOK
  <2>3. QED
    BY <2>2 DEF BoxRequestOK, BoxPointOK
<1>9. QED
  BY <1>2, <1>7, <1>8 DEF BoxIInv, Box!LatestIsNewest, Box!At, BoxOverStays

LEMMA BoxBeginBindOK == ASSUME BoxIInv, NEW c \in Client, Box!BeginBind(c) PROVE BoxIInv' /\ BoxOverStays
<1>0. PICK base \in Nat : base = box.rev
  BY DEF BoxIInv, BoxRowsOK
<1>1. PICK m \in Manifest : Box!Usable(m) /\ Box!Become(c, [stage |-> "bind", manifest |-> m, base |-> box.rev])
  BY DEF Box!BeginBind
<1> DEFINE r == [stage |-> "bind", manifest |-> m, base |-> base]
<1>2. r \in BoxRequestType /\ r.stage = "bind" /\ r.manifest = m
  BY DEF BoxRequestType, BoxBindRequest
<1>3. Box!Become(c, r)
  BY <1>0, <1>1
<1> HIDE DEF r
<1>4. Box!Usable(m)' /\ UNCHANGED <<manifests, attachments, box, receipts, newest, overtaken>>
  BY <1>1 DEF Box!BeginBind, Box!Usable, Box!Known
<1>5. BoxRequestOK(r)' /\ BoxPointOK(r)'
  BY <1>2, <1>4 DEF BoxRequestOK, BoxPointOK
<1>6. BoxGoes(c)
  BY <1>2, <1>3, <1>5 DEF BoxGoes
<1>7. QED
  BY <1>4, <1>6, BoxNothingOK, BoxStepOfClient DEF Box!BeginBind, Box!At

LEMMA BoxBindOK == ASSUME BoxIInv, NEW c \in Client, Box!Bind(c) PROVE BoxIInv' /\ BoxOverStays
<1>1. PICK q \in BoxBindRequest : q = op[c] /\ BoxRequestOK(q)
  BY DEF Box!Bind, Box!At, BoxIInv, BoxRequestType, BoxAnnotateRequest, BoxAttachRequest,
     BoxDetachRequest, BoxReceiptRequest
<1>2. q.stage = "bind" /\ Box!Usable(q.manifest) /\ q.manifest \in Manifest
  BY <1>1 DEF BoxBindRequest, BoxRequestOK
<1>3. UNCHANGED <<manifests, attachments, receipts, newest, overtaken>> /\ ~Box!At(c, "point")
  BY DEF Box!Bind, Box!At
<1>4. BoxStays /\ BoxOverStays /\ Box!Usable(q.manifest)'
  BY <1>2, <1>3, BoxSameOK DEF BoxStays
<1>5. CASE Box!Reply(c) /\ UNCHANGED box
  BY <1>3, <1>5, BoxNothingOK, BoxReplyGoes, BoxStepOfClient
<1>6. CASE /\ box' = [box EXCEPT !.rev = @ + 1, !.manifest = q.manifest]
           /\ Box!Become(c, [stage |-> "annotate", manifest |-> q.manifest])
  <2>1. /\ box' \in [rev: Nat, manifest: Manifest \cup {Box!None}, latest: Attachment \cup {Box!None}]
        /\ box'.manifest = q.manifest /\ box'.latest = box.latest
    <3>1. PICK old \in [rev: Nat, manifest: Manifest \cup {Box!None}, latest: Attachment \cup {Box!None}] :
            old = box
      BY DEF BoxIInv, BoxRowsOK
    <3>0. PICK n \in Nat, m \in Manifest : n = old.rev + 1 /\ m = q.manifest
      BY <1>2
    <3> DEFINE new == [[old EXCEPT !.rev = n] EXCEPT !.manifest = m]
    <3>2. box' = new
      BY <1>6, <3>1, <3>0
    <3>3. /\ new \in [rev: Nat, manifest: Manifest \cup {Box!None}, latest: Attachment \cup {Box!None}]
          /\ new.manifest = m /\ new.latest = old.latest
      OBVIOUS
    <3> HIDE DEF new
    <3>4. QED
      BY <3>0, <3>1, <3>2, <3>3
  <2>2. Box!EnvironmentAtHome'
    BY <1>3, <2>1 DEF BoxIInv, BoxRowsOK, Box!EnvironmentAtHome, Box!Usable, Box!Known,
       Box!Exists
  <2>3. Box!CommandsAllowed'
    BY <1>3 DEF BoxIInv, BoxRowsOK, Box!CommandsAllowed
  <2>4. BoxRowsOK'
    BY <1>3, <2>1, <2>2, <2>3 DEF BoxIInv, BoxRowsOK
  <2> DEFINE r == [stage |-> "annotate", manifest |-> q.manifest]
  <2>5. r \in BoxRequestType /\ r.stage = "annotate" /\ r.manifest = q.manifest
    BY <1>2 DEF BoxRequestType, BoxAnnotateRequest
  <2>6. Box!Become(c, r)
    BY <1>6
  <2> HIDE DEF r
  <2>7. BoxRequestOK(r)' /\ BoxPointOK(r)'
    BY <1>4, <2>5 DEF BoxRequestOK, BoxPointOK
  <2>8. BoxGoes(c)
    BY <2>5, <2>6, <2>7 DEF BoxGoes
  <2>9. QED
    BY <1>3, <1>4, <2>1, <2>4, <2>8, BoxStepOfClient
<1>7. QED
  BY <1>1, <1>5, <1>6 DEF Box!Bind

LEMMA BoxAnnotateOK == ASSUME BoxIInv, NEW c \in Client, Box!Annotate(c) PROVE BoxIInv' /\ BoxOverStays
<1>1. PICK q \in BoxAnnotateRequest : q = op[c] /\ BoxRequestOK(q)
  BY DEF Box!Annotate, Box!At, BoxIInv, BoxRequestType, BoxBindRequest, BoxAttachRequest,
     BoxDetachRequest, BoxReceiptRequest
<1>2. Box!Usable(q.manifest)
  BY <1>1 DEF BoxAnnotateRequest, BoxRequestOK
<1>3. PICK n \in Manifest : n = q.manifest /\ Box!Usable(n)
  BY <1>1, <1>2 DEF BoxAnnotateRequest
<1>4. PICK row \in BoxManifestRow : row = manifests[n]
  BY <1>3 DEF Box!Usable, Box!Known, BoxIInv, BoxRowsOK
<1> DEFINE new == [row EXCEPT !.bound = TRUE]
<1>5. new \in BoxManifestRow /\ new.home = row.home /\ new.class = row.class
  BY DEF BoxManifestRow
<1>6. manifests' = [manifests EXCEPT ![n] = new]
  BY <1>1, <1>3, <1>4 DEF Box!Annotate
<1> HIDE DEF new
<1>7. manifests' \in [Manifest -> {Box!NoManifest} \cup BoxManifestRow] /\ manifests'[n] = new
      /\ \A m \in Manifest \ {n} : manifests'[m] = manifests[m]
  BY <1>5, <1>6 DEF BoxIInv, BoxRowsOK
<1>8. UNCHANGED <<attachments, box, receipts, newest, overtaken>> /\ Box!Reply(c) /\ ~Box!At(c, "point")
  BY DEF Box!Annotate, Box!At
<1>9. new # Box!NoManifest
  BY <1>3, <1>4, <1>5 DEF Box!Usable, Box!NoManifest
<1>10. BoxStays
  BY <1>3, <1>4, <1>5, <1>7, <1>8, <1>9 DEF BoxStays, Box!Usable, Box!Known, Box!Exists
<1>11. BoxRowsOK'
  BY <1>7, <1>8, <1>10, BoxHomeOK DEF BoxIInv, BoxRowsOK
<1>12. BoxOverStays
  BY <1>8 DEF BoxOverStays
<1>13. QED
  BY <1>8, <1>10, <1>11, <1>12, BoxReplyGoes, BoxStepOfClient

-----------------------------------------------------------------------------
\* Attachments

LEMMA BoxBeginAttachOK == ASSUME BoxIInv, NEW c \in Client, Box!BeginAttach(c) PROVE BoxIInv' /\ BoxOverStays
<1>1. PICK m \in Manifest \cup {box.manifest}, a \in Attachment, who \in Agent :
        /\ Box!Usable(m)
        /\ Box!Become(c, [stage |-> "attach", manifest |-> m, id |-> a, actor |-> who])
  BY DEF Box!BeginAttach
<1>2. m \in Manifest
  BY <1>1 DEF BoxIInv, BoxRowsOK, Box!Usable, Box!Known
<1> DEFINE r == [stage |-> "attach", manifest |-> m, id |-> a, actor |-> who]
<1>3. r \in BoxRequestType /\ r.stage = "attach" /\ r.manifest = m
  BY <1>2 DEF BoxRequestType, BoxAttachRequest
<1>4. Box!Become(c, r)
  BY <1>1
<1> HIDE DEF r
<1>5. Box!Usable(m)' /\ UNCHANGED <<manifests, attachments, box, receipts, newest, overtaken>>
  BY <1>1 DEF Box!BeginAttach, Box!Usable, Box!Known
<1>6. BoxRequestOK(r)' /\ BoxPointOK(r)'
  BY <1>3, <1>5 DEF BoxRequestOK, BoxPointOK
<1>7. BoxGoes(c)
  BY <1>3, <1>4, <1>6 DEF BoxGoes
<1>8. QED
  BY <1>5, <1>7, BoxNothingOK, BoxStepOfClient DEF Box!BeginAttach, Box!At

\* One attachment is inserted or changed; the manifest it runs in can be used.
LEMMA BoxAttachmentOK ==
  ASSUME BoxIInv, UNCHANGED <<manifests, box, receipts>>, NEW a \in Attachment,
         NEW row \in BoxAttachmentRow, Box!Usable(row.manifest),
         attachments' = [attachments EXCEPT ![a] = row],
         attachments[a].status \in Box!Over => row.status \in Box!Over,
         newest' \in Attachment \cup {Box!None}, overtaken' \in BOOLEAN
  PROVE  BoxRowsOK' /\ BoxStays /\ BoxOverStays /\ Box!Exists(a)'
<1>1. /\ attachments' \in [Attachment -> {Box!NoAttachment} \cup BoxAttachmentRow]
      /\ attachments'[a] = row
      /\ \A b \in Attachment \ {a} : attachments'[b] = attachments[b]
  BY DEF BoxIInv, BoxRowsOK
<1>2. row # Box!NoAttachment
  BY DEF Box!NoAttachment, BoxAttachmentRow, Box!Over, Box!None
<1>3. BoxStays
  BY <1>1, <1>2 DEF BoxStays, Box!Usable, Box!Known, Box!Exists
<1>4. BoxOverStays
  BY <1>1 DEF BoxOverStays
<1>5. Box!EnvironmentAtHome'
  <2>0. BoxAttachedAtHome /\ BoxRecordedAtHome /\ BoxPointerLeads
    BY BoxHomeParts DEF BoxIInv, BoxRowsOK
  <2>1. BoxRecordedAtHome'
    BY <2>0 DEF BoxRecordedAtHome, Box!Usable, Box!Known
  <2>2. BoxAttachedAtHome'
    BY <1>1, <2>0 DEF BoxAttachedAtHome, Box!Usable, Box!Known, Box!Exists
  <2>3. BoxPointerLeads'
    BY <1>3, <2>0 DEF BoxPointerLeads, BoxStays, BoxIInv, BoxRowsOK
  <2>4. QED
    BY <2>1, <2>2, <2>3, BoxHomeParts
<1>6. Box!CommandsAllowed'
  BY DEF BoxIInv, BoxRowsOK, Box!CommandsAllowed
<1>7. QED
  BY <1>1, <1>2, <1>3, <1>4, <1>5, <1>6 DEF BoxIInv, BoxRowsOK, Box!Exists

LEMMA BoxAttachOK == ASSUME BoxIInv, NEW c \in Client, Box!Attach(c) PROVE BoxIInv' /\ BoxOverStays
<1>1. PICK q \in BoxAttachRequest : q = op[c] /\ BoxRequestOK(q) /\ q.stage = "attach"
  BY DEF Box!Attach, Box!At, BoxIInv, BoxRequestType, BoxBindRequest, BoxAnnotateRequest,
     BoxDetachRequest, BoxReceiptRequest
<1>2. Box!Usable(q.manifest) /\ ~Box!At(c, "point") /\ UNCHANGED <<manifests, box, receipts>>
  BY <1>1 DEF BoxAttachRequest, BoxRequestOK, Box!Attach, Box!At
<1>3. CASE Box!Exists(q.id)
  BY <1>1, <1>2, <1>3, BoxNothingOK, BoxReplyGoes, BoxStepOfClient DEF Box!Attach
<1>4. CASE ~Box!Exists(q.id)
  <2> DEFINE row == [status |-> "attached", manifest |-> q.manifest, actor |-> q.actor]
  <2>1. /\ attachments' = [attachments EXCEPT ![q.id] = row]
        /\ newest' = q.id
        /\ overtaken' = (overtaken \/ \E d \in Client : Box!At(d, "point"))
        /\ Box!Become(c, [q EXCEPT !.stage = "point"])
    BY <1>1, <1>4 DEF Box!Attach
  <2>2. row \in BoxAttachmentRow /\ row.manifest = q.manifest /\ q.id \in Attachment
    BY DEF BoxAttachmentRow, BoxAttachRequest
  <2> HIDE DEF row
  <2>3. attachments[q.id].status \notin Box!Over
    BY <1>4 DEF Box!Exists, Box!NoAttachment, Box!Over, Box!None
  <2>4. overtaken' \in BOOLEAN /\ (overtaken => overtaken')
        /\ ((\E d \in Client : Box!At(d, "point")) => overtaken')
    BY <2>1, Zenon
  <2>5. BoxRowsOK' /\ BoxStays /\ BoxOverStays /\ Box!Exists(q.id)'
    BY <1>2, <2>1, <2>2, <2>3, <2>4, BoxAttachmentOK
  <2> DEFINE r == [q EXCEPT !.stage = "point"]
  <2>6. r \in BoxRequestType /\ r.stage = "point" /\ r.manifest = q.manifest /\ r.id = q.id
        /\ q.manifest \in Manifest
    BY DEF BoxRequestType, BoxAttachRequest
  <2>7. Box!Become(c, r)
    BY <2>1
  <2> HIDE DEF r
  <2>8. BoxRequestOK(r)' /\ BoxPointOK(r)'
    BY <1>2, <2>1, <2>5, <2>6 DEF BoxRequestOK, BoxPointOK, BoxStays
  <2>9. BoxGoes(c)
    BY <2>6, <2>7, <2>8 DEF BoxGoes
  <2>10. \A d \in Client \ {c} : BoxPointOK(op[d]) => \A p : p = op[d] => BoxPointOK(p)'
    BY <2>4 DEF BoxPointOK, Box!At
  <2>11. /\ op' \in [Client -> BoxRequestType]
         /\ \A d \in Client : BoxRequestOK(op[d])' /\ BoxPointOK(op[d])'
    BY <2>5, <2>9, <2>10, BoxRequestsOK
  <2>12. op'[c] = r
    BY <2>6, <2>7 DEF Box!Become, BoxIInv
  <2>13. Box!LatestIsNewest'
    BY <2>6, <2>12 DEF Box!LatestIsNewest, Box!At
  <2>14. QED
    BY <2>5, <2>11, <2>13 DEF BoxIInv
<1>5. QED
  BY <1>3, <1>4

LEMMA BoxPointPointsOK == ASSUME BoxIInv, NEW c \in Client, Box!Point(c) PROVE BoxIInv' /\ BoxOverStays
<1>1. PICK q \in BoxAttachRequest : /\ q = op[c] /\ q.stage = "point"
                                     /\ BoxPointOK(q) /\ BoxRequestOK(q)
  BY DEF Box!Point, Box!At, BoxIInv, BoxRequestType, BoxBindRequest, BoxAnnotateRequest,
     BoxDetachRequest, BoxReceiptRequest
<1>2. UNCHANGED <<manifests, attachments, receipts, newest, overtaken>> /\ Box!Reply(c)
  BY DEF Box!Point
<1>3. /\ box' \in [rev: Nat, manifest: Manifest \cup {Box!None}, latest: Attachment \cup {Box!None}]
      /\ box'.manifest = box.manifest /\ box'.latest = q.id
  BY <1>1 DEF Box!Point, BoxIInv, BoxRowsOK, BoxAttachRequest
<1>4. BoxRowsOK'
  <2>1. Box!Exists(q.id)
    BY <1>1 DEF BoxRequestOK
  <2>2. Box!EnvironmentAtHome'
    BY <1>2, <1>3, <2>1 DEF BoxIInv, BoxRowsOK, Box!EnvironmentAtHome, Box!Usable, Box!Known,
       Box!Exists
  <2>3. QED
    BY <1>2, <1>3, <2>2 DEF BoxIInv, BoxRowsOK, Box!CommandsAllowed
<1>5. \A d \in Client \ {c} : BoxPointOK(op[d]) => \A p : p = op[d] => BoxPointOK(p)'
  BY <1>2 DEF BoxPointOK
<1>6. /\ op' \in [Client -> BoxRequestType]
      /\ \A d \in Client : BoxRequestOK(op[d])' /\ BoxPointOK(op[d])'
  BY <1>2, <1>5, BoxSameOK, BoxReplyGoes, BoxRequestsOK
<1>7. Box!LatestIsNewest'
  BY <1>1, <1>2, <1>3 DEF Box!LatestIsNewest, BoxPointOK
<1>8. QED
  BY <1>2, <1>4, <1>6, <1>7, BoxSameOK DEF BoxIInv

LEMMA BoxBeginDetachOK == ASSUME BoxIInv, NEW c \in Client, Box!BeginDetach(c) PROVE BoxIInv' /\ BoxOverStays
<1>1. PICK a \in Attachment, next \in Box!Over :
        Box!Exists(a) /\ Box!Become(c, [stage |-> "detach", id |-> a, next |-> next])
  BY DEF Box!BeginDetach
<1> DEFINE r == [stage |-> "detach", id |-> a, next |-> next]
<1>2. r \in BoxRequestType /\ r.stage = "detach" /\ r.id = a
  BY DEF BoxRequestType, BoxDetachRequest
<1>3. Box!Become(c, r)
  BY <1>1
<1> HIDE DEF r
<1>4. Box!Exists(a)' /\ UNCHANGED <<manifests, attachments, box, receipts, newest, overtaken>>
  BY <1>1 DEF Box!BeginDetach, Box!Exists
<1>5. BoxRequestOK(r)' /\ BoxPointOK(r)'
  BY <1>2, <1>4 DEF BoxRequestOK, BoxPointOK
<1>6. BoxGoes(c)
  BY <1>2, <1>3, <1>5 DEF BoxGoes
<1>7. QED
  BY <1>4, <1>6, BoxNothingOK, BoxStepOfClient DEF Box!BeginDetach, Box!At

LEMMA BoxDetachOK == ASSUME BoxIInv, NEW c \in Client, Box!Detach(c) PROVE BoxIInv' /\ BoxOverStays
<1>1. PICK q \in BoxDetachRequest : q = op[c] /\ BoxRequestOK(q)
  BY DEF Box!Detach, Box!At, BoxIInv, BoxRequestType, BoxBindRequest, BoxAnnotateRequest,
     BoxAttachRequest, BoxReceiptRequest
<1>2. PICK a \in Attachment, over \in Box!Over : a = q.id /\ over = q.next /\ Box!Exists(a)
  BY <1>1 DEF BoxDetachRequest, BoxRequestOK
<1>3. PICK old \in BoxAttachmentRow : old = attachments[a] /\ Box!Usable(old.manifest)
  BY <1>2 DEF Box!Exists, BoxIInv, BoxRowsOK, Box!EnvironmentAtHome
<1> DEFINE row == [old EXCEPT !.status = over]
<1>4. row \in BoxAttachmentRow /\ row.manifest = old.manifest /\ row.status = over
  BY DEF BoxAttachmentRow
<1>5. attachments' = [attachments EXCEPT ![a] = row]
  BY <1>1, <1>2, <1>3 DEF Box!Detach
<1> HIDE DEF row
<1>6. /\ UNCHANGED <<manifests, box, receipts, newest, overtaken>> /\ Box!Reply(c) /\ ~Box!At(c, "point")
      /\ newest' \in Attachment \cup {Box!None} /\ overtaken' \in BOOLEAN
  BY DEF Box!Detach, Box!At, BoxIInv, BoxRowsOK
<1>7. BoxRowsOK' /\ BoxStays /\ BoxOverStays
  BY <1>3, <1>4, <1>5, <1>6, BoxAttachmentOK
<1>8. QED
  BY <1>6, <1>7, BoxReplyGoes, BoxStepOfClient

-----------------------------------------------------------------------------
\* Receipts

LEMMA BoxBeginReceiptOK == ASSUME BoxIInv, NEW c \in Client, Box!BeginReceipt(c) PROVE BoxIInv' /\ BoxOverStays
<1>1. PICK m \in Manifest \cup {box.manifest}, a \in {x \in Attachment : Box!Exists(x)} \cup {Box!None},
           k \in Command :
        /\ Box!ReceiptAllowed(m, a, k)
        /\ Box!Become(c, [stage |-> "receipt", manifest |-> m, id |-> a, command |-> k])
  BY DEF Box!BeginReceipt
<1>2. m \in Manifest /\ Box!Usable(m) /\ k \in Permitted[manifests[m].class]
  BY <1>1 DEF BoxIInv, BoxRowsOK, Box!Usable, Box!Known, Box!ReceiptAllowed
<1> DEFINE r == [stage |-> "receipt", manifest |-> m, id |-> a, command |-> k]
<1>3. r \in BoxRequestType /\ r.stage = "receipt" /\ r.manifest = m /\ r.command = k
  BY <1>2 DEF BoxRequestType, BoxReceiptRequest
<1>4. Box!Become(c, r)
  BY <1>1
<1> HIDE DEF r
<1>5. /\ Box!Usable(m)' /\ k \in Permitted[manifests'[m].class]
      /\ UNCHANGED <<manifests, attachments, box, receipts, newest, overtaken>>
  BY <1>2 DEF Box!BeginReceipt, Box!Usable, Box!Known
<1>6. BoxRequestOK(r)' /\ BoxPointOK(r)'
  BY <1>3, <1>5 DEF BoxRequestOK, BoxPointOK
<1>7. BoxGoes(c)
  BY <1>3, <1>4, <1>6 DEF BoxGoes
<1>8. QED
  BY <1>5, <1>7, BoxNothingOK, BoxStepOfClient DEF Box!BeginReceipt, Box!At

LEMMA BoxInsertReceiptOK == ASSUME BoxIInv, NEW c \in Client, Box!InsertReceipt(c) PROVE BoxIInv' /\ BoxOverStays
<1>1. PICK q \in BoxReceiptRequest : q = op[c] /\ BoxRequestOK(q)
  BY DEF Box!InsertReceipt, Box!At, BoxIInv, BoxRequestType, BoxBindRequest, BoxAnnotateRequest,
     BoxAttachRequest,
         BoxDetachRequest
<1>2. Box!Usable(q.manifest) /\ q.command \in Permitted[manifests[q.manifest].class]
  BY <1>1 DEF BoxReceiptRequest, BoxRequestOK
<1> DEFINE new == [manifest |-> q.manifest, id |-> q.id, command |-> q.command]
<1>3. new \in BoxReceipt /\ new.manifest = q.manifest /\ new.command = q.command
  BY DEF BoxReceipt, BoxReceiptRequest
<1>4. receipts' = receipts \cup {new}
  BY <1>1 DEF Box!InsertReceipt
<1> HIDE DEF new
<1>5. /\ UNCHANGED <<manifests, attachments, box, newest, overtaken>> /\ Box!Reply(c) /\ ~Box!At(c, "point")
  BY DEF Box!InsertReceipt, Box!At
<1>6. Box!CommandsAllowed'
  BY <1>2, <1>3, <1>4, <1>5 DEF BoxIInv, BoxRowsOK, Box!CommandsAllowed
<1>7. Box!EnvironmentAtHome'
  BY <1>2, <1>3, <1>4, <1>5 DEF BoxIInv, BoxRowsOK, Box!EnvironmentAtHome, Box!Usable, Box!Known,
     Box!Exists
<1>8. BoxRowsOK'
  BY <1>3, <1>4, <1>5, <1>6, <1>7 DEF BoxIInv, BoxRowsOK
<1>9. QED
  BY <1>5, <1>8, BoxSameOK, BoxReplyGoes, BoxStepOfClient

-----------------------------------------------------------------------------
LEMMA BoxDieOK == ASSUME BoxIInv, NEW c \in Client, Box!Die(c) PROVE BoxIInv' /\ BoxOverStays
<1>1. UNCHANGED <<manifests, attachments, box, receipts, newest>> /\ Box!Reply(c)
  BY DEF Box!Die
<1>2. CASE Box!At(c, "point")
  <2>1. overtaken' = TRUE
    BY <1>2, Zenon DEF Box!Die
  <2>2. BoxRowsOK'
    BY <1>1, <2>1 DEF BoxIInv, BoxRowsOK, Box!EnvironmentAtHome, Box!CommandsAllowed, Box!Usable,
       Box!Known, Box!Exists
  <2>3. \A d \in Client \ {c} : BoxPointOK(op[d]) => \A p : p = op[d] => BoxPointOK(p)'
    BY <2>1 DEF BoxPointOK
  <2>4. /\ op' \in [Client -> BoxRequestType]
        /\ \A d \in Client : BoxRequestOK(op[d])' /\ BoxPointOK(op[d])'
    BY <1>1, <2>3, BoxSameOK, BoxReplyGoes, BoxRequestsOK
  <2>5. QED
    BY <1>1, <2>1, <2>2, <2>4, BoxSameOK DEF BoxIInv, Box!LatestIsNewest
<1>3. CASE ~Box!At(c, "point")
  <2>1. UNCHANGED overtaken
    BY <1>3 DEF Box!Die, BoxIInv, BoxRowsOK
  <2>2. QED
    BY <1>1, <1>3, <2>1, BoxNothingOK, BoxReplyGoes, BoxStepOfClient
<1>4. QED
  BY <1>2, <1>3

LEMMA BoxNextOK == ASSUME BoxIInv, Box!Next PROVE BoxIInv' /\ BoxOverStays
BY BoxCreateManifestOK, BoxBeginBindOK, BoxBindOK, BoxAnnotateOK, BoxBeginAttachOK, BoxAttachOK,
   BoxPointPointsOK,
   BoxBeginDetachOK, BoxDetachOK, BoxBeginReceiptOK, BoxInsertReceiptOK, BoxDieOK DEF Box!Next

\* Only a bind changes the manifest, to one it has looked at.
LEMMA BoxBoundOK ==
  ASSUME BoxIInv, Box!Next
  PROVE  box'.manifest # box.manifest => Box!Usable(box'.manifest)
<1>1. ASSUME NEW c \in Client, Box!Bind(c) PROVE box'.manifest # box.manifest => Box!Usable(box'.manifest)
  <2>1. PICK q \in BoxBindRequest : q = op[c] /\ BoxRequestOK(q)
    BY <1>1 DEF Box!Bind, Box!At, BoxIInv, BoxRequestType, BoxAnnotateRequest, BoxAttachRequest,
       BoxDetachRequest, BoxReceiptRequest
  <2>2. Box!Usable(q.manifest)
    BY <2>1 DEF BoxBindRequest, BoxRequestOK
  <2>3. box' = [box EXCEPT !.rev = @ + 1, !.manifest = q.manifest] \/ box' = box
    BY <1>1, <2>1 DEF Box!Bind
  <2>4. CASE box' = [box EXCEPT !.rev = @ + 1, !.manifest = q.manifest]
    BY <2>2, <2>4 DEF BoxIInv, BoxRowsOK
  <2>5. QED
    BY <2>3, <2>4
<1>2. ASSUME NEW c \in Client, Box!Point(c) PROVE box'.manifest = box.manifest
  BY <1>2 DEF Box!Point, BoxIInv, BoxRowsOK
<1>3. \/ UNCHANGED box
      \/ \E c \in Client : Box!Bind(c) \/ Box!Point(c)
  BY DEF Box!Next, Box!CreateManifest, Box!BeginBind, Box!Annotate, Box!BeginAttach, Box!Attach,
     Box!BeginDetach, Box!Detach, Box!BeginReceipt, Box!InsertReceipt, Box!Die
<1>4. QED
  BY <1>1, <1>2, <1>3

LEMMA BoxStutterOK == ASSUME BoxIInv, UNCHANGED Box!vars PROVE BoxIInv' /\ BoxOverStays
<1>1. UNCHANGED <<manifests, attachments, box, receipts, newest, overtaken, op>>
  BY DEF Box!vars
<1>2. BoxRowsOK' /\ BoxOverStays
  BY <1>1, BoxNothingOK
<1>3. \A c \in Client : BoxRequestOK(op[c])' /\ BoxPointOK(op[c])'
  BY <1>1 DEF BoxIInv, BoxRequestOK, BoxPointOK, Box!Usable, Box!Known, Box!Exists
<1>4. QED
  BY <1>1, <1>2, <1>3 DEF BoxIInv, Box!LatestIsNewest, Box!At

LEMMA BoxInitOK == Box!Init => BoxIInv
<1> SUFFICES ASSUME Box!Init PROVE BoxIInv
  OBVIOUS
<1>1. op \in [Client -> BoxRequestType] /\ \A c \in Client : op[c].stage = "idle"
  BY BoxIdleOK DEF Box!Init
<1>2. \A c \in Client : BoxRequestOK(op[c]) /\ BoxPointOK(op[c])
  BY <1>1 DEF BoxRequestOK, BoxPointOK
<1>3. box \in [rev: Nat, manifest: Manifest \cup {Box!None}, latest: Attachment \cup {Box!None}]
      /\ box.latest = Box!None
  BY DEF Box!Init
<1>4. QED
  BY <1>1, <1>2, <1>3 DEF Box!Init, BoxIInv, BoxRowsOK, Box!EnvironmentAtHome,
     Box!CommandsAllowed, Box!LatestIsNewest,
     Box!Exists

\* Whatever manifest its creator named, the attachments and recorded commands of
\* a session are of manifests of its own workspace, and so is one it is bound to
\* later; the latest attachment is there, and the one inserted last unless two
\* crossed or one was cut short; an attachment that is over stays over; and every
\* command recorded was allowed by its manifest's class: for any number of
\* requests, whichever of them die (createCodeSession,
\* attachEnvironmentManifestToSession, attachSandbox, detachSandbox,
\* createExecutionReceipt).
THEOREM EnvironmentsAreKept == Box!Spec => EnvironmentsKept
<1>1. BoxIInv => Box!LatestIsNewest /\ Box!EnvironmentAtHome /\ Box!CommandsAllowed
  BY DEF BoxIInv, BoxRowsOK
<1>2. BoxIInv /\ [Box!Next]_(Box!vars) => BoxIInv' /\ BoxOverStays
  BY BoxNextOK, BoxStutterOK
<1>3. BoxIInv /\ [Box!Next]_(Box!vars) =>
        [\A a \in Attachment : attachments[a].status \in Box!Over => attachments'[a].status \in Box!Over]_(Box!vars)
  BY <1>2 DEF BoxOverStays
<1>4. BoxIInv /\ [Box!Next]_(Box!vars) =>
        [box'.manifest # box.manifest => Box!Usable(box'.manifest)]_(Box!vars)
  BY BoxBoundOK
<1>5. QED
  BY <1>1, <1>2, <1>3, <1>4, BoxInitOK, PTL DEF EnvironmentsKept, Box!Spec, Box!EnvironmentsKept,
     Box!OverForGood, Box!BoundAtHome
-----------------------------------------------------------------------------
(* Imports *)

ImportLooked == {"look at paths", "raw", "rows", "index", "head"}

ImportJobRow == [stage: {"look at stones"} \cup ImportLooked, bundle: Archive, head: BOOLEAN,
                 raws: SUBSET Import!Stone, missing: SUBSET Import!Stone, unindexed: SUBSET Import!Stone,
                 place: BOOLEAN]

ImportRequestType == [stage: {"idle"}] \cup ImportJobRow

\* A head that no commit has set is the one of an import.
ImportHeadsOK == ~moved => \A h \in {chain, place} :
                       h = Import!NoHead \/ \E b \in wrote : h = Import!Imported(b)

ImportRowsOK == /\ raw \subseteq Import!Stone /\ rows \subseteq Import!Stone /\ index \subseteq Import!Stone
                /\ moved \in BOOLEAN
                /\ wrote \subseteq Archive /\ complete \subseteq Archive
                /\ ImportHeadsOK /\ Import!HeadIsLast /\ Import!Replayable

\* What an import has yet to write, with what is there, is its snapshot.
ImportRequestOK(r) ==
  /\ r.stage \in {"look at paths", "raw"} => r.bundle \subseteq raw \cup r.raws
  /\ r.stage \in {"rows", "index", "head"} => r.bundle \subseteq raw
  /\ r.stage \in {"look at paths", "raw", "rows"} => r.bundle \subseteq rows \cup r.missing
  /\ r.stage \in {"index", "head"} => r.bundle \subseteq rows
  /\ r.stage \in ImportLooked \ {"head"} => r.bundle \subseteq index \cup r.unindexed
  /\ r.stage = "head" => r.bundle \subseteq index

ImportIInv == /\ ImportRowsOK
              /\ importJob \in [Client -> ImportRequestType]
              /\ \A c \in Client : ImportRequestOK(importJob[c])

ImportStep == /\ chain # Import!NoHead => chain' = chain \/ chain'.by = "commit"
              /\ place # Import!NoHead => place' = place \/ place'.by = "commit"

ImportGrows == raw \subseteq raw' /\ rows \subseteq rows' /\ index \subseteq index'

ImportGoes(c) == \E r \in ImportRequestType : Import!Become(c, r) /\ ImportRequestOK(r)'

ImportGood(c) == ImportRowsOK' /\ ImportGrows /\ ImportStep /\ ImportGoes(c)

LEMMA ImportStepOfClient ==
  ASSUME ImportIInv, NEW c \in Client, ImportGood(c)
  PROVE  ImportIInv' /\ ImportStep
<1>1. PICK r \in ImportRequestType : Import!Become(c, r) /\ ImportRequestOK(r)'
  BY DEF ImportGood, ImportGoes
<1>2. importJob' \in [Client -> ImportRequestType] /\ importJob'[c] = r /\ \A d \in Client \ {c} : importJob'[d] = importJob[d]
  BY <1>1 DEF ImportIInv, Import!Become
<1>3. ASSUME NEW d \in Client PROVE ImportRequestOK(importJob[d])'
  <2>1. CASE d = c
    BY <1>1, <1>2, <2>1 DEF ImportRequestOK
  <2>2. CASE d # c
    <3>1. PICK q \in ImportRequestType : q = importJob[d] /\ ImportRequestOK(q)
      BY DEF ImportIInv
    <3>2. ImportRequestOK(q)'
      BY <3>1 DEF ImportRequestOK, ImportGood, ImportGrows
    <3>3. importJob'[d] = q
      BY <1>2, <2>2, <3>1
    <3>4. QED
      BY <3>2, <3>3 DEF ImportRequestOK
  <2>3. QED
    BY <2>1, <2>2
<1>4. QED
  BY <1>2, <1>3 DEF ImportIInv, ImportGood

LEMMA ImportIdleOK == Import!Idle \in ImportRequestType /\ Import!Idle.stage = "idle"
BY DEF Import!Idle, ImportRequestType

LEMMA ImportReplyGoes == ASSUME NEW c \in Client, Import!Reply(c) PROVE ImportGoes(c)
<1>1. ImportRequestOK(Import!Idle)'
  BY ImportIdleOK DEF ImportRequestOK, ImportLooked
<1>2. QED
  BY <1>1, ImportIdleOK DEF Import!Reply, ImportGoes

\* No head and no history changes, and what is stored grows.
LEMMA ImportMoreOK ==
  ASSUME ImportIInv, ImportGrows, raw' \subseteq Import!Stone, rows' \subseteq Import!Stone, index' \subseteq Import!Stone,
         UNCHANGED <<place, chain, moved, complete, wrote, refused>>
  PROVE  ImportRowsOK' /\ ImportStep
BY DEF ImportIInv, ImportRowsOK, ImportHeadsOK, Import!HeadIsLast, Import!Replayable, ImportGrows,
   ImportStep

LEMMA ImportNothingOK ==
  ASSUME ImportIInv, UNCHANGED <<raw, rows, index, place, chain, moved, complete, wrote, refused>>
  PROVE  ImportRowsOK' /\ ImportGrows /\ ImportStep
<1>1. ImportGrows
  BY DEF ImportGrows
<1>2. QED
  BY <1>1, ImportMoreOK DEF ImportIInv, ImportRowsOK

\* Nothing is refused for what the import of this very snapshot has left.
LEMMA ImportRefuseOK ==
  ASSUME ImportIInv, NEW c \in Client, NEW b \in Archive, Import!Conflicts(chain, b) \/ Import!Conflicts(place, b),
         Import!Refuse(c, b), UNCHANGED <<raw, rows, index, place, chain, moved, complete, wrote>>
  PROVE  ImportGood(c)
<1>1. moved \/ wrote \ {b} # {}
  BY DEF ImportIInv, ImportRowsOK, ImportHeadsOK, Import!Conflicts
<1>2. UNCHANGED refused /\ Import!Reply(c)
  BY <1>1 DEF Import!Refuse
<1>3. QED
  BY <1>2, ImportNothingOK, ImportReplyGoes DEF ImportGood

LEMMA ImportBeginOK == ASSUME ImportIInv, NEW c \in Client, Import!Begin(c) PROVE ImportGood(c)
<1>1. PICK b \in Archive :
        IF Import!Conflicts(chain, b) THEN Import!Refuse(c, b)
        ELSE /\ Import!Become(c, [stage |-> "look at stones", bundle |-> b, head |-> chain = Import!NoHead,
                                  raws |-> {}, missing |-> {}, unindexed |-> {}, place |-> FALSE])
             /\ UNCHANGED refused
  BY DEF Import!Begin
<1>2. UNCHANGED <<raw, rows, index, place, chain, moved, complete, wrote>>
  BY DEF Import!Begin
<1>3. CASE Import!Conflicts(chain, b)
  BY <1>1, <1>2, <1>3, ImportRefuseOK
<1>4. CASE ~Import!Conflicts(chain, b)
  <2>1. PICK free \in BOOLEAN : free = (chain = Import!NoHead)
    BY Zenon
  <2> DEFINE r == [stage |-> "look at stones", bundle |-> b, head |-> free,
                   raws |-> {}, missing |-> {}, unindexed |-> {}, place |-> FALSE]
  <2>2. r \in ImportRequestType /\ r.stage = "look at stones"
    BY DEF ImportRequestType, ImportJobRow
  <2>3. Import!Become(c, r)
    BY <1>1, <1>4, <2>1
  <2> HIDE DEF r
  <2>4. ImportRequestOK(r)'
    BY <2>2 DEF ImportRequestOK, ImportLooked
  <2>5. UNCHANGED refused
    BY <1>1, <1>4
  <2>6. QED
    BY <1>2, <2>2, <2>3, <2>4, <2>5, ImportNothingOK DEF ImportGood, ImportGoes
<1>5. QED
  BY <1>3, <1>4

LEMMA ImportLookAtStonesOK == ASSUME ImportIInv, NEW c \in Client, Import!LookAtStones(c) PROVE ImportGood(c)
<1>1. PICK q \in ImportJobRow : q = importJob[c]
  BY DEF ImportIInv, ImportRequestType, Import!LookAtStones, Import!At
<1>2. PICK b \in Archive : b = q.bundle
  BY DEF ImportJobRow
<1>3. b \subseteq Import!Stone
  BY DEF Import!Stone
<1>4. PICK rs \in SUBSET Import!Stone, ms \in SUBSET Import!Stone, us \in SUBSET Import!Stone :
        rs = b \ raw /\ ms = b \ rows /\ us = b \ index
  BY <1>3
<1> DEFINE r == [[[[q EXCEPT !.stage = "look at paths"] EXCEPT !.raws = rs]
                      EXCEPT !.missing = ms] EXCEPT !.unindexed = us]
<1>5. /\ r \in ImportRequestType /\ r.stage = "look at paths" /\ r.bundle = b /\ r.raws = rs
      /\ r.missing = ms /\ r.unindexed = us
      /\ Import!Become(c, r)
  <2>1. /\ r \in ImportRequestType /\ r.stage = "look at paths" /\ r.bundle = b /\ r.raws = rs
        /\ r.missing = ms /\ r.unindexed = us
    BY <1>2 DEF ImportRequestType, ImportJobRow, ImportLooked
  <2>2. Import!Become(c, r)
    BY <1>1, <1>2, <1>4 DEF Import!LookAtStones
  <2>3. QED
    BY <2>1, <2>2
<1>6. UNCHANGED <<raw, rows, index, place, chain, moved, complete, wrote, refused>>
  BY DEF Import!LookAtStones
<1> HIDE DEF r
<1>7. /\ r.bundle \subseteq raw' \cup r.raws
      /\ r.bundle \subseteq rows' \cup r.missing
      /\ r.bundle \subseteq index' \cup r.unindexed
  BY <1>4, <1>5, <1>6
<1>8. ImportRequestOK(r)'
  BY <1>5, <1>7 DEF ImportRequestOK
<1>9. QED
  BY <1>5, <1>6, <1>8, ImportNothingOK DEF ImportGood, ImportGoes

LEMMA ImportLookAtPathsOK == ASSUME ImportIInv, NEW c \in Client, Import!LookAtPaths(c) PROVE ImportGood(c)
<1>1. PICK q \in ImportJobRow : q = importJob[c] /\ q.stage = "look at paths" /\ ImportRequestOK(q)
  BY DEF ImportIInv, ImportRequestType, Import!LookAtPaths, Import!At
<1>2. PICK b \in Archive : b = q.bundle
  BY DEF ImportJobRow
<1>3. UNCHANGED <<raw, rows, index, place, chain, moved, complete, wrote>>
  BY DEF Import!LookAtPaths
<1>4. CASE Import!Conflicts(place, b) /\ Import!Refuse(c, b)
  BY <1>3, <1>4, ImportRefuseOK
<1>5. CASE UNCHANGED refused /\ Import!Reply(c)
  BY <1>3, <1>5, ImportNothingOK, ImportReplyGoes DEF ImportGood
<1>6. CASE UNCHANGED refused /\ Import!Become(c, [q EXCEPT !.stage = "raw", !.place = (place = Import!NoHead)])
  <2>1. PICK free \in BOOLEAN : free = (place = Import!NoHead)
    BY Zenon
  <2> DEFINE r == [[q EXCEPT !.stage = "raw"] EXCEPT !.place = free]
  <2>2. /\ r \in ImportRequestType /\ r.stage = "raw" /\ r.bundle = q.bundle /\ r.raws = q.raws
        /\ r.missing = q.missing /\ r.unindexed = q.unindexed
    BY DEF ImportRequestType, ImportJobRow, ImportLooked
  <2>3. Import!Become(c, r)
    BY <1>6, <2>1
  <2> HIDE DEF r
  <2>4. ImportRequestOK(r)'
    BY <1>1, <1>3, <2>2 DEF ImportRequestOK, ImportLooked
  <2>5. QED
    BY <1>3, <1>6, <2>2, <2>3, <2>4, ImportNothingOK DEF ImportGood, ImportGoes
<1>7. QED
  BY <1>1, <1>2, <1>4, <1>5, <1>6 DEF Import!LookAtPaths, Import!PlaceConflicts

\* Another stage of the same import.
LEMMA ImportStageChange ==
  ASSUME NEW q \in ImportJobRow, NEW stage \in ImportLooked
  PROVE  LET r == [q EXCEPT !.stage = stage] IN
         /\ r \in ImportRequestType /\ r.stage = stage /\ r.bundle = q.bundle /\ r.raws = q.raws
         /\ r.missing = q.missing /\ r.unindexed = q.unindexed
BY DEF ImportRequestType, ImportJobRow, ImportLooked

LEMMA ImportPutRawOK == ASSUME ImportIInv, NEW c \in Client, Import!PutRaw(c) PROVE ImportGood(c)
<1>1. PICK q \in ImportJobRow : q = importJob[c] /\ q.stage = "raw" /\ ImportRequestOK(q)
  BY DEF ImportIInv, ImportRequestType, Import!PutRaw, Import!At
<1>2. UNCHANGED <<rows, index, place, chain, moved, complete, wrote, refused>>
  BY DEF Import!PutRaw
<1>3. CASE q.raws = {}
  <2>1. PICK stage \in ImportLooked : stage = "rows"
    BY DEF ImportLooked
  <2> DEFINE r == [q EXCEPT !.stage = stage]
  <2>2. /\ r \in ImportRequestType /\ r.stage = stage /\ r.bundle = q.bundle /\ r.raws = q.raws
        /\ r.missing = q.missing /\ r.unindexed = q.unindexed
    BY ImportStageChange
  <2>3. Import!Become(c, r) /\ UNCHANGED raw
    BY <1>1, <1>3, <2>1 DEF Import!PutRaw, Import!Goto
  <2> HIDE DEF r
  <2>4. ImportRequestOK(r)'
    BY <1>1, <1>2, <1>3, <2>1, <2>2, <2>3 DEF ImportRequestOK, ImportLooked
  <2>5. QED
    BY <1>2, <2>2, <2>3, <2>4, ImportNothingOK DEF ImportGood, ImportGoes
<1>4. CASE q.raws # {}
  <2>1. PICK s \in q.raws : raw' = raw \cup {s} /\ Import!Become(c, [q EXCEPT !.raws = @ \ {s}])
    BY <1>1, <1>4 DEF Import!PutRaw
  <2>2. s \in Import!Stone
    BY <2>1 DEF ImportJobRow
  <2> DEFINE r == [q EXCEPT !.raws = q.raws \ {s}]
  <2>3. /\ r \in ImportRequestType /\ r.stage = "raw" /\ r.bundle = q.bundle /\ r.raws = q.raws \ {s}
        /\ r.missing = q.missing /\ r.unindexed = q.unindexed
    BY <1>1 DEF ImportRequestType, ImportJobRow
  <2>4. Import!Become(c, r)
    BY <2>1
  <2> HIDE DEF r
  <2>5. ImportRequestOK(r)'
    BY <1>1, <1>2, <2>1, <2>3 DEF ImportRequestOK, ImportLooked
  <2>6. ImportGrows /\ raw' \subseteq Import!Stone
    BY <1>2, <2>1, <2>2 DEF ImportGrows, ImportIInv, ImportRowsOK
  <2>7. ImportRowsOK' /\ ImportStep
    BY <1>2, <2>6, ImportMoreOK DEF ImportIInv, ImportRowsOK
  <2>8. QED
    BY <2>3, <2>4, <2>5, <2>6, <2>7 DEF ImportGood, ImportGoes
<1>5. QED
  BY <1>3, <1>4

\* A path that has a head by then fails the batch.
LEMMA ImportInsertRowsOK == ASSUME ImportIInv, NEW c \in Client, Import!InsertRows(c) PROVE ImportGood(c)
<1>1. PICK q \in ImportJobRow : q = importJob[c] /\ q.stage = "rows" /\ ImportRequestOK(q)
  BY DEF ImportIInv, ImportRequestType, Import!InsertRows, Import!At
<1>2. UNCHANGED <<raw, index, chain, moved, complete, refused>>
  BY DEF Import!InsertRows
<1>3. CASE q.missing \cap rows # {} \/ (q.place /\ place # Import!NoHead)
  <2>1. Import!Reply(c) /\ UNCHANGED <<rows, place, wrote>>
    BY <1>1, <1>3 DEF Import!InsertRows
  <2>2. QED
    BY <1>2, <2>1, ImportNothingOK, ImportReplyGoes DEF ImportGood
<1>4. CASE ~(q.missing \cap rows # {} \/ (q.place /\ place # Import!NoHead))
  <2>1. PICK stage \in ImportLooked : stage = "index"
    BY DEF ImportLooked
  <2>2. /\ wrote' = IF q.place THEN wrote \cup {q.bundle} ELSE wrote
        /\ rows' = rows \cup q.missing
        /\ place' = IF q.place THEN Import!Imported(q.bundle) ELSE place
        /\ Import!Become(c, [q EXCEPT !.stage = stage])
    BY <1>1, <1>4, <2>1 DEF Import!InsertRows, Import!Goto
  <2> DEFINE r == [q EXCEPT !.stage = stage]
  <2>3. /\ r \in ImportRequestType /\ r.stage = stage /\ r.bundle = q.bundle /\ r.raws = q.raws
        /\ r.missing = q.missing /\ r.unindexed = q.unindexed
    BY ImportStageChange
  <2>4. Import!Become(c, r)
    BY <2>2
  <2> HIDE DEF r
  <2>5. ImportRequestOK(r)'
    BY <1>1, <1>2, <2>1, <2>2, <2>3 DEF ImportRequestOK, ImportLooked
  <2>6. ImportGrows /\ rows' \subseteq Import!Stone
    BY <1>2, <2>2 DEF ImportGrows, ImportIInv, ImportRowsOK, ImportJobRow
  <2>7. q.bundle \in Archive
    BY DEF ImportJobRow
  <2>8. ImportStep
    BY <1>2, <1>4, <2>2 DEF ImportStep
  <2>9. ImportHeadsOK' /\ wrote' \subseteq Archive
    BY <1>2, <2>2, <2>7 DEF ImportIInv, ImportRowsOK, ImportHeadsOK
  <2>10. ImportRowsOK'
    BY <1>2, <2>6, <2>9 DEF ImportIInv, ImportRowsOK, Import!HeadIsLast, Import!Replayable,
       ImportGrows
  <2>11. QED
    BY <2>3, <2>4, <2>5, <2>6, <2>8, <2>10 DEF ImportGood, ImportGoes
<1>5. QED
  BY <1>3, <1>4

LEMMA ImportIndexOK == ASSUME ImportIInv, NEW c \in Client, Import!Index(c) PROVE ImportGood(c)
<1>1. PICK q \in ImportJobRow : q = importJob[c] /\ q.stage = "index" /\ ImportRequestOK(q)
  BY DEF ImportIInv, ImportRequestType, Import!Index, Import!At
<1>2. UNCHANGED <<raw, rows, place, chain, moved, complete, wrote, refused>>
  BY DEF Import!Index
<1>3. CASE q.unindexed = {}
  <2>1. PICK stage \in ImportLooked : stage = "head"
    BY DEF ImportLooked
  <2> DEFINE r == [q EXCEPT !.stage = stage]
  <2>2. /\ r \in ImportRequestType /\ r.stage = stage /\ r.bundle = q.bundle /\ r.raws = q.raws
        /\ r.missing = q.missing /\ r.unindexed = q.unindexed
    BY ImportStageChange
  <2>3. Import!Become(c, r) /\ UNCHANGED index
    BY <1>1, <1>3, <2>1 DEF Import!Index, Import!Goto
  <2> HIDE DEF r
  <2>4. ImportRequestOK(r)'
    BY <1>1, <1>2, <1>3, <2>1, <2>2, <2>3 DEF ImportRequestOK, ImportLooked
  <2>5. QED
    BY <1>2, <2>2, <2>3, <2>4, ImportNothingOK DEF ImportGood, ImportGoes
<1>4. CASE q.unindexed # {}
  <2>1. PICK s \in q.unindexed :
          index' = index \cup {s} /\ Import!Become(c, [q EXCEPT !.unindexed = @ \ {s}])
    BY <1>1, <1>4 DEF Import!Index
  <2>2. s \in Import!Stone
    BY <2>1 DEF ImportJobRow
  <2> DEFINE r == [q EXCEPT !.unindexed = q.unindexed \ {s}]
  <2>3. /\ r \in ImportRequestType /\ r.stage = "index" /\ r.bundle = q.bundle /\ r.raws = q.raws
        /\ r.missing = q.missing /\ r.unindexed = q.unindexed \ {s}
    BY <1>1 DEF ImportRequestType, ImportJobRow
  <2>4. Import!Become(c, r)
    BY <2>1
  <2> HIDE DEF r
  <2>5. ImportRequestOK(r)'
    BY <1>1, <1>2, <2>1, <2>3 DEF ImportRequestOK, ImportLooked
  <2>6. ImportGrows /\ index' \subseteq Import!Stone
    BY <1>2, <2>1, <2>2 DEF ImportGrows, ImportIInv, ImportRowsOK
  <2>7. ImportRowsOK' /\ ImportStep
    BY <1>2, <2>6, ImportMoreOK DEF ImportIInv, ImportRowsOK
  <2>8. QED
    BY <2>3, <2>4, <2>5, <2>6, <2>7 DEF ImportGood, ImportGoes
<1>5. QED
  BY <1>3, <1>4

\* The head comes when everything is there, and only if there is none.
LEMMA ImportInsertHeadOK == ASSUME ImportIInv, NEW c \in Client, Import!InsertHead(c) PROVE ImportGood(c)
<1>1. PICK q \in ImportJobRow : q = importJob[c] /\ q.stage = "head" /\ ImportRequestOK(q)
  BY DEF ImportIInv, ImportRequestType, Import!InsertHead, Import!At
<1>2. UNCHANGED <<raw, rows, index, place, moved, refused>> /\ Import!Reply(c)
  BY DEF Import!InsertHead
<1>3. CASE q.head /\ chain = Import!NoHead
  <2>1. PICK b \in Archive : b = q.bundle
    BY DEF ImportJobRow
  <2>2. chain' = Import!Imported(b) /\ complete' = complete \cup {b} /\ wrote' = wrote \cup {b}
    BY <1>1, <1>3, <2>1 DEF Import!InsertHead
  <2>3. b \subseteq raw /\ b \subseteq rows /\ b \subseteq index
    BY <1>1, <2>1 DEF ImportRequestOK
  <2>4. ImportHeadsOK'
    BY <1>2, <2>2 DEF ImportIInv, ImportRowsOK, ImportHeadsOK
  <2>5. ImportRowsOK'
    BY <1>2, <2>2, <2>3, <2>4 DEF ImportIInv, ImportRowsOK, Import!HeadIsLast, Import!Replayable
  <2>6. ImportGrows /\ ImportStep
    BY <1>2, <1>3 DEF ImportGrows, ImportStep
  <2>7. QED
    BY <1>2, <2>5, <2>6, ImportReplyGoes DEF ImportGood
<1>4. CASE ~(q.head /\ chain = Import!NoHead)
  <2>1. UNCHANGED <<chain, complete, wrote>>
    BY <1>1, <1>4 DEF Import!InsertHead
  <2>2. QED
    BY <1>2, <2>1, ImportNothingOK, ImportReplyGoes DEF ImportGood
<1>5. QED
  BY <1>3, <1>4

LEMMA ImportMoveHeadOK == ASSUME ImportIInv, Import!MoveHead PROVE ImportIInv' /\ ImportStep
<1>1. /\ moved' = TRUE /\ UNCHANGED <<raw, rows, index, complete, wrote, refused, importJob>>
      /\ ImportStep
  BY DEF Import!MoveHead, ImportStep
<1>2. QED
  BY <1>1 DEF ImportIInv, ImportRowsOK, ImportHeadsOK, Import!HeadIsLast, Import!Replayable,
     ImportRequestOK

LEMMA ImportInitOK == Import!Init => ImportIInv
<1>1. Import!Idle \in ImportRequestType /\ ImportRequestOK(Import!Idle)
  BY DEF Import!Idle, ImportRequestType, ImportRequestOK, ImportLooked
<1>2. Import!Init => ImportRowsOK
  BY DEF Import!Init, ImportRowsOK, ImportHeadsOK, Import!HeadIsLast, Import!Replayable
<1>3. QED
  BY <1>1, <1>2 DEF Import!Init, ImportIInv

LEMMA ImportNextOK == ASSUME ImportIInv, [Import!Next]_(Import!vars) PROVE ImportIInv' /\ ImportStep
<1>1. CASE UNCHANGED Import!vars
  BY <1>1 DEF Import!vars, ImportIInv, ImportRowsOK, ImportHeadsOK, Import!HeadIsLast,
     Import!Replayable, ImportRequestOK, ImportStep
<1>2. ASSUME NEW c \in Client, Import!Die(c) PROVE ImportGood(c)
  BY <1>2, ImportNothingOK, ImportReplyGoes DEF Import!Die, ImportGood
<1>3. QED
  BY <1>1, <1>2, ImportStepOfClient, ImportMoveHeadOK, ImportBeginOK, ImportLookAtStonesOK,
     ImportLookAtPathsOK, ImportPutRawOK,
     ImportInsertRowsOK, ImportIndexOK, ImportInsertHeadOK, Zenon DEF Import!Next

\* For any number of snapshots and imports of them, wherever they die: the head an
\* import sets comes when everything is there, nothing an import left makes it
\* fail again, and no head that was set since is replaced.
THEOREM ImportsAreKept == Import!Spec => ImportsKept
<1>1. Import!Init => ImportIInv
  BY ImportInitOK
<1>2. ImportIInv /\ [Import!Next]_(Import!vars) => ImportIInv'
  BY ImportNextOK
<1>3. ImportIInv => Import!HeadIsLast /\ Import!Replayable
  BY DEF ImportIInv, ImportRowsOK
<1>4. ImportIInv /\ [Import!Next]_(Import!vars) =>
        [/\ chain # Import!NoHead => chain' = chain \/ chain'.by = "commit"
         /\ place # Import!NoHead => place' = place \/ place'.by = "commit"]_(Import!vars)
  BY ImportNextOK DEF ImportStep
<1>5. QED
  BY <1>1, <1>2, <1>3, <1>4, PTL DEF ImportsKept, Import!Spec, Import!ImportsKept,
     Import!HeadsAreKept
-----------------------------------------------------------------------------
(* Heads *)

StoneWritten == {"row", "all"}

StonePiece == [parts: StoneWritten, path: Heads!FilePath, chain: Heads!Chain, content: Content]

StoneHead == StoneId \cup {Heads!NoHead}

StoneSighting == Content \cup {Heads!Missing, "failed"}

StoneFound == [accepted: StoneHead, drift: BOOLEAN, seen: StoneSighting]

StoneMaking == {"refs", "path head", "chain head", "edges"}

StoneOrdered == [stage: {"stone"}, file: File, content: Content,
                 setPath: BOOLEAN, asHead: BOOLEAN, link: SUBSET StoneId]

StoneMade == [stage: StoneMaking, stone: StoneId, file: File,
              setPath: BOOLEAN, asHead: BOOLEAN, link: SUBSET StoneId]

StoneChainSetting == [stage: {"set head"}, stone: StoneId, chain: Heads!Chain]

StonePathSetting == [stage: {"set path head"}, stone: StoneId, file: File]

StoneLook == [stage: {"accepted"}, file: File, seen: StoneSighting]

StoneFinding == [stage: {"record"}, file: File, seen: StoneSighting, accepted: StoneHead]

StoneRequestType == [stage: {"idle"}] \cup StoneOrdered \cup StoneMade \cup StoneChainSetting
               \cup StonePathSetting \cup StoneLook \cup StoneFinding

\* A stone of this place.
StoneIs(s, f) == Heads!Exists(s) /\ Heads!Of(s) = f

\* What a check took for accepted was.
StoneAcceptedOK == \A f \in File : fresh[f] # Heads!Unchecked /\ fresh[f].accepted # Heads!NoHead =>
                              StoneIs(fresh[f].accepted, f)

StoneRowsOK == /\ stones \in [StoneId -> {Heads!NoStone} \cup StonePiece]
               /\ pathHead \in [File -> StoneHead]
               /\ chainHead \in [Heads!Chain -> StoneHead]
               /\ edges \subseteq StoneId \X StoneId
               /\ source \in [Heads!FilePath -> StoneSighting]
               /\ fresh \in [File -> {Heads!Unchecked} \cup StoneFound]
               /\ broken \subseteq StoneId
               /\ Heads!HeadsAreTheirs /\ Heads!EdgesJoinStones
               /\ StoneAcceptedOK /\ Heads!InSyncIsSame

\* A stone without its references is being made, or was cut short.
StoneWhole(s) == \/ stones[s].parts = "all"
                 \/ s \in broken
                 \/ \E c \in Client : Heads!At(c, "refs") /\ write[c].stone = s

StonePartsOK == \A s \in StoneId : Heads!Exists(s) => StoneWhole(s)

\* What a request has looked up is there, and where it was.
StoneRequestOK(r) ==
  /\ r.stage \in StoneMaking \cup {"set path head"} => StoneIs(r.stone, r.file)
  /\ r.stage = "set head" => Heads!Exists(r.stone) /\ stones[r.stone].chain = r.chain
  /\ r.stage = "record" /\ r.accepted # Heads!NoHead => StoneIs(r.accepted, r.file)

StoneIInv == /\ StoneRowsOK /\ StonePartsOK
             /\ write \in [Client -> StoneRequestType]
             /\ \A c \in Client : StoneRequestOK(write[c])

\* A stone that is there stays what and where it is.
StoneStays == \A s \in StoneId : Heads!Exists(s) => /\ stones'[s] # Heads!NoStone
                                                    /\ stones'[s].path = stones[s].path
                                                    /\ stones'[s].chain = stones[s].chain
                                                    /\ stones'[s].content = stones[s].content

StoneGoes(c) == \E r \in StoneRequestType : Heads!Become(c, r) /\ StoneRequestOK(r)'

StoneGood(c) == StoneRowsOK' /\ StonePartsOK' /\ StoneStays /\ StoneGoes(c)

\* What stays where it is keeps heads, edges and freshness as they should be.
LEMMA StoneRowsStay ==
  ASSUME StoneRowsOK, StoneStays, stones' \in [StoneId -> {Heads!NoStone} \cup StonePiece],
         UNCHANGED <<pathHead, chainHead, edges, source, fresh, broken>>
  PROVE  StoneRowsOK'
<1>1. Heads!HeadsAreTheirs'
  BY DEF StoneRowsOK, StoneStays, Heads!HeadsAreTheirs, Heads!Exists, Heads!Of, StoneHead
<1>2. Heads!EdgesJoinStones'
  BY DEF StoneRowsOK, StoneStays, Heads!EdgesJoinStones, Heads!Exists
<1>3. StoneAcceptedOK' /\ Heads!InSyncIsSame'
  <2>1. ASSUME NEW f \in File, fresh[f] # Heads!Unchecked, fresh[f].accepted # Heads!NoHead
        PROVE  /\ StoneIs(fresh[f].accepted, f)'
               /\ stones'[fresh[f].accepted].content = stones[fresh[f].accepted].content
    <3>1. fresh[f].accepted \in StoneId /\ StoneIs(fresh[f].accepted, f)
      BY <2>1 DEF StoneRowsOK, StoneAcceptedOK, StoneFound, StoneHead
    <3>2. QED
      BY <3>1 DEF StoneIs, Heads!Exists, Heads!Of, StoneStays
  <2>2. QED
    BY <2>1 DEF StoneRowsOK, StoneAcceptedOK, Heads!InSyncIsSame, StoneIs
<1>4. QED
  BY <1>1, <1>2, <1>3 DEF StoneRowsOK

LEMMA StoneRequestStable ==
  ASSUME StoneStays, NEW q \in StoneRequestType, StoneRequestOK(q)
  PROVE  StoneRequestOK(q)'
<1>1. q.stage \in StoneMaking \cup {"set path head"} => q.stone \in StoneId
  BY DEF StoneRequestType, StoneOrdered, StoneMade, StoneChainSetting, StonePathSetting,
     StoneLook, StoneFinding, StoneMaking
<1>2. q.stage = "set head" => q.stone \in StoneId
  BY DEF StoneRequestType, StoneOrdered, StoneMade, StoneChainSetting, StonePathSetting,
     StoneLook, StoneFinding, StoneMaking
<1>3. q.stage = "record" => q.accepted \in StoneId \cup {Heads!NoHead}
  BY DEF StoneRequestType, StoneOrdered, StoneMade, StoneChainSetting, StonePathSetting,
     StoneLook, StoneFinding, StoneMaking, StoneHead
<1>4. \A s \in StoneId, f \in File : StoneIs(s, f) => StoneIs(s, f)'
  BY DEF StoneStays, StoneIs, Heads!Exists, Heads!Of
<1>5. q.stage \in StoneMaking \cup {"set path head", "record"} => q.file \in File
  BY DEF StoneRequestType, StoneOrdered, StoneMade, StoneChainSetting, StonePathSetting,
     StoneLook, StoneFinding, StoneMaking
<1>6. q.stage \in StoneMaking \cup {"set path head"} => StoneIs(q.stone, q.file)'
  BY <1>1, <1>4, <1>5 DEF StoneRequestOK
<1>7. q.stage = "set head" => Heads!Exists(q.stone)' /\ (stones[q.stone].chain = q.chain)'
  BY <1>2 DEF StoneRequestOK, StoneStays, Heads!Exists
<1>8. q.stage = "record" /\ q.accepted # Heads!NoHead => StoneIs(q.accepted, q.file)'
  BY <1>3, <1>4, <1>5 DEF StoneRequestOK
<1>9. QED
  BY <1>6, <1>7, <1>8 DEF StoneRequestOK

LEMMA StoneStepOfClient ==
  ASSUME StoneIInv, NEW c \in Client, StoneGood(c)
  PROVE  StoneIInv'
<1>1. PICK r \in StoneRequestType : Heads!Become(c, r) /\ StoneRequestOK(r)'
  BY DEF StoneGood, StoneGoes
<1>2. write' \in [Client -> StoneRequestType] /\ write'[c] = r /\ \A d \in Client \ {c} : write'[d] = write[d]
  BY <1>1 DEF StoneIInv, Heads!Become
<1>3. ASSUME NEW d \in Client PROVE StoneRequestOK(write[d])'
  <2>1. CASE d = c
    BY <1>1, <1>2, <2>1 DEF StoneRequestOK
  <2>2. CASE d # c
    <3>1. PICK q \in StoneRequestType : q = write[d] /\ StoneRequestOK(q)
      BY DEF StoneIInv
    <3>2. StoneRequestOK(q)'
      BY <3>1, StoneRequestStable DEF StoneGood
    <3>3. write'[d] = q
      BY <1>2, <2>2, <3>1
    <3>4. QED
      BY <3>2, <3>3 DEF StoneRequestOK
  <2>3. QED
    BY <2>1, <2>2
<1>4. QED
  BY <1>2, <1>3 DEF StoneIInv, StoneGood

LEMMA StoneIdleOK == Heads!Idle \in StoneRequestType /\ Heads!Idle.stage = "idle"
BY DEF Heads!Idle, StoneRequestType

LEMMA StoneReplyGoes == ASSUME NEW c \in Client, Heads!Reply(c) PROVE StoneGoes(c)
<1>1. StoneRequestOK(Heads!Idle)'
  BY StoneIdleOK DEF StoneRequestOK, StoneMaking
<1>2. QED
  BY <1>1, StoneIdleOK DEF Heads!Reply, StoneGoes

\* A request that does not write references leaves nothing without them.
LEMMA StonePartsStay ==
  ASSUME StoneIInv, NEW c \in Client, ~Heads!At(c, "refs"), UNCHANGED <<stones, broken>>, StoneGoes(c)
  PROVE  StonePartsOK' /\ StoneStays
<1>1. PICK r \in StoneRequestType : Heads!Become(c, r)
  BY DEF StoneGoes
<1>2. \A d \in Client \ {c} : write'[d] = write[d]
  BY <1>1 DEF StoneIInv, Heads!Become
<1>3. ASSUME NEW s \in StoneId, Heads!Exists(s)' PROVE StoneWhole(s)'
  <2>1. StoneWhole(s)
    BY <1>3 DEF StoneIInv, StonePartsOK, Heads!Exists
  <2>2. CASE \E d \in Client : Heads!At(d, "refs") /\ write[d].stone = s
    BY <1>2, <2>2 DEF Heads!At, StoneWhole
  <2>3. QED
    BY <2>1, <2>2 DEF StoneWhole
<1>4. QED
  BY <1>3 DEF StonePartsOK, StoneStays, Heads!Exists

\* A request that only looks.
LEMMA StoneLooksOK ==
  ASSUME StoneIInv, NEW c \in Client, ~Heads!At(c, "refs"), StoneGoes(c),
         UNCHANGED <<stones, pathHead, chainHead, edges, source, fresh, broken>>
  PROVE  StoneGood(c)
<1>1. StoneRowsOK'
  BY DEF StoneIInv, StoneRowsOK, Heads!HeadsAreTheirs, Heads!EdgesJoinStones, StoneAcceptedOK,
     StoneIs, Heads!InSyncIsSame, Heads!Exists, Heads!Of
<1>2. QED
  BY <1>1, StonePartsStay DEF StoneGood

LEMMA StoneBeginCommitOK == ASSUME StoneIInv, NEW c \in Client, Heads!BeginCommit(c) PROVE StoneGood(c)
<1>1. PICK f \in File, x \in Content, dedupe, setPath, asHead \in BOOLEAN, link \in SUBSET StoneId :
        /\ Heads!Cardinality(link) <= 1
        /\ IF dedupe /\ Heads!Same(f, x) # {}
           THEN \E s \in Heads!Same(f, x) :
                  Heads!Become(c, [stage |-> "path head", stone |-> s, file |-> f,
                                   setPath |-> setPath, asHead |-> asHead, link |-> link])
           ELSE Heads!Become(c, [stage |-> "stone", file |-> f, content |-> x,
                                 setPath |-> setPath, asHead |-> asHead, link |-> link])
  BY Zenon DEF Heads!BeginCommit
<1>2. ~Heads!At(c, "refs") /\ UNCHANGED <<stones, pathHead, chainHead, edges, source, fresh, broken>>
  BY DEF Heads!BeginCommit, Heads!At
<1>3. CASE dedupe /\ Heads!Same(f, x) # {}
  <2>1. PICK s \in Heads!Same(f, x) :
          Heads!Become(c, [stage |-> "path head", stone |-> s, file |-> f,
                           setPath |-> setPath, asHead |-> asHead, link |-> link])
    BY <1>1, <1>3
  <2> DEFINE r == [stage |-> "path head", stone |-> s, file |-> f,
                   setPath |-> setPath, asHead |-> asHead, link |-> link]
  <2>2. s \in StoneId /\ StoneIs(s, f)
    BY DEF Heads!Same, StoneIs
  <2>3. r \in StoneRequestType /\ r.stage = "path head" /\ r.stone = s /\ r.file = f
    BY <2>2 DEF StoneRequestType, StoneMade, StoneMaking
  <2>4. Heads!Become(c, r)
    BY <2>1
  <2> HIDE DEF r
  <2>5. StoneRequestOK(r)'
    BY <1>2, <2>2, <2>3 DEF StoneRequestOK, StoneIs, Heads!Exists, Heads!Of
  <2>6. QED
    BY <1>2, <2>3, <2>4, <2>5, StoneLooksOK DEF StoneGoes
<1>4. CASE ~(dedupe /\ Heads!Same(f, x) # {})
  <2> DEFINE r == [stage |-> "stone", file |-> f, content |-> x,
                   setPath |-> setPath, asHead |-> asHead, link |-> link]
  <2>1. Heads!Become(c, r)
    BY <1>1, <1>4
  <2>2. r \in StoneRequestType /\ r.stage = "stone"
    BY DEF StoneRequestType, StoneOrdered
  <2> HIDE DEF r
  <2>3. StoneRequestOK(r)'
    BY <2>2 DEF StoneRequestOK, StoneMaking
  <2>4. QED
    BY <1>2, <2>1, <2>2, <2>3, StoneLooksOK DEF StoneGoes
<1>5. QED
  BY <1>3, <1>4

LEMMA StoneInsertStoneOK ==
  ASSUME FilesArePlaces, StoneIInv, NEW c \in Client, Heads!InsertStone(c) PROVE StoneGood(c)
<1>1. PICK q \in StoneOrdered : q = write[c]
  BY DEF StoneIInv, StoneRequestType, StoneMade, StoneMaking, StoneChainSetting, StonePathSetting,
     StoneLook, StoneFinding, Heads!InsertStone, Heads!At
<1>2. PICK f \in File : f = q.file /\ f[1] \in Heads!FilePath /\ f[2] \in Heads!Chain /\ <<f[1], f[2]>> = f
  BY DEF StoneOrdered, FilesArePlaces
<1>3. PICK s \in StoneId :
        /\ ~Heads!Exists(s)
        /\ stones' = [stones EXCEPT ![s] = [parts |-> "row", path |-> f[1], chain |-> f[2],
                                            content |-> q.content]]
        /\ Heads!Become(c, [stage |-> "refs", stone |-> s, file |-> f, setPath |-> q.setPath,
                            asHead |-> q.asHead, link |-> q.link])
  BY <1>1, <1>2 DEF Heads!InsertStone
<1>4. UNCHANGED <<pathHead, chainHead, edges, source, fresh, broken>>
  BY DEF Heads!InsertStone
<1> DEFINE row == [parts |-> "row", path |-> f[1], chain |-> f[2], content |-> q.content]
<1> DEFINE r == [stage |-> "refs", stone |-> s, file |-> f, setPath |-> q.setPath,
                 asHead |-> q.asHead, link |-> q.link]
<1>5. row \in StonePiece /\ row # Heads!NoStone /\ row.path = f[1] /\ row.chain = f[2] /\ row.parts = "row"
  <2>1. row \in StonePiece /\ row.path = f[1] /\ row.chain = f[2] /\ row.parts = "row"
    BY <1>2 DEF StonePiece, StoneWritten, StoneOrdered
  <2>2. QED
    BY <2>1 DEF Heads!NoStone
<1>6. r \in StoneRequestType /\ r.stage = "refs" /\ r.stone = s /\ r.file = f
  BY DEF StoneRequestType, StoneMade, StoneMaking, StoneOrdered
<1>7. Heads!Become(c, r) /\ stones' = [stones EXCEPT ![s] = row]
  BY <1>3
<1> HIDE DEF r, row
<1>8. /\ stones' \in [StoneId -> {Heads!NoStone} \cup StonePiece] /\ stones'[s] = row
      /\ \A u \in StoneId \ {s} : stones'[u] = stones[u]
  BY <1>5, <1>7 DEF StoneIInv, StoneRowsOK
<1>9. StoneStays
  BY <1>3, <1>8 DEF StoneStays, Heads!Exists
<1>10. StoneIs(s, f)'
  BY <1>2, <1>5, <1>8 DEF StoneIs, Heads!Exists, Heads!Of
<1>11. StoneRequestOK(r)'
  BY <1>6, <1>10 DEF StoneRequestOK, StoneMaking
<1>12. /\ write'[c] = r
       /\ \A d \in Client \ {c} : write'[d] = write[d]
  BY <1>7 DEF StoneIInv, Heads!Become
<1>13. StonePartsOK'
  <2>1. ASSUME NEW u \in StoneId, Heads!Exists(u)' PROVE StoneWhole(u)'
    <3>1. CASE u = s
      BY <1>6, <1>12, <3>1 DEF StoneWhole, Heads!At
    <3>2. CASE u # s
      <4>1. Heads!Exists(u) /\ stones'[u] = stones[u]
        BY <1>8, <2>1, <3>2 DEF Heads!Exists
      <4>2. StoneWhole(u)
        BY <4>1 DEF StoneIInv, StonePartsOK
      <4>3. CASE \E d \in Client : Heads!At(d, "refs") /\ write[d].stone = u
        <5>1. PICK d \in Client : Heads!At(d, "refs") /\ write[d].stone = u
          BY <4>3
        <5>2. d # c
          BY <5>1 DEF Heads!InsertStone, Heads!At
        <5>3. QED
          BY <1>12, <5>1, <5>2 DEF StoneWhole, Heads!At
      <4>4. QED
        BY <1>4, <4>1, <4>2, <4>3 DEF StoneWhole
    <3>3. QED
      BY <3>1, <3>2
  <2>2. QED
    BY <2>1 DEF StonePartsOK
<1>14. StoneRowsOK'
  BY <1>4, <1>8, <1>9, StoneRowsStay DEF StoneIInv
<1>15. QED
  BY <1>6, <1>7, <1>9, <1>11, <1>13, <1>14 DEF StoneGood, StoneGoes

\* Another stage of the same commit.
LEMMA StoneStageChange ==
  ASSUME NEW q \in StoneMade, NEW stage \in StoneMaking
  PROVE  LET r == [q EXCEPT !.stage = stage] IN
         r \in StoneMade /\ r.stage = stage /\ r.stone = q.stone /\ r.file = q.file
BY DEF StoneMade, StoneMaking

\* Once its references are written, a stone needs nobody to write them.
LEMMA StoneInsertRefsOK == ASSUME StoneIInv, NEW c \in Client, Heads!InsertRefs(c) PROVE StoneGood(c)
<1>1. PICK q \in StoneMade : q = write[c] /\ q.stage = "refs" /\ StoneRequestOK(q)
  BY DEF StoneIInv, StoneRequestType, StoneOrdered, StoneChainSetting, StonePathSetting,
     StoneLook, StoneFinding, Heads!InsertRefs, Heads!At
<1>2. PICK s \in StoneId : s = q.stone /\ Heads!Exists(s)
  BY <1>1 DEF StoneMade, StoneRequestOK, StoneMaking, StoneIs
<1>3. PICK row \in StonePiece : row = stones[s]
  BY <1>2 DEF StoneIInv, StoneRowsOK, Heads!Exists
<1> DEFINE whole == [row EXCEPT !.parts = "all"]
<1>4. stones' = [stones EXCEPT ![s] = whole]
  BY <1>1, <1>2, <1>3 DEF Heads!InsertRefs
<1>5. /\ whole \in StonePiece /\ whole.parts = "all" /\ whole.path = row.path
      /\ whole.chain = row.chain /\ whole.content = row.content
  BY DEF StonePiece, StoneWritten
<1> HIDE DEF whole
<1>6. whole # Heads!NoStone
  BY <1>5 DEF Heads!NoStone
<1>7. /\ stones' \in [StoneId -> {Heads!NoStone} \cup StonePiece] /\ stones'[s] = whole
      /\ \A u \in StoneId \ {s} : stones'[u] = stones[u]
  BY <1>4, <1>5 DEF StoneIInv, StoneRowsOK
<1>8. StoneStays
  <2>1. ASSUME NEW u \in StoneId, Heads!Exists(u)
        PROVE  /\ stones'[u] # Heads!NoStone /\ stones'[u].path = stones[u].path
               /\ stones'[u].chain = stones[u].chain /\ stones'[u].content = stones[u].content
    <3>1. CASE u = s
      BY <1>3, <1>5, <1>6, <1>7, <3>1
    <3>2. CASE u # s
      BY <1>7, <2>1, <3>2 DEF Heads!Exists
    <3>3. QED
      BY <3>1, <3>2
  <2>2. QED
    BY <2>1 DEF StoneStays
<1>9. PICK stage \in StoneMaking : stage = "path head"
  BY DEF StoneMaking
<1> DEFINE r == [q EXCEPT !.stage = stage]
<1>10. r \in StoneMade /\ r.stage = stage /\ r.stone = q.stone /\ r.file = q.file
  BY StoneStageChange
<1>11. Heads!Become(c, r)
  BY <1>1, <1>9 DEF Heads!InsertRefs
<1> HIDE DEF r
<1>12. StoneIs(q.stone, q.file)'
  <2>1. StoneIs(s, q.file)
    BY <1>1, <1>2 DEF StoneRequestOK, StoneMaking
  <2>2. QED
    BY <1>2, <1>8, <2>1 DEF StoneStays, StoneIs, Heads!Exists, Heads!Of
<1>13. StoneRequestOK(r)'
  BY <1>9, <1>10, <1>12 DEF StoneRequestOK, StoneMaking
<1>14. UNCHANGED <<pathHead, chainHead, edges, source, fresh, broken>>
  BY DEF Heads!InsertRefs
<1>15. StoneRowsOK'
  BY <1>7, <1>8, <1>14, StoneRowsStay DEF StoneIInv
<1>16. StonePartsOK'
  <2>1. ASSUME NEW u \in StoneId, Heads!Exists(u)' PROVE StoneWhole(u)'
    <3>1. CASE u = s
      BY <1>5, <1>7, <3>1 DEF StoneWhole
    <3>2. CASE u # s
      <4>1. Heads!Exists(u) /\ stones'[u] = stones[u]
        BY <1>7, <2>1, <3>2 DEF Heads!Exists
      <4>2. StoneWhole(u)
        BY <4>1 DEF StoneIInv, StonePartsOK
      <4>3. CASE \E d \in Client : Heads!At(d, "refs") /\ write[d].stone = u
        <5>1. PICK d \in Client : Heads!At(d, "refs") /\ write[d].stone = u
          BY <4>3
        <5>2. d # c
          BY <1>1, <1>2, <3>2, <5>1
        <5>3. write'[d] = write[d]
          BY <1>11, <5>2 DEF StoneIInv, Heads!Become
        <5>4. QED
          BY <5>1, <5>3 DEF StoneWhole, Heads!At
      <4>4. QED
        BY <1>14, <4>1, <4>2, <4>3 DEF StoneWhole
    <3>3. QED
      BY <3>1, <3>2
  <2>2. QED
    BY <2>1 DEF StonePartsOK
<1>17. QED
  BY <1>8, <1>10, <1>11, <1>13, <1>15, <1>16 DEF StoneGood, StoneGoes, StoneRequestType

\* A path head that is set, or stays, is a stone of its place.
LEMMA StonePathHeadOK ==
  ASSUME StoneIInv, NEW c \in Client, ~Heads!At(c, "refs"), StoneGoes(c),
         NEW s \in StoneId, NEW f \in File, StoneIs(s, f),
         pathHead' \in {pathHead, [pathHead EXCEPT ![f] = s]},
         UNCHANGED <<stones, chainHead, edges, source, fresh, broken>>
  PROVE  StoneGood(c)
<1>1. pathHead' \in [File -> StoneHead]
  BY DEF StoneIInv, StoneRowsOK, StoneHead
<1>2. Heads!HeadsAreTheirs'
  BY DEF StoneIInv, StoneRowsOK, Heads!HeadsAreTheirs, StoneIs, Heads!Exists, Heads!Of
<1>3. StoneRowsOK'
  BY <1>1, <1>2 DEF StoneIInv, StoneRowsOK, Heads!EdgesJoinStones, StoneAcceptedOK, StoneIs,
     Heads!InSyncIsSame, Heads!Exists, Heads!Of
<1>4. QED
  BY <1>3, StonePartsStay DEF StoneGood

LEMMA StoneChainHeadOK ==
  ASSUME StoneIInv, NEW c \in Client, ~Heads!At(c, "refs"), StoneGoes(c),
         NEW s \in StoneId, NEW h \in Heads!Chain, Heads!Exists(s), stones[s].chain = h,
         chainHead' \in {chainHead, [chainHead EXCEPT ![h] = s]},
         UNCHANGED <<stones, pathHead, edges, source, fresh, broken>>
  PROVE  StoneGood(c)
<1>1. chainHead' \in [Heads!Chain -> StoneHead]
  BY DEF StoneIInv, StoneRowsOK, StoneHead
<1>2. Heads!HeadsAreTheirs'
  BY DEF StoneIInv, StoneRowsOK, Heads!HeadsAreTheirs, Heads!Exists, Heads!Of
<1>3. StoneRowsOK'
  BY <1>1, <1>2 DEF StoneIInv, StoneRowsOK, Heads!EdgesJoinStones, StoneAcceptedOK, StoneIs,
     Heads!InSyncIsSame, Heads!Exists, Heads!Of
<1>4. QED
  BY <1>3, StonePartsStay DEF StoneGood

LEMMA StoneSetPathOfCommitOK == ASSUME StoneIInv, NEW c \in Client, Heads!SetPathOfCommit(c) PROVE StoneGood(c)
<1>1. PICK q \in StoneMade : q = write[c] /\ q.stage = "path head" /\ StoneRequestOK(q)
  BY DEF StoneIInv, StoneRequestType, StoneOrdered, StoneChainSetting, StonePathSetting,
     StoneLook, StoneFinding, Heads!SetPathOfCommit, Heads!At
<1>2. PICK s \in StoneId, f \in File : s = q.stone /\ f = q.file /\ StoneIs(s, f)
  BY <1>1 DEF StoneMade, StoneRequestOK, StoneMaking
<1>3. PICK stage \in StoneMaking : stage = "chain head"
  BY DEF StoneMaking
<1> DEFINE r == [q EXCEPT !.stage = stage]
<1>4. r \in StoneMade /\ r.stage = stage /\ r.stone = q.stone /\ r.file = q.file
  BY StoneStageChange
<1>5. Heads!Become(c, r)
  BY <1>1, <1>3 DEF Heads!SetPathOfCommit
<1> HIDE DEF r
<1>6. /\ UNCHANGED <<stones, chainHead, edges, source, fresh, broken>> /\ ~Heads!At(c, "refs")
      /\ pathHead' \in {pathHead, [pathHead EXCEPT ![f] = s]}
  BY <1>1, <1>2 DEF Heads!SetPathOfCommit, Heads!At
<1>7. StoneIs(q.stone, q.file)'
  BY <1>2, <1>6 DEF StoneIs, Heads!Exists, Heads!Of
<1>8. StoneRequestOK(r)'
  BY <1>3, <1>4, <1>7 DEF StoneRequestOK, StoneMaking
<1>9. QED
  BY <1>2, <1>4, <1>5, <1>6, <1>8, StonePathHeadOK DEF StoneGoes, StoneRequestType

LEMMA StoneSetChainOfCommitOK ==
  ASSUME FilesArePlaces, StoneIInv, NEW c \in Client, Heads!SetChainOfCommit(c) PROVE StoneGood(c)
<1>1. PICK q \in StoneMade : q = write[c] /\ q.stage = "chain head" /\ StoneRequestOK(q)
  BY DEF StoneIInv, StoneRequestType, StoneOrdered, StoneChainSetting, StonePathSetting,
     StoneLook, StoneFinding, Heads!SetChainOfCommit, Heads!At
<1>2. PICK s \in StoneId, f \in File : s = q.stone /\ f = q.file /\ StoneIs(s, f)
  BY <1>1 DEF StoneMade, StoneRequestOK, StoneMaking
<1>3. PICK h \in Heads!Chain : h = f[2] /\ stones[s].chain = h
  BY <1>2 DEF StoneIs, Heads!Of, FilesArePlaces
<1>4. PICK stage \in StoneMaking : stage = "edges"
  BY DEF StoneMaking
<1> DEFINE r == [q EXCEPT !.stage = stage]
<1>5. r \in StoneMade /\ r.stage = stage /\ r.stone = q.stone /\ r.file = q.file
  BY StoneStageChange
<1>6. Heads!Become(c, r)
  BY <1>1, <1>4 DEF Heads!SetChainOfCommit
<1> HIDE DEF r
<1>7. /\ UNCHANGED <<stones, pathHead, edges, source, fresh, broken>> /\ ~Heads!At(c, "refs")
      /\ chainHead' \in {chainHead, [chainHead EXCEPT ![h] = s]}
  BY <1>1, <1>2, <1>3 DEF Heads!SetChainOfCommit, Heads!At
<1>8. StoneIs(q.stone, q.file)'
  BY <1>2, <1>7 DEF StoneIs, Heads!Exists, Heads!Of
<1>9. StoneRequestOK(r)'
  BY <1>4, <1>5, <1>8 DEF StoneRequestOK, StoneMaking
<1>10. Heads!Exists(s) /\ StoneGoes(c)
  BY <1>2, <1>5, <1>6, <1>9 DEF StoneIs, StoneGoes, StoneRequestType
<1>11. QED
  BY <1>3, <1>7, <1>10, StoneChainHeadOK

LEMMA StoneEdgesOK ==
  ASSUME StoneIInv, edges' \subseteq StoneId \X StoneId,
         \A e \in edges' : e \in edges \/ (Heads!Exists(e[1]) /\ Heads!Exists(e[2])),
         UNCHANGED <<stones, pathHead, chainHead, source, fresh, broken>>
  PROVE  StoneRowsOK'
<1>1. Heads!EdgesJoinStones'
  BY DEF StoneIInv, StoneRowsOK, Heads!EdgesJoinStones, Heads!Exists
<1>2. QED
  BY <1>1 DEF StoneIInv, StoneRowsOK, Heads!HeadsAreTheirs, StoneAcceptedOK, StoneIs,
     Heads!InSyncIsSame, Heads!Exists, Heads!Of

LEMMA StoneLinkOK == ASSUME StoneIInv, NEW c \in Client, Heads!Link(c) PROVE StoneGood(c)
<1>1. PICK q \in StoneMade : q = write[c] /\ q.stage = "edges" /\ StoneRequestOK(q)
  BY DEF StoneIInv, StoneRequestType, StoneOrdered, StoneChainSetting, StonePathSetting,
     StoneLook, StoneFinding, Heads!Link, Heads!At
<1>2. PICK s \in StoneId : s = q.stone /\ Heads!Exists(s)
  BY <1>1 DEF StoneMade, StoneRequestOK, StoneMaking, StoneIs
<1>3. PICK targets \in SUBSET StoneId : targets = {u \in q.link \ {s} : Heads!Exists(u)}
  BY DEF StoneMade
<1>4. edges' = edges \cup {<<s, t>> : t \in targets}
  BY <1>1, <1>2, <1>3 DEF Heads!Link
<1>5. edges' \subseteq StoneId \X StoneId
  BY <1>4 DEF StoneIInv, StoneRowsOK
<1>6. \A e \in edges' : e \in edges \/ (Heads!Exists(e[1]) /\ Heads!Exists(e[2]))
  BY <1>2, <1>3, <1>4
<1>7. UNCHANGED <<stones, pathHead, chainHead, source, fresh, broken>> /\ Heads!Reply(c) /\ ~Heads!At(c, "refs")
  BY DEF Heads!Link, Heads!At
<1>8. StoneRowsOK'
  BY <1>5, <1>6, <1>7, StoneEdgesOK
<1>9. QED
  BY <1>7, <1>8, StonePartsStay, StoneReplyGoes DEF StoneGood

\* Nothing of a stone, and no request, changes.
LEMMA StoneRestOK ==
  ASSUME StoneIInv, StoneRowsOK', UNCHANGED <<stones, broken, write>>
  PROVE  StoneIInv'
<1>1. StoneStays
  BY DEF StoneStays, Heads!Exists
<1>2. \A c \in Client : StoneRequestOK(write[c])'
  <2>1. ASSUME NEW c \in Client PROVE StoneRequestOK(write[c])'
    <3>1. PICK q \in StoneRequestType : q = write[c] /\ StoneRequestOK(q)
      BY DEF StoneIInv
    <3>2. StoneRequestOK(q)'
      BY <1>1, <3>1, StoneRequestStable
    <3>3. QED
      BY <3>1, <3>2 DEF StoneRequestOK
  <2>2. QED
    BY <2>1
<1>3. StonePartsOK'
  BY DEF StoneIInv, StonePartsOK, StoneWhole, Heads!Exists, Heads!At
<1>4. QED
  BY <1>2, <1>3 DEF StoneIInv

LEMMA StoneLinkStonesOK == ASSUME StoneIInv, Heads!LinkStones PROVE StoneIInv'
<1>1. PICK s, t \in StoneId : Heads!Exists(s) /\ Heads!Exists(t) /\ edges' = edges \cup {<<s, t>>}
  BY DEF Heads!LinkStones
<1>2. edges' \subseteq StoneId \X StoneId /\ \A e \in edges' : e \in edges \/ (Heads!Exists(e[1]) /\ Heads!Exists(e[2]))
  BY <1>1 DEF StoneIInv, StoneRowsOK
<1>3. UNCHANGED <<stones, pathHead, chainHead, source, fresh, broken, write>>
  BY DEF Heads!LinkStones
<1>4. QED
  BY <1>2, <1>3, StoneEdgesOK, StoneRestOK

LEMMA StonePushOK == ASSUME StoneIInv, Heads!Push PROVE StoneIInv'
<1>1. PICK p \in Heads!FilePath, x \in Content \cup {Heads!Missing} : source' = [source EXCEPT ![p] = x]
  BY DEF Heads!Push
<1>2. UNCHANGED <<stones, pathHead, chainHead, edges, fresh, broken, write>>
  BY DEF Heads!Push
<1>3. source' \in [Heads!FilePath -> StoneSighting]
  BY <1>1 DEF StoneIInv, StoneRowsOK, StoneSighting
<1>4. StoneRowsOK'
  BY <1>2, <1>3 DEF StoneIInv, StoneRowsOK, Heads!HeadsAreTheirs, Heads!EdgesJoinStones,
     StoneAcceptedOK, StoneIs, Heads!InSyncIsSame, Heads!Exists, Heads!Of
<1>5. QED
  BY <1>2, <1>4, StoneRestOK

LEMMA StoneBeginSetHeadOK == ASSUME StoneIInv, NEW c \in Client, Heads!BeginSetHead(c) PROVE StoneGood(c)
<1>1. PICK s \in StoneId, h \in Heads!Chain :
        /\ Heads!Exists(s) /\ stones[s].chain = h
        /\ Heads!Become(c, [stage |-> "set head", stone |-> s, chain |-> h])
  BY DEF Heads!BeginSetHead
<1>2. UNCHANGED <<stones, pathHead, chainHead, edges, source, fresh, broken>> /\ ~Heads!At(c, "refs")
  BY DEF Heads!BeginSetHead, Heads!At
<1> DEFINE r == [stage |-> "set head", stone |-> s, chain |-> h]
<1>3. r \in StoneRequestType /\ r.stage = "set head" /\ r.stone = s /\ r.chain = h
  BY DEF StoneRequestType, StoneChainSetting
<1>4. Heads!Become(c, r)
  BY <1>1
<1> HIDE DEF r
<1>5. Heads!Exists(s)' /\ (stones[s].chain = h)'
  BY <1>1, <1>2 DEF Heads!Exists
<1>6. StoneRequestOK(r)'
  BY <1>3, <1>5 DEF StoneRequestOK, StoneMaking
<1>7. QED
  BY <1>2, <1>3, <1>4, <1>6, StoneLooksOK DEF StoneGoes

LEMMA StoneSetHeadOK == ASSUME StoneIInv, NEW c \in Client, Heads!SetHead(c) PROVE StoneGood(c)
<1>1. PICK q \in StoneChainSetting : q = write[c] /\ q.stage = "set head" /\ StoneRequestOK(q)
  BY DEF StoneIInv, StoneRequestType, StoneOrdered, StoneMade, StoneMaking, StonePathSetting,
     StoneLook, StoneFinding, Heads!SetHead, Heads!At
<1>2. PICK s \in StoneId, h \in Heads!Chain : s = q.stone /\ h = q.chain /\ Heads!Exists(s) /\ stones[s].chain = h
  BY <1>1 DEF StoneChainSetting, StoneRequestOK
<1>3. /\ UNCHANGED <<stones, pathHead, edges, source, fresh, broken>> /\ ~Heads!At(c, "refs") /\ Heads!Reply(c)
      /\ chainHead' \in {chainHead, [chainHead EXCEPT ![h] = s]}
  BY <1>1, <1>2 DEF Heads!SetHead, Heads!At
<1>4. QED
  BY <1>2, <1>3, StoneChainHeadOK, StoneReplyGoes

LEMMA StoneBeginSetPathHeadOK == ASSUME StoneIInv, NEW c \in Client, Heads!BeginSetPathHead(c) PROVE StoneGood(c)
<1>1. PICK s \in StoneId, f \in File :
        StoneIs(s, f) /\ Heads!Become(c, [stage |-> "set path head", stone |-> s, file |-> f])
  BY DEF Heads!BeginSetPathHead, StoneIs
<1>2. UNCHANGED <<stones, pathHead, chainHead, edges, source, fresh, broken>> /\ ~Heads!At(c, "refs")
  BY DEF Heads!BeginSetPathHead, Heads!At
<1> DEFINE r == [stage |-> "set path head", stone |-> s, file |-> f]
<1>3. r \in StoneRequestType /\ r.stage = "set path head" /\ r.stone = s /\ r.file = f
  BY DEF StoneRequestType, StonePathSetting
<1>4. Heads!Become(c, r)
  BY <1>1
<1> HIDE DEF r
<1>5. StoneIs(s, f)'
  BY <1>1, <1>2 DEF StoneIs, Heads!Exists, Heads!Of
<1>6. StoneRequestOK(r)'
  BY <1>3, <1>5 DEF StoneRequestOK
<1>7. QED
  BY <1>2, <1>3, <1>4, <1>6, StoneLooksOK DEF StoneGoes

LEMMA StoneSetPathHeadOK == ASSUME StoneIInv, NEW c \in Client, Heads!SetPathHead(c) PROVE StoneGood(c)
<1>1. PICK q \in StonePathSetting : q = write[c] /\ q.stage = "set path head" /\ StoneRequestOK(q)
  BY DEF StoneIInv, StoneRequestType, StoneOrdered, StoneMade, StoneMaking, StoneChainSetting,
     StoneLook, StoneFinding, Heads!SetPathHead, Heads!At
<1>2. PICK s \in StoneId, f \in File : s = q.stone /\ f = q.file /\ StoneIs(s, f)
  BY <1>1 DEF StonePathSetting, StoneRequestOK
<1>3. /\ UNCHANGED <<stones, chainHead, edges, source, fresh, broken>> /\ ~Heads!At(c, "refs") /\ Heads!Reply(c)
      /\ pathHead' \in {pathHead, [pathHead EXCEPT ![f] = s]}
  BY <1>1, <1>2 DEF Heads!SetPathHead, Heads!At
<1>4. QED
  BY <1>2, <1>3, StonePathHeadOK, StoneReplyGoes

LEMMA StoneObserveOK ==
  ASSUME FilesArePlaces, StoneIInv, NEW c \in Client, Heads!Observe(c) PROVE StoneGood(c)
<1>1. PICK f \in File : \E x \in {source[f[1]], "failed"} :
        Heads!Become(c, [stage |-> "accepted", file |-> f, seen |-> x])
  BY DEF Heads!Observe
<1>2. f[1] \in Heads!FilePath
  BY DEF FilesArePlaces
<1>3. PICK x \in StoneSighting : Heads!Become(c, [stage |-> "accepted", file |-> f, seen |-> x])
  BY <1>1, <1>2 DEF StoneIInv, StoneRowsOK, StoneSighting
<1>4. UNCHANGED <<stones, pathHead, chainHead, edges, source, fresh, broken>> /\ ~Heads!At(c, "refs")
  BY DEF Heads!Observe, Heads!At
<1> DEFINE r == [stage |-> "accepted", file |-> f, seen |-> x]
<1>5. r \in StoneRequestType /\ r.stage = "accepted"
  BY DEF StoneRequestType, StoneLook
<1>6. Heads!Become(c, r)
  BY <1>3
<1> HIDE DEF r
<1>7. StoneRequestOK(r)'
  BY <1>5 DEF StoneRequestOK, StoneMaking
<1>8. QED
  BY <1>4, <1>5, <1>6, <1>7, StoneLooksOK DEF StoneGoes

LEMMA StoneReadAcceptedOK == ASSUME StoneIInv, NEW c \in Client, Heads!ReadAccepted(c) PROVE StoneGood(c)
<1>1. PICK q \in StoneLook : q = write[c]
  BY DEF StoneIInv, StoneRequestType, StoneOrdered, StoneMade, StoneMaking, StoneChainSetting,
     StonePathSetting, StoneFinding, Heads!ReadAccepted, Heads!At
<1>2. PICK f \in File, a \in StoneHead : f = q.file /\ a = pathHead[f]
  BY DEF StoneLook, StoneIInv, StoneRowsOK
<1>3. a # Heads!NoHead => StoneIs(a, f)
  BY <1>2 DEF StoneIInv, StoneRowsOK, Heads!HeadsAreTheirs, StoneIs
<1>4. UNCHANGED <<stones, pathHead, chainHead, edges, source, fresh, broken>> /\ ~Heads!At(c, "refs")
  BY DEF Heads!ReadAccepted, Heads!At
<1> DEFINE r == [stage |-> "record", file |-> f, seen |-> q.seen, accepted |-> a]
<1>5. r \in StoneRequestType /\ r.stage = "record" /\ r.file = f /\ r.accepted = a
  BY DEF StoneRequestType, StoneLook, StoneFinding
<1>6. Heads!Become(c, r)
  BY <1>1, <1>2 DEF Heads!ReadAccepted
<1> HIDE DEF r
<1>7. a # Heads!NoHead => StoneIs(a, f)'
  BY <1>3, <1>4 DEF StoneIs, Heads!Exists, Heads!Of
<1>8. StoneRequestOK(r)'
  BY <1>5, <1>7 DEF StoneRequestOK, StoneMaking
<1>9. QED
  BY <1>4, <1>5, <1>6, <1>8, StoneLooksOK DEF StoneGoes

\* In sync is what has the content that was seen: it cannot have changed since.
LEMMA StoneRecordOK == ASSUME StoneIInv, NEW c \in Client, Heads!Record(c) PROVE StoneGood(c)
<1>1. PICK q \in StoneFinding : q = write[c] /\ q.stage = "record" /\ StoneRequestOK(q)
  BY DEF StoneIInv, StoneRequestType, StoneOrdered, StoneMade, StoneMaking, StoneChainSetting,
     StonePathSetting, StoneLook, Heads!Record, Heads!At
<1>2. PICK f \in File, a \in StoneHead, x \in StoneSighting : f = q.file /\ a = q.accepted /\ x = q.seen
  BY DEF StoneFinding
<1>3. a # Heads!NoHead => StoneIs(a, f)
  BY <1>1, <1>2 DEF StoneRequestOK
<1>4. PICK drift \in BOOLEAN : drift = Heads!Drifted(a, x)
  BY Zenon DEF Heads!Drifted
<1>5. ~drift => a # Heads!NoHead /\ stones[a].content = x
  BY <1>4 DEF Heads!Drifted
<1> DEFINE found == [accepted |-> a, seen |-> x, drift |-> drift]
<1>6. fresh' = [fresh EXCEPT ![f] = found]
  BY <1>1, <1>2, <1>4 DEF Heads!Record
<1>7. found \in StoneFound /\ found.accepted = a /\ found.seen = x /\ found.drift = drift
  BY DEF StoneFound
<1> HIDE DEF found
<1>8. /\ UNCHANGED <<stones, pathHead, chainHead, edges, source, broken>>
      /\ ~Heads!At(c, "refs") /\ Heads!Reply(c)
  BY DEF Heads!Record, Heads!At
<1>9. /\ fresh' \in [File -> {Heads!Unchecked} \cup StoneFound] /\ fresh'[f] = found
      /\ \A g \in File \ {f} : fresh'[g] = fresh[g]
  BY <1>6, <1>7 DEF StoneIInv, StoneRowsOK
<1>10. ASSUME NEW g \in File
       PROVE  /\ (fresh[g] # Heads!Unchecked /\ fresh[g].accepted # Heads!NoHead => StoneIs(fresh[g].accepted, g))'
              /\ (fresh[g] # Heads!Unchecked /\ ~fresh[g].drift =>
                    fresh[g].accepted # Heads!NoHead /\ Heads!Of(fresh[g].accepted) = g
                    /\ stones[fresh[g].accepted].content = fresh[g].seen)'
  <2>1. CASE g = f
    BY <1>3, <1>5, <1>7, <1>8, <1>9, <2>1 DEF StoneIs, Heads!Exists, Heads!Of
  <2>2. CASE g # f
    BY <1>8, <1>9, <2>2 DEF StoneIInv, StoneRowsOK, StoneAcceptedOK, Heads!InSyncIsSame, StoneIs,
       Heads!Exists, Heads!Of
  <2>3. QED
    BY <2>1, <2>2
<1>11. StoneAcceptedOK' /\ Heads!InSyncIsSame'
  BY <1>10 DEF StoneAcceptedOK, Heads!InSyncIsSame
<1>12. StoneRowsOK'
  BY <1>8, <1>9, <1>11 DEF StoneIInv, StoneRowsOK, Heads!HeadsAreTheirs, Heads!EdgesJoinStones,
     Heads!Exists, Heads!Of
<1>13. QED
  BY <1>8, <1>12, StonePartsStay, StoneReplyGoes DEF StoneGood

\* Whoever dies over the references leaves a stone that was cut short.
LEMMA StoneDieOK == ASSUME StoneIInv, NEW c \in Client, Heads!Die(c) PROVE StoneGood(c)
<1>1. UNCHANGED <<stones, pathHead, chainHead, edges, source, fresh>> /\ Heads!Reply(c) /\ StoneStays
  BY DEF Heads!Die, StoneStays, Heads!Exists
<1>2. broken \subseteq broken' /\ broken' \subseteq StoneId
      /\ (Heads!At(c, "refs") => write[c].stone \in broken')
  <2>1. PICK q \in StoneRequestType : q = write[c]
    BY DEF StoneIInv
  <2>2. q.stage = "refs" => q.stone \in StoneId
    BY DEF StoneRequestType, StoneOrdered, StoneMade, StoneChainSetting, StonePathSetting,
       StoneLook, StoneFinding
  <2>3. QED
    BY <2>1, <2>2 DEF Heads!Die, Heads!At, StoneIInv, StoneRowsOK
<1>3. \A d \in Client \ {c} : write'[d] = write[d]
  BY <1>1 DEF StoneIInv, Heads!Reply, Heads!Become
<1>4. StonePartsOK'
  <2>1. ASSUME NEW s \in StoneId, Heads!Exists(s)' PROVE StoneWhole(s)'
    <3>1. StoneWhole(s)
      BY <1>1, <2>1 DEF StoneIInv, StonePartsOK, Heads!Exists
    <3>2. CASE \E d \in Client : Heads!At(d, "refs") /\ write[d].stone = s
      BY <1>2, <1>3, <3>2 DEF StoneWhole, Heads!At
    <3>3. QED
      BY <1>1, <1>2, <3>1, <3>2 DEF StoneWhole
  <2>2. QED
    BY <2>1 DEF StonePartsOK
<1>5. StoneRowsOK'
  BY <1>1, <1>2 DEF StoneIInv, StoneRowsOK, Heads!HeadsAreTheirs, Heads!EdgesJoinStones,
     StoneAcceptedOK, StoneIs, Heads!InSyncIsSame, Heads!Exists, Heads!Of
<1>6. QED
  BY <1>1, <1>4, <1>5, StoneReplyGoes DEF StoneGood

LEMMA StoneInitOK == ASSUME FilesArePlaces PROVE Heads!Init => StoneIInv
<1>1. Heads!Idle \in StoneRequestType /\ StoneRequestOK(Heads!Idle)
  BY StoneIdleOK DEF StoneRequestOK, StoneMaking
<1>2. Heads!Init => StoneRowsOK
  BY DEF Heads!Init, StoneRowsOK, Heads!HeadsAreTheirs, Heads!EdgesJoinStones, StoneAcceptedOK,
     Heads!InSyncIsSame, StoneHead, StoneSighting
<1>3. Heads!Init => StonePartsOK
  BY DEF Heads!Init, StonePartsOK, Heads!Exists
<1>4. QED
  BY <1>1, <1>2, <1>3 DEF Heads!Init, StoneIInv

LEMMA StoneNextOK == ASSUME FilesArePlaces, StoneIInv, [Heads!Next]_(Heads!vars) PROVE StoneIInv'
<1>1. CASE UNCHANGED Heads!vars
  <2>1. StoneRowsOK'
    BY <1>1 DEF Heads!vars, StoneIInv, StoneRowsOK, Heads!HeadsAreTheirs, Heads!EdgesJoinStones,
       StoneAcceptedOK, StoneIs, Heads!InSyncIsSame, Heads!Exists, Heads!Of
  <2>2. QED
    BY <1>1, <2>1, StoneRestOK DEF Heads!vars
<1>2. ASSUME NEW c \in Client,
             \/ Heads!BeginCommit(c) \/ Heads!InsertStone(c) \/ Heads!InsertRefs(c)
             \/ Heads!SetPathOfCommit(c) \/ Heads!SetChainOfCommit(c) \/ Heads!Link(c)
             \/ Heads!BeginSetHead(c) \/ Heads!SetHead(c) \/ Heads!BeginSetPathHead(c) \/ Heads!SetPathHead(c)
             \/ Heads!Observe(c) \/ Heads!ReadAccepted(c) \/ Heads!Record(c) \/ Heads!Die(c)
      PROVE  StoneIInv'
  <2>1. StoneGood(c)
    BY <1>2, StoneBeginCommitOK, StoneInsertStoneOK, StoneInsertRefsOK, StoneSetPathOfCommitOK,
       StoneSetChainOfCommitOK,
       StoneLinkOK, StoneBeginSetHeadOK, StoneSetHeadOK, StoneBeginSetPathHeadOK,
       StoneSetPathHeadOK, StoneObserveOK,
       StoneReadAcceptedOK, StoneRecordOK, StoneDieOK
  <2>2. QED
    BY <2>1, StoneStepOfClient
<1>3. QED
  BY <1>1, <1>2, StonePushOK, StoneLinkStonesOK DEF Heads!Next

\* What is at a head is whole, or is being made, or was cut short.
LEMMA StoneHeadsAreWhole == ASSUME StoneIInv PROVE Heads!HeadsComplete
<1>1. ASSUME NEW f \in File, pathHead[f] # Heads!NoHead PROVE StoneWhole(pathHead[f])
  <2>1. pathHead[f] \in StoneId /\ Heads!Exists(pathHead[f])
    BY <1>1 DEF StoneIInv, StoneRowsOK, StoneHead, Heads!HeadsAreTheirs
  <2>2. QED
    BY <2>1 DEF StoneIInv, StonePartsOK
<1>2. QED
  BY <1>1 DEF Heads!HeadsComplete, StoneWhole

\* For any number of stones and of commits, settings of heads and checks of
\* freshness under way, wherever they die: heads and edges lead to stones that are
\* there, of the right path and complete, and what is said to be in sync is.
THEOREM HeadsAreKept == FilesArePlaces /\ Heads!Spec => []HeadsKept
<1> SUFFICES ASSUME FilesArePlaces PROVE Heads!Spec => []HeadsKept
  OBVIOUS
<1>1. Heads!Init => StoneIInv
  BY StoneInitOK
<1>2. StoneIInv /\ [Heads!Next]_(Heads!vars) => StoneIInv'
  BY StoneNextOK
<1>3. StoneIInv => Heads!HeadsKept
  BY StoneHeadsAreWhole DEF Heads!HeadsKept, StoneIInv, StoneRowsOK
<1>4. QED
  BY <1>1, <1>2, <1>3, PTL DEF HeadsKept, Heads!Spec
-----------------------------------------------------------------------------
(* The gate *)

LEMMA GateAskFields ==
  ASSUME NEW scope, NEW kinds, NEW ons, NEW paths, NEW others,
         NEW ask \in Gate!Ask(scope, kinds, ons, paths, others)
  PROVE  ask.kind \in kinds /\ ask.path \in paths /\ ask.other \in others
BY DEF Gate!Ask

\* What a request is about, by its kind.
GateShaped(ask) ==
  /\ ask.kind \in {"write", "rename"} => ask.path \in Folder
  /\ ask.kind = "rename" => ask.other \in Folder
  /\ ask.kind = "hydrate" => ask.path \in Gate!MaybePath /\ ask.other \in Gate!MaybePath

LEMMA GateOthersAreShaped ==
  ASSUME NEW scope, NEW ons, NEW paths, NEW others, NEW kinds \in {{"other"}, {"open"}, {"create"}},
         NEW ask \in Gate!Ask(scope, kinds, ons, paths, others)
  PROVE  GateShaped(ask)
BY GateAskFields DEF GateShaped

LEMMA GateWritesAreShaped ==
  ASSUME NEW scope, NEW ons, NEW others, NEW ask \in Gate!Ask(scope, {"write"}, ons, Folder, others)
  PROVE  GateShaped(ask)
BY GateAskFields DEF GateShaped

LEMMA GateAsksAreShaped == ASSUME NEW ask \in Gate!Asks PROVE GateShaped(ask)
<1>1. CASE ask \in Gate!Creating \/ ask \in Gate!Listing \/ ask \in Gate!Reading \/ ask \in Gate!Diffing \/ ask \in Gate!Proposing
           \/ ask \in Gate!Binding \/ ask \in Gate!ListingTree \/ ask \in Gate!Zipping
  BY <1>1, GateOthersAreShaped DEF Gate!Creating, Gate!Listing, Gate!Reading, Gate!Diffing,
     Gate!Proposing, Gate!Binding, Gate!ListingTree,
     Gate!Zipping, Gate!Plain
<1>2. CASE ask \in Gate!OpeningSession \/ ask \in Gate!Looking \/ ask \in Gate!Pausing \/ ask \in Gate!Transporting
           \/ ask \in Gate!Compiling \/ ask \in Gate!Checkpointing \/ ask \in Gate!Tasking \/ ask \in Gate!Leasing
           \/ ask \in Gate!ListingLeases \/ ask \in Gate!Describing \/ ask \in Gate!Attaching \/ ask \in Gate!Detaching
           \/ ask \in Gate!Receipting
  BY <1>2, GateOthersAreShaped DEF Gate!OpeningSession, Gate!Looking, Gate!Pausing,
     Gate!Transporting, Gate!Compiling,
     Gate!Checkpointing, Gate!Tasking, Gate!Leasing, Gate!ListingLeases, Gate!Describing,
     Gate!Attaching, Gate!Detaching, Gate!Receipting, Gate!Plain
<1>3. CASE ask \in Gate!Writing \/ ask \in Gate!Deleting \/ ask \in Gate!Pointing
  BY <1>3, GateWritesAreShaped DEF Gate!Writing, Gate!Deleting, Gate!Pointing
<1>4. CASE ask \in Gate!Renaming \/ ask \in Gate!Hydrating
  BY <1>4, GateAskFields DEF Gate!Renaming, Gate!Hydrating, GateShaped
<1>5. QED
  BY <1>1, <1>2, <1>3, <1>4 DEF Gate!Asks

LEMMA GateAppendWithin ==
  ASSUME NEW s \in Seq(STRING), NEW prefix \in Seq(STRING), Gate!Within(s, prefix)
  PROVE  Gate!Within(Append(s, "file"), prefix)
<1>1. Len(Append(s, "file")) = Len(s) + 1 /\ Len(prefix) \in Nat /\ Len(s) \in Nat
  OBVIOUS
<1>2. \A i \in 1 .. Len(prefix) : Append(s, "file")[i] = s[i]
  BY <1>1 DEF Gate!Within
<1>3. SubSeq(Append(s, "file"), 1, Len(prefix)) = SubSeq(s, 1, Len(prefix))
  BY <1>1, <1>2 DEF Gate!Within
<1>4. QED
  BY <1>1, <1>3 DEF Gate!Within

LEMMA GateWithinItself == ASSUME NEW s \in Seq(STRING) PROVE Gate!Within(s, s)
BY DEF Gate!Within

\* Where a request writes is inside the prefix once what is checked is.
LEMMA GateChangesAreWithin ==
  ASSUME CapabilitiesAreSigned, PathsAreCanonical, NEW ask \in Gate!Asks, NEW k \in Capability,
         Gate!Checked(ask) # Gate!NoPath => Gate!Within(Gate!Checked(ask), k.prefix),
         ask.kind = "rename" => Gate!Within(ask.other, k.prefix)
  PROVE  \A p \in Gate!Changes(ask, k) : Gate!Within(p, k.prefix)
<1>1. GateShaped(ask) /\ k.prefix \in Seq(STRING)
  BY GateAsksAreShaped DEF CapabilitiesAreSigned
<1>2. CASE ask.kind \in {"write", "rename"}
  <2>1. Gate!Within(ask.path, k.prefix)
    BY <1>1, <1>2 DEF GateShaped, Gate!Checked, PathsAreCanonical
  <2>2. QED
    BY <1>2, <2>1 DEF Gate!Changes
<1>3. CASE ask.kind = "hydrate"
  <2>1. CASE ask.path # Gate!NoPath
    <3>1. ask.path \in Seq(STRING) /\ Gate!Within(ask.path, k.prefix)
      BY <1>1, <1>3, <2>1 DEF GateShaped, Gate!Checked, Gate!Or, Gate!MaybePath, PathsAreCanonical
    <3>2. Gate!Within(Append(ask.path, "file"), k.prefix)
      BY <1>1, <3>1, GateAppendWithin
    <3>3. QED
      BY <1>3, <2>1, <3>2 DEF Gate!Changes, Gate!Mapped, Gate!Or
  <2>2. CASE ask.path = Gate!NoPath
    <3>1. Gate!Within(Append(k.prefix, "file"), k.prefix)
      BY <1>1, GateWithinItself, GateAppendWithin
    <3>2. QED
      BY <1>3, <2>2, <3>1 DEF Gate!Changes, Gate!Mapped, Gate!Or
  <2>3. QED
    BY <2>1, <2>2
<1>4. CASE ask.kind \notin {"write", "rename", "hydrate"}
  BY <1>4 DEF Gate!Changes
<1>5. QED
  BY <1>2, <1>3, <1>4

-----------------------------------------------------------------------------
GateRole == {"reader", "drafter", "proposer", "owner", Gate!None}

LEMMA GateRolesOK == /\ DOMAIN Gate!RoleScopes = GateRole
                     /\ Gate!RoleScopes[Gate!None] = {}
BY DEF Gate!RoleScopes, GateRole, Gate!None

GateAsking == {"denied?", "member?", "serve", "exists?", "create", "own"}

GateAsked == [stage: GateAsking, ask: Gate!Asks, cap: Capability, void: BOOLEAN, fits: BOOLEAN]

GateJoining == [stage: {"join"}, workspace: Workspace, actor: Actor, role: GateRole \ {Gate!None}]

GateRequestType == [stage: {"idle"}] \cup GateAsked \cup GateJoining

GateIsMember(w, a) == members[w][a] # Gate!None

GateRowsOK == /\ workspaces \subseteq Workspace
              /\ members \in [Workspace -> [Actor -> GateRole]]
              /\ home \in [Object -> Workspace \cup {Gate!None}]
              /\ cut \subseteq Workspace
              /\ \A w \in Workspace, a \in Actor : GateIsMember(w, a) => w \in workspaces
              /\ \A o \in Object : home[o] \in workspaces \cup {Gate!None}

\* A workspace has a member, or is being made, or was cut short.
GateManned(w) == \/ \E a \in Actor : GateIsMember(w, a)
                 \/ \E c \in Client : Gate!At(c, "own") /\ gateReq[c].cap.workspace = w
                 \/ w \in cut

GateMannedOK == \A w \in workspaces : GateManned(w)

\* What was verified of a request holds as long as it is under way; what it has
\* since been found to fit is on record.
GateAskedOK(r) ==
  /\ r.cap \in Gate!Signed /\ r.ask.scope \in r.cap.scopes
  /\ Gate!WorkspaceOf(r.ask.on) \in {Gate!Any, r.cap.workspace}
  /\ Gate!Checked(r.ask) # Gate!NoPath => Gate!Within(Gate!Checked(r.ask), r.cap.prefix)
  /\ r.void => r.cap \in revoked
  /\ r.stage # "denied?" => ~r.void
  /\ Gate!Allows(Gate!RoleOf(r.cap), r.cap, r.ask.scope) => r.fits
  /\ r.stage = "serve" => r.fits /\ Gate!DestinationFits(r)
  /\ r.stage \in {"own", "serve"} => r.cap.workspace \in workspaces

GateRequestOK(r) == /\ r.stage \in GateAsking => GateAskedOK(r)
                    /\ r.stage = "join" => r.workspace \in workspaces

GateIInv == /\ GateRowsOK /\ GateMannedOK
            /\ gateReq \in [Client -> GateRequestType]
            /\ \A c \in Client : GateRequestOK(gateReq[c])

\* A row keeps its workspace, and what is denied or made stays so.
GateStays == /\ workspaces \subseteq workspaces' /\ revoked \subseteq revoked'
             /\ \A o \in Object : home[o] # Gate!None => home'[o] = home[o]

GateGoes(c) == \E r \in GateRequestType : Gate!Become(c, r) /\ GateRequestOK(r)'

GateGood(c) == GateRowsOK' /\ GateMannedOK' /\ GateStays /\ UNCHANGED members /\ GateGoes(c)

LEMMA GateWorkspaceStays ==
  ASSUME NamesAreNames, GateStays, NEW w \in Workspace, NEW on, Gate!WorkspaceOf(on) \in {Gate!Any, w}
  PROVE  Gate!WorkspaceOf(on)' \in {Gate!Any, w}
BY DEF NamesAreNames, GateStays, Gate!WorkspaceOf, Gate!Any, Gate!None

LEMMA GateRequestStable ==
  ASSUME CapabilitiesAreSigned, NamesAreNames, GateStays, UNCHANGED members,
         NEW q \in GateRequestType, GateRequestOK(q)
  PROVE  GateRequestOK(q)'
<1>1. ASSUME q.stage \in GateAsking PROVE GateAskedOK(q)'
  <2>1. GateAskedOK(q)
    BY <1>1 DEF GateRequestOK
  <2>2. q.cap \in Capability
    BY <1>1 DEF GateRequestType, GateAsked, GateJoining, GateAsking
  <2>3. PICK w \in Workspace : w = q.cap.workspace
    BY <2>2 DEF CapabilitiesAreSigned
  <2>4. Gate!WorkspaceOf(q.ask.on)' \in {Gate!Any, w}
    BY <2>1, <2>3, GateWorkspaceStays DEF GateAskedOK
  <2>5. QED
    BY <2>1, <2>3, <2>4 DEF GateAskedOK, Gate!RoleOf, GateStays
<1>2. q.stage = "join" => q.workspace \in workspaces'
  BY DEF GateRequestOK, GateStays
<1>3. QED
  BY <1>1, <1>2 DEF GateRequestOK

LEMMA GateStepOfClient ==
  ASSUME CapabilitiesAreSigned, NamesAreNames, GateIInv, NEW c \in Client, GateGood(c)
  PROVE  GateIInv'
<1>1. PICK r \in GateRequestType : Gate!Become(c, r) /\ GateRequestOK(r)'
  BY DEF GateGood, GateGoes
<1>2. gateReq' \in [Client -> GateRequestType] /\ gateReq'[c] = r /\ \A d \in Client \ {c} : gateReq'[d] = gateReq[d]
  BY <1>1 DEF GateIInv, Gate!Become
<1>3. ASSUME NEW d \in Client PROVE GateRequestOK(gateReq[d])'
  <2>1. CASE d = c
    <3>1. gateReq'[d] = r
      BY <1>2, <2>1
    <3>2. QED
      BY <1>1, <3>1 DEF GateRequestOK, GateAskedOK, Gate!DestinationFits, Gate!RoleOf
  <2>2. CASE d # c
    <3>1. PICK q \in GateRequestType : q = gateReq[d] /\ GateRequestOK(q)
      BY DEF GateIInv
    <3>2. GateRequestOK(q)'
      BY <3>1, GateRequestStable DEF GateGood
    <3>3. gateReq'[d] = q
      BY <1>2, <2>2, <3>1
    <3>4. QED
      BY <3>2, <3>3 DEF GateRequestOK, GateAskedOK, Gate!DestinationFits, Gate!RoleOf
  <2>3. QED
    BY <2>1, <2>2
<1>4. QED
  BY <1>2, <1>3 DEF GateIInv, GateGood

LEMMA GateIdleOK == Gate!Idle \in GateRequestType /\ Gate!Idle.stage = "idle"
BY DEF Gate!Idle, GateRequestType

LEMMA GateReplyGoes == ASSUME NEW c \in Client, Gate!Reply(c) PROVE GateGoes(c)
<1>1. GateRequestOK(Gate!Idle)'
  BY GateIdleOK DEF GateRequestOK, GateAsking
<1>2. QED
  BY <1>1, GateIdleOK DEF Gate!Reply, GateGoes

\* A request that makes no workspace leaves none without members.
LEMMA GateMannedStays ==
  ASSUME GateIInv, NEW c \in Client, ~Gate!At(c, "own"), UNCHANGED <<workspaces, members, cut>>, GateGoes(c)
  PROVE  GateMannedOK'
<1>1. PICK r \in GateRequestType : Gate!Become(c, r)
  BY DEF GateGoes
<1>2. \A d \in Client \ {c} : gateReq'[d] = gateReq[d]
  BY <1>1 DEF GateIInv, Gate!Become
<1>3. ASSUME NEW w \in workspaces' PROVE GateManned(w)'
  <2>1. GateManned(w)
    BY <1>3 DEF GateIInv, GateMannedOK
  <2>2. CASE \E d \in Client : Gate!At(d, "own") /\ gateReq[d].cap.workspace = w
    BY <1>2, <2>2 DEF Gate!At, GateManned
  <2>3. CASE \E a \in Actor : GateIsMember(w, a)
    BY <2>3 DEF GateManned, GateIsMember
  <2>4. QED
    BY <2>1, <2>2, <2>3 DEF GateManned
<1>4. QED
  BY <1>3 DEF GateMannedOK

\* A request that only looks.
LEMMA GateLooksOK ==
  ASSUME GateIInv, NEW c \in Client, ~Gate!At(c, "own"), GateGoes(c),
         UNCHANGED <<workspaces, members, home, revoked, cut>>
  PROVE  GateGood(c)
<1>1. GateRowsOK' /\ GateStays
  BY DEF GateIInv, GateRowsOK, GateIsMember, GateStays
<1>2. QED
  BY <1>1, GateMannedStays DEF GateGood

LEMMA GateArriveOK ==
  ASSUME CapabilitiesAreSigned, NEW c \in Client, GateIInv, Gate!Arrive(c) PROVE GateGood(c)
<1>1. PICK ask \in Gate!Asks, k \in Capability :
        /\ Gate!Verified(k, ask)
        /\ Gate!Become(c, [stage |-> "denied?", ask |-> ask, cap |-> k,
                           void |-> k \in revoked, fits |-> Gate!Allows(Gate!RoleOf(k), k, ask.scope)])
  BY DEF Gate!Arrive
<1>2. PICK void \in BOOLEAN : void = (k \in revoked)
  <2>1. (k \in revoked) = TRUE \/ (k \in revoked) = FALSE
    OBVIOUS
  <2>2. QED
    BY <2>1
<1>3. PICK fits \in BOOLEAN : fits = Gate!Allows(Gate!RoleOf(k), k, ask.scope)
  BY Zenon DEF Gate!Allows
<1> DEFINE r == [stage |-> "denied?", ask |-> ask, cap |-> k, void |-> void, fits |-> fits]
<1>4. /\ r \in GateRequestType /\ r.stage = "denied?" /\ r.ask = ask /\ r.cap = k
      /\ r.void = void /\ r.fits = fits
  BY DEF GateRequestType, GateAsked, GateAsking
<1>5. Gate!Become(c, r)
  BY <1>1, <1>2, <1>3
<1> HIDE DEF r
<1>6. UNCHANGED <<workspaces, members, home, revoked, cut>> /\ ~Gate!At(c, "own")
  BY DEF Gate!Arrive, Gate!At
<1>7. /\ k \in Gate!Signed /\ ask.scope \in k.scopes
      /\ Gate!WorkspaceOf(ask.on) \in {Gate!Any, k.workspace}
      /\ Gate!Checked(ask) # Gate!NoPath => Gate!Within(Gate!Checked(ask), k.prefix)
  BY <1>1 DEF Gate!Verified
<1>8. Gate!WorkspaceOf(ask.on)' \in {Gate!Any, k.workspace} /\ Gate!RoleOf(k)' = Gate!RoleOf(k)
  BY <1>6, <1>7 DEF Gate!WorkspaceOf, Gate!RoleOf
<1>9. fits <=> Gate!Allows(Gate!RoleOf(k), k, ask.scope)
  BY <1>3
<1>10. GateAskedOK(r)'
  BY <1>2, <1>4, <1>6, <1>7, <1>8, <1>9 DEF GateAskedOK
<1>11. GateRequestOK(r)'
  BY <1>4, <1>10 DEF GateRequestOK
<1>12. QED
  BY <1>4, <1>5, <1>6, <1>11, GateLooksOK DEF GateGoes

\* Another stage of the same request, which is all it takes to be where it is.
LEMMA GateGotoOK ==
  ASSUME GateIInv, NEW c \in Client, NEW q \in GateAsked, q = gateReq[c], GateAskedOK(q), q.stage # "own",
         NEW stage \in GateAsking \ {"own", "denied?"}, Gate!Goto(c, stage), ~q.void,
         stage = "serve" => q.fits /\ Gate!DestinationFits(q) /\ q.cap.workspace \in workspaces,
         UNCHANGED <<workspaces, members, home, revoked, expired, cut>>
  PROVE  GateGood(c)
<1> DEFINE r == [q EXCEPT !.stage = stage]
<1>1. /\ r \in GateRequestType /\ r.stage = stage /\ r.ask = q.ask /\ r.cap = q.cap
      /\ r.void = q.void /\ r.fits = q.fits
  BY DEF GateRequestType, GateAsked, GateAsking
<1>2. Gate!Become(c, r)
  BY DEF Gate!Goto
<1> HIDE DEF r
<1>3. Gate!WorkspaceOf(q.ask.on)' = Gate!WorkspaceOf(q.ask.on) /\ Gate!RoleOf(q.cap)' = Gate!RoleOf(q.cap)
  BY DEF Gate!WorkspaceOf, Gate!RoleOf
<1>4. stage = "serve" => Gate!DestinationFits(r)
  BY <1>1 DEF Gate!DestinationFits
<1>5. GateAskedOK(r)'
  BY <1>1, <1>3, <1>4 DEF GateAskedOK, Gate!DestinationFits
<1>6. GateRequestOK(r)'
  BY <1>1, <1>5 DEF GateRequestOK, GateAsking
<1>7. QED
  BY <1>1, <1>2, <1>6, GateLooksOK DEF GateGoes, Gate!At

LEMMA GateLookInDenylistOK == ASSUME GateIInv, NEW c \in Client, Gate!LookInDenylist(c) PROVE GateGood(c)
<1>1. PICK q \in GateAsked : q = gateReq[c] /\ q.stage = "denied?" /\ GateAskedOK(q)
  BY DEF GateIInv, GateRequestType, GateJoining, GateRequestOK, GateAsking, Gate!LookInDenylist,
     Gate!At
<1>2. UNCHANGED <<workspaces, members, home, revoked, expired, cut>>
  BY DEF Gate!LookInDenylist
<1>3. CASE q.cap \in revoked
  BY <1>1, <1>2, <1>3, GateReplyGoes, GateLooksOK DEF Gate!LookInDenylist, Gate!At
<1>4. CASE q.cap \notin revoked
  <2>1. PICK stage \in {"exists?", "member?"} : Gate!Goto(c, stage)
    BY <1>1, <1>4 DEF Gate!LookInDenylist
  <2>2. stage \in GateAsking \ {"own", "denied?"} /\ stage # "serve"
    BY DEF GateAsking
  <2>3. ~q.void
    BY <1>1, <1>4 DEF GateAskedOK
  <2>4. QED
    BY <1>1, <1>2, <2>1, <2>2, <2>3, GateGotoOK
<1>5. QED
  BY <1>3, <1>4

\* Who has a role is a member of a workspace that exists.
LEMMA GateRoleHasWorkspace ==
  ASSUME CapabilitiesAreSigned, GateIInv, NEW k \in Capability, NEW scope, Gate!Allows(Gate!RoleOf(k), k, scope)
  PROVE  k.workspace \in workspaces
<1>1. k.workspace \in Workspace /\ k.actor \in Actor
  BY DEF CapabilitiesAreSigned
<1>2. Gate!RoleOf(k) # Gate!None
  BY GateRolesOK DEF Gate!Allows
<1>3. QED
  BY <1>1, <1>2 DEF GateIInv, GateRowsOK, GateIsMember, Gate!RoleOf

LEMMA GateLookAtMemberOK ==
  ASSUME CapabilitiesAreSigned, GateIInv, NEW c \in Client, Gate!LookAtMember(c) PROVE GateGood(c)
<1>1. PICK q \in GateAsked : q = gateReq[c] /\ q.stage = "member?" /\ GateAskedOK(q)
  BY DEF GateIInv, GateRequestType, GateJoining, GateRequestOK, GateAsking, Gate!LookAtMember,
     Gate!At
<1>2. UNCHANGED <<workspaces, members, home, revoked, expired, cut>>
  BY DEF Gate!LookAtMember
<1>3. CASE Gate!Allows(Gate!RoleOf(q.cap), q.cap, q.ask.scope) /\ Gate!DestinationFits(q)
  <2>1. PICK stage \in {"serve"} : Gate!Goto(c, stage)
    BY <1>1, <1>3 DEF Gate!LookAtMember
  <2>2. stage \in GateAsking \ {"own", "denied?"}
    BY DEF GateAsking
  <2>3. q.fits /\ ~q.void
    BY <1>1, <1>3 DEF GateAskedOK
  <2>4. q.cap.workspace \in workspaces
    BY <1>3, GateRoleHasWorkspace DEF GateAsked
  <2>5. QED
    BY <1>1, <1>2, <1>3, <2>1, <2>2, <2>3, <2>4, GateGotoOK
<1>4. CASE ~(Gate!Allows(Gate!RoleOf(q.cap), q.cap, q.ask.scope) /\ Gate!DestinationFits(q))
  BY <1>1, <1>2, <1>4, GateReplyGoes, GateLooksOK DEF Gate!LookAtMember, Gate!At
<1>5. QED
  BY <1>3, <1>4

\* A row is made with the id of the workspace it was let through for.
LEMMA GateServeOK ==
  ASSUME CapabilitiesAreSigned, GateIInv, NEW c \in Client, Gate!Serve(c) PROVE GateGood(c)
<1>1. PICK q \in GateAsked : q = gateReq[c] /\ q.stage = "serve" /\ GateAskedOK(q)
  BY DEF GateIInv, GateRequestType, GateJoining, GateRequestOK, GateAsking, Gate!Serve, Gate!At
<1>2. UNCHANGED <<workspaces, members, revoked, cut>> /\ Gate!Reply(c) /\ ~Gate!At(c, "own")
  BY <1>1 DEF Gate!Serve, Gate!At
<1>3. PICK w \in Workspace : w = q.cap.workspace /\ w \in workspaces
  BY <1>1 DEF GateAskedOK, GateAsked, CapabilitiesAreSigned
<1>4. CASE UNCHANGED home
  BY <1>2, <1>4, GateLooksOK, GateReplyGoes
<1>5. CASE \E o \in Object : home[o] = Gate!None /\ home' = [home EXCEPT ![o] = w]
  <2>1. GateRowsOK' /\ GateStays
    BY <1>2, <1>3, <1>5 DEF GateIInv, GateRowsOK, GateIsMember, GateStays
  <2>2. QED
    BY <1>2, <2>1, GateReplyGoes, GateMannedStays DEF GateGood
<1>6. QED
  BY <1>1, <1>3, <1>4, <1>5 DEF Gate!Serve

LEMMA GateLookAtWorkspaceOK == ASSUME GateIInv, NEW c \in Client, Gate!LookAtWorkspace(c) PROVE GateGood(c)
<1>1. PICK q \in GateAsked : q = gateReq[c] /\ q.stage = "exists?" /\ GateAskedOK(q)
  BY DEF GateIInv, GateRequestType, GateJoining, GateRequestOK, GateAsking, Gate!LookAtWorkspace,
     Gate!At
<1>2. UNCHANGED <<workspaces, members, home, revoked, expired, cut>>
  BY DEF Gate!LookAtWorkspace
<1>3. CASE Gate!Reply(c)
  BY <1>1, <1>2, <1>3, GateReplyGoes, GateLooksOK DEF Gate!At
<1>4. CASE Gate!Goto(c, "create")
  <2>1. PICK stage \in {"create"} : Gate!Goto(c, stage)
    BY <1>4
  <2>2. stage \in GateAsking \ {"own", "denied?"} /\ stage # "serve" /\ ~q.void
    BY <1>1 DEF GateAsking, GateAskedOK
  <2>3. QED
    BY <1>1, <1>2, <2>1, <2>2, GateGotoOK
<1>5. QED
  BY <1>3, <1>4 DEF Gate!LookAtWorkspace

\* A workspace that is new has its maker over it, who is to own it.
LEMMA GateInsertWorkspaceOK ==
  ASSUME CapabilitiesAreSigned, NamesAreNames, GateIInv, NEW c \in Client, Gate!InsertWorkspace(c)
  PROVE  GateGood(c)
<1>1. PICK q \in GateAsked : q = gateReq[c] /\ q.stage = "create" /\ GateAskedOK(q)
  BY DEF GateIInv, GateRequestType, GateJoining, GateRequestOK, GateAsking, Gate!InsertWorkspace,
     Gate!At
<1>2. PICK w \in Workspace : w = q.cap.workspace
  BY DEF GateAsked, CapabilitiesAreSigned
<1>3. UNCHANGED <<members, home, revoked, expired, cut>> /\ workspaces' = workspaces \cup {w}
  BY <1>1, <1>2 DEF Gate!InsertWorkspace
<1>4. CASE w \in workspaces
  BY <1>1, <1>2, <1>3, <1>4, GateReplyGoes, GateLooksOK DEF Gate!InsertWorkspace, Gate!At
<1>5. CASE w \notin workspaces
  <2>1. PICK stage \in GateAsking : stage = "own"
    BY DEF GateAsking
  <2> DEFINE r == [q EXCEPT !.stage = stage]
  <2>2. /\ r \in GateRequestType /\ r.stage = stage /\ r.ask = q.ask /\ r.cap = q.cap
        /\ r.void = q.void /\ r.fits = q.fits
    BY DEF GateRequestType, GateAsked, GateAsking
  <2>3. Gate!Become(c, r)
    BY <1>1, <1>2, <1>5, <2>1 DEF Gate!InsertWorkspace, Gate!Goto
  <2> HIDE DEF r
  <2>4. Gate!WorkspaceOf(q.ask.on)' = Gate!WorkspaceOf(q.ask.on) /\ Gate!RoleOf(q.cap)' = Gate!RoleOf(q.cap)
    BY <1>3 DEF Gate!WorkspaceOf, Gate!RoleOf
  <2>5. GateAskedOK(r)'
    BY <1>1, <1>2, <1>3, <2>1, <2>2, <2>4 DEF GateAskedOK
  <2>6. GateRequestOK(r)'
    BY <2>1, <2>2, <2>5 DEF GateRequestOK, GateAsking
  <2>7. GateRowsOK' /\ GateStays
    BY <1>3 DEF GateIInv, GateRowsOK, GateIsMember, GateStays
  <2>8. gateReq'[c] = r /\ \A d \in Client \ {c} : gateReq'[d] = gateReq[d]
    BY <2>3 DEF GateIInv, Gate!Become
  <2>9. GateMannedOK'
    <3>1. ASSUME NEW v \in workspaces' PROVE GateManned(v)'
      <4>1. CASE v = w
        BY <1>2, <2>1, <2>2, <2>8, <4>1 DEF GateManned, Gate!At
      <4>2. CASE v # w
        <5>1. GateManned(v)
          BY <1>3, <3>1, <4>2 DEF GateIInv, GateMannedOK
        <5>2. CASE \E d \in Client : Gate!At(d, "own") /\ gateReq[d].cap.workspace = v
          BY <1>1, <2>8, <5>2 DEF Gate!At, GateManned
        <5>3. CASE \E a \in Actor : GateIsMember(v, a)
          BY <1>3, <5>3 DEF GateManned, GateIsMember
        <5>4. QED
          BY <1>3, <5>1, <5>2, <5>3 DEF GateManned
      <4>3. QED
        BY <4>1, <4>2
    <3>2. QED
      BY <3>1 DEF GateMannedOK
  <2>10. QED
    BY <1>3, <2>2, <2>3, <2>6, <2>7, <2>9 DEF GateGood, GateGoes
<1>6. QED
  BY <1>4, <1>5

\* A new role is seen by the requests of its holder, and mans the workspace.
LEMMA GateAssignOK ==
  ASSUME CapabilitiesAreSigned, NamesAreNames, GateIInv, NEW c \in Client,
         NEW w \in workspaces, NEW a \in Actor, NEW role \in GateRole \ {Gate!None},
         NEW k, k.workspace = w, k.actor = a, Gate!Assign(k, role, [gateReq EXCEPT ![c] = Gate!Idle]),
         Gate!At(c, "own") => gateReq[c].cap.workspace = w,
         UNCHANGED <<workspaces, home, revoked, cut>>
  PROVE  GateIInv'
<1>1. w \in Workspace
  BY DEF GateIInv, GateRowsOK
<1>2. PICK row \in [Actor -> GateRole] : row = members[w]
  BY <1>1 DEF GateIInv, GateRowsOK
<1>3. members' = [members EXCEPT ![w] = [row EXCEPT ![a] = role]]
  BY <1>2 DEF Gate!Assign
<1>4. /\ members' \in [Workspace -> [Actor -> GateRole]] /\ members'[w][a] = role
      /\ \A v \in Workspace, b \in Actor : v # w \/ b # a => members'[v][b] = members[v][b]
  BY <1>1, <1>2, <1>3 DEF GateIInv, GateRowsOK
<1>5. \A v \in Workspace, b \in Actor : GateIsMember(v, b) => GateIsMember(v, b)'
  BY <1>4 DEF GateIsMember
<1>6. GateRowsOK'
  BY <1>4 DEF GateIInv, GateRowsOK, GateIsMember
<1>7. PICK rest \in [Client -> GateRequestType] : rest = [gateReq EXCEPT ![c] = Gate!Idle]
  BY GateIdleOK DEF GateIInv
<1>8. rest[c] = Gate!Idle /\ \A d \in Client \ {c} : rest[d] = gateReq[d]
  BY <1>7 DEF GateIInv
<1>9. ASSUME NEW d \in Client
      PROVE  /\ gateReq'[d] \in GateRequestType /\ GateRequestOK(gateReq[d])'
             /\ d # c /\ Gate!At(d, "own") => Gate!At(d, "own")' /\ gateReq'[d].cap = gateReq[d].cap
  <2>1. PICK q \in GateRequestType : q = rest[d] /\ GateRequestOK(q)
    <3>1. rest[d] \in GateRequestType
      OBVIOUS
    <3>2. GateRequestOK(Gate!Idle)
      BY GateIdleOK DEF GateRequestOK, GateAsking
    <3>3. GateRequestOK(rest[d])
      BY <1>8, <3>2 DEF GateIInv
    <3>4. QED
      BY <3>1, <3>3
  <2>2. gateReq'[d] = IF q.stage \notin {"idle", "join"} /\ q.cap.workspace = w /\ q.cap.actor = a
                      THEN [q EXCEPT !.fits = @ \/ Gate!Allows(role, q.cap, q.ask.scope)] ELSE q
    BY <1>7, <2>1 DEF Gate!Assign
  <2>3. q.stage \in GateAsking =>
          q \in GateAsked /\ q.cap.workspace \in Workspace /\ q.cap.actor \in Actor
    BY DEF GateRequestType, GateJoining, GateAsked, GateAsking, CapabilitiesAreSigned
  <2>4. Gate!WorkspaceOf(q.ask.on)' = Gate!WorkspaceOf(q.ask.on)
    BY DEF Gate!WorkspaceOf
  <2>5. CASE q.stage \notin {"idle", "join"} /\ q.cap.workspace = w /\ q.cap.actor = a
    <3>1. q.stage \in GateAsking /\ q \in GateAsked /\ GateAskedOK(q)
      BY <2>1, <2>3, <2>5 DEF GateRequestType, GateJoining, GateAsked, GateRequestOK
    <3>2. PICK fits \in BOOLEAN : fits = (q.fits \/ Gate!Allows(role, q.cap, q.ask.scope))
      <4>1. \/ (q.fits \/ Gate!Allows(role, q.cap, q.ask.scope)) = TRUE
            \/ (q.fits \/ Gate!Allows(role, q.cap, q.ask.scope)) = FALSE
        BY Zenon
      <4>2. QED
        BY <4>1
    <3> DEFINE r == [q EXCEPT !.fits = fits]
    <3>3. /\ r \in GateRequestType /\ r.stage = q.stage /\ r.ask = q.ask /\ r.cap = q.cap
          /\ r.void = q.void /\ r.fits = fits
      BY <3>1 DEF GateRequestType, GateAsked
    <3>4. gateReq'[d] = r
      BY <2>2, <2>5, <3>2
    <3> HIDE DEF r
    <3>5. Gate!RoleOf(q.cap)' = role
      BY <1>4, <2>5 DEF Gate!RoleOf
    <3>6. /\ q.fits => fits
          /\ Gate!Allows(role, q.cap, q.ask.scope) => fits
      BY <3>2
    <3>7. GateAskedOK(r)'
      BY <2>4, <3>1, <3>3, <3>5, <3>6 DEF GateAskedOK, Gate!DestinationFits
    <3>8. GateRequestOK(r)'
      BY <3>1, <3>3, <3>7 DEF GateRequestOK, GateAsking
    <3>9. GateRequestOK(gateReq[d])'
      BY <3>4, <3>8 DEF GateRequestOK, GateAskedOK, Gate!DestinationFits, Gate!RoleOf
    <3>10. d # c /\ Gate!At(d, "own") => Gate!At(d, "own")' /\ gateReq'[d].cap = gateReq[d].cap
      BY <1>8, <2>1, <3>3, <3>4 DEF Gate!At
    <3>11. QED
      BY <3>3, <3>4, <3>9, <3>10
  <2>6. CASE ~(q.stage \notin {"idle", "join"} /\ q.cap.workspace = w /\ q.cap.actor = a)
    <3>1. gateReq'[d] = q
      BY <2>2, <2>6
    <3>2. ASSUME q.stage \in GateAsking PROVE GateAskedOK(q)'
      <4>1. GateAskedOK(q)
        BY <2>1, <3>2 DEF GateRequestOK
      <4>2. Gate!RoleOf(q.cap)' = Gate!RoleOf(q.cap)
        BY <1>4, <2>3, <2>6, <3>2 DEF Gate!RoleOf, GateAsking
      <4>3. QED
        BY <2>4, <4>1, <4>2 DEF GateAskedOK
    <3>3. GateRequestOK(q)'
      BY <2>1, <3>2 DEF GateRequestOK
    <3>4. GateRequestOK(gateReq[d])'
      BY <3>1, <3>3 DEF GateRequestOK, GateAskedOK, Gate!DestinationFits, Gate!RoleOf
    <3>5. d # c /\ Gate!At(d, "own") => Gate!At(d, "own")' /\ gateReq'[d].cap = gateReq[d].cap
      BY <1>8, <2>1, <3>1 DEF Gate!At
    <3>6. QED
      BY <3>1, <3>4, <3>5
  <2>7. QED
    BY <2>5, <2>6
<1>10. gateReq' \in [Client -> GateRequestType]
  <2>1. gateReq' = [d \in Client |-> gateReq'[d]]
    BY DEF Gate!Assign
  <2>2. QED
    BY <1>9, <2>1
<1>11. GateMannedOK'
  <2>1. ASSUME NEW v \in workspaces' PROVE GateManned(v)'
    <3>1. v \in Workspace /\ v \in workspaces /\ GateManned(v)
      BY <2>1 DEF GateIInv, GateRowsOK, GateMannedOK
    <3>2. CASE v = w
      BY <1>4, <3>2 DEF GateManned, GateIsMember
    <3>3. CASE v # w /\ \E d \in Client : Gate!At(d, "own") /\ gateReq[d].cap.workspace = v
      <4>1. PICK d \in Client : Gate!At(d, "own") /\ gateReq[d].cap.workspace = v
        BY <3>3
      <4>2. d # c
        BY <3>3, <4>1
      <4>3. QED
        BY <1>9, <4>1, <4>2 DEF GateManned
    <3>4. CASE \E b \in Actor : GateIsMember(v, b)
      BY <1>5, <3>1, <3>4 DEF GateManned
    <3>5. QED
      BY <3>1, <3>2, <3>3, <3>4 DEF GateManned
  <2>2. QED
    BY <2>1 DEF GateMannedOK
<1>12. QED
  BY <1>6, <1>9, <1>10, <1>11 DEF GateIInv

LEMMA GateInsertOwnerOK ==
  ASSUME CapabilitiesAreSigned, NamesAreNames, GateIInv, NEW c \in Client, Gate!InsertOwner(c)
  PROVE  GateIInv'
<1>1. PICK q \in GateAsked : q = gateReq[c] /\ q.stage = "own" /\ GateAskedOK(q)
  BY DEF GateIInv, GateRequestType, GateJoining, GateRequestOK, GateAsking, Gate!InsertOwner,
     Gate!At
<1>2. PICK w \in workspaces, a \in Actor : w = q.cap.workspace /\ a = q.cap.actor
  BY <1>1 DEF GateAskedOK, GateAsked, CapabilitiesAreSigned
<1>3. UNCHANGED <<workspaces, home, revoked, expired, cut>>
  BY DEF Gate!InsertOwner
<1>4. CASE Gate!RoleOf(q.cap) = Gate!None
  <2>1. PICK role \in GateRole \ {Gate!None} : role = "owner"
    BY DEF GateRole, Gate!None
  <2>2. Gate!Assign(q.cap, role, [gateReq EXCEPT ![c] = Gate!Idle])
    BY <1>1, <1>4, <2>1 DEF Gate!InsertOwner
  <2>3. QED
    BY <1>1, <1>2, <1>3, <2>2, GateAssignOK
<1>5. CASE Gate!RoleOf(q.cap) # Gate!None
  <2>1. Gate!Reply(c) /\ UNCHANGED members
    BY <1>1, <1>5 DEF Gate!InsertOwner
  <2>2. GateRowsOK' /\ GateStays
    BY <1>3, <2>1 DEF GateIInv, GateRowsOK, GateIsMember, GateStays
  <2>3. GateMannedOK'
    <3>1. ASSUME NEW v \in workspaces' PROVE GateManned(v)'
      <4>1. GateManned(v)
        BY <1>3, <3>1 DEF GateIInv, GateMannedOK
      <4>2. CASE v = w
        BY <1>2, <1>5, <2>1, <4>2 DEF GateManned, GateIsMember, Gate!RoleOf
      <4>3. CASE v # w /\ \E d \in Client : Gate!At(d, "own") /\ gateReq[d].cap.workspace = v
        <5>1. PICK d \in Client : Gate!At(d, "own") /\ gateReq[d].cap.workspace = v
          BY <4>3
        <5>2. d # c
          BY <1>1, <1>2, <4>3, <5>1
        <5>3. gateReq'[d] = gateReq[d]
          BY <2>1, <5>2 DEF Gate!Reply, Gate!Become, GateIInv
        <5>4. QED
          BY <5>1, <5>3 DEF GateManned, Gate!At
      <4>4. CASE \E b \in Actor : GateIsMember(v, b)
        BY <2>1, <4>4 DEF GateManned, GateIsMember
      <4>5. QED
        BY <1>3, <4>1, <4>2, <4>3, <4>4 DEF GateManned
    <3>2. QED
      BY <3>1 DEF GateMannedOK
  <2>4. QED
    BY <2>1, <2>2, <2>3, GateReplyGoes, GateStepOfClient DEF GateGood
<1>6. QED
  BY <1>4, <1>5

LEMMA GateBeginJoinOK == ASSUME GateIInv, NEW c \in Client, Gate!BeginJoin(c) PROVE GateGood(c)
<1>1. PICK w \in workspaces, a \in Actor, role \in GateRole \ {Gate!None} :
        Gate!Become(c, [stage |-> "join", workspace |-> w, actor |-> a, role |-> role])
  BY GateRolesOK DEF Gate!BeginJoin
<1>2. UNCHANGED <<workspaces, members, home, revoked, cut>> /\ ~Gate!At(c, "own")
  BY DEF Gate!BeginJoin, Gate!At
<1> DEFINE r == [stage |-> "join", workspace |-> w, actor |-> a, role |-> role]
<1>3. r \in GateRequestType /\ r.stage = "join" /\ r.workspace = w
  BY DEF GateRequestType, GateJoining, GateIInv, GateRowsOK
<1>4. Gate!Become(c, r)
  BY <1>1
<1> HIDE DEF r
<1>5. GateRequestOK(r)'
  BY <1>2, <1>3 DEF GateRequestOK, GateAsking
<1>6. QED
  BY <1>2, <1>3, <1>4, <1>5, GateLooksOK DEF GateGoes

LEMMA GateJoinOK ==
  ASSUME CapabilitiesAreSigned, NamesAreNames, GateIInv, NEW c \in Client, Gate!Join(c)
  PROVE  GateIInv'
<1>1. PICK q \in GateJoining : q = gateReq[c] /\ q.stage = "join" /\ q.workspace \in workspaces
  BY DEF GateIInv, GateRequestType, GateAsked, GateAsking, GateRequestOK, Gate!Join, Gate!At
<1>2. PICK w \in workspaces, a \in Actor, role \in GateRole \ {Gate!None} :
        w = q.workspace /\ a = q.actor /\ role = q.role
  BY <1>1 DEF GateJoining
<1>3. Gate!Assign(q, role, [gateReq EXCEPT ![c] = Gate!Idle]) /\ ~Gate!At(c, "own")
      /\ UNCHANGED <<workspaces, home, revoked, cut>>
  BY <1>1, <1>2 DEF Gate!Join, Gate!At
<1>4. QED
  BY <1>2, <1>3, GateAssignOK

\* Nothing but what is denied or expired changes.
LEMMA GateRestOK ==
  ASSUME CapabilitiesAreSigned, NamesAreNames, GateIInv, revoked \subseteq revoked',
         UNCHANGED <<workspaces, members, home, cut, gateReq>>
  PROVE  GateIInv'
<1>1. GateRowsOK' /\ GateStays
  BY DEF GateIInv, GateRowsOK, GateIsMember, GateStays
<1>2. GateMannedOK'
  BY DEF GateIInv, GateMannedOK, GateManned, GateIsMember, Gate!At
<1>3. ASSUME NEW d \in Client PROVE GateRequestOK(gateReq[d])'
  <2>1. PICK q \in GateRequestType : q = gateReq[d] /\ GateRequestOK(q)
    BY DEF GateIInv
  <2>2. GateRequestOK(q)'
    BY <1>1, <2>1, GateRequestStable
  <2>3. gateReq'[d] = q
    BY <2>1
  <2>4. QED
    BY <2>2, <2>3 DEF GateRequestOK, GateAskedOK, Gate!DestinationFits, Gate!RoleOf
<1>4. QED
  BY <1>1, <1>2, <1>3 DEF GateIInv

\* Who dies over a new workspace leaves it cut short.
LEMMA GateDieOK ==
  ASSUME CapabilitiesAreSigned, GateIInv, NEW c \in Client, Gate!Die(c) PROVE GateGood(c)
<1>1. UNCHANGED <<workspaces, members, home, revoked, expired>> /\ Gate!Reply(c)
  BY DEF Gate!Die
<1>2. cut \subseteq cut' /\ cut' \subseteq Workspace /\ (Gate!At(c, "own") => gateReq[c].cap.workspace \in cut')
  <2>1. PICK q \in GateRequestType : q = gateReq[c] /\ GateRequestOK(q)
    BY DEF GateIInv
  <2>2. q.stage = "own" => q.cap.workspace \in Workspace
    BY DEF GateRequestType, GateAsked, GateJoining, CapabilitiesAreSigned
  <2>3. QED
    BY <2>1, <2>2 DEF Gate!Die, Gate!At, GateIInv, GateRowsOK
<1>3. \A d \in Client \ {c} : gateReq'[d] = gateReq[d]
  BY <1>1 DEF GateIInv, Gate!Reply, Gate!Become
<1>4. GateRowsOK' /\ GateStays
  BY <1>1, <1>2 DEF GateIInv, GateRowsOK, GateIsMember, GateStays
<1>5. GateMannedOK'
  <2>1. ASSUME NEW v \in workspaces' PROVE GateManned(v)'
    <3>1. GateManned(v)
      BY <1>1, <2>1 DEF GateIInv, GateMannedOK
    <3>2. CASE \E d \in Client : Gate!At(d, "own") /\ gateReq[d].cap.workspace = v
      BY <1>2, <1>3, <3>2 DEF GateManned, Gate!At
    <3>3. CASE \E b \in Actor : GateIsMember(v, b)
      BY <1>1, <3>3 DEF GateManned, GateIsMember
    <3>4. QED
      BY <1>2, <3>1, <3>2, <3>3 DEF GateManned
  <2>2. QED
    BY <2>1 DEF GateMannedOK
<1>6. QED
  BY <1>1, <1>4, <1>5, GateReplyGoes DEF GateGood

LEMMA GateInitOK == Gate!Init => GateIInv
<1>1. Gate!Idle \in GateRequestType /\ GateRequestOK(Gate!Idle)
  BY GateIdleOK DEF GateRequestOK, GateAsking
<1>2. Gate!Init => GateRowsOK /\ GateMannedOK
  BY DEF Gate!Init, GateRowsOK, GateMannedOK, GateIsMember, GateRole
<1>3. QED
  BY <1>1, <1>2 DEF Gate!Init, GateIInv

LEMMA GateNextOK ==
  ASSUME CapabilitiesAreSigned, NamesAreNames, GateIInv, [Gate!Next]_(Gate!vars) PROVE GateIInv'
<1>1. CASE UNCHANGED Gate!vars
  BY <1>1, GateRestOK DEF Gate!vars
<1>2. CASE Gate!Deny \/ Gate!Expire
  BY <1>2, GateRestOK DEF Gate!Deny, Gate!Expire
<1>3. ASSUME NEW c \in Client,
             \/ Gate!Arrive(c) \/ Gate!LookInDenylist(c) \/ Gate!LookAtMember(c) \/ Gate!Serve(c)
             \/ Gate!LookAtWorkspace(c) \/ Gate!InsertWorkspace(c) \/ Gate!InsertOwner(c)
             \/ Gate!BeginJoin(c) \/ Gate!Join(c) \/ Gate!Die(c)
      PROVE  GateIInv'
  <2>1. CASE Gate!InsertOwner(c) \/ Gate!Join(c)
    BY <2>1, GateInsertOwnerOK, GateJoinOK
  <2>2. CASE ~(Gate!InsertOwner(c) \/ Gate!Join(c))
    <3>1. GateGood(c)
      BY <1>3, <2>2, GateArriveOK, GateLookInDenylistOK, GateLookAtMemberOK, GateServeOK,
         GateLookAtWorkspaceOK,
         GateInsertWorkspaceOK, GateBeginJoinOK, GateDieOK
    <3>2. QED
      BY <3>1, GateStepOfClient
  <2>3. QED
    BY <2>1, <2>2
<1>4. QED
  BY <1>1, <1>2, <1>3 DEF Gate!Next

LEMMA GateGateFollows ==
  ASSUME CapabilitiesAreSigned, PathsAreCanonical, GateIInv PROVE Gate!GateKept
<1>1. ASSUME NEW c \in Client, Gate!At(c, "serve")
      PROVE  /\ ~gateReq[c].void /\ gateReq[c].fits
             /\ gateReq[c].cap.scopes \subseteq Gate!RoleScopes[gateReq[c].cap.role]
             /\ gateReq[c].ask.scope \in gateReq[c].cap.scopes
             /\ Gate!WorkspaceOf(gateReq[c].ask.on) \in {Gate!Any, gateReq[c].cap.workspace}
             /\ \A p \in Gate!Changes(gateReq[c].ask, gateReq[c].cap) : Gate!Within(p, gateReq[c].cap.prefix)
  <2>1. PICK q \in GateAsked : q = gateReq[c] /\ q.stage = "serve" /\ GateAskedOK(q)
    BY <1>1 DEF GateIInv, GateRequestType, GateJoining, GateRequestOK, GateAsking, Gate!At
  <2>2. q.ask \in Gate!Asks /\ q.cap \in Capability
    BY DEF GateAsked
  <2>3. \A p \in Gate!Changes(q.ask, q.cap) : Gate!Within(p, q.cap.prefix)
    BY <2>1, <2>2, GateChangesAreWithin DEF GateAskedOK, Gate!DestinationFits
  <2>4. QED
    BY <2>1, <2>3 DEF GateAskedOK, Gate!Signed, Gate!Narrows
<1>2. Gate!LetThrough
  BY <1>1 DEF Gate!LetThrough
<1>3. Gate!Peopled
  BY DEF GateIInv, GateRowsOK, GateMannedOK, GateManned, GateIsMember, Gate!Peopled
<1>4. QED
  BY <1>2, <1>3 DEF Gate!GateKept

\* For any number of capabilities and of requests under way, while capabilities are
\* denied and roles change: what is let through was not denied when it came, fits a
\* role its holder has had, on a row of its own workspace and inside its prefix.
THEOREM GateIsKept ==
  CapabilitiesAreSigned /\ PathsAreCanonical /\ NamesAreNames /\ Gate!Spec => []GateKept
<1> SUFFICES ASSUME CapabilitiesAreSigned, PathsAreCanonical, NamesAreNames
             PROVE  Gate!Spec => []GateKept
  OBVIOUS
<1>1. Gate!Init => GateIInv
  BY GateInitOK
<1>2. GateIInv /\ [Gate!Next]_(Gate!vars) => GateIInv'
  BY GateNextOK
<1>3. GateIInv => Gate!GateKept
  BY GateGateFollows
<1>4. QED
  BY <1>1, <1>2, <1>3, PTL DEF GateKept, Gate!Spec
-----------------------------------------------------------------------------
(* Delegations *)

LoopRead == [tool: AutomaticRead, turn: Nat]
LoopAttempt == [turn: Nat, candidate: Nat]
LoopJob == [stage: {"plan", "ground", "compile", "route", "call", "output", "tools"},
            turn: Nat, turns: Nat, compact: BOOLEAN, profile: BOOLEAN, plan: Seq(STRING),
            route: Seq(Delegate!Candidate), intents: Seq(Delegate!Intent), tried: Nat]

LoopCalls(t) == {i \in DOMAIN ran : ran[i].turn = t}

LoopTables == ran \in Seq(LoopRead) /\ asked \in Seq(LoopAttempt)

\* What a delegation has run and asked, at any time and when it is over: the
\* reads of the grounding come first, and are those of the plan.
LoopJobOK(j) ==
  /\ j.profile => \A i \in DOMAIN ran : ran[i].tool \in ProfileTool
  /\ ~j.profile => j.plan = <<>>
  /\ Len(j.route) \in Nat \ {0} /\ DOMAIN j.route = 1..Len(j.route)
  /\ \A i \in DOMAIN ran : ran[i].turn = 0 <=> i <= Len(j.plan)
  /\ \A i \in DOMAIN ran : i <= Len(j.plan) => ran[i].tool = j.plan[i]
  /\ Len(ran) <= Len(j.plan) => Len(ran) <= MaxLive
  /\ Len(ran) > Len(j.plan) => Len(j.plan) <= MaxLive /\ Len(ran) <= MaxCalls
  /\ \A t \in Nat \ {0} : Cardinality(LoopCalls(t)) <= MaxPerTurn
  /\ asked # <<>> => /\ Len(j.plan) <= Len(ran)
                     /\ \A i \in DOMAIN j.route : j.route[i] \in Delegate!Provider
  /\ \A i \in DOMAIN asked :
       asked[i].candidate = IF i > 1 /\ asked[i - 1].turn = asked[i].turn
                            THEN asked[i - 1].candidate + 1 ELSE 1

\* Where the delegation is in its turns.
LoopStageOK(j) ==
  /\ j.stage = "plan" => ran = <<>> /\ asked = <<>> /\ j.turn = 0 /\ j.profile
  /\ j.stage = "ground" => /\ asked = <<>> /\ j.turn = 0 /\ j.profile /\ Len(ran) <= Len(j.plan)
                           /\ Len(j.plan) <= MaxLive
                           /\ \A i \in DOMAIN j.plan : j.plan[i] \in ProfileTool
  /\ j.stage \notin {"plan", "ground"} =>
       j.turn # 0 /\ Len(j.plan) <= Len(ran) /\ \A i \in DOMAIN asked : asked[i].turn <= j.turn
  /\ j.stage \in {"compile", "route"} => \A i \in DOMAIN asked : asked[i].turn < j.turn
  /\ j.stage = "route" => j.tried = 0
  /\ j.stage = "call" => /\ Delegate!validateRouteEnvelope(j.route) /\ j.tried < Len(j.route)
                         /\ j.tried = 0 => \A i \in DOMAIN asked : asked[i].turn < j.turn
                         /\ j.tried # 0 => /\ asked # <<>>
                                           /\ asked[Len(asked)] = [turn |-> j.turn, candidate |-> j.tried]
  /\ j.stage \in {"output", "tools"} => asked # <<>>

LoopAnswerOK ==
  told # Delegate!Untold => /\ delegation = Delegate!Quiet /\ "job" \in DOMAIN told
                            /\ told.job \in LoopJob /\ LoopJobOK(told.job)
                            /\ Delegate!Answered

LoopIInv == /\ LoopTables
            /\ delegation \in {Delegate!Quiet} \cup LoopJob
            /\ delegation # Delegate!Quiet => LoopJobOK(delegation) /\ LoopStageOK(delegation)
            /\ LoopAnswerOK
            /\ delegation = Delegate!Quiet /\ told = Delegate!Untold => asked = <<>>

LEMMA LoopStages == /\ \A j \in LoopJob : j # Delegate!Quiet /\ j.stage # "quiet" /\ "profile" \in DOMAIN j
                    /\ Delegate!Quiet.stage = "quiet" /\ "profile" \notin DOMAIN Delegate!Quiet
                    /\ "job" \notin DOMAIN Delegate!Untold /\ ~Delegate!Untold.ok
BY DEF LoopJob, Delegate!Quiet, Delegate!Untold

LEMMA LoopJobFields ==
  ASSUME NEW j \in LoopJob PROVE j.turn \in Nat /\ j.tried \in Nat /\ Len(j.plan) \in Nat
BY DEF LoopJob

LEMMA LoopAttemptFields ==
  ASSUME LoopTables
  PROVE  asked \in Seq(LoopAttempt) /\ Len(asked) \in Nat /\ DOMAIN asked = 1..Len(asked)
         /\ \A i \in DOMAIN asked : asked[i].turn \in Nat /\ asked[i].candidate \in Nat
<1>1. asked \in Seq(LoopAttempt) /\ Len(asked) \in Nat /\ DOMAIN asked = 1..Len(asked)
  BY DEF LoopTables
<1>2. \A i \in DOMAIN asked : asked[i] \in LoopAttempt
  BY <1>1
<1>3. \A a \in LoopAttempt : a.turn \in Nat /\ a.candidate \in Nat
  BY DEF LoopAttempt
<1>4. QED
  BY <1>1, <1>2, <1>3

\* A delegation that is over leaves its reads and its attempts in its answer.
LEMMA LoopTellOK ==
  ASSUME LoopIInv, delegation # Delegate!Quiet, NEW ok \in BOOLEAN, NEW stop, NEW left \in Nat,
         NEW n \in Nat,
         Delegate!Tell(ok, stop, left, n), UNCHANGED ran, LoopTables',
         NEW j \in LoopJob, j = delegation, LoopJobOK(j)',
         ok => /\ \/ stop = "final_answer" /\ left = 0
                  \/ stop = "budget" /\ Len(ran) >= MaxCalls
               /\ n = Len(ran) /\ asked' # <<>>
  PROVE  LoopIInv'
<1>1. told' = [ok |-> ok, stop |-> stop, left |-> left, tools |-> n, job |-> j] /\ delegation' = Delegate!Quiet
  BY DEF Delegate!Tell
<1>2. "job" \in DOMAIN told' /\ told' # Delegate!Untold /\ told'.job = j /\ delegation' \in {Delegate!Quiet} \cup LoopJob
  BY <1>1 DEF Delegate!Untold
<1>3. LoopJobOK(told.job)'
  BY <1>2 DEF LoopJobOK, LoopCalls
<1>4. Delegate!Answered'
  BY <1>1 DEF Delegate!Answered
<1>5. QED
  BY <1>1, <1>2, <1>3, <1>4 DEF LoopIInv, LoopAnswerOK
LEMMA LoopFailOK ==
  ASSUME LoopIInv, NEW j \in LoopJob, j = delegation, NEW stop,
         Delegate!Fail(stop) \/ Delegate!FailEarly(stop), UNCHANGED ran,
         LoopTables', LoopJobOK(j)'
  PROVE  LoopIInv'
<1>1. delegation # Delegate!Quiet /\ Len(ran) \in Nat
  BY LoopStages DEF LoopIInv, LoopTables
<1>2. PICK n \in Nat : Delegate!Tell(FALSE, stop, 0, n)
  BY <1>1 DEF Delegate!Fail, Delegate!FailEarly
<1>3. QED
  BY <1>1, <1>2, LoopTellOK

\* What was run and asked is of the plan and the route, whatever the stage.
LEMMA LoopSameOK ==
  ASSUME NEW j \in LoopJob, NEW k \in LoopJob, LoopJobOK(j), UNCHANGED <<ran, asked>>, LoopTables,
         k.profile = j.profile, k.plan = j.plan, k.route = j.route
  PROVE  LoopJobOK(k)' /\ LoopTables'
<1>1. LoopCalls(1)' = LoopCalls(1) /\ \A t \in Nat : LoopCalls(t)' = LoopCalls(t)
  BY DEF LoopCalls
<1>2. QED
  BY <1>1 DEF LoopJobOK, LoopTables

LEMMA LoopStopOK ==
  ASSUME LoopIInv, NEW j \in LoopJob, j = delegation, LoopJobOK(j), NEW stop,
         Delegate!Fail(stop) \/ Delegate!FailEarly(stop),
         UNCHANGED <<ran, asked>>
  PROVE  LoopIInv'
<1>1. LoopTables /\ UNCHANGED ran
  BY DEF LoopIInv
<1>2. LoopJobOK(j)' /\ LoopTables'
  BY <1>1, LoopSameOK
<1>3. QED
  BY <1>1, <1>2, LoopFailOK

LEMMA LoopGoesOn ==
  ASSUME LoopIInv, NEW j \in LoopJob, j = delegation, NEW k \in LoopJob, delegation' = k,
         UNCHANGED told, LoopTables',
         LoopJobOK(k)', LoopStageOK(k)'
  PROVE  LoopIInv'
<1>1. told = Delegate!Untold /\ delegation # Delegate!Quiet
  BY LoopStages DEF LoopIInv, LoopAnswerOK
<1>2. LoopJobOK(delegation)' /\ LoopStageOK(delegation)' /\ delegation' # Delegate!Quiet
  BY LoopStages DEF LoopJobOK, LoopStageOK, LoopCalls
<1>3. QED
  BY <1>1, <1>2 DEF LoopIInv, LoopAnswerOK

LEMMA LoopRunOK ==
  ASSUME BudgetsAreNumbers, LoopTables, NEW j \in LoopJob, LoopJobOK(j),
         NEW tool \in AutomaticRead, NEW t \in Nat,
         ran' = Append(ran, [tool |-> tool, turn |-> t]), UNCHANGED asked,
         j.profile => tool \in ProfileTool, Len(j.plan) <= MaxLive,
         t = 0 => Len(ran) < Len(j.plan) /\ j.plan[Len(ran) + 1] = tool,
         t # 0 => /\ Len(j.plan) <= Len(ran) /\ Len(ran) < MaxCalls
                  /\ Cardinality(LoopCalls(t)) < MaxPerTurn
  PROVE  LoopJobOK(j)' /\ LoopTables' /\ Len(ran') = Len(ran) + 1
<1>1. /\ ran \in Seq(LoopRead) /\ Len(ran) \in Nat /\ ran' \in Seq(LoopRead) /\ Len(ran') = Len(ran) + 1
      /\ \A i \in 1..Len(ran) : ran'[i] = ran[i]
      /\ ran'[Len(ran) + 1] = [tool |-> tool, turn |-> t]
      /\ DOMAIN ran = 1..Len(ran) /\ DOMAIN ran' = 1..(Len(ran) + 1)
  BY DEF LoopTables, LoopRead
<1>2. Len(j.plan) \in Nat /\ MaxLive \in Nat /\ MaxCalls \in Nat /\ MaxPerTurn \in Nat
  BY DEF BudgetsAreNumbers, LoopJob
<1>3. ASSUME NEW u \in Nat \ {0} PROVE Cardinality(LoopCalls(u)') <= MaxPerTurn
  <2>1. IsFiniteSet(LoopCalls(u)) /\ Cardinality(LoopCalls(u)) \in Nat /\ Len(ran) + 1 \notin LoopCalls(u)
    <3>1. LoopCalls(u) \subseteq 1..Len(ran)
      BY <1>1 DEF LoopCalls
    <3>2. IsFiniteSet(1..Len(ran))
      BY <1>1, FS_Interval
    <3>3. IsFiniteSet(LoopCalls(u))
      BY <3>1, <3>2, FS_Subset
    <3>4. QED
      BY <1>1, <3>1, <3>3, FS_CardinalityType
  <2>2. Cardinality(LoopCalls(u)) <= MaxPerTurn
    BY DEF LoopJobOK
  <2>3. CASE u # t
    <3>1. LoopCalls(u)' = LoopCalls(u)
      BY <1>1, <2>3 DEF LoopCalls
    <3>2. QED
      BY <2>2, <3>1
  <2>4. CASE u = t
    <3>1. LoopCalls(u)' = LoopCalls(u) \cup {Len(ran) + 1}
      BY <1>1, <2>4 DEF LoopCalls
    <3>2. Cardinality(LoopCalls(u)') = Cardinality(LoopCalls(u)) + 1
      BY <2>1, <3>1, FS_AddElement
    <3>3. QED
      BY <1>2, <2>1, <2>4, <3>2
  <2>5. QED
    BY <2>3, <2>4
<1>4. \A u \in Nat \ {0} : (Cardinality(LoopCalls(u)) <= MaxPerTurn)'
  BY <1>3
<1>5. \A i \in DOMAIN ran' : (ran'[i].turn = 0 <=> i <= Len(j.plan)) /\ (i <= Len(j.plan) => ran'[i].tool = j.plan[i])
  BY <1>1, <1>2 DEF LoopJobOK
<1>6. j.profile => \A i \in DOMAIN ran' : ran'[i].tool \in ProfileTool
  BY <1>1 DEF LoopJobOK
<1>7. /\ Len(ran') <= Len(j.plan) => Len(ran') <= MaxLive
      /\ Len(ran') > Len(j.plan) => Len(j.plan) <= MaxLive /\ Len(ran') <= MaxCalls
      /\ asked # <<>> => Len(j.plan) <= Len(ran')
  BY <1>1, <1>2 DEF LoopJobOK
<1>8. QED
  BY <1>1, <1>4, <1>5, <1>6, <1>7 DEF LoopJobOK, LoopTables

LEMMA LoopRoutesAreLists ==
  \A r \in Delegate!Routes : r \in Seq(Delegate!Candidate) /\ Len(r) \in Nat \ {0} /\ DOMAIN r = 1..Len(r)
<1>1. ASSUME NEW r \in Delegate!Routes PROVE r \in Seq(Delegate!Candidate) /\ Len(r) \in Nat \ {0} /\ DOMAIN r = 1..Len(r)
  <2>1. PICK n \in 1..MaxRoute : r \in [1..n -> Delegate!Candidate]
    BY DEF Delegate!Routes
  <2>2. n \in Nat \ {0} /\ DOMAIN r = 1..n
    BY <2>1
  <2>3. r \in Seq(Delegate!Candidate)
    BY <2>1, <2>2, SeqDef
  <2>4. DOMAIN r = 1..Len(r) /\ Len(r) \in Nat
    BY <2>3
  <2>5. 1 \in 1..Len(r)
    BY <2>2, <2>4
  <2>6. QED
    BY <2>3, <2>4, <2>5
<1>2. QED
  BY <1>1

LEMMA LoopBeginOK == ASSUME BudgetsAreNumbers, LoopIInv, Delegate!Begin PROVE LoopIInv'
<1>1. Delegate!Fresh /\ UNCHANGED <<ran, asked, told>>
  BY DEF Delegate!Begin
<1>2. ran' = <<>> /\ asked' = <<>> /\ told' = Delegate!Untold
  BY <1>1 DEF Delegate!Fresh, LoopIInv
<1>3. PICK turns \in 1..MaxTurns, compact \in BOOLEAN, plan \in Plan \cup {Delegate!NoProfile}, route \in Delegate!Routes :
       LET profile == plan # Delegate!NoProfile IN
       delegation' = [stage |-> IF profile THEN "plan" ELSE "compile",
                      turn |-> IF profile THEN 0 ELSE 1, turns |-> turns, compact |-> compact,
                      profile |-> profile, plan |-> IF profile THEN plan ELSE <<>>,
                      route |-> route, intents |-> <<>>, tried |-> 0]
  BY <1>1, Zenon DEF Delegate!Begin
<1>4. route \in Seq(Delegate!Candidate) /\ Len(route) \in Nat \ {0} /\ DOMAIN route = 1..Len(route) /\ turns \in Nat /\ compact \in BOOLEAN /\ <<>> \in Seq(Delegate!Intent)
  BY LoopRoutesAreLists
<1>5. \A t \in Nat : Cardinality(LoopCalls(t))' = 0
  <2>1. ASSUME NEW t \in Nat PROVE LoopCalls(t)' = {}
    BY <1>2 DEF LoopCalls
  <2>2. QED
    BY <2>1, FS_EmptySet
<1>6. \E k \in LoopJob : delegation' = k /\ LoopJobOK(k)' /\ LoopStageOK(k)'
  <2>1. CASE plan = Delegate!NoProfile
    <3> DEFINE k == [stage |-> "compile", turn |-> 1, turns |-> turns, compact |-> compact,
                     profile |-> FALSE, plan |-> <<>>, route |-> route, intents |-> <<>>, tried |-> 0]
    <3>1. delegation' = k
      BY <1>3, <2>1, Zenon
    <3>2. <<>> \in Seq(STRING)
      OBVIOUS
    <3>3. k \in LoopJob
      BY <1>4, <3>2 DEF LoopJob
    <3>4. LoopJobOK(k)'
      BY <1>2, <1>4, <1>5 DEF LoopJobOK, BudgetsAreNumbers
    <3>5. LoopStageOK(k)'
      BY <1>2 DEF LoopStageOK
    <3>6. QED
      BY <3>1, <3>3, <3>4, <3>5
  <2>2. CASE plan # Delegate!NoProfile
    <3> DEFINE k == [stage |-> "plan", turn |-> 0, turns |-> turns, compact |-> compact,
                     profile |-> TRUE, plan |-> plan, route |-> route, intents |-> <<>>, tried |-> 0]
    <3>1. delegation' = k
      BY <1>3, <2>2, Zenon
    <3>2. plan \in Seq(STRING) /\ Len(plan) \in Nat
      BY <2>2 DEF BudgetsAreNumbers
    <3>3. k \in LoopJob
      BY <1>4, <3>2 DEF LoopJob
    <3>4. LoopJobOK(k)'
      BY <1>2, <1>4, <1>5, <3>2 DEF LoopJobOK, BudgetsAreNumbers
    <3>5. LoopStageOK(k)'
      BY <1>2 DEF LoopStageOK
    <3>6. QED
      BY <3>1, <3>3, <3>4, <3>5
  <2>3. QED
    BY <2>1, <2>2
<1>7. PICK k \in LoopJob : delegation' = k /\ LoopJobOK(k)' /\ LoopStageOK(k)'
  BY <1>6
<1>8. LoopJobOK(delegation)' /\ LoopStageOK(delegation)'
  BY <1>7 DEF LoopJobOK, LoopStageOK, LoopCalls
<1>9. LoopTables' /\ delegation' # Delegate!Quiet
  BY <1>2, <1>7, LoopStages DEF LoopTables
<1>10. QED
  BY <1>2, <1>7, <1>8, <1>9 DEF LoopIInv, LoopAnswerOK

LEMMA LoopForgetOK == ASSUME LoopIInv, Delegate!Forget PROVE LoopIInv'
BY LoopStages DEF LoopIInv, Delegate!Forget, LoopTables, LoopAnswerOK

LEMMA LoopToolExecuteOK == ASSUME LoopIInv, Delegate!ToolExecute PROVE LoopIInv'
<1>1. PICK intent \in Delegate!Intent : intent.tool \in AutomaticRead /\ ran' = <<[tool |-> intent.tool, turn |-> 0]>>
  BY DEF Delegate!ToolExecute, Delegate!MayRun
<1>2. ran' \in Seq(LoopRead)
  BY <1>1 DEF LoopRead
<1>3. Delegate!Fresh /\ UNCHANGED <<delegation, asked, told>>
  BY DEF Delegate!ToolExecute
<1>4. QED
  BY <1>2, <1>3 DEF LoopIInv, LoopTables, Delegate!Fresh, LoopAnswerOK

LEMMA LoopPlanReadsOK == ASSUME LoopIInv, Delegate!PlanReads PROVE LoopIInv'
<1>1. PICK j \in LoopJob : j = delegation /\ j.stage = "plan" /\ LoopJobOK(j) /\ LoopStageOK(j)
  BY LoopStages DEF LoopIInv, Delegate!PlanReads
<1>2. UNCHANGED <<ran, asked>> /\ LoopTables
  BY DEF Delegate!PlanReads, LoopIInv
<1>3. CASE Delegate!FailEarly("plan")
  BY <1>1, <1>2, <1>3, LoopStopOK
<1>4. CASE /\ Delegate!Go("ground") /\ UNCHANGED told
           /\ \A i \in DOMAIN delegation.plan : delegation.plan[i] \in ProfileTool
           /\ Len(delegation.plan) <= MaxLive
  <2>1. PICK k \in LoopJob : k = [j EXCEPT !.stage = "ground"] /\ delegation' = k
    BY <1>1, <1>4 DEF Delegate!Go, LoopJob
  <2>2. LoopJobOK(k)' /\ LoopTables'
    BY <1>1, <1>2, <2>1, LoopSameOK DEF LoopJob
  <2>3. LoopStageOK(k)'
    BY <1>1, <1>2, <1>4, <2>1 DEF LoopStageOK, LoopJob
  <2>4. QED
    BY <1>1, <1>4, <2>1, <2>2, <2>3, LoopGoesOn
<1>5. QED
  BY <1>3, <1>4 DEF Delegate!PlanReads

LEMMA LoopGroundOK == ASSUME BudgetsAreNumbers, LoopIInv, Delegate!Ground PROVE LoopIInv'
<1>1. PICK j \in LoopJob : j = delegation /\ j.stage = "ground" /\ LoopJobOK(j) /\ LoopStageOK(j)
  BY LoopStages DEF LoopIInv, Delegate!Ground
<1>2. UNCHANGED asked /\ LoopTables /\ Len(ran) \in Nat /\ Len(j.plan) \in Nat
  <2>1. UNCHANGED asked
    BY DEF Delegate!Ground
  <2>2. LoopTables /\ Len(ran) \in Nat
    BY DEF LoopIInv, LoopTables
  <2>3. Len(j.plan) \in Nat
    BY DEF LoopJob
  <2>4. QED
    BY <2>1, <2>2, <2>3
<1>3. asked = <<>> /\ j.turn = 0 /\ j.profile /\ Len(ran) <= Len(j.plan) /\ Len(j.plan) <= MaxLive
      /\ \A i \in DOMAIN j.plan : j.plan[i] \in ProfileTool
  BY <1>1 DEF LoopStageOK
<1>4. CASE Len(ran) = Len(j.plan)
  <2>1. UNCHANGED ran /\ (\/ delegation' = [j EXCEPT !.stage = "compile", !.turn = 1] /\ UNCHANGED told
                          \/ Delegate!FailEarly("too large"))
    BY <1>1, <1>4 DEF Delegate!Ground
  <2>2. CASE Delegate!FailEarly("too large")
    BY <1>1, <1>2, <2>1, <2>2, LoopStopOK
  <2>3. CASE delegation' = [j EXCEPT !.stage = "compile", !.turn = 1] /\ UNCHANGED told
    <3>1. PICK k \in LoopJob : k = [j EXCEPT !.stage = "compile", !.turn = 1] /\ delegation' = k
      BY <2>3 DEF LoopJob
    <3>2. LoopJobOK(k)' /\ LoopTables'
      BY <1>1, <1>2, <2>1, <3>1, LoopSameOK DEF LoopJob
    <3>3. LoopStageOK(k)'
      <4>1. k.stage = "compile" /\ k.turn = 1 /\ k.plan = j.plan
        BY <3>1 DEF LoopJob
      <4>2. Len(k.plan) <= Len(ran')
        <5>1. UNCHANGED ran
          BY <2>1
        <5>2. QED
          BY <1>2, <1>4, <4>1, <5>1
      <4>3. asked' = <<>>
        BY <1>2, <1>3
      <4>4. QED
        BY <4>1, <4>2, <4>3 DEF LoopStageOK
    <3>4. QED
      BY <1>1, <2>3, <3>1, <3>2, <3>3, LoopGoesOn
  <2>4. QED
    BY <2>1, <2>2, <2>3
<1>5. CASE Len(ran) # Len(j.plan)
  <2>1. PICK tool : tool = j.plan[Len(ran) + 1]
    OBVIOUS
  <2>2. \/ /\ tool \in AutomaticRead
           /\ ran' = Append(ran, [tool |-> tool, turn |-> 0])
           /\ UNCHANGED <<delegation, told>>
        \/ Delegate!FailEarly("live read") /\ UNCHANGED ran
    BY <1>1, <1>3, <1>5, <2>1 DEF Delegate!Ground, Delegate!MayRun, Delegate!Run
  <2>3. CASE Delegate!FailEarly("live read") /\ UNCHANGED ran
    BY <1>1, <1>2, <2>3, LoopStopOK
  <2>4. CASE /\ tool \in AutomaticRead
             /\ ran' = Append(ran, [tool |-> tool, turn |-> 0])
             /\ UNCHANGED <<delegation, told>>
    <3>1. tool \in ProfileTool /\ Len(ran) < Len(j.plan)
      BY <1>2, <1>3, <1>5, <2>1 DEF LoopJob
    <3>2. LoopJobOK(j)' /\ LoopTables' /\ Len(ran') = Len(ran) + 1
      BY <1>1, <1>2, <1>3, <2>1, <2>4, <3>1, LoopRunOK
    <3>3. LoopStageOK(j)'
      BY <1>1, <1>2, <1>3, <3>1, <3>2 DEF LoopStageOK
    <3>4. delegation' = j
      BY <1>1, <2>4
    <3>5. QED
      BY <1>1, <2>4, <3>2, <3>3, <3>4, LoopGoesOn
  <2>5. QED
    BY <2>2, <2>3, <2>4
<1>6. QED
  BY <1>4, <1>5
LEMMA LoopCompileOK == ASSUME LoopIInv, Delegate!Compile PROVE LoopIInv'
<1>1. PICK j \in LoopJob : j = delegation /\ j.stage = "compile" /\ LoopJobOK(j) /\ LoopStageOK(j)
  BY LoopStages DEF LoopIInv, Delegate!Compile
<1>2. UNCHANGED <<ran, asked>> /\ LoopTables
  BY DEF Delegate!Compile, LoopIInv
<1>3. CASE \E stop : Delegate!Fail(stop) \/ Delegate!FailEarly(stop)
  BY <1>1, <1>2, <1>3, LoopStopOK
<1>4. CASE delegation' = [delegation EXCEPT !.stage = "route", !.tried = 0] /\ UNCHANGED told
  <2>1. PICK k \in LoopJob : k = [j EXCEPT !.stage = "route", !.tried = 0] /\ delegation' = k
    BY <1>1, <1>4 DEF LoopJob
  <2>2. LoopJobOK(k)' /\ LoopTables'
    BY <1>1, <1>2, <2>1, LoopSameOK DEF LoopJob
  <2>3. k.stage = "route" /\ k.tried = 0 /\ k.turn = j.turn /\ k.plan = j.plan
    BY <2>1 DEF LoopJob
  <2>4. LoopStageOK(k)'
    BY <1>1, <1>2, <2>3 DEF LoopStageOK
  <2>5. QED
    BY <1>1, <1>4, <2>1, <2>2, <2>4, LoopGoesOn
<1>5. QED
  BY <1>3, <1>4, Zenon DEF Delegate!Compile

LEMMA LoopRouteOK == ASSUME LoopIInv, Delegate!Route PROVE LoopIInv'
<1>1. PICK j \in LoopJob : j = delegation /\ j.stage = "route" /\ LoopJobOK(j) /\ LoopStageOK(j)
  BY LoopStages DEF LoopIInv, Delegate!Route
<1>2. UNCHANGED <<ran, asked>> /\ LoopTables
  BY DEF Delegate!Route, LoopIInv
<1>3. CASE Delegate!Fail("route")
  BY <1>1, <1>2, <1>3, LoopStopOK
<1>4. CASE Delegate!validateRouteEnvelope(delegation.route) /\ Delegate!Go("call") /\ UNCHANGED told
  <2>1. PICK k \in LoopJob : k = [j EXCEPT !.stage = "call"] /\ delegation' = k
    BY <1>1, <1>4 DEF LoopJob, Delegate!Go
  <2>2. LoopJobOK(k)' /\ LoopTables'
    BY <1>1, <1>2, <2>1, LoopSameOK DEF LoopJob
  <2>3. k.stage = "call" /\ k.tried = 0 /\ k.turn = j.turn /\ k.turn # 0 /\ k.plan = j.plan /\ k.route = j.route
        /\ Len(j.plan) <= Len(ran)
        /\ \A i \in DOMAIN asked : asked[i].turn < j.turn
    BY <1>1, <2>1 DEF LoopJob, LoopStageOK
  <2>4. j.turn \in Nat /\ (\A i \in DOMAIN asked : asked[i].turn \in Nat) /\ 0 < Len(j.route)
    BY <1>1, <1>2, LoopJobFields, LoopAttemptFields DEF LoopJobOK
  <2>5. LoopStageOK(k)'
    BY <1>1, <1>2, <1>4, <2>3, <2>4 DEF LoopStageOK
  <2>6. QED
    BY <1>1, <1>4, <2>1, <2>2, <2>5, LoopGoesOn
<1>5. QED
  BY <1>3, <1>4, Zenon DEF Delegate!Route

\* What an adapter returns is a list of intents.
LEMMA LoopResultsAreSaid ==
  ASSUME NEW provider \in Delegate!Provider,
         NEW result \in Delegate!Results(provider, Delegate!Proposals)
  PROVE  result.ok \in BOOLEAN /\ result.intents \in Seq(Delegate!Intent)
<1>1. Delegate!Proposals \subseteq Seq(Delegate!Intent)
  BY SeqDef DEF Delegate!Proposals
<1>2. <<>> \in Seq(Delegate!Intent)
  OBVIOUS
<1>3. result \in {Delegate!Said(p) : p \in Seq(Delegate!Intent)} \cup {Delegate!Failed}
  BY <1>1, <1>2 DEF Delegate!Results, Delegate!Provider, Delegate!Mocked, Delegate!WorkersAi,
     Delegate!OpenAi, Delegate!Anthropic, Delegate!ByKey
<1>4. CASE result = Delegate!Failed
  BY <1>2, <1>4 DEF Delegate!Failed
<1>5. CASE result # Delegate!Failed
  <2>1. PICK p \in Seq(Delegate!Intent) : result = Delegate!Said(p)
    BY <1>3, <1>5
  <2>2. QED
    BY <2>1 DEF Delegate!Said
<1>6. QED
  BY <1>4, <1>5

\* One more candidate is asked.
LEMMA LoopAskOK ==
  ASSUME LoopTables, NEW j \in LoopJob, LoopJobOK(j), LoopStageOK(j), j.stage = "call",
         UNCHANGED ran,
         asked' = Append(asked, [turn |-> j.turn, candidate |-> j.tried + 1])
  PROVE  /\ LoopTables' /\ LoopJobOK(j)' /\ asked' # <<>>
         /\ \A i \in DOMAIN asked' : asked'[i].turn <= j.turn
         /\ asked'[Len(asked')] = [turn |-> j.turn, candidate |-> j.tried + 1]
<1>0. PICK a \in LoopAttempt : a = [turn |-> j.turn, candidate |-> j.tried + 1]
  BY LoopJobFields DEF LoopAttempt
<1>1. /\ asked \in Seq(LoopAttempt) /\ Len(asked) \in Nat /\ Len(asked') = Len(asked) + 1
      /\ \A i \in 1..Len(asked) : asked'[i] = asked[i]
      /\ asked'[Len(asked) + 1] = [turn |-> j.turn, candidate |-> j.tried + 1]
      /\ DOMAIN asked = 1..Len(asked) /\ DOMAIN asked' = 1..(Len(asked) + 1)
      /\ asked' \in Seq(LoopAttempt) /\ asked' # <<>>
  BY <1>0 DEF LoopTables
<1>2. /\ j.turn \in Nat /\ j.tried \in Nat /\ Len(j.plan) \in Nat
      /\ \A i \in 1..Len(asked) : asked[i].turn \in Nat /\ asked[i].candidate \in Nat
  BY <1>1, LoopJobFields, LoopAttemptFields
<1>3. /\ j.turn # 0 /\ Len(j.plan) <= Len(ran) /\ Delegate!validateRouteEnvelope(j.route)
      /\ \A i \in 1..Len(asked) : asked[i].turn <= j.turn
      /\ j.tried = 0 => \A i \in 1..Len(asked) : asked[i].turn < j.turn
      /\ j.tried # 0 => asked # <<>> /\ asked[Len(asked)] = [turn |-> j.turn, candidate |-> j.tried]
  BY <1>1 DEF LoopStageOK
<1>4. \A i \in DOMAIN j.route : j.route[i] \in Delegate!Provider
  BY <1>3 DEF Delegate!validateRouteEnvelope
<1>5. \A i \in DOMAIN asked' :
        asked'[i].candidate = IF i > 1 /\ asked'[i - 1].turn = asked'[i].turn
                              THEN asked'[i - 1].candidate + 1 ELSE 1
  <2>1. ASSUME NEW i \in 1..Len(asked)
        PROVE  asked'[i].candidate = IF i > 1 /\ asked'[i - 1].turn = asked'[i].turn
                                     THEN asked'[i - 1].candidate + 1 ELSE 1
    <3>1. i > 1 => i - 1 \in 1..Len(asked)
      BY <1>1
    <3>2. asked[i].candidate = IF i > 1 /\ asked[i - 1].turn = asked[i].turn
                               THEN asked[i - 1].candidate + 1 ELSE 1
      BY <1>1 DEF LoopJobOK
    <3>3. QED
      BY <1>1, <3>1, <3>2
  <2>2. ASSUME NEW i, i = Len(asked) + 1
        PROVE  asked'[i].candidate = IF i > 1 /\ asked'[i - 1].turn = asked'[i].turn
                                     THEN asked'[i - 1].candidate + 1 ELSE 1
    <3>0. i - 1 = Len(asked) /\ (i > 1 => i - 1 \in 1..Len(asked)) /\ i \in Nat
          /\ asked'[i] = [turn |-> j.turn, candidate |-> j.tried + 1]
      BY <1>1, <2>2
    <3>1. CASE j.tried = 0
      <4>1. i > 1 => asked'[i - 1].turn < j.turn /\ asked'[i - 1].turn \in Nat
        BY <1>1, <1>2, <1>3, <3>0, <3>1
      <4>2. QED
        BY <1>2, <3>0, <3>1, <4>1
    <3>2. CASE j.tried # 0
      <4>1. Len(asked) # 0
        BY <1>1, <1>3, <3>2
      <4>2. asked'[i - 1] = [turn |-> j.turn, candidate |-> j.tried] /\ i > 1
        BY <1>1, <1>3, <3>0, <3>2, <4>1
      <4>3. QED
        BY <3>0, <4>2
    <3>3. QED
      BY <3>1, <3>2
  <2>3. QED
    BY <1>1, <2>1, <2>2
<1>6. \A i \in DOMAIN asked' : asked'[i].turn <= j.turn
  BY <1>1, <1>2, <1>3
<1>7. \A t \in Nat : LoopCalls(t)' = LoopCalls(t)
  BY DEF LoopCalls
<1>8. LoopJobOK(j)'
  BY <1>3, <1>4, <1>5, <1>7 DEF LoopJobOK
<1>9. QED
  BY <1>1, <1>6, <1>8 DEF LoopTables
LEMMA LoopCallOK == ASSUME LoopIInv, Delegate!Call PROVE LoopIInv'
<1>1. PICK j \in LoopJob : j = delegation /\ j.stage = "call" /\ LoopJobOK(j) /\ LoopStageOK(j)
  BY LoopStages DEF LoopIInv, Delegate!Call
<1>2. UNCHANGED ran /\ LoopTables /\ asked' = Append(asked, [turn |-> j.turn, candidate |-> j.tried + 1])
  BY <1>1 DEF Delegate!Call, LoopIInv
<1>3. /\ LoopTables' /\ LoopJobOK(j)' /\ asked' # <<>>
      /\ \A i \in DOMAIN asked' : asked'[i].turn <= j.turn
      /\ asked'[Len(asked')] = [turn |-> j.turn, candidate |-> j.tried + 1]
  BY <1>1, <1>2, LoopAskOK
<1>4. CASE Delegate!Fail("route")
  BY <1>1, <1>2, <1>3, <1>4, LoopFailOK
<1>5. j.turn # 0 /\ Len(j.plan) <= Len(ran') /\ Delegate!validateRouteEnvelope(j.route) /\ j.tried \in Nat
  BY <1>1, <1>2, LoopJobFields DEF LoopStageOK
<1>6. CASE j.tried + 1 < Len(j.route) /\ delegation' = [delegation EXCEPT !.tried = @ + 1] /\ UNCHANGED told
  <2>1. PICK k \in LoopJob : /\ delegation' = k /\ k.stage = "call" /\ k.tried = j.tried + 1 /\ k.turn = j.turn
                             /\ k.profile = j.profile /\ k.plan = j.plan /\ k.route = j.route
    <3>1. [j EXCEPT !.tried = @ + 1] \in LoopJob
      BY <1>5 DEF LoopJob
    <3>2. QED
      BY <1>1, <1>6, <3>1 DEF LoopJob
  <2>2. LoopJobOK(k)'
    BY <1>3, <2>1 DEF LoopJobOK
  <2>3. LoopStageOK(k)'
    BY <1>3, <1>5, <1>6, <2>1 DEF LoopStageOK
  <2>4. QED
    BY <1>1, <1>3, <1>6, <2>1, <2>2, <2>3, LoopGoesOn
<1>7. CASE \E result \in Delegate!Results(j.route[j.tried + 1], Delegate!Proposals) :
             delegation' = [delegation EXCEPT !.stage = "output", !.intents = result.intents] /\ UNCHANGED told
  <2>1. PICK result \in Delegate!Results(j.route[j.tried + 1], Delegate!Proposals) :
             delegation' = [j EXCEPT !.stage = "output", !.intents = result.intents] /\ UNCHANGED told
    BY <1>1, <1>7
  <2>2. j.route[j.tried + 1] \in Delegate!Provider
    BY <1>1, <1>3, LoopJobFields DEF LoopStageOK, LoopJobOK
  <2>3. result.intents \in Seq(Delegate!Intent)
    BY <2>2, LoopResultsAreSaid
  <2>4. PICK k \in LoopJob : /\ delegation' = k /\ k.stage = "output" /\ k.turn = j.turn
                             /\ k.profile = j.profile /\ k.plan = j.plan /\ k.route = j.route
    <3>1. [j EXCEPT !.stage = "output", !.intents = result.intents] \in LoopJob
      BY <2>3 DEF LoopJob
    <3>2. QED
      BY <2>1, <3>1 DEF LoopJob
  <2>5. LoopJobOK(k)'
    BY <1>3, <2>4 DEF LoopJobOK
  <2>6. LoopStageOK(k)'
    BY <1>3, <1>5, <2>4 DEF LoopStageOK
  <2>7. QED
    BY <1>1, <1>3, <2>1, <2>4, <2>5, <2>6, LoopGoesOn
<1>8. QED
  BY <1>1, <1>4, <1>6, <1>7, Zenon DEF Delegate!Call

LEMMA LoopOutputOK == ASSUME LoopIInv, Delegate!Output PROVE LoopIInv'
<1>1. PICK j \in LoopJob : j = delegation /\ j.stage = "output" /\ LoopJobOK(j) /\ LoopStageOK(j)
  BY LoopStages DEF LoopIInv, Delegate!Output
<1>2. UNCHANGED <<ran, asked>> /\ LoopTables /\ asked # <<>> /\ Len(ran) \in Nat
  <2>1. UNCHANGED <<ran, asked>>
    BY DEF Delegate!Output
  <2>2. LoopTables /\ Len(ran) \in Nat
    BY DEF LoopIInv, LoopTables
  <2>3. asked # <<>>
    BY <1>1 DEF LoopStageOK
  <2>4. QED
    BY <2>1, <2>2, <2>3
<1>3. PICK left \in Nat : left = Len(j.intents)
  BY DEF LoopJob
<1>4. LoopJobOK(j)' /\ LoopTables' /\ delegation # Delegate!Quiet
  BY <1>1, <1>2, LoopSameOK, LoopStages
<1>5. CASE \E stop : Delegate!Fail(stop)
  BY <1>1, <1>2, <1>5, LoopStopOK
<1>6. CASE left = 0 /\ Delegate!Answer("final_answer", 0)
  <2>1. CASE Delegate!Fail("over cap")
    BY <1>5, <2>1
  <2>2. CASE Delegate!Tell(TRUE, "final_answer", 0, Len(ran))
    BY <1>1, <1>2, <1>4, <2>2, LoopTellOK
  <2>3. QED
    BY <1>6, <2>1, <2>2, Zenon DEF Delegate!Answer
<1>7. CASE Delegate!Exhausted /\ Delegate!Answer("budget", left)
  <2>1. CASE Delegate!Fail("over cap")
    BY <1>5, <2>1
  <2>2. CASE Delegate!Tell(TRUE, "budget", left, Len(ran))
    BY <1>1, <1>2, <1>4, <1>7, <2>2, LoopTellOK DEF Delegate!Exhausted
  <2>3. QED
    BY <1>7, <2>1, <2>2, Zenon DEF Delegate!Answer
<1>8. CASE Delegate!Go("tools") /\ UNCHANGED told
  <2>1. PICK k \in LoopJob : k = [j EXCEPT !.stage = "tools"] /\ delegation' = k
    BY <1>1, <1>8 DEF LoopJob, Delegate!Go
  <2>2. LoopJobOK(k)'
    BY <1>1, <1>2, <2>1, LoopSameOK DEF LoopJob
  <2>3. k.stage = "tools" /\ k.turn = j.turn /\ k.plan = j.plan
    BY <2>1 DEF LoopJob
  <2>4. LoopStageOK(k)'
    BY <1>1, <1>2, <2>3 DEF LoopStageOK
  <2>5. QED
    BY <1>1, <1>4, <1>8, <2>1, <2>2, <2>4, LoopGoesOn
<1>9. CASE Delegate!Fail("intent forbidden")
  BY <1>5, <1>9
<1>10. (left = 0 /\ Delegate!Answer("final_answer", 0)) \/ Delegate!Fail("intent forbidden")
       \/ (Delegate!Exhausted /\ Delegate!Answer("budget", left)) \/ (Delegate!Go("tools") /\ UNCHANGED told)
  BY <1>1, <1>3, Zenon DEF Delegate!Output
<1>11. QED
  BY <1>6, <1>7, <1>8, <1>9, <1>10
LEMMA LoopHereIs == \A t : Delegate!Here(t) = Cardinality(LoopCalls(t))
BY DEF Delegate!Here, LoopCalls, Cardinality, Delegate!Cardinality

\* The plan fits the live reads of the profile once the grounding is over.
LEMMA LoopPlanFits ==
  ASSUME NEW j \in LoopJob, LoopJobOK(j), LoopTables,
         Len(j.plan) <= Len(ran) PROVE Len(j.plan) <= MaxLive
<1>1. Len(ran) \in Nat /\ Len(j.plan) \in Nat
  BY LoopJobFields DEF LoopTables
<1>2. QED
  BY <1>1 DEF LoopJobOK

LEMMA LoopToolsOK == ASSUME BudgetsAreNumbers, LoopIInv, Delegate!Tools PROVE LoopIInv'
<1>1. PICK j \in LoopJob : j = delegation /\ j.stage = "tools" /\ LoopJobOK(j) /\ LoopStageOK(j)
  BY LoopStages DEF LoopIInv, Delegate!Tools
<1>2. UNCHANGED asked /\ LoopTables /\ asked # <<>> /\ Len(ran) \in Nat
  <2>1. UNCHANGED asked
    BY DEF Delegate!Tools
  <2>2. LoopTables /\ Len(ran) \in Nat
    BY DEF LoopIInv, LoopTables
  <2>3. asked # <<>>
    BY <1>1 DEF LoopStageOK
  <2>4. QED
    BY <2>1, <2>2, <2>3
<1>3. CASE Delegate!Fail("stopped") /\ UNCHANGED ran
  BY <1>1, <1>2, <1>3, LoopStopOK
<1>4. CASE ~(Delegate!Fail("stopped") /\ UNCHANGED ran)
  <2>1. PICK tool : /\ tool \in AutomaticRead /\ tool \in Delegate!allowlist /\ ~Delegate!Exhausted
                    /\ Delegate!Here(j.turn) < MaxPerTurn
                    /\ ran' = Append(ran, [tool |-> tool, turn |-> j.turn])
                    /\ delegation' = [delegation EXCEPT !.intents = Tail(@)]
                    /\ UNCHANGED told /\ delegation.intents # <<>>
    BY <1>1, <1>4 DEF Delegate!Tools, Delegate!MayRun, Delegate!Run
  <2>2. j.turn # 0 /\ j.turn \in Nat /\ Len(j.plan) <= Len(ran) /\ \A i \in DOMAIN asked : asked[i].turn <= j.turn
    BY <1>1, LoopJobFields DEF LoopStageOK
  <2>3. j.profile => tool \in ProfileTool
    BY <1>1, <2>1 DEF Delegate!allowlist
  <2>4. Len(ran) < MaxCalls
    BY <1>2, <2>1 DEF Delegate!Exhausted, BudgetsAreNumbers
  <2>5. Cardinality(LoopCalls(j.turn)) < MaxPerTurn
    BY <2>1, LoopHereIs
  <2>6. LoopJobOK(j)' /\ LoopTables' /\ Len(ran') = Len(ran) + 1
    <3>1. Len(j.plan) <= MaxLive
      BY <1>1, <1>2, <2>2, LoopPlanFits
    <3>2. QED
      BY <1>1, <1>2, <2>1, <2>2, <2>3, <2>4, <2>5, <3>1, LoopRunOK
  <2>7. PICK k \in LoopJob : /\ delegation' = k /\ k.stage = "tools" /\ k.turn = j.turn
                             /\ k.profile = j.profile /\ k.plan = j.plan /\ k.route = j.route
    <3>1. Tail(j.intents) \in Seq(Delegate!Intent)
      <4>1. j.intents \in Seq(Delegate!Intent)
        BY DEF LoopJob
      <4>2. QED
        BY <1>1, <2>1, <4>1
    <3>2. [j EXCEPT !.intents = Tail(@)] \in LoopJob
      BY <3>1 DEF LoopJob
    <3>3. QED
      BY <1>1, <2>1, <3>2 DEF LoopJob
  <2>8. LoopJobOK(k)'
    BY <2>6, <2>7 DEF LoopJobOK
  <2>9. Len(j.plan) <= Len(ran')
    BY <1>2, <2>2, <2>6, LoopJobFields
  <2>10. LoopStageOK(k)'
    BY <1>2, <2>2, <2>7, <2>9 DEF LoopStageOK
  <2>11. QED
    BY <1>1, <2>1, <2>6, <2>7, <2>8, <2>10, LoopGoesOn
<1>5. QED
  BY <1>3, <1>4

LEMMA LoopEndTurnOK == ASSUME LoopIInv, Delegate!EndTurn PROVE LoopIInv'
<1>1. PICK j \in LoopJob : j = delegation /\ j.stage = "tools" /\ LoopJobOK(j) /\ LoopStageOK(j)
  BY LoopStages DEF LoopIInv, Delegate!EndTurn
<1>2. UNCHANGED <<ran, asked>> /\ LoopTables
  BY DEF Delegate!EndTurn, LoopIInv
<1>3. CASE Delegate!Fail("max_turns")
  BY <1>1, <1>2, <1>3, LoopStopOK
<1>4. CASE delegation' = [delegation EXCEPT !.stage = "compile", !.turn = @ + 1] /\ UNCHANGED told
  <2>1. PICK k \in LoopJob : /\ delegation' = k /\ k.stage = "compile" /\ k.turn = j.turn + 1
                             /\ k.profile = j.profile /\ k.plan = j.plan /\ k.route = j.route
    <3>1. [j EXCEPT !.stage = "compile", !.turn = @ + 1] \in LoopJob
      <4>1. j.turn + 1 \in Nat
        BY LoopJobFields
      <4>2. QED
        BY <4>1 DEF LoopJob
    <3>2. QED
      BY <1>1, <1>4, <3>1 DEF LoopJob
  <2>2. LoopJobOK(k)' /\ LoopTables'
    BY <1>1, <1>2, <2>1, LoopSameOK
  <2>3. j.turn \in Nat /\ Len(j.plan) <= Len(ran) /\ \A i \in DOMAIN asked : asked[i].turn <= j.turn /\ asked[i].turn \in Nat
    BY <1>1, <1>2, LoopJobFields, LoopAttemptFields DEF LoopStageOK
  <2>4. k.turn # 0 /\ \A i \in DOMAIN asked : asked[i].turn <= k.turn /\ asked[i].turn < k.turn
    BY <2>1, <2>3
  <2>5. LoopStageOK(k)'
    BY <1>2, <2>1, <2>3, <2>4 DEF LoopStageOK
  <2>6. QED
    BY <1>1, <1>4, <2>1, <2>2, <2>5, LoopGoesOn
<1>5. QED
  BY <1>3, <1>4, Zenon DEF Delegate!EndTurn

LEMMA LoopStutterOK == ASSUME LoopIInv, UNCHANGED Delegate!vars PROVE LoopIInv'
<1>1. UNCHANGED <<delegation, ran, asked, told>>
  BY DEF Delegate!vars
<1>2. LoopTables'
  BY <1>1 DEF LoopIInv, LoopTables
<1>3. delegation # Delegate!Quiet => LoopJobOK(delegation)' /\ LoopStageOK(delegation)'
  BY <1>1 DEF LoopIInv, LoopJobOK, LoopStageOK, LoopCalls
<1>4. LoopAnswerOK'
  BY <1>1 DEF LoopIInv, LoopAnswerOK, LoopJobOK, LoopCalls, Delegate!Answered
<1>5. QED
  BY <1>1, <1>2, <1>3, <1>4 DEF LoopIInv

LEMMA LoopInitOK == Delegate!Init => LoopIInv
BY DEF Delegate!Init, LoopIInv, LoopTables, LoopAnswerOK, Delegate!Quiet, Delegate!Untold

LEMMA LoopNextOK ==
  ASSUME BudgetsAreNumbers, LoopIInv, [Delegate!Next]_(Delegate!vars)
  PROVE  LoopIInv'
BY LoopStutterOK, LoopBeginOK, LoopForgetOK, LoopToolExecuteOK, LoopPlanReadsOK, LoopGroundOK,
   LoopCompileOK, LoopRouteOK, LoopCallOK,
   LoopOutputOK, LoopToolsOK, LoopEndTurnOK, Zenon DEF Delegate!Next, Delegate!Step

\* The first numbers up to the lesser of two.
LEMMA LoopLesserOf ==
  ASSUME NEW a \in Nat, NEW b \in Nat,
         NEW n \in Nat, n <= a, n <= b, n = a \/ n = b
  PROVE  1..n = {i \in 1..a : i <= b}
<1>1. CASE n = a
  BY <1>1
<1>2. CASE n = b
  BY <1>2
<1>3. QED
  BY <1>1, <1>2

\* The reads of turn 0 are those of the plan.
LEMMA LoopGroundingIs ==
  ASSUME NEW j \in LoopJob, LoopJobOK(j), LoopTables
  PROVE  Delegate!Here(0) = IF Len(j.plan) <= Len(ran) THEN Len(j.plan) ELSE Len(ran)
<1>1. Len(ran) \in Nat /\ DOMAIN ran = 1..Len(ran) /\ Len(j.plan) \in Nat
  BY LoopJobFields DEF LoopTables
<1>2. PICK n \in Nat : n = IF Len(j.plan) <= Len(ran) THEN Len(j.plan) ELSE Len(ran)
  BY <1>1
<1>3. LoopCalls(0) = 1..n
  <2>1. \A i \in 1..Len(ran) : ran[i].turn = 0 <=> i <= Len(j.plan)
    BY <1>1 DEF LoopJobOK
  <2>5. n \in Nat /\ n <= Len(ran) /\ n <= Len(j.plan) /\ (n = Len(ran) \/ n = Len(j.plan))
    <3>1. CASE Len(j.plan) <= Len(ran)
      BY <1>1, <1>2, <3>1
    <3>2. CASE ~(Len(j.plan) <= Len(ran))
      BY <1>1, <1>2, <3>2
    <3>3. QED
      BY <3>1, <3>2
  <2>2. 1..n = {i \in 1..Len(ran) : i <= Len(j.plan)}
    <3>1. PICK a \in Nat : a = Len(ran)
      BY <1>1
    <3>2. PICK b \in Nat : b = Len(j.plan)
      BY <1>1
    <3>3. n \in Nat /\ n <= a /\ n <= b /\ (n = a \/ n = b)
      BY <2>5, <3>1, <3>2
    <3>4. 1..n = {i \in 1..a : i <= b}
      BY <3>3, LoopLesserOf
    <3>5. QED
      BY <3>1, <3>2, <3>4
  <2>3. QED
    BY <1>1, <2>1, <2>2 DEF LoopCalls
<1>4. Cardinality(1..n) = n
  BY <1>2, FS_Interval
<1>5. QED
  BY <1>2, <1>3, <1>4, LoopHereIs

\* What was run and asked, told of the delegation it was for.
LEMMA LoopKeptOf ==
  ASSUME BudgetsAreNumbers, LoopIInv, NEW j \in LoopJob, LoopJobOK(j), j = Delegate!Current
  PROVE  Delegate!Bounded /\ Delegate!Ordered
<1>1. Len(ran) \in Nat /\ Len(j.plan) \in Nat /\ LoopTables /\ DOMAIN ran = 1..Len(ran)
      /\ MaxLive \in Nat /\ MaxCalls \in Nat
  BY LoopJobFields DEF LoopIInv, LoopTables, BudgetsAreNumbers
<1>2. \A i \in DOMAIN ran : ran[i].tool \in AutomaticRead
  <2>1. \A i \in DOMAIN ran : ran[i] \in LoopRead
    BY <1>1 DEF LoopTables
  <2>2. QED
    BY <2>1 DEF LoopRead
<1>3. Delegate!Here(0) = IF Len(j.plan) <= Len(ran) THEN Len(j.plan) ELSE Len(ran)
  BY <1>1, LoopGroundingIs
<1>4. Delegate!Here(0) <= MaxLive
  BY <1>1, <1>3 DEF LoopJobOK
<1>5. Len(ran) <= MaxCalls \/ Len(ran) = Delegate!Here(0)
  BY <1>1, <1>3 DEF LoopJobOK
<1>6. \A t \in 1..j.turns : Delegate!Here(t) <= MaxPerTurn
  BY LoopHereIs DEF LoopJobOK
<1>7. Delegate!Here(0) = 0 \/ j.profile
  BY <1>1, <1>3 DEF LoopJobOK
<1>8. Delegate!Bounded
  BY <1>2, <1>4, <1>5, <1>6, <1>7 DEF Delegate!Bounded, LoopJobOK
<1>9. Delegate!Ordered
  <2>1. SUFFICES ASSUME asked # <<>> PROVE Delegate!Ordered
    BY DEF Delegate!Ordered
  <2>2. Delegate!Here(0) = Len(j.plan) /\ Len(j.plan) <= Len(ran)
    BY <1>3, <2>1 DEF LoopJobOK
  <2>3. DOMAIN j.plan = 1..Len(j.plan)
    BY DEF LoopJob
  <2>4. \A i \in DOMAIN j.plan : ran[i].tool = j.plan[i]
    BY <1>1, <2>2, <2>3 DEF LoopJobOK
  <2>5. QED
    BY <2>1, <2>2, <2>4 DEF Delegate!Ordered, LoopJobOK
<1>10. QED
  BY <1>8, <1>9

LEMMA LoopKeptOK == ASSUME BudgetsAreNumbers, LoopIInv PROVE Delegate!DelegationKept
<1>1. CASE delegation # Delegate!Quiet
  <2>1. PICK j \in LoopJob : j = delegation /\ LoopJobOK(j)
    BY <1>1 DEF LoopIInv
  <2>2. told = Delegate!Untold /\ j = Delegate!Current
    BY <1>1, <2>1, LoopStages DEF LoopIInv, LoopAnswerOK, Delegate!Current
  <2>3. Delegate!Answered
    BY <2>2 DEF Delegate!Answered, Delegate!Untold
  <2>4. QED
    BY <2>1, <2>2, <2>3, LoopKeptOf DEF Delegate!DelegationKept
<1>2. CASE delegation = Delegate!Quiet /\ told # Delegate!Untold
  <2>1. PICK j \in LoopJob : j = told.job /\ LoopJobOK(j) /\ j = Delegate!Current
    BY <1>2 DEF LoopIInv, LoopAnswerOK, Delegate!Current
  <2>2. QED
    BY <1>2, <2>1, LoopKeptOf DEF Delegate!DelegationKept, LoopIInv, LoopAnswerOK
<1>3. CASE delegation = Delegate!Quiet /\ told = Delegate!Untold
  <2>1. Delegate!Current = Delegate!Quiet /\ asked = <<>>
    BY <1>3, LoopStages DEF Delegate!Current, LoopIInv
  <2>2. \A i \in DOMAIN ran : ran[i].tool \in AutomaticRead
    <3>1. \A i \in DOMAIN ran : ran[i] \in LoopRead
      BY DEF LoopIInv, LoopTables
    <3>2. QED
      BY <3>1 DEF LoopRead
  <2>3. Delegate!Bounded
    BY <2>1, <2>2, LoopStages DEF Delegate!Bounded
  <2>4. QED
    BY <1>3, <2>1, <2>3 DEF Delegate!DelegationKept, Delegate!Ordered, Delegate!Answered,
       Delegate!Untold
<1>4. QED
  BY <1>1, <1>2, <1>3

\* For any registry, profile and budgets, however often the routes fail and the
\* model asks for more: only reads run, those of the plan first, within the
\* budgets, and an answer comes after them.
THEOREM DelegationIsKept == BudgetsAreNumbers /\ Delegate!Spec => []DelegationKept
<1> SUFFICES ASSUME BudgetsAreNumbers PROVE Delegate!Spec => []DelegationKept
  OBVIOUS
<1>1. LoopIInv /\ [Delegate!Next]_(Delegate!vars) => LoopIInv'
  BY LoopNextOK
<1>2. LoopIInv => Delegate!DelegationKept
  BY LoopKeptOK
<1>3. QED
  BY <1>1, <1>2, LoopInitOK, PTL DEF DelegationKept, Delegate!Spec
-----------------------------------------------------------------------------
(* Packages *)

(* What is chosen of a sequence *)

BootRank(i, at) == Cardinality({k \in at : k <= i})

\* The positions that are chosen have the ranks up to their number, each one
\* its own, and in their order.
LEMMA BootRanks ==
  ASSUME NEW n \in Nat, NEW at \in SUBSET (1..n)
  PROVE  /\ IsFiniteSet(at) /\ Cardinality(at) \in Nat
         /\ \A i \in at : BootRank(i, at) \in 1..Cardinality(at)
         /\ \A i, j \in at : i < j => BootRank(i, at) < BootRank(j, at)
         /\ \A m \in 1..Cardinality(at) : \E i \in at : BootRank(i, at) = m
<1> DEFINE upto(i) == {k \in at : k <= i}
<1>1. IsFiniteSet(at) /\ Cardinality(at) \in Nat /\ \A i \in at : i \in Nat
  <2>1. 1 \in Int /\ n \in Int /\ IsFiniteSet(1..n)
    BY FS_Interval
  <2>2. IsFiniteSet(at)
    BY <2>1, FS_Subset
  <2>3. QED
    BY <2>2, FS_CardinalityType
<1>2. ASSUME NEW i \in at
      PROVE  /\ IsFiniteSet(upto(i)) /\ Cardinality(upto(i)) \in Nat
             /\ Cardinality(upto(i)) # 0 /\ Cardinality(upto(i)) <= Cardinality(at)
  <2>1. upto(i) \in SUBSET at /\ i \in upto(i)
    OBVIOUS
  <2> HIDE DEF upto
  <2>2. QED
    BY <1>1, <2>1, FS_Subset, FS_CardinalityType, FS_EmptySet
<1>3. \A i \in at : BootRank(i, at) \in 1..Cardinality(at)
  <2>1. \A i \in at : BootRank(i, at) = Cardinality(upto(i))
    BY DEF BootRank
  <2> HIDE DEF upto
  <2>2. QED
    BY <1>1, <1>2, <2>1
<1>4. ASSUME NEW i \in at, NEW j \in at, i < j PROVE BootRank(i, at) < BootRank(j, at)
  <2>1. upto(i) \in SUBSET upto(j) /\ j \in upto(j) /\ j \notin upto(i)
    <3>1. i \in Nat /\ j \in Nat /\ \A k \in at : k \in Nat
      BY <1>1
    <3>2. j <= j /\ ~(j <= i) /\ \A k \in at : k <= i => k <= j
      BY <1>4, <3>1
    <3>3. QED
      BY <3>2
  <2>2. BootRank(i, at) = Cardinality(upto(i)) /\ BootRank(j, at) = Cardinality(upto(j))
    BY DEF BootRank
  <2>3. IsFiniteSet(upto(j)) /\ Cardinality(upto(i)) \in Nat /\ Cardinality(upto(j)) \in Nat
    BY <1>2
  <2> HIDE DEF upto
  <2>4. upto(i) # upto(j)
    BY <2>1
  <2>5. Cardinality(upto(i)) <= Cardinality(upto(j)) /\ Cardinality(upto(i)) # Cardinality(upto(j))
    BY <2>1, <2>3, <2>4, FS_Subset
  <2>6. QED
    BY <2>2, <2>3, <2>5
<1>5. ASSUME NEW m \in 1..Cardinality(at) PROVE \E i \in at : BootRank(i, at) = m
  <2> DEFINE f == [i \in at |-> BootRank(i, at)]
  <2>1. PICK c \in Nat : c = Cardinality(at)
    BY <1>1
  <2>2. f \in [at -> 1..c]
    BY <1>3, <2>1
  <2>3. \A i, j \in at : f[i] = f[j] => i = j
    <3>1. SUFFICES ASSUME NEW i \in at, NEW j \in at, i # j PROVE f[i] # f[j]
      OBVIOUS
    <3>2. i \in Nat /\ j \in Nat /\ BootRank(i, at) \in Nat /\ BootRank(j, at) \in Nat
      BY <1>1, <1>3
    <3>3. i < j \/ j < i
      BY <3>1, <3>2
    <3>4. BootRank(i, at) < BootRank(j, at) \/ BootRank(j, at) < BootRank(i, at)
      BY <1>4, <3>3
    <3>5. QED
      BY <3>2, <3>4
  <2>4. f \in Injection(at, 1..c)
    <3> HIDE DEF f
    <3>1. QED
      BY <2>2, <2>3 DEF Injection, IsInjective
  <2>5. IsFiniteSet(1..c) /\ Cardinality(1..c) = c
    BY FS_Interval
  <2>6. f \in Surjection(at, 1..c)
    <3> HIDE DEF f
    <3>1. QED
      BY <2>1, <2>4, <2>5, FS_Injection
  <2>7. \E i \in at : f[i] = m
    <3> HIDE DEF f
    <3>1. QED
      BY <2>1, <2>6 DEF Surjection
  <2>8. QED
    BY <2>7
<1>6. QED
  BY <1>1, <1>3, <1>4, <1>5

\* Before a value only values that stood before it.
BootInOrder(s, seq, at) ==
  \A i \in at : \E m \in DOMAIN s :
    s[m] = seq[i] /\ \A l \in 1..(m - 1) : \E j \in at : j < i /\ s[l] = seq[j]

\* What is chosen stands in its order.
LEMMA BootChosenInOrder ==
  ASSUME NEW S, NEW seq \in Seq(S), NEW at \in SUBSET DOMAIN seq, NEW s, s = Boot!Chosen(seq, at)
  PROVE  /\ s \in Seq(S) /\ Len(s) = Cardinality(at)
         /\ \A m \in DOMAIN s : \E i \in at : s[m] = seq[i]
         /\ BootInOrder(s, seq, at)
<1>1. PICK n \in Nat : n = Len(seq) /\ DOMAIN seq = 1..n
  OBVIOUS
<1>2. PICK c \in Nat : c = Cardinality(at)
  BY <1>1, BootRanks
<1>3. /\ \A i \in at : i \in Nat /\ BootRank(i, at) \in 1..c
      /\ \A i, j \in at : i < j => BootRank(i, at) < BootRank(j, at)
      /\ \A m \in 1..c : \E i \in at : BootRank(i, at) = m
  <2>1. at \in SUBSET (1..n)
    BY <1>1
  <2>2. \A i \in at : i \in Nat
    BY <1>1
  <2>3. QED
    BY <1>1, <1>2, <2>1, <2>2, BootRanks
<1> DEFINE spot(m) == CHOOSE i \in at : BootRank(i, at) = m
<1>4. \A m \in 1..c : spot(m) \in at /\ BootRank(spot(m), at) = m
  BY <1>3
<1>5. s = [m \in 1..c |-> seq[spot(m)]]
  BY <1>2 DEF Boot!Chosen, BootRank, Cardinality, Boot!Cardinality
<1> HIDE DEF spot
<1>6. \A m \in 1..c : s[m] = seq[spot(m)] /\ s[m] \in S
  BY <1>1, <1>4, <1>5
<1>7. s \in Seq(S) /\ DOMAIN s = 1..c /\ Len(s) = c
  BY <1>5, <1>6
<1>8. ASSUME NEW i \in at
      PROVE  \E m \in 1..c :
               s[m] = seq[i] /\ \A l \in 1..(m - 1) : \E j \in at : j < i /\ s[l] = seq[j]
  <2>1. PICK m \in 1..c : m = BootRank(i, at)
    BY <1>3
  <2>2. \A j \in at : BootRank(j, at) = m => j = i
    <3>1. \A j \in at : j = i \/ j < i \/ i < j
      BY <1>3
    <3>2. \A j \in at : BootRank(j, at) \in Nat /\ BootRank(i, at) \in Nat
      BY <1>3
    <3>3. \A j \in at : j # i => BootRank(j, at) < BootRank(i, at) \/
            BootRank(i, at) < BootRank(j, at)
      BY <1>3, <3>1
    <3>4. QED
      BY <2>1, <3>2, <3>3
  <2>3. spot(m) = i
    BY <1>4, <2>2
  <2>4. ASSUME NEW l \in 1..(m - 1) PROVE spot(l) < i /\ l \in 1..c
    <3>1. l \in 1..c /\ l < m
      OBVIOUS
    <3>2. spot(l) \in at /\ BootRank(spot(l), at) = l
      BY <1>4, <3>1
    <3>3. spot(l) # i
      BY <2>1, <3>1, <3>2
    <3>4. BootRank(spot(l), at) < BootRank(i, at) /\ BootRank(spot(l), at) \in Nat /\
            BootRank(i, at) \in Nat
      BY <1>3, <2>1, <3>1, <3>2
    <3>5. i < spot(l) => BootRank(i, at) < BootRank(spot(l), at)
      BY <1>3, <3>2
    <3>6. ~(i < spot(l))
      BY <3>4, <3>5
    <3>7. spot(l) \in Nat /\ i \in Nat
      BY <1>3, <3>2
    <3>8. QED
      BY <3>1, <3>3, <3>6, <3>7
  <2>5. QED
    BY <1>4, <1>6, <2>3, <2>4
<1>9. \A m \in DOMAIN s : \E i \in at : s[m] = seq[i]
  BY <1>4, <1>6, <1>7
<1>10. BootInOrder(s, seq, at)
  BY <1>7, <1>8 DEF BootInOrder
<1>11. QED
  BY <1>2, <1>7, <1>9, <1>10

LEMMA BootChosenOfOne ==
  ASSUME NEW S, NEW x \in S, NEW lost
  PROVE  Boot!Without(<<x>>, lost) = IF x \in lost THEN <<>> ELSE <<x>>
<1>1. PICK one \in Seq(S) : one = <<x>> /\ DOMAIN one = {1} /\ one[1] = x
  <2>1. <<x>> \in Seq(S) /\ Len(<<x>>) = 1 /\ <<x>>[1] = x
    OBVIOUS
  <2>2. DOMAIN <<x>> = {1}
    OBVIOUS
  <2>3. QED
    BY <2>1, <2>2
<1>2. PICK at \in SUBSET DOMAIN one : at = {i \in DOMAIN one : one[i] \notin lost}
  OBVIOUS
<1>3. PICK s : s = Boot!Chosen(one, at)
  OBVIOUS
<1>4. /\ s \in Seq(S) /\ Len(s) = Cardinality(at)
      /\ \A m \in DOMAIN s : \E i \in at : s[m] = one[i]
  BY <1>3, BootChosenInOrder
<1>5. CASE x \in lost
  <2>1. at = {} /\ Len(s) = 0
    BY <1>1, <1>2, <1>4, <1>5, FS_EmptySet
  <2>2. s = <<>>
    BY <1>4, <2>1
  <2>3. QED
    BY <1>1, <1>2, <1>3, <1>5, <2>2 DEF Boot!Without
<1>6. CASE x \notin lost
  <2>1. at = {1}
    BY <1>1, <1>2, <1>6
  <2>a. Len(s) = 1
    BY <1>4, <2>1, FS_Singleton
  <2>2. s[1] = x
    BY <1>1, <1>4, <2>1, <2>a
  <2>3. s = <<x>>
    <3>1. s \in Seq(S) /\ <<x>> \in Seq(S) /\ Len(<<x>>) = 1 /\ <<x>>[1] = x
      BY <1>4
    <3>2. Len(s) = Len(<<x>>) /\ \A i \in 1..Len(s) : s[i] = <<x>>[i]
      BY <2>2, <2>a, <3>1
    <3>3. QED
      BY <3>1, <3>2, SeqEqual
  <2>4. QED
    BY <1>1, <1>2, <1>3, <1>6, <2>3 DEF Boot!Without
<1>7. QED
  BY <1>5, <1>6

(* The evidence *)

BootStone == Version \cup {Boot!Lowest, 0}
BootEvidence == [path: Boot!Target, stone: BootStone, ref: Nat]

BootClassIn(saw, row) ==
  IF row.stone = saw[row.path] THEN IF row.path = "head" THEN "CHAIN_HEAD" ELSE "PATH_HEAD"
  ELSE "HISTORICAL"

\* Nothing superseded beside its successor.
BootTidy(saw, list) ==
  \A i, k \in DOMAIN list :
    BootClassIn(saw, list[i]) = "HISTORICAL" /\ list[k].path = list[i].path =>
      BootClassIn(saw, list[k]) = "HISTORICAL"

\* The path that was seeded is there, after rows of the chain's head only.
BootDocAt(saw, list, d) ==
  /\ list[d].path = "doc" /\ BootClassIn(saw, list[d]) = "PATH_HEAD"
  /\ \A i \in 1..(d - 1) : BootClassIn(saw, list[i]) = "CHAIN_HEAD"

BootHeadsOnly(saw, list) == \A i \in DOMAIN list : BootClassIn(saw, list[i]) = "CHAIN_HEAD"

BootLeads(saw, list, relevant) ==
  /\ Len(list) >= 1 /\ BootClassIn(saw, list[1]) = "CHAIN_HEAD"
  /\ ~relevant \/ (\E d \in DOMAIN list : BootDocAt(saw, list, d)) \/ BootHeadsOnly(saw, list)

LEMMA BootChosenTidy ==
  ASSUME NEW saw, NEW seq \in Seq(BootEvidence), NEW at \in SUBSET DOMAIN seq, BootTidy(saw, seq)
  PROVE  BootTidy(saw, Boot!Chosen(seq, at))
<1>1. PICK s : s = Boot!Chosen(seq, at)
  OBVIOUS
<1>2. \A m \in DOMAIN s : \E i \in at : s[m] = seq[i]
  BY <1>1, BootChosenInOrder
<1>3. QED
  BY <1>1, <1>2 DEF BootTidy

LEMMA BootChosenLeads ==
  ASSUME NEW saw, NEW seq \in Seq(BootEvidence), NEW at \in SUBSET DOMAIN seq, NEW relevant,
         1 \in at, BootClassIn(saw, seq[1]) = "CHAIN_HEAD",
         ~relevant \/ (\E d \in at : BootDocAt(saw, seq, d)) \/ BootHeadsOnly(saw, seq)
  PROVE  BootLeads(saw, Boot!Chosen(seq, at), relevant)
<1>1. PICK s : s = Boot!Chosen(seq, at)
  OBVIOUS
<1>a. s \in Seq(BootEvidence) /\ \A m \in DOMAIN s : \E i \in at : s[m] = seq[i]
  BY <1>1, BootChosenInOrder
<1>2. \A i \in at : \E m \in DOMAIN s :
        s[m] = seq[i] /\ \A l \in 1..(m - 1) : \E j \in at : j < i /\ s[l] = seq[j]
  <2>1. BootInOrder(s, seq, at)
    BY <1>1, BootChosenInOrder
  <2>2. QED
    BY <2>1 DEF BootInOrder
<1>3. PICK n \in Nat : n = Len(s) /\ DOMAIN s = 1..n
  BY <1>a
<1>4. \A j \in at : j \in Nat /\ j >= 1
  OBVIOUS
<1>5. s[1] = seq[1] /\ n >= 1
  <2>1. PICK m \in DOMAIN s :
          s[m] = seq[1] /\ \A l \in 1..(m - 1) : \E j \in at : j < 1 /\ s[l] = seq[j]
    BY <1>2
  <2>a. m \in Nat /\ m >= 1 /\ n >= m
    BY <1>3
  <2>2. m = 1
    <3>1. CASE m > 1
      <4>1. 1 \in 1..(m - 1)
        BY <2>a, <3>1
      <4>2. QED
        BY <1>4, <2>1, <4>1
    <3>2. QED
      BY <2>a, <3>1
  <2>3. QED
    BY <2>1, <2>2, <2>a
<1>6. ASSUME NEW d \in at, BootDocAt(saw, seq, d) PROVE \E m \in DOMAIN s : BootDocAt(saw, s, m)
  <2>1. PICK m \in DOMAIN s :
          s[m] = seq[d] /\ \A l \in 1..(m - 1) : \E j \in at : j < d /\ s[l] = seq[j]
    BY <1>2
  <2>2. ASSUME NEW l \in 1..(m - 1) PROVE BootClassIn(saw, s[l]) = "CHAIN_HEAD"
    <3>1. PICK j \in at : j < d /\ s[l] = seq[j]
      BY <2>1
    <3>2. j \in 1..(d - 1)
      BY <1>4, <3>1
    <3>3. QED
      BY <1>6, <3>1, <3>2 DEF BootDocAt
  <2>3. BootDocAt(saw, s, m)
    BY <1>6, <2>1, <2>2 DEF BootDocAt
  <2>4. QED
    BY <2>3
<1>7. BootHeadsOnly(saw, seq) => BootHeadsOnly(saw, s)
  BY <1>a DEF BootHeadsOnly
<1>8. ~relevant \/ (\E d \in DOMAIN s : BootDocAt(saw, s, d)) \/ BootHeadsOnly(saw, s)
  BY <1>6, <1>7
<1>9. QED
  BY <1>1, <1>3, <1>5, <1>8 DEF BootLeads

LEMMA BootJoined ==
  ASSUME NEW S, NEW a \in Seq(S), NEW b \in Seq(S), NEW s, s = a \o b
  PROVE  /\ s \in Seq(S) /\ Len(s) = Len(a) + Len(b)
         /\ \A i \in DOMAIN a : i \in DOMAIN s /\ s[i] = a[i]
         /\ \A i \in DOMAIN b : Len(a) + i \in DOMAIN s /\ s[Len(a) + i] = b[i]
         /\ \A i \in DOMAIN s : (i \in DOMAIN a /\ s[i] = a[i])
           \/ (i - Len(a) \in DOMAIN b /\ s[i] = b[i - Len(a)])
<1>1. s \in Seq(S) /\ Len(s) = Len(a) + Len(b)
  BY ConcatProperties
<1>2. \A i \in 1..(Len(a) + Len(b)) : s[i] = IF i <= Len(a) THEN a[i] ELSE b[i - Len(a)]
  BY ConcatProperties
<1>3. PICK m \in Nat, n \in Nat : m = Len(a) /\ n = Len(b)
  OBVIOUS
<1>4. DOMAIN s = 1..(m + n) /\ DOMAIN a = 1..m /\ DOMAIN b = 1..n
  BY <1>1, <1>3
<1>5. \A i \in DOMAIN a : i \in DOMAIN s /\ s[i] = a[i]
  BY <1>2, <1>3, <1>4
<1>6. \A i \in DOMAIN b : m + i \in DOMAIN s /\ s[m + i] = b[i]
  <2>1. \A i \in 1..n : m + i \in 1..(m + n) /\ ~(m + i <= m) /\ (m + i) - m = i
    OBVIOUS
  <2>2. QED
    BY <1>2, <1>3, <1>4, <2>1
<1>7. \A i \in DOMAIN s : (i \in DOMAIN a /\ s[i] = a[i])
           \/ (i - m \in DOMAIN b /\ s[i] = b[i - m])
  <2>1. \A i \in 1..(m + n) : (i <= m /\ i \in 1..m) \/ (~(i <= m) /\ i - m \in 1..n)
    OBVIOUS
  <2>2. QED
    BY <1>2, <1>3, <1>4, <2>1
<1>8. QED
  BY <1>1, <1>3, <1>5, <1>6, <1>7

LEMMA BootClassIs == \A row : Boot!Class(row) = BootClassIn(compile.saw, row)
BY DEF Boot!Class, BootClassIn

LEMMA BootOfClassIs ==
  ASSUME NEW class, NEW list \in Seq(BootEvidence), NEW s, s = Boot!OfClass(class, list)
  PROVE  /\ s \in Seq(BootEvidence)
         /\ \A i \in DOMAIN s : BootClassIn(compile.saw, s[i]) = class /\
              \E k \in DOMAIN list : s[i] = list[k]
<1>1. PICK at \in SUBSET DOMAIN list : at = {i \in DOMAIN list : Boot!Class(list[i]) = class}
  OBVIOUS
<1>2. s = Boot!Chosen(list, at)
  BY <1>1 DEF Boot!OfClass
<1>3. s \in Seq(BootEvidence) /\ \A m \in DOMAIN s : \E i \in at : s[m] = list[i]
  BY <1>2, BootChosenInOrder
<1>4. QED
  BY <1>1, <1>3, BootClassIs

LEMMA BootAcceptedIs ==
  ASSUME NEW seeded \in Seq(BootEvidence), NEW more \in Seq(BootEvidence), NEW s,
         s = Boot!Accepted(seeded, more)
  PROVE  s \in Seq(BootEvidence) /\
           \A i \in DOMAIN s : BootClassIn(compile.saw, s[i]) # "HISTORICAL"
<1>1. PICK a, b, c, d : /\ a = Boot!OfClass("CHAIN_HEAD", seeded) /\
                             b = Boot!OfClass("CHAIN_HEAD", more)
                        /\ c = Boot!OfClass("PATH_HEAD", seeded) /\
                             d = Boot!OfClass("PATH_HEAD", more)
  OBVIOUS
<1>2. a \in Seq(BootEvidence) /\ \A i \in DOMAIN a : BootClassIn(compile.saw, a[i]) # "HISTORICAL"
  BY <1>1, BootOfClassIs
<1>3. b \in Seq(BootEvidence) /\ \A i \in DOMAIN b : BootClassIn(compile.saw, b[i]) # "HISTORICAL"
  BY <1>1, BootOfClassIs
<1>4. c \in Seq(BootEvidence) /\ \A i \in DOMAIN c : BootClassIn(compile.saw, c[i]) # "HISTORICAL"
  BY <1>1, BootOfClassIs
<1>5. d \in Seq(BootEvidence) /\ \A i \in DOMAIN d : BootClassIn(compile.saw, d[i]) # "HISTORICAL"
  BY <1>1, BootOfClassIs
<1>6. s = (a \o b) \o (c \o d)
  BY <1>1 DEF Boot!Accepted
<1>7. PICK e : e = a \o b
  OBVIOUS
<1>8. PICK f : f = c \o d
  OBVIOUS
<1>9. e \in Seq(BootEvidence) /\ \A i \in DOMAIN e : BootClassIn(compile.saw, e[i]) # "HISTORICAL"
  BY <1>2, <1>3, <1>7, BootJoined
<1>10. f \in Seq(BootEvidence) /\ \A i \in DOMAIN f : BootClassIn(compile.saw, f[i]) # "HISTORICAL"
  BY <1>4, <1>5, <1>8, BootJoined
<1>11. s = e \o f
  BY <1>6, <1>7, <1>8
<1>12. QED
  BY <1>9, <1>10, <1>11, BootJoined

LEMMA BootSupersededIs ==
  ASSUME NEW more \in Seq(BootEvidence), NEW first \in Seq(BootEvidence), NEW s,
         s = Boot!Superseded(more, first)
  PROVE  /\ s \in Seq(BootEvidence)
         /\ \A i \in DOMAIN s :
              /\ BootClassIn(compile.saw, s[i]) = "HISTORICAL"
              /\ compile.current => \A k \in DOMAIN first : first[k].path # s[i].path
<1>1. PICK old : old = Boot!OfClass("HISTORICAL", more)
  OBVIOUS
<1>2. old \in Seq(BootEvidence) /\
        \A i \in DOMAIN old : BootClassIn(compile.saw, old[i]) = "HISTORICAL"
  BY <1>1, BootOfClassIs
<1>3. PICK at \in SUBSET DOMAIN old :
        at = {i \in DOMAIN old : ~(compile.current /\ \E k \in DOMAIN first : first[k].path = old[i].path)}
  OBVIOUS
<1>4. s = Boot!Chosen(old, at)
  BY <1>1, <1>3 DEF Boot!Superseded
<1>5. s \in Seq(BootEvidence) /\ \A m \in DOMAIN s : \E i \in at : s[m] = old[i]
  BY <1>2, <1>4, BootChosenInOrder
<1>6. QED
  BY <1>2, <1>3, <1>5

\* What is superseded comes last, and for a task about the present only where
\* nothing accepted has its path.
LEMMA BootRankedTidy ==
  ASSUME NEW seeded \in Seq(BootEvidence), NEW found \in Seq(BootEvidence), NEW s,
         s = Boot!Ranked(seeded, found)
  PROVE  s \in Seq(BootEvidence) /\ (compile.current => BootTidy(compile.saw, s))
<1>1. PICK more : more = Boot!Without(found, Boot!Rows(seeded))
  OBVIOUS
<1>2. more \in Seq(BootEvidence)
  <2>1. PICK at \in SUBSET DOMAIN found :
               at = {i \in DOMAIN found : found[i] \notin Boot!Rows(seeded)}
    OBVIOUS
  <2>2. more = Boot!Chosen(found, at)
    BY <1>1, <2>1 DEF Boot!Without
  <2>3. QED
    BY <2>2, BootChosenInOrder
<1>3. PICK first : first = Boot!Accepted(seeded, more)
  OBVIOUS
<1>4. first \in Seq(BootEvidence) /\
        \A i \in DOMAIN first : BootClassIn(compile.saw, first[i]) # "HISTORICAL"
  BY <1>2, <1>3, BootAcceptedIs
<1>5. PICK old : old = Boot!Superseded(more, first)
  OBVIOUS
<1>6. /\ old \in Seq(BootEvidence)
      /\ \A i \in DOMAIN old :
           /\ BootClassIn(compile.saw, old[i]) = "HISTORICAL"
           /\ compile.current => \A k \in DOMAIN first : first[k].path # old[i].path
  BY <1>2, <1>4, <1>5, BootSupersededIs
<1>7. s = first \o old
  BY <1>1, <1>3, <1>5 DEF Boot!Ranked
<1>8. s \in Seq(BootEvidence)
  BY <1>4, <1>6, <1>7
<1>9. ASSUME NEW i \in DOMAIN s
      PROVE  (\E k \in DOMAIN first : s[i] = first[k]) \/ (\E k \in DOMAIN old : s[i] = old[k])
  <2>1. \A j \in DOMAIN s :
         (j \in DOMAIN first /\ s[j] = first[j]) \/
           (j - Len(first) \in DOMAIN old /\ s[j] = old[j - Len(first)])
    BY <1>4, <1>6, <1>7, BootJoined
  <2>2. QED
    BY <2>1
<1>10. ASSUME compile.current, NEW i \in DOMAIN s, NEW k \in DOMAIN s,
              BootClassIn(compile.saw, s[i]) = "HISTORICAL", s[k].path = s[i].path,
              BootClassIn(compile.saw, s[k]) # "HISTORICAL"
       PROVE  FALSE
  <2>1. PICK m \in DOMAIN old : s[i] = old[m]
    BY <1>4, <1>9, <1>10
  <2>2. PICK n \in DOMAIN first : s[k] = first[n]
    BY <1>6, <1>9, <1>10
  <2>3. QED
    BY <1>6, <1>10, <2>1, <2>2
<1>11. QED
  BY <1>8, <1>10 DEF BootTidy

LEMMA BootFirstStays ==
  ASSUME NEW S, NEW seq \in Seq(S), NEW at \in SUBSET DOMAIN seq, 1 \in at, NEW s,
         s = Boot!Chosen(seq, at)
  PROVE  Len(s) >= 1 /\ s[1] = seq[1]
<1>1. s \in Seq(S) /\ BootInOrder(s, seq, at)
  BY BootChosenInOrder
<1>2. PICK n \in Nat : n = Len(s) /\ DOMAIN s = 1..n
  BY <1>1
<1>3. PICK m \in DOMAIN s :
        s[m] = seq[1] /\ \A l \in 1..(m - 1) : \E j \in at : j < 1 /\ s[l] = seq[j]
  BY <1>1 DEF BootInOrder
<1>4. m \in Nat /\ m >= 1 /\ n >= m
  BY <1>2
<1>5. CASE m > 1
  <2>1. 1 \in 1..(m - 1)
    BY <1>4, <1>5
  <2>2. \A j \in at : ~(j < 1)
    OBVIOUS
  <2>3. QED
    BY <1>3, <2>1, <2>2
<1>6. CASE m = 1
  BY <1>2, <1>3, <1>4, <1>6
<1>7. QED
  BY <1>4, <1>5, <1>6

\* What was seeded comes first: the chain's head, and after what is of the
\* chain's head the path head.
LEMMA BootRankedLeads ==
  ASSUME NEW h \in BootEvidence, BootClassIn(compile.saw, h) = "CHAIN_HEAD",
         NEW d \in BootEvidence, BootClassIn(compile.saw, d) = "PATH_HEAD", d.path = "doc",
         NEW seeded, seeded = <<h>> \/ seeded = <<h, d>>,
         NEW found \in Seq(BootEvidence), NEW s, s = Boot!Ranked(seeded, found)
  PROVE  /\ s \in Seq(BootEvidence) /\ Len(s) >= 1 /\ s[1] = h
         /\ seeded = <<h, d>> => \E k \in DOMAIN s : s[k] = d /\ BootDocAt(compile.saw, s, k)
<1>1. seeded \in Seq(BootEvidence) /\ Len(seeded) >= 1 /\ seeded[1] = h
  <2>1. <<h>> \in Seq(BootEvidence) /\ Len(<<h>>) = 1 /\ <<h>>[1] = h
    OBVIOUS
  <2>2. <<h, d>> \in Seq(BootEvidence) /\ Len(<<h, d>>) = 2 /\ <<h, d>>[1] = h
    OBVIOUS
  <2>3. CASE seeded = <<h>>
    <3>1. seeded = <<h>>
      BY <2>3
    <3>2. QED
      BY ONLY <2>1, <3>1
  <2>4. CASE seeded = <<h, d>>
    <3>1. seeded = <<h, d>>
      BY <2>4
    <3>2. Len(seeded) = 2 /\ seeded[1] = h /\ seeded \in Seq(BootEvidence)
      BY ONLY <2>2, <3>1
    <3>3. QED
      BY <3>2
  <2>5. QED
    BY <2>3, <2>4
<1>2. PICK more : more = Boot!Without(found, Boot!Rows(seeded))
  OBVIOUS
<1>3. more \in Seq(BootEvidence)
  <2>1. PICK at \in SUBSET DOMAIN found :
               at = {i \in DOMAIN found : found[i] \notin Boot!Rows(seeded)}
    OBVIOUS
  <2>2. more = Boot!Chosen(found, at)
    BY <1>2, <2>1 DEF Boot!Without
  <2>3. QED
    BY <2>2, BootChosenInOrder
<1>4. PICK a, b, c, e : /\ a = Boot!OfClass("CHAIN_HEAD", seeded) /\
                             b = Boot!OfClass("CHAIN_HEAD", more)
                        /\ c = Boot!OfClass("PATH_HEAD", seeded) /\
                             e = Boot!OfClass("PATH_HEAD", more)
  OBVIOUS
<1>5. a \in Seq(BootEvidence) /\ \A i \in DOMAIN a : BootClassIn(compile.saw, a[i]) = "CHAIN_HEAD"
  BY <1>1, <1>4, BootOfClassIs
<1>6. b \in Seq(BootEvidence) /\ \A i \in DOMAIN b : BootClassIn(compile.saw, b[i]) = "CHAIN_HEAD"
  BY <1>3, <1>4, BootOfClassIs
<1>7. c \in Seq(BootEvidence) /\ e \in Seq(BootEvidence)
  BY <1>1, <1>3, <1>4, BootOfClassIs
<1>8. Len(a) >= 1 /\ a[1] = h
  <2>1. PICK at \in SUBSET DOMAIN seeded :
               at = {i \in DOMAIN seeded : Boot!Class(seeded[i]) = "CHAIN_HEAD"}
    OBVIOUS
  <2>2. 1 \in at
    BY <1>1, <2>1, BootClassIs
  <2>3. a = Boot!Chosen(seeded, at)
    BY <1>4, <2>1 DEF Boot!OfClass
  <2>4. QED
    BY <1>1, <2>2, <2>3, BootFirstStays
<1>9. ASSUME seeded = <<h, d>> PROVE Len(c) >= 1 /\ c[1] = d
  <2>1. PICK at \in SUBSET DOMAIN seeded :
               at = {i \in DOMAIN seeded : Boot!Class(seeded[i]) = "PATH_HEAD"}
    OBVIOUS
  <2>2. Len(seeded) = 2 /\ seeded[2] = d /\ DOMAIN seeded = {1, 2}
    BY <1>9
  <2>3. Boot!Class(seeded[1]) # "PATH_HEAD" /\ Boot!Class(seeded[2]) = "PATH_HEAD"
    BY <1>1, <2>2, BootClassIs
  <2>4. at = {2}
    BY <2>1, <2>2, <2>3
  <2>5. c = Boot!Chosen(seeded, at)
    BY <1>4, <2>1 DEF Boot!OfClass
  <2>6. Len(c) = Cardinality(at) /\ \A m \in DOMAIN c : \E i \in at : c[m] = seeded[i]
    BY <1>1, <2>5, BootChosenInOrder
  <2>7. Len(c) = 1
    BY <2>4, <2>6, FS_Singleton
  <2>8. 1 \in DOMAIN c
    BY <1>7, <2>7
  <2>9. QED
    BY <2>2, <2>4, <2>6, <2>7, <2>8
<1>10. PICK ab, ce, first, old : /\ ab = a \o b /\ ce = c \o e
                                /\ first = Boot!Accepted(seeded, more) /\
                                     old = Boot!Superseded(more, first)
  OBVIOUS
<1>11. /\ ab \in Seq(BootEvidence) /\ Len(ab) = Len(a) + Len(b)
       /\ \A i \in DOMAIN ab : BootClassIn(compile.saw, ab[i]) = "CHAIN_HEAD"
  <2>1. ab \in Seq(BootEvidence) /\ Len(ab) = Len(a) + Len(b)
    BY <1>5, <1>6, <1>10, BootJoined
  <2>2. \A i \in DOMAIN ab :
          (i \in DOMAIN a /\ ab[i] = a[i]) \/ (i - Len(a) \in DOMAIN b /\ ab[i] = b[i - Len(a)])
    BY <1>5, <1>6, <1>10, BootJoined
  <2>3. QED
    BY <1>5, <1>6, <2>1, <2>2
<1>12. \A i \in DOMAIN a : i \in DOMAIN ab /\ ab[i] = a[i]
  BY <1>5, <1>6, <1>10, BootJoined
<1>13. ce \in Seq(BootEvidence) /\ \A i \in DOMAIN c : i \in DOMAIN ce /\ ce[i] = c[i]
  BY <1>7, <1>10, BootJoined
<1>14. first = ab \o ce /\ s = first \o old
  BY <1>2, <1>4, <1>10 DEF Boot!Accepted, Boot!Ranked
<1>15. /\ first \in Seq(BootEvidence)
       /\ \A i \in DOMAIN ab : i \in DOMAIN first /\ first[i] = ab[i]
       /\ \A i \in DOMAIN ce : Len(ab) + i \in DOMAIN first /\ first[Len(ab) + i] = ce[i]
  <2>1. ab \in Seq(BootEvidence) /\ ce \in Seq(BootEvidence) /\ first = ab \o ce
    BY <1>11, <1>13, <1>14
  <2>2. QED
    BY ONLY <2>1, BootJoined
<1>16. old \in Seq(BootEvidence)
  BY <1>3, <1>10, <1>15, BootSupersededIs
<1>17. s \in Seq(BootEvidence) /\ \A i \in DOMAIN first : i \in DOMAIN s /\ s[i] = first[i]
  BY <1>14, <1>15, <1>16, BootJoined
<1>18. Len(s) >= 1 /\ s[1] = h
  <2>1. 1 \in DOMAIN a
    BY <1>5, <1>8
  <2>2. 1 \in DOMAIN s /\ s[1] = a[1]
    BY <1>12, <1>15, <1>17, <2>1
  <2>3. QED
    BY <1>8, <1>17, <2>2
<1>19. ASSUME seeded = <<h, d>> PROVE \E k \in DOMAIN s : s[k] = d /\ BootDocAt(compile.saw, s, k)
  <2>1. 1 \in DOMAIN c /\ c[1] = d
    BY <1>7, <1>9, <1>19
  <2>2. PICK n \in Nat : n = Len(ab) /\ DOMAIN ab = 1..n
    BY <1>11
  <2>3. n + 1 \in DOMAIN s /\ s[n + 1] = d
    BY <1>13, <1>15, <1>17, <2>1, <2>2
  <2>4. \A i \in 1..((n + 1) - 1) : BootClassIn(compile.saw, s[i]) = "CHAIN_HEAD"
    BY <1>11, <1>15, <1>17, <2>2
  <2>5. BootDocAt(compile.saw, s, n + 1)
    BY <2>3, <2>4 DEF BootDocAt
  <2>6. QED
    BY <2>3, <2>5
<1>20. QED
  BY <1>17, <1>18, <1>19

(* Recall *)

BootSaws == [Boot!Pointer -> BootStone]

LEMMA BootRowsOfHeads ==
  ASSUME compile.saw \in BootSaws
  PROVE  /\ Boot!RowOf("head") \in BootEvidence /\
              BootClassIn(compile.saw, Boot!RowOf("head")) = "CHAIN_HEAD"
         /\ Boot!RowOf("doc") \in BootEvidence /\
              BootClassIn(compile.saw, Boot!RowOf("doc")) = "PATH_HEAD"
         /\ Boot!RowOf("doc").path = "doc" /\ Boot!RowOf("head") # Boot!RowOf("doc")
<1>1. "head" \in Boot!Pointer /\ "doc" \in Boot!Pointer /\ "head" \in Boot!Target /\
        "doc" \in Boot!Target
  BY DEF Boot!Pointer, Boot!Target
<1>2. compile.saw["head"] \in BootStone /\ compile.saw["doc"] \in BootStone
  BY <1>1 DEF BootSaws
<1>3. QED
  BY <1>1, <1>2 DEF Boot!RowOf, Boot!Row, BootEvidence, BootClassIn

\* Where nothing seeded was lost, the head was seeded, and with it the path or
\* not.
LEMMA BootSeedsAre ==
  ASSUME compile.saw \in BootSaws, compile.hits \in Nat, NEW relevant, NEW lost,
         NEW h, h = Boot!RowOf("head"), NEW d, d = Boot!RowOf("doc"),
         NEW s, s = Boot!Seeded(relevant, lost)
  PROVE  /\ s \in Seq(BootEvidence)
         /\ compile.hits > 0 /\ s = Boot!Seeded(relevant, {}) =>
              (s = <<h>> \/ s = <<h, d>>) /\ \A row \in Boot!Rows(s) : row \notin lost
<1>1. h \in BootEvidence /\ d \in BootEvidence /\ h # d
  BY BootRowsOfHeads
<1>2. PICK x : x = Boot!Without(<<h>>, lost)
  OBVIOUS
<1>3. PICK y : y = IF relevant /\ Len(x) < compile.hits THEN Boot!Without(<<d>>, lost) ELSE <<>>
  OBVIOUS
<1>4. x = IF h \in lost THEN <<>> ELSE <<h>>
  BY <1>1, <1>2, BootChosenOfOne
<1>5. Boot!Without(<<d>>, lost) = IF d \in lost THEN <<>> ELSE <<d>>
  BY <1>1, BootChosenOfOne
<1>6. s = IF compile.hits = 0 THEN <<>> ELSE x \o y
  BY <1>2, <1>3 DEF Boot!Seeded
<1>7. /\ <<>> \in Seq(BootEvidence) /\ <<h>> \in Seq(BootEvidence) /\ <<d>> \in Seq(BootEvidence)
      /\ <<h, d>> \in Seq(BootEvidence)
  BY <1>1
<1>8. /\ <<>> \o <<>> = <<>> /\ <<>> \o <<d>> = <<d>>
      /\ <<h>> \o <<>> = <<h>> /\ <<h>> \o <<d>> = <<h, d>>
  <2>1. <<>> \o <<>> = <<>> /\ <<>> \o <<d>> = <<d>> /\ <<h>> \o <<>> = <<h>>
    BY <1>7, ConcatEmptySeq
  <2>2. <<h>> \o <<d>> = <<h, d>>
    <3>1. PICK a, b, c, e : a = <<h>> /\ b = <<d>> /\ c = a \o b /\ e = <<h, d>>
      OBVIOUS
    <3>2. a \in Seq(BootEvidence) /\ b \in Seq(BootEvidence) /\ e \in Seq(BootEvidence)
      BY <1>7, <3>1
    <3>3. Len(a) = 1 /\ Len(b) = 1 /\ a[1] = h /\ b[1] = d
      BY <3>1
    <3>4. Len(e) = 2 /\ e[1] = h /\ e[2] = d
      BY <3>1
    <3>5. c \in Seq(BootEvidence) /\ Len(c) = Len(a) + Len(b)
      BY <3>1, <3>2, ConcatProperties
    <3>6. \A i \in 1..(Len(a) + Len(b)) : c[i] = IF i <= Len(a) THEN a[i] ELSE b[i - Len(a)]
      BY <3>1, <3>2, ConcatProperties
    <3>7. Len(c) = 2 /\ c[1] = h /\ c[2] = d
      BY <3>3, <3>5, <3>6
    <3>8. Len(c) = Len(e) /\ \A i \in 1..Len(c) : c[i] = e[i]
      BY <3>4, <3>7
    <3>9. c = e
      BY <3>2, <3>5, <3>8, SeqEqual
    <3>10. QED
      BY <3>1, <3>9
  <2>3. QED
    BY <2>1, <2>2
<1>9. (x = <<>> \/ x = <<h>>) /\ (y = <<>> \/ y = <<d>>)
  BY <1>3, <1>4, <1>5
<1>10. s \in Seq(BootEvidence)
  BY <1>6, <1>7, <1>8, <1>9
<1>11. ASSUME compile.hits > 0, s = Boot!Seeded(relevant, {})
       PROVE  (s = <<h>> \/ s = <<h, d>>) /\ \A row \in Boot!Rows(s) : row \notin lost
  <2>1. Boot!Without(<<h>>, {}) = <<h>> /\ Boot!Without(<<d>>, {}) = <<d>>
    BY <1>1, BootChosenOfOne
  <2>2. Len(<<h>>) = 1
    OBVIOUS
  <2>3. s = IF relevant /\ 1 < compile.hits THEN <<h, d>> ELSE <<h>>
    <3>1. PICK u, v : /\ u = Boot!Without(<<Boot!RowOf("head")>>, {})
                      /\ v = IF relevant /\ Len(u) < compile.hits
                           THEN Boot!Without(<<Boot!RowOf("doc")>>, {}) ELSE <<>>
      OBVIOUS
    <3>a. compile.hits # 0
      BY <1>11
    <3>2. Boot!Seeded(relevant, {}) = u \o v
      BY <3>1, <3>a DEF Boot!Seeded
    <3>3. u = <<h>> /\ v = IF relevant /\ 1 < compile.hits THEN <<d>> ELSE <<>>
      BY <2>1, <2>2, <3>1
    <3>4. QED
      BY <1>8, <1>11, <3>2, <3>3
  <2>4. s = x \o y
    BY <1>6, <1>11
  <2>5. <<h>> # <<>> /\ <<h>> # <<d>> /\ <<h, d>> # <<>> /\ <<h, d>> # <<d>> /\ <<h, d>> # <<h>>
    <3>1. Len(<<h>>) = 1 /\ Len(<<>>) = 0 /\ Len(<<h, d>>) = 2 /\ Len(<<d>>) = 1
      OBVIOUS
    <3>2. <<h>>[1] = h /\ <<d>>[1] = d
      OBVIOUS
    <3>3. QED
      BY <1>1, <3>1, <3>2
  <2>6. x = <<h>>
    BY <1>8, <1>9, <2>3, <2>4, <2>5
  <2>7. h \notin lost
    BY <1>4, <2>5, <2>6
  <2>8. CASE s = <<h>>
    <3>1. Boot!Rows(s) = {h}
      BY <2>8 DEF Boot!Rows
    <3>2. QED
      BY <2>7, <2>8, <3>1
  <2>9. CASE s = <<h, d>>
    <3>1. y = <<d>>
      BY <1>8, <1>9, <2>4, <2>5, <2>6, <2>9
    <3>2. d \notin lost
      <4>1. <<d>> # <<>>
        BY <1>7, EmptySeq
      <4>2. QED
        BY <1>3, <1>5, <3>1, <4>1
    <3>3. Boot!Rows(s) = {h, d}
      BY <2>9 DEF Boot!Rows
    <3>4. QED
      BY <2>7, <2>9, <3>2, <3>3
  <2>10. QED
    BY <2>3, <2>8, <2>9
<1>12. QED
  BY <1>10, <1>11

BootRemembered(items, there) ==
  /\ items \in Seq(BootEvidence)
  /\ compile.current => BootTidy(compile.saw, items)
  /\ compile.current /\ compile.hits > 0 => BootLeads(compile.saw, items, there)

BootTaken(read)       == IF Len(read) < compile.hits THEN Len(read) ELSE compile.hits
BootFitting(take)     == IF take <= Room THEN take ELSE Room
BootNotLost(seeded, relevant, read, take, room) ==
  compile.current => /\ seeded = Boot!Seeded(relevant, {})
                     /\ room < take => read[room + 1] \notin Boot!Rows(seeded)

\* Of the rows that can be read as many as the hits and the room allow: a task
\* about the present gets what it must have, or no package.
LEMMA BootRecallIs ==
  ASSUME RowsAreOfTheChain, compile.saw \in BootSaws, compile.hits \in Nat,
         NEW found \in Found, NEW relevant, NEW lost,
         NEW seeded, seeded = Boot!Seeded(relevant, lost),
         NEW read, read = Boot!Without(Boot!Ranked(seeded, found), lost),
         NEW take, take = BootTaken(read), NEW room, room = BootFitting(take),
         BootNotLost(seeded, relevant, read, take, room),
         NEW items, items = SubSeq(read, 1, room)
  PROVE  BootRemembered(items, Boot!RowOf("doc") \in Boot!Rows(seeded))
<1>1. found \in Seq(BootEvidence)
  <2>1. [path: Boot!Target, stone: Version, ref: Nat] \subseteq BootEvidence
    BY DEF BootEvidence, BootStone
  <2>2. found \in Seq([path: Boot!Target, stone: Version, ref: Nat])
    BY DEF RowsAreOfTheChain
  <2>3. PICK list : list = [path: Boot!Target, stone: Version, ref: Nat]
    OBVIOUS
  <2>4. list \subseteq BootEvidence /\ found \in Seq(list)
    BY <2>1, <2>2, <2>3
  <2>5. QED
    BY ONLY <2>4
<1>2. seeded \in Seq(BootEvidence)
  BY BootSeedsAre
<1>3. PICK ranked : ranked = Boot!Ranked(seeded, found)
  OBVIOUS
<1>4. ranked \in Seq(BootEvidence) /\ (compile.current => BootTidy(compile.saw, ranked))
  BY <1>1, <1>2, <1>3, BootRankedTidy
<1>5. PICK at \in SUBSET DOMAIN ranked : at = {i \in DOMAIN ranked : ranked[i] \notin lost}
  OBVIOUS
<1>6. read = Boot!Chosen(ranked, at)
  BY <1>3, <1>5 DEF Boot!Without
<1>7. read \in Seq(BootEvidence) /\ (compile.current => BootTidy(compile.saw, read))
  BY <1>4, <1>6, BootChosenInOrder, BootChosenTidy
<1>8. PICK n \in Nat : n = Len(read) /\ DOMAIN read = 1..n
  BY <1>7
<1>9. take \in Nat /\ room \in Nat /\ room <= take /\ take <= n /\ take <= compile.hits
  BY <1>8 DEF RowsAreOfTheChain, BootTaken, BootFitting
<1>10. /\ items \in Seq(BootEvidence) /\ Len(items) = room
       /\ DOMAIN items = 1..room /\ \A i \in 1..room : items[i] = read[i] /\ i \in DOMAIN read
  <2>1. \A i \in 1..room : i \in 1..n
    BY <1>9
  <2>2. 1 \in Nat /\ room <= Len(read) /\ room >= 0
    BY <1>8, <1>9
  <2>3. items \in Seq(BootEvidence) /\ Len(items) = room /\ \A i \in 1..room : items[i] = read[i]
    BY <1>7, <1>9, <2>1, <1>8
  <2>4. QED
    BY <1>8, <2>1, <2>3
<1>11. compile.current => BootTidy(compile.saw, items)
  BY <1>7, <1>10 DEF BootTidy
<1>12. ASSUME compile.current, compile.hits > 0
       PROVE  BootLeads(compile.saw, items, Boot!RowOf("doc") \in Boot!Rows(seeded))
  <2>1. PICK h \in BootEvidence, d \in BootEvidence :
          /\ h = Boot!RowOf("head") /\ BootClassIn(compile.saw, h) = "CHAIN_HEAD"
          /\ d = Boot!RowOf("doc") /\ BootClassIn(compile.saw, d) = "PATH_HEAD" /\
               d.path = "doc" /\ h # d
    BY BootRowsOfHeads
  <2>2. (seeded = <<h>> \/ seeded = <<h, d>>) /\ \A row \in Boot!Rows(seeded) : row \notin lost
    BY <1>12, <2>1, BootSeedsAre DEF BootNotLost
  <2>3. /\ Len(ranked) >= 1 /\ ranked[1] = h
        /\ seeded = <<h, d>> => \E k \in DOMAIN ranked : ranked[k] = d /\
             BootDocAt(compile.saw, ranked, k)
    BY <1>1, <1>3, <2>1, <2>2, BootRankedLeads
  <2>4. h \in Boot!Rows(seeded) /\ (seeded = <<h, d>> => d \in Boot!Rows(seeded))
    BY <2>1, <2>2 DEF Boot!Rows
  <2>5. d \in Boot!Rows(seeded) => seeded = <<h, d>>
    BY <2>1, <2>2 DEF Boot!Rows
  <2>6. 1 \in at
    BY <1>4, <1>5, <2>2, <2>3, <2>4
  <2>7. seeded = <<h, d>> => \E k \in at : BootDocAt(compile.saw, ranked, k)
    BY <1>5, <2>2, <2>3, <2>4
  <2>8. BootLeads(compile.saw, read, seeded = <<h, d>>) /\ Len(read) >= 1 /\ read[1] = h
    <3>1. PICK both : both <=> seeded = <<h, d>>
      OBVIOUS
    <3>2. ~both \/ (\E k \in at : BootDocAt(compile.saw, ranked, k)) \/
            BootHeadsOnly(compile.saw, ranked)
      BY <2>7, <3>1
    <3>3. BootClassIn(compile.saw, ranked[1]) = "CHAIN_HEAD"
      BY <2>1, <2>3
    <3>4. BootLeads(compile.saw, read, both)
      BY <1>4, <1>6, <2>6, <3>2, <3>3, BootChosenLeads
    <3>5. Len(read) >= 1 /\ read[1] = h
      BY <1>4, <1>6, <2>3, <2>6, BootFirstStays
    <3>6. QED
      BY <3>1, <3>4, <3>5 DEF BootLeads
  <2>9. room >= 1
    <3>1. take >= 1
      BY <1>8, <1>12, <2>8 DEF BootTaken
    <3>2. room < take => read[room + 1] \notin Boot!Rows(seeded)
      BY <1>12 DEF BootNotLost
    <3>3. room # 0
      <4>1. SUFFICES ASSUME room = 0 PROVE FALSE
        OBVIOUS
      <4>2. room < take /\ room + 1 = 1
        BY <1>9, <3>1, <4>1
      <4>3. read[1] \notin Boot!Rows(seeded)
        BY <3>2, <4>2
      <4>4. QED
        BY <2>4, <2>8, <4>3
    <3>4. QED
      BY <1>9, <3>3
  <2>10. Len(items) >= 1 /\ BootClassIn(compile.saw, items[1]) = "CHAIN_HEAD"
    BY <1>9, <1>10, <2>1, <2>8, <2>9
  <2>11. ASSUME seeded = <<h, d>>
         PROVE  (\E k \in DOMAIN items : BootDocAt(compile.saw, items, k)) \/
                  BootHeadsOnly(compile.saw, items)
    <3>1. (\E k \in DOMAIN read : BootDocAt(compile.saw, read, k)) \/
            BootHeadsOnly(compile.saw, read)
      BY <2>8, <2>11 DEF BootLeads
    <3>2. CASE BootHeadsOnly(compile.saw, read)
      BY <1>10, <3>2 DEF BootHeadsOnly
    <3>3. ASSUME NEW k \in DOMAIN read, BootDocAt(compile.saw, read, k)
          PROVE  (\E m \in DOMAIN items : BootDocAt(compile.saw, items, m)) \/
                   BootHeadsOnly(compile.saw, items)
      <4>1. k \in Nat /\ k >= 1
        BY <1>8
      <4>2. CASE k <= room
        <5>1. k \in 1..room /\ \A i \in 1..(k - 1) : i \in 1..room
          BY <1>9, <4>1, <4>2
        <5>2. BootDocAt(compile.saw, items, k)
          BY <1>10, <3>3, <5>1 DEF BootDocAt
        <5>3. QED
          BY <1>10, <5>1, <5>2
      <4>3. CASE ~(k <= room)
        <5>1. \A i \in 1..room : i \in 1..(k - 1)
          BY <1>9, <4>1, <4>3
        <5>2. BootHeadsOnly(compile.saw, items)
          BY <1>10, <3>3, <5>1 DEF BootDocAt, BootHeadsOnly
        <5>3. QED
          BY <5>2
      <4>4. QED
        BY <4>2, <4>3
    <3>4. QED
      BY <3>1, <3>2, <3>3
  <2>12. QED
    BY <2>1, <2>5, <2>10, <2>11 DEF BootLeads
<1>13. QED
  BY <1>10, <1>11, <1>12 DEF BootRemembered

(* The compile *)

BootNoHead       == {"chain"}
BootNoPaths      == BootNoHead \cup {"paths"}
BootNoOwner      == BootNoPaths \cup {"owner chain"}
BootNoOwnerPaths == BootNoOwner \cup {"owner paths"}
BootNoGuide      == BootNoOwnerPaths \cup {"guide"}
BootNoManifest   == BootNoGuide \cup {"manifest"}
BootNoResolved   == BootNoManifest \cup {"resolve"}
BootNoItems      == BootNoResolved \cup {"bundle", "skills", "memory"}
BootFirsts       == BootNoItems \cup {"size", "chain again"}
BootSeconds      == {"paths again", "owner chain again", "owner paths again", "recheck"}

BootJob == [stage: BootFirsts \cup BootSeconds, owner: BOOLEAN, sparse: BOOLEAN, current: BOOLEAN, hits: Nat,
            saw: BootSaws, resolved: BootStone, differs: BOOLEAN, brief: BOOLEAN, relevant: BOOLEAN,
            items: Seq(BootEvidence)]

\* What has been read at a stage, and what has been read a second time.
BootWasRead(stage, owner, p) ==
  \/ p = "head" /\ stage \notin BootNoHead
  \/ p \in Boot!Target \ {"head"} /\ stage \notin BootNoPaths
  \/ owner /\ p = "owner head" /\ stage \notin BootNoOwner
  \/ owner /\ p \in Boot!Owner \ {"owner head"} /\ stage \notin BootNoOwnerPaths
  \/ p = "manifest" /\ stage \notin BootNoManifest

BootWasReadAgain(stage, owner, p) ==
  \/ p = "head"
  \/ p \in Boot!Target \ {"head"} /\ stage # "paths again"
  \/ owner /\ p = "owner head" /\ stage \in {"owner paths again", "recheck"}
  \/ owner /\ p \in Boot!Owner \ {"owner head"} /\ stage = "recheck"

\* What was read was a head up to an instant, and the manifest that was
\* resolved one since it was listed.
BootByThen(hs, r, i) ==
  /\ \A p \in Boot!Pointer : BootWasRead(r.stage, r.owner, p) => \E t \in 1..i : hs[t][p] = r.saw[p]
  /\ r.stage \notin BootNoResolved =>
       \E t, u \in 1..i : /\ t <= u /\ hs[t]["manifest"] = r.saw["manifest"]
                         /\ hs[u]["manifest"] = r.resolved

\* What was read again was the same head since that instant, or it differs.
BootSince(hs, r, i) ==
  \/ r.differs
  \/ \A p \in Boot!Pointer : BootWasReadAgain(r.stage, r.owner, p) =>
       \E u \in i..Len(hs) : hs[u][p] = r.saw[p]

BootReadOK(hs, r) ==
  /\ r.stage \in BootFirsts => BootByThen(hs, r, Len(hs))
  /\ r.stage \in BootSeconds => \E i \in 1..Len(hs) : BootByThen(hs, r, i) /\ BootSince(hs, r, i)
  /\ r.stage \in {"owner chain again", "recheck"} => ~r.differs

BootFits(owner, saw) ==
  IF owner THEN BriefFor[saw["owner brief"]] = saw["owner guide"]
  ELSE BriefFor[saw["brief"]] = saw["guide"]

BootBriefOK(r) == r.brief => r.stage \notin BootNoGuide /\ BootFits(r.owner, r.saw)

BootItemsOK(r) ==
  r.stage \notin BootNoItems =>
    /\ r.current => BootTidy(r.saw, r.items)
    /\ r.current /\ r.hits > 0 => BootLeads(r.saw, r.items, r.relevant)

BootJobOK(hs, r) == r \in BootJob /\ BootReadOK(hs, r) /\ BootBriefOK(r) /\ BootItemsOK(r)

BootHeadsOK == heads \in Seq([Boot!Pointer -> BootStone]) /\ Len(heads) >= 1

BootIInv == /\ BootHeadsOK
            /\ compile = Boot!Quiet \/ BootJobOK(heads, compile)
            /\ package.ok => compile = Boot!Quiet
            /\ Boot!PackageKept

LEMMA BootInitOK == RowsAreOfTheChain /\ Boot!Init => BootIInv
<1> SUFFICES ASSUME RowsAreOfTheChain, Boot!Init PROVE BootIInv
  OBVIOUS
<1>1. PICK first : first = [p \in Boot!Pointer |-> Boot!Lowest]
  OBVIOUS
<1>2. first \in [Boot!Pointer -> BootStone]
  BY <1>1 DEF BootStone
<1>3. heads = <<first>>
  BY <1>1 DEF Boot!Init
<1>4. BootHeadsOK
  BY <1>2, <1>3 DEF BootHeadsOK
<1>5. package = Boot!Untold /\ compile = Boot!Quiet
  BY DEF Boot!Init
<1>6. ~package.ok
  BY <1>5 DEF Boot!Untold
<1>7. QED
  BY <1>4, <1>5, <1>6 DEF BootIInv, Boot!PackageKept, Boot!OneGeneration, Boot!EvidenceClassed,
     Boot!BriefFits

\* A compile that goes on, or ends without a package.
LEMMA BootGoes ==
  ASSUME BootIInv, ~package.ok, UNCHANGED heads, UNCHANGED package, BootJobOK(heads, compile')
  PROVE  BootIInv'
<1>2. ~package'.ok
  OBVIOUS
<1>3. BootHeadsOK'
  BY DEF BootIInv, BootHeadsOK
<1>4. Boot!PackageKept'
  BY <1>2 DEF Boot!PackageKept, Boot!OneGeneration, Boot!EvidenceClassed, Boot!BriefFits
<1>5. QED
  BY <1>2, <1>3, <1>4 DEF BootIInv

LEMMA BootFails ==
  ASSUME BootIInv, UNCHANGED heads, Boot!Fail
  PROVE  BootIInv'
<1>1. compile' = Boot!Quiet /\ ~package'.ok
  BY DEF Boot!Fail
<1>2. BootHeadsOK'
  BY DEF BootIInv, BootHeadsOK
<1>3. Boot!PackageKept'
  BY <1>1 DEF Boot!PackageKept, Boot!OneGeneration, Boot!EvidenceClassed, Boot!BriefFits
<1>4. QED
  BY <1>1, <1>2, <1>3 DEF BootIInv

LEMMA BootGoing ==
  ASSUME BootIInv, compile.stage # "quiet"
  PROVE  BootJobOK(heads, compile) /\ ~package.ok
<1>1. compile # Boot!Quiet
  BY DEF Boot!Quiet
<1>2. QED
  BY <1>1 DEF BootIInv

LEMMA BootBeginOK == ASSUME RowsAreOfTheChain, BootIInv, Boot!Begin PROVE BootIInv'
<1>1. PICK owner \in BOOLEAN, sparse \in BOOLEAN, current \in BOOLEAN, hits \in Hits :
        compile' = [stage |-> "chain", owner |-> owner, sparse |-> sparse, current |-> current,
                    hits |-> hits, saw |-> [p \in Boot!Pointer |-> 0], resolved |-> 0,
                    differs |-> FALSE, brief |-> FALSE, relevant |-> FALSE, items |-> <<>>]
  BY DEF Boot!Begin
<1>2. [p \in Boot!Pointer |-> 0] \in BootSaws /\ 0 \in BootStone
  BY DEF BootSaws, BootStone
<1>3. <<>> \in Seq(BootEvidence) /\ hits \in Nat
  BY DEF RowsAreOfTheChain
<1>4. compile' \in BootJob
  BY <1>1, <1>2, <1>3 DEF BootJob, BootFirsts, BootNoItems, BootNoResolved, BootNoManifest,
     BootNoGuide, BootNoOwnerPaths, BootNoOwner, BootNoPaths, BootNoHead
<1>5. compile'.stage = "chain" /\ compile'.brief = FALSE
  BY <1>1
<1>6. \A p \in Boot!Pointer : ~BootWasRead(compile'.stage, compile'.owner, p)
  BY <1>5 DEF BootWasRead, BootNoResolved, BootNoManifest, BootNoGuide, BootNoOwnerPaths,
     BootNoOwner, BootNoPaths, BootNoHead
<1>7. BootReadOK(heads, compile')
  BY <1>5, <1>6 DEF BootReadOK, BootByThen, BootSeconds, BootNoResolved, BootNoManifest,
     BootNoGuide, BootNoOwnerPaths, BootNoOwner, BootNoPaths, BootNoHead
<1>8. BootBriefOK(compile') /\ BootItemsOK(compile')
  BY <1>5 DEF BootBriefOK, BootItemsOK, BootNoItems, BootNoResolved, BootNoManifest, BootNoGuide,
     BootNoOwnerPaths, BootNoOwner, BootNoPaths, BootNoHead
<1>9. ~package.ok /\ UNCHANGED package /\ UNCHANGED heads
  BY DEF Boot!Begin, Boot!Reading, Boot!Untold
<1>10. QED
  BY <1>4, <1>7, <1>8, <1>9, BootGoes DEF BootJobOK

\* One of the first readings: of pointers that no later property of the
\* compile rests on already.
LEMMA BootSeeOK ==
  ASSUME BootIInv, NEW stage, NEW targets \in SUBSET Boot!Pointer, NEW next,
         Boot!See(stage, targets, next),
         stage \in BootNoItems, next \in BootNoItems,
         \A p \in Boot!Pointer : BootWasRead(next, compile.owner, p) =>
           p \in targets \/ BootWasRead(stage, compile.owner, p),
         next \notin BootNoResolved => stage \notin BootNoResolved /\ "manifest" \notin targets,
         stage \notin BootNoGuide =>
           next \notin BootNoGuide /\ targets \subseteq {"manifest", "skill"}
  PROVE  BootIInv'
<1>1. compile.stage = stage /\ compile.stage # "quiet" /\ UNCHANGED heads
  BY DEF Boot!See, Boot!At, Boot!Reading, BootNoItems, BootNoResolved, BootNoManifest,
     BootNoGuide, BootNoOwnerPaths, BootNoOwner, BootNoPaths, BootNoHead
<1>2. BootJobOK(heads, compile) /\ ~package.ok
  BY <1>1, BootGoing
<1>3. CASE Boot!Fail
  BY <1>1, <1>3, BootFails
<1>4. CASE /\ compile' = [compile EXCEPT !.stage = next,
                                 !.saw = [p \in Boot!Pointer |-> IF p \in targets THEN Boot!now[p] ELSE @[p]]]
           /\ UNCHANGED package
  <2>1. PICK n \in Nat : n = Len(heads) /\ n >= 1 /\ heads[n] \in [Boot!Pointer -> BootStone]
    BY DEF BootIInv, BootHeadsOK
  <2>2. PICK saw : saw = [p \in Boot!Pointer |-> IF p \in targets THEN heads[n][p] ELSE compile.saw[p]]
    OBVIOUS
  <2>3. compile \in BootJob /\ compile.saw \in BootSaws
    BY <1>2 DEF BootJobOK, BootJob
  <2>4. saw \in BootSaws
    BY <2>1, <2>2, <2>3 DEF BootSaws
  <2>5. PICK r : r = [compile EXCEPT !.stage = next, !.saw = saw]
    OBVIOUS
  <2>6. compile' = r
    BY <1>4, <2>1, <2>2, <2>5 DEF Boot!now
  <2>7. r \in BootJob
    BY <2>3, <2>4, <2>5 DEF BootJob, BootFirsts
  <2>8. /\ r.stage = next /\ r.saw = saw /\ r.owner = compile.owner /\ r.resolved = compile.resolved
        /\ r.brief = compile.brief /\ r.differs = compile.differs
    BY <2>3, <2>5 DEF BootJob
  <2>9. BootByThen(heads, compile, n) /\ next \notin BootSeconds /\
          next \notin {"owner chain again", "recheck"}
    BY <1>1, <1>2, <2>1 DEF BootJobOK, BootReadOK, BootFirsts, BootSeconds, BootNoItems,
       BootNoResolved, BootNoManifest, BootNoGuide, BootNoOwnerPaths, BootNoOwner, BootNoPaths,
       BootNoHead
  <2>10. ASSUME NEW p \in Boot!Pointer,
  BootWasRead(r.stage, r.owner, p) PROVE \E t \in 1..n : heads[t][p] = r.saw[p]
    <3>1. CASE p \in targets
      BY <2>1, <2>2, <2>8, <3>1
    <3>2. CASE p \notin targets
      <4>1. r.saw[p] = compile.saw[p]
        BY <2>2, <2>8, <3>2
      <4>2. BootWasRead(next, compile.owner, p)
        BY <2>8, <2>10
      <4>3. BootWasRead(stage, compile.owner, p)
        BY <3>2, <4>2
      <4>4. BootWasRead(compile.stage, compile.owner, p)
        BY <1>1, <4>3
      <4>5. QED
        BY <2>9, <4>1, <4>4 DEF BootByThen
    <3>3. QED
      BY <3>1, <3>2
  <2>11. next \notin BootNoResolved => saw["manifest"] = compile.saw["manifest"]
    BY <2>2 DEF Boot!Pointer
  <2>12. BootByThen(heads, r, n)
    BY <1>1, <2>8, <2>9, <2>10, <2>11 DEF BootByThen
  <2>13. BootReadOK(heads, r)
    BY <2>1, <2>8, <2>9, <2>12 DEF BootReadOK
  <2>14. BootBriefOK(r)
    <3>1. SUFFICES ASSUME r.brief PROVE r.stage \notin BootNoGuide /\ BootFits(r.owner, r.saw)
      BY DEF BootBriefOK
    <3>2. stage \notin BootNoGuide /\ BootFits(compile.owner, compile.saw)
      BY <1>1, <1>2, <2>8, <3>1 DEF BootJobOK, BootBriefOK
    <3>3. next \notin BootNoGuide /\ targets \subseteq {"manifest", "skill"}
      BY <3>2
    <3>4. \A p \in {"owner brief", "owner guide", "brief", "guide"} : saw[p] = compile.saw[p]
      BY <2>2, <3>3 DEF Boot!Pointer, Boot!Target, Boot!Owner
    <3>5. QED
      BY <2>8, <3>2, <3>3, <3>4 DEF BootFits
  <2>15. BootItemsOK(r)
    BY <2>8 DEF BootItemsOK
  <2>16. QED
    BY <1>1, <1>2, <1>4, <2>6, <2>7, <2>13, <2>14, <2>15, BootGoes DEF BootJobOK
<1>5. QED
  BY <1>3, <1>4 DEF Boot!See

LEMMA BootFirstReadingsOK ==
  ASSUME BootIInv,
         Boot!Chain \/ Boot!Paths \/ Boot!OwnerChain \/ Boot!OwnerPaths \/ Boot!ListManifest \/
           Boot!SkillHeads
  PROVE  BootIInv'
<1> USE DEF BootNoItems, BootNoResolved, BootNoManifest, BootNoGuide, BootNoOwnerPaths,
            BootNoOwner, BootNoPaths, BootNoHead
<1>1. {"head"} \in SUBSET Boot!Pointer /\ {"owner head"} \in SUBSET Boot!Pointer
  BY DEF Boot!Pointer, Boot!Target, Boot!Owner
<1>2. Boot!Target \ {"head"} \in SUBSET Boot!Pointer /\
        Boot!Owner \ {"owner head"} \in SUBSET Boot!Pointer
  BY DEF Boot!Pointer
<1>3. {"manifest"} \in SUBSET Boot!Pointer /\ {"skill"} \in SUBSET Boot!Pointer
  BY DEF Boot!Pointer
<1>4. CASE Boot!Chain
  <2>1. \A p \in Boot!Pointer : BootWasRead("paths", compile.owner, p) =>
          p \in {"head"} \/ BootWasRead("chain", compile.owner, p)
    BY DEF BootWasRead
  <2>2. QED
    BY <1>1, <1>4, <2>1, BootSeeOK DEF Boot!Chain
<1>5. CASE Boot!Paths
  <2>1. ~compile.owner => \A p \in Boot!Pointer : BootWasRead("guide", compile.owner, p) =>
          p \in Boot!Target \ {"head"} \/ BootWasRead("paths", compile.owner, p)
    BY DEF BootWasRead
  <2>2. \A p \in Boot!Pointer : BootWasRead("owner chain", compile.owner, p) =>
          p \in Boot!Target \ {"head"} \/ BootWasRead("paths", compile.owner, p)
    BY DEF BootWasRead
  <2>3. compile.stage = "paths"
    BY <1>5 DEF Boot!Paths, Boot!See, Boot!At
  <2>4. compile.owner \in BOOLEAN
    BY <2>3, BootGoing DEF BootJobOK, BootJob
  <2>5. CASE compile.owner = TRUE
    <3>1. Boot!See("paths", Boot!Target \ {"head"}, "owner chain")
      BY <1>5, <2>5 DEF Boot!Paths
    <3>2. QED
      BY <1>2, <2>2, <2>5, <3>1, BootSeeOK
  <2>6. CASE compile.owner = FALSE
    <3>1. Boot!See("paths", Boot!Target \ {"head"}, "guide")
      BY <1>5, <2>6 DEF Boot!Paths
    <3>2. QED
      BY <1>2, <2>1, <2>6, <3>1, BootSeeOK
  <2>7. QED
    BY <2>4, <2>5, <2>6
<1>6. CASE Boot!OwnerChain
  <2>1. \A p \in Boot!Pointer : BootWasRead("owner paths", compile.owner, p) =>
          p \in {"owner head"} \/ BootWasRead("owner chain", compile.owner, p)
    BY DEF BootWasRead
  <2>2. QED
    BY <1>1, <1>6, <2>1, BootSeeOK DEF Boot!OwnerChain
<1>7. CASE Boot!OwnerPaths
  <2>1. \A p \in Boot!Pointer : BootWasRead("guide", compile.owner, p) =>
          p \in Boot!Owner \ {"owner head"} \/ BootWasRead("owner paths", compile.owner, p)
    BY DEF BootWasRead
  <2>2. QED
    BY <1>2, <1>7, <2>1, BootSeeOK DEF Boot!OwnerPaths
<1>8. CASE Boot!ListManifest
  <2>1. \A p \in Boot!Pointer : BootWasRead("resolve", compile.owner, p) =>
          p \in {"manifest"} \/ BootWasRead("manifest", compile.owner, p)
    BY DEF BootWasRead
  <2>2. QED
    BY <1>3, <1>8, <2>1, BootSeeOK DEF Boot!ListManifest
<1>9. CASE Boot!SkillHeads
  <2>1. \A p \in Boot!Pointer : BootWasRead("memory", compile.owner, p) =>
          p \in {"skill"} \/ BootWasRead("skills", compile.owner, p)
    BY DEF BootWasRead
  <2>2. QED
    BY <1>3, <1>9, <2>1, BootSeeOK DEF Boot!SkillHeads
<1>10. QED
  BY <1>4, <1>5, <1>6, <1>7, <1>8, <1>9

\* A step that reads no head for the package, between two first readings.
LEMMA BootOnwardOK ==
  ASSUME BootIInv, compile.stage \in BootNoItems \cup {"size"}, UNCHANGED heads, UNCHANGED package,
         NEW r, compile' = r, r \in BootJob, r.stage \in BootFirsts,
         r.saw = compile.saw, r.resolved = compile.resolved, r.owner = compile.owner,
         \A p \in Boot!Pointer : BootWasRead(r.stage, r.owner, p) =>
           BootWasRead(compile.stage, compile.owner, p),
         r.stage \notin BootNoResolved => compile.stage \notin BootNoResolved,
         BootBriefOK(r), BootItemsOK(r)
  PROVE  BootIInv'
<1> USE DEF BootNoItems, BootNoResolved, BootNoManifest, BootNoGuide, BootNoOwnerPaths,
            BootNoOwner, BootNoPaths, BootNoHead
<1>1. BootJobOK(heads, compile) /\ ~package.ok
  BY BootGoing
<1>2. BootByThen(heads, compile, Len(heads))
  BY <1>1 DEF BootJobOK, BootReadOK, BootFirsts
<1>3. BootByThen(heads, r, Len(heads))
  BY <1>2 DEF BootByThen
<1>4. r.stage \notin BootSeconds /\ r.stage \notin {"owner chain again", "recheck"}
  BY DEF BootFirsts, BootSeconds
<1>5. BootReadOK(heads, r)
  BY <1>3, <1>4 DEF BootReadOK
<1>6. BootJobOK(heads, compile')
  BY <1>5 DEF BootJobOK
<1>7. QED
  BY <1>1, <1>6, BootGoes

LEMMA BootInstructOK == ASSUME BootIInv, Boot!Instruct PROVE BootIInv'
<1> USE DEF BootNoItems, BootNoResolved, BootNoManifest, BootNoGuide, BootNoOwnerPaths,
            BootNoOwner, BootNoPaths, BootNoHead
<1>1. compile.stage = "guide" /\ UNCHANGED heads
  BY DEF Boot!Instruct, Boot!At, Boot!Reading
<1>2. BootJobOK(heads, compile) /\ compile \in BootJob
  BY <1>1, BootGoing DEF BootJobOK
<1>3. ASSUME NEW brief \in BOOLEAN, brief => compile.sparse /\ BriefFor[Boot!Brief] = Boot!Guide,
             compile' = [compile EXCEPT !.stage = "manifest", !.brief = brief], UNCHANGED package
      PROVE  BootIInv'
  <2>1. PICK r : r = [compile EXCEPT !.stage = "manifest", !.brief = brief]
    OBVIOUS
  <2>2. r \in BootJob
    BY <1>2, <2>1 DEF BootJob, BootFirsts
  <2>3. /\ r.stage = "manifest" /\ r.saw = compile.saw /\ r.resolved = compile.resolved
        /\ r.owner = compile.owner /\ r.brief = brief
    BY <1>2, <2>1 DEF BootJob
  <2>4. \A p \in Boot!Pointer : BootWasRead("manifest", compile.owner, p) =>
          BootWasRead("guide", compile.owner, p)
    BY DEF BootWasRead
  <2>5. BootBriefOK(r)
    BY <1>3, <2>3 DEF BootBriefOK, BootFits, Boot!Brief, Boot!Guide
  <2>6. BootItemsOK(r)
    BY <2>3 DEF BootItemsOK
  <2>7. QED
    BY <1>1, <1>3, <2>1, <2>2, <2>3, <2>4, <2>5, <2>6, BootOnwardOK DEF BootFirsts
<1>4. QED
  BY <1>1, <1>3, BootFails DEF Boot!Instruct

LEMMA BootBundleOK == ASSUME BootIInv, Boot!Bundle PROVE BootIInv'
<1> USE DEF BootNoItems, BootNoResolved, BootNoManifest, BootNoGuide, BootNoOwnerPaths,
            BootNoOwner, BootNoPaths, BootNoHead
<1>1. compile.stage = "bundle" /\ UNCHANGED heads
  BY DEF Boot!Bundle, Boot!At, Boot!Reading
<1>2. BootJobOK(heads, compile) /\ compile \in BootJob
  BY <1>1, BootGoing DEF BootJobOK
<1>3. ASSUME NEW next \in {"memory", "skills"}, Boot!Go(next), UNCHANGED package PROVE BootIInv'
  <2>1. PICK r : r = [compile EXCEPT !.stage = next]
    OBVIOUS
  <2>2. r \in BootJob
    BY <1>2, <2>1 DEF BootJob, BootFirsts
  <2>3. /\ r.stage = next /\ r.saw = compile.saw /\ r.resolved = compile.resolved
        /\ r.owner = compile.owner /\ r.brief = compile.brief
    BY <1>2, <2>1 DEF BootJob
  <2>4. \A p \in Boot!Pointer : BootWasRead(next, compile.owner, p) =>
          BootWasRead("bundle", compile.owner, p)
    BY DEF BootWasRead
  <2>5. BootBriefOK(r)
    BY <1>2, <2>3 DEF BootJobOK, BootBriefOK
  <2>6. BootItemsOK(r)
    BY <2>3 DEF BootItemsOK
  <2>7. compile' = r
    BY <1>3, <2>1 DEF Boot!Go
  <2>8. QED
    BY <1>1, <1>3, <2>2, <2>3, <2>4, <2>5, <2>6, <2>7, BootOnwardOK DEF BootFirsts
<1>4. QED
  BY <1>1, <1>3, BootFails DEF Boot!Bundle

LEMMA BootResolveOK == ASSUME BootIInv, Boot!Resolve PROVE BootIInv'
<1> USE DEF BootNoItems, BootNoResolved, BootNoManifest, BootNoGuide, BootNoOwnerPaths,
            BootNoOwner, BootNoPaths, BootNoHead
<1>1. compile.stage = "resolve" /\ UNCHANGED heads
  BY DEF Boot!Resolve, Boot!At, Boot!Reading
<1>2. BootJobOK(heads, compile) /\ compile \in BootJob /\ ~package.ok
  BY <1>1, BootGoing DEF BootJobOK
<1>3. CASE compile' = [compile EXCEPT !.stage = "bundle", !.resolved = Boot!now["manifest"]] /\
             UNCHANGED package
  <2>1. PICK n \in Nat : n = Len(heads) /\ n >= 1 /\ heads[n] \in [Boot!Pointer -> BootStone]
    BY DEF BootIInv, BootHeadsOK
  <2>2. PICK v \in BootStone : v = heads[n]["manifest"]
    BY <2>1 DEF Boot!Pointer
  <2>3. PICK r : r = [compile EXCEPT !.stage = "bundle", !.resolved = v]
    OBVIOUS
  <2>4. compile' = r
    BY <1>3, <2>1, <2>2, <2>3 DEF Boot!now
  <2>5. r \in BootJob
    BY <1>2, <2>3 DEF BootJob, BootFirsts
  <2>6. r.stage = "bundle" /\ r.saw = compile.saw /\ r.resolved = v /\ r.owner = compile.owner /\
          r.brief = compile.brief
    BY <1>2, <2>3 DEF BootJob
  <2>7. BootByThen(heads, compile, n)
    BY <1>1, <1>2, <2>1 DEF BootJobOK, BootReadOK, BootFirsts
  <2>8. \A p \in Boot!Pointer : BootWasRead("bundle", compile.owner, p) =>
          BootWasRead("resolve", compile.owner, p)
    BY DEF BootWasRead
  <2>9. BootWasRead("resolve", compile.owner, "manifest") /\ "manifest" \in Boot!Pointer
    BY DEF BootWasRead, Boot!Pointer
  <2>10. PICK t \in 1..n : heads[t]["manifest"] = compile.saw["manifest"]
    BY <1>1, <2>7, <2>9 DEF BootByThen
  <2>11. t <= n /\ n \in 1..n
    BY <2>1
  <2>12. BootByThen(heads, r, n)
    BY <1>1, <2>2, <2>6, <2>7, <2>8, <2>10, <2>11 DEF BootByThen
  <2>13. BootReadOK(heads, r)
    BY <2>1, <2>6, <2>12 DEF BootReadOK, BootSeconds
  <2>14. BootBriefOK(r) /\ BootItemsOK(r)
    BY <1>2, <2>6 DEF BootJobOK, BootBriefOK, BootItemsOK
  <2>15. QED
    BY <1>1, <1>2, <1>3, <2>4, <2>5, <2>13, <2>14, BootGoes DEF BootJobOK
<1>4. QED
  BY <1>1, <1>3, BootFails DEF Boot!Resolve

LEMMA BootRecallOK == ASSUME RowsAreOfTheChain, BootIInv, Boot!Recall PROVE BootIInv'
<1> USE DEF BootNoItems, BootNoResolved, BootNoManifest, BootNoGuide, BootNoOwnerPaths,
            BootNoOwner, BootNoPaths, BootNoHead
<1>1. compile.stage = "memory" /\ UNCHANGED heads
  BY DEF Boot!Recall, Boot!At, Boot!Reading
<1>2. BootJobOK(heads, compile) /\ compile \in BootJob /\ compile.saw \in BootSaws /\
        compile.hits \in Nat
  BY <1>1, BootGoing DEF BootJobOK, BootJob
<1>3. ASSUME NEW found \in Found, NEW relevant \in BOOLEAN, NEW lost,
             Boot!Select(found, relevant, lost), UNCHANGED package
      PROVE  BootIInv'
  <2>1. PICK seeded : seeded = Boot!Seeded(relevant, lost)
    OBVIOUS
  <2>2. PICK read : read = Boot!Without(Boot!Ranked(seeded, found), lost)
    OBVIOUS
  <2>3. PICK take : take = BootTaken(read)
    OBVIOUS
  <2>4. PICK room : room = BootFitting(take)
    OBVIOUS
  <2>5. /\ BootNotLost(seeded, relevant, read, take, room)
        /\ compile' = [compile EXCEPT !.stage = "size", !.items = SubSeq(read, 1, room),
                                  !.relevant = Boot!RowOf("doc") \in Boot!Rows(seeded)]
    BY <1>3, <2>1, <2>2, <2>3, <2>4 DEF Boot!Select, BootTaken, BootFitting, BootNotLost
  <2>6. PICK items : items = SubSeq(read, 1, room)
    OBVIOUS
  <2>7. PICK there \in BOOLEAN : there = (Boot!RowOf("doc") \in Boot!Rows(seeded))
    <3>1. (Boot!RowOf("doc") \in Boot!Rows(seeded)) \in BOOLEAN
      OBVIOUS
    <3>2. QED
      BY <3>1
  <2>8. /\ items \in Seq(BootEvidence)
        /\ compile.current => BootTidy(compile.saw, items)
        /\ compile.current /\ compile.hits > 0 =>
             BootLeads(compile.saw, items, Boot!RowOf("doc") \in Boot!Rows(seeded))
    <3>1. BootNotLost(seeded, relevant, read, take, room)
      BY <2>5
    <3>2. compile.saw \in BootSaws /\ compile.hits \in Nat
      BY <1>2
    <3>3. BootRemembered(items, Boot!RowOf("doc") \in Boot!Rows(seeded))
      BY <2>1, <2>2, <2>3, <2>4, <2>6, <3>1, <3>2, BootRecallIs
    <3>4. QED
      BY <3>3 DEF BootRemembered
  <2>9. PICK r : r = [compile EXCEPT !.stage = "size", !.items = items, !.relevant = there]
    OBVIOUS
  <2>10. compile' = r
    BY <2>5, <2>6, <2>7, <2>9
  <2>11. r \in BootJob
    BY <1>2, <2>7, <2>8, <2>9 DEF BootJob, BootFirsts
  <2>12. /\ r.stage = "size" /\ r.saw = compile.saw /\ r.resolved = compile.resolved /\
              r.owner = compile.owner
        /\ r.brief = compile.brief /\ r.current = compile.current /\ r.hits = compile.hits
        /\ r.items = items /\ r.relevant = there
    BY <1>2, <2>9 DEF BootJob
  <2>13. \A p \in Boot!Pointer : BootWasRead("size", compile.owner, p) =>
           BootWasRead("memory", compile.owner, p)
    BY DEF BootWasRead
  <2>14. BootBriefOK(r)
    BY <1>2, <2>12 DEF BootJobOK, BootBriefOK
  <2>15. compile.current /\ compile.hits > 0 => BootLeads(compile.saw, items, there)
    BY <2>7, <2>8
  <2>16. BootItemsOK(r)
    BY <2>8, <2>12, <2>15 DEF BootItemsOK
  <2>17. QED
    <3>1. \A p \in Boot!Pointer : BootWasRead(r.stage, r.owner, p) =>
            BootWasRead(compile.stage, compile.owner, p)
      BY <1>1, <2>12, <2>13
    <3>2. r.stage \in BootFirsts /\ compile.stage \in BootNoItems \cup {"size"} /\
            compile.stage \notin BootNoResolved
      BY <1>1, <2>12 DEF BootFirsts
    <3>3. UNCHANGED heads /\ UNCHANGED package
      BY <1>1, <1>3
    <3>4. QED
      BY <2>10, <2>11, <2>12, <2>14, <2>16, <3>1, <3>2, <3>3, BootOnwardOK
<1>4. QED
  BY <1>1, <1>3, BootFails DEF Boot!Recall

\* The floor stays: the first row of the chain's head, and the path's.
LEMMA BootSizeOK == ASSUME BootIInv, Boot!Size PROVE BootIInv'
<1> USE DEF BootNoItems, BootNoResolved, BootNoManifest, BootNoGuide, BootNoOwnerPaths,
            BootNoOwner, BootNoPaths, BootNoHead
<1>1. compile.stage = "size" /\ UNCHANGED heads
  BY DEF Boot!Size, Boot!At, Boot!Reading
<1>2. BootJobOK(heads, compile) /\ compile \in BootJob /\ compile.items \in Seq(BootEvidence)
  BY <1>1, BootGoing DEF BootJobOK, BootJob
<1>3. ASSUME NEW from,
             compile' = [compile EXCEPT !.stage = "chain again",
                                    !.items = Boot!Chosen(@, {i \in DOMAIN @ : i < from \/ Boot!Protected(i)})],
             UNCHANGED package
      PROVE  BootIInv'
  <2>1. PICK at \in SUBSET DOMAIN compile.items :
               at = {i \in DOMAIN compile.items : i < from \/ Boot!Protected(i)}
    OBVIOUS
  <2>2. PICK items : items = Boot!Chosen(compile.items, at)
    OBVIOUS
  <2>3. items \in Seq(BootEvidence)
    BY <1>2, <2>2, BootChosenInOrder
  <2>4. PICK r : r = [compile EXCEPT !.stage = "chain again", !.items = items]
    OBVIOUS
  <2>5. compile' = r
    BY <1>2, <1>3, <2>1, <2>2, <2>4 DEF BootJob
  <2>6. r \in BootJob
    BY <1>2, <2>3, <2>4 DEF BootJob, BootFirsts
  <2>7. /\ r.stage = "chain again" /\ r.saw = compile.saw /\ r.resolved = compile.resolved
        /\ r.owner = compile.owner /\ r.brief = compile.brief /\ r.current = compile.current
        /\ r.hits = compile.hits /\ r.items = items /\ r.relevant = compile.relevant
    BY <1>2, <2>4 DEF BootJob
  <2>8. \A p \in Boot!Pointer : BootWasRead("chain again", compile.owner, p) =>
          BootWasRead("size", compile.owner, p)
    BY DEF BootWasRead
  <2>9. BootBriefOK(r)
    BY <1>2, <2>7 DEF BootJobOK, BootBriefOK
  <2>10. compile.current => BootTidy(compile.saw, items)
    BY <1>1, <1>2, <2>2, BootChosenTidy DEF BootJobOK, BootItemsOK
  <2>11. ASSUME compile.current,
  compile.hits > 0 PROVE BootLeads(compile.saw, items, compile.relevant)
    <3>1. BootLeads(compile.saw, compile.items, compile.relevant)
      BY <1>1, <1>2, <2>11 DEF BootJobOK, BootItemsOK
    <3>2. PICK n \in Nat : n = Len(compile.items) /\ DOMAIN compile.items = 1..n
      BY <1>2
    <3>3. 1 \in DOMAIN compile.items /\ BootClassIn(compile.saw, compile.items[1]) = "CHAIN_HEAD"
      BY <3>1, <3>2 DEF BootLeads
    <3>4. Boot!FirstOf("CHAIN_HEAD", 1)
      BY <3>3, BootClassIs DEF Boot!FirstOf
    <3>5. 1 \in at
      BY <2>1, <3>3, <3>4 DEF Boot!Protected
    <3>6. ASSUME NEW d \in DOMAIN compile.items,
    BootDocAt(compile.saw, compile.items, d) PROVE d \in at
      <4>1. Boot!FirstOf("PATH_HEAD", d)
        BY <3>6, BootClassIs DEF Boot!FirstOf, BootDocAt
      <4>2. QED
        BY <2>1, <4>1 DEF Boot!Protected
    <3>7. ~compile.relevant \/ (\E d \in at : BootDocAt(compile.saw, compile.items, d)) \/
            BootHeadsOnly(compile.saw, compile.items)
      BY <3>1, <3>6 DEF BootLeads
    <3>8. QED
      BY <1>2, <2>2, <3>3, <3>5, <3>7, BootChosenLeads
  <2>12. BootItemsOK(r)
    BY <2>7, <2>10, <2>11 DEF BootItemsOK
  <2>13. QED
    BY <1>1, <1>3, <2>5, <2>6, <2>7, <2>8, <2>9, <2>12, BootOnwardOK DEF BootFirsts
<1>4. QED
  BY <1>1, <1>3, BootFails DEF Boot!Size

\* What a compile keeps from its evidence on.
BootAlike(r, s) ==
  /\ r.saw = s.saw /\ r.resolved = s.resolved /\ r.owner = s.owner /\ r.brief = s.brief
  /\ r.current = s.current /\ r.hits = s.hits /\ r.items = s.items /\ r.relevant = s.relevant

LEMMA BootLate ==
  ASSUME NEW r \in BootJob, NEW s \in BootJob, BootAlike(r, s),
         s.stage \in BootSeconds \cup {"chain again"}, r.stage \in BootSeconds, BootBriefOK(s),
         BootItemsOK(s), NEW hs
  PROVE  /\ BootBriefOK(r) /\ BootItemsOK(r)
         /\ \A i : BootByThen(hs, s, i) => BootByThen(hs, r, i)
<1> USE DEF BootNoItems, BootNoResolved, BootNoManifest, BootNoGuide, BootNoOwnerPaths,
            BootNoOwner, BootNoPaths, BootNoHead
<1>1. s.stage \notin BootNoItems /\ r.stage \notin BootNoItems
  BY DEF BootSeconds
<1>2. s.stage \notin BootNoGuide /\ r.stage \notin BootNoGuide /\ s.stage \notin BootNoResolved /\
        r.stage \notin BootNoResolved
  BY <1>1
<1>3. \A p : BootWasRead(r.stage, r.owner, p) => BootWasRead(s.stage, s.owner, p)
  BY <1>1 DEF BootWasRead, BootAlike
<1>4. BootBriefOK(r)
  BY <1>2 DEF BootBriefOK, BootAlike
<1>5. BootItemsOK(r)
  BY <1>1 DEF BootItemsOK, BootAlike
<1>6. ASSUME NEW i, BootByThen(hs, s, i) PROVE BootByThen(hs, r, i)
  BY <1>2, <1>3, <1>6 DEF BootByThen, BootAlike
<1>7. QED
  BY <1>4, <1>5, <1>6

LEMMA BootHeadsNow ==
  ASSUME BootIInv
  PROVE  /\ Len(heads) \in Nat /\ Len(heads) >= 1
         /\ Boot!now \in [Boot!Pointer -> BootStone] /\ Boot!now = heads[Len(heads)]
<1>1. heads \in Seq([Boot!Pointer -> BootStone]) /\ Len(heads) >= 1
  BY DEF BootIInv, BootHeadsOK
<1>2. Len(heads) \in Nat
  BY <1>1
<1>3. heads[Len(heads)] \in [Boot!Pointer -> BootStone]
  BY <1>1, <1>2
<1>4. QED
  BY <1>1, <1>2, <1>3 DEF Boot!now

LEMMA BootAgainOK ==
  ASSUME BootIInv, UNCHANGED heads, UNCHANGED package, compile.stage \in BootSeconds,
         NEW r \in BootJob, compile' = r, r.stage \in BootSeconds, BootAlike(r, compile),
         r.stage \in {"owner chain again", "recheck"} => ~r.differs,
         r.differs \/ (~compile.differs /\ \A p \in Boot!Pointer :
           BootWasReadAgain(r.stage, r.owner, p) =>
             BootWasReadAgain(compile.stage, compile.owner, p) \/ Boot!now[p] = compile.saw[p])
  PROVE  BootIInv'
<1>1. BootJobOK(heads, compile) /\ ~package.ok /\ compile \in BootJob
  BY BootGoing DEF BootJobOK, BootSeconds
<1>2. PICK n \in Nat : n = Len(heads) /\ n >= 1 /\ Boot!now = heads[n]
  <2>1. Len(heads) \in Nat /\ Len(heads) >= 1 /\ Boot!now = heads[Len(heads)]
    BY BootHeadsNow
  <2>2. QED
    BY ONLY <2>1
<1>3. PICK i \in 1..n : BootByThen(heads, compile, i) /\ BootSince(heads, compile, i)
  BY <1>1, <1>2 DEF BootJobOK, BootReadOK
<1>4. BootBriefOK(r) /\ BootItemsOK(r) /\ BootByThen(heads, r, i)
  BY <1>1, <1>3, BootLate DEF BootJobOK
<1>5. BootSince(heads, r, i)
  <2>1. SUFFICES ASSUME ~r.differs, NEW p \in Boot!Pointer, BootWasReadAgain(r.stage, r.owner, p)
                 PROVE  \E u \in i..n : heads[u][p] = r.saw[p]
    BY <1>2 DEF BootSince
  <2>2. r.saw = compile.saw
    BY DEF BootAlike
  <2>3. CASE Boot!now[p] = compile.saw[p]
    <3>1. n \in i..n
      BY ONLY n \in Nat, i \in 1..n
    <3>2. heads[n][p] = r.saw[p]
      BY <1>2, <2>2, <2>3
    <3>3. QED
      BY ONLY <3>1, <3>2
  <2>4. CASE BootWasReadAgain(compile.stage, compile.owner, p)
    <3>1. ~compile.differs
      BY <2>1
    <3>2. \E u \in i..Len(heads) : heads[u][p] = compile.saw[p]
      BY <1>3, <3>1, <2>4 DEF BootSince
    <3>3. QED
      BY ONLY <1>2, <2>2, <3>2
  <2>5. QED
    BY <2>1, <2>3, <2>4
<1>6. BootReadOK(heads, r)
  BY <1>2, <1>3, <1>4, <1>5 DEF BootReadOK, BootSeconds, BootFirsts, BootNoItems, BootNoResolved,
     BootNoManifest, BootNoGuide, BootNoOwnerPaths, BootNoOwner, BootNoPaths, BootNoHead
<1>7. QED
  BY <1>1, <1>4, <1>6, BootGoes DEF BootJobOK

LEMMA BootChainAgainOK == ASSUME BootIInv, Boot!ChainAgain PROVE BootIInv'
<1>1. compile.stage = "chain again" /\ UNCHANGED heads
  BY DEF Boot!ChainAgain, Boot!SeeAgain, Boot!At, Boot!Reading
<1>2. BootJobOK(heads, compile) /\ ~package.ok /\ compile \in BootJob
  BY <1>1, BootGoing DEF BootJobOK
<1>3. CASE /\ compile' = [compile EXCEPT !.stage = "paths again", !.differs = @ \/ Boot!Differs({"head"})]
           /\ UNCHANGED package
  <2>1. PICK n \in Nat : n = Len(heads) /\ n >= 1 /\ Boot!now = heads[n]
    BY BootHeadsNow
  <2>2. PICK differs \in BOOLEAN : differs = (compile.differs \/ Boot!Differs({"head"}))
    <3>1. (compile.differs \/ Boot!Differs({"head"})) \in BOOLEAN
      OBVIOUS
    <3>2. QED
      BY <3>1
  <2>3. PICK r : r = [compile EXCEPT !.stage = "paths again", !.differs = differs]
    OBVIOUS
  <2>4. compile' = r
    BY <1>2, <1>3, <2>2, <2>3 DEF BootJob
  <2>5. r \in BootJob /\ r.stage = "paths again" /\ r.differs = differs /\ BootAlike(r, compile)
    BY <1>2, <2>3 DEF BootJob, BootAlike, BootSeconds
  <2>6. BootByThen(heads, compile, n)
    BY <1>1, <1>2, <2>1 DEF BootJobOK, BootReadOK, BootFirsts
  <2>7. BootBriefOK(r) /\ BootItemsOK(r) /\ BootByThen(heads, r, n)
    BY <1>1, <1>2, <2>5, <2>6, BootLate DEF BootJobOK, BootSeconds
  <2>8. \A p \in Boot!Pointer : BootWasReadAgain("paths again", r.owner, p) => p = "head"
    BY DEF BootWasReadAgain, Boot!Target, Boot!Owner
  <2>9. differs \/ heads[n]["head"] = compile.saw["head"]
    BY <2>1, <2>2 DEF Boot!Differs
  <2>10. n \in n..n /\ n \in 1..n
    BY ONLY n \in Nat, <2>1
  <2>11. BootSince(heads, r, n)
    <3>1. r.saw = compile.saw
      BY <2>5 DEF BootAlike
    <3>2. QED
      BY ONLY <2>1, <2>5, <2>8, <2>9, <2>10, <3>1 DEF BootSince
  <2>12. BootReadOK(heads, r)
    BY <2>1, <2>5, <2>7, <2>10, <2>11 DEF BootReadOK, BootFirsts, BootNoItems, BootNoResolved,
       BootNoManifest, BootNoGuide, BootNoOwnerPaths, BootNoOwner, BootNoPaths, BootNoHead
  <2>13. QED
    BY <1>1, <1>2, <1>3, <2>4, <2>5, <2>7, <2>12, BootGoes DEF BootJobOK
<1>4. QED
  BY <1>1, <1>3, BootFails DEF Boot!ChainAgain, Boot!SeeAgain

LEMMA BootCompareOK ==
  ASSUME BootIInv, NEW stage, NEW targets \in SUBSET Boot!Pointer, NEW next,
         Boot!Compare(stage, targets, next),
         stage \in BootSeconds, next \in BootSeconds,
         \A p \in Boot!Pointer : BootWasReadAgain(next, compile.owner, p) =>
           p \in targets \/ BootWasReadAgain(stage, compile.owner, p)
  PROVE  BootIInv'
<1>1. compile.stage = stage /\ UNCHANGED heads /\ stage # "quiet"
  BY DEF Boot!Compare, Boot!At, Boot!Reading, BootSeconds
<1>2. BootJobOK(heads, compile) /\ compile \in BootJob
  BY <1>1, BootGoing DEF BootJobOK
<1>3. CASE ~compile.differs /\ ~Boot!Differs(targets) /\ Boot!Go(next) /\ UNCHANGED package
  <2>1. PICK r : r = [compile EXCEPT !.stage = next]
    OBVIOUS
  <2>2. compile' = r
    BY <1>3, <2>1 DEF Boot!Go
  <2>3. r \in BootJob /\ r.stage = next /\ ~r.differs /\ BootAlike(r, compile) /\
          r.owner = compile.owner
    BY <1>2, <1>3, <2>1 DEF BootJob, BootAlike, BootSeconds
  <2>4. \A p \in targets : Boot!now[p] = compile.saw[p]
    BY <1>3 DEF Boot!Differs
  <2>5. \A p \in Boot!Pointer : BootWasReadAgain(r.stage, r.owner, p) =>
          BootWasReadAgain(compile.stage, compile.owner, p) \/ Boot!now[p] = compile.saw[p]
    BY <1>1, <2>3, <2>4
  <2>6. UNCHANGED package /\ ~compile.differs
    BY <1>3
  <2>7. QED
    BY <1>1, <2>2, <2>3, <2>5, <2>6, BootAgainOK
<1>4. QED
  BY <1>1, <1>3, BootFails DEF Boot!Compare

LEMMA BootOwnerChainAgainOK == ASSUME BootIInv, Boot!OwnerChainAgain PROVE BootIInv'
<1>1. compile.stage = "owner chain again" /\ UNCHANGED heads
  BY DEF Boot!OwnerChainAgain, Boot!SeeAgain, Boot!At, Boot!Reading
<1>2. BootJobOK(heads, compile) /\ compile \in BootJob /\ ~compile.differs
  BY <1>1, BootGoing DEF BootJobOK, BootReadOK
<1>3. CASE /\ compile' = [compile EXCEPT !.stage = "owner paths again", !.differs = @ \/ Boot!Differs({"owner head"})]
           /\ UNCHANGED package
  <2>1. PICK differs \in BOOLEAN : differs = (compile.differs \/ Boot!Differs({"owner head"}))
    <3>1. (compile.differs \/ Boot!Differs({"owner head"})) \in BOOLEAN
      OBVIOUS
    <3>2. QED
      BY <3>1
  <2>2. PICK r : r = [compile EXCEPT !.stage = "owner paths again", !.differs = differs]
    OBVIOUS
  <2>3. compile' = r
    BY <1>2, <1>3, <2>1, <2>2 DEF BootJob
  <2>4. r \in BootJob /\ r.stage = "owner paths again" /\ r.differs = differs /\
          BootAlike(r, compile) /\ r.owner = compile.owner
    BY <1>2, <2>2 DEF BootJob, BootAlike, BootSeconds
  <2>5. differs \/ Boot!now["owner head"] = compile.saw["owner head"]
    BY <2>1 DEF Boot!Differs
  <2>6. \A p \in Boot!Pointer : BootWasReadAgain("owner paths again", compile.owner, p) =>
          p = "owner head" \/ BootWasReadAgain("owner chain again", compile.owner, p)
    BY DEF BootWasReadAgain
  <2>7. r.differs \/ (~compile.differs /\ \A p \in Boot!Pointer :
          BootWasReadAgain(r.stage, r.owner, p) =>
            BootWasReadAgain(compile.stage, compile.owner, p) \/ Boot!now[p] = compile.saw[p])
    BY <1>1, <1>2, <2>4, <2>5, <2>6
  <2>8. UNCHANGED package
    BY <1>3
  <2>9. QED
    BY <1>1, <2>3, <2>4, <2>7, <2>8, BootAgainOK DEF BootSeconds
<1>4. QED
  BY <1>1, <1>3, BootFails DEF Boot!OwnerChainAgain, Boot!SeeAgain

LEMMA BootComparesOK == ASSUME BootIInv, Boot!PathsAgain \/ Boot!OwnerPathsAgain PROVE BootIInv'
<1>1. Boot!Target \ {"head"} \in SUBSET Boot!Pointer /\
        Boot!Owner \ {"owner head"} \in SUBSET Boot!Pointer
  BY DEF Boot!Pointer
<1>2. CASE Boot!PathsAgain
  <2>1. \A p \in Boot!Pointer : BootWasReadAgain("owner chain again", compile.owner, p) =>
          p \in Boot!Target \ {"head"} \/ BootWasReadAgain("paths again", compile.owner, p)
    BY DEF BootWasReadAgain
  <2>2. ~compile.owner => \A p \in Boot!Pointer : BootWasReadAgain("recheck", compile.owner, p) =>
          p \in Boot!Target \ {"head"} \/ BootWasReadAgain("paths again", compile.owner, p)
    BY DEF BootWasReadAgain
  <2>3. CASE compile.owner
    <3>1. Boot!Compare("paths again", Boot!Target \ {"head"}, "owner chain again")
      BY <1>2, <2>3 DEF Boot!PathsAgain
    <3>2. QED
      BY <1>1, <2>1, <3>1, BootCompareOK DEF BootSeconds
  <2>4. CASE ~compile.owner
    <3>1. Boot!Compare("paths again", Boot!Target \ {"head"}, "recheck")
      BY <1>2, <2>4 DEF Boot!PathsAgain
    <3>2. QED
      BY <1>1, <2>2, <2>4, <3>1, BootCompareOK DEF BootSeconds
  <2>5. QED
    BY <2>3, <2>4
<1>3. CASE Boot!OwnerPathsAgain
  <2>1. \A p \in Boot!Pointer : BootWasReadAgain("recheck", compile.owner, p) =>
          p \in Boot!Owner \ {"owner head"} \/
            BootWasReadAgain("owner paths again", compile.owner, p)
    BY DEF BootWasReadAgain
  <2>2. QED
    BY <1>1, <1>3, <2>1, BootCompareOK DEF Boot!OwnerPathsAgain, BootSeconds
<1>4. QED
  BY <1>2, <1>3

(* The package *)

BootBack(hs) ==
  \E p \in Boot!Pointer : \E i, j, k \in DOMAIN hs :
    i < j /\ j < k /\ hs[i][p] = hs[k][p] /\ hs[j][p] # hs[i][p]

BootRests(owner) == Boot!Target \cup (IF owner THEN Boot!Owner ELSE {}) \cup {"manifest"}

BootAtOnce(hs, r) ==
  \E i \in DOMAIN hs : /\ \A p \in BootRests(r.owner) : hs[i][p] = r.saw[p]
                       /\ hs[i]["manifest"] = r.resolved

\* What was the same head when it was read and when it was read again, and did
\* not come back to it in between, was that head at every moment in between.
LEMMA BootSameMoment ==
  ASSUME NEW hs \in Seq([Boot!Pointer -> BootStone]), NEW n \in Nat, n = Len(hs),
         NEW r \in BootJob, BootReadOK(hs, r), r.stage = "recheck", ~BootBack(hs),
         hs[n]["manifest"] = r.saw["manifest"], n >= 1
  PROVE  BootAtOnce(hs, r)
<1>1. ~r.differs /\ r.stage \in BootSeconds /\ r.stage \notin BootNoResolved
  BY DEF BootReadOK, BootSeconds, BootNoResolved, BootNoManifest, BootNoGuide, BootNoOwnerPaths,
     BootNoOwner, BootNoPaths, BootNoHead
<1>2. PICK i \in 1..n : BootByThen(hs, r, i) /\ BootSince(hs, r, i)
  BY <1>1 DEF BootReadOK
<1>3. DOMAIN hs = 1..n /\ i \in DOMAIN hs
  BY <1>2
<1>4. \A p \in Boot!Pointer : \A a, b, c \in 1..n :
        a < b /\ b < c /\ hs[a][p] = hs[c][p] => hs[b][p] = hs[a][p]
  BY <1>3 DEF BootBack
<1>5. ASSUME NEW p \in BootRests(r.owner) \ {"manifest"} PROVE hs[i][p] = r.saw[p]
  <2>1. p \in Boot!Pointer /\ BootWasRead("recheck", r.owner, p) /\
          BootWasReadAgain("recheck", r.owner, p)
    BY DEF BootRests, Boot!Pointer, BootWasRead, BootWasReadAgain, BootNoManifest, BootNoGuide,
       BootNoOwnerPaths, BootNoOwner, BootNoPaths, BootNoHead
  <2>2. PICK t \in 1..i : hs[t][p] = r.saw[p]
    BY <1>2, <2>1 DEF BootByThen
  <2>3. PICK u \in i..n : hs[u][p] = r.saw[p]
    BY <1>1, <1>2, <2>1 DEF BootSince
  <2>4. t \in 1..n /\ u \in 1..n /\ i \in 1..n /\ (t = i \/ t < i) /\ (u = i \/ i < u)
    BY <2>2, <2>3
  <2>5. QED
    BY <1>4, <2>1, <2>2, <2>3, <2>4
<1>6. "manifest" \in Boot!Pointer
  BY DEF Boot!Pointer
<1>7. PICK t \in 1..i, u \in 1..i : t <= u /\ hs[t]["manifest"] = r.saw["manifest"]
                                   /\ hs[u]["manifest"] = r.resolved
  BY <1>1, <1>2 DEF BootByThen
<1>8. t \in 1..n /\ u \in 1..n /\ i \in 1..n /\ n \in 1..n /\ (t = u \/ t < u) /\
        (u = i \/ u < i) /\ (i = n \/ i < n)
  BY <1>7
<1>9. u = n \/ u < n
  BY <1>8
<1>10. hs[u]["manifest"] = r.saw["manifest"]
  BY <1>4, <1>6, <1>7, <1>8, <1>9
<1>11. hs[i]["manifest"] = r.saw["manifest"]
  BY <1>4, <1>6, <1>8, <1>10
<1>12. hs[i]["manifest"] = r.resolved
  BY <1>7, <1>10, <1>11
<1>13. QED
  BY <1>3, <1>5, <1>11, <1>12 DEF BootAtOnce

LEMMA BootRecheckOK == ASSUME BootIInv, Boot!Recheck PROVE BootIInv'
<1>1. compile.stage = "recheck" /\ UNCHANGED heads
  BY DEF Boot!Recheck, Boot!At, Boot!Reading
<1>2. BootJobOK(heads, compile) /\ compile \in BootJob
  BY <1>1, BootGoing DEF BootJobOK
<1>3. CASE /\ ~Boot!Differs({"manifest"})
           /\ compile' = Boot!Quiet
           /\ package' = [ok |-> TRUE, of |-> compile, paths |-> Boot!Represented,
                          class |-> [i \in DOMAIN compile.items |-> Boot!Class(compile.items[i])]]
  <2>1. PICK class : class = [i \in DOMAIN compile.items |-> Boot!Class(compile.items[i])]
    OBVIOUS
  <2>2. PICK paths : paths = Boot!Represented
    OBVIOUS
  <2>3. package' = [ok |-> TRUE, of |-> compile, paths |-> paths, class |-> class]
    BY <1>3, <2>1, <2>2
  <2>4. package'.ok /\ package'.of = compile /\ package'.paths = paths /\ package'.class = class
    BY <2>3
  <2>5. /\ compile.items \in Seq(BootEvidence) /\ compile.saw \in BootSaws /\ compile.hits \in Nat
        /\ compile.current \in BOOLEAN
    BY <1>2 DEF BootJob
  <2>6. \A i \in DOMAIN compile.items : class[i] = BootClassIn(compile.saw, compile.items[i])
    BY <2>1, BootClassIs
  <2>7. BootBack(heads) \/ BootAtOnce(heads, compile)
    <3>1. heads \in Seq([Boot!Pointer -> BootStone])
      BY DEF BootIInv, BootHeadsOK
    <3>2. Boot!now["manifest"] = compile.saw["manifest"]
      BY <1>3 DEF Boot!Differs
    <3>3. BootReadOK(heads, compile)
      BY <1>2 DEF BootJobOK
    <3>4. QED
      BY <1>1, <1>2, <3>1, <3>2, <3>3, BootHeadsNow, BootSameMoment
  <2>8. Boot!OneGeneration'
    <3>1. Boot!Used' = BootRests(compile.owner)
      BY <2>4 DEF Boot!Used, BootRests
    <3>2. Boot!Returned' <=> BootBack(heads)
      BY <1>1 DEF Boot!Returned, BootBack
    <3>3. QED
      BY <1>1, <2>4, <2>7, <3>1, <3>2 DEF Boot!OneGeneration, BootAtOnce
  <2>9. \A i \in DOMAIN compile.items : compile.items[i].path \in Boot!Target
    <3>1. \A i \in DOMAIN compile.items : compile.items[i] \in BootEvidence
      BY <2>5
    <3>2. QED
      BY <3>1 DEF BootEvidence
  <2>10. ASSUME NEW i \in DOMAIN compile.items
         PROVE  /\ class[i] = "CHAIN_HEAD" =>
                     compile.items[i].path = "head" /\ compile.items[i].stone = compile.saw["head"]
                /\ class[i] = "PATH_HEAD" =>
                     compile.items[i].path \in paths /\
                       compile.items[i].stone = compile.saw[compile.items[i].path]
                /\ compile.current /\ class[i] = "HISTORICAL" =>
                     \A k \in DOMAIN compile.items :
                       compile.items[k].path = compile.items[i].path => class[k] = "HISTORICAL"
    <3>1. class[i] = BootClassIn(compile.saw, compile.items[i])
      BY <2>6
    <3>2. class[i] = "CHAIN_HEAD" =>
            compile.items[i].path = "head" /\ compile.items[i].stone = compile.saw["head"]
      BY <3>1 DEF BootClassIn
    <3>3. class[i] = "PATH_HEAD" =>
            compile.items[i].path # "head" /\
              compile.items[i].stone = compile.saw[compile.items[i].path]
      BY <3>1 DEF BootClassIn
    <3>4. class[i] = "PATH_HEAD" => Boot!Class(compile.items[i]) = "PATH_HEAD"
      BY <3>1, BootClassIs
    <3>5. class[i] = "PATH_HEAD" => compile.items[i].path \in paths
      BY <2>2, <2>9, <3>3, <3>4 DEF Boot!Represented
    <3>6. compile.current => BootTidy(compile.saw, compile.items)
      BY <1>1, <1>2 DEF BootJobOK, BootItemsOK, BootNoItems, BootNoResolved, BootNoManifest,
         BootNoGuide, BootNoOwnerPaths, BootNoOwner, BootNoPaths, BootNoHead
    <3>7. compile.current /\ class[i] = "HISTORICAL" =>
            \A k \in DOMAIN compile.items : compile.items[k].path = compile.items[i].path =>
              class[k] = "HISTORICAL"
      BY <2>6, <3>6 DEF BootTidy
    <3>8. QED
      BY <3>2, <3>3, <3>5, <3>7
  <2>11. ASSUME compile.current, compile.hits > 0
         PROVE  /\ compile.items # <<>> /\ class[1] = "CHAIN_HEAD"
                /\ \/ ~compile.relevant
                   \/ \E i \in DOMAIN compile.items : compile.items[i].path = "doc" /\
                        class[i] = "PATH_HEAD"
                   \/ \A i \in DOMAIN compile.items : class[i] = "CHAIN_HEAD"
    <3>1. BootLeads(compile.saw, compile.items, compile.relevant)
      BY <1>1, <1>2, <2>11 DEF BootJobOK, BootItemsOK, BootNoItems, BootNoResolved,
         BootNoManifest, BootNoGuide, BootNoOwnerPaths, BootNoOwner, BootNoPaths, BootNoHead
    <3>2. Len(compile.items) >= 1 /\ 1 \in DOMAIN compile.items
      BY <2>5, <3>1 DEF BootLeads
    <3>3. compile.items # <<>> /\ class[1] = "CHAIN_HEAD"
      BY <2>6, <3>1, <3>2 DEF BootLeads
    <3>4. \/ ~compile.relevant
          \/ \E i \in DOMAIN compile.items : compile.items[i].path = "doc" /\ class[i] = "PATH_HEAD"
          \/ \A i \in DOMAIN compile.items : class[i] = "CHAIN_HEAD"
      BY <2>6, <3>1 DEF BootLeads, BootDocAt, BootHeadsOnly
    <3>5. QED
      BY <3>3, <3>4
  <2>12. Boot!EvidenceClassed'
    BY <2>4, <2>10, <2>11 DEF Boot!EvidenceClassed, Boot!Items
  <2>13. Boot!BriefFits'
    BY <1>2, <2>4 DEF Boot!BriefFits, BootJobOK, BootBriefOK, BootFits
  <2>14. BootHeadsOK'
    BY <1>1 DEF BootIInv, BootHeadsOK
  <2>15. QED
    BY <1>3, <2>8, <2>12, <2>13, <2>14 DEF BootIInv, Boot!PackageKept
<1>4. QED
  BY <1>1, <1>3, BootFails DEF Boot!Recheck

(* The writers *)

LEMMA BootMoreHeads ==
  ASSUME NEW hs \in Seq([Boot!Pointer -> BootStone]), NEW n \in Nat, n = Len(hs),
         NEW x, NEW more, more = Append(hs, x), NEW r, BootReadOK(hs, r)
  PROVE  BootReadOK(more, r)
<1>1. Len(more) = n + 1 /\ \A i \in 1..n : more[i] = hs[i]
  OBVIOUS
<1>2. ASSUME NEW i \in 1..n, BootByThen(hs, r, i) PROVE BootByThen(more, r, i)
  <2>1. \A t \in 1..i : more[t] = hs[t]
    BY <1>1
  <2>2. QED
    BY <1>2, <2>1 DEF BootByThen
<1>3. ASSUME BootByThen(hs, r, n) PROVE BootByThen(more, r, n + 1)
  <2>1. \A t \in 1..n : more[t] = hs[t] /\ t \in 1..(n + 1)
    BY <1>1
  <2>2. QED
    BY <1>3, <2>1 DEF BootByThen
<1>4. ASSUME NEW i \in 1..n, BootSince(hs, r, i) PROVE BootSince(more, r, i)
  <2>1. \A u \in i..n : more[u] = hs[u] /\ u \in i..(n + 1)
    BY <1>1
  <2>2. QED
    BY <1>1, <1>4, <2>1 DEF BootSince
<1>5. \A i \in 1..n : i \in 1..(n + 1)
  OBVIOUS
<1>6. QED
  BY <1>1, <1>2, <1>3, <1>4, <1>5 DEF BootReadOK

LEMMA BootMoveOK == ASSUME BootIInv, Boot!Move PROVE BootIInv'
<1>1. compile # Boot!Quiet /\ UNCHANGED compile /\ UNCHANGED package
  BY DEF Boot!Move
<1>2. BootJobOK(heads, compile) /\ ~package.ok
  BY <1>1 DEF BootIInv
<1>3. PICK p \in Boot!Pointer, v \in Version : heads' = Append(heads, [Boot!now EXCEPT ![p] = v])
  BY DEF Boot!Move
<1>4. PICK x : x = [Boot!now EXCEPT ![p] = v]
  OBVIOUS
<1>5. x \in [Boot!Pointer -> BootStone]
  BY <1>4, BootHeadsNow DEF BootStone
<1>6. heads' = Append(heads, x)
  BY <1>3, <1>4
<1>7. heads \in Seq([Boot!Pointer -> BootStone]) /\ Len(heads) \in Nat /\ Len(heads) >= 1
  BY BootHeadsNow DEF BootIInv, BootHeadsOK
<1>8. BootHeadsOK'
  BY <1>5, <1>6, <1>7 DEF BootHeadsOK
<1>9. PICK more : more = Append(heads, x)
  OBVIOUS
<1>10. BootReadOK(more, compile)
  BY <1>2, <1>7, <1>9, BootMoreHeads DEF BootJobOK
<1>11. BootJobOK(more, compile)
  BY <1>2, <1>10 DEF BootJobOK
<1>12. BootJobOK(heads', compile')
  BY <1>1, <1>6, <1>9, <1>11
<1>13. ~package'.ok
  BY <1>1, <1>2
<1>14. Boot!PackageKept'
  BY <1>13 DEF Boot!PackageKept, Boot!OneGeneration, Boot!EvidenceClassed, Boot!BriefFits
<1>15. QED
  BY <1>8, <1>12, <1>13, <1>14 DEF BootIInv

LEMMA BootForgetOK == ASSUME BootIInv, Boot!Forget PROVE BootIInv'
<1>1. PICK first : first = [p \in Boot!Pointer |-> Boot!Lowest]
  OBVIOUS
<1>2. first \in [Boot!Pointer -> BootStone]
  BY <1>1 DEF BootStone
<1>3. heads' = <<first>>
  BY <1>1 DEF Boot!Forget
<1>4. BootHeadsOK'
  BY <1>2, <1>3 DEF BootHeadsOK
<1>5. package' = Boot!Untold /\ compile' = Boot!Quiet
  BY DEF Boot!Forget
<1>6. ~package'.ok
  BY <1>5 DEF Boot!Untold
<1>7. Boot!PackageKept'
  BY <1>6 DEF Boot!PackageKept, Boot!OneGeneration, Boot!EvidenceClassed, Boot!BriefFits
<1>8. QED
  BY <1>4, <1>5, <1>6, <1>7 DEF BootIInv

LEMMA BootStayOK == ASSUME BootIInv, UNCHANGED Boot!vars PROVE BootIInv'
<1>1. UNCHANGED heads /\ UNCHANGED compile /\ UNCHANGED package
  BY DEF Boot!vars
<1>2. BootHeadsOK'
  BY <1>1 DEF BootIInv, BootHeadsOK
<1>3. BootJobOK(heads, compile) => BootJobOK(heads', compile')
  BY <1>1
<1>4. Boot!OneGeneration'
  BY <1>1 DEF BootIInv, Boot!PackageKept, Boot!OneGeneration, Boot!Used, Boot!Returned
<1>5. Boot!EvidenceClassed'
  BY <1>1 DEF BootIInv, Boot!PackageKept, Boot!EvidenceClassed, Boot!Items
<1>6. Boot!BriefFits'
  BY <1>1 DEF BootIInv, Boot!PackageKept, Boot!BriefFits
<1>7. QED
  BY <1>1, <1>2, <1>3, <1>4, <1>5, <1>6 DEF BootIInv, Boot!PackageKept

LEMMA BootNextOK == ASSUME RowsAreOfTheChain, BootIInv, [Boot!Next]_(Boot!vars) PROVE BootIInv'
<1>1. CASE Boot!Chain \/ Boot!Paths \/ Boot!OwnerChain \/ Boot!OwnerPaths \/ Boot!ListManifest \/
             Boot!SkillHeads
  BY <1>1, BootFirstReadingsOK
<1>2. CASE Boot!PathsAgain \/ Boot!OwnerPathsAgain
  BY <1>2, BootComparesOK
<1>3. QED
  BY <1>1, <1>2, BootBeginOK, BootInstructOK, BootResolveOK, BootBundleOK, BootRecallOK,
     BootSizeOK, BootChainAgainOK,
     BootOwnerChainAgainOK, BootRecheckOK, BootMoveOK, BootForgetOK, BootStayOK DEF Boot!Next,
     Boot!Step

\* Whatever the order of the readings and of the writers, what a package rests
\* on was accepted at one moment of its compile unless a head came back, its
\* evidence is classed by the heads it names, and its brief fits its guide.
THEOREM PackageIsKept == RowsAreOfTheChain /\ Boot!Spec => []PackageKept
<1> SUFFICES ASSUME RowsAreOfTheChain PROVE Boot!Spec => []PackageKept
  OBVIOUS
<1>1. Boot!Init => BootIInv
  BY BootInitOK
<1>2. BootIInv /\ [Boot!Next]_(Boot!vars) => BootIInv'
  BY BootNextOK
<1>3. BootIInv => Boot!PackageKept
  BY DEF BootIInv
<1>4. QED
  BY <1>1, <1>2, <1>3, PTL DEF PackageKept, Boot!Spec
=============================================================================
