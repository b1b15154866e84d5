------------------------------ MODULE CoreAuth ------------------------------
(***************************************************************************)
(* The grants of the authorization server: a code is redeemed for a fresh   *)
(* connection with a family of tokens, refresh tokens are rotated, and      *)
(* tokens, connections and authenticators are revoked, statement by         *)
(* statement and by requests that may die between two of them.              *)
(***************************************************************************)
EXTENDS Naturals, Sequences

CONSTANTS
  Client,    \* concurrent requests
  Code,      \* authorization codes
  MaxPairs   \* bound: pairs of tokens issued

VARIABLES
  code,      \* auth_authorization_codes
  auth,      \* auth_authenticators: the one of the account
  grants,    \* auth_connection_principals, each with its auth_token_families row
  pairs,     \* auth_access_tokens and auth_refresh_tokens, as they are issued
  over,      \* history: grants whose revocation was answered
  req        \* the request each client is working on

vars == <<code, auth, grants, pairs, over, req>>

-----------------------------------------------------------------------------
Idle == [stage |-> "idle"]

Init == /\ code = [k \in Code |-> [status |-> "none", late |-> FALSE]]
        /\ auth = "active"
        /\ grants = <<>> /\ pairs = <<>>
        /\ over = {}
        /\ req = [c \in Client |-> Idle]

Become(c, r) == req' = [req EXCEPT ![c] = r]
Reply(c) == Become(c, Idle)
At(c, stage) == req[c].stage = stage
Goto(c, stage) == Become(c, [req[c] EXCEPT !.stage = stage])

-----------------------------------------------------------------------------
(* Codes *)

\* After authentication and approval.
CreateCode ==
  /\ \E k \in Code :
       /\ code[k].status = "none"
       /\ code' = [code EXCEPT ![k].status = "unused"]
  /\ UNCHANGED <<auth, grants, pairs, over, req>>

\* The lifetime of a code passes.
Lapse ==
  /\ \E k \in Code : code' = [code EXCEPT ![k].late = TRUE]
  /\ UNCHANGED <<auth, grants, pairs, over, req>>

\* The client, its redirect URI and the proof of the code match.
BeginRedeem(c) ==
  /\ At(c, "idle")
  /\ \E k \in Code :
       /\ code[k].status = "unused"
       /\ Become(c, [stage |-> IF code[k].late THEN "expire" ELSE "claim", code |-> k])
  /\ UNCHANGED <<code, auth, grants, pairs, over>>

Expire(c) ==
  /\ At(c, "expire")
  /\ code' = [code EXCEPT ![req[c].code].status = "expired"]
  /\ Reply(c)
  /\ UNCHANGED <<auth, grants, pairs, over>>

\* A guarded UPDATE: only the request that changed the row goes on.
Claim(c) ==
  /\ At(c, "claim")
  /\ IF code[req[c].code].status = "unused"
     THEN code' = [code EXCEPT ![req[c].code].status = "used"] /\ Goto(c, "check")
     ELSE Reply(c) /\ UNCHANGED code
  /\ UNCHANGED <<auth, grants, pairs, over>>

\* mintConnectionUnderAccount: the account and its membership, which are not
\* modelled, may refuse; the authenticator is active.
Check(c) ==
  /\ At(c, "check")
  /\ \/ Reply(c)
     \/ auth = "active" /\ Goto(c, "connect")
  /\ UNCHANGED <<code, auth, grants, pairs, over>>

Connect(c) ==
  /\ At(c, "connect")
  /\ grants' = Append(grants, [code |-> req[c].code, connection |-> "active", family |-> "none"])
  /\ Become(c, [stage |-> "family", grant |-> Len(grants) + 1])
  /\ UNCHANGED <<code, auth, pairs, over>>

StartFamily(c) ==
  /\ At(c, "family")
  /\ grants' = [grants EXCEPT ![req[c].grant].family = "active"]
  /\ Goto(c, "access")
  /\ UNCHANGED <<code, auth, pairs, over>>

-----------------------------------------------------------------------------
(* Tokens *)

IssueAccess(c) ==
  /\ At(c, "access")
  /\ Len(pairs) < MaxPairs
  /\ pairs' = Append(pairs, [grant |-> req[c].grant, access |-> "live", refresh |-> "none"])
  /\ Become(c, [stage |-> "refresh", pair |-> Len(pairs) + 1])
  /\ UNCHANGED <<code, auth, grants, over>>

IssueRefresh(c) ==
  /\ At(c, "refresh")
  /\ pairs' = [pairs EXCEPT ![req[c].pair].refresh = "active"]
  /\ Reply(c)
  /\ UNCHANGED <<code, auth, grants, over>>

\* `late` remembers that the grant's revocation had been answered by then.
BeginCall(c) ==
  /\ At(c, "idle")
  /\ \E p \in DOMAIN pairs :
       /\ pairs[p].access = "live"
       /\ Become(c, [stage |-> "look", op |-> "call", pair |-> p, grant |-> pairs[p].grant,
                     late |-> pairs[p].grant \in over])
  /\ UNCHANGED <<code, auth, grants, pairs, over>>

\* A refresh token that is no longer active revokes its family.
BeginRotate(c) ==
  /\ At(c, "idle")
  /\ \E p \in DOMAIN pairs :
       /\ pairs[p].refresh # "none"
       /\ LET g == pairs[p].grant IN
          Become(c, IF pairs[p].refresh = "active"
                    THEN [stage |-> "look", op |-> "rotate", pair |-> p, grant |-> g, late |-> g \in over]
                    ELSE [stage |-> "revoke", todo |-> {g}, promised |-> {g}])
  /\ UNCHANGED <<code, auth, grants, pairs, over>>

LookAtFamily(c) ==
  /\ At(c, "look")
  /\ IF grants[req[c].grant].family = "active" THEN Goto(c, "freshness") ELSE Reply(c)
  /\ UNCHANGED <<code, auth, grants, pairs, over>>

\* Mutant: only the family counts.
FreshnessOfFamily(c) ==
  /\ At(c, "freshness")
  /\ \/ Reply(c)
     \/ Goto(c, IF req[c].op = "call" THEN "serve" ELSE "rotate")
  /\ UNCHANGED <<code, auth, grants, pairs, over>>

\* enforceAuthzFreshness: the account, its membership and their versions may
\* refuse; the connection is active.
Freshness(c) ==
  /\ At(c, "freshness")
  /\ \/ Reply(c)
     \/ /\ grants[req[c].grant].connection = "active"
        /\ Goto(c, IF req[c].op = "call" THEN "serve" ELSE "rotate")
  /\ UNCHANGED <<code, auth, grants, pairs, over>>

Serve(c) == At(c, "serve") /\ Reply(c) /\ UNCHANGED <<code, auth, grants, pairs, over>>

\* A guarded UPDATE whose count nobody reads.
Rotate(c) ==
  /\ At(c, "rotate")
  /\ pairs' = [pairs EXCEPT ![req[c].pair].refresh = IF @ = "active" THEN "rotated" ELSE @]
  /\ Become(c, [stage |-> "access", grant |-> req[c].grant])
  /\ UNCHANGED <<code, auth, grants, over>>

-----------------------------------------------------------------------------
(* Revocation *)

BeginRevoke(c) ==
  /\ At(c, "idle")
  /\ \/ \E p \in DOMAIN pairs :
          LET g == pairs[p].grant IN
          \/ Become(c, [stage |-> "drop", pair |-> p])
          \/ /\ pairs[p].refresh # "none"
             /\ Become(c, [stage |-> "revoke", todo |-> {g}, promised |-> {g}])
     \/ \E g \in DOMAIN grants : Become(c, [stage |-> "disconnect", grant |-> g])
     \/ Become(c, [stage |-> "retire"])
  /\ UNCHANGED <<code, auth, grants, pairs, over>>

\* One access token.
Drop(c) ==
  /\ At(c, "drop")
  /\ pairs' = [pairs EXCEPT ![req[c].pair].access = "revoked"]
  /\ Reply(c)
  /\ UNCHANGED <<code, auth, grants, over>>

Disconnect(c) ==
  /\ At(c, "disconnect")
  /\ grants' = [grants EXCEPT ![req[c].grant].connection = "revoked"]
  /\ Goto(c, "list")
  /\ UNCHANGED <<code, auth, pairs, over>>

Retire(c) ==
  /\ At(c, "retire")
  /\ auth' = "revoked"
  /\ Goto(c, "list all")
  /\ UNCHANGED <<code, grants, pairs, over>>

\* The active families, of the connection or of the authenticator.
List(c) ==
  LET active == {g \in DOMAIN grants : grants[g].family = "active"} IN
  /\ \/ /\ At(c, "list")
        /\ Become(c, [stage |-> "revoke", todo |-> active \cap {req[c].grant}, promised |-> {req[c].grant}])
     \/ /\ At(c, "list all")
        /\ Become(c, [stage |-> "revoke", todo |-> active, promised |-> active])
  /\ UNCHANGED <<code, auth, grants, pairs, over>>

RevokeFamily(c) ==
  /\ At(c, "revoke")
  /\ \E g \in req[c].todo :
       /\ grants' = [grants EXCEPT ![g].family = "revoked"]
       /\ Become(c, [stage |-> "refreshes", todo |-> req[c].todo \ {g}, grant |-> g,
                     promised |-> req[c].promised])
  /\ UNCHANGED <<code, auth, pairs, over>>

RevokeRefreshes(c) ==
  /\ At(c, "refreshes")
  /\ pairs' = [p \in DOMAIN pairs |->
                 IF pairs[p].grant = req[c].grant /\ pairs[p].refresh = "active"
                 THEN [pairs[p] EXCEPT !.refresh = "revoked"] ELSE pairs[p]]
  /\ Goto(c, "accesses")
  /\ UNCHANGED <<code, auth, grants, over>>

RevokeAccesses(c) ==
  /\ At(c, "accesses")
  /\ pairs' = [p \in DOMAIN pairs |->
                 IF pairs[p].grant = req[c].grant
                 THEN [pairs[p] EXCEPT !.access = "revoked"] ELSE pairs[p]]
  /\ Become(c, [stage |-> "revoke", todo |-> req[c].todo, promised |-> req[c].promised])
  /\ UNCHANGED <<code, auth, grants, over>>

AnswerRevoked(c) ==
  /\ At(c, "revoke")
  /\ req[c].todo = {}
  /\ over' = over \cup req[c].promised
  /\ Reply(c)
  /\ UNCHANGED <<code, auth, grants, pairs>>

-----------------------------------------------------------------------------
Die(c) == ~At(c, "idle") /\ Reply(c) /\ UNCHANGED <<code, auth, grants, pairs, over>>

Next == CreateCode \/ Lapse \/ \E c \in Client :
  \/ BeginRedeem(c) \/ Expire(c) \/ Claim(c) \/ Check(c) \/ Connect(c) \/ StartFamily(c)
  \/ IssueAccess(c) \/ IssueRefresh(c)
  \/ BeginCall(c) \/ BeginRotate(c) \/ LookAtFamily(c) \/ Freshness(c) \/ Serve(c) \/ Rotate(c)
  \/ BeginRevoke(c) \/ Drop(c) \/ Disconnect(c) \/ Retire(c) \/ List(c)
  \/ RevokeFamily(c) \/ RevokeRefreshes(c) \/ RevokeAccesses(c) \/ AnswerRevoked(c) \/ Die(c)
Spec == Init /\ [][Next]_vars

-----------------------------------------------------------------------------
(* Properties *)

\* A code yields at most one connection, however many requests redeem it, and
\* whichever of them die (redeemAuthorizationCode marks it before minting).
OneGrantPerCode ==
  \A g, h \in DOMAIN grants : grants[g].code = grants[h].code => g = h

\* Once a revocation of a token family or a connection is answered, no request
\* that begins afterwards is let through, although a redemption or a rotation
\* already under way may still add a family or tokens.
RevokedRefused ==
  \A c \in Client : req[c].stage \in {"serve", "rotate"} => ~req[c].late

\* A code is good for one grant, and a grant until it is revoked.
AuthorityKept ==
  /\ OneGrantPerCode
  /\ RevokedRefused
=============================================================================
