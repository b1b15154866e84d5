--------------------------- MODULE AccountServices ---------------------------
(***************************************************************************)
(* The services behind an account, side by side: the tokens of the core     *)
(* authorization server, sign-ins, and the private home.  They share the    *)
(* Worker and those who call it, and no table.                              *)
(***************************************************************************)
EXTENDS Naturals

CONSTANTS
  Caller,                        \* concurrent requests
  Code, MaxPairs,
  Conn, Inbox, Letter, Body,
  Login, Invite, Target, Passkey, Enrolled

VARIABLES code, signer, given, pairs, over, tokenReq,
          conns, boxes, rights, letters, opened, noted, answered, homeReq,
          logins, codeInvites, challenges, passkeys, minted, loginReq

Core == INSTANCE CoreAuth WITH
  Client <- Caller, auth <- signer, grants <- given, req <- tokenReq

Home == INSTANCE PrivateHome WITH
  Client <- Caller, Message <- Letter, inboxes <- boxes, messages <- letters, seen <- opened,
  acked <- noted, sent <- answered, req <- homeReq

SignIn == INSTANCE AuthorizeSession WITH
  Client <- Caller, Session <- Login, sessions <- logins, invites <- codeInvites, codes <- minted,
  req <- loginReq

coreVars   == <<code, signer, given, pairs, over, tokenReq>>
homeVars   == <<conns, boxes, rights, letters, opened, noted, answered, homeReq>>
signInVars == <<logins, codeInvites, challenges, passkeys, minted, loginReq>>

-----------------------------------------------------------------------------
(* What the constants are, where a theorem needs to know *)

\* An invite is for an account, and the ids of sessions and of passkeys are
\* none of the values that say there is none.
AccountsAreNamed ==
  /\ \A i \in Invite : Target[i] # "none"
  /\ Enrolled = [p \in Passkey |-> Enrolled[p]]
  /\ "invite" \notin Passkey
  /\ \A s \in Login : s \notin {"none", "unused", "expired"}

-----------------------------------------------------------------------------
(* Properties, each of the service it names *)

\* One grant per code, and nothing let through after an answered revocation.
AuthorityKept == Core!AuthorityKept

\* An admin is left, the revoked hold nothing, an answered send is stored.
HomeKept == Home!HomeKept

\* Every change of the tables by the D1 store is one of the in-memory store.
ImplementsHomeStore == Home!ImplementsHomeStore

\* One code per approved session, passkeys of the account, invites used once.
SignInsKept == SignIn!SignInsKept

\* Who signed in stays the one who did.
SignedInStays == SignIn!SignedInStays
=============================================================================
