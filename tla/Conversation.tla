---------------------------- MODULE Conversation ----------------------------
(***************************************************************************)
(* One conversation session and the two ways a turn reaches it: the append  *)
(* that names a base revision, and the TurnSync bridge that consults the    *)
(* account's standing policy, finds the revision itself and retries.  An    *)
(* append inserts its turn row first and then compares and swaps the        *)
(* session row, whose message_log repeats the turn.                         *)
(***************************************************************************)
EXTENDS Naturals, Sequences, FiniteSets

CONSTANTS
  Client,     \* concurrent requests
  Actor,
  Creator,    \* created_by, always a member
  Entry,      \* stable turn identities, [turn, message]
  Status,     \* the statuses create and update ask for
  Scope,      \* policy scopes a session may be bound to, most specific first
  Setting,    \* the [mode, payload] pairs a standing policy is set to
  MaxLog,     \* MAX_MESSAGE_LOG
  MaxRev,     \* bound: the revision at which no more requests begin
  MaxPolicy   \* bound: revisions of a policy

VARIABLES
  session,  \* the conversation_sessions row
  turns,    \* conversation_turns
  policy,   \* auth_turnsync_policies, by scope key
  req       \* the request each client is working on

vars == <<session, turns, policy, req>>

-----------------------------------------------------------------------------
(* Rows *)

ScopeKey == {"account"} \cup UNION {{s[i] : i \in DOMAIN s} : s \in Scope}

Turn == [entry: Entry, actor: Actor, seq: Nat]

Session == [status: Status \cup {"active", "none"}, log: Seq(Turn), members: SUBSET Actor,
            scope: Scope \cup {<<>>}, rev: Nat]
NoSession == [status |-> "none", log |-> <<>>, members |-> {}, scope |-> <<>>, rev |-> 0]

Ask   == [mode |-> "ask", payload |-> "full_turns"]
Unset == [set |-> Ask, rev |-> 0]
Policies == [ScopeKey -> [set: Setting \cup {Ask}, rev: Nat]]

Appendable(s) == s.status \notin {"closed", "superseded"}
IsMember(s, a) == a = Creator \/ a \in s.members
Projected(s, e) == \E i \in DOMAIN s.log : s.log[i].entry = e

(* Requests.  `read` is the row the request read last, `base` the revision  *)
(* it claims to build on, `todo` the policy scopes still to be read.        *)

Stage == {"idle", "update", "policy", "lookup", "rows", "load", "gate",
          "reload", "read", "insert", "commit"}

Idle(answer, e) ==
  [stage |-> "idle", answer |-> answer, entry |-> e]

NoEntry == CHOOSE e \in Entry : TRUE

Init == /\ session = NoSession
        /\ turns = {}
        /\ policy = [k \in ScopeKey |-> Unset]
        /\ req = [c \in Client |-> Idle("none", NoEntry)]

Become(c, r) == req' = [req EXCEPT ![c] = r]
Goto(c, stage) == Become(c, [req[c] EXCEPT !.stage = stage])
Reply(c) == Become(c, Idle("none", NoEntry))
Acknowledge(c) == Become(c, Idle("ok", req[c].entry))
Free(c) == req[c].stage = "idle"
At(c, stage) == req[c].stage = stage

-----------------------------------------------------------------------------
(* createConversationSession, updateConversationSession *)

Create(c) ==
  /\ Free(c)
  /\ session.rev = 0
  /\ \E st \in Status, ms \in SUBSET (Actor \ {Creator}), sc \in Scope \cup {<<>>} :
       session' = [status |-> st, log |-> <<>>, members |-> ms,
                   scope |-> sc, rev |-> 1]
  /\ Reply(c)
  /\ UNCHANGED <<turns, policy>>

\* The row is read and the base compared with it: only a base that matches
\* goes on.  One field is changed, the others keep the values just read.
BeginUpdate(c) ==
  /\ Free(c)
  /\ session.rev \in 1..(MaxRev - 1)
  /\ \E a \in Actor, next \in
          {[session EXCEPT !.status = st] : st \in Status}
          \cup {[session EXCEPT !.members = ms] : ms \in SUBSET (Actor \ {Creator})}
          \cup {[session EXCEPT !.scope = sc] : sc \in Scope \cup {<<>>}} :
       /\ IsMember(session, a)
       /\ next # session
       /\ Become(c, [stage |-> "update", read |-> session, next |-> next])
  /\ UNCHANGED <<session, turns, policy>>

CommitUpdate(c) ==
  LET r == req[c] IN
  /\ At(c, "update")
  /\ IF session.rev = r.read.rev
     THEN session' = [r.next EXCEPT !.log = session.log, !.rev = r.read.rev + 1]
     ELSE UNCHANGED session
  /\ Reply(c)
  /\ UNCHANGED <<turns, policy>>

-----------------------------------------------------------------------------
(* appendConversationTurn, on its own or called by TurnSync *)

BeginAppend(c) ==
  /\ Free(c)
  /\ session.rev \in 1..(MaxRev - 1)
  /\ \E e \in Entry, a \in Actor, base \in 1..session.rev :
       Become(c, [stage |-> "read", sync |-> FALSE, entry |-> e, actor |-> a,
                  base |-> base, read |-> NoSession])
  /\ UNCHANGED <<session, turns, policy>>

\* TurnSync looks for its turn again after "exists" and "conflict" only.
Fail(c, error) ==
  IF req[c].sync /\ error \in {"exists", "conflict"}
  THEN Become(c, [req[c] EXCEPT !.stage = "lookup", !.after = error])
  ELSE Reply(c)

ReadForAppend(c) ==
  /\ At(c, "read")
  /\ CASE ~IsMember(session, req[c].actor) \/ ~Appendable(session) -> Fail(c, "refused")
       [] OTHER ->
          IF session.rev # req[c].base THEN Fail(c, "conflict")
          ELSE IF Len(session.log) + 1 > MaxLog THEN Fail(c, "refused")
          ELSE Become(c, [req[c] EXCEPT !.stage = "insert", !.read = session])
  /\ UNCHANGED <<session, turns, policy>>

SameIdentity(t, e) == t.entry.turn = e.turn \/ t.entry.message = e.message

TurnOf(r) == [entry |-> r.entry, actor |-> r.actor, seq |-> Len(r.read.log) + 1]

InsertTurn(c) ==
  /\ At(c, "insert")
  /\ IF \E t \in turns : SameIdentity(t, req[c].entry)
     THEN Fail(c, "exists") /\ UNCHANGED turns
     ELSE turns' = turns \cup {TurnOf(req[c])} /\ Goto(c, "commit")
  /\ UNCHANGED <<session, policy>>

\* Mutant: the UPDATE names the conversation only.
CommitTurnUnguarded(c) ==
  LET r == req[c] IN
  /\ At(c, "commit")
  /\ session' = [session EXCEPT
         !.log = Append(r.read.log, TurnOf(r)),
         !.status = IF @ = "paused" THEN "active" ELSE @,
         !.rev = r.read.rev + 1]
  /\ Acknowledge(c)
  /\ UNCHANGED <<turns, policy>>

\* The log written is the one read, with this turn at its end.
CommitTurn(c) ==
  LET r == req[c] IN
  /\ At(c, "commit")
  /\ IF session.rev = r.read.rev
     THEN /\ session' = [session EXCEPT
                !.log = Append(r.read.log, TurnOf(r)),
                !.status = IF @ = "paused" THEN "active" ELSE @,
                !.rev = r.read.rev + 1]
          /\ Acknowledge(c)
     ELSE Fail(c, "conflict") /\ UNCHANGED session
  /\ UNCHANGED <<turns, policy>>

-----------------------------------------------------------------------------
(* turnSyncAppendFromBody: two attempts at most *)

\* `asOf` is not in the code: the policies when the request arrived.
BeginSync(c) ==
  /\ Free(c)
  /\ session.rev < MaxRev
  /\ \E e \in Entry, a \in Actor, confirmed \in BOOLEAN :
       Become(c, [stage |-> "lookup", sync |-> TRUE, entry |-> e, actor |-> a,
                  confirmed |-> confirmed, base |-> 0, read |-> NoSession,
                  scope |-> <<>>, todo |-> <<>>, attempt |-> 0,
                  after |-> "none", asOf |-> policy])
  /\ UNCHANGED <<session, turns, policy>>

\* replayOrConflict reads the session first and the turn rows afterwards.
Lookup(c) ==
  /\ At(c, "lookup")
  /\ Become(c, [req[c] EXCEPT !.stage = "rows", !.read = session])
  /\ UNCHANGED <<session, turns, policy>>

\* Mutant: a turn that another request is about to write is waited for.
MissingAwaited(c) ==
  LET r == req[c] IN
  CASE r.after = "none" -> Goto(c, "load")
    [] r.after = "conflict" /\ r.attempt = 0 -> Goto(c, "reload")
    [] OTHER -> Goto(c, "lookup")

Missing(c) ==
  LET r == req[c] IN
  CASE r.after = "none" -> Goto(c, "load")
    [] r.after = "conflict" /\ r.attempt = 0 -> Goto(c, "reload")
    [] OTHER -> Reply(c)

\* Mutant: a turn row is enough for a replay.
RowsUnprojected(c) ==
  LET r    == req[c]
      rows == {t \in turns : SameIdentity(t, r.entry)}
      Exact(t) == t.entry = r.entry /\ t.actor = r.actor IN
  /\ At(c, "rows")
  /\ CASE rows = {} -> Missing(c)
       [] \E t \in rows : rows = {t} /\ Exact(t) -> Acknowledge(c)
       [] OTHER -> Reply(c)
  /\ UNCHANGED <<session, turns, policy>>

\* A replay is acknowledged only if the log read before shows the turn.
Rows(c) ==
  LET r    == req[c]
      rows == {t \in turns : SameIdentity(t, r.entry)}
      Exact(t) == t.entry = r.entry /\ t.actor = r.actor IN
  /\ At(c, "rows")
  /\ CASE rows = {} -> Missing(c)
       [] /\ \E t \in rows : rows = {t} /\ Exact(t)
          /\ Projected(r.read, r.entry) -> Acknowledge(c)
       [] OTHER -> Reply(c)
  /\ UNCHANGED <<session, turns, policy>>

Candidates(scope) == scope \o <<"account">>

Load(c) ==
  /\ At(c, "load")
  /\ IF session.rev = 0
     THEN Reply(c)
     ELSE Become(c, [req[c] EXCEPT !.stage = "gate", !.base = session.rev,
                       !.scope = session.scope, !.todo = Candidates(session.scope)])
  /\ UNCHANGED <<session, turns, policy>>

Allows(set, confirmed) ==
  /\ set.payload = "full_turns"
  /\ set.mode = "on" \/ (set.mode = "ask" /\ confirmed)

\* The first stored row decides; a scope without one leaves it to the next,
\* and the last to the default, which asks.
Gate(c) ==
  LET r   == req[c]
      row == policy[Head(r.todo)] IN
  /\ At(c, "gate")
  /\ IF row.rev = 0 /\ Len(r.todo) > 1
     THEN Become(c, [r EXCEPT !.todo = Tail(r.todo)])
     ELSE IF Allows(row.set, r.confirmed) THEN Goto(c, "read") ELSE Reply(c)
  /\ UNCHANGED <<session, turns, policy>>

\* The second attempt: a fresh revision under the first evaluation.
Reload(c) ==
  /\ At(c, "reload")
  /\ Become(c, [req[c] EXCEPT !.stage = "read", !.base = session.rev, !.attempt = @ + 1])
  /\ UNCHANGED <<session, turns, policy>>

-----------------------------------------------------------------------------
(* turnSyncPolicySetFromBody *)

\* A base that is not the row's revision (null: no row) ends the request.
BeginPolicy(c) ==
  /\ Free(c)
  /\ \E k \in ScopeKey, set \in Setting :
       /\ policy[k].rev < MaxPolicy
       /\ Become(c, [stage |-> "policy", key |-> k, set |-> set, seen |-> policy[k]])
  /\ UNCHANGED <<session, turns, policy>>

\* INSERT under UNIQUE(scope) where there was no row, else UPDATE under the
\* revision read: either way nothing is written over a row not seen.
CommitPolicy(c) ==
  LET r == req[c] IN
  /\ At(c, "policy")
  /\ policy' = IF policy[r.key].rev = r.seen.rev
               THEN [policy EXCEPT ![r.key] = [set |-> r.set, rev |-> @.rev + 1]]
               ELSE policy
  /\ Reply(c)
  /\ UNCHANGED <<session, turns>>

\* The Worker goes away between two statements.
Die(c) ==
  /\ At(c, "commit")
  /\ Reply(c)
  /\ UNCHANGED <<session, turns, policy>>

Step(c) == \/ CommitUpdate(c) \/ ReadForAppend(c) \/ InsertTurn(c) \/ CommitTurn(c)
           \/ Lookup(c) \/ Rows(c) \/ Load(c) \/ Gate(c) \/ Reload(c)
           \/ CommitPolicy(c)
Begin(c) == \/ Create(c) \/ BeginUpdate(c) \/ BeginAppend(c) \/ BeginSync(c)
            \/ BeginPolicy(c)

Work == \E c \in Client : Step(c) \/ Begin(c)
Next == Work \/ \E c \in Client : Die(c)
Spec == Init /\ [][Next]_vars

\* A request that is not cut short goes on: every statement it awaits returns.
Fairness == \A c \in Client : WF_vars(Step(c))

-----------------------------------------------------------------------------
(* Properties *)

Request ==
       [stage: {"idle"}, answer: {"none", "ok"}, entry: Entry]
  \cup [stage: {"update"}, read: Session, next: Session]
  \cup [stage: {"policy"}, key: ScopeKey, set: Setting,
        seen: [set: Setting \cup {Ask}, rev: Nat]]
  \cup [stage: {"read", "insert", "commit"}, sync: {FALSE}, entry: Entry, actor: Actor,
        base: Nat, read: Session]
  \cup [stage: Stage, sync: {TRUE}, entry: Entry, actor: Actor, confirmed: BOOLEAN,
        base: Nat, read: Session, scope: Scope \cup {<<>>}, todo: Seq(ScopeKey),
        attempt: 0..1, after: {"none", "exists", "conflict"}, asOf: Policies]

\* The shape of the rows and of the requests in flight.
TypeOK == /\ session \in Session
          /\ turns \subseteq Turn
          /\ policy \in Policies
          /\ \A c \in Client : req[c] \in Request

\* The message_log and the turn rows agree: each stub has its row, numbered
\* by its place, although losing appends leave rows of the same numbers.
LogBackedByTurns ==
  \A i \in DOMAIN session.log :
    session.log[i] \in turns /\ session.log[i].seq = i

\* No turn enters a closed or superseded conversation, nor one of an actor
\* who has left it, and the log only ever grows at its end, whatever changed
\* between the checks of an append and its UPDATE.
LogGrowsWhileOpen ==
  [][session.rev # 0 /\ session'.log # session.log =>
       LET last == session'.log[Len(session'.log)] IN
       /\ session'.log = Append(session.log, last)
       /\ Appendable(session)
       /\ IsMember(session, last.actor)]_vars

\* A reply that reports a turn as synced, first time or replayed, is about a
\* turn the log shows, for ever.
AcknowledgedIsLogged ==
  \A c \in Client : req[c].stage = "idle" /\ req[c].answer = "ok"
                    => Projected(session, req[c].entry)

Orphan(e) == /\ \E t \in turns : t.entry = e
             /\ ~Projected(session, e)
             /\ ~\E c \in Client : At(c, "commit") /\ req[c].entry = e

\* The turn row of an append that lost its compare-and-swap, or died before
\* it, is never shown by the log, however often the caller retries: every
\* further sync of that identity is refused.
OrphansStay == [][\A e \in Entry : Orphan(e) => Orphan(e)']_vars

Effective(p, scope) ==
  LET cs     == scope \o <<"account">>
      stored == {i \in DOMAIN cs : p[cs[i]].rev # 0}
  IN IF stored = {} THEN Ask
     ELSE p[cs[CHOOSE i \in stored : \A j \in stored : i <= j]].set

\* A sync that is past the gate was allowed by the policy of the most specific
\* scope that had one when it arrived, unless a policy of these scopes has
\* been written since.
GateHonoured ==
  \A c \in Client :
    LET r == req[c] IN
    r.stage \in {"read", "insert", "commit"} /\ r.sync =>
      \/ Allows(Effective(r.asOf, r.scope), r.confirmed)
      \/ policy["account"] # r.asOf["account"]
      \/ \E i \in DOMAIN r.scope : policy[r.scope[i]] # r.asOf[r.scope[i]]

\* A turn synced at the first attempt goes to a session still bound to the
\* scopes its policy was evaluated for.  (A second attempt does not look.)
GateOfThisScope ==
  \A c \in Client :
    LET r == req[c] IN
    r.stage = "commit" /\ r.sync /\ r.read.rev = session.rev =>
      r.attempt = 1 \/ r.scope = session.scope

\* Whoever changes a session or a policy has read exactly what is replaced:
\* two tabs do not overwrite each other's change.
NothingOverwrittenUnseen ==
  [][/\ session.rev # 0 /\ session'.rev # session.rev =>
          \E c \in Client : req[c].stage \in {"update", "commit"} /\ req[c].read = session
     /\ \A k \in ScopeKey : policy'[k] # policy[k] =>
          \E c \in Client : /\ At(c, "policy")
                            /\ req[c].key = k
                            /\ req[c].seen = policy[k]]_vars

\* Every sync is answered: whatever other requests do to the session
\* meanwhile, it is retried once and then given up.
SyncsEnd == \A c \in Client : At(c, "lookup") ~> Free(c)

\* What every state of the rows and the replies keeps to, whichever appends,
\* syncs and updates overlap, are retried or die.
ConversationKept ==
  /\ TypeOK
  /\ LogBackedByTurns
  /\ AcknowledgedIsLogged
  /\ GateHonoured
  /\ GateOfThisScope

\* What no statement may do to the rows it finds.
ConversationMoves ==
  /\ LogGrowsWhileOpen
  /\ OrphansStay
  /\ NothingOverwrittenUnseen
=============================================================================
