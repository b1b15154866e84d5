-------------------------- MODULE ConversationProofs --------------------------
(*****************************************************************************)
(* For any number of concurrent appends, syncs, updates and policy changes:  *)
(* the log of a conversation, its turn rows and what callers are told agree, *)
(* and nothing is overwritten unseen.  For any number of sends, handoffs and *)
(* ticks of workers: what is acknowledged is delivered, and stays.  For any  *)
(* number of questions: an answer rests on accepted heads, and is not lost.  *)
(*****************************************************************************)
EXTENDS AgentServices, Sequences, SequenceTheorems, FiniteSetTheorems, TLAPS

-----------------------------------------------------------------------------
Appending == {"read", "insert", "commit"}
SyncStage == {"lookup", "rows", "load", "gate", "reload"} \cup Appending

IdleType   == [stage: {"idle"}, answer: {"none", "ok"}, entry: Entry]
UpdateType == [stage: {"update"}, read: Conv!Session, next: Conv!Session]
PolicyType == [stage: {"policy"}, key: Conv!ScopeKey, set: Setting,
               seen: [set: Setting \cup {Conv!Ask}, rev: Nat]]
AppendType == [stage: Appending, sync: {FALSE}, entry: Entry, actor: Actor, base: Nat,
               read: Conv!Session]
SyncType   == [stage: SyncStage, sync: {TRUE}, entry: Entry, actor: Actor,
               confirmed: BOOLEAN, base: Nat, read: Conv!Session, scope: Scope \cup {<<>>},
               todo: Seq(Conv!ScopeKey), attempt: 0..1, after: {"none", "exists", "conflict"},
               asOf: Conv!Policies]
RequestType == IdleType \cup UpdateType \cup PolicyType \cup AppendType \cup SyncType

RowsOK == /\ session \in Conv!Session
          /\ turns \subseteq Conv!Turn
          /\ policy \in Conv!Policies
          /\ session.rev = 0 => session = Conv!NoSession
          /\ Conv!LogBackedByTurns
          /\ \A k \in Conv!ScopeKey : policy[k].rev = 0 => policy[k].set = Conv!Ask

\* What was read of a row is what it still holds, while it has that revision.
Current(s) == s.rev <= session.rev /\ (s.rev = session.rev => s = session)
SeenAs(k, p) == p.rev <= policy[k].rev /\ (p.rev = policy[k].rev => p = policy[k])

\* The policy a sync is judged by; or it has been changed since.
Honoured(r) ==
  \/ Conv!Allows(Conv!Effective(r.asOf, r.scope), r.confirmed)
  \/ policy["account"] # r.asOf["account"]
  \/ \E i \in DOMAIN r.scope : policy[r.scope[i]] # r.asOf[r.scope[i]]

\* Half way through the gate: the scopes passed over had no policy when the
\* sync arrived, or have been given one since.
HalfWay(r) ==
  LET cs == Conv!Candidates(r.scope)
      n  == Len(cs) - Len(r.todo) IN
  /\ Len(r.todo) \in 1..Len(cs)
  /\ \A j \in 1..Len(r.todo) : r.todo[j] = cs[n + j]
  /\ \A i \in 1..n : r.asOf[cs[i]].rev = 0 \/ policy[cs[i]] # r.asOf[cs[i]]

PastGate(r) == \/ r.stage \in Appending \cup {"reload"}
               \/ r.stage \in {"lookup", "rows"} /\ r.after # "none"

SyncOK(r) ==
  /\ \A k \in Conv!ScopeKey : SeenAs(k, r.asOf[k])
  /\ PastGate(r) => Honoured(r)
  /\ r.stage = "gate" => HalfWay(r)
  /\ r.stage = "reload" => r.attempt = 0
  /\ r.stage \in {"gate", "read"} /\ r.attempt = 0 =>
       r.base <= session.rev /\ (r.base = session.rev => r.scope = session.scope)
  /\ r.stage \in {"insert", "commit"} /\ r.attempt = 0 => r.scope = r.read.scope

RequestOK(r) ==
  /\ r.stage = "idle" /\ r.answer = "ok" => Conv!Projected(session, r.entry)
  /\ r.stage = "update" => r.read.rev # 0 /\ Current(r.read)
  /\ r.stage = "policy" => SeenAs(r.key, r.seen)
  /\ r.stage = "rows" => \A e \in Entry : Conv!Projected(r.read, e) => Conv!Projected(session, e)
  /\ r.stage \in {"insert", "commit"} =>
       Current(r.read) /\ Conv!Appendable(r.read) /\ Conv!IsMember(r.read, r.actor)
  /\ r.stage = "commit" => Conv!TurnOf(r) \in turns
  /\ r.stage \in SyncStage /\ r.sync => SyncOK(r)

IInv == /\ RowsOK
        /\ req \in [Client -> RequestType]
        /\ \A c \in Client : RequestOK(req[c])

-----------------------------------------------------------------------------
(* What a step does to the rows, and to the request that makes it *)

Moves ==
  /\ \/ session' = session
     \/ session'.rev > session.rev /\ \A e \in Entry : Conv!Projected(session, e) => Conv!Projected(session, e)'
  /\ turns \subseteq turns'
  /\ \A k \in Conv!ScopeKey : policy'[k] = policy[k] \/ policy'[k].rev > policy[k].rev

LogGrows ==
  session.rev # 0 /\ session'.log # session.log =>
    LET last == session'.log[Len(session'.log)] IN
    /\ session'.log = Append(session.log, last)
    /\ Conv!Appendable(session)
    /\ Conv!IsMember(session, last.actor)

\* Whoever writes a row has read it, and whoever shows a turn was about to.
WrittenBy(r) ==
  /\ session.rev # 0 /\ session'.rev # session.rev =>
       r.stage \in {"update", "commit"} /\ r.read = session
  /\ \A k \in Conv!ScopeKey : policy'[k] # policy[k] =>
       r.stage = "policy" /\ r.key = k /\ r.seen = policy[k]
  /\ \A e \in Entry : Conv!Projected(session, e)' /\ ~Conv!Projected(session, e) =>
       r.stage = "commit" /\ r.entry = e

Goes(c) == \E q \in RequestType :
  /\ req' = [req EXCEPT ![c] = q]
  /\ RequestOK(q)'
  /\ q.stage = "commit" => \A t \in turns : t.entry # q.entry

Good(c) == RowsOK' /\ Moves /\ LogGrows /\ WrittenBy(req[c]) /\ Goes(c)

-----------------------------------------------------------------------------
\* What a request looks like.
LEMMA Shapes ==
  ASSUME NEW r \in RequestType
  PROVE  /\ r.stage = "idle" => r \in IdleType
         /\ r.stage = "update" => r \in UpdateType
         /\ r.stage = "policy" => r \in PolicyType
         /\ r.stage \in Appending => r \in AppendType \/ r \in SyncType
         /\ r.stage \in SyncStage => r \in AppendType \/ r \in SyncType
         /\ r.stage \in SyncStage \ Appending => r \in SyncType
         /\ r.stage \in SyncStage => (r.sync => r \in SyncType) /\ (~r.sync => r \in AppendType)
BY DEF RequestType, IdleType, UpdateType, PolicyType, AppendType, SyncType, SyncStage, Appending

LEMMA Keys ==
  ASSUME ScopesAreLists, NEW s \in Scope \cup {<<>>}
  PROVE  /\ s \in Seq(Conv!ScopeKey)
         /\ Conv!Candidates(s) \in Seq(Conv!ScopeKey)
         /\ Len(Conv!Candidates(s)) = Len(s) + 1
         /\ \A i \in 1..Len(s) : Conv!Candidates(s)[i] = s[i]
         /\ Conv!Candidates(s)[Len(s) + 1] = "account"
         /\ "account" \in Conv!ScopeKey
<1>1. "account" \in Conv!ScopeKey
  BY DEF Conv!ScopeKey
<1>2. s \in Seq(Conv!ScopeKey)
  BY EmptySeq DEF ScopesAreLists
<1>3. <<"account">> \in Seq(Conv!ScopeKey)
  BY <1>1
<1>4. QED
  BY <1>1, <1>2, <1>3, ConcatProperties DEF Conv!Candidates

\* What was seen of a row that has changed since differs from it for ever.
LEMMA SeenStable ==
  ASSUME RowsOK, RowsOK', Moves, NEW k \in Conv!ScopeKey,
         NEW p \in [set: Setting \cup {Conv!Ask}, rev: Nat], SeenAs(k, p)
  PROVE  SeenAs(k, p)' /\ (policy[k] # p => policy'[k] # p)
<1>1. policy[k].rev \in Nat /\ policy'[k].rev \in Nat
  BY DEF RowsOK, Conv!Policies
<1>2. QED
  BY <1>1 DEF SeenAs, Moves

LEMMA CurrentStable ==
  ASSUME RowsOK, RowsOK', Moves, NEW s \in Conv!Session, Current(s)
  PROVE  Current(s)'
BY DEF Current, Moves, RowsOK, Conv!Session

LEMMA SyncStable ==
  ASSUME ScopesAreLists, RowsOK, RowsOK', Moves, NEW r \in SyncType, SyncOK(r)
  PROVE  SyncOK(r)'
<1>1. /\ r.scope \in Scope \cup {<<>>} /\ r.asOf \in Conv!Policies
      /\ r.base \in Nat /\ r.todo \in Seq(Conv!ScopeKey)
  BY DEF SyncType
<1>2. \A k \in Conv!ScopeKey : /\ SeenAs(k, r.asOf[k])'
                               /\ policy[k] # r.asOf[k] => policy'[k] # r.asOf[k]
  BY <1>1, SeenStable DEF SyncOK, Conv!Policies
<1>3. Honoured(r) => Honoured(r)'
  <2>1. \A i \in DOMAIN r.scope : r.scope[i] \in Conv!ScopeKey
    BY <1>1, Keys
  <2>2. "account" \in Conv!ScopeKey
    BY <1>1, Keys
  <2>3. QED
    BY <1>2, <2>1, <2>2 DEF Honoured
<1>4. HalfWay(r) => HalfWay(r)'
  <2> DEFINE cs == Conv!Candidates(r.scope)
  <2>1. \A i \in 1..Len(cs) : cs[i] \in Conv!ScopeKey
    BY <1>1, Keys
  <2>2. Len(cs) \in Nat /\ Len(r.todo) \in Nat
    BY <1>1, Keys
  <2> HIDE DEF cs
  <2>3. \A i \in 1..(Len(cs) - Len(r.todo)) : cs[i] \in Conv!ScopeKey
    BY <2>1, <2>2
  <2>4. QED
    BY <1>2, <2>3 DEF HalfWay, cs
<1>5. r.base <= session.rev /\ (r.base = session.rev => r.scope = session.scope)
      => r.base <= session'.rev /\ (r.base = session'.rev => r.scope = session'.scope)
  BY <1>1 DEF Moves, RowsOK, Conv!Session
<1>6. QED
  BY <1>2, <1>3, <1>4, <1>5 DEF SyncOK, PastGate

LEMMA RequestStable ==
  ASSUME ScopesAreLists, RowsOK, RowsOK', Moves, NEW r \in RequestType, RequestOK(r)
  PROVE  RequestOK(r)'
<1>1. \A e \in Entry : Conv!Projected(session, e) => Conv!Projected(session, e)'
  BY DEF Moves
<1>2. r.stage = "idle" /\ r.answer = "ok" => Conv!Projected(session, r.entry)'
  BY <1>1, Shapes DEF RequestOK, IdleType
<1>3. r.stage = "update" => r.read.rev # 0 /\ Current(r.read)'
  BY CurrentStable, Shapes DEF RequestOK, UpdateType
<1>4. r.stage = "policy" => SeenAs(r.key, r.seen)'
  BY SeenStable, Shapes DEF RequestOK, PolicyType
<1>5. r.stage = "rows" => \A e \in Entry : Conv!Projected(r.read, e) => Conv!Projected(session, e)'
  BY <1>1 DEF RequestOK
<1>6. r.stage \in {"insert", "commit"} =>
        Current(r.read)' /\ Conv!Appendable(r.read) /\ Conv!IsMember(r.read, r.actor)
  <2>1. r.stage \in {"insert", "commit"} => r.read \in Conv!Session
    BY Shapes DEF AppendType, SyncType, Appending
  <2>2. QED
    BY <2>1, CurrentStable DEF RequestOK
<1>7. r.stage = "commit" => Conv!TurnOf(r) \in turns'
  BY DEF RequestOK, Moves
<1>8. r.stage \in SyncStage /\ r.sync => SyncOK(r)'
  BY SyncStable, Shapes DEF RequestOK
<1>9. QED
  BY <1>2, <1>3, <1>4, <1>5, <1>6, <1>7, <1>8 DEF RequestOK

-----------------------------------------------------------------------------
(* The ways a request goes on *)

LEMMA QuietIsGood ==
  ASSUME IInv, NEW c \in Client, Goes(c), UNCHANGED <<session, turns, policy>>
  PROVE  Good(c)
<1>1. RowsOK'
  BY DEF IInv, RowsOK, Conv!LogBackedByTurns
<1>2. Moves /\ LogGrows /\ WrittenBy(req[c])
  BY DEF Moves, LogGrows, WrittenBy, Conv!Projected
<1>3. QED
  BY <1>1, <1>2 DEF Good

LEMMA Replies ==
  ASSUME ScopesAreLists, NEW c \in Client, Conv!Reply(c)
  PROVE  Goes(c)
<1>1. Conv!NoEntry \in Entry
  BY DEF Conv!NoEntry, ScopesAreLists
<1> DEFINE q == Conv!Idle("none", Conv!NoEntry)
<1>2. q \in RequestType
  BY <1>1 DEF Conv!Idle, RequestType, IdleType
<1>3. RequestOK(q)' /\ q.stage # "commit"
  BY DEF Conv!Idle, RequestOK, SyncStage, Appending
<1>4. req' = [req EXCEPT ![c] = q]
  BY DEF Conv!Reply, Conv!Become
<1> HIDE DEF q
<1>5. QED
  BY <1>2, <1>3, <1>4 DEF Goes

LEMMA Acknowledges ==
  ASSUME NEW c \in Client, NEW e \in Entry, e = req[c].entry, Conv!Acknowledge(c),
         Conv!Projected(session, e)'
  PROVE  Goes(c)
<1> DEFINE q == Conv!Idle("ok", e)
<1>1. q \in RequestType
  BY DEF Conv!Idle, RequestType, IdleType
<1>2. RequestOK(q)' /\ q.stage # "commit"
  BY DEF Conv!Idle, RequestOK, SyncStage, Appending, Conv!Projected
<1>3. req' = [req EXCEPT ![c] = q]
  BY DEF Conv!Acknowledge, Conv!Become
<1> HIDE DEF q
<1>4. QED
  BY <1>1, <1>2, <1>3 DEF Goes

LEMMA GoesTo ==
  ASSUME NEW c \in Client, NEW q \in RequestType, Conv!Become(c, q), RequestOK(q)',
         q.stage = "commit" => \A t \in turns : t.entry # q.entry
  PROVE  Goes(c)
BY DEF Goes, Conv!Become

\* An append that goes to another of its stages keeps the rest of its request.
Advance(r, s, read) == [r EXCEPT !.stage = s, !.read = read]

LEMMA Onward ==
  ASSUME NEW r \in AppendType \cup SyncType, NEW s \in Appending, NEW read \in Conv!Session,
         NEW q, q = Advance(r, s, read)
  PROVE  /\ q \in RequestType
         /\ q.stage = s /\ q.read = read /\ q.entry = r.entry /\ q.actor = r.actor
         /\ q.sync = r.sync /\ q.base = r.base
         /\ q.sync => /\ q.scope = r.scope /\ q.asOf = r.asOf /\ q.confirmed = r.confirmed
                      /\ q.attempt = r.attempt
<1>1. CASE r \in AppendType
  BY <1>1 DEF AppendType, RequestType, Advance
<1>2. CASE r \in SyncType
  BY <1>2 DEF SyncType, RequestType, SyncStage, Advance
<1>3. QED
  BY <1>1, <1>2

\* A sync that lost a race looks for its turn again.
LEMMA Fails ==
  ASSUME ScopesAreLists, NEW c \in Client, NEW r \in AppendType \cup SyncType, r = req[c],
         r.stage \in Appending, RequestOK(r)',
         NEW error \in {"refused", "exists", "conflict"}, Conv!Fail(c, error)
  PROVE  Goes(c)
<1>1. CASE r.sync /\ error \in {"exists", "conflict"}
  <2> DEFINE q == [r EXCEPT !.stage = "lookup", !.after = error]
  <2>1. r \in SyncType
    BY <1>1 DEF AppendType
  <2>2. /\ q \in SyncType /\ q.stage = "lookup" /\ q.sync
        /\ q.scope = r.scope /\ q.asOf = r.asOf /\ q.confirmed = r.confirmed
    BY <1>1, <2>1 DEF SyncType, SyncStage
  <2>3. Conv!Become(c, q)
    BY <1>1 DEF Conv!Fail
  <2> HIDE DEF q
  <2>4. SyncOK(r)'
    BY <1>1 DEF RequestOK, SyncStage
  <2>5. SyncOK(q)'
    BY <2>2, <2>4 DEF SyncOK, PastGate, Honoured
  <2>6. RequestOK(q)' /\ q.stage # "commit" /\ q \in RequestType
    BY <2>2, <2>5 DEF RequestOK, RequestType
  <2>7. QED
    BY <2>3, <2>6, GoesTo
<1>2. CASE ~(r.sync /\ error \in {"exists", "conflict"})
  BY <1>2, Replies DEF Conv!Fail
<1>3. QED
  BY <1>1, <1>2

LEMMA NothingRead == Conv!NoSession \in Conv!Session
<1>1. <<>> \in Seq(Conv!Turn)
  BY EmptySeq
<1>2. QED
  BY <1>1 DEF Conv!NoSession, Conv!Session

\* What each request knows, also after a step that leaves the rows alone.
LEMMA Known ==
  ASSUME ScopesAreLists, IInv, NEW c \in Client, UNCHANGED <<session, turns, policy>>
  PROVE  /\ RowsOK' /\ RowsOK /\ Moves
         /\ req[c] \in RequestType /\ RequestOK(req[c])
         /\ \A r \in RequestType : r = req[c] => RequestOK(r)'
<1>1. RowsOK' /\ RowsOK /\ Moves
  BY DEF IInv, RowsOK, Conv!LogBackedByTurns, Moves
<1>2. req[c] \in RequestType /\ RequestOK(req[c])
  BY DEF IInv
<1>3. QED
  BY <1>1, <1>2, RequestStable

-----------------------------------------------------------------------------
(* The steps that leave the rows alone *)

LEMMA BeginUpdateIsGood ==
  ASSUME ScopesAreLists, IInv, NEW c \in Client, Conv!BeginUpdate(c)
  PROVE  Good(c)
<1>1. UNCHANGED <<session, turns, policy>>
  BY DEF Conv!BeginUpdate
<1>2. session \in Conv!Session /\ session.rev # 0
  BY DEF IInv, RowsOK, Conv!BeginUpdate, Conv!Session
<1>3. PICK n :
        /\ n \in {[session EXCEPT !.status = st] : st \in Standing}
              \cup {[session EXCEPT !.members = ms] : ms \in SUBSET (Actor \ {Creator})}
              \cup {[session EXCEPT !.scope = sc] : sc \in Scope \cup {<<>>}}
        /\ Conv!Become(c, [stage |-> "update", read |-> session, next |-> n])
  BY DEF Conv!BeginUpdate
<1>4. n \in Conv!Session
  BY <1>2, <1>3 DEF Conv!Session
<1>5. PICK read \in Conv!Session : read = session
  BY <1>2
<1> DEFINE q == [stage |-> "update", read |-> read, next |-> n]
<1>6. q \in RequestType /\ q.stage = "update" /\ q.read = read
  BY <1>4 DEF RequestType, UpdateType
<1>7. Conv!Become(c, q)
  BY <1>3, <1>5
<1> HIDE DEF q
<1>8. RequestOK(q)'
  BY <1>1, <1>2, <1>5, <1>6 DEF RequestOK, Current, SyncStage, Appending, Conv!Session
<1>9. Goes(c)
  BY <1>6, <1>7, <1>8, GoesTo
<1>10. QED
  BY <1>1, <1>9, QuietIsGood

LEMMA BeginAppendIsGood ==
  ASSUME ScopesAreLists, IInv, NEW c \in Client, Conv!BeginAppend(c)
  PROVE  Good(c)
<1>1. UNCHANGED <<session, turns, policy>> /\ session.rev \in Nat
  BY DEF Conv!BeginAppend, IInv, RowsOK, Conv!Session
<1>2. PICK e \in Entry, a \in Actor, base \in 1..session.rev :
        Conv!Become(c, [stage |-> "read", sync |-> FALSE, entry |-> e, actor |-> a,
                        base |-> base, read |-> Conv!NoSession])
  BY DEF Conv!BeginAppend
<1> DEFINE q == [stage |-> "read", sync |-> FALSE, entry |-> e, actor |-> a,
                 base |-> base, read |-> Conv!NoSession]
<1>3. base \in Nat
  BY <1>1
<1>4. q \in RequestType /\ q.stage = "read" /\ ~q.sync
  BY <1>3, NothingRead DEF RequestType, AppendType, Appending
<1>5. Conv!Become(c, q)
  BY <1>2
<1> HIDE DEF q
<1>6. RequestOK(q)'
  BY <1>4 DEF RequestOK
<1>7. Goes(c)
  BY <1>4, <1>5, <1>6, GoesTo
<1>8. QED
  BY <1>1, <1>7, QuietIsGood

LEMMA ReadForAppendIsGood ==
  ASSUME ScopesAreLists, IInv, NEW c \in Client, Conv!ReadForAppend(c)
  PROVE  Good(c)
<1>1. UNCHANGED <<session, turns, policy>> /\ session \in Conv!Session
  BY DEF Conv!ReadForAppend, IInv, RowsOK
<1>2. PICK r \in RequestType : r = req[c]
  BY DEF IInv
<1>3. r.stage = "read" /\ r \in AppendType \cup SyncType
  BY <1>2, Shapes DEF Conv!ReadForAppend, Conv!At, Appending
<1>4. RequestOK(r)'
  BY <1>1, <1>2, Known
<1>5. \/ Conv!Fail(c, "refused")
      \/ Conv!Fail(c, "conflict")
      \/ /\ Conv!IsMember(session, r.actor) /\ Conv!Appendable(session) /\ session.rev = r.base
         /\ Conv!Become(c, [req[c] EXCEPT !.stage = "insert", !.read = session])
  BY <1>2, Zenon DEF Conv!ReadForAppend
<1>6. CASE /\ Conv!IsMember(session, r.actor) /\ Conv!Appendable(session) /\ session.rev = r.base
           /\ Conv!Become(c, [req[c] EXCEPT !.stage = "insert", !.read = session])
  <2>1. PICK read \in Conv!Session : read = session
    BY <1>1
  <2>2. PICK q : q = Advance(r, "insert", read)
    OBVIOUS
  <2>3. Conv!Become(c, q)
    BY <1>2, <1>6, <2>1, <2>2 DEF Advance
  <2>4. /\ q \in RequestType
        /\ q.stage = "insert" /\ q.read = read /\ q.actor = r.actor /\ q.sync = r.sync
        /\ q.sync => /\ q.scope = r.scope /\ q.asOf = r.asOf /\ q.confirmed = r.confirmed
                     /\ q.attempt = r.attempt
    <3>1. "insert" \in Appending
      BY DEF Appending
    <3>2. QED
      BY <1>3, <2>2, <3>1, Onward
  <2>5. Current(read)' /\ Conv!Appendable(read) /\ Conv!IsMember(read, q.actor)
    BY <1>1, <1>6, <2>1, <2>4 DEF Current, Conv!Session
  <2>6. q.sync => SyncOK(q)'
    <3>1. q.sync => SyncOK(r)'
      BY <1>3, <1>4, <2>4 DEF RequestOK, SyncStage, Appending
    <3>2. q.sync /\ q.attempt = 0 => q.scope = read.scope
      BY <1>1, <1>3, <1>6, <2>1, <2>4, <3>1 DEF SyncOK
    <3>3. QED
      BY <1>3, <2>4, <3>1, <3>2 DEF SyncOK, PastGate, Honoured, Appending
  <2>7. RequestOK(q)'
    BY <2>4, <2>5, <2>6 DEF RequestOK
  <2>8. Goes(c)
    BY <2>3, <2>4, <2>7, GoesTo
  <2>9. QED
    BY <1>1, <2>8, QuietIsGood
<1>7. CASE Conv!Fail(c, "refused") \/ Conv!Fail(c, "conflict")
  <2>1. Goes(c)
    BY <1>2, <1>3, <1>4, <1>7, Fails DEF Appending
  <2>2. QED
    BY <1>1, <2>1, QuietIsGood
<1>8. QED
  BY <1>5, <1>6, <1>7

LEMMA BeginSyncIsGood ==
  ASSUME ScopesAreLists, IInv, NEW c \in Client, Conv!BeginSync(c)
  PROVE  Good(c)
<1>1. UNCHANGED <<session, turns, policy>> /\ policy \in Conv!Policies
  BY DEF Conv!BeginSync, IInv, RowsOK
<1>2. PICK p \in Conv!Policies : p = policy
  BY <1>1
<1>3. PICK e \in Entry, a \in Actor, confirmed \in BOOLEAN :
        Conv!Become(c, [stage |-> "lookup", sync |-> TRUE, entry |-> e, actor |-> a,
                        confirmed |-> confirmed, base |-> 0, read |-> Conv!NoSession,
                        scope |-> <<>>, todo |-> <<>>, attempt |-> 0,
                        after |-> "none", asOf |-> p])
  BY <1>2 DEF Conv!BeginSync
<1> DEFINE q == [stage |-> "lookup", sync |-> TRUE, entry |-> e, actor |-> a,
                 confirmed |-> confirmed, base |-> 0, read |-> Conv!NoSession,
                 scope |-> <<>>, todo |-> <<>>, attempt |-> 0,
                 after |-> "none", asOf |-> p]
<1>4. <<>> \in Seq(Conv!ScopeKey)
  BY EmptySeq
<1>5. q \in RequestType /\ q.stage = "lookup" /\ q.after = "none" /\ q.asOf = p
  BY <1>4, NothingRead DEF RequestType, SyncType, SyncStage
<1>6. Conv!Become(c, q)
  BY <1>3
<1> HIDE DEF q
<1>7. \A k \in Conv!ScopeKey : SeenAs(k, p[k])'
  BY <1>1, <1>2 DEF SeenAs, Conv!Policies
<1>8. RequestOK(q)'
  BY <1>5, <1>7 DEF RequestOK, SyncOK, PastGate, Appending
<1>9. Goes(c)
  BY <1>5, <1>6, <1>8, GoesTo
<1>10. QED
  BY <1>1, <1>9, QuietIsGood

LEMMA LookupIsGood ==
  ASSUME ScopesAreLists, IInv, NEW c \in Client, Conv!Lookup(c)
  PROVE  Good(c)
<1>1. UNCHANGED <<session, turns, policy>> /\ session \in Conv!Session
  BY DEF Conv!Lookup, IInv, RowsOK
<1>2. PICK r \in RequestType : r = req[c]
  BY DEF IInv
<1>3. r.stage = "lookup" /\ r \in SyncType
  BY <1>2, Shapes DEF Conv!Lookup, Conv!At, SyncStage, Appending
<1>4. RequestOK(r)'
  BY <1>1, <1>2, Known
<1>5. PICK read \in Conv!Session : read = session
  BY <1>1
<1> DEFINE q == [r EXCEPT !.stage = "rows", !.read = read]
<1>6. Conv!Become(c, q)
  BY <1>2, <1>5 DEF Conv!Lookup
<1>7. /\ q \in SyncType /\ q.stage = "rows" /\ q.read = read /\ q.after = r.after
      /\ q.scope = r.scope /\ q.asOf = r.asOf /\ q.confirmed = r.confirmed
  BY <1>3 DEF SyncType, SyncStage
<1> HIDE DEF q
<1>8. SyncOK(r)'
  BY <1>3, <1>4 DEF RequestOK, SyncType, SyncStage
<1>9. SyncOK(q)'
  BY <1>3, <1>7, <1>8 DEF SyncOK, PastGate, Honoured, Appending
<1>10. \A e \in Entry : Conv!Projected(read, e) => Conv!Projected(session, e)'
  BY <1>1, <1>5 DEF Conv!Projected
<1>11. RequestOK(q)'
  BY <1>7, <1>9, <1>10 DEF RequestOK
<1>12. Goes(c)
  BY <1>6, <1>7, <1>11, GoesTo DEF RequestType
<1>13. QED
  BY <1>1, <1>12, QuietIsGood

\* A sync that goes to another stage keeps the rest of its request.
Turned(r, s) == [r EXCEPT !.stage = s]

LEMMA SyncOnward ==
  ASSUME NEW r \in SyncType, NEW s \in SyncStage, NEW q, q = Turned(r, s)
  PROVE  /\ q \in SyncType /\ q \in RequestType
         /\ q.stage = s /\ q.sync /\ q.scope = r.scope /\ q.asOf = r.asOf
         /\ q.confirmed = r.confirmed /\ q.attempt = r.attempt /\ q.base = r.base
         /\ q.after = r.after /\ q.read = r.read /\ q.todo = r.todo
BY DEF SyncType, Turned, RequestType

LEMMA RowsIsGood ==
  ASSUME ScopesAreLists, IInv, NEW c \in Client, Conv!Rows(c)
  PROVE  Good(c)
<1>1. UNCHANGED <<session, turns, policy>>
  BY DEF Conv!Rows
<1>2. PICK r \in RequestType : r = req[c]
  BY DEF IInv
<1>3. r.stage = "rows" /\ r \in SyncType
  BY <1>2, Shapes DEF Conv!Rows, Conv!At, SyncStage, Appending
<1>4. RequestOK(r)' /\ RequestOK(r)
  BY <1>1, <1>2, Known
<1>5. SyncOK(r)'
  BY <1>3, <1>4 DEF RequestOK, SyncType, SyncStage
<1>6. \/ Conv!Missing(c)
      \/ Conv!Projected(r.read, r.entry) /\ Conv!Acknowledge(c)
      \/ Conv!Reply(c)
  BY <1>2, Zenon DEF Conv!Rows
<1>7. CASE Conv!Missing(c)
  <2>1. \/ r.after = "none" /\ Conv!Goto(c, "load")
        \/ r.after # "none" /\ r.attempt = 0 /\ Conv!Goto(c, "reload")
        \/ Conv!Reply(c)
    <3>1. \/ r.after = "none" /\ Conv!Goto(c, "load")
          \/ r.after = "conflict" /\ r.attempt = 0 /\ Conv!Goto(c, "reload")
          \/ Conv!Reply(c)
      BY <1>2, <1>7, Zenon DEF Conv!Missing
    <3>2. QED
      BY <3>1
  <2>2. ASSUME Conv!Goto(c, "load") PROVE Goes(c)
    <3>1. PICK q : q = Turned(r, "load")
      OBVIOUS
    <3>2. Conv!Become(c, q)
      BY <1>2, <2>2, <3>1 DEF Conv!Goto, Turned
    <3>3. "load" \in SyncStage
      BY DEF SyncStage
    <3>4. q \in RequestType /\ q.stage = "load" /\ q.asOf = r.asOf
      BY <1>3, <3>1, <3>3, SyncOnward
    <3>5. RequestOK(q)'
      BY <1>5, <3>4 DEF RequestOK, SyncOK, PastGate, Appending
    <3>6. QED
      BY <3>2, <3>4, <3>5, GoesTo
  <2>3. ASSUME r.after # "none" /\ r.attempt = 0 /\ Conv!Goto(c, "reload")
        PROVE  Goes(c)
    <3>1. PICK q : q = Turned(r, "reload")
      OBVIOUS
    <3>2. Conv!Become(c, q)
      BY <1>2, <2>3, <3>1 DEF Conv!Goto, Turned
    <3>3. "reload" \in SyncStage
      BY DEF SyncStage
    <3>4. /\ q \in RequestType /\ q.stage = "reload" /\ q.asOf = r.asOf /\ q.scope = r.scope
          /\ q.confirmed = r.confirmed /\ q.attempt = r.attempt
      BY <1>3, <3>1, <3>3, SyncOnward
    <3>5. Honoured(q)'
      BY <1>3, <1>5, <2>3, <3>4 DEF SyncOK, PastGate, Honoured
    <3>6. RequestOK(q)'
      BY <1>5, <2>3, <3>4, <3>5 DEF RequestOK, SyncOK
    <3>7. QED
      BY <3>2, <3>4, <3>6, GoesTo
  <2>4. Goes(c)
    BY <2>1, <2>2, <2>3, Replies
  <2>5. QED
    BY <1>1, <2>4, QuietIsGood
<1>8. CASE Conv!Projected(r.read, r.entry) /\ Conv!Acknowledge(c)
  <2>1. PICK e \in Entry : e = r.entry
    BY <1>3 DEF SyncType
  <2>2. Conv!Projected(session, e)'
    BY <1>3, <1>4, <1>8, <2>1 DEF RequestOK, Conv!Projected
  <2>3. Goes(c)
    BY <1>2, <1>8, <2>1, <2>2, Acknowledges
  <2>4. QED
    BY <1>1, <2>3, QuietIsGood
<1>9. QED
  BY <1>1, <1>6, <1>7, <1>8, Replies, QuietIsGood

LEMMA LoadIsGood ==
  ASSUME ScopesAreLists, IInv, NEW c \in Client, Conv!Load(c)
  PROVE  Good(c)
<1>1. UNCHANGED <<session, turns, policy>> /\ session \in Conv!Session
  BY DEF Conv!Load, IInv, RowsOK
<1>2. PICK r \in RequestType : r = req[c]
  BY DEF IInv
<1>3. r.stage = "load" /\ r \in SyncType
  BY <1>2, Shapes DEF Conv!Load, Conv!At, SyncStage, Appending
<1>4. SyncOK(r)'
  <2>1. RequestOK(r)'
    BY <1>1, <1>2, Known
  <2>2. QED
    BY <1>3, <2>1 DEF RequestOK, SyncType, SyncStage
<1>5. CASE Conv!Reply(c)
  BY <1>1, <1>5, Replies, QuietIsGood
<1>6. CASE Conv!Become(c, [req[c] EXCEPT !.stage = "gate", !.base = session.rev,
                            !.scope = session.scope, !.todo = Conv!Candidates(session.scope)])
  <2>1. PICK s \in Conv!Session : s = session
    BY <1>1
  <2>2. s.scope \in Scope \cup {<<>>} /\ s.rev \in Nat
    BY DEF Conv!Session
  <2>3. PICK scope \in Scope \cup {<<>>} : scope = s.scope
    BY <2>2
  <2>4. PICK todo \in Seq(Conv!ScopeKey) : todo = Conv!Candidates(scope)
    BY Keys
  <2>5. PICK base \in Nat : base = s.rev
    BY <2>2
  <2> DEFINE q == [r EXCEPT !.stage = "gate", !.base = base, !.scope = scope, !.todo = todo]
  <2>6. Conv!Become(c, q)
    BY <1>2, <1>6, <2>1, <2>3, <2>4, <2>5
  <2>7. /\ q \in SyncType /\ q.stage = "gate" /\ q.base = base /\ q.scope = scope
        /\ q.todo = todo /\ q.asOf = r.asOf
    BY <1>3 DEF SyncType, SyncStage
  <2> HIDE DEF q
  <2>8. HalfWay(q)'
    <3>1. Len(todo) = Len(scope) + 1 /\ Len(scope) \in Nat
      BY <2>4, Keys
    <3>2. Conv!Candidates(q.scope) = todo
      BY <2>4, <2>7
    <3>3. QED
      BY <2>7, <3>1, <3>2 DEF HalfWay
  <2>9. q.base <= session'.rev /\ (q.base = session'.rev => q.scope = session'.scope)
    BY <1>1, <2>1, <2>3, <2>5, <2>7
  <2>10. RequestOK(q)'
    BY <1>4, <2>7, <2>8, <2>9 DEF RequestOK, SyncOK, PastGate, Appending
  <2>11. Goes(c)
    BY <2>6, <2>7, <2>10, GoesTo DEF RequestType
  <2>12. QED
    BY <1>1, <2>11, QuietIsGood
<1>7. QED
  BY <1>5, <1>6 DEF Conv!Load

\* The set that the first stored row of the scopes holds is the effective one.
LEMMA FirstStored ==
  ASSUME NEW p, NEW s, NEW cs, cs = Conv!Candidates(s), NEW n \in DOMAIN cs, DOMAIN cs \subseteq Nat,
         p[cs[n]].rev # 0, \A i \in DOMAIN cs : i < n => p[cs[i]].rev = 0
  PROVE  Conv!Effective(p, s) = p[cs[n]].set
<1> DEFINE stored == {i \in DOMAIN cs : p[cs[i]].rev # 0}
<1>1. n \in stored /\ \A j \in stored : n <= j
  OBVIOUS
<1>2. \A i \in stored : (\A j \in stored : i <= j) => i = n
  BY <1>1
<1>3. (CHOOSE i \in stored : \A j \in stored : i <= j) = n
  BY <1>1, <1>2
<1>4. QED
  BY <1>1, <1>3 DEF Conv!Effective, Conv!Candidates

LEMMA NoneStored ==
  ASSUME NEW p, NEW s, \A i \in DOMAIN Conv!Candidates(s) : p[Conv!Candidates(s)[i]].rev = 0
  PROVE  Conv!Effective(p, s) = Conv!Ask
BY DEF Conv!Effective, Conv!Candidates

LEMMA OnlyOne ==
  ASSUME NEW m \in Nat, NEW l \in 1..m, ~(l > 1)
  PROVE  l = 1
OBVIOUS

LEMMA OneFurther ==
  ASSUME NEW a \in Nat, NEW b \in Nat, NEW n \in Nat, n = a - b
  PROVE  n + 1 = a - (b - 1)
OBVIOUS

LEMMA GateIsGood ==
  ASSUME ScopesAreLists, IInv, NEW c \in Client, Conv!Gate(c)
  PROVE  Good(c)
<1>1. UNCHANGED <<session, turns, policy>> /\ policy \in Conv!Policies
  BY DEF Conv!Gate, IInv, RowsOK
<1>2. PICK r \in RequestType : r = req[c]
  BY DEF IInv
<1>3. r.stage = "gate" /\ r \in SyncType
  BY <1>2, Shapes DEF Conv!Gate, Conv!At, SyncStage, Appending
<1>4. SyncOK(r)' /\ SyncOK(r)
  <2>1. RequestOK(r)' /\ RequestOK(r)
    BY <1>1, <1>2, Known
  <2>2. QED
    BY <1>3, <2>1 DEF RequestOK, SyncType, SyncStage
<1>5. PICK cs \in Seq(Conv!ScopeKey) : cs = Conv!Candidates(r.scope)
  BY <1>3, Keys DEF SyncType
<1>6. PICK n : n = Len(cs) - Len(r.todo)
  OBVIOUS
<1>7. /\ Len(r.todo) \in 1..Len(cs)
      /\ \A j \in 1..Len(r.todo) : r.todo[j] = cs[n + j]
      /\ \A i \in 1..n : r.asOf[cs[i]].rev = 0 \/ policy[cs[i]] # r.asOf[cs[i]]
  BY <1>3, <1>4, <1>5, <1>6 DEF SyncOK, HalfWay
<1>8. /\ r.todo \in Seq(Conv!ScopeKey) /\ r.asOf \in Conv!Policies /\ r.scope \in Scope \cup {<<>>}
  BY <1>3 DEF SyncType
<1>9. /\ n \in Nat /\ Len(cs) \in Nat /\ n + 1 \in 1..Len(cs) /\ Len(r.todo) \in Nat
      /\ DOMAIN cs = 1..Len(cs) /\ \A i \in 1..Len(cs) : cs[i] \in Conv!ScopeKey
  BY <1>5, <1>6, <1>7, <1>8
<1>10. Head(r.todo) = cs[n + 1]
  BY <1>7, <1>8, <1>9
<1>11. PICK k \in Conv!ScopeKey : k = cs[n + 1]
  BY <1>9
<1>12. SeenAs(k, r.asOf[k])
  BY <1>4 DEF SyncOK
<1>13. \/ policy[k].rev = 0 /\ Len(r.todo) > 1 /\ Conv!Become(c, [r EXCEPT !.todo = Tail(r.todo)])
       \/ /\ ~(policy[k].rev = 0 /\ Len(r.todo) > 1)
          /\ Conv!Allows(policy[k].set, r.confirmed) /\ Conv!Goto(c, "read")
       \/ Conv!Reply(c)
  BY <1>2, <1>10, <1>11, Zenon DEF Conv!Gate
<1>14. CASE policy[k].rev = 0 /\ Len(r.todo) > 1 /\ Conv!Become(c, [r EXCEPT !.todo = Tail(r.todo)])
  <2>1. PICK todo \in Seq(Conv!ScopeKey) :
          /\ todo = Tail(r.todo) /\ Len(todo) = Len(r.todo) - 1
          /\ \A j \in 1..Len(todo) : todo[j] = r.todo[j + 1]
    <3>1. r.todo # <<>>
      BY <1>7, <1>9
    <3>2. PICK t \in Seq(Conv!ScopeKey) : t = r.todo
      BY <1>8
    <3>3. /\ Tail(t) \in Seq(Conv!ScopeKey) /\ Len(Tail(t)) = Len(t) - 1
          /\ \A j \in 1..Len(Tail(t)) : Tail(t)[j] = t[j + 1]
      BY <3>1, <3>2, HeadTailProperties
    <3>4. QED
      BY <3>2, <3>3
  <2>2. Len(todo) = Len(r.todo) - 1 /\ \A j \in 1..Len(todo) : todo[j] = r.todo[j + 1]
    BY <2>1
  <2> DEFINE q == [r EXCEPT !.todo = todo]
  <2>3. Conv!Become(c, q)
    BY <1>14, <2>1
  <2>4. /\ q \in SyncType /\ q.stage = "gate" /\ q.todo = todo /\ q.base = r.base
        /\ q.scope = r.scope /\ q.asOf = r.asOf /\ q.attempt = r.attempt
    BY <1>3 DEF SyncType
  <2> HIDE DEF q
  <2>5. HalfWay(q)'
    <3>1. PICK m \in Nat : m = n + 1
      BY <1>9
    <3>2. /\ m \in Nat
          /\ m = Len(cs) - Len(todo)
      <4>1. Len(cs) \in Nat /\ Len(r.todo) \in Nat
        BY <1>9
      <4>2. n + 1 = Len(cs) - (Len(r.todo) - 1)
        BY <1>6, <1>9, <4>1, OneFurther, Zenon
      <4>3. QED
        BY <2>2, <3>1, <4>2, Zenon
    <3>3. Len(todo) \in 1..Len(cs)
      BY <1>7, <1>9, <1>14, <2>2
    <3>4. \A j \in 1..Len(todo) : todo[j] = cs[m + j]
      <4>1. ASSUME NEW j \in 1..Len(todo) PROVE todo[j] = cs[m + j]
        <5>1. j + 1 \in 1..Len(r.todo) /\ todo[j] = r.todo[j + 1]
          BY <1>9, <2>2
        <5>2. n + (j + 1) = m + j
          BY <1>9, <3>1, <4>1
        <5>3. QED
          BY <1>7, <5>1, <5>2
      <4>2. QED
        BY <4>1
    <3>5. r.asOf[k].rev = 0
      BY <1>1, <1>8, <1>12, <1>14 DEF SeenAs, Conv!Policies
    <3>6. \A i \in 1..m : i \in 1..n \/ i = n + 1
      BY <1>9, <3>1
    <3>7. \A i \in 1..m : r.asOf[cs[i]].rev = 0 \/ policy[cs[i]] # r.asOf[cs[i]]
      BY <1>7, <1>11, <3>5, <3>6
    <3>8. QED
      BY <1>1, <1>5, <2>4, <3>2, <3>3, <3>4, <3>7 DEF HalfWay
  <2>6. RequestOK(q)'
    BY <1>3, <1>4, <2>4, <2>5 DEF RequestOK, SyncOK, PastGate, Appending
  <2>7. Goes(c)
    BY <2>3, <2>4, <2>6, GoesTo DEF RequestType
  <2>8. QED
    BY <1>1, <2>7, QuietIsGood
<1>15. CASE /\ ~(policy[k].rev = 0 /\ Len(r.todo) > 1)
            /\ Conv!Allows(policy[k].set, r.confirmed) /\ Conv!Goto(c, "read")
  <2>1. Honoured(r)
    <3>1. SUFFICES ASSUME \A i \in 1..Len(cs) : policy[cs[i]] = r.asOf[cs[i]]
          PROVE  Conv!Allows(Conv!Effective(r.asOf, r.scope), r.confirmed)
      <4>1. ASSUME NEW i \in 1..Len(cs), policy[cs[i]] # r.asOf[cs[i]]
            PROVE  Honoured(r)
        <5>1. /\ Len(cs) = Len(r.scope) + 1 /\ Len(r.scope) \in Nat
              /\ DOMAIN r.scope = 1..Len(r.scope)
              /\ \A j \in 1..Len(r.scope) : cs[j] = r.scope[j]
              /\ cs[Len(r.scope) + 1] = "account"
          BY <1>5, <1>8, Keys
        <5>2. i \in 1..Len(r.scope) \/ i = Len(r.scope) + 1
          BY <5>1
        <5>3. QED
          BY <4>1, <5>1, <5>2 DEF Honoured
      <4>2. QED
        BY <4>1 DEF Honoured
    <3>2. \A i \in 1..n : i \in 1..Len(cs) /\ r.asOf[cs[i]].rev = 0
      BY <1>7, <1>9, <3>1
    <3>3. r.asOf[k] = policy[k]
      BY <1>9, <1>11, <3>1
    <3>4. CASE policy[k].rev # 0
      <4>1. \A i \in DOMAIN cs : i < n + 1 => r.asOf[cs[i]].rev = 0
        BY <1>9, <3>2
      <4>2. PICK l \in DOMAIN cs : l = n + 1
        BY <1>9
      <4>3. DOMAIN cs \subseteq Nat
        BY <1>9
      <4>4. Conv!Effective(r.asOf, r.scope) = r.asOf[cs[l]].set
        BY <1>5, <1>11, <3>3, <3>4, <4>1, <4>2, <4>3, FirstStored
      <4>5. QED
        BY <1>11, <1>15, <3>3, <4>2, <4>4
    <3>5. CASE policy[k].rev = 0
      <4>1. Len(r.todo) = 1
        <5>1. PICK t : t = r.todo
          OBVIOUS
        <5>2. ~(Len(t) > 1)
          BY <1>15, <3>5, <5>1, Zenon
        <5>3. Len(t) \in 1..Len(cs)
          BY <1>7, <5>1, Zenon
        <5>4. Len(cs) \in Nat
          BY <1>9
        <5>5. Len(t) = 1
          BY <5>2, <5>3, <5>4, OnlyOne, Zenon
        <5>6. QED
          BY <5>1, <5>5, Zenon
      <4>2. \A i \in DOMAIN cs : i \in 1..n \/ i = n + 1
        BY <1>6, <1>9, <4>1
      <4>3. \A i \in DOMAIN cs : r.asOf[cs[i]].rev = 0
        BY <1>11, <3>2, <3>3, <3>5, <4>2
      <4>4. Conv!Effective(r.asOf, r.scope) = Conv!Ask
        BY <1>5, <4>3, NoneStored
      <4>5. policy[k].set = Conv!Ask
        BY <3>5 DEF IInv, RowsOK
      <4>6. QED
        BY <1>15, <4>4, <4>5
    <3>6. QED
      BY <3>4, <3>5
  <2>2. PICK q : q = Turned(r, "read")
    OBVIOUS
  <2>3. Conv!Become(c, q)
    BY <1>2, <1>15, <2>2 DEF Conv!Goto, Turned
  <2>4. "read" \in SyncStage
    BY DEF SyncStage, Appending
  <2>5. /\ q \in RequestType /\ q.stage = "read" /\ q.asOf = r.asOf /\ q.scope = r.scope
        /\ q.confirmed = r.confirmed /\ q.attempt = r.attempt /\ q.base = r.base
    BY <1>3, <2>2, <2>4, SyncOnward
  <2>6. Honoured(q)'
    BY <1>1, <2>1, <2>5 DEF Honoured
  <2>7. RequestOK(q)'
    BY <1>3, <1>4, <2>5, <2>6 DEF RequestOK, SyncOK
  <2>8. Goes(c)
    BY <2>3, <2>5, <2>7, GoesTo
  <2>9. QED
    BY <1>1, <2>8, QuietIsGood
<1>16. QED
  BY <1>1, <1>13, <1>14, <1>15, Replies, QuietIsGood

LEMMA ReloadIsGood ==
  ASSUME ScopesAreLists, IInv, NEW c \in Client, Conv!Reload(c)
  PROVE  Good(c)
<1>1. UNCHANGED <<session, turns, policy>> /\ session.rev \in Nat
  BY DEF Conv!Reload, IInv, RowsOK, Conv!Session
<1>2. PICK r \in RequestType : r = req[c]
  BY DEF IInv
<1>3. r.stage = "reload" /\ r \in SyncType
  BY <1>2, Shapes DEF Conv!Reload, Conv!At, SyncStage, Appending
<1>4. SyncOK(r)'
  <2>1. RequestOK(r)'
    BY <1>1, <1>2, Known
  <2>2. QED
    BY <1>3, <2>1 DEF RequestOK, SyncType, SyncStage
<1>5. r.attempt = 0 /\ Honoured(r)'
  BY <1>3, <1>4 DEF SyncOK, PastGate
<1>6. PICK base \in Nat : base = session.rev
  BY <1>1
<1> DEFINE q == [r EXCEPT !.stage = "read", !.base = base, !.attempt = 1]
<1>7. Conv!Become(c, q)
  BY <1>2, <1>5, <1>6 DEF Conv!Reload
<1>8. /\ q \in SyncType /\ q.stage = "read" /\ q.asOf = r.asOf /\ q.scope = r.scope
      /\ q.confirmed = r.confirmed /\ q.attempt = 1
  <2>1. 1 \in 0..1 /\ "read" \in SyncStage
    BY DEF SyncStage, Appending
  <2>2. q \in SyncType
    BY <1>3, <2>1 DEF SyncType
  <2>3. QED
    BY <1>3, <2>2 DEF SyncType
<1> HIDE DEF q
<1>9. Honoured(q)'
  BY <1>5, <1>8 DEF Honoured
<1>10. RequestOK(q)'
  BY <1>4, <1>8, <1>9 DEF RequestOK, SyncOK
<1>11. Goes(c)
  BY <1>7, <1>8, <1>10, GoesTo DEF RequestType
<1>12. QED
  BY <1>1, <1>11, QuietIsGood

LEMMA BeginPolicyIsGood ==
  ASSUME ScopesAreLists, IInv, NEW c \in Client, Conv!BeginPolicy(c)
  PROVE  Good(c)
<1>1. UNCHANGED <<session, turns, policy>> /\ policy \in Conv!Policies
  BY DEF Conv!BeginPolicy, IInv, RowsOK
<1>2. PICK k \in Conv!ScopeKey, set \in Setting :
        Conv!Become(c, [stage |-> "policy", key |-> k, set |-> set, seen |-> policy[k]])
  BY DEF Conv!BeginPolicy
<1>3. PICK p \in [set: Setting \cup {Conv!Ask}, rev: Nat] : p = policy[k]
  BY <1>1 DEF Conv!Policies
<1> DEFINE q == [stage |-> "policy", key |-> k, set |-> set, seen |-> p]
<1>4. q \in RequestType /\ q.stage = "policy" /\ q.key = k /\ q.seen = p
  BY DEF RequestType, PolicyType
<1>5. Conv!Become(c, q)
  BY <1>2, <1>3
<1> HIDE DEF q
<1>6. RequestOK(q)'
  BY <1>1, <1>3, <1>4 DEF RequestOK, SeenAs, SyncStage, Appending
<1>7. Goes(c)
  BY <1>4, <1>5, <1>6, GoesTo
<1>8. QED
  BY <1>1, <1>7, QuietIsGood

LEMMA DieIsGood ==
  ASSUME ScopesAreLists, IInv, NEW c \in Client, Conv!Die(c)
  PROVE  Good(c)
BY Replies, QuietIsGood DEF Conv!Die

-----------------------------------------------------------------------------
(* The steps that write a row *)

LEMMA CreateIsGood ==
  ASSUME ScopesAreLists, IInv, NEW c \in Client, Conv!Create(c)
  PROVE  Good(c)
<1>1. PICK st \in Standing, ms \in SUBSET (Actor \ {Creator}), sc \in Scope \cup {<<>>} :
        session' = [status |-> st, log |-> <<>>, members |-> ms, scope |-> sc, rev |-> 1]
  BY DEF Conv!Create
<1>2. UNCHANGED <<turns, policy>> /\ session.rev = 0 /\ session = Conv!NoSession
  BY DEF Conv!Create, IInv, RowsOK
<1>3. session' \in Conv!Session /\ session'.rev = 1 /\ session'.log = <<>>
  <2>1. <<>> \in Seq(Conv!Turn)
    BY EmptySeq
  <2>2. QED
    BY <1>1, <2>1 DEF Conv!Session
<1>4. RowsOK'
  BY <1>2, <1>3 DEF IInv, RowsOK, Conv!LogBackedByTurns
<1>5. \A e \in Entry : ~Conv!Projected(session, e) /\ ~Conv!Projected(session, e)'
  BY <1>2, <1>3 DEF Conv!Projected, Conv!NoSession
<1>6. Moves /\ LogGrows /\ WrittenBy(req[c])
  BY <1>2, <1>3, <1>5 DEF Moves, LogGrows, WrittenBy
<1>7. QED
  BY <1>4, <1>6, Replies DEF Good, Conv!Create

LEMMA CommitUpdateIsGood ==
  ASSUME ScopesAreLists, IInv, NEW c \in Client, Conv!CommitUpdate(c)
  PROVE  Good(c)
<1>1. PICK r \in RequestType : r = req[c]
  BY DEF IInv
<1>2. /\ r.stage = "update" /\ r.next \in Conv!Session /\ r.read \in Conv!Session
      /\ r.read.rev # 0 /\ Current(r.read)
  BY <1>1, Shapes DEF Conv!CommitUpdate, Conv!At, UpdateType, IInv, RequestOK
<1>3. UNCHANGED <<turns, policy>> /\ session \in Conv!Session
  BY DEF Conv!CommitUpdate, IInv, RowsOK
<1>4. CASE session.rev = r.read.rev
  <2>1. session' = [r.next EXCEPT !.log = session.log, !.rev = r.read.rev + 1]
    BY <1>1, <1>4 DEF Conv!CommitUpdate
  <2>2. /\ session' \in Conv!Session /\ session'.log = session.log
        /\ session'.rev = session.rev + 1 /\ session.rev \in Nat
    <3>1. PICK log \in Seq(Conv!Turn), k \in Nat : log = session.log /\ k = session.rev
      BY <1>3 DEF Conv!Session
    <3>2. PICK n \in Conv!Session : n = r.next
      BY <1>2
    <3>3. PICK k1 \in Nat : k1 = k + 1
      OBVIOUS
    <3>4. session' = [n EXCEPT !.log = log, !.rev = k1]
      BY <1>4, <2>1, <3>1, <3>2, <3>3
    <3>5. session' \in Conv!Session /\ session'.log = log /\ session'.rev = k1
      <4>1. [n EXCEPT !.log = log, !.rev = k1] \in Conv!Session
        BY DEF Conv!Session
      <4>2. [n EXCEPT !.log = log, !.rev = k1].log = log
        BY DEF Conv!Session
      <4>3. [n EXCEPT !.log = log, !.rev = k1].rev = k1
        BY DEF Conv!Session
      <4>4. QED
        BY <3>4, <4>1, <4>2, <4>3, Zenon
    <3>6. QED
      BY <3>1, <3>3, <3>5
  <2>3. RowsOK'
    BY <1>3, <2>2 DEF IInv, RowsOK, Conv!LogBackedByTurns
  <2>4. \A e \in Entry : Conv!Projected(session, e) <=> Conv!Projected(session, e)'
    BY <2>2 DEF Conv!Projected
  <2>5. r.read = session
    BY <1>2, <1>4 DEF Current
  <2>6. Moves /\ LogGrows /\ WrittenBy(r)
    BY <1>2, <1>3, <2>2, <2>4, <2>5 DEF Moves, LogGrows, WrittenBy
  <2>7. QED
    BY <1>1, <2>3, <2>6, Replies DEF Good, Conv!CommitUpdate
<1>5. CASE session.rev # r.read.rev
  BY <1>1, <1>5, Replies, QuietIsGood DEF Conv!CommitUpdate
<1>6. QED
  BY <1>4, <1>5

LEMMA InsertTurnIsGood ==
  ASSUME ScopesAreLists, IInv, NEW c \in Client, Conv!InsertTurn(c)
  PROVE  Good(c)
<1>1. PICK r \in RequestType : r = req[c]
  BY DEF IInv
<1>2. r.stage = "insert" /\ r \in AppendType \cup SyncType /\ RequestOK(r)
  BY <1>1, Shapes DEF Conv!InsertTurn, Conv!At, Appending, IInv
<1>3. UNCHANGED <<session, policy>>
  BY DEF Conv!InsertTurn
<1>4. CASE \E t \in turns : Conv!SameIdentity(t, req[c].entry)
  <2>1. Conv!Fail(c, "exists") /\ UNCHANGED turns
    BY <1>4 DEF Conv!InsertTurn
  <2>2. RequestOK(r)'
    BY <1>1, <1>3, <2>1, Known
  <2>3. Goes(c)
    BY <1>1, <1>2, <2>1, <2>2, Fails DEF Appending
  <2>4. QED
    BY <1>3, <2>1, <2>3, QuietIsGood
<1>5. CASE ~\E t \in turns : Conv!SameIdentity(t, req[c].entry)
  <2>1. turns' = turns \cup {Conv!TurnOf(r)} /\ Conv!Goto(c, "commit")
    BY <1>1, <1>5 DEF Conv!InsertTurn
  <2>2. /\ r.entry \in Entry /\ r.actor \in Actor /\ r.read \in Conv!Session
    BY <1>2 DEF AppendType, SyncType
  <2>3. Conv!TurnOf(r) \in Conv!Turn
    BY <2>2 DEF Conv!TurnOf, Conv!Turn, Conv!Session
  <2>4. RowsOK'
    BY <1>3, <2>1, <2>3 DEF IInv, RowsOK, Conv!LogBackedByTurns
  <2>5. Moves /\ LogGrows /\ WrittenBy(r)
    BY <1>3, <2>1 DEF Moves, LogGrows, WrittenBy, Conv!Projected
  <2>6. RequestOK(r)'
    BY <1>2, <2>4, <2>5, RequestStable DEF IInv
  <2>7. PICK read \in Conv!Session : read = r.read
    BY <2>2
  <2>8. PICK q : q = Advance(r, "commit", read)
    OBVIOUS
  <2>9. Conv!Become(c, q)
    <3>1. [r EXCEPT !.stage = "commit", !.read = read] = [r EXCEPT !.stage = "commit"]
      <4>1. CASE r \in AppendType
        BY <2>7, <4>1 DEF AppendType
      <4>2. CASE r \in SyncType
        BY <2>7, <4>2 DEF SyncType
      <4>3. QED
        BY <1>2, <4>1, <4>2
    <3>2. QED
      BY <1>1, <2>1, <2>8, <3>1 DEF Conv!Goto, Advance
  <2>10. "commit" \in Appending
    BY DEF Appending
  <2>11. /\ q \in RequestType
         /\ q.stage = "commit" /\ q.read = r.read /\ q.actor = r.actor /\ q.sync = r.sync
         /\ q.entry = r.entry
         /\ q.sync => /\ q.scope = r.scope /\ q.asOf = r.asOf /\ q.confirmed = r.confirmed
                      /\ q.attempt = r.attempt
    BY <1>2, <2>7, <2>8, <2>10, Onward
  <2>12. Current(q.read)' /\ Conv!Appendable(q.read) /\ Conv!IsMember(q.read, q.actor)
    BY <1>2, <2>6, <2>11 DEF RequestOK
  <2>13. Conv!TurnOf(q) \in turns'
    BY <2>1, <2>11 DEF Conv!TurnOf
  <2>14. q.sync => SyncOK(q)'
    <3>1. q.sync => SyncOK(r)'
      BY <1>2, <2>6, <2>11 DEF RequestOK, SyncStage, Appending
    <3>2. QED
      BY <1>2, <2>11, <3>1 DEF SyncOK, PastGate, Honoured, Appending
  <2>15. RequestOK(q)'
    BY <2>11, <2>12, <2>13, <2>14 DEF RequestOK
  <2>16. \A t \in turns : t.entry # q.entry
    BY <1>1, <1>5, <2>11 DEF Conv!SameIdentity
  <2>17. Goes(c)
    BY <2>9, <2>11, <2>15, <2>16, GoesTo
  <2>18. QED
    BY <1>1, <2>4, <2>5, <2>17 DEF Good
<1>6. QED
  BY <1>4, <1>5

LEMMA CommitTurnIsGood ==
  ASSUME ScopesAreLists, IInv, NEW c \in Client, Conv!CommitTurn(c)
  PROVE  Good(c)
<1>1. PICK r \in RequestType : r = req[c]
  BY DEF IInv
<1>2. /\ r.stage = "commit" /\ r \in AppendType \cup SyncType /\ RequestOK(r)
  BY <1>1, Shapes DEF Conv!CommitTurn, Conv!At, Appending, IInv
<1>3. UNCHANGED <<turns, policy>> /\ session \in Conv!Session
  BY DEF Conv!CommitTurn, IInv, RowsOK
<1>4. CASE session.rev = r.read.rev
  <2>1. /\ r.read = session /\ Conv!TurnOf(r) \in turns
        /\ Conv!Appendable(session) /\ Conv!IsMember(session, r.actor)
    BY <1>2, <1>4 DEF RequestOK, Current
  <2>2. PICK t \in Conv!Turn : t = Conv!TurnOf(r)
    BY <2>1 DEF IInv, RowsOK
  <2>3. t \in turns /\ t.entry = r.entry /\ t.actor = r.actor /\ t.seq = Len(session.log) + 1
    BY <2>1, <2>2 DEF Conv!TurnOf
  <2>4. /\ session' = [session EXCEPT
               !.log = Append(session.log, t),
               !.status = IF @ = "paused" THEN "active" ELSE @,
               !.rev = session.rev + 1]
        /\ Conv!Acknowledge(c)
    BY <1>1, <1>4, <2>1, <2>2 DEF Conv!CommitTurn
  <2>5. PICK log \in Seq(Conv!Turn) : log = session.log
    BY <1>3 DEF Conv!Session
  <2>6. /\ Append(log, t) \in Seq(Conv!Turn) /\ Len(Append(log, t)) = Len(log) + 1
        /\ \A i \in 1..Len(log) : Append(log, t)[i] = log[i]
        /\ Append(log, t)[Len(log) + 1] = t
    BY AppendProperties
  <2>7. /\ session' \in Conv!Session /\ session'.log = Append(log, t)
        /\ session'.rev = session.rev + 1 /\ session.rev \in Nat
    <3>1. PICK new \in Seq(Conv!Turn) : new = Append(log, t)
      BY <2>6
    <3>2. PICK s \in Conv!Session : s = session
      BY <1>3
    <3>3. PICK st \in Standing \cup {"active", "none"} :
            st = (IF s.status = "paused" THEN "active" ELSE s.status)
      BY DEF Conv!Session
    <3>4. PICK k \in Nat : k = s.rev
      BY DEF Conv!Session
    <3>5. PICK k1 \in Nat : k1 = k + 1
      OBVIOUS
    <3>6. session' = [s EXCEPT !.log = new, !.status = st, !.rev = k1]
      BY <2>4, <2>5, <3>1, <3>2, <3>3, <3>4, <3>5, Zenon
    <3>7. session' \in Conv!Session /\ session'.log = new /\ session'.rev = k1
      <4>1. [s EXCEPT !.log = new, !.status = st, !.rev = k1] \in Conv!Session
        BY DEF Conv!Session
      <4>2. [s EXCEPT !.log = new, !.status = st, !.rev = k1].log = new
        BY DEF Conv!Session
      <4>3. [s EXCEPT !.log = new, !.status = st, !.rev = k1].rev = k1
        BY DEF Conv!Session
      <4>4. QED
        BY <3>6, <4>1, <4>2, <4>3, Zenon
    <3>8. QED
      BY <3>1, <3>2, <3>4, <3>5, <3>7
  <2>8. PICK new \in Seq(Conv!Turn) : new = Append(log, t)
    BY <2>6
  <2>9. /\ DOMAIN new = 1..(Len(log) + 1) /\ Len(log) \in Nat /\ DOMAIN log = 1..Len(log)
        /\ \A i \in DOMAIN log : new[i] = log[i]
        /\ new[Len(log) + 1] = t /\ session'.log = new /\ Len(new) = Len(log) + 1
    BY <2>6, <2>7, <2>8
  <2>10. \A i \in DOMAIN new : i \in DOMAIN log \/ i = Len(log) + 1
    BY <2>9
  <2>11. RowsOK'
    <3>1. \A i \in DOMAIN log : log[i] \in turns /\ log[i].seq = i
      BY <2>5 DEF IInv, RowsOK, Conv!LogBackedByTurns
    <3>2. \A i \in DOMAIN new : new[i] \in turns /\ new[i].seq = i
      BY <2>3, <2>5, <2>9, <2>10, <3>1
    <3>3. Conv!LogBackedByTurns'
      BY <1>3, <2>9, <3>2 DEF Conv!LogBackedByTurns
    <3>4. QED
      BY <1>3, <2>7, <3>3 DEF IInv, RowsOK
  <2>12. \A e \in Entry : /\ Conv!Projected(session, e) => Conv!Projected(session, e)'
                          /\ Conv!Projected(session, e)' => Conv!Projected(session, e) \/ r.entry = e
    BY <2>3, <2>5, <2>9, <2>10 DEF Conv!Projected
  <2>13. Moves
    BY <1>3, <2>7, <2>12 DEF Moves
  <2>14. LogGrows
    <3>1. session'.log[Len(session'.log)] = t
      BY <2>9
    <3>2. session'.log = Append(session.log, t)
      BY <2>5, <2>7
    <3>3. QED
      BY <2>1, <2>3, <3>1, <3>2 DEF LogGrows
  <2>15. WrittenBy(r)
    BY <1>2, <1>3, <2>1, <2>12 DEF WrittenBy
  <2>16. Goes(c)
    <3>1. PICK e \in Entry : e = r.entry
      BY <2>2, <2>3 DEF Conv!Turn
    <3>2. Conv!Projected(session, e)'
      <4>1. Len(log) + 1 \in DOMAIN new
        BY <2>9
      <4>2. QED
        BY <2>3, <2>9, <3>1, <4>1 DEF Conv!Projected
    <3>3. QED
      BY <1>1, <2>4, <3>1, <3>2, Acknowledges
  <2>17. QED
    BY <1>1, <2>11, <2>13, <2>14, <2>15, <2>16 DEF Good
<1>5. CASE session.rev # r.read.rev
  <2>1. Conv!Fail(c, "conflict") /\ UNCHANGED session
    BY <1>1, <1>5 DEF Conv!CommitTurn
  <2>2. RequestOK(r)'
    BY <1>1, <1>3, <2>1, Known
  <2>3. Goes(c)
    BY <1>1, <1>2, <2>1, <2>2, Fails DEF Appending
  <2>4. QED
    BY <1>3, <2>1, <2>3, QuietIsGood
<1>6. QED
  BY <1>4, <1>5

LEMMA CommitPolicyIsGood ==
  ASSUME ScopesAreLists, IInv, NEW c \in Client, Conv!CommitPolicy(c)
  PROVE  Good(c)
<1>1. PICK r \in RequestType : r = req[c]
  BY DEF IInv
<1>2. /\ r.stage = "policy" /\ r.key \in Conv!ScopeKey /\ r.set \in Setting
      /\ SeenAs(r.key, r.seen)
  BY <1>1, Shapes DEF Conv!CommitPolicy, Conv!At, PolicyType, IInv, RequestOK
<1>3. UNCHANGED <<session, turns>> /\ policy \in Conv!Policies
  BY DEF Conv!CommitPolicy, IInv, RowsOK
<1>4. CASE policy[r.key].rev = r.seen.rev
  <2>1. policy' = [policy EXCEPT ![r.key] = [set |-> r.set, rev |-> @.rev + 1]]
    BY <1>1, <1>4 DEF Conv!CommitPolicy
  <2>2. policy' \in Conv!Policies
    BY <1>2, <1>3, <2>1 DEF Conv!Policies
  <2>3. /\ policy'[r.key].rev = policy[r.key].rev + 1 /\ policy[r.key].rev \in Nat
        /\ \A k \in Conv!ScopeKey : k # r.key => policy'[k] = policy[k]
    BY <1>2, <1>3, <2>1 DEF Conv!Policies
  <2>4. RowsOK'
    <3>1. \A k \in Conv!ScopeKey : policy'[k].rev = 0 => policy'[k].set = Conv!Ask
      BY <2>3 DEF IInv, RowsOK
    <3>2. QED
      BY <1>3, <2>2, <3>1 DEF IInv, RowsOK, Conv!LogBackedByTurns
  <2>5. Moves
    BY <1>3, <2>3 DEF Moves
  <2>6. LogGrows /\ WrittenBy(r)
    BY <1>2, <1>3, <1>4, <2>3 DEF LogGrows, WrittenBy, SeenAs, Conv!Projected
  <2>7. QED
    BY <1>1, <2>4, <2>5, <2>6, Replies DEF Good, Conv!CommitPolicy
<1>5. CASE policy[r.key].rev # r.seen.rev
  BY <1>1, <1>3, <1>5, Replies, QuietIsGood DEF Conv!CommitPolicy
<1>6. QED
  BY <1>4, <1>5

-----------------------------------------------------------------------------
(* What the runs check, for every value of the constants *)

LEMMA InitOK == ScopesAreLists /\ Conv!Init => IInv
<1> SUFFICES ASSUME ScopesAreLists, Conv!Init PROVE IInv
  OBVIOUS
<1>1. /\ session = Conv!NoSession /\ turns = {}
      /\ policy = [k \in Conv!ScopeKey |-> Conv!Unset]
      /\ req = [c \in Client |-> Conv!Idle("none", Conv!NoEntry)]
  BY DEF Conv!Init
<1>2. RowsOK
  BY <1>1, NothingRead DEF RowsOK, Conv!NoSession, Conv!LogBackedByTurns, Conv!Policies, Conv!Unset
<1>3. Conv!NoEntry \in Entry
  BY DEF Conv!NoEntry, ScopesAreLists
<1> DEFINE q == Conv!Idle("none", Conv!NoEntry)
<1>4. q \in RequestType /\ RequestOK(q)
  BY <1>3 DEF RequestType, IdleType, Conv!Idle, RequestOK, SyncStage, Appending
<1> HIDE DEF q
<1>5. req \in [Client -> RequestType] /\ \A c \in Client : RequestOK(req[c])
  BY <1>1, <1>4 DEF q
<1>6. QED
  BY <1>2, <1>5 DEF IInv

\* A row that no append is about to show is not shown.
LEMMA OrphansOfStep ==
  ASSUME IInv, NEW c \in Client, Good(c), NEW e \in Entry, Conv!Orphan(e)
  PROVE  Conv!Orphan(e)'
<1>1. PICK q \in RequestType :
        /\ req' = [req EXCEPT ![c] = q]
        /\ q.stage = "commit" => \A t \in turns : t.entry # q.entry
  BY DEF Good, Goes
<1>2. req'[c] = q /\ \A d \in Client : d # c => req'[d] = req[d]
  BY <1>1 DEF IInv
<1>3. \E t \in turns' : t.entry = e
  BY DEF Conv!Orphan, Good, Moves
<1>4. ~Conv!Projected(session, e)'
  BY DEF Conv!Orphan, Good, WrittenBy, Conv!At
<1>5. ~\E d \in Client : req'[d].stage = "commit" /\ req'[d].entry = e
  BY <1>1, <1>2 DEF Conv!Orphan, Conv!At
<1>6. QED
  BY <1>3, <1>4, <1>5 DEF Conv!Orphan, Conv!At

LEMMA StepOfClient ==
  ASSUME ScopesAreLists, IInv, NEW c \in Client, Good(c)
  PROVE  IInv'
<1>1. PICK q \in RequestType : req' = [req EXCEPT ![c] = q] /\ RequestOK(q)'
  BY DEF Good, Goes
<1>2. /\ req' \in [Client -> RequestType] /\ req'[c] = q
      /\ \A d \in Client : d # c => req'[d] = req[d]
  BY <1>1 DEF IInv
<1>3. RowsOK /\ RowsOK' /\ Moves
  BY DEF IInv, Good
<1>4. ASSUME NEW d \in Client PROVE RequestOK(req[d])'
  <2>1. PICK r \in RequestType : r = req'[d]
    BY <1>2
  <2>2. RequestOK(r)'
    <3>1. CASE d = c
      BY <1>1, <1>2, <2>1, <3>1
    <3>2. CASE d # c
      BY <1>2, <1>3, <2>1, <3>2, RequestStable DEF IInv
    <3>3. QED
      BY <3>1, <3>2
  <2>3. (RequestOK(r) /\ r = req[d])'
    BY <2>1, <2>2
  <2>4. QED
    BY <2>3
<1>5. QED
  BY <1>2, <1>3, <1>4 DEF IInv

SeenWritten ==
  /\ session.rev # 0 /\ session'.rev # session.rev =>
       \E c \in Client : req[c].stage \in {"update", "commit"} /\ req[c].read = session
  /\ \A k \in Conv!ScopeKey : policy'[k] # policy[k] =>
       \E c \in Client : Conv!At(c, "policy") /\ req[c].key = k /\ req[c].seen = policy[k]

Holds == IInv' /\ LogGrows /\ SeenWritten /\ \A e \in Entry : Conv!Orphan(e) => Conv!Orphan(e)'

LEMMA NextOK ==
  ASSUME ScopesAreLists, IInv, [Conv!Next]_(Conv!vars)
  PROVE  Holds
<1>1. CASE UNCHANGED Conv!vars
  <2>1. /\ session' = session /\ turns' = turns /\ policy' = policy /\ req' = req
    BY <1>1 DEF Conv!vars
  <2>2. RowsOK'
    BY <2>1 DEF IInv, RowsOK, Conv!LogBackedByTurns
  <2>3. ASSUME NEW c \in Client PROVE RequestOK(req[c])'
    <3>1. PICK r \in RequestType : r = req[c] /\ RequestOK(r)
      BY DEF IInv
    <3>2. RequestOK(r)'
      BY <2>1, <3>1, Known
    <3>3. (RequestOK(r) /\ r = req[c])'
      BY <2>1, <3>1, <3>2
    <3>4. QED
      BY <3>3
  <2>4. IInv'
    BY <2>1, <2>2, <2>3 DEF IInv
  <2>5. LogGrows /\ SeenWritten /\ \A e \in Entry : Conv!Orphan(e) => Conv!Orphan(e)'
    BY <2>1 DEF LogGrows, SeenWritten, Conv!Orphan, Conv!Projected, Conv!At
  <2>6. QED
    BY <2>4, <2>5 DEF Holds
<1>2. ASSUME NEW c \in Client, Conv!Step(c) \/ Conv!Begin(c) \/ Conv!Die(c)
      PROVE  Good(c)
  BY <1>2, CommitUpdateIsGood, ReadForAppendIsGood, InsertTurnIsGood, CommitTurnIsGood,
     LookupIsGood, RowsIsGood, LoadIsGood, GateIsGood, ReloadIsGood, CommitPolicyIsGood,
     CreateIsGood, BeginUpdateIsGood, BeginAppendIsGood, BeginSyncIsGood,
     BeginPolicyIsGood, DieIsGood, Zenon DEF Conv!Step, Conv!Begin
<1>3. ASSUME NEW c \in Client, Good(c)
      PROVE  Holds
  <2>1. IInv' /\ \A e \in Entry : Conv!Orphan(e) => Conv!Orphan(e)'
    BY <1>3, StepOfClient, OrphansOfStep
  <2>2. LogGrows /\ WrittenBy(req[c])
    BY <1>3 DEF Good
  <2>3. SeenWritten
    BY <2>2 DEF WrittenBy, SeenWritten, Conv!At
  <2>4. QED
    BY <2>1, <2>2, <2>3 DEF Holds
<1>4. QED
  BY <1>1, <1>2, <1>3, Zenon DEF Conv!Next, Conv!Work

LEMMA Implied == IInv => Conv!ConversationKept
<1> SUFFICES ASSUME IInv PROVE Conv!ConversationKept
  OBVIOUS
<1>1. Conv!TypeOK
  <2>1. RequestType \subseteq Conv!Request
    BY DEF RequestType, IdleType, UpdateType, PolicyType, AppendType, SyncType, Conv!Request,
           SyncStage, Appending, Conv!Stage
  <2>2. QED
    BY <2>1 DEF IInv, RowsOK, Conv!TypeOK
<1>2. Conv!LogBackedByTurns
  BY DEF IInv, RowsOK
<1>3. Conv!AcknowledgedIsLogged
  BY DEF IInv, RequestOK, Conv!AcknowledgedIsLogged
<1>4. ASSUME NEW c \in Client PROVE
        /\ req[c].stage \in Appending /\ req[c].sync => Honoured(req[c])
        /\ req[c].stage = "commit" /\ req[c].sync /\ req[c].read.rev = session.rev =>
             req[c].attempt = 1 \/ req[c].scope = session.scope
  <2>1. PICK r \in RequestType : r = req[c] /\ RequestOK(r)
    BY DEF IInv
  <2>2. r.stage \in Appending /\ r.sync => SyncOK(r) /\ r \in SyncType
    BY <2>1, Shapes DEF RequestOK, SyncStage
  <2>3. r.stage \in Appending /\ r.sync => Honoured(r)
    BY <2>2 DEF SyncOK, PastGate
  <2>4. r.stage = "commit" /\ r.sync /\ r.read.rev = session.rev =>
          r.attempt = 1 \/ r.scope = session.scope
    <3>1. SUFFICES ASSUME r.stage = "commit", r.sync, r.read.rev = session.rev, r.attempt # 1
          PROVE  r.scope = session.scope
      OBVIOUS
    <3>2. r.attempt = 0
      BY <2>2, <3>1 DEF SyncType, Appending
    <3>3. r.scope = r.read.scope /\ r.read = session
      BY <2>1, <2>2, <3>1, <3>2 DEF SyncOK, RequestOK, Current, Appending
    <3>4. QED
      BY <3>3
  <2>5. QED
    BY <2>1, <2>3, <2>4 DEF Honoured
<1>5. Conv!GateHonoured /\ Conv!GateOfThisScope
  BY <1>4 DEF Conv!GateHonoured, Conv!GateOfThisScope, Honoured, Appending
<1>6. QED
  BY <1>1, <1>2, <1>3, <1>5 DEF Conv!ConversationKept

\* For any number of concurrent appends, syncs, updates and policy changes: the
\* log shows only turns that have their rows, numbered by their places, what a
\* caller is told is synced is in the log, and no sync passes the gate that the
\* policy of its scopes closed.
THEOREM ConversationIsKept == ScopesAreLists /\ Conv!Spec => []ConversationKept
<1>1. ScopesAreLists /\ IInv /\ [Conv!Next]_(Conv!vars) => IInv'
  BY NextOK DEF Holds
<1> SUFFICES ASSUME ScopesAreLists PROVE Conv!Spec => []ConversationKept
  OBVIOUS
<1>2. Conv!Init => IInv
  BY InitOK
<1>3. QED
  BY <1>1, <1>2, Implied, PTL DEF ConversationKept, Conv!Spec

\* For any number of them: the log grows only at its end, while the conversation
\* is open and by its members; a row left by an append that lost is never shown;
\* and whoever changes a session or a policy has read what is replaced.
THEOREM ConversationMovesRight == ScopesAreLists /\ Conv!Spec => ConversationMoves
<1> SUFFICES ASSUME ScopesAreLists PROVE Conv!Spec => ConversationMoves
  OBVIOUS
<1>1. IInv /\ [Conv!Next]_(Conv!vars) => IInv'
  BY NextOK DEF Holds
<1>2. Conv!Init => IInv
  BY InitOK
<1>3. IInv /\ [Conv!Next]_(Conv!vars) =>
        [session.rev # 0 /\ session'.log # session.log =>
           LET last == session'.log[Len(session'.log)] IN
           /\ session'.log = Append(session.log, last)
           /\ Conv!Appendable(session)
           /\ Conv!IsMember(session, last.actor)]_(Conv!vars)
  BY NextOK DEF Holds, LogGrows
<1>4. IInv /\ [Conv!Next]_(Conv!vars) => [\A e \in Entry : Conv!Orphan(e) => Conv!Orphan(e)']_(Conv!vars)
  BY NextOK DEF Holds
<1>5. IInv /\ [Conv!Next]_(Conv!vars) =>
        [/\ session.rev # 0 /\ session'.rev # session.rev =>
              \E c \in Client : req[c].stage \in {"update", "commit"} /\ req[c].read = session
         /\ \A k \in Conv!ScopeKey : policy'[k] # policy[k] =>
              \E c \in Client : /\ Conv!At(c, "policy")
                                /\ req[c].key = k
                                /\ req[c].seen = policy[k]]_(Conv!vars)
  BY NextOK DEF Holds, SeenWritten
<1>6. QED
  BY <1>1, <1>2, <1>3, <1>4, <1>5, PTL
  DEF ConversationMoves, Conv!Spec, Conv!ConversationMoves, Conv!LogGrowsWhileOpen, Conv!OrphansStay, Conv!NothingOverwrittenUnseen
-----------------------------------------------------------------------------
(* Correspondence *)

MailPrint == [message: Mail!Message, text: Content \cup Mail!Outcome, to: SUBSET Mail!Recipient]
MailRow == {Mail!NoRow} \cup [stone: Nat, status: {"delivered", "read"}]

MailLookingType   == [stage: {"look", "stone"}, print: MailPrint]
MailDeliveryType  == [stage: {"deliver"}, print: MailPrint, stone: Nat]
MailMirroringType == [stage: {"mirror"}, stone: Nat, left: SUBSET Mail!Recipient]
MailPuttingType   == [stage: {"put"}, stone: Nat, left: SUBSET Mail!Recipient, to: Mail!Recipient]
MailRequestType   == [stage: {"idle", "read", "delegate"}] \cup MailLookingType \cup MailDeliveryType
                 \cup MailMirroringType \cup MailPuttingType

MailHasRow(m, r) == delivery[<<m, r>>] # Mail!NoRow
MailDelivered == \A p \in acked : \A r \in p.to : MailHasRow(p.message, r)

\* A delivery is of a stone that is there.
MailRowsOK == \A m \in Mail!Message, r \in Mail!Recipient : MailHasRow(m, r) => delivery[<<m, r>>].stone \in 1..Len(posted)

MailTablesOK == /\ posted \in Seq(MailPrint)
                /\ delivery \in [Mail!Message \X Mail!Recipient -> MailRow]
                /\ mirror \in [Mail!Recipient -> Nat]
                /\ acked \subseteq MailPrint /\ raced \subseteq Mail!Message
                /\ calls \in Nat /\ again \in Nat
                /\ MailRowsOK

\* Who mirrors a stone mirrors the one its recipients were delivered, unless
\* two sends raced.
MailRequestOK(q) ==
  /\ q.stage = "deliver" => q.stone \in 1..Len(posted) /\ posted[q.stone] = q.print
  /\ q.stage \in {"mirror", "put"} =>
       /\ q.stone \in 1..Len(posted)
       /\ "request" \notin raced => \A r \in q.left : MailHasRow("request", r) /\ delivery[<<"request", r>>].stone = q.stone
  /\ q.stage = "put" => q.to \in q.left
  /\ q.stage = "read" => MailHasRow("request", Mail!Worker)

\* Those that delegate, and who already did, are paid for by a tick that found
\* the request read, or by the one that found it delivered.
MailDelegating == {c \in Client : Mail!At(c, "delegate")}
MailPaid == again + (IF delivery[<<"request", Mail!Worker>>].status = "read" THEN 1 ELSE 0)
MailCountOK == IsFiniteSet(MailDelegating) /\ calls + Cardinality(MailDelegating) <= MailPaid

MailIInv == /\ MailTablesOK
            /\ MailDelivered /\ Mail!OneStoneUnlessRaced /\ Mail!MirrorsDelivery
            /\ mail \in [Client -> MailRequestType]
            /\ \A c \in Client : MailRequestOK(mail[c])
            /\ MailCountOK

\* Nothing that was made or delivered is taken back.
MailGrows == /\ Len(posted) <= Len(posted') /\ \A s \in 1..Len(posted) : posted'[s] = posted[s]
             /\ \A m \in Mail!Message, r \in Mail!Recipient :
                  /\ MailHasRow(m, r) => delivery'[<<m, r>>] # Mail!NoRow /\ delivery'[<<m, r>>].stone = delivery[<<m, r>>].stone
                  /\ delivery[<<m, r>>].status = "read" => delivery'[<<m, r>>].status = "read"
             /\ raced \subseteq raced'
-----------------------------------------------------------------------------
LEMMA MailNamed == "request" \in Mail!Message /\ "note" \in Mail!Message /\ "result" \in Mail!Message
               /\ Mail!Worker \in Mail!Recipient /\ Mail!Requester \in Mail!Recipient
               /\ (\A to \in Recipients : to \in SUBSET Mail!Recipient) /\ {Mail!Requester} \in SUBSET Mail!Recipient
BY DEF Mail!Message, Mail!Recipient, Mail!Worker, Mail!Requester

LEMMA MailKeptOK == ASSUME NEW q, MailRequestOK(q), MailGrows, MailTablesOK, q \in MailRequestType PROVE MailRequestOK(q)'
<1>1. q.stage \in {"mirror", "put"} => q.left \subseteq Mail!Recipient
  BY DEF MailRequestType, MailLookingType, MailDeliveryType, MailMirroringType, MailPuttingType
<1>2. Len(posted) \in Nat
  BY DEF MailTablesOK
<1>3. ASSUME q.stage = "deliver" PROVE q.stone \in 1..Len(posted') /\ posted'[q.stone] = q.print
  BY <1>2, <1>3 DEF MailRequestOK, MailGrows, MailTablesOK
<1>4. ASSUME q.stage \in {"mirror", "put"}
      PROVE /\ q.stone \in 1..Len(posted')
            /\ "request" \notin raced' => \A r \in q.left : MailHasRow("request", r)' /\ delivery'[<<"request", r>>].stone = q.stone
  BY <1>1, <1>2, <1>4, MailNamed DEF MailRequestOK, MailGrows, MailTablesOK, Mail!Exists, MailHasRow
<1>5. QED
  BY <1>3, <1>4, MailNamed DEF MailRequestOK, MailGrows, Mail!Exists, MailHasRow

\* A request goes on and the rest stand by.
LEMMA MailRequestsOK ==
  ASSUME MailIInv, MailGrows, NEW c \in Client, NEW q \in MailRequestType, Mail!Become(c, q), MailRequestOK(q)'
  PROVE  mail' \in [Client -> MailRequestType] /\ \A d \in Client : MailRequestOK(mail[d])'
<1>1. mail' = [mail EXCEPT ![c] = q] /\ mail \in [Client -> MailRequestType]
  BY DEF Mail!Become, MailIInv
<1>2. ASSUME NEW d \in Client PROVE MailRequestOK(mail[d])'
  <2>1. CASE d = c
    <3>1. mail'[d] = q
      BY <1>1, <2>1
    <3>2. QED
      BY <3>1 DEF MailRequestOK
  <2>2. CASE d # c
    <3>1. PICK r \in MailRequestType : r = mail[d]
      BY <1>1
    <3>2. MailRequestOK(r)'
      BY <3>1, MailKeptOK DEF MailIInv
    <3>3. mail'[d] = r
      BY <1>1, <2>2, <3>1
    <3>4. QED
      BY <3>2, <3>3 DEF MailRequestOK
  <2>3. QED
    BY <2>1, <2>2
<1>3. QED
  BY <1>1, <1>2

LEMMA MailCountStays ==
  ASSUME MailIInv, MailGrows, NEW c \in Client, NEW q \in MailRequestType, Mail!Become(c, q), q.stage # "delegate",
         UNCHANGED <<calls, again>>
  PROVE  MailCountOK'
<1>1. mail' = [mail EXCEPT ![c] = q] /\ mail \in [Client -> MailRequestType]
  BY DEF Mail!Become, MailIInv
<1>2. MailDelegating' \subseteq MailDelegating
  BY <1>1 DEF MailDelegating, Mail!At
<1>3. IsFiniteSet(MailDelegating') /\ Cardinality(MailDelegating') <= Cardinality(MailDelegating)
      /\ Cardinality(MailDelegating) \in Nat /\ Cardinality(MailDelegating') \in Nat
  BY <1>2, FS_Subset, FS_CardinalityType DEF MailIInv, MailCountOK
<1>4. MailPaid <= MailPaid'
  BY MailNamed DEF MailPaid, MailGrows, MailIInv, MailTablesOK
<1>5. MailPaid \in Nat /\ MailPaid' \in Nat
  BY DEF MailPaid, MailIInv, MailTablesOK
<1>6. QED
  BY <1>3, <1>4, <1>5 DEF MailCountOK, MailIInv, MailTablesOK

LEMMA MailIdleOK == Mail!Idle \in MailRequestType /\ Mail!Idle.stage # "delegate" /\ MailRequestOK(Mail!Idle)'
BY DEF Mail!Idle, MailRequestType, MailRequestOK

LEMMA MailTablesStay ==
  ASSUME MailIInv, UNCHANGED <<posted, delivery, mirror, acked, raced, calls, again>>
  PROVE  MailGrows /\ MailTablesOK' /\ MailDelivered' /\ Mail!OneStoneUnlessRaced' /\ Mail!MirrorsDelivery'
<1>1. Len(posted) \in Nat
  BY DEF MailIInv, MailTablesOK
<1>2. MailGrows
  BY <1>1 DEF MailGrows, Mail!Exists, MailHasRow
<1>3. MailTablesOK'
  BY DEF MailIInv, MailTablesOK, MailRowsOK, Mail!Exists, MailHasRow
<1>4. MailDelivered' /\ Mail!MirrorsDelivery'
  BY DEF MailIInv, MailDelivered, Mail!MirrorsDelivery, Mail!Exists, MailHasRow
<1>5. Mail!StonesOf(1)' = Mail!StonesOf(1) /\ \A m \in Mail!Message : Mail!StonesOf(m)' = Mail!StonesOf(m) /\ Mail!Rows(m)' = Mail!Rows(m)
  BY DEF Mail!StonesOf, Mail!Rows
<1>6. Mail!OneStoneUnlessRaced'
  BY <1>5 DEF MailIInv, Mail!OneStoneUnlessRaced
<1>7. QED
  BY <1>2, <1>3, <1>4, <1>6

\* A step of a request that leaves the tables alone.
LEMMA MailGoesOn ==
  ASSUME MailIInv, UNCHANGED <<posted, delivery, mirror, acked, raced, calls, again>>,
         NEW c \in Client, NEW q \in MailRequestType, Mail!Become(c, q), MailRequestOK(q)', q.stage # "delegate"
  PROVE  MailIInv' /\ MailGrows
<1>1. MailGrows /\ MailTablesOK' /\ MailDelivered' /\ Mail!OneStoneUnlessRaced' /\ Mail!MirrorsDelivery'
  BY MailTablesStay
<1>2. mail' \in [Client -> MailRequestType] /\ \A d \in Client : MailRequestOK(mail[d])'
  BY <1>1, MailRequestsOK
<1>3. MailCountOK'
  BY <1>1, MailCountStays
<1>4. QED
  BY <1>1, <1>2, <1>3 DEF MailIInv

LEMMA MailAfterOK ==
  ASSUME NEW c \in Client, NEW p \in MailPrint, NEW s \in 1..Len(posted'), Mail!After(c, p, s),
         p.message = "request" /\ "request" \notin raced' =>
           \A r \in p.to : MailHasRow("request", r)' /\ delivery'[<<"request", r>>].stone = s,
         MailTablesOK'
  PROVE  \E q \in MailRequestType : Mail!Become(c, q) /\ MailRequestOK(q)' /\ q.stage # "delegate"
<1>1. CASE p.text \in Handoff /\ p.message = "request"
  <2> DEFINE q == [stage |-> "mirror", stone |-> s, left |-> p.to]
  <2>1. Mail!Become(c, q)
    BY <1>1 DEF Mail!After
  <2>2. s \in Nat
    BY DEF MailTablesOK
  <2>3. q \in MailRequestType
    BY <2>2 DEF MailRequestType, MailMirroringType, MailPrint
  <2>4. MailRequestOK(q)'
    BY <1>1 DEF MailRequestOK
  <2>5. QED
    BY <2>1, <2>3, <2>4
<1>2. CASE ~(p.text \in Handoff /\ p.message = "request")
  BY <1>2, MailIdleOK DEF Mail!After, Mail!Reply
<1>3. QED
  BY <1>1, <1>2

\* Which kind of request is at a stage.
LEMMA MailKinds ==
  ASSUME NEW q \in MailRequestType
  PROVE  /\ q.stage \in {"look", "stone"} => q \in MailLookingType
         /\ q.stage = "deliver" => q \in MailDeliveryType
         /\ q.stage = "mirror" => q \in MailMirroringType
         /\ q.stage = "put" => q \in MailPuttingType
BY DEF MailRequestType, MailLookingType, MailDeliveryType, MailMirroringType, MailPuttingType

LEMMA MailContractOK ==
  ASSUME NEW m \in Mail!Message, NEW t \in Content \cup Mail!Outcome, NEW to \in SUBSET Mail!Recipient
  PROVE  /\ [stage |-> "look", print |-> Mail!Contract(m, t, to)] \in MailRequestType
         /\ MailRequestOK([stage |-> "look", print |-> Mail!Contract(m, t, to)])'
BY DEF Mail!Contract, MailRequestType, MailLookingType, MailPrint, MailRequestOK

LEMMA MailBeginOK == ASSUME MailIInv, NEW c \in Client, Mail!BeginSend(c) \/ Mail!BeginNote(c) PROVE MailIInv' /\ MailGrows
<1>1. PICK m \in Mail!Message, t \in Content \cup Mail!Outcome, to \in SUBSET Mail!Recipient :
        Mail!Become(c, [stage |-> "look", print |-> Mail!Contract(m, t, to)])
  BY MailNamed, Zenon DEF Mail!BeginSend, Mail!BeginNote
<1>2. QED
  BY <1>1, MailContractOK, MailGoesOn DEF Mail!BeginSend, Mail!BeginNote

LEMMA MailLookOK == ASSUME MailIInv, NEW c \in Client, Mail!Look(c) PROVE MailIInv' /\ MailGrows
<1>1. PICK q \in MailLookingType : q = mail[c] /\ q.stage = "look"
  BY MailKinds DEF MailIInv, Mail!Look, Mail!At
<1>2. PICK p \in MailPrint : p = q.print
  BY <1>1 DEF MailLookingType
<1>3. CASE Mail!Rows(p.message) = {}
  <2>1. Mail!Become(c, [stage |-> "stone", print |-> p]) /\ UNCHANGED acked
    BY <1>1, <1>2, <1>3, Zenon DEF Mail!Look
  <2>2. [stage |-> "stone", print |-> p] \in MailRequestType /\ MailRequestOK([stage |-> "stone", print |-> p])'
    BY DEF MailRequestType, MailLookingType, MailRequestOK
  <2>3. QED
    BY <2>1, <2>2, MailGoesOn DEF Mail!Look
<1>4. CASE Mail!Rows(p.message) # {} /\ Mail!Replays(p)
  <2>1. acked' = acked \cup {p} /\ \E s \in Mail!StonesOf(p.message) : Mail!After(c, p, s)
    BY <1>1, <1>2, <1>4, Zenon DEF Mail!Look
  <2>2. PICK s \in Mail!StonesOf(p.message) : Mail!After(c, p, s)
    BY <2>1
  <2>3. p.message \in Mail!Message /\ Mail!Rows(p.message) = p.to /\ p.to \in SUBSET Mail!Recipient
    BY <1>4 DEF Mail!Replays, MailPrint
  <2>4. Cardinality(Mail!StonesOf(p.message)) = 1
    BY <1>4 DEF Mail!Replays, Cardinality, Mail!Cardinality
  <2>5. Mail!StonesOf(p.message) \subseteq 1..Len(posted) /\ IsFiniteSet(1..Len(posted))
    <3>1. Len(posted) \in Nat
      BY DEF MailIInv, MailTablesOK
    <3>2. Mail!StonesOf(p.message) \subseteq 1..Len(posted)
      BY <2>3 DEF MailIInv, MailTablesOK, MailRowsOK, Mail!StonesOf, Mail!Rows, Mail!Exists,
         MailHasRow
    <3>3. QED
      BY <3>1, <3>2, FS_Interval
  <2>6. Mail!StonesOf(p.message) = {s}
    <3>1. IsFiniteSet(Mail!StonesOf(p.message))
      BY <2>5, FS_Subset
    <3>2. QED
      BY <2>4, <3>1, FS_Singleton
  <2>7. \A r \in p.to : MailHasRow(p.message, r) /\ delivery[<<p.message, r>>].stone = s
    BY <2>3, <2>6 DEF Mail!StonesOf, Mail!Rows, Mail!Exists, MailHasRow
  <2>8. UNCHANGED <<posted, delivery, mirror, raced, calls, again>>
    BY DEF Mail!Look
  <2>9. MailGrows
    <3>1. Len(posted) \in Nat
      BY DEF MailIInv, MailTablesOK
    <3>2. QED
      BY <2>8, <3>1 DEF MailGrows, Mail!Exists, MailHasRow
  <2>10. MailTablesOK' /\ MailDelivered' /\ Mail!MirrorsDelivery'
    <3>1. MailTablesOK'
      BY <2>1, <2>8 DEF MailIInv, MailTablesOK, MailRowsOK, Mail!Exists, MailHasRow
    <3>2. MailDelivered'
      BY <2>1, <2>7, <2>8 DEF MailIInv, MailDelivered, Mail!Exists, MailHasRow
    <3>3. Mail!MirrorsDelivery'
      BY <2>8 DEF MailIInv, Mail!MirrorsDelivery
    <3>4. QED
      BY <3>1, <3>2, <3>3
  <2>11. Mail!OneStoneUnlessRaced'
    <3>1. \A m \in Mail!Message : Mail!StonesOf(m)' = Mail!StonesOf(m) /\ Mail!Rows(m)' = Mail!Rows(m)
      BY <2>8 DEF Mail!StonesOf, Mail!Rows
    <3>2. QED
      BY <2>8, <3>1 DEF MailIInv, Mail!OneStoneUnlessRaced
  <2>12. PICK n \in MailRequestType : Mail!Become(c, n) /\ MailRequestOK(n)' /\ n.stage # "delegate"
    <3>1. s \in 1..Len(posted')
      BY <2>5, <2>8
    <3>2. p.message = "request" /\ "request" \notin raced' =>
            \A r \in p.to : MailHasRow("request", r)' /\ delivery'[<<"request", r>>].stone = s
      BY <2>7, <2>8 DEF Mail!Exists, MailHasRow
    <3>3. QED
      BY <2>2, <2>10, <3>1, <3>2, MailAfterOK
  <2>13. QED
    BY <2>8, <2>9, <2>10, <2>11, <2>12, MailRequestsOK, MailCountStays DEF MailIInv
<1>5. CASE Mail!Rows(p.message) # {} /\ ~Mail!Replays(p)
  <2>1. Mail!Reply(c) /\ UNCHANGED acked
    BY <1>1, <1>2, <1>5, Zenon DEF Mail!Look
  <2>2. QED
    BY <2>1, MailIdleOK, MailGoesOn DEF Mail!Look, Mail!Reply
<1>6. QED
  BY <1>3, <1>4, <1>5

LEMMA MailMakeStoneOK == ASSUME MailIInv, NEW c \in Client, Mail!MakeStone(c) PROVE MailIInv' /\ MailGrows
<1>1. PICK q \in MailLookingType : q = mail[c] /\ q.stage = "stone"
  BY MailKinds DEF MailIInv, Mail!MakeStone, Mail!At
<1>2. PICK p \in MailPrint : p = q.print
  BY <1>1 DEF MailLookingType
<1>3. CASE Mail!Reply(c) /\ UNCHANGED posted
  BY <1>3, MailIdleOK, MailGoesOn DEF Mail!MakeStone, Mail!Reply
<1>4. CASE /\ posted' = Append(posted, p)
           /\ Mail!Become(c, [stage |-> "deliver", print |-> p, stone |-> Len(posted) + 1])
  <2>0. PICK t \in Nat : t = Len(posted) + 1
    BY DEF MailIInv, MailTablesOK
  <2> DEFINE n == [stage |-> "deliver", print |-> p, stone |-> t]
  <2>1. /\ posted \in Seq(MailPrint) /\ Len(posted) \in Nat /\ posted' \in Seq(MailPrint)
        /\ Len(posted') = t
        /\ posted'[t] = p /\ \A s \in 1..Len(posted) : posted'[s] = posted[s]
    BY <1>4, <2>0 DEF MailIInv, MailTablesOK
  <2>2. UNCHANGED <<delivery, mirror, acked, raced, calls, again>>
    BY DEF Mail!MakeStone
  <2>3. MailGrows
    BY <2>0, <2>1, <2>2 DEF MailGrows, Mail!Exists, MailHasRow
  <2>4. MailTablesOK'
    BY <2>0, <2>1, <2>2 DEF MailIInv, MailTablesOK, MailRowsOK, Mail!Exists, MailHasRow
  <2>5. MailDelivered' /\ Mail!MirrorsDelivery'
    BY <2>2 DEF MailIInv, MailDelivered, Mail!MirrorsDelivery, Mail!Exists, MailHasRow
  <2>6. Mail!OneStoneUnlessRaced'
    <3>1. \A m \in Mail!Message : Mail!StonesOf(m)' = Mail!StonesOf(m) /\ Mail!Rows(m)' = Mail!Rows(m)
      BY <2>2 DEF Mail!StonesOf, Mail!Rows
    <3>2. \A m \in Mail!Message : Mail!StonesOf(m) \subseteq 1..Len(posted)
      BY DEF MailIInv, MailTablesOK, MailRowsOK, Mail!StonesOf, Mail!Rows, Mail!Exists, MailHasRow
    <3>3. QED
      BY <2>1, <2>2, <3>1, <3>2 DEF MailIInv, Mail!OneStoneUnlessRaced
  <2>7. n \in MailRequestType /\ n.stage # "delegate"
    BY <2>1 DEF MailRequestType, MailDeliveryType
  <2>8. MailRequestOK(n)'
    <3>1. t \in 1..Len(posted')
      BY <2>0, <2>1
    <3>2. n.stage = "deliver" /\ n.stone = t /\ n.print = p
      OBVIOUS
    <3> HIDE DEF n
    <3>3. QED
      BY <2>1, <3>1, <3>2 DEF MailRequestOK
  <2>9. Mail!Become(c, n)
    BY <1>4, <2>0
  <2> HIDE DEF n
  <2>10. QED
    BY <2>2, <2>3, <2>4, <2>5, <2>6, <2>7, <2>8, <2>9, MailRequestsOK, MailCountStays DEF MailIInv
<1>5. QED
  BY <1>1, <1>2, <1>3, <1>4, Zenon DEF Mail!MakeStone

LEMMA MailDeliverOK == ASSUME MailIInv, NEW c \in Client, Mail!Deliver(c) PROVE MailIInv' /\ MailGrows
<1>1. PICK q \in MailDeliveryType : q = mail[c] /\ q.stage = "deliver"
  BY MailKinds DEF MailIInv, Mail!Deliver, Mail!At
<1>2. PICK p \in MailPrint : p = q.print
  BY <1>1 DEF MailDeliveryType
<1>3. PICK s \in 1..Len(posted) : s = q.stone /\ posted[s] = p
  BY <1>1, <1>2 DEF MailIInv, MailRequestOK
<1>4. /\ delivery' = [k \in DOMAIN delivery |->
            IF k[1] = p.message /\ k[2] \in p.to /\ delivery[k] = Mail!NoRow
            THEN [stone |-> s, status |-> "delivered"] ELSE delivery[k]]
      /\ raced' = IF Mail!Rows(p.message) = {} THEN raced ELSE raced \cup {p.message}
      /\ acked' = acked \cup {p}
      /\ Mail!After(c, p, s)
      /\ UNCHANGED <<posted, mirror, calls, again>>
  BY <1>1, <1>2, <1>3, Zenon DEF Mail!Deliver
<1>5. delivery \in [Mail!Message \X Mail!Recipient -> MailRow] /\ p.message \in Mail!Message /\ p.to \in SUBSET Mail!Recipient
      /\ Len(posted) \in Nat /\ posted \in Seq(MailPrint) /\ s \in Nat
  BY DEF MailIInv, MailTablesOK, MailPrint
<1>6. \A m \in Mail!Message, r \in Mail!Recipient :
        delivery'[<<m, r>>] = IF m = p.message /\ r \in p.to /\ delivery[<<m, r>>] = Mail!NoRow
                              THEN [stone |-> s, status |-> "delivered"] ELSE delivery[<<m, r>>]
  BY <1>4, <1>5
<1>7. [stone |-> s, status |-> "delivered"] \in MailRow /\ [stone |-> s, status |-> "delivered"] # Mail!NoRow
      /\ Mail!NoRow \in MailRow /\ Mail!NoRow.status = "none"
  BY <1>5 DEF MailRow, Mail!NoRow
<1>8. delivery' \in [Mail!Message \X Mail!Recipient -> MailRow]
  BY <1>4, <1>5, <1>7
<1>9. \A m \in Mail!Message, r \in Mail!Recipient :
        MailHasRow(m, r)' <=> MailHasRow(m, r) \/ (m = p.message /\ r \in p.to)
  BY <1>6, <1>7 DEF Mail!Exists, MailHasRow
<1>10. \A m \in Mail!Message, r \in Mail!Recipient : MailHasRow(m, r) => delivery'[<<m, r>>] = delivery[<<m, r>>]
  BY <1>6 DEF Mail!Exists, MailHasRow
<1>11. \A m \in Mail!Message, r \in Mail!Recipient : ~MailHasRow(m, r) /\ MailHasRow(m, r)' =>
         m = p.message /\ r \in p.to /\ delivery'[<<m, r>>].stone = s
  BY <1>6 DEF Mail!Exists, MailHasRow
<1>12. MailGrows
  BY <1>4, <1>5, <1>7, <1>9, <1>10 DEF MailGrows, Mail!Exists, MailHasRow
<1>13. MailTablesOK'
  <2>1. MailRowsOK'
    BY <1>4, <1>10, <1>11, <1>5 DEF MailIInv, MailTablesOK, MailRowsOK
  <2>2. QED
    BY <1>4, <1>5, <1>8, <2>1 DEF MailIInv, MailTablesOK
<1>14. MailDelivered'
  BY <1>4, <1>5, <1>9 DEF MailIInv, MailTablesOK, MailDelivered, MailPrint
<1>15. \A m \in Mail!Message : m # p.message => Mail!StonesOf(m)' = Mail!StonesOf(m) /\ Mail!Rows(m)' = Mail!Rows(m)
  BY <1>6, Zenon DEF Mail!StonesOf, Mail!Rows
<1>16. Mail!Rows(p.message) = {} => /\ Mail!Rows(p.message)' = p.to
                                    /\ \A r \in p.to : delivery'[<<p.message, r>>].stone = s
  BY <1>5, <1>9, <1>11 DEF Mail!Rows, Mail!Exists, MailHasRow
<1>17. Mail!Rows(p.message) = {} => \A x \in Mail!StonesOf(p.message)' : Mail!StonesOf(p.message)' = {x} /\ x = s
  BY <1>16 DEF Mail!StonesOf
<1>18. Mail!OneStoneUnlessRaced'
  <2>1. ASSUME NEW m \in Mail!Message \ raced', NEW x \in Mail!StonesOf(m)'
        PROVE  Mail!StonesOf(m)' = {x} /\ Mail!Rows(m)' = posted[x].to
    <3>1. CASE m = p.message
      <4>1. Mail!Rows(p.message) = {}
        BY <1>4, <2>1, <3>1
      <4>2. QED
        BY <1>3, <1>16, <1>17, <2>1, <3>1, <4>1
    <3>2. CASE m # p.message
      <4>1. Mail!StonesOf(m)' = Mail!StonesOf(m) /\ Mail!Rows(m)' = Mail!Rows(m) /\ m \in Mail!Message \ raced
        BY <1>4, <1>15, <3>2
      <4>2. QED
        BY <2>1, <4>1 DEF MailIInv, Mail!OneStoneUnlessRaced
    <3>3. QED
      BY <3>1, <3>2
  <2>2. QED
    BY <1>4, <2>1 DEF Mail!OneStoneUnlessRaced
<1>19. Mail!MirrorsDelivery'
  <2>1. \A r \in Mail!Recipient : mirror[r] # 0 /\ "request" \notin raced =>
          delivery[<<"request", r>>].stone = mirror[r] /\ MailHasRow("request", r)
    BY MailNamed DEF MailIInv, Mail!MirrorsDelivery, Mail!Exists, MailHasRow, Mail!NoRow
  <2>2. raced \subseteq raced'
    BY <1>4
  <2>3. QED
    BY <1>4, <1>10, <2>1, <2>2, MailNamed DEF Mail!MirrorsDelivery
<1>20. PICK n \in MailRequestType : Mail!Become(c, n) /\ MailRequestOK(n)' /\ n.stage # "delegate"
  <2>1. s \in 1..Len(posted')
    BY <1>4
  <2>2. p.message = "request" /\ "request" \notin raced' =>
          \A r \in p.to : MailHasRow("request", r)' /\ delivery'[<<"request", r>>].stone = s
    BY <1>4, <1>5, <1>9, <1>16
  <2>3. QED
    BY <1>4, <1>13, <2>1, <2>2, MailAfterOK
<1>21. QED
  BY <1>4, <1>12, <1>13, <1>14, <1>18, <1>19, <1>20, MailRequestsOK, MailCountStays DEF MailIInv

LEMMA MailMirrorNextOK ==
  ASSUME MailIInv, MailGrows, MailTablesOK', NEW c \in Client, Mail!At(c, "mirror") \/ Mail!At(c, "put"),
         NEW r \in mail[c].left, Mail!MirrorNext(c, r)
  PROVE  \E n \in MailRequestType : Mail!Become(c, n) /\ MailRequestOK(n)' /\ n.stage # "delegate"
<1>1. PICK q \in MailMirroringType \cup MailPuttingType : q = mail[c]
  BY MailKinds DEF MailIInv, Mail!At
<1>2. q \in MailRequestType /\ MailRequestOK(q)'
  BY <1>1, MailKeptOK DEF MailIInv, MailRequestType
<1>3. q.stage \in {"mirror", "put"} /\ q.stone \in Nat /\ q.left \in SUBSET Mail!Recipient
  BY <1>1 DEF MailMirroringType, MailPuttingType
<1>4. CASE q.left = {r}
  BY <1>1, <1>4, MailIdleOK DEF Mail!MirrorNext, Mail!Reply
<1>5. CASE q.left # {r}
  <2> DEFINE n == [stage |-> "mirror", stone |-> q.stone, left |-> q.left \ {r}]
  <2>1. Mail!Become(c, n)
    BY <1>1, <1>5 DEF Mail!MirrorNext
  <2>2. n \in MailRequestType
    BY <1>3 DEF MailRequestType, MailMirroringType
  <2>3. MailRequestOK(n)'
    BY <1>2, <1>3 DEF MailRequestOK
  <2>4. QED
    BY <2>1, <2>2, <2>3
<1>6. QED
  BY <1>4, <1>5

LEMMA MailMirrorLookupOK == ASSUME MailIInv, NEW c \in Client, Mail!MirrorLookup(c) PROVE MailIInv' /\ MailGrows
<1>1. PICK q \in MailMirroringType : q = mail[c] /\ q.stage = "mirror"
  BY MailKinds DEF MailIInv, Mail!MirrorLookup, Mail!At
<1>2. PICK r \in q.left : \/ Mail!MirrorNext(c, r)
                          \/ Mail!Become(c, [stage |-> "put", stone |-> q.stone, left |-> q.left, to |-> r])
  BY <1>1, Zenon DEF Mail!MirrorLookup
<1>3. MailGrows /\ MailTablesOK' /\ UNCHANGED <<posted, delivery, mirror, acked, raced, calls, again>>
  BY MailTablesStay DEF Mail!MirrorLookup
<1>4. CASE Mail!MirrorNext(c, r)
  <2>1. PICK n \in MailRequestType : Mail!Become(c, n) /\ MailRequestOK(n)' /\ n.stage # "delegate"
    BY <1>1, <1>2, <1>3, <1>4, MailMirrorNextOK DEF Mail!At
  <2>2. QED
    BY <1>3, <2>1, MailGoesOn
<1>5. CASE Mail!Become(c, [stage |-> "put", stone |-> q.stone, left |-> q.left, to |-> r])
  <2> DEFINE n == [stage |-> "put", stone |-> q.stone, left |-> q.left, to |-> r]
  <2>1. q \in MailRequestType /\ MailRequestOK(q)'
    BY <1>1, <1>3, MailKeptOK DEF MailIInv, MailRequestType
  <2>2. q.stone \in Nat /\ q.left \in SUBSET Mail!Recipient /\ r \in Mail!Recipient
    BY <1>2 DEF MailMirroringType
  <2>3. n \in MailRequestType
    BY <2>2 DEF MailRequestType, MailPuttingType
  <2>4. MailRequestOK(n)'
    BY <1>1, <1>2, <2>1 DEF MailRequestOK
  <2>5. n.stage # "delegate" /\ Mail!Become(c, n)
    BY <1>5
  <2> HIDE DEF n
  <2>6. QED
    BY <1>3, <2>3, <2>4, <2>5, MailGoesOn
<1>6. QED
  BY <1>2, <1>4, <1>5

LEMMA MailMirrorPutOK == ASSUME MailIInv, NEW c \in Client, Mail!MirrorPut(c) PROVE MailIInv' /\ MailGrows
<1>1. PICK q \in MailPuttingType : q = mail[c] /\ q.stage = "put"
  BY MailKinds DEF MailIInv, Mail!MirrorPut, Mail!At
<1>2. q.to \in q.left /\ q.to \in Mail!Recipient /\ q.stone \in 1..Len(posted)
      /\ ("request" \notin raced => delivery[<<"request", q.to>>].stone = q.stone)
  BY <1>1 DEF MailIInv, MailRequestOK, MailPuttingType
<1>3. UNCHANGED <<posted, delivery, acked, raced, calls, again>>
  BY DEF Mail!MirrorPut
<1>4. UNCHANGED mirror \/ mirror' = [mirror EXCEPT ![q.to] = q.stone]
  BY <1>1 DEF Mail!MirrorPut
<1>5. Len(posted) \in Nat /\ mirror \in [Mail!Recipient -> Nat]
  BY DEF MailIInv, MailTablesOK
<1>6. MailGrows
  BY <1>3, <1>5 DEF MailGrows, Mail!Exists, MailHasRow
<1>7. mirror' \in [Mail!Recipient -> Nat]
  BY <1>2, <1>4, <1>5
<1>8. MailTablesOK'
  BY <1>3, <1>7 DEF MailIInv, MailTablesOK, MailRowsOK, Mail!Exists, MailHasRow
<1>9. MailDelivered'
  BY <1>3 DEF MailIInv, MailDelivered, Mail!Exists, MailHasRow
<1>10. Mail!OneStoneUnlessRaced'
  <2>1. \A m \in Mail!Message : Mail!StonesOf(m)' = Mail!StonesOf(m) /\ Mail!Rows(m)' = Mail!Rows(m)
    BY <1>3 DEF Mail!StonesOf, Mail!Rows
  <2>2. QED
    BY <1>3, <2>1 DEF MailIInv, Mail!OneStoneUnlessRaced
<1>11. Mail!MirrorsDelivery'
  BY <1>2, <1>3, <1>4, <1>5 DEF MailIInv, Mail!MirrorsDelivery
<1>12. PICK n \in MailRequestType : Mail!Become(c, n) /\ MailRequestOK(n)' /\ n.stage # "delegate"
  <2>1. Mail!MirrorNext(c, q.to) /\ q.to \in mail[c].left
    BY <1>1, <1>2 DEF Mail!MirrorPut
  <2>2. QED
    BY <1>1, <1>6, <1>8, <2>1, MailMirrorNextOK DEF Mail!At
<1>13. QED
  BY <1>3, <1>6, <1>8, <1>9, <1>10, <1>11, <1>12, MailRequestsOK, MailCountStays DEF MailIInv

\* A row is marked as read.
LEMMA MailMarkedOK ==
  ASSUME MailIInv, NEW k \in Mail!Message \X Mail!Recipient, delivery' = [delivery EXCEPT ![k] = Mail!MarkRead(@)],
         delivery[k] # Mail!NoRow,
         UNCHANGED <<posted, mirror, acked, raced, calls>>, again' \in Nat, again <= again'
  PROVE  /\ MailGrows /\ MailTablesOK' /\ MailDelivered' /\ Mail!OneStoneUnlessRaced' /\ Mail!MirrorsDelivery'
         /\ delivery'[k].status = "read"
<1>1. delivery \in [Mail!Message \X Mail!Recipient -> MailRow] /\ Len(posted) \in Nat
  BY DEF MailIInv, MailTablesOK
<1>2. PICK d \in [stone: Nat, status: {"delivered", "read"}] : d = delivery[k]
  BY <1>1 DEF MailRow
<1>3. Mail!MarkRead(d) \in [stone: Nat, status: {"read"}] /\ Mail!MarkRead(d).stone = d.stone
  BY DEF Mail!MarkRead
<1>4. delivery' \in [Mail!Message \X Mail!Recipient -> MailRow]
  BY <1>1, <1>2, <1>3 DEF MailRow
<1>5. delivery'[k].status = "read"
  BY <1>1, <1>2, <1>3
<1>6. \A j \in Mail!Message \X Mail!Recipient :
        /\ delivery[j] # Mail!NoRow <=> delivery'[j] # Mail!NoRow
        /\ delivery'[j].stone = delivery[j].stone
        /\ delivery[j].status = "read" => delivery'[j].status = "read"
  BY <1>1, <1>2, <1>3 DEF Mail!NoRow
<1>7. \A m \in Mail!Message, r \in Mail!Recipient :
        /\ MailHasRow(m, r) <=> MailHasRow(m, r)'
        /\ delivery'[<<m, r>>].stone = delivery[<<m, r>>].stone
        /\ delivery[<<m, r>>].status = "read" => delivery'[<<m, r>>].status = "read"
  BY <1>6 DEF Mail!Exists, MailHasRow
<1>8. MailGrows
  BY <1>1, <1>7 DEF MailGrows, Mail!Exists, MailHasRow
<1>9. MailTablesOK'
  BY <1>4, <1>7 DEF MailIInv, MailTablesOK, MailRowsOK
<1>10. MailDelivered'
  BY <1>7 DEF MailIInv, MailTablesOK, MailDelivered, MailPrint
<1>11. Mail!MirrorsDelivery'
  BY <1>7, MailNamed DEF MailIInv, Mail!MirrorsDelivery
<1>12. \A m \in Mail!Message : Mail!Rows(m)' = Mail!Rows(m) /\ Mail!StonesOf(m)' = Mail!StonesOf(m)
  <2>1. ASSUME NEW m \in Mail!Message PROVE Mail!Rows(m)' = Mail!Rows(m)
    BY <1>7 DEF Mail!Rows, Mail!Exists, MailHasRow
  <2>2. ASSUME NEW m \in Mail!Message PROVE Mail!StonesOf(m)' = Mail!StonesOf(m)
    BY <1>7, <2>1 DEF Mail!StonesOf, Mail!Rows
  <2>3. QED
    BY <2>1, <2>2
<1>13. Mail!OneStoneUnlessRaced'
  BY <1>12 DEF MailIInv, Mail!OneStoneUnlessRaced
<1>14. QED
  BY <1>5, <1>8, <1>9, <1>10, <1>11, <1>13

LEMMA MailReadMessageOK == ASSUME MailIInv, Mail!ReadMessage PROVE MailIInv' /\ MailGrows
<1>1. PICK k \in Mail!Message \X Mail!Recipient :
        /\ delivery[k] # Mail!NoRow
        /\ delivery' = [delivery EXCEPT ![k] = Mail!MarkRead(@)]
        /\ UNCHANGED <<posted, mirror, acked, raced, calls, again, mail>>
  BY DEF Mail!ReadMessage, MailIInv, MailTablesOK
<1>2. /\ MailGrows /\ MailTablesOK' /\ MailDelivered' /\ Mail!OneStoneUnlessRaced' /\ Mail!MirrorsDelivery'
  <2>1. again' \in Nat /\ again <= again'
    BY <1>1 DEF MailIInv, MailTablesOK
  <2>2. QED
    BY <1>1, <2>1, MailMarkedOK
<1>3. ASSUME NEW d \in Client PROVE MailRequestOK(mail[d])'
  <2>1. PICK r \in MailRequestType : r = mail[d]
    BY DEF MailIInv
  <2>2. MailRequestOK(r)'
    BY <1>2, <2>1, MailKeptOK DEF MailIInv
  <2>3. mail'[d] = r
    BY <1>1, <2>1
  <2>4. QED
    BY <2>2, <2>3 DEF MailRequestOK
<1>4. MailCountOK'
  <2>1. MailDelegating' = MailDelegating
    BY <1>1 DEF MailDelegating, Mail!At
  <2>2. MailPaid <= MailPaid' /\ MailPaid \in Nat /\ MailPaid' \in Nat
    BY <1>1, <1>2, MailNamed DEF MailPaid, MailGrows, MailIInv, MailTablesOK
  <2>3. Cardinality(MailDelegating) \in Nat /\ calls \in Nat
    BY FS_CardinalityType DEF MailIInv, MailCountOK, MailTablesOK
  <2>4. QED
    BY <1>1, <2>1, <2>2, <2>3 DEF MailIInv, MailCountOK
<1>5. QED
  BY <1>1, <1>2, <1>3, <1>4 DEF MailIInv

LEMMA MailPickTaskOK == ASSUME MailIInv, NEW c \in Client, Mail!PickTask(c) PROVE MailIInv' /\ MailGrows
<1>1. Mail!Become(c, [stage |-> "read"]) /\ MailHasRow("request", Mail!Worker)
      /\ UNCHANGED <<posted, delivery, mirror, acked, raced, calls, again>>
  BY DEF Mail!PickTask, Mail!Exists, MailHasRow
<1>2. [stage |-> "read"] \in MailRequestType /\ MailRequestOK([stage |-> "read"])'
  BY <1>1 DEF MailRequestType, MailRequestOK, Mail!Exists, MailHasRow
<1>3. QED
  BY <1>1, <1>2, MailGoesOn

\* The tick that found the request delivered, or one more that found it read.
LEMMA MailReadTaskOK == ASSUME MailIInv, NEW c \in Client, Mail!ReadTask(c) PROVE MailIInv' /\ MailGrows
<1> DEFINE k == <<"request", Mail!Worker>>
<1>1. PICK q \in MailRequestType : q = mail[c] /\ q.stage = "read"
  BY DEF MailIInv, Mail!ReadTask, Mail!At
<1>2. delivery[k] # Mail!NoRow /\ k \in Mail!Message \X Mail!Recipient
  BY <1>1, MailNamed DEF MailIInv, MailRequestOK, Mail!Exists, MailHasRow
<1>3. /\ delivery' = [delivery EXCEPT ![k] = Mail!MarkRead(@)]
      /\ UNCHANGED <<posted, mirror, acked, raced, calls>>
      /\ again' = IF delivery[k].status = "read" THEN again + 1 ELSE again
  BY DEF Mail!ReadTask
<1>4. again' \in Nat /\ again <= again' /\ again \in Nat /\ calls \in Nat
  BY <1>3 DEF MailIInv, MailTablesOK
<1>5. /\ MailGrows /\ MailTablesOK' /\ MailDelivered' /\ Mail!OneStoneUnlessRaced' /\ Mail!MirrorsDelivery'
      /\ delivery'[k].status = "read"
  BY <1>2, <1>3, <1>4, MailMarkedOK
<1>6. MailPaid' = MailPaid + 1
  BY <1>3, <1>4, <1>5 DEF MailPaid
<1>7. PICK n \in {Mail!Idle, [stage |-> "delegate"]} : Mail!Become(c, n)
  BY DEF Mail!ReadTask, Mail!Reply
<1>8. n \in MailRequestType /\ MailRequestOK(n)'
  BY DEF MailRequestType, Mail!Idle, MailRequestOK
<1>9. mail' \in [Client -> MailRequestType] /\ \A d \in Client : MailRequestOK(mail[d])'
  BY <1>5, <1>7, <1>8, MailRequestsOK
<1>10. MailCountOK'
  <2>1. mail' = [mail EXCEPT ![c] = n] /\ mail \in [Client -> MailRequestType]
    BY <1>7 DEF Mail!Become, MailIInv
  <2>2. MailDelegating' \subseteq MailDelegating \cup {c}
    BY <2>1 DEF MailDelegating, Mail!At
  <2>3. IsFiniteSet(MailDelegating) /\ calls + Cardinality(MailDelegating) <= MailPaid
    BY DEF MailIInv, MailCountOK
  <2>4. IsFiniteSet(MailDelegating \cup {c}) /\ Cardinality(MailDelegating \cup {c}) <= Cardinality(MailDelegating) + 1
        /\ Cardinality(MailDelegating) \in Nat /\ Cardinality(MailDelegating \cup {c}) \in Nat
    <3>1. Cardinality(MailDelegating) \in Nat
      BY <2>3, FS_CardinalityType
    <3>2. IsFiniteSet(MailDelegating \cup {c})
          /\ (Cardinality(MailDelegating \cup {c}) = Cardinality(MailDelegating)
              \/ Cardinality(MailDelegating \cup {c}) = Cardinality(MailDelegating) + 1)
      BY <2>3, FS_AddElement
    <3>3. QED
      BY <3>1, <3>2
  <2>5. IsFiniteSet(MailDelegating') /\ Cardinality(MailDelegating') <= Cardinality(MailDelegating \cup {c})
        /\ Cardinality(MailDelegating') \in Nat
    BY <2>2, <2>4, FS_Subset, FS_CardinalityType
  <2>6. MailPaid \in Nat
    BY <1>4 DEF MailPaid
  <2>7. QED
    BY <1>3, <1>4, <1>6, <2>3, <2>4, <2>5, <2>6 DEF MailCountOK
<1>11. QED
  BY <1>5, <1>9, <1>10 DEF MailIInv

LEMMA MailDelegateOK == ASSUME MailIInv, NEW c \in Client, Mail!Delegate(c) PROVE MailIInv' /\ MailGrows
<1>1. PICK o \in Content \cup Mail!Outcome :
        Mail!Become(c, [stage |-> "look", print |-> Mail!Contract("result", o, {Mail!Requester})])
  BY DEF Mail!Delegate
<1>2. PICK n : n = [stage |-> "look", print |-> Mail!Contract("result", o, {Mail!Requester})]
  OBVIOUS
<1>3. n \in MailRequestType /\ MailRequestOK(n)' /\ n.stage = "look" /\ Mail!Become(c, n)
  BY <1>1, <1>2, MailContractOK, MailNamed
<1>4. UNCHANGED <<posted, delivery, mirror, acked, raced, again>> /\ calls' = calls + 1
      /\ calls \in Nat /\ again \in Nat
  BY DEF Mail!Delegate, MailIInv, MailTablesOK
<1>5. MailGrows /\ MailTablesOK' /\ MailDelivered' /\ Mail!OneStoneUnlessRaced' /\ Mail!MirrorsDelivery'
  <2>1. Len(posted) \in Nat
    BY DEF MailIInv, MailTablesOK
  <2>2. MailGrows
    BY <1>4, <2>1 DEF MailGrows, Mail!Exists, MailHasRow
  <2>3. MailTablesOK'
    BY <1>4 DEF MailIInv, MailTablesOK, MailRowsOK, Mail!Exists, MailHasRow
  <2>4. MailDelivered' /\ Mail!MirrorsDelivery'
    BY <1>4 DEF MailIInv, MailDelivered, Mail!MirrorsDelivery, Mail!Exists, MailHasRow
  <2>5. \A m \in Mail!Message : Mail!StonesOf(m)' = Mail!StonesOf(m) /\ Mail!Rows(m)' = Mail!Rows(m)
    BY <1>4 DEF Mail!StonesOf, Mail!Rows
  <2>6. Mail!OneStoneUnlessRaced'
    BY <1>4, <2>5 DEF MailIInv, Mail!OneStoneUnlessRaced
  <2>7. QED
    BY <2>2, <2>3, <2>4, <2>6
<1>6. mail' \in [Client -> MailRequestType] /\ \A d \in Client : MailRequestOK(mail[d])'
  BY <1>3, <1>5, MailRequestsOK
<1>7. MailCountOK'
  <2>1. mail' = [mail EXCEPT ![c] = n] /\ mail \in [Client -> MailRequestType]
    BY <1>3 DEF Mail!Become, MailIInv
  <2>2. MailDelegating' = MailDelegating \ {c} /\ c \in MailDelegating
    BY <1>3, <2>1 DEF MailDelegating, Mail!At, Mail!Delegate
  <2>3. IsFiniteSet(MailDelegating) /\ calls + Cardinality(MailDelegating) <= MailPaid
    BY DEF MailIInv, MailCountOK
  <2>4. IsFiniteSet(MailDelegating') /\ Cardinality(MailDelegating') = Cardinality(MailDelegating) - 1
        /\ Cardinality(MailDelegating) \in Nat
    BY <2>2, <2>3, FS_RemoveElement, FS_CardinalityType
  <2>5. MailPaid' = MailPaid /\ MailPaid \in Nat
    BY <1>4 DEF MailPaid
  <2>6. QED
    BY <1>4, <2>3, <2>4, <2>5 DEF MailCountOK
<1>8. QED
  BY <1>5, <1>6, <1>7 DEF MailIInv

LEMMA MailDieOK == ASSUME MailIInv, NEW c \in Client, Mail!Die(c) PROVE MailIInv' /\ MailGrows
BY MailIdleOK, MailGoesOn DEF Mail!Die, Mail!Reply

LEMMA MailStutterOK == ASSUME MailIInv, UNCHANGED Mail!vars PROVE MailIInv' /\ MailGrows
<1>1. MailGrows /\ MailTablesOK' /\ MailDelivered' /\ Mail!OneStoneUnlessRaced' /\ Mail!MirrorsDelivery'
  BY MailTablesStay DEF Mail!vars
<1>2. ASSUME NEW d \in Client PROVE MailRequestOK(mail[d])'
  <2>1. PICK r \in MailRequestType : r = mail[d] /\ MailRequestOK(r)'
    BY <1>1, MailKeptOK DEF MailIInv
  <2>2. mail'[d] = r
    BY <2>1 DEF Mail!vars
  <2>3. QED
    BY <2>1, <2>2 DEF MailRequestOK
<1>3. MailCountOK'
  <2>1. MailDelegating' = MailDelegating
    BY DEF Mail!vars, MailDelegating, Mail!At
  <2>2. QED
    BY <2>1 DEF Mail!vars, MailIInv, MailCountOK, MailPaid
<1>4. QED
  BY <1>1, <1>2, <1>3 DEF MailIInv, Mail!vars

LEMMA MailInitOK == Mail!Init => MailIInv
<1> SUFFICES ASSUME Mail!Init PROVE MailIInv
  OBVIOUS
<1>1. /\ posted = <<>> /\ delivery = [k \in Mail!Message \X Mail!Recipient |-> Mail!NoRow]
      /\ mirror = [r \in Mail!Recipient |-> 0] /\ acked = {} /\ raced = {} /\ calls = 0 /\ again = 0
      /\ mail = [c \in Client |-> Mail!Idle]
  BY DEF Mail!Init
<1>2. \A m \in Mail!Message, r \in Mail!Recipient : ~MailHasRow(m, r)
  BY <1>1 DEF Mail!Exists, MailHasRow
<1>3. delivery \in [Mail!Message \X Mail!Recipient -> MailRow]
  BY <1>1 DEF MailRow
<1>4. MailTablesOK
  BY <1>1, <1>2, <1>3 DEF MailTablesOK, MailRowsOK
<1>5. MailDelivered /\ Mail!MirrorsDelivery
  BY <1>1 DEF MailDelivered, Mail!MirrorsDelivery
<1>6. Mail!OneStoneUnlessRaced
  BY <1>2 DEF Mail!OneStoneUnlessRaced, Mail!StonesOf, Mail!Rows, Mail!Exists, MailHasRow
<1>7. mail \in [Client -> MailRequestType] /\ \A c \in Client : MailRequestOK(mail[c])
  BY <1>1 DEF MailRequestType, Mail!Idle, MailRequestOK
<1>8. MailCountOK
  <2>1. MailDelegating = {}
    BY <1>1 DEF MailDelegating, Mail!At, Mail!Idle
  <2>2. delivery[<<"request", Mail!Worker>>] = Mail!NoRow
    BY <1>1, MailNamed
  <2>3. QED
    BY <1>1, <2>1, <2>2, FS_EmptySet DEF MailCountOK, MailPaid, Mail!NoRow
<1>9. QED
  BY <1>4, <1>5, <1>6, <1>7, <1>8 DEF MailIInv

LEMMA MailNextOK == MailIInv /\ [Mail!Next]_(Mail!vars) => MailIInv' /\ MailGrows
BY MailStutterOK, MailBeginOK, MailLookOK, MailMakeStoneOK, MailDeliverOK, MailMirrorLookupOK,
   MailMirrorPutOK, MailReadMessageOK,
   MailPickTaskOK, MailReadTaskOK, MailDelegateOK, MailDieOK, Zenon DEF Mail!Next

\* For any recipients and any number of sends, handoffs and ticks, whichever of
\* them race, die and are retried: a send that was answered ok is delivered to
\* all it names, a message is of one stone, a mirror is of that stone, a task is
\* delegated once, and a delivery stays, but for the races that are known.
THEOREM MailIsKept == Mail!Spec => MailKept
<1>1. MailIInv => Mail!DelegatedOnce
  <2> SUFFICES ASSUME MailIInv PROVE Mail!DelegatedOnce
    OBVIOUS
  <2>1. Cardinality(MailDelegating) \in Nat /\ calls \in Nat /\ again \in Nat
        /\ calls + Cardinality(MailDelegating) <= MailPaid
    BY FS_CardinalityType DEF MailIInv, MailCountOK, MailTablesOK
  <2>2. QED
    BY <2>1 DEF MailPaid, Mail!DelegatedOnce
<1>2. MailIInv => Mail!AcknowledgedDelivered /\ Mail!OneStoneUnlessRaced /\ Mail!MirrorsDelivery /\ Mail!DelegatedOnce
  BY <1>1 DEF MailIInv, MailDelivered, MailHasRow, Mail!AcknowledgedDelivered, Mail!Exists
<1>3. MailIInv /\ [Mail!Next]_(Mail!vars) =>
        [\A k \in DOMAIN delivery : delivery[k] # Mail!NoRow =>
           /\ delivery'[k].stone = delivery[k].stone
           /\ delivery[k].status = "read" => delivery'[k].status = "read"]_(Mail!vars)
  BY MailNextOK DEF MailGrows, MailHasRow, MailIInv, MailTablesOK
<1>4. MailIInv /\ [Mail!Next]_(Mail!vars) => MailIInv'
  BY MailNextOK
<1>5. QED
  BY <1>2, <1>3, <1>4, MailInitOK, PTL DEF MailKept, Mail!Spec, Mail!MailKept, Mail!DeliveredStays
-----------------------------------------------------------------------------
(* Answers and responses *)

AnswerStone == HeadStone \cup {Answer!NoHead}
AnswerName == Model \cup {Generator}

\* No chain is at a head it had left, unless one came back.
AnswerWorldOK ==
  /\ accepted \in [Chain -> AnswerStone] /\ past \in [Chain -> SUBSET AnswerStone] /\ scoped \subseteq Chain
  /\ ~returned => \A k \in Chain : accepted[k] \notin past[k]

AnswerTrailOK(reply) ==
  LET trail == Append(reply.history, reply.model) IN
  /\ trail[1] = Generator
  /\ \A i \in 1..(Len(trail) - 1) : trail[i] # trail[i + 1]

AnswerRowOK(reply) ==
  /\ DOMAIN reply = {"id", "text", "parent", "shown", "highest", "model", "history"}
  /\ reply.highest \in Nat \ {0} /\ DOMAIN reply.shown = 1..reply.highest
  /\ reply.model \in AnswerName /\ reply.history \in Seq(AnswerName)
  /\ AnswerTrailOK(reply)

AnswerRendered(reply) == \A d \in DOMAIN reply.shown : reply.shown[d] = Answer!Render(d, reply.text)

AnswerStored ==
  \A id \in DOMAIN answers :
    /\ AnswerRowOK(answers[id]) /\ answers[id].id = id
    /\ id \notin rewritten => AnswerRendered(answers[id])

\* What a request has loaded is a state of a row that is there: of its text, and
\* with levels of that text unless the row was compiled again.
AnswerCopyOK(reply) ==
  /\ AnswerRowOK(reply)
  /\ reply.id \in DOMAIN answers
  /\ reply.text = answers[reply.id].text
  /\ reply.id \notin rewritten => AnswerRendered(reply)

AnswerWantOK(want) ==
  want.depth \in Nat \ {0} /\ want.swap \subseteq Model /\ \A a, b \in want.swap : a = b

\* What was read of a chain is its head, or one it has left.
AnswerPassOK(r) ==
  /\ r.stage = "read"
  /\ r.left \subseteq Chain /\ DOMAIN r.snapshot \subseteq Chain
  /\ r.pass # 1 => r.left \subseteq DOMAIN r.snapshot
  /\ \A k \in DOMAIN r.snapshot : r.snapshot[k] = accepted[k] \/ r.snapshot[k] \in past[k]

AnswerWatching(c) == \A k \in Chain : <<k, accepted[k]>> \in fresh[c]

AnswerLoadedOK(c, r) ==
  /\ DOMAIN r = {"stage", "of", "want"} /\ r.stage = "loaded"
  /\ AnswerCopyOK(r.of) /\ AnswerWantOK(r.want) /\ AnswerWatching(c)

AnswerRereadOK(c, r) ==
  /\ DOMAIN r = {"stage", "pass", "left", "snapshot", "of", "want"} /\ r.pass \in {1, 2} /\ AnswerPassOK(r)
  /\ AnswerCopyOK(r.of) /\ AnswerWantOK(r.want) /\ AnswerWatching(c)
  /\ \A k \in DOMAIN r.snapshot : <<k, r.snapshot[k]>> \in fresh[c]

AnswerKeepOK(r) == \A keep \in r.keep : keep.depth \in Depth

AnswerAskingOK(r) ==
  /\ DOMAIN r = {"stage", "pass", "left", "snapshot", "keep"} /\ r.pass \in {1, 2, 3, 4} /\ AnswerPassOK(r)
  /\ AnswerKeepOK(r)

\* A search that met no one state of the heads leaves a chain that had gone on,
\* and must come back for the request to go on.
AnswerSearchedOK(r) ==
  /\ DOMAIN r = {"stage", "pass", "left", "snapshot", "keep", "evidence", "joint"}
  /\ r.pass \in {5, 6} /\ AnswerPassOK(r)
  /\ AnswerKeepOK(r)
  /\ \/ r.joint
     \/ returned
     \/ r.pass = 5 /\ \E k \in r.left : r.snapshot[k] \in past[k]

AnswerAnsweredOK(c, r) ==
  /\ DOMAIN r = {"stage", "pass", "left", "snapshot", "keep", "evidence", "joint", "text"}
  /\ r.pass = 7 /\ AnswerPassOK(r)
  /\ AnswerKeepOK(r) /\ AnswerWatching(c)
  /\ r.joint \/ returned
  /\ \A k \in DOMAIN r.snapshot : k \in r.left \/ <<k, r.snapshot[k]>> \in fresh[c]

AnswerReqOK(c, r) == \/ r = Answer!Idle
                     \/ AnswerLoadedOK(c, r) \/ AnswerRereadOK(c, r)
                     \/ AnswerAskingOK(r) \/ AnswerSearchedOK(r) \/ AnswerAnsweredOK(c, r)

AnswerTablesOK == DOMAIN asker = Client /\ DOMAIN fresh = Client

AnswerIInv == AnswerTablesOK /\ AnswerWorldOK /\ AnswerStored /\ \A c \in Client : AnswerReqOK(c, asker[c])

LEMMA AnswerBecomeOK ==
  ASSUME AnswerTablesOK, NEW c \in Client, NEW r, Answer!Become(c, r)
  PROVE  /\ DOMAIN asker' = Client /\ asker'[c] = r
         /\ \A d \in Client \ {c} : asker'[d] = asker[d]
BY DEF AnswerTablesOK, Answer!Become

\* A request stays what it is while nothing it rests on moves.
LEMMA AnswerStaysOK ==
  ASSUME NEW d, NEW q, AnswerReqOK(d, q), UNCHANGED <<Answer!world, answers, rewritten>>,
         fresh'[d] = fresh[d]
  PROVE  AnswerReqOK(d, q)'
<1>1. UNCHANGED <<accepted, past, returned, answers, rewritten>>
  BY DEF Answer!world
<1>2. AnswerCopyOK(q.of)' <=> AnswerCopyOK(q.of)
  BY <1>1 DEF AnswerCopyOK
<1>3. AnswerPassOK(q)' <=> AnswerPassOK(q)
  BY <1>1 DEF AnswerPassOK
<1>4. AnswerWatching(d)' <=> AnswerWatching(d)
  BY <1>1 DEF AnswerWatching
<1>5. AnswerLoadedOK(d, q) => AnswerLoadedOK(d, q)'
  BY <1>2, <1>4 DEF AnswerLoadedOK
<1>6. AnswerRereadOK(d, q) => AnswerRereadOK(d, q)'
  BY <1>2, <1>3, <1>4 DEF AnswerRereadOK
<1>7. AnswerAskingOK(q) => AnswerAskingOK(q)'
  BY <1>3 DEF AnswerAskingOK
<1>8. AnswerSearchedOK(q) => AnswerSearchedOK(q)'
  BY <1>1, <1>3 DEF AnswerSearchedOK
<1>9. AnswerAnsweredOK(d, q) => AnswerAnsweredOK(d, q)'
  BY <1>1, <1>3, <1>4 DEF AnswerAnsweredOK
<1>10. QED
  BY <1>5, <1>6, <1>7, <1>8, <1>9 DEF AnswerReqOK

LEMMA AnswerTablesStay ==
  ASSUME UNCHANGED <<Answer!world, answers, rewritten>>, AnswerWorldOK,
         AnswerStored PROVE AnswerWorldOK' /\ AnswerStored'
BY DEF AnswerWorldOK, AnswerStored, Answer!world

\* One request goes on, and nothing else changes.
LEMMA AnswerTurnOK ==
  ASSUME AnswerIInv, NEW c \in Client, NEW r, Answer!Become(c, r),
         UNCHANGED <<Answer!world, answers, rewritten>>, DOMAIN fresh' = Client,
         \A d \in Client \ {c} : fresh'[d] = fresh[d],
         AnswerReqOK(c, r)'
  PROVE  AnswerIInv'
<1>1. DOMAIN asker' = Client /\ asker'[c] = r /\ \A d \in Client \ {c} : asker'[d] = asker[d]
  BY AnswerBecomeOK DEF AnswerIInv
<1>2. AnswerWorldOK' /\ AnswerStored'
  BY AnswerTablesStay DEF AnswerIInv
<1>3. ASSUME NEW d \in Client PROVE AnswerReqOK(d, asker[d])'
  <2>1. CASE d = c
    BY <1>1, <2>1
  <2>2. CASE d # c
    <3>1. PICK q : q = asker[d]
      OBVIOUS
    <3>2. AnswerReqOK(d, q)'
      <4>1. AnswerReqOK(d, q) /\ fresh'[d] = fresh[d]
        BY <2>2, <3>1 DEF AnswerIInv
      <4>2. QED
        BY <4>1, AnswerStaysOK
    <3>3. asker'[d] = q
      BY <1>1, <2>2, <3>1
    <3>4. QED
      BY <3>2, <3>3
  <2>3. QED
    BY <2>1, <2>2
<1>4. QED
  BY <1>1, <1>2, <1>3 DEF AnswerIInv, AnswerTablesOK

LEMMA AnswerFreshOK ==
  ASSUME AnswerIInv, NEW c \in Client, NEW f, UNCHANGED fresh \/ fresh' = [fresh EXCEPT ![c] = f]
  PROVE  DOMAIN fresh' = Client /\ \A d \in Client \ {c} : fresh'[d] = fresh[d]
BY DEF AnswerIInv, AnswerTablesOK

LEMMA AnswerGiveOK ==
  ASSUME AnswerIInv, NEW c \in Client, Answer!Give(c),
         UNCHANGED <<Answer!world, answers, rewritten>>
  PROVE  AnswerIInv'
<1>1. Answer!Become(c, Answer!Idle) /\ fresh' = [fresh EXCEPT ![c] = {}]
  BY DEF Answer!Give
<1>2. DOMAIN fresh' = Client /\ \A d \in Client \ {c} : fresh'[d] = fresh[d]
  BY <1>1, AnswerFreshOK
<1>3. AnswerReqOK(c, Answer!Idle)'
  BY DEF AnswerReqOK
<1>4. QED
  BY <1>1, <1>2, <1>3, AnswerTurnOK

(* Writers *)

\* What was read of a chain stays read of it, and what watches sees the move.
LEMMA AnswerMovedOK ==
  ASSUME AnswerWorldOK, NEW k \in Chain, NEW h \in HeadStone, Answer!Accept(k, h),
         NEW d, NEW q, AnswerReqOK(d, q),
         Answer!Loaded(q) \/ Answer!Answered(q) => fresh'[d] = fresh[d] \cup {<<k, h>>},
         UNCHANGED <<answers, rewritten>>
  PROVE  AnswerReqOK(d, q)'
<1>1. /\ accepted' = [accepted EXCEPT ![k] = h] /\ past' = [past EXCEPT ![k] = @ \cup {accepted[k]}]
      /\ returned => returned'
  BY DEF Answer!Accept
<1>2. \A j \in Chain : /\ past[j] \subseteq past'[j]
                       /\ accepted'[j] = accepted[j] \/ accepted[j] \in past'[j]
  BY <1>1 DEF AnswerWorldOK
<1>3. AnswerCopyOK(q.of)' <=> AnswerCopyOK(q.of)
  BY DEF AnswerCopyOK
<1>4. AnswerPassOK(q) => AnswerPassOK(q)'
  BY <1>2 DEF AnswerPassOK
<1>5. Answer!Loaded(q) \/ Answer!Answered(q) => fresh[d] \subseteq fresh'[d] /\ (AnswerWatching(d) => AnswerWatching(d)')
  BY <1>1 DEF AnswerWatching, AnswerWorldOK
<1>6. CASE q = Answer!Idle
  BY <1>6 DEF AnswerReqOK
<1>7. CASE AnswerLoadedOK(d, q)
  BY <1>3, <1>5, <1>7 DEF AnswerLoadedOK, AnswerReqOK, Answer!Loaded
<1>8. CASE AnswerRereadOK(d, q)
  BY <1>3, <1>4, <1>5, <1>8 DEF AnswerRereadOK, AnswerReqOK, Answer!Loaded
<1>9. CASE AnswerAskingOK(q)
  BY <1>4, <1>9 DEF AnswerAskingOK, AnswerReqOK, AnswerKeepOK
<1>10. CASE AnswerSearchedOK(q)
  <2>1. AnswerPassOK(q)' /\ (AnswerPassOK(q) => \A j \in q.left : j \in Chain)
    BY <1>4, <1>10 DEF AnswerSearchedOK, AnswerPassOK
  <2>2. AnswerSearchedOK(q)'
    BY <1>1, <1>2, <1>10, <2>1 DEF AnswerSearchedOK, AnswerKeepOK
  <2>3. QED
    BY <2>2 DEF AnswerReqOK
<1>11. CASE AnswerAnsweredOK(d, q)
  BY <1>1, <1>4, <1>5, <1>11 DEF AnswerAnsweredOK, AnswerReqOK, Answer!Answered, AnswerKeepOK
<1>12. QED
  BY <1>6, <1>7, <1>8, <1>9, <1>10, <1>11 DEF AnswerReqOK

LEMMA AnswerAcceptOK ==
  ASSUME AnswerIInv, NEW k \in Chain, NEW h \in HeadStone, Answer!Accept(k, h),
         UNCHANGED <<answers, asker, rewritten>>
  PROVE  AnswerIInv'
<1>1. /\ accepted' = [accepted EXCEPT ![k] = h] /\ past' = [past EXCEPT ![k] = @ \cup {accepted[k]}]
      /\ returned' = (returned \/ h \in past[k]) /\ accepted[k] # h /\ scoped' = scoped
  BY DEF Answer!Accept
<1>2. AnswerWorldOK'
  <2>1. accepted' \in [Chain -> AnswerStone] /\ past' \in [Chain -> SUBSET AnswerStone] /\ scoped' \subseteq Chain
    BY <1>1 DEF AnswerIInv, AnswerWorldOK, AnswerStone
  <2>2. ASSUME ~returned', NEW j \in Chain PROVE accepted'[j] \notin past'[j]
    BY <1>1, <2>2 DEF AnswerIInv, AnswerWorldOK
  <2>3. QED
    BY <2>1, <2>2 DEF AnswerWorldOK
<1>3. fresh' = [c \in Client |-> IF Answer!Loaded(asker[c]) \/ Answer!Answered(asker[c])
                                THEN fresh[c] \cup {<<k, h>>} ELSE fresh[c]]
  BY DEF Answer!Accept
<1>4. ASSUME NEW d \in Client PROVE AnswerReqOK(d, asker[d])'
  <2>1. PICK q : q = asker[d]
    OBVIOUS
  <2>2. AnswerReqOK(d, q) /\ (Answer!Loaded(q) \/ Answer!Answered(q) => fresh'[d] = fresh[d] \cup {<<k, h>>})
    BY <1>3, <2>1 DEF AnswerIInv
  <2>3. AnswerReqOK(d, q)'
    BY <2>2, AnswerMovedOK DEF AnswerIInv
  <2>4. QED
    BY <2>1, <2>3
<1>5. AnswerTablesOK' /\ AnswerStored'
  BY <1>3 DEF AnswerIInv, AnswerTablesOK, AnswerStored
<1>6. QED
  BY <1>2, <1>4, <1>5 DEF AnswerIInv

LEMMA AnswerWriteOK == ASSUME AnswerIInv, Answer!Write PROVE AnswerIInv'
<1>1. CASE \E k \in Chain, h \in HeadStone : Answer!Accept(k, h)
  BY <1>1, AnswerAcceptOK DEF Answer!Write
<1>2. CASE UNCHANGED <<accepted, past, returned, fresh, answers, asker, rewritten>>
           /\ scoped' \subseteq Chain
  <2>1. AnswerWorldOK' /\ AnswerStored' /\ AnswerTablesOK'
    BY <1>2 DEF AnswerIInv, AnswerWorldOK, AnswerStored, AnswerTablesOK
  <2>2. ASSUME NEW d \in Client PROVE AnswerReqOK(d, asker[d])'
    <3>1. PICK q : q = asker[d]
      OBVIOUS
    <3>2. AnswerReqOK(d, q)
      BY <3>1 DEF AnswerIInv
    <3>3. AnswerReqOK(d, q)'
      BY <1>2, <3>2 DEF AnswerReqOK, AnswerLoadedOK, AnswerRereadOK, AnswerAskingOK,
         AnswerSearchedOK, AnswerAnsweredOK, AnswerCopyOK, AnswerPassOK,
         AnswerWatching
    <3>4. QED
      BY <1>2, <3>1, <3>3
  <2>3. QED
    BY <2>1, <2>2 DEF AnswerIInv
<1>3. QED
  BY <1>1, <1>2 DEF Answer!Write, AnswerIInv, AnswerWorldOK

(* Reading the heads *)

\* The step of a pass that reads one chain.
AnswerReadOne(r, k, h) == Answer!Onward([r EXCEPT !.left = @ \ {k}, !.snapshot = Answer!With(@, k, h)])

LEMMA AnswerOnwardIs ==
  ASSUME NEW r, {"stage", "pass", "left", "snapshot"} \subseteq DOMAIN r, NEW k, NEW h, NEW q,
         q = AnswerReadOne(r, k, h)
  PROVE  /\ DOMAIN q = DOMAIN r
         /\ \A f \in DOMAIN r \ {"pass", "left", "snapshot"} : q[f] = r[f]
         /\ q.snapshot = Answer!With(r.snapshot, k, h)
         /\ \/ q.pass = r.pass /\ q.left = r.left \ {k}
            \/ r.pass \in {1, 3, 5} /\ q.pass = r.pass + 1 /\ q.left = DOMAIN q.snapshot
               /\ r.left \subseteq {k}
<1> DEFINE s == [r EXCEPT !.left = @ \ {k}, !.snapshot = Answer!With(@, k, h)]
<1>1. /\ DOMAIN s = DOMAIN r /\ s.pass = r.pass
      /\ \A f \in DOMAIN r \ {"pass", "left", "snapshot"} : s[f] = r[f]
  <2>1. DOMAIN s = DOMAIN r
    OBVIOUS
  <2>2. s.pass = r.pass
    OBVIOUS
  <2>3. ASSUME NEW f \in DOMAIN r, f # "left", f # "snapshot" PROVE s[f] = r[f]
    BY <2>3
  <2>4. QED
    BY <2>1, <2>2, <2>3
<1>2. s.snapshot = Answer!With(r.snapshot, k, h) /\ s.left = r.left \ {k}
  BY SMT
<1>3. q = s \/ (s.left = {} /\ s.pass \in {1, 3, 5} /\ q = Answer!Pass(s, s.pass + 1))
  BY DEF Answer!Onward, AnswerReadOne
<1> HIDE DEF s
<1>4. CASE q = s
  BY <1>1, <1>2, <1>4
<1>5. CASE s.left = {} /\ s.pass \in {1, 3, 5} /\ q = Answer!Pass(s, s.pass + 1)
  <2>1. q = [s EXCEPT !.pass = s.pass + 1, !.left = DOMAIN s.snapshot]
    BY <1>5 DEF Answer!Pass
  <2>2. /\ DOMAIN q = DOMAIN r /\ q.pass = s.pass + 1 /\ q.left = DOMAIN s.snapshot
        /\ \A f \in DOMAIN r \ {"pass", "left"} : q[f] = s[f]
    BY <1>1, <2>1
  <2>3. QED
    BY <1>1, <1>2, <1>5, <2>2
<1>6. QED
  BY <1>3, <1>4, <1>5

LEMMA AnswerReadIs ==
  ASSUME AnswerWorldOK, NEW r, {"stage", "pass", "left", "snapshot"} \subseteq DOMAIN r,
         AnswerPassOK(r),
         NEW k \in r.left, NEW h, h = accepted[k], r.pass = 1 \/ h = r.snapshot[k], NEW q,
         q = AnswerReadOne(r, k, h)
  PROVE  /\ DOMAIN q = DOMAIN r
         /\ \A f \in DOMAIN r \ {"pass", "left", "snapshot"} : q[f] = r[f]
         /\ AnswerPassOK(q) /\ k \in Chain
         /\ \A j \in DOMAIN q.snapshot :
              \/ j = k /\ q.snapshot[j] = h
              \/ j \in DOMAIN r.snapshot /\ q.snapshot[j] = r.snapshot[j]
         /\ \/ q.pass = r.pass /\ q.left = r.left \ {k}
            \/ r.pass \in {1, 3, 5} /\ q.pass = r.pass + 1 /\ r.left = {k}
<1>1. /\ DOMAIN q = DOMAIN r
      /\ \A f \in DOMAIN r \ {"pass", "left", "snapshot"} : q[f] = r[f]
      /\ q.snapshot = Answer!With(r.snapshot, k, h)
      /\ \/ q.pass = r.pass /\ q.left = r.left \ {k}
         \/ r.pass \in {1, 3, 5} /\ q.pass = r.pass + 1 /\ q.left = DOMAIN q.snapshot
            /\ r.left \subseteq {k}
  BY AnswerOnwardIs
<1>2. /\ DOMAIN q.snapshot = DOMAIN r.snapshot \cup {k} /\ q.snapshot[k] = h
      /\ \A j \in DOMAIN r.snapshot : j # k => q.snapshot[j] = r.snapshot[j]
  <2>1. q.snapshot = Answer!With(r.snapshot, k, h)
    BY <1>1
  <2>2. PICK s : s = r.snapshot
    OBVIOUS
  <2>3. /\ DOMAIN Answer!With(s, k, h) = DOMAIN s \cup {k} /\ Answer!With(s, k, h)[k] = h
        /\ \A j \in DOMAIN s : j # k => Answer!With(s, k, h)[j] = s[j]
    BY DEF Answer!With
  <2>4. QED
    BY <2>1, <2>2, <2>3
<1>3. k \in Chain /\ q.stage = "read"
  BY <1>1 DEF AnswerPassOK
<1>4. q.left \subseteq Chain /\ DOMAIN q.snapshot \subseteq Chain
  BY <1>1, <1>2, <1>3 DEF AnswerPassOK
<1>5. q.pass # 1 => q.left \subseteq DOMAIN q.snapshot
  BY <1>1, <1>2 DEF AnswerPassOK
<1>6. \A j \in DOMAIN q.snapshot : q.snapshot[j] = accepted[j] \/ q.snapshot[j] \in past[j]
  BY <1>2 DEF AnswerPassOK
<1>7. QED
  BY <1>1, <1>2, <1>3, <1>4, <1>5, <1>6 DEF AnswerPassOK

LEMMA AnswerReadHeadOK == ASSUME AnswerIInv, NEW c \in Client, Answer!ReadHead(c) PROVE AnswerIInv'
<1>1. PICK r : r = asker[c]
  OBVIOUS
<1>2. AnswerReqOK(c, r) /\ r.stage = "read" /\ UNCHANGED <<Answer!world, answers, rewritten>> /\ AnswerWorldOK
  BY <1>1 DEF AnswerIInv, Answer!ReadHead, Answer!At
<1>3. PICK k \in r.left :
        \/ Answer!Give(c)
        \/ /\ r.pass = 1 \/ accepted[k] = r.snapshot[k]
           /\ Answer!Become(c, AnswerReadOne(r, k, accepted[k]))
           /\ UNCHANGED fresh
  BY <1>1, Zenon DEF Answer!ReadHead, AnswerReadOne
<1>4. CASE Answer!Give(c)
  BY <1>2, <1>4, AnswerGiveOK
<1>5. CASE ~Answer!Give(c)
  <2>0. PICK h : h = accepted[k]
    OBVIOUS
  <2>1. PICK q : q = AnswerReadOne(r, k, h)
    OBVIOUS
  <2>2. r.pass = 1 \/ h = r.snapshot[k]
    BY <1>3, <1>5, <2>0
  <2>3. Answer!Become(c, q) /\ UNCHANGED fresh
    BY <1>3, <1>5, <2>0, <2>1
  <2>4. AnswerRereadOK(c, r) \/ AnswerAskingOK(r) \/ AnswerSearchedOK(r) \/ AnswerAnsweredOK(c, r)
    BY <1>2 DEF AnswerReqOK, AnswerLoadedOK, Answer!Idle
  <2>5. {"stage", "pass", "left", "snapshot"} \subseteq DOMAIN r /\ AnswerPassOK(r)
    BY <2>4 DEF AnswerRereadOK, AnswerAskingOK, AnswerSearchedOK, AnswerAnsweredOK
  <2>6. /\ DOMAIN q = DOMAIN r
        /\ \A f \in DOMAIN r \ {"pass", "left", "snapshot"} : q[f] = r[f]
        /\ AnswerPassOK(q) /\ k \in Chain
        /\ \A j \in DOMAIN q.snapshot :
             \/ j = k /\ q.snapshot[j] = h
             \/ j \in DOMAIN r.snapshot /\ q.snapshot[j] = r.snapshot[j]
        /\ \/ q.pass = r.pass /\ q.left = r.left \ {k}
           \/ r.pass \in {1, 3, 5} /\ q.pass = r.pass + 1 /\ r.left = {k}
    BY <1>2, <2>0, <2>1, <2>2, <2>5, AnswerReadIs
  <2>7. ASSUME AnswerRereadOK(c, r) PROVE AnswerReqOK(c, q)
    <3>1. q.of = r.of /\ q.want = r.want /\ q.pass \in {1, 2}
      BY <2>6, <2>7 DEF AnswerRereadOK
    <3>2. \A j \in DOMAIN q.snapshot : <<j, q.snapshot[j]>> \in fresh[c]
      BY <2>0, <2>6, <2>7 DEF AnswerRereadOK, AnswerWatching
    <3>3. QED
      BY <2>6, <2>7, <3>1, <3>2 DEF AnswerRereadOK, AnswerReqOK
  <2>8. ASSUME AnswerAskingOK(r) PROVE AnswerReqOK(c, q)
    <3>1. q.keep = r.keep /\ q.pass \in {1, 2, 3, 4}
      BY <2>6, <2>8 DEF AnswerAskingOK
    <3>2. QED
      BY <2>6, <2>8, <3>1 DEF AnswerAskingOK, AnswerReqOK, AnswerKeepOK
  <2>9. ASSUME AnswerSearchedOK(r) PROVE AnswerReqOK(c, q)
    <3>1. q.keep = r.keep /\ q.pass \in {5, 6} /\ q.joint = r.joint /\ (q.pass = 5 => r.pass = 5)
      BY <2>6, <2>9 DEF AnswerSearchedOK
    <3>2. ASSUME ~r.joint, ~returned PROVE q.pass = 5 /\ \E j \in q.left : q.snapshot[j] \in past[j]
      <4>1. PICK j \in r.left : r.pass = 5 /\ r.snapshot[j] \in past[j]
        BY <2>9, <3>2 DEF AnswerSearchedOK
      <4>2. r.left \subseteq DOMAIN r.snapshot /\ j \in Chain
        BY <2>5, <4>1 DEF AnswerPassOK
      <4>3. j # k
        BY <1>2, <2>0, <2>2, <3>2, <4>1, <4>2 DEF AnswerWorldOK
      <4>4. q.pass = r.pass /\ q.left = r.left \ {k}
        BY <2>6, <4>3
      <4>5. j \in DOMAIN q.snapshot
        BY <2>6, <4>1, <4>3, <4>4 DEF AnswerPassOK
      <4>6. QED
        BY <2>6, <4>1, <4>3, <4>4, <4>5
    <3>3. AnswerSearchedOK(q)
      BY <2>6, <2>9, <3>1, <3>2 DEF AnswerSearchedOK, AnswerKeepOK
    <3>4. QED
      BY <3>3 DEF AnswerReqOK
  <2>10. ASSUME AnswerAnsweredOK(c, r) PROVE AnswerReqOK(c, q)
    <3>1. q.keep = r.keep /\ q.pass = 7 /\ q.joint = r.joint /\ q.left = r.left \ {k}
      BY <2>6, <2>10 DEF AnswerAnsweredOK
    <3>2. \A j \in DOMAIN q.snapshot : j \in q.left \/ <<j, q.snapshot[j]>> \in fresh[c]
      <4>1. <<k, h>> \in fresh[c]
        BY <2>0, <2>6, <2>10 DEF AnswerAnsweredOK, AnswerWatching
      <4>2. \A j \in DOMAIN r.snapshot : j \in r.left \/ <<j, r.snapshot[j]>> \in fresh[c]
        BY <2>10 DEF AnswerAnsweredOK
      <4>3. ASSUME NEW j \in DOMAIN q.snapshot, j # k
            PROVE  j \in q.left \/ <<j, q.snapshot[j]>> \in fresh[c]
        BY <2>6, <3>1, <4>2, <4>3
      <4>4. ASSUME k \in DOMAIN q.snapshot PROVE <<k, q.snapshot[k]>> \in fresh[c]
        <5>1. q.snapshot[k] = h
          BY <2>0, <2>2, <2>6, <2>10, <4>4 DEF AnswerAnsweredOK
        <5>2. QED
          BY <4>1, <5>1
      <4>5. QED
        BY <4>3, <4>4
    <3>3. QED
      BY <2>6, <2>10, <3>1, <3>2 DEF AnswerAnsweredOK, AnswerReqOK, AnswerKeepOK
  <2>11. AnswerReqOK(c, q)
    BY <2>4, <2>7, <2>8, <2>9, <2>10
  <2>12. AnswerReqOK(c, q)'
    BY <1>2, <2>3, <2>11, AnswerStaysOK
  <2>13. QED
    BY <1>2, <2>3, <2>12, AnswerFreshOK, AnswerTurnOK
<1>6. QED
  BY <1>4, <1>5

(* Answers *)

LEMMA AnswerKeepingIs == \A keep \in Answer!Keeping : \A k \in keep : k.depth \in Depth
BY DEF Answer!Keeping

LEMMA AnswerBeginAnswerOK ==
  ASSUME ScopesAndLevels, AnswerIInv, NEW c \in Client, Answer!BeginAnswer(c)
  PROVE  AnswerIInv'
<1>1. PICK keep \in Answer!Keeping :
        Answer!Become(c, [stage |-> "read", pass |-> 1, left |-> Answer!chainsForRepo, snapshot |-> Answer!Empty,
                          keep |-> keep])
  BY DEF Answer!BeginAnswer
<1>2. \A k \in keep : k.depth \in Depth
  BY AnswerKeepingIs
<1>3. PICK s : s = scoped
  OBVIOUS
<1>4. PICK r : r = [stage |-> "read", pass |-> 1, left |-> s, snapshot |-> Answer!Empty, keep |-> keep]
  OBVIOUS
<1>5. /\ DOMAIN r = {"stage", "pass", "left", "snapshot", "keep"} /\ r.pass = 1 /\ r.left = s
      /\ r.snapshot = Answer!Empty /\ r.keep = keep /\ r.stage = "read"
  BY <1>4
<1>6. Answer!Become(c, r)
  BY <1>1, <1>3, <1>4 DEF Answer!chainsForRepo
<1>7. DOMAIN r.snapshot = {} /\ s \subseteq Chain
  BY <1>3, <1>5 DEF Answer!Empty, AnswerIInv, AnswerWorldOK
<1>8. UNCHANGED <<Answer!world, answers, rewritten>> /\ UNCHANGED fresh
  BY DEF Answer!BeginAnswer
<1>9. AnswerAskingOK(r)
  BY <1>2, <1>5, <1>7 DEF AnswerAskingOK, AnswerPassOK, AnswerKeepOK
<1>10. AnswerReqOK(c, r)'
  BY <1>8, <1>9, AnswerStaysOK DEF AnswerReqOK
<1>11. QED
  BY <1>6, <1>8, <1>10, AnswerFreshOK, AnswerTurnOK

\* A request of that pass is one that asks, searched or got its answer.
LEMMA AnswerThroughIs ==
  ASSUME AnswerIInv, NEW c \in Client, NEW n \in 1..7, Answer!Through(c, n), NEW r, r = asker[c]
  PROVE  /\ r.pass = n /\ r.left = {} /\ AnswerPassOK(r)
         /\ n \in {3, 4} => AnswerAskingOK(r)
         /\ n \in {1, 2} => AnswerAskingOK(r) \/ AnswerRereadOK(c, r)
         /\ n \in {5, 6} => AnswerSearchedOK(r)
         /\ n = 7 => AnswerAnsweredOK(c, r)
<1>1. r.stage = "read" /\ r.pass = n /\ r.left = {} /\ AnswerReqOK(c, r)
  BY DEF Answer!Through, Answer!At, AnswerIInv
<1>2. AnswerRereadOK(c, r) \/ AnswerAskingOK(r) \/ AnswerSearchedOK(r) \/ AnswerAnsweredOK(c, r)
  BY <1>1 DEF AnswerReqOK, AnswerLoadedOK, Answer!Idle
<1>3. AnswerPassOK(r)
  BY <1>2 DEF AnswerRereadOK, AnswerAskingOK, AnswerSearchedOK, AnswerAnsweredOK
<1>4. /\ AnswerRereadOK(c, r) => n \in {1, 2}
      /\ AnswerAskingOK(r) => n \in {1, 2, 3, 4}
      /\ AnswerSearchedOK(r) => n \in {5, 6}
      /\ AnswerAnsweredOK(c, r) => n = 7
  BY <1>1 DEF AnswerRereadOK, AnswerAskingOK, AnswerSearchedOK, AnswerAnsweredOK
<1>5. QED
  BY <1>1, <1>2, <1>3, <1>4

LEMMA AnswerPassIs ==
  ASSUME NEW r, {"pass", "left"} \subseteq DOMAIN r, NEW n, NEW q, q = Answer!Pass(r, n)
  PROVE  /\ DOMAIN q = DOMAIN r /\ q.pass = n /\ q.left = DOMAIN r.snapshot
         /\ \A f \in DOMAIN r \ {"pass", "left"} : q[f] = r[f]
BY DEF Answer!Pass

LEMMA AnswerBeginSearchOK ==
  ASSUME AnswerIInv, NEW c \in Client, Answer!BeginSearch(c)
  PROVE  AnswerIInv'
<1>1. PICK r : r = asker[c]
  OBVIOUS
<1>2. Answer!Through(c, 2) /\ ~Answer!Loaded(r) /\ UNCHANGED <<Answer!world, answers, rewritten>>
  BY <1>1 DEF Answer!BeginSearch
<1>3. AnswerAskingOK(r)
  BY <1>1, <1>2, AnswerThroughIs DEF AnswerRereadOK, Answer!Loaded
<1>4. Answer!Give(c) \/ (Answer!Become(c, Answer!Pass(r, 3)) /\ UNCHANGED fresh)
  BY <1>1 DEF Answer!BeginSearch
<1>5. CASE Answer!Give(c)
  BY <1>2, <1>5, AnswerGiveOK
<1>6. CASE Answer!Become(c, Answer!Pass(r, 3)) /\ UNCHANGED fresh
  <2>1. PICK q : q = Answer!Pass(r, 3)
    OBVIOUS
  <2>2. /\ DOMAIN q = DOMAIN r /\ q.pass = 3 /\ q.left = DOMAIN r.snapshot
        /\ \A f \in DOMAIN r \ {"pass", "left"} : q[f] = r[f]
    BY <1>3, <2>1, AnswerPassIs DEF AnswerAskingOK
  <2>3. q.snapshot = r.snapshot /\ q.keep = r.keep /\ q.stage = r.stage
    BY <1>3, <2>2 DEF AnswerAskingOK
  <2>4. AnswerAskingOK(q)
    BY <1>3, <2>2, <2>3 DEF AnswerAskingOK, AnswerPassOK, AnswerKeepOK
  <2>5. AnswerReqOK(c, q)'
    BY <1>2, <1>6, <2>4, AnswerStaysOK DEF AnswerReqOK
  <2>6. QED
    BY <1>2, <1>6, <2>1, <2>5, AnswerFreshOK, AnswerTurnOK
<1>7. QED
  BY <1>4, <1>5, <1>6

\* What a search met at once, or a chain that had gone on.
LEMMA AnswerSearchOK == ASSUME AnswerIInv, NEW c \in Client, Answer!Search(c) PROVE AnswerIInv'
<1>1. PICK r : r = asker[c]
  OBVIOUS
<1>2. Answer!Through(c, 4) /\ UNCHANGED <<Answer!world, answers, rewritten>> /\ UNCHANGED fresh
  BY DEF Answer!Search
<1>3. AnswerAskingOK(r) /\ AnswerPassOK(r) /\ AnswerKeepOK(r)
  BY <1>1, <1>2, AnswerThroughIs DEF AnswerAskingOK
<1>4. PICK joint \in BOOLEAN : joint = (Answer!Entries(r.snapshot) \subseteq Answer!HeadsNow)
  OBVIOUS
<1>5. PICK e : Answer!Become(c, [stage |-> "read", pass |-> 5, left |-> DOMAIN r.snapshot,
                                 snapshot |-> r.snapshot, keep |-> r.keep, evidence |-> e,
                                 joint |-> Answer!Entries(r.snapshot) \subseteq Answer!HeadsNow])
  BY <1>1 DEF Answer!Search
<1>6. PICK q : q = [stage |-> "read", pass |-> 5, left |-> DOMAIN r.snapshot,
                    snapshot |-> r.snapshot, keep |-> r.keep, evidence |-> e, joint |-> joint]
  OBVIOUS
<1>7. Answer!Become(c, q)
  BY <1>4, <1>5, <1>6
<1>8. /\ DOMAIN q = {"stage", "pass", "left", "snapshot", "keep", "evidence", "joint"}
      /\ q.stage = "read" /\ q.pass = 5 /\ q.left = DOMAIN r.snapshot /\ q.snapshot = r.snapshot
      /\ q.keep = r.keep /\ q.joint = joint
  BY <1>6
<1>9. AnswerPassOK(q) /\ AnswerKeepOK(q)
  BY <1>3, <1>8 DEF AnswerPassOK, AnswerKeepOK
<1>10. joint \/ \E k \in q.left : q.snapshot[k] \in past[k]
  <2>1. SUFFICES ASSUME ~joint PROVE \E k \in DOMAIN r.snapshot : r.snapshot[k] \in past[k]
    BY <1>8
  <2>2. PICK k \in DOMAIN r.snapshot : <<k, r.snapshot[k]>> \notin Answer!HeadsNow
    BY <1>4, <2>1 DEF Answer!Entries
  <2>3. r.snapshot[k] # accepted[k]
    BY <1>3, <2>2 DEF Answer!HeadsNow, AnswerPassOK
  <2>4. QED
    BY <1>3, <2>2, <2>3 DEF AnswerPassOK
<1>11. AnswerSearchedOK(q)
  BY <1>8, <1>9, <1>10 DEF AnswerSearchedOK
<1>12. AnswerReqOK(c, q)'
  BY <1>2, <1>11, AnswerStaysOK DEF AnswerReqOK
<1>13. QED
  BY <1>2, <1>7, <1>12, AnswerFreshOK, AnswerTurnOK

LEMMA AnswerAskOK == ASSUME AnswerIInv, NEW c \in Client, Answer!Ask(c) PROVE AnswerIInv'
<1>1. PICK r : r = asker[c]
  OBVIOUS
<1>2. Answer!Through(c, 6) /\ UNCHANGED <<Answer!world, answers, rewritten>>
  BY DEF Answer!Ask
<1>3. AnswerSearchedOK(r) /\ AnswerPassOK(r) /\ AnswerKeepOK(r) /\ r.pass = 6
  BY <1>1, <1>2, AnswerThroughIs DEF AnswerSearchedOK
<1>4. CASE Answer!Give(c)
  BY <1>2, <1>4, AnswerGiveOK
<1>5. ASSUME NEW t \in Wording, Answer!Become(c, Answer!Replied(asker[c], t, DOMAIN asker[c].snapshot)),
             fresh' = [fresh EXCEPT ![c] = Answer!HeadsNow]
      PROVE  AnswerIInv'
  <2>1. PICK q : q = Answer!Replied(r, t, DOMAIN r.snapshot)
    OBVIOUS
  <2>2. /\ DOMAIN q = {"stage", "pass", "left", "snapshot", "keep", "evidence", "joint", "text"}
        /\ q.stage = "read" /\ q.pass = 7 /\ q.left = DOMAIN r.snapshot /\ q.snapshot = r.snapshot
        /\ q.keep = r.keep /\ q.joint = r.joint
    BY <2>1 DEF Answer!Replied
  <2>3. AnswerPassOK(q)' /\ AnswerKeepOK(q)
    BY <1>2, <1>3, <2>2 DEF AnswerPassOK, AnswerKeepOK, Answer!world
  <2>4. AnswerWatching(c)'
    BY <1>2, <1>5 DEF AnswerWatching, Answer!HeadsNow, Answer!world, AnswerIInv, AnswerTablesOK
  <2>5. q.joint \/ returned'
    BY <1>2, <1>3, <2>2 DEF AnswerSearchedOK, Answer!world
  <2>6. AnswerAnsweredOK(c, q)'
    BY <2>2, <2>3, <2>4, <2>5 DEF AnswerAnsweredOK, AnswerKeepOK
  <2>7. AnswerReqOK(c, q)'
    BY <2>6 DEF AnswerReqOK
  <2>8. QED
    BY <1>1, <1>2, <1>5, <2>1, <2>7, AnswerFreshOK, AnswerTurnOK
<1>6. QED
  BY <1>4, <1>5 DEF Answer!Ask

(* Rows *)

\* Rows stay, with their text and what they refresh.
AnswerSay(old, new) ==
  \A id \in DOMAIN old : id \in DOMAIN new /\ new[id].text = old[id].text /\ new[id].parent = old[id].parent

AnswerTextsStay == AnswerSay(answers, answers')

LEMMA AnswerUpsertOK ==
  ASSUME AnswerStored, NEW reply, AnswerRowOK(reply), answers' = Answer!Upserted(reply),
         rewritten \subseteq rewritten',
         reply.id \in DOMAIN answers => reply.id \in rewritten' \/ reply.text = answers[reply.id].text,
         reply.id \notin rewritten' => AnswerRendered(reply)
  PROVE  AnswerStored' /\ AnswerTextsStay
<1>1. PICK id : id = reply.id
  OBVIOUS
<1>2. PICK old : old = answers
  OBVIOUS
<1>3. PICK new : new = IF id \in DOMAIN old
                       THEN [old[id] EXCEPT !.shown = reply.shown, !.highest = reply.highest,
                                            !.model = reply.model, !.history = reply.history]
                       ELSE reply
  OBVIOUS
<1>4. answers' = Answer!With(old, id, new)
  BY <1>1, <1>2, <1>3 DEF Answer!Upserted
<1>5. /\ DOMAIN answers' = DOMAIN old \cup {id} /\ answers'[id] = new
      /\ \A i \in DOMAIN old : i # id => answers'[i] = old[i]
  BY <1>4 DEF Answer!With
<1>6. id \in DOMAIN old => /\ AnswerRowOK(old[id]) /\ old[id].id = id
                           /\ id \in rewritten' \/ reply.text = old[id].text
  BY <1>1, <1>2 DEF AnswerStored
<1>7. id \in DOMAIN old => /\ DOMAIN new = DOMAIN old[id] /\ new.shown = reply.shown
                           /\ new.highest = reply.highest /\ new.model = reply.model
                           /\ new.history = reply.history /\ new.text = old[id].text
                           /\ new.id = old[id].id /\ new.parent = old[id].parent
  BY <1>3, <1>6 DEF AnswerRowOK
<1>8. AnswerRowOK(new) /\ new.id = id
  <2>1. CASE id \in DOMAIN old
    BY <1>6, <1>7, <2>1 DEF AnswerRowOK, AnswerTrailOK
  <2>2. CASE id \notin DOMAIN old
    BY <1>1, <1>3, <2>2
  <2>3. QED
    BY <2>1, <2>2
<1>9. id \notin rewritten' => AnswerRendered(new)
  <2>1. CASE id \in DOMAIN old
    BY <1>1, <1>6, <1>7, <2>1 DEF AnswerRendered
  <2>2. CASE id \notin DOMAIN old
    BY <1>1, <1>3, <2>2
  <2>3. QED
    BY <2>1, <2>2
<1>10. ASSUME NEW i \in DOMAIN answers'
       PROVE  AnswerRowOK(answers'[i]) /\ answers'[i].id = i
              /\ (i \notin rewritten' => AnswerRendered(answers'[i]))
  <2>1. CASE i = id
    BY <1>5, <1>8, <1>9, <2>1
  <2>2. CASE i # id
    BY <1>2, <1>5, <2>2 DEF AnswerStored
  <2>3. QED
    BY <2>1, <2>2
<1>11. AnswerStored'
  BY <1>10 DEF AnswerStored, AnswerRowOK, AnswerTrailOK, AnswerRendered
<1>12. AnswerTextsStay
  BY <1>2, <1>5, <1>7 DEF AnswerTextsStay, AnswerSay
<1>13. QED
  BY <1>11, <1>12

\* A row that is written leaves what others have loaded a copy.
LEMMA AnswerOthersOK ==
  ASSUME NEW d, NEW q, AnswerReqOK(d, q), UNCHANGED Answer!world, fresh'[d] = fresh[d],
         AnswerTextsStay, rewritten \subseteq rewritten'
  PROVE  AnswerReqOK(d, q)'
<1>1. UNCHANGED <<accepted, past, returned>>
  BY DEF Answer!world
<1>2. AnswerCopyOK(q.of) => AnswerCopyOK(q.of)'
  BY DEF AnswerCopyOK, AnswerTextsStay, AnswerSay
<1>3. AnswerPassOK(q)' <=> AnswerPassOK(q)
  BY <1>1 DEF AnswerPassOK
<1>4. AnswerWatching(d)' <=> AnswerWatching(d)
  BY <1>1 DEF AnswerWatching
<1>5. AnswerLoadedOK(d, q) => AnswerLoadedOK(d, q)'
  BY <1>2, <1>4 DEF AnswerLoadedOK
<1>6. AnswerRereadOK(d, q) => AnswerRereadOK(d, q)'
  BY <1>2, <1>3, <1>4 DEF AnswerRereadOK
<1>7. AnswerAskingOK(q) => AnswerAskingOK(q)'
  BY <1>3 DEF AnswerAskingOK
<1>8. AnswerSearchedOK(q) => AnswerSearchedOK(q)'
  BY <1>1, <1>3 DEF AnswerSearchedOK
<1>9. AnswerAnsweredOK(d, q) => AnswerAnsweredOK(d, q)'
  BY <1>1, <1>3, <1>4 DEF AnswerAnsweredOK
<1>10. QED
  BY <1>5, <1>6, <1>7, <1>8, <1>9 DEF AnswerReqOK

\* A request ends with a row that is written.
LEMMA AnswerPutOK ==
  ASSUME AnswerIInv, NEW c \in Client, Answer!Give(c), UNCHANGED Answer!world, AnswerStored',
         AnswerTextsStay,
         rewritten \subseteq rewritten'
  PROVE  AnswerIInv'
<1>1. Answer!Become(c, Answer!Idle) /\ fresh' = [fresh EXCEPT ![c] = {}]
  BY DEF Answer!Give
<1>2. /\ DOMAIN asker' = Client /\ asker'[c] = Answer!Idle
      /\ \A d \in Client \ {c} : asker'[d] = asker[d]
  BY <1>1, AnswerBecomeOK DEF AnswerIInv
<1>3. DOMAIN fresh' = Client /\ \A d \in Client \ {c} : fresh'[d] = fresh[d]
  BY <1>1, AnswerFreshOK
<1>4. AnswerWorldOK'
  BY DEF AnswerIInv, AnswerWorldOK, Answer!world
<1>5. ASSUME NEW d \in Client PROVE AnswerReqOK(d, asker[d])'
  <2>1. CASE d = c
    BY <1>2, <2>1 DEF AnswerReqOK
  <2>2. CASE d # c
    <3>1. PICK q : q = asker[d]
      OBVIOUS
    <3>2. AnswerReqOK(d, q) /\ fresh'[d] = fresh[d]
      BY <1>3, <2>2, <3>1 DEF AnswerIInv
    <3>3. AnswerReqOK(d, q)'
      BY <3>2, AnswerOthersOK
    <3>4. QED
      BY <1>2, <2>2, <3>1, <3>3
  <2>3. QED
    BY <2>1, <2>2
<1>6. QED
  BY <1>2, <1>3, <1>4, <1>5 DEF AnswerIInv, AnswerTablesOK

\* What is compiled has its generator's name and the levels of its text.
LEMMA AnswerCompiledOK ==
  ASSUME NEW r, NEW keep, keep.depth \in Nat \ {0}, NEW reply, reply = Answer!Compiled(r, keep)
  PROVE  AnswerRowOK(reply) /\ reply.id = Answer!Id(r, keep) /\ AnswerRendered(reply)
<1>1. /\ DOMAIN reply = {"id", "text", "parent", "shown", "highest", "model", "history"}
      /\ reply.id = Answer!Id(r, keep) /\ reply.text = r.text /\ reply.highest = keep.depth
      /\ reply.model = Generator /\ reply.history = <<>>
  BY DEF Answer!Compiled
<1>2. reply.shown = [d \in 1..keep.depth |-> Answer!Render(d, r.text)]
  BY DEF Answer!Compiled
<1>3. DOMAIN reply.shown = 1..reply.highest /\ AnswerRendered(reply)
  BY <1>1, <1>2 DEF AnswerRendered
<1>4. reply.model \in AnswerName /\ reply.history \in Seq(AnswerName)
  BY <1>1 DEF AnswerName
<1>5. AnswerTrailOK(reply)
  <2>1. Append(reply.history, reply.model) = <<Generator>>
    BY <1>1
  <2>2. <<Generator>>[1] = Generator /\ Len(<<Generator>>) = 1
    OBVIOUS
  <2>3. QED
    BY <2>1, <2>2 DEF AnswerTrailOK
<1>6. QED
  BY <1>1, <1>3, <1>4, <1>5 DEF AnswerRowOK

LEMMA AnswerFinishAnswerOK ==
  ASSUME ScopesAndLevels, AnswerIInv, NEW c \in Client, Answer!FinishAnswer(c)
  PROVE  AnswerIInv' /\ (answers' # answers => AnswerTextsStay)
<1>1. PICK r : r = asker[c]
  OBVIOUS
<1>2. Answer!Through(c, 7) /\ UNCHANGED Answer!world /\ Answer!Give(c)
  BY DEF Answer!FinishAnswer
<1>3. AnswerAnsweredOK(c, r)
  BY <1>1, <1>2, AnswerThroughIs
<1>4. CASE UNCHANGED <<answers, rewritten>>
  BY <1>2, <1>4, AnswerGiveOK
<1>5. CASE ~UNCHANGED <<answers, rewritten>>
  <2>1. PICK keep \in r.keep :
          /\ answers' = Answer!Upserted(Answer!Compiled(r, keep))
          /\ rewritten' = rewritten \cup ({Answer!Id(r, keep)} \cap DOMAIN answers)
    BY <1>1, <1>5 DEF Answer!FinishAnswer
  <2>2. keep.depth \in Nat \ {0}
    BY <1>3, <2>1 DEF AnswerAnsweredOK, AnswerKeepOK, ScopesAndLevels
  <2>3. PICK reply : reply = Answer!Compiled(r, keep)
    OBVIOUS
  <2>4. AnswerRowOK(reply) /\ reply.id = Answer!Id(r, keep) /\ AnswerRendered(reply)
    BY <2>2, <2>3, AnswerCompiledOK
  <2>5. AnswerStored' /\ AnswerTextsStay /\ rewritten \subseteq rewritten'
    BY <2>1, <2>3, <2>4, AnswerUpsertOK DEF AnswerIInv
  <2>6. QED
    BY <1>2, <2>5, AnswerPutOK
<1>6. QED
  BY <1>4, <1>5

(* Responses that are shown again *)

LEMMA AnswerLoadOK ==
  ASSUME AnswerIInv, NEW c \in Client, NEW id \in DOMAIN answers, NEW want, AnswerWantOK(want),
         Answer!Load(c, id, want)
  PROVE  AnswerIInv'
<1>1. PICK of : of = answers[id]
  OBVIOUS
<1>2. PICK r : r = [stage |-> "loaded", of |-> of, want |-> want]
  OBVIOUS
<1>3. Answer!Become(c, r) /\ UNCHANGED <<Answer!world, answers, rewritten>> /\ fresh' = [fresh EXCEPT ![c] = Answer!HeadsNow]
  BY <1>1, <1>2 DEF Answer!Load
<1>4. AnswerCopyOK(of)
  BY <1>1 DEF AnswerCopyOK, AnswerIInv, AnswerStored
<1>5. AnswerCopyOK(of)'
  BY <1>3, <1>4 DEF AnswerCopyOK
<1>6. AnswerWatching(c)'
  BY <1>3 DEF AnswerWatching, Answer!HeadsNow, Answer!world, AnswerIInv, AnswerTablesOK
<1>7. DOMAIN r = {"stage", "of", "want"} /\ r.stage = "loaded" /\ r.of = of /\ r.want = want
  BY <1>2
<1>8. AnswerReqOK(c, r)'
  BY <1>5, <1>6, <1>7 DEF AnswerReqOK, AnswerLoadedOK
<1>9. QED
  BY <1>3, <1>8, AnswerFreshOK, AnswerTurnOK

LEMMA AnswerGetOK == ASSUME AnswerIInv, NEW c \in Client, Answer!Get(c) PROVE AnswerIInv'
<1>1. PICK id \in DOMAIN answers :
        Answer!Load(c, id, [depth |-> answers[id].highest, original |-> TRUE, swap |-> {}])
  BY DEF Answer!Get
<1>2. PICK n : n = answers[id].highest
  OBVIOUS
<1>3. n \in Nat \ {0}
  BY <1>2 DEF AnswerIInv, AnswerStored, AnswerRowOK
<1>4. AnswerWantOK([depth |-> n, original |-> TRUE, swap |-> {}])
  BY <1>3 DEF AnswerWantOK
<1>5. QED
  BY <1>1, <1>2, <1>4, AnswerLoadOK

LEMMA AnswerSwapsIs == \A s \in Answer!Swaps : s \subseteq Model /\ \A a, b \in s : a = b
BY DEF Answer!Swaps

LEMMA AnswerExpandOK ==
  ASSUME ScopesAndLevels, AnswerIInv, NEW c \in Client, Answer!Expand(c)
  PROVE  AnswerIInv'
<1>1. PICK id \in DOMAIN answers, d \in Depth, o \in BOOLEAN, s \in Answer!Swaps :
        Answer!Load(c, id, [depth |-> d, original |-> o, swap |-> s])
  BY DEF Answer!Expand
<1>2. AnswerWantOK([depth |-> d, original |-> o, swap |-> s])
  BY AnswerSwapsIs DEF AnswerWantOK, ScopesAndLevels
<1>3. QED
  BY <1>1, <1>2, AnswerLoadOK

LEMMA AnswerResolveAgainOK ==
  ASSUME AnswerIInv, NEW c \in Client, Answer!ResolveAgain(c)
  PROVE  AnswerIInv'
<1>1. PICK r : r = asker[c]
  OBVIOUS
<1>2. PICK s : s = scoped
  OBVIOUS
<1>3. r.stage = "loaded" /\ UNCHANGED <<Answer!world, answers, rewritten>> /\ UNCHANGED fresh
  BY <1>1 DEF Answer!ResolveAgain, Answer!At
<1>4. AnswerLoadedOK(c, r)
  BY <1>1, <1>3 DEF AnswerIInv, AnswerReqOK, Answer!Idle, AnswerRereadOK, AnswerAskingOK,
     AnswerSearchedOK, AnswerAnsweredOK, AnswerPassOK
<1>5. PICK q : q = [stage |-> "read", pass |-> 1, left |-> s, snapshot |-> Answer!Empty,
                    of |-> r.of, want |-> r.want]
  OBVIOUS
<1>6. Answer!Become(c, q)
  BY <1>1, <1>2, <1>5 DEF Answer!ResolveAgain, Answer!chainsForRepo
<1>7. /\ DOMAIN q = {"stage", "pass", "left", "snapshot", "of", "want"} /\ q.stage = "read"
      /\ q.pass = 1 /\ q.left = s /\ q.snapshot = Answer!Empty /\ q.of = r.of /\ q.want = r.want
  BY <1>5
<1>8. DOMAIN q.snapshot = {} /\ s \subseteq Chain
  BY <1>2, <1>7 DEF Answer!Empty, AnswerIInv, AnswerWorldOK
<1>9. AnswerRereadOK(c, q)
  BY <1>4, <1>7, <1>8 DEF AnswerRereadOK, AnswerPassOK, AnswerLoadedOK
<1>10. AnswerReqOK(c, q)'
  BY <1>3, <1>9, AnswerStaysOK DEF AnswerReqOK
<1>11. QED
  BY <1>3, <1>6, <1>10, AnswerFreshOK, AnswerTurnOK

\* An envelope that is swapped goes on the trail, if it is another.
LEMMA AnswerSwappedOK ==
  ASSUME NEW reply, AnswerRowOK(reply), NEW models, models \subseteq Model, \A a,
         b \in models : a = b,
         NEW new, new = Answer!Swapped(reply, models)
  PROVE  /\ AnswerRowOK(new) /\ new.id = reply.id /\ new.text = reply.text /\ new.shown = reply.shown
         /\ new.highest = reply.highest
<1>1. CASE models \subseteq {reply.model}
  BY <1>1 DEF Answer!Swapped
<1>2. CASE ~(models \subseteq {reply.model})
  <2>1. PICK m \in models : m # reply.model
    BY <1>2
  <2>2. m = CHOOSE x \in models : TRUE
    BY <2>1
  <2>3. PICK trail : trail = Append(reply.history, reply.model)
    OBVIOUS
  <2>4. new = [reply EXCEPT !.model = m, !.history = trail]
    BY <1>2, <2>2, <2>3 DEF Answer!Swapped
  <2>5. /\ DOMAIN new = DOMAIN reply /\ new.model = m /\ new.history = trail
        /\ new.id = reply.id /\ new.text = reply.text /\ new.shown = reply.shown
        /\ new.highest = reply.highest
    BY <2>4 DEF AnswerRowOK
  <2>6. m \in AnswerName /\ reply.model \in AnswerName /\ reply.history \in Seq(AnswerName)
    BY <2>1 DEF AnswerName, AnswerRowOK
  <2>7. trail \in Seq(AnswerName) /\ Len(trail) \in Nat /\ Len(trail) >= 1 /\ trail[Len(trail)] = reply.model
    BY <2>3, <2>6
  <2>8. trail[1] = Generator /\ \A i \in 1..(Len(trail) - 1) : trail[i] # trail[i + 1]
    BY <2>3 DEF AnswerRowOK, AnswerTrailOK
  <2>9. PICK long : long = Append(trail, m)
    OBVIOUS
  <2>10. /\ Len(long) = Len(trail) + 1 /\ long[Len(trail) + 1] = m
         /\ \A i \in 1..Len(trail) : long[i] = trail[i]
    BY <2>6, <2>7, <2>9
  <2>11. ASSUME NEW i \in 1..(Len(long) - 1) PROVE long[i] # long[i + 1]
    <3>1. CASE i = Len(trail)
      BY <2>1, <2>7, <2>10, <3>1
    <3>2. CASE i < Len(trail)
      BY <2>7, <2>8, <2>10, <3>2
    <3>3. QED
      BY <2>7, <2>10, <2>11, <3>1, <3>2
  <2>12. long[1] = Generator
    BY <2>7, <2>8, <2>10
  <2>13. AnswerTrailOK(new)
    BY <2>5, <2>9, <2>11, <2>12 DEF AnswerTrailOK
  <2>14. QED
    BY <2>5, <2>6, <2>7, <2>13 DEF AnswerRowOK
<1>3. QED
  BY <1>1, <1>2

\* Deeper levels are added to those that are there.
LEMMA AnswerDeepenedOK ==
  ASSUME NEW reply, AnswerRowOK(reply), NEW depth \in Nat \ {0}, NEW new,
         new = Answer!Deepened(reply, depth)
  PROVE  /\ AnswerRowOK(new) /\ new.id = reply.id /\ new.text = reply.text
         /\ AnswerRendered(reply) => AnswerRendered(new)
<1>1. CASE depth \in DOMAIN reply.shown
  BY <1>1 DEF Answer!Deepened
<1>2. CASE depth \notin DOMAIN reply.shown
  <2>1. PICK h \in Nat \ {0} : h = reply.highest
    BY DEF AnswerRowOK
  <2>2. DOMAIN reply.shown = 1..h /\ h < depth
    BY <1>2, <2>1 DEF AnswerRowOK
  <2>3. PICK shown : shown = [d \in DOMAIN reply.shown \cup 1..depth |->
                                IF d \in DOMAIN reply.shown THEN reply.shown[d] ELSE Answer!Render(d, reply.text)]
    OBVIOUS
  <2>4. new = [reply EXCEPT !.shown = shown, !.highest = depth]
    <3>1. (IF reply.highest > depth THEN reply.highest ELSE depth) = depth
      BY <2>1, <2>2
    <3>2. new = [reply EXCEPT !.shown = shown,
                            !.highest = IF reply.highest > depth THEN reply.highest ELSE depth]
      BY <1>2, <2>3, Zenon DEF Answer!Deepened
    <3>3. QED
      BY <3>1, <3>2
  <2>5. /\ DOMAIN new = DOMAIN reply /\ new.shown = shown /\ new.highest = depth
        /\ new.id = reply.id /\ new.text = reply.text /\ new.model = reply.model
        /\ new.history = reply.history
    BY <2>4 DEF AnswerRowOK
  <2>6. DOMAIN reply.shown \cup 1..depth = 1..depth
    BY <2>1, <2>2
  <2>7. DOMAIN shown = 1..depth
    BY <2>3, <2>6
  <2>8. AnswerRendered(reply) => AnswerRendered(new)
    BY <2>3, <2>5 DEF AnswerRendered
  <2>9. AnswerTrailOK(new)
    BY <2>5 DEF AnswerRowOK, AnswerTrailOK
  <2>10. QED
    BY <2>5, <2>7, <2>8, <2>9 DEF AnswerRowOK
<1>3. QED
  BY <1>1, <1>2

LEMMA AnswerFinishExpandOK ==
  ASSUME AnswerIInv, NEW c \in Client,
         Answer!FinishExpand(c) PROVE AnswerIInv' /\ (answers' # answers => AnswerTextsStay)
<1>1. PICK r : r = asker[c]
  OBVIOUS
<1>2. Answer!Through(c, 2) /\ Answer!Loaded(r) /\ UNCHANGED Answer!world /\ UNCHANGED rewritten /\ Answer!Give(c)
  BY <1>1 DEF Answer!FinishExpand
<1>3. AnswerRereadOK(c, r)
  BY <1>1, <1>2, AnswerThroughIs DEF AnswerAskingOK, Answer!Loaded
<1>4. CASE UNCHANGED answers
  BY <1>2, <1>4, AnswerGiveOK
<1>5. CASE ~UNCHANGED answers
  <2>1. PICK swapped : swapped = Answer!Swapped(r.of, r.want.swap)
    OBVIOUS
  <2>2. PICK reply : reply = Answer!Deepened(swapped, r.want.depth)
    OBVIOUS
  <2>3. answers' = Answer!Upserted(reply)
    BY <1>1, <1>5, <2>1, <2>2 DEF Answer!FinishExpand
  <2>4. AnswerCopyOK(r.of) /\ AnswerWantOK(r.want)
    BY <1>3 DEF AnswerRereadOK
  <2>5. /\ AnswerRowOK(swapped) /\ swapped.id = r.of.id /\ swapped.text = r.of.text
        /\ swapped.shown = r.of.shown
    BY <2>1, <2>4, AnswerSwappedOK DEF AnswerCopyOK, AnswerWantOK
  <2>6. /\ AnswerRowOK(reply) /\ reply.id = swapped.id /\ reply.text = swapped.text
        /\ AnswerRendered(swapped) => AnswerRendered(reply)
    BY <2>2, <2>4, <2>5, AnswerDeepenedOK DEF AnswerWantOK
  <2>7. reply.id \notin rewritten => AnswerRendered(reply)
    BY <2>4, <2>5, <2>6 DEF AnswerCopyOK, AnswerRendered
  <2>8. reply.text = answers[reply.id].text
    BY <2>4, <2>5, <2>6 DEF AnswerCopyOK
  <2>9. AnswerStored' /\ AnswerTextsStay
    BY <1>2, <2>3, <2>6, <2>7, <2>8, AnswerUpsertOK DEF AnswerIInv
  <2>10. QED
    BY <1>2, <2>9, AnswerPutOK
<1>6. QED
  BY <1>4, <1>5

LEMMA AnswerInitOK == ASSUME ScopesAndLevels PROVE Answer!Init => AnswerIInv
<1> SUFFICES ASSUME Answer!Init PROVE AnswerIInv
  OBVIOUS
<1>1. Answer!First \in Chain
  BY DEF ScopesAndLevels, Answer!First
<1>2. PICK h0 \in HeadStone : h0 = CHOOSE h \in HeadStone : TRUE
  BY DEF ScopesAndLevels
<1>3. AnswerTablesOK /\ AnswerStored
  BY DEF Answer!Init, AnswerTablesOK, AnswerStored, Answer!Empty
<1>4. \A c \in Client : AnswerReqOK(c, asker[c])
  BY DEF Answer!Init, AnswerReqOK
<1>5. accepted = [k \in Chain |-> IF k = Answer!First THEN h0 ELSE Answer!NoHead]
      /\ past = [k \in Chain |-> {}] /\ scoped = {Answer!First}
  BY <1>2 DEF Answer!Init
<1>6. QED
  BY <1>1, <1>3, <1>4, <1>5 DEF AnswerIInv, AnswerWorldOK, AnswerStone

LEMMA AnswerStutterOK == ASSUME AnswerIInv, UNCHANGED Answer!vars PROVE AnswerIInv'
<1>1. UNCHANGED <<Answer!world, answers, rewritten>> /\ UNCHANGED <<asker, fresh>>
  BY DEF Answer!vars, Answer!world
<1>2. AnswerWorldOK' /\ AnswerStored' /\ AnswerTablesOK'
  BY <1>1, AnswerTablesStay DEF AnswerIInv, AnswerTablesOK
<1>3. ASSUME NEW d \in Client PROVE AnswerReqOK(d, asker[d])'
  <2>1. PICK q : q = asker[d]
    OBVIOUS
  <2>2. AnswerReqOK(d, q)'
    BY <1>1, <2>1, AnswerStaysOK DEF AnswerIInv
  <2>3. QED
    BY <1>1, <2>1, <2>2
<1>4. QED
  BY <1>2, <1>3 DEF AnswerIInv

\* What one request does: its own turn, and rows whose texts stay.
LEMMA AnswerWorkOK ==
  ASSUME ScopesAndLevels, AnswerIInv, NEW c \in Client, Answer!Work(c)
  PROVE  AnswerIInv' /\ (answers' # answers => AnswerTextsStay)
<1>1. CASE Answer!FinishAnswer(c) \/ Answer!FinishExpand(c)
  BY <1>1, AnswerFinishAnswerOK, AnswerFinishExpandOK
<1>2. CASE Answer!BeginAnswer(c) \/ Answer!ReadHead(c) \/ Answer!BeginSearch(c) \/ Answer!Search(c) \/ Answer!Ask(c)
           \/ Answer!Get(c) \/ Answer!Expand(c) \/ Answer!ResolveAgain(c)
  <2>1. UNCHANGED answers
    BY <1>2 DEF Answer!BeginAnswer, Answer!ReadHead, Answer!BeginSearch, Answer!Search,
       Answer!Ask, Answer!Get, Answer!Expand, Answer!ResolveAgain, Answer!Load
  <2>2. QED
    BY <1>2, <2>1, AnswerBeginAnswerOK, AnswerReadHeadOK, AnswerBeginSearchOK, AnswerSearchOK,
       AnswerAskOK, AnswerGetOK, AnswerExpandOK,
       AnswerResolveAgainOK
<1>3. QED
  BY <1>1, <1>2, Zenon DEF Answer!Work

LEMMA AnswerNextOK ==
  ASSUME ScopesAndLevels, AnswerIInv,
         [Answer!Next]_(Answer!vars) PROVE AnswerIInv' /\ (answers' # answers => AnswerTextsStay)
<1>1. CASE Answer!Write
  BY <1>1, AnswerWriteOK DEF Answer!Write
<1>2. CASE \E c \in Client : Answer!Work(c)
  BY <1>2, AnswerWorkOK
<1>3. CASE UNCHANGED Answer!vars
  BY <1>3, AnswerStutterOK DEF Answer!vars
<1>4. QED
  BY <1>1, <1>2, <1>3 DEF Answer!Next

LEMMA AnswerKeptOK ==
  ASSUME AnswerIInv PROVE Answer!AnswersGrounded /\ Answer!CurrentIsCurrent /\ Answer!LevelsKept /\ Answer!TrailKept
<1>1. Answer!AnswersGrounded
  <2>1. SUFFICES ASSUME NEW c \in Client, Answer!Through(c, 7)
        PROVE  Answer!Entries(asker[c].snapshot) \subseteq fresh[c] /\ (returned \/ asker[c].joint)
    BY DEF Answer!AnswersGrounded
  <2>2. PICK r : r = asker[c]
    OBVIOUS
  <2>3. AnswerAnsweredOK(c, r) /\ r.left = {}
    BY <2>1, <2>2, AnswerThroughIs
  <2>4. QED
    BY <2>2, <2>3 DEF AnswerAnsweredOK, Answer!Entries
<1>2. Answer!CurrentIsCurrent
  <2>1. SUFFICES ASSUME NEW c \in Client, Answer!Through(c, 2), Answer!Loaded(asker[c]), ~Answer!Stale(asker[c])
        PROVE  Answer!Entries(asker[c].of.id.snapshot) \subseteq fresh[c]
    BY DEF Answer!CurrentIsCurrent
  <2>2. PICK r : r = asker[c]
    OBVIOUS
  <2>3. AnswerRereadOK(c, r)
    BY <2>1, <2>2, AnswerThroughIs DEF AnswerAskingOK, Answer!Loaded
  <2>4. QED
    BY <2>1, <2>2, <2>3 DEF AnswerRereadOK, Answer!Entries, Answer!Stale
<1>3. Answer!LevelsKept
  BY DEF AnswerIInv, AnswerStored, AnswerRowOK, AnswerRendered, Answer!LevelsKept
<1>4. Answer!TrailKept
  BY DEF AnswerIInv, AnswerStored, AnswerRowOK, AnswerTrailOK, Answer!TrailKept
<1>5. QED
  BY <1>1, <1>2, <1>3, <1>4

\* However the heads move between the statements, and whoever writes the rows
\* back: answers and responses rest on heads that were there, and what a
\* response says stays.
THEOREM ResponsesAreKept == ScopesAndLevels /\ Answer!Spec => GroundedKept
<1> SUFFICES ASSUME ScopesAndLevels PROVE Answer!Spec => GroundedKept
  OBVIOUS
<1> DEFINE Safe == Answer!AnswersGrounded /\ Answer!CurrentIsCurrent /\ Answer!LevelsKept /\ Answer!TrailKept
           Says == answers' # answers =>
                     \A id \in DOMAIN answers : /\ id \in DOMAIN answers'
                                                /\ answers'[id].text = answers[id].text
                                                /\ answers'[id].parent = answers[id].parent
<1>1. Answer!Init => AnswerIInv
  BY AnswerInitOK
<1>2. AnswerIInv /\ [Answer!Next]_(Answer!vars) => AnswerIInv'
  BY AnswerNextOK
<1>3. AnswerIInv => Safe
  BY AnswerKeptOK
<1>4. AnswerIInv /\ [Answer!Next]_(Answer!vars) => [Says]_answers
  BY AnswerNextOK DEF AnswerTextsStay, AnswerSay
<1>5. Answer!Spec => []Safe
  <2> HIDE DEF Safe
  <2>1. QED
    BY <1>1, <1>2, <1>3, PTL DEF Answer!Spec
<1>6. Answer!Spec => [][Says]_answers
  <2> HIDE DEF Says
  <2>1. QED
    BY <1>1, <1>2, <1>4, PTL DEF Answer!Spec
<1>7. QED
  BY <1>5, <1>6 DEF GroundedKept, Answer!GroundedKept, Answer!SaysTheSame
=============================================================================
