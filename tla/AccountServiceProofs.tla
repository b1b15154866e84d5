------------------------- MODULE AccountServiceProofs -------------------------
(*****************************************************************************)
(* For any number of codes, sign-ins, connections and concurrent requests,   *)
(* whichever of them die: a code yields one grant and what is revoked is     *)
(* refused, a session has one code, and the home in D1 is that in memory.    *)
(*****************************************************************************)
EXTENDS AccountServices, Sequences, SequenceTheorems, FiniteSetTheorems, TLAPS

(* Tokens *)

CoreGrantRow == [code: Code, connection: {"active", "revoked"},
                 family: {"none", "active", "revoked"}]
CorePairRow == [grant: Nat, access: {"live", "revoked"},
                refresh: {"none", "active", "rotated", "revoked"}]

CoreRedeeming == {"expire", "claim", "check", "connect"}
CoreUsing     == {"look", "freshness", "serve", "rotate"}

CoreRequestType ==
  [stage: {"idle", "retire", "list all"}]
  \cup [stage: CoreRedeeming, code: Code]
  \cup [stage: {"family", "access", "disconnect", "list"}, grant: Nat]
  \cup [stage: {"refresh", "drop"}, pair: Nat]
  \cup [stage: CoreUsing, op: {"call", "rotate"}, pair: Nat, grant: Nat, late: BOOLEAN]
  \cup [stage: {"revoke"}, todo: SUBSET Nat, promised: SUBSET Nat]
  \cup [stage: {"refreshes", "accesses"}, todo: SUBSET Nat, promised: SUBSET Nat, grant: Nat]

CoreRowsOK == /\ code \in [Code -> [status: {"none", "unused", "used", "expired"}, late: BOOLEAN]]
              /\ given \in Seq(CoreGrantRow)
              /\ pairs \in Seq(CorePairRow)

\* A code that can no longer be claimed, a grant that can no longer be used, and
\* one whose family was started.
CoreSpent(k)   == code[k].status \in {"used", "expired"}
CoreRevoked(g) == /\ g \in DOMAIN given
                  /\ given[g].connection = "revoked" \/ given[g].family = "revoked"
CoreStarted(g) == g \in DOMAIN given /\ given[g].family # "none"

\* A code that was claimed has its one claimant, and then at most one grant.
CoreRequestOK(r) ==
  /\ r.stage \in {"check", "connect"} =>
       CoreSpent(r.code) /\ \A g \in DOMAIN given : given[g].code # r.code
  /\ r.stage = "family" => r.grant \in DOMAIN given /\ given[r.grant].family = "none"
  /\ r.stage = "access" => CoreStarted(r.grant)
  /\ r.stage = "disconnect" => r.grant \in DOMAIN given
  /\ r.stage = "list" => r.grant \in DOMAIN given /\ given[r.grant].connection = "revoked"
  /\ r.stage = "refresh" => r.pair \in DOMAIN pairs
  /\ r.stage \in CoreUsing => CoreStarted(r.grant) /\ (r.late => r.grant \in over)
  /\ r.stage = "freshness" /\ r.late => given[r.grant].connection = "revoked"
  /\ r.stage \in {"serve", "rotate"} => ~r.late
  /\ r.stage \in {"revoke", "refreshes", "accesses"} =>
       /\ \A g \in r.todo : CoreStarted(g)
       /\ \A g \in r.promised : g \in r.todo \/ CoreRevoked(g)

CoreGrantsOK ==
  /\ Core!OneGrantPerCode
  /\ \A g \in DOMAIN given : CoreSpent(given[g].code)
  /\ \A p \in DOMAIN pairs : CoreStarted(pairs[p].grant)
  /\ \A g \in over : CoreRevoked(g)

CoreOneHolder == \A c, d \in Caller : c # d =>
  /\ tokenReq[c].stage \in {"check", "connect"} /\ tokenReq[d].stage \in {"check", "connect"} =>
       tokenReq[c].code # tokenReq[d].code
  /\ tokenReq[c].stage = "family" /\ tokenReq[d].stage = "family" => tokenReq[c].grant # tokenReq[d].grant

CoreIInv == /\ CoreRowsOK
            /\ tokenReq \in [Caller -> CoreRequestType]
            /\ CoreGrantsOK
            /\ CoreOneHolder
            /\ \A c \in Caller : CoreRequestOK(tokenReq[c])

-----------------------------------------------------------------------------
(* What a step does to the rows, and to the request that makes it *)

CoreMoves ==
  /\ \A k \in Code : CoreSpent(k) => CoreSpent(k)'
  /\ \A g \in DOMAIN given :
       /\ g \in DOMAIN given'
       /\ given'[g].code = given[g].code
       /\ given[g].connection = "revoked" => given'[g].connection = "revoked"
       /\ given[g].family = "revoked" => given'[g].family = "revoked"
       /\ given[g].family # "none" => given'[g].family # "none"
  /\ \A p \in DOMAIN pairs : p \in DOMAIN pairs'
  /\ over \subseteq over'

\* A grant is made by the holder of its code, and its family by the maker of
\* the grant.
CoreByHolder(r) ==
  /\ \A g \in DOMAIN given' \ DOMAIN given : r.stage = "connect" /\ given'[g].code = r.code
  /\ \A g \in DOMAIN given : given[g].family = "none" /\ given'[g].family # "none" =>
       r.stage = "family" /\ r.grant = g

CoreEnters(r, q) ==
  /\ q.stage \in {"check", "connect"} =>
       \/ r.stage \in {"check", "connect"} /\ r.code = q.code
       \/ ~CoreSpent(q.code)
  /\ q.stage = "family" => q.grant \notin DOMAIN given

CoreGoes(c) == \E q \in CoreRequestType :
  tokenReq' = [tokenReq EXCEPT ![c] = q] /\ CoreRequestOK(q)' /\ CoreEnters(tokenReq[c], q)

CoreGood(c) == CoreRowsOK' /\ CoreGrantsOK' /\ CoreMoves /\ CoreByHolder(tokenReq[c]) /\ CoreGoes(c)

\* What is revoked or started stays so.
LEMMA CoreLasting ==
  ASSUME CoreMoves, NEW g
  PROVE  (CoreRevoked(g) => CoreRevoked(g)') /\ (CoreStarted(g) => CoreStarted(g)')
BY DEF CoreMoves, CoreRevoked, CoreStarted

\* What another request relies on stays true.
LEMMA CoreRequestStable ==
  ASSUME CoreMoves, CoreRowsOK, NEW r \in CoreRequestType, CoreRequestOK(r), NEW h, CoreByHolder(h),
         r.stage \in {"check", "connect"} /\ h.stage = "connect" => r.code # h.code,
         r.stage = "family" /\ h.stage = "family" => r.grant # h.grant
  PROVE  CoreRequestOK(r)'
<1>1. ASSUME r.stage \in {"check", "connect"}
      PROVE  CoreSpent(r.code)' /\ \A g \in DOMAIN given' : given'[g].code # r.code
  <2>1. r.code \in Code
    BY <1>1 DEF CoreRequestType, CoreRedeeming, CoreUsing
  <2>2. CoreSpent(r.code)'
    BY <1>1, <2>1 DEF CoreRequestOK, CoreMoves
  <2>3. ASSUME NEW g \in DOMAIN given' PROVE given'[g].code # r.code
    BY <1>1, <2>3 DEF CoreRequestOK, CoreMoves, CoreByHolder
  <2>4. QED
    BY <2>2, <2>3
<1>2. r.stage = "family" => r.grant \in DOMAIN given' /\ given'[r.grant].family = "none"
  BY DEF CoreRequestOK, CoreMoves, CoreByHolder
<1>3. r.stage \in {"revoke", "refreshes", "accesses"} =>
        /\ \A g \in r.todo : CoreStarted(g)'
        /\ \A g \in r.promised : g \in r.todo \/ CoreRevoked(g)'
  BY CoreLasting DEF CoreRequestOK
<1>4. /\ r.stage = "access" => CoreStarted(r.grant)'
      /\ r.stage \in CoreUsing => CoreStarted(r.grant)' /\ (r.late => r.grant \in over')
  BY CoreLasting DEF CoreRequestOK, CoreMoves
<1>5. /\ r.stage = "disconnect" => r.grant \in DOMAIN given'
      /\ r.stage = "list" => r.grant \in DOMAIN given' /\ given'[r.grant].connection = "revoked"
      /\ r.stage = "refresh" => r.pair \in DOMAIN pairs'
  BY DEF CoreRequestOK, CoreMoves
<1>6. r.stage = "freshness" /\ r.late => given'[r.grant].connection = "revoked"
  BY DEF CoreRequestOK, CoreMoves, CoreStarted, CoreUsing
<1>7. r.stage \in {"serve", "rotate"} => ~r.late
  BY DEF CoreRequestOK
<1>8. QED
  BY <1>1, <1>2, <1>3, <1>4, <1>5, <1>6, <1>7 DEF CoreRequestOK

LEMMA CoreStepOfClient ==
  ASSUME CoreIInv, NEW c \in Caller, CoreGood(c)
  PROVE  CoreIInv'
<1>1. PICK q \in CoreRequestType :
        tokenReq' = [tokenReq EXCEPT ![c] = q] /\ CoreRequestOK(q)' /\ CoreEnters(tokenReq[c], q)
  BY DEF CoreGood, CoreGoes
<1>2. /\ tokenReq' \in [Caller -> CoreRequestType]
      /\ tokenReq'[c] = q
      /\ \A d \in Caller : d # c => tokenReq'[d] = tokenReq[d]
  BY <1>1 DEF CoreIInv
<1>3. ASSUME NEW d \in Caller PROVE CoreRequestOK(tokenReq[d])'
  <2>1. CASE d = c
    BY <1>1, <1>2, <2>1 DEF CoreRequestOK, CoreSpent, CoreRevoked, CoreStarted
  <2>2. CASE d # c
    <3>1. PICK r \in CoreRequestType : r = tokenReq[d]
      BY DEF CoreIInv
    <3>2. PICK h \in CoreRequestType : h = tokenReq[c]
      BY DEF CoreIInv
    <3>3. CoreRequestOK(r) /\ CoreByHolder(h) /\ CoreMoves /\ CoreRowsOK
      BY <3>1, <3>2 DEF CoreIInv, CoreGood
    <3>4. /\ r.stage \in {"check", "connect"} /\ h.stage = "connect" => r.code # h.code
          /\ r.stage = "family" /\ h.stage = "family" => r.grant # h.grant
      BY <2>2, <3>1, <3>2 DEF CoreIInv, CoreOneHolder
    <3>5. CoreRequestOK(r)'
      BY <3>3, <3>4, CoreRequestStable
    <3>6. r = tokenReq'[d]
      BY <1>2, <2>2, <3>1
    <3>7. QED
      BY <3>5, <3>6 DEF CoreRequestOK, CoreSpent, CoreRevoked, CoreStarted
  <2>3. QED
    BY <2>1, <2>2
<1>4. CoreOneHolder'
  <2>1. ASSUME NEW d \in Caller, d # c
        PROVE  /\ q.stage \in {"check", "connect"} /\ tokenReq[d].stage \in {"check", "connect"} =>
                    q.code # tokenReq[d].code
               /\ q.stage = "family" /\ tokenReq[d].stage = "family" => q.grant # tokenReq[d].grant
    BY <1>1, <2>1 DEF CoreIInv, CoreOneHolder, CoreRequestOK, CoreEnters
  <2>2. ASSUME NEW d \in Caller, NEW e \in Caller, d # e
        PROVE  /\ tokenReq'[d].stage \in {"check", "connect"} /\ tokenReq'[e].stage \in {"check", "connect"}
                    => tokenReq'[d].code # tokenReq'[e].code
               /\ tokenReq'[d].stage = "family" /\ tokenReq'[e].stage = "family"
                    => tokenReq'[d].grant # tokenReq'[e].grant
    <3>1. CASE d = c
      BY <1>2, <2>1, <2>2, <3>1
    <3>2. CASE e = c
      BY <1>2, <2>1, <2>2, <3>2
    <3>3. CASE d # c /\ e # c
      BY <1>2, <2>2, <3>3 DEF CoreIInv, CoreOneHolder
    <3>4. QED
      BY <3>1, <3>2, <3>3
  <2>3. QED
    BY <2>2 DEF CoreOneHolder
<1>5. QED
  BY <1>2, <1>3, <1>4 DEF CoreIInv, CoreGood

-----------------------------------------------------------------------------
(* The ways a request goes on *)

LEMMA CoreShapes ==
  ASSUME NEW r \in CoreRequestType
  PROVE  /\ r.stage \in CoreRedeeming => r.code \in Code /\ r = [stage |-> r.stage, code |-> r.code]
         /\ r.stage \in {"family", "access", "disconnect", "list"} =>
              r.grant \in Nat /\ r = [stage |-> r.stage, grant |-> r.grant]
         /\ r.stage \in {"refresh", "drop"} => r.pair \in Nat
         /\ r.stage \in CoreUsing =>
              /\ r.op \in {"call", "rotate"} /\ r.pair \in Nat /\ r.grant \in Nat
              /\ r.late \in BOOLEAN
              /\ r = [stage |-> r.stage, op |-> r.op, pair |-> r.pair, grant |-> r.grant,
                      late |-> r.late]
         /\ r.stage = "revoke" => r.todo \in SUBSET Nat /\ r.promised \in SUBSET Nat
         /\ r.stage \in {"refreshes", "accesses"} =>
              /\ r.todo \in SUBSET Nat /\ r.promised \in SUBSET Nat /\ r.grant \in Nat
              /\ r = [stage |-> r.stage, todo |-> r.todo, promised |-> r.promised,
                      grant |-> r.grant]
         /\ r.stage = "retire" => r = [stage |-> "retire"]
<1>1. CASE r \in [stage: {"idle", "retire", "list all"}]
  BY <1>1 DEF CoreRedeeming, CoreUsing
<1>2. CASE r \in [stage: CoreRedeeming, code: Code]
  BY <1>2 DEF CoreRedeeming, CoreUsing
<1>3. CASE r \in [stage: {"family", "access", "disconnect", "list"}, grant: Nat]
           \/ r \in [stage: {"refresh", "drop"}, pair: Nat]
  BY <1>3 DEF CoreRedeeming, CoreUsing
<1>4. CASE r \in [stage: CoreUsing, op: {"call", "rotate"}, pair: Nat, grant: Nat, late: BOOLEAN]
  BY <1>4 DEF CoreRedeeming, CoreUsing
<1>5. CASE r \in [stage: {"revoke"}, todo: SUBSET Nat, promised: SUBSET Nat]
  BY <1>5 DEF CoreRedeeming, CoreUsing
<1>6. CASE r \in [stage: {"refreshes", "accesses"}, todo: SUBSET Nat, promised: SUBSET Nat,
                  grant: Nat]
  BY <1>6 DEF CoreRedeeming, CoreUsing
<1>7. QED
  BY <1>1, <1>2, <1>3, <1>4, <1>5, <1>6 DEF CoreRequestType

LEMMA CoreBecomes ==
  ASSUME NEW c \in Caller, NEW q \in CoreRequestType, Core!Become(c, q), CoreRequestOK(q)',
         CoreEnters(tokenReq[c], q)
  PROVE  CoreGoes(c)
BY DEF CoreGoes, Core!Become

LEMMA CoreReplies ==
  ASSUME NEW c \in Caller, Core!Reply(c)
  PROVE  CoreGoes(c)
<1>1. Core!Idle \in CoreRequestType
  BY DEF Core!Idle, CoreRequestType
<1>2. CoreRequestOK(Core!Idle)' /\ CoreEnters(tokenReq[c], Core!Idle)
  BY DEF Core!Idle, CoreRequestOK, CoreEnters, CoreUsing
<1>3. QED
  BY <1>1, <1>2, CoreBecomes DEF Core!Reply

LEMMA CoreBare ==
  ASSUME NEW c \in Caller, NEW s \in {"retire", "list all"}, Core!Become(c, [stage |-> s])
  PROVE  CoreGoes(c)
<1> DEFINE q == [stage |-> s]
<1>1. q \in CoreRequestType /\ CoreRequestOK(q)' /\ CoreEnters(tokenReq[c], q)
  BY DEF CoreRequestType, CoreRequestOK, CoreEnters, CoreUsing
<1>2. Core!Become(c, q)
  OBVIOUS
<1> HIDE DEF q
<1>3. QED
  BY <1>1, <1>2, CoreBecomes

LEMMA CoreRedeems ==
  ASSUME NEW c \in Caller, NEW s \in CoreRedeeming, NEW k \in Code,
         Core!Become(c, [stage |-> s, code |-> k]),
         s \in {"check", "connect"} =>
           /\ CoreSpent(k)' /\ \A g \in DOMAIN given' : given'[g].code # k
           /\ \/ tokenReq[c].stage \in {"check", "connect"} /\ tokenReq[c].code = k
              \/ ~CoreSpent(k)
  PROVE  CoreGoes(c)
<1> DEFINE q == [stage |-> s, code |-> k]
<1>1. q \in CoreRequestType
  BY DEF CoreRequestType
<1>2. CoreRequestOK(q)' /\ CoreEnters(tokenReq[c], q)
  BY DEF CoreRequestOK, CoreEnters, CoreUsing, CoreRedeeming, CoreSpent
<1>3. Core!Become(c, q)
  OBVIOUS
<1> HIDE DEF q
<1>4. QED
  BY <1>1, <1>2, <1>3, CoreBecomes

LEMMA CoreGrants ==
  ASSUME NEW c \in Caller, NEW s \in {"family", "access", "disconnect", "list"},
         NEW g \in Nat, Core!Become(c, [stage |-> s, grant |-> g]),
         s = "family" => /\ g \in DOMAIN given' /\ given'[g].family = "none"
                         /\ g \notin DOMAIN given,
         s = "access" => CoreStarted(g)',
         s = "disconnect" => g \in DOMAIN given',
         s = "list" => g \in DOMAIN given' /\ given'[g].connection = "revoked"
  PROVE  CoreGoes(c)
<1> DEFINE q == [stage |-> s, grant |-> g]
<1>1. q \in CoreRequestType
  BY DEF CoreRequestType
<1>2. CoreRequestOK(q)' /\ CoreEnters(tokenReq[c], q)
  BY DEF CoreRequestOK, CoreEnters, CoreUsing, CoreStarted
<1>3. Core!Become(c, q)
  OBVIOUS
<1> HIDE DEF q
<1>4. QED
  BY <1>1, <1>2, <1>3, CoreBecomes

LEMMA CorePairs ==
  ASSUME NEW c \in Caller, NEW s \in {"refresh", "drop"}, NEW p \in Nat,
         Core!Become(c, [stage |-> s, pair |-> p]), s = "refresh" => p \in DOMAIN pairs'
  PROVE  CoreGoes(c)
<1> DEFINE q == [stage |-> s, pair |-> p]
<1>1. q \in CoreRequestType
  BY DEF CoreRequestType
<1>2. CoreRequestOK(q)' /\ CoreEnters(tokenReq[c], q)
  BY DEF CoreRequestOK, CoreEnters, CoreUsing
<1>3. Core!Become(c, q)
  OBVIOUS
<1> HIDE DEF q
<1>4. QED
  BY <1>1, <1>2, <1>3, CoreBecomes

LEMMA CoreUses ==
  ASSUME NEW c \in Caller, NEW s \in CoreUsing, NEW o \in {"call", "rotate"}, NEW p \in Nat,
         NEW g \in Nat, NEW late \in BOOLEAN,
         Core!Become(c, [stage |-> s, op |-> o, pair |-> p, grant |-> g, late |-> late]),
         CoreStarted(g)', late => g \in over',
         s = "freshness" /\ late => given'[g].connection = "revoked",
         s \in {"serve", "rotate"} => ~late
  PROVE  CoreGoes(c)
<1> DEFINE q == [stage |-> s, op |-> o, pair |-> p, grant |-> g, late |-> late]
<1>1. q \in CoreRequestType
  BY DEF CoreRequestType
<1>2. CoreRequestOK(q)' /\ CoreEnters(tokenReq[c], q)
  BY DEF CoreRequestOK, CoreEnters, CoreUsing, CoreStarted
<1>3. Core!Become(c, q)
  OBVIOUS
<1> HIDE DEF q
<1>4. QED
  BY <1>1, <1>2, <1>3, CoreBecomes

LEMMA CoreRevokes ==
  ASSUME NEW c \in Caller, NEW todo \in SUBSET Nat, NEW promised \in SUBSET Nat,
         Core!Become(c, [stage |-> "revoke", todo |-> todo, promised |-> promised]),
         \A g \in todo : CoreStarted(g)',
         \A g \in promised : g \in todo \/ CoreRevoked(g)'
  PROVE  CoreGoes(c)
<1> DEFINE q == [stage |-> "revoke", todo |-> todo, promised |-> promised]
<1>1. q \in CoreRequestType
  BY DEF CoreRequestType
<1>2. CoreRequestOK(q)' /\ CoreEnters(tokenReq[c], q)
  BY DEF CoreRequestOK, CoreEnters, CoreUsing, CoreStarted, CoreRevoked
<1>3. Core!Become(c, q)
  OBVIOUS
<1> HIDE DEF q
<1>4. QED
  BY <1>1, <1>2, <1>3, CoreBecomes

LEMMA CoreRevokesOn ==
  ASSUME NEW c \in Caller, NEW s \in {"refreshes", "accesses"},
         NEW todo \in SUBSET Nat, NEW promised \in SUBSET Nat, NEW h \in Nat,
         Core!Become(c, [stage |-> s, todo |-> todo, promised |-> promised, grant |-> h]),
         \A g \in todo : CoreStarted(g)',
         \A g \in promised : g \in todo \/ CoreRevoked(g)'
  PROVE  CoreGoes(c)
<1> DEFINE q == [stage |-> s, todo |-> todo, promised |-> promised, grant |-> h]
<1>1. q \in CoreRequestType
  BY DEF CoreRequestType
<1>2. CoreRequestOK(q)' /\ CoreEnters(tokenReq[c], q)
  BY DEF CoreRequestOK, CoreEnters, CoreUsing, CoreStarted, CoreRevoked
<1>3. Core!Become(c, q)
  OBVIOUS
<1> HIDE DEF q
<1>4. QED
  BY <1>1, <1>2, <1>3, CoreBecomes

-----------------------------------------------------------------------------
(* The steps that leave the rows alone *)

LEMMA CoreQuietIsGood ==
  ASSUME CoreIInv, NEW c \in Caller, CoreGoes(c), UNCHANGED <<code, signer, given, pairs, over>>
  PROVE  CoreGood(c)
<1>1. CoreRowsOK' /\ CoreGrantsOK'
  BY DEF CoreIInv, CoreRowsOK, CoreGrantsOK, Core!OneGrantPerCode, CoreSpent, CoreStarted,
     CoreRevoked
<1>2. CoreMoves /\ CoreByHolder(tokenReq[c])
  BY DEF CoreMoves, CoreByHolder, CoreSpent
<1>3. QED
  BY <1>1, <1>2 DEF CoreGood

\* Tokens come and go, each with its grant.
LEMMA CoreTokensAreGood ==
  ASSUME CoreIInv, NEW c \in Caller, CoreGoes(c), UNCHANGED <<code, given, over>>,
         pairs' \in Seq(CorePairRow), \A p \in DOMAIN pairs : p \in DOMAIN pairs',
         \A p \in DOMAIN pairs' : CoreStarted(pairs'[p].grant)
  PROVE  CoreGood(c)
<1>1. CoreRowsOK' /\ CoreGrantsOK'
  BY DEF CoreIInv, CoreRowsOK, CoreGrantsOK, Core!OneGrantPerCode, CoreSpent, CoreStarted,
     CoreRevoked
<1>2. CoreMoves /\ CoreByHolder(tokenReq[c])
  BY DEF CoreMoves, CoreByHolder, CoreSpent
<1>3. QED
  BY <1>1, <1>2 DEF CoreGood

\* The rows a step reads.
LEMMA CoreRowTypes ==
  ASSUME CoreIInv
  PROVE  /\ DOMAIN given = 1..Len(given) /\ Len(given) \in Nat
         /\ \A g \in DOMAIN given : given[g] \in CoreGrantRow /\ g \in Nat
         /\ DOMAIN pairs = 1..Len(pairs) /\ Len(pairs) \in Nat
         /\ \A p \in DOMAIN pairs : /\ pairs[p] \in CorePairRow /\ p \in Nat
                                    /\ pairs[p].grant \in Nat /\ CoreStarted(pairs[p].grant)
<1>1. given \in Seq(CoreGrantRow) /\ pairs \in Seq(CorePairRow)
  BY DEF CoreIInv, CoreRowsOK
<1>2. /\ DOMAIN given = 1..Len(given) /\ Len(given) \in Nat
      /\ given \in [1..Len(given) -> CoreGrantRow]
  BY <1>1, LenProperties
<1>3. /\ DOMAIN pairs = 1..Len(pairs) /\ Len(pairs) \in Nat
      /\ pairs \in [1..Len(pairs) -> CorePairRow]
  BY <1>1, LenProperties
<1>4. \A p \in DOMAIN pairs : pairs[p].grant \in Nat /\ CoreStarted(pairs[p].grant)
  BY <1>3 DEF CoreIInv, CoreGrantsOK, CorePairRow
<1>5. QED
  BY <1>2, <1>3, <1>4

LEMMA CoreBeginIsGood ==
  ASSUME CoreIInv, NEW c \in Caller, Core!BeginRedeem(c) \/ Core!BeginCall(c) \/ Core!BeginRotate(c) \/ Core!BeginRevoke(c)
  PROVE  CoreGood(c)
<1>1. UNCHANGED <<code, signer, given, pairs, over>>
  BY DEF Core!BeginRedeem, Core!BeginCall, Core!BeginRotate, Core!BeginRevoke
<1>2. \A g : (CoreStarted(g) => CoreStarted(g)')
  BY <1>1 DEF CoreStarted
<1>3. ASSUME NEW g \in Nat, CoreStarted(g), Core!Become(c, [stage |-> "revoke", todo |-> {g}, promised |-> {g}])
      PROVE  CoreGoes(c)
  <2>1. {g} \in SUBSET Nat
    OBVIOUS
  <2>2. QED
    BY <1>2, <1>3, <2>1, CoreRevokes
<1>4. CoreGoes(c)
  <2>1. CASE Core!BeginRedeem(c)
    <3>1. PICK k \in Code :
            Core!Become(c, [stage |-> IF code[k].late THEN "expire" ELSE "claim", code |-> k])
      BY <2>1 DEF Core!BeginRedeem
    <3>2. CASE code[k].late
      BY <3>1, <3>2, CoreRedeems DEF CoreRedeeming
    <3>3. CASE ~code[k].late
      BY <3>1, <3>3, CoreRedeems DEF CoreRedeeming
    <3>4. QED
      BY <3>2, <3>3
  <2>2. CASE Core!BeginCall(c)
    <3>1. PICK p \in DOMAIN pairs :
            Core!Become(c, [stage |-> "look", op |-> "call", pair |-> p, grant |-> pairs[p].grant,
                            late |-> pairs[p].grant \in over])
      BY <2>2 DEF Core!BeginCall
    <3>2. PICK g \in Nat : g = pairs[p].grant
      BY CoreRowTypes
    <3>3. CoreStarted(g)' /\ p \in Nat
      BY <1>2, <3>2, CoreRowTypes
    <3>4. PICK late \in BOOLEAN : late = (g \in over)
      <4>1. CASE g \in over
        BY <4>1, (g \in over) = TRUE
      <4>2. CASE g \notin over
        BY <4>2, (g \in over) = FALSE
      <4>3. QED
        BY <4>1, <4>2
    <3>5. late => g \in over'
      BY <1>1, <3>4
    <3>6. QED
      BY <3>1, <3>2, <3>3, <3>4, <3>5, CoreUses DEF CoreUsing
  <2>3. CASE Core!BeginRotate(c)
    <3>1. PICK p \in DOMAIN pairs :
            LET g == pairs[p].grant IN
            Core!Become(c, IF pairs[p].refresh = "active"
                           THEN [stage |-> "look", op |-> "rotate", pair |-> p, grant |-> g,
                                 late |-> g \in over]
                           ELSE [stage |-> "revoke", todo |-> {g}, promised |-> {g}])
      BY <2>3 DEF Core!BeginRotate
    <3>2. PICK g \in Nat : g = pairs[p].grant
      BY CoreRowTypes
    <3>3. CoreStarted(g) /\ CoreStarted(g)' /\ p \in Nat
      BY <1>2, <3>2, CoreRowTypes
    <3>4. PICK late \in BOOLEAN : late = (g \in over)
      <4>1. CASE g \in over
        BY <4>1, (g \in over) = TRUE
      <4>2. CASE g \notin over
        BY <4>2, (g \in over) = FALSE
      <4>3. QED
        BY <4>1, <4>2
    <3>5. late => g \in over'
      BY <1>1, <3>4
    <3>6. CASE pairs[p].refresh = "active"
      <4>1. Core!Become(c, [stage |-> "look", op |-> "rotate", pair |-> p, grant |-> g, late |-> late])
        BY <3>1, <3>2, <3>4, <3>6
      <4>2. QED
        BY <3>3, <3>5, <4>1, CoreUses DEF CoreUsing
    <3>7. CASE pairs[p].refresh # "active"
      BY <1>3, <3>1, <3>2, <3>3, <3>7
    <3>8. QED
      BY <3>6, <3>7
  <2>4. CASE Core!BeginRevoke(c)
    <3>1. CASE \E p \in DOMAIN pairs :
                 \/ Core!Become(c, [stage |-> "drop", pair |-> p])
                 \/ Core!Become(c, [stage |-> "revoke", todo |-> {pairs[p].grant},
                                    promised |-> {pairs[p].grant}])
      <4>1. PICK p \in DOMAIN pairs :
                 \/ Core!Become(c, [stage |-> "drop", pair |-> p])
                 \/ Core!Become(c, [stage |-> "revoke", todo |-> {pairs[p].grant},
                                    promised |-> {pairs[p].grant}])
        BY <3>1
      <4>2. p \in Nat /\ pairs[p].grant \in Nat /\ CoreStarted(pairs[p].grant)
        BY CoreRowTypes
      <4>3. PICK g \in Nat : g = pairs[p].grant
        BY <4>2
      <4>4. QED
        BY <1>3, <4>1, <4>2, <4>3, CorePairs
    <3>2. CASE \E g \in DOMAIN given : Core!Become(c, [stage |-> "disconnect", grant |-> g])
      BY <1>1, <3>2, CoreRowTypes, CoreGrants
    <3>3. CASE Core!Become(c, [stage |-> "retire"])
      BY <3>3, CoreBare
    <3>4. QED
      BY <2>4, <3>1, <3>2, <3>3 DEF Core!BeginRevoke
  <2>5. QED
    BY <2>1, <2>2, <2>3, <2>4
<1>5. QED
  BY <1>1, <1>4, CoreQuietIsGood

LEMMA CoreCheckIsGood ==
  ASSUME CoreIInv, NEW c \in Caller, Core!Check(c)
  PROVE  CoreGood(c)
<1>1. PICK r \in CoreRequestType : r = tokenReq[c]
  BY DEF CoreIInv
<1>2. /\ r.stage = "check" /\ r.code \in Code /\ r = [stage |-> "check", code |-> r.code]
      /\ UNCHANGED <<code, signer, given, pairs, over>>
  BY <1>1, CoreShapes DEF Core!Check, Core!At, CoreRedeeming
<1>3. CASE Core!Goto(c, "connect")
  <2>1. Core!Become(c, [stage |-> "connect", code |-> r.code])
    BY <1>1, <1>2, <1>3 DEF Core!Goto
  <2>2. CoreSpent(r.code)' /\ \A g \in DOMAIN given' : given'[g].code # r.code
    BY <1>1, <1>2 DEF CoreIInv, CoreRequestOK, CoreSpent
  <2>3. CoreGoes(c)
    BY <1>1, <1>2, <2>1, <2>2, CoreRedeems DEF CoreRedeeming
  <2>4. QED
    BY <1>2, <2>3, CoreQuietIsGood
<1>4. CASE Core!Reply(c)
  BY <1>2, <1>4, CoreReplies, CoreQuietIsGood
<1>5. QED
  BY <1>3, <1>4 DEF Core!Check

LEMMA CoreUseIsGood ==
  ASSUME CoreIInv, NEW c \in Caller, Core!LookAtFamily(c) \/ Core!Freshness(c) \/ Core!Serve(c)
  PROVE  CoreGood(c)
<1>1. PICK r \in CoreRequestType : r = tokenReq[c]
  BY DEF CoreIInv
<1>2. UNCHANGED <<code, signer, given, pairs, over>>
  BY DEF Core!LookAtFamily, Core!Freshness, Core!Serve
<1>3. CASE Core!Reply(c)
  BY <1>2, <1>3, CoreReplies, CoreQuietIsGood
<1>4. ASSUME NEW s \in {"freshness", "serve", "rotate"}, Core!Goto(c, s), r.stage \in CoreUsing,
             s = "freshness" /\ r.late => given[r.grant].connection = "revoked",
             s \in {"serve", "rotate"} => ~r.late
      PROVE  CoreGood(c)
  <2>1. /\ r.op \in {"call", "rotate"} /\ r.pair \in Nat /\ r.grant \in Nat
        /\ r.late \in BOOLEAN
        /\ r = [stage |-> r.stage, op |-> r.op, pair |-> r.pair, grant |-> r.grant,
                late |-> r.late]
    BY <1>4, CoreShapes
  <2>2. Core!Become(c, [stage |-> s, op |-> r.op, pair |-> r.pair, grant |-> r.grant,
                        late |-> r.late])
    BY <1>1, <1>4, <2>1 DEF Core!Goto
  <2>3. CoreStarted(r.grant)' /\ (r.late => r.grant \in over')
    BY <1>1, <1>2, <1>4 DEF CoreIInv, CoreRequestOK, CoreStarted
  <2>4. s = "freshness" /\ r.late => given'[r.grant].connection = "revoked"
    BY <1>2, <1>4
  <2>5. CoreGoes(c)
    BY <1>4, <2>1, <2>2, <2>3, <2>4, CoreUses DEF CoreUsing
  <2>6. QED
    BY <1>2, <2>5, CoreQuietIsGood
<1>5. CASE Core!LookAtFamily(c)
  <2>1. r.stage = "look"
    BY <1>1, <1>5 DEF Core!LookAtFamily, Core!At
  <2>2. CASE given[r.grant].family = "active"
    <3>1. r.late => given[r.grant].connection = "revoked"
      BY <1>1, <2>1, <2>2 DEF CoreIInv, CoreRequestOK, CoreGrantsOK, CoreRevoked, CoreUsing
    <3>2. Core!Goto(c, "freshness")
      BY <1>1, <1>5, <2>2 DEF Core!LookAtFamily
    <3>3. QED
      BY <1>4, <2>1, <3>1, <3>2 DEF CoreUsing
  <2>3. CASE given[r.grant].family # "active"
    BY <1>1, <1>3, <1>5, <2>3 DEF Core!LookAtFamily
  <2>4. QED
    BY <2>2, <2>3
<1>6. CASE Core!Freshness(c)
  <2>1. r.stage = "freshness"
    BY <1>1, <1>6 DEF Core!Freshness, Core!At
  <2>2. CASE given[r.grant].connection = "active" /\ (Core!Goto(c, "serve") \/ Core!Goto(c, "rotate"))
    <3>1. ~r.late
      BY <1>1, <2>1, <2>2 DEF CoreIInv, CoreRequestOK
    <3>2. QED
      BY <1>4, <2>1, <2>2, <3>1 DEF CoreUsing
  <2>3. QED
    BY <1>1, <1>3, <1>6, <2>2 DEF Core!Freshness
<1>7. CASE Core!Serve(c)
  BY <1>3, <1>7 DEF Core!Serve
<1>8. QED
  BY <1>5, <1>6, <1>7

LEMMA CoreListIsGood ==
  ASSUME CoreIInv, NEW c \in Caller, Core!List(c)
  PROVE  CoreGood(c)
<1>1. PICK r \in CoreRequestType : r = tokenReq[c]
  BY DEF CoreIInv
<1> DEFINE active == {g \in DOMAIN given : given[g].family = "active"}
<1>2. UNCHANGED <<code, signer, given, pairs, over>>
  BY DEF Core!List
<1>3. /\ active \in SUBSET Nat
      /\ \A g \in active : CoreStarted(g)'
  BY <1>2, CoreRowTypes DEF CoreStarted
<1>4. CASE r.stage = "list" /\ Core!Become(c, [stage |-> "revoke", todo |-> active \cap {tokenReq[c].grant},
                                               promised |-> {tokenReq[c].grant}])
  <2>1. r.grant \in Nat /\ CoreRevoked(r.grant)'
    BY <1>1, <1>2, <1>4, CoreShapes DEF CoreIInv, CoreRequestOK, CoreRevoked
  <2>2. PICK t \in SUBSET Nat : t = active \cap {r.grant}
    BY <1>3
  <2>3. PICK u \in SUBSET Nat : u = {r.grant}
    BY <2>1
  <2>4. Core!Become(c, [stage |-> "revoke", todo |-> t, promised |-> u])
    BY <1>1, <1>4, <2>2, <2>3
  <2>5. (\A g \in t : CoreStarted(g)') /\ (\A g \in u : CoreRevoked(g)')
    BY <1>3, <2>1, <2>2, <2>3
  <2>6. CoreGoes(c)
    BY <2>4, <2>5, CoreRevokes
  <2>7. QED
    BY <1>2, <2>6, CoreQuietIsGood
<1>5. CASE Core!Become(c, [stage |-> "revoke", todo |-> active, promised |-> active])
  <2>1. PICK t \in SUBSET Nat : t = active
    BY <1>3
  <2>2. CoreGoes(c)
    BY <1>3, <1>5, <2>1, CoreRevokes
  <2>3. QED
    BY <1>2, <2>2, CoreQuietIsGood
<1>6. QED
  BY <1>1, <1>4, <1>5 DEF Core!List, Core!At

-----------------------------------------------------------------------------
(* The steps that write tokens *)

LEMMA CoreIssueAccessIsGood ==
  ASSUME CoreIInv, NEW c \in Caller, Core!IssueAccess(c)
  PROVE  CoreGood(c)
<1>1. PICK r \in CoreRequestType : r = tokenReq[c]
  BY DEF CoreIInv
<1>2. r.grant \in Nat /\ CoreStarted(r.grant) /\ r.stage = "access"
  BY <1>1, CoreShapes DEF Core!IssueAccess, Core!At, CoreIInv, CoreRequestOK
<1> DEFINE row == [grant |-> r.grant, access |-> "live", refresh |-> "none"]
<1>3. row \in CorePairRow
  BY <1>2 DEF CorePairRow
<1>4. pairs' = Append(pairs, row) /\ UNCHANGED <<code, given, over>>
  BY <1>1 DEF Core!IssueAccess
<1>5. /\ pairs' \in Seq(CorePairRow) /\ Len(pairs') = Len(pairs) + 1
      /\ \A p \in DOMAIN pairs : pairs'[p] = pairs[p]
      /\ pairs'[Len(pairs) + 1] = row
  BY <1>3, <1>4, AppendProperties DEF CoreIInv, CoreRowsOK
<1>6. DOMAIN pairs' = 1..(Len(pairs) + 1) /\ Len(pairs) \in Nat /\ DOMAIN pairs = 1..Len(pairs)
  BY <1>5, CoreRowTypes, LenProperties
<1>7. \A p \in DOMAIN pairs' : CoreStarted(pairs'[p].grant)
  BY <1>2, <1>5, <1>6, CoreRowTypes
<1>8. CoreGoes(c)
  BY <1>6, CorePairs DEF Core!IssueAccess
<1>9. QED
  BY <1>4, <1>5, <1>6, <1>7, <1>8, CoreTokensAreGood

\* A statement that changes what some tokens are, and not whose they are.
LEMMA CoreTokensChange ==
  ASSUME CoreIInv, pairs' \in [DOMAIN pairs -> CorePairRow],
         \A p \in DOMAIN pairs : pairs'[p].grant = pairs[p].grant
  PROVE  /\ pairs' \in Seq(CorePairRow)
         /\ \A p \in DOMAIN pairs : p \in DOMAIN pairs'
         /\ \A p \in DOMAIN pairs' : CoreStarted(pairs'[p].grant)
<1>1. pairs' \in Seq(CorePairRow)
  BY CoreRowTypes, SeqDef
<1>2. QED
  BY <1>1, CoreRowTypes

LEMMA CoreTokenStepIsGood ==
  ASSUME CoreIInv, NEW c \in Caller, Core!IssueRefresh(c) \/ Core!Rotate(c) \/ Core!Drop(c)
  PROVE  CoreGood(c)
<1>1. PICK r \in CoreRequestType : r = tokenReq[c]
  BY DEF CoreIInv
<1>2. UNCHANGED <<code, given, over>>
  BY DEF Core!IssueRefresh, Core!Rotate, Core!Drop
<1>3. /\ pairs' \in [DOMAIN pairs -> CorePairRow]
      /\ \A p \in DOMAIN pairs : pairs'[p].grant = pairs[p].grant
  <2>1. pairs \in [DOMAIN pairs -> CorePairRow]
    BY CoreRowTypes DEF CoreIInv, CoreRowsOK
  <2>2. CASE Core!IssueRefresh(c)
    BY <2>1, <2>2 DEF Core!IssueRefresh, CorePairRow
  <2>3. CASE Core!Rotate(c)
    BY <2>1, <2>3 DEF Core!Rotate, CorePairRow
  <2>4. CASE Core!Drop(c)
    BY <2>1, <2>4 DEF Core!Drop, CorePairRow
  <2>5. QED
    BY <2>2, <2>3, <2>4
<1>4. CoreGoes(c)
  <2>1. CASE Core!IssueRefresh(c) \/ Core!Drop(c)
    BY <2>1, CoreReplies DEF Core!IssueRefresh, Core!Drop
  <2>2. CASE Core!Rotate(c)
    <3>1. r.stage = "rotate" /\ Core!Become(c, [stage |-> "access", grant |-> r.grant])
      BY <1>1, <2>2 DEF Core!Rotate, Core!At
    <3>2. r.grant \in Nat /\ CoreStarted(r.grant)'
      BY <1>1, <1>2, <3>1, CoreShapes DEF CoreIInv, CoreRequestOK, CoreUsing, CoreStarted
    <3>3. QED
      BY <3>1, <3>2, CoreGrants
  <2>3. QED
    BY <2>1, <2>2
<1>5. QED
  BY <1>2, <1>3, <1>4, CoreTokensChange, CoreTokensAreGood

LEMMA CoreRevokeTokensIsGood ==
  ASSUME CoreIInv, NEW c \in Caller, Core!RevokeRefreshes(c) \/ Core!RevokeAccesses(c)
  PROVE  CoreGood(c)
<1>1. PICK r \in CoreRequestType : r = tokenReq[c]
  BY DEF CoreIInv
<1>2. UNCHANGED <<code, given, over>> /\ r.stage \in {"refreshes", "accesses"}
  BY <1>1 DEF Core!RevokeRefreshes, Core!RevokeAccesses, Core!At
<1>3. /\ pairs' \in [DOMAIN pairs -> CorePairRow]
      /\ \A p \in DOMAIN pairs : pairs'[p].grant = pairs[p].grant
  <2>1. CASE Core!RevokeRefreshes(c)
    <3>1. pairs' = [p \in DOMAIN pairs |->
                      IF pairs[p].grant = tokenReq[c].grant /\ pairs[p].refresh = "active"
                      THEN [pairs[p] EXCEPT !.refresh = "revoked"] ELSE pairs[p]]
      BY <2>1 DEF Core!RevokeRefreshes
    <3>2. \A p \in DOMAIN pairs : [pairs[p] EXCEPT !.refresh = "revoked"] \in CorePairRow
      BY CoreRowTypes DEF CorePairRow
    <3>3. \A p \in DOMAIN pairs : [pairs[p] EXCEPT !.refresh = "revoked"].grant = pairs[p].grant
      BY CoreRowTypes DEF CorePairRow
    <3>4. QED
      BY <3>1, <3>2, <3>3, CoreRowTypes
  <2>2. CASE Core!RevokeAccesses(c)
    <3>1. pairs' = [p \in DOMAIN pairs |->
                      IF pairs[p].grant = tokenReq[c].grant
                      THEN [pairs[p] EXCEPT !.access = "revoked"] ELSE pairs[p]]
      BY <2>2 DEF Core!RevokeAccesses
    <3>2. \A p \in DOMAIN pairs : [pairs[p] EXCEPT !.access = "revoked"] \in CorePairRow
      BY CoreRowTypes DEF CorePairRow
    <3>3. \A p \in DOMAIN pairs : [pairs[p] EXCEPT !.access = "revoked"].grant = pairs[p].grant
      BY CoreRowTypes DEF CorePairRow
    <3>4. QED
      BY <3>1, <3>2, <3>3, CoreRowTypes
  <2>3. QED
    BY <2>1, <2>2
<1>4. /\ r.todo \in SUBSET Nat /\ r.promised \in SUBSET Nat /\ r.grant \in Nat
      /\ r = [stage |-> r.stage, todo |-> r.todo, promised |-> r.promised, grant |-> r.grant]
  BY <1>2, CoreShapes
<1>5. /\ \A g \in r.todo : CoreStarted(g)'
      /\ \A g \in r.promised : g \in r.todo \/ CoreRevoked(g)'
  BY <1>1, <1>2 DEF CoreIInv, CoreRequestOK, CoreStarted, CoreRevoked
<1>6. CoreGoes(c)
  <2>1. CASE Core!RevokeRefreshes(c)
    <3>1. Core!Become(c, [stage |-> "accesses", todo |-> r.todo, promised |-> r.promised,
                          grant |-> r.grant])
      BY <1>1, <1>4, <2>1 DEF Core!RevokeRefreshes, Core!Goto
    <3>2. QED
      BY <1>4, <1>5, <3>1, CoreRevokesOn
  <2>2. CASE Core!RevokeAccesses(c)
    <3>1. Core!Become(c, [stage |-> "revoke", todo |-> r.todo, promised |-> r.promised])
      BY <1>1, <2>2 DEF Core!RevokeAccesses
    <3>2. QED
      BY <1>4, <1>5, <3>1, CoreRevokes
  <2>3. QED
    BY <2>1, <2>2
<1>7. QED
  BY <1>2, <1>3, <1>6, CoreTokensChange, CoreTokensAreGood

-----------------------------------------------------------------------------
(* The steps that write codes *)

CoreCodeRow == [status: {"none", "unused", "used", "expired"}, late: BOOLEAN]

LEMMA CoreCodesMove ==
  ASSUME CoreIInv, code' \in [Code -> CoreCodeRow], \A k \in Code : CoreSpent(k) => CoreSpent(k)',
         UNCHANGED <<given, pairs, over>>
  PROVE  CoreRowsOK' /\ CoreGrantsOK' /\ CoreMoves /\ \A h : CoreByHolder(h)
<1>1. CoreRowsOK'
  BY DEF CoreIInv, CoreRowsOK, CoreCodeRow
<1>2. CoreGrantsOK'
  <2>1. \A g \in DOMAIN given : given[g].code \in Code
    BY CoreRowTypes DEF CoreGrantRow
  <2>2. (\A g \in DOMAIN given : CoreSpent(given[g].code))'
    BY <2>1 DEF CoreIInv, CoreGrantsOK, CoreSpent
  <2>3. QED
    BY <2>2 DEF CoreIInv, CoreGrantsOK, Core!OneGrantPerCode, CoreStarted, CoreRevoked, CoreSpent
<1>3. CoreMoves /\ \A h : CoreByHolder(h)
  BY DEF CoreMoves, CoreByHolder
<1>4. QED
  BY <1>1, <1>2, <1>3

LEMMA CoreExpireIsGood ==
  ASSUME CoreIInv, NEW c \in Caller, Core!Expire(c)
  PROVE  CoreGood(c)
<1>1. PICK r \in CoreRequestType : r = tokenReq[c]
  BY DEF CoreIInv
<1>2. r.code \in Code
  BY <1>1, CoreShapes DEF Core!Expire, Core!At, CoreRedeeming
<1>3. code' = [code EXCEPT ![r.code].status = "expired"] /\ UNCHANGED <<given, pairs, over>>
  BY <1>1 DEF Core!Expire
<1>4. code' \in [Code -> CoreCodeRow] /\ \A k \in Code : CoreSpent(k) => CoreSpent(k)'
  BY <1>2, <1>3 DEF CoreIInv, CoreRowsOK, CoreCodeRow, CoreSpent
<1>5. CoreGoes(c)
  BY CoreReplies DEF Core!Expire
<1>6. QED
  BY <1>3, <1>4, <1>5, CoreCodesMove DEF CoreGood

LEMMA CoreClaimIsGood ==
  ASSUME CoreIInv, NEW c \in Caller, Core!Claim(c)
  PROVE  CoreGood(c)
<1>1. PICK r \in CoreRequestType : r = tokenReq[c]
  BY DEF CoreIInv
<1>2. r.code \in Code /\ r = [stage |-> "claim", code |-> r.code]
  BY <1>1, CoreShapes DEF Core!Claim, Core!At, CoreRedeeming
<1>3. CASE code[r.code].status = "unused"
  <2>1. /\ code' = [code EXCEPT ![r.code].status = "used"]
        /\ Core!Become(c, [stage |-> "check", code |-> r.code])
        /\ UNCHANGED <<given, pairs, over>>
    BY <1>1, <1>2, <1>3 DEF Core!Claim, Core!Goto
  <2>2. /\ code' \in [Code -> CoreCodeRow]
        /\ \A k \in Code : CoreSpent(k) => CoreSpent(k)'
        /\ CoreSpent(r.code)' /\ ~CoreSpent(r.code)
    BY <1>2, <1>3, <2>1 DEF CoreIInv, CoreRowsOK, CoreCodeRow, CoreSpent
  <2>3. \A g \in DOMAIN given' : given'[g].code # r.code
    BY <2>1, <2>2 DEF CoreIInv, CoreGrantsOK
  <2>4. CoreGoes(c)
    BY <1>2, <2>1, <2>2, <2>3, CoreRedeems DEF CoreRedeeming
  <2>5. QED
    BY <2>1, <2>2, <2>4, CoreCodesMove DEF CoreGood
<1>4. CASE code[r.code].status # "unused"
  BY <1>1, <1>4, CoreReplies, CoreQuietIsGood DEF Core!Claim
<1>5. QED
  BY <1>3, <1>4

-----------------------------------------------------------------------------
(* The steps that write grants *)

LEMMA CoreConnectIsGood ==
  ASSUME CoreIInv, NEW c \in Caller, Core!Connect(c)
  PROVE  CoreGood(c)
<1>1. PICK r \in CoreRequestType : r = tokenReq[c]
  BY DEF CoreIInv
<1>2. /\ r.stage = "connect" /\ r.code \in Code
      /\ CoreSpent(r.code) /\ \A g \in DOMAIN given : given[g].code # r.code
  BY <1>1, CoreShapes DEF Core!Connect, Core!At, CoreRedeeming, CoreIInv, CoreRequestOK
<1> DEFINE row == [code |-> r.code, connection |-> "active", family |-> "none"]
           n   == Len(given) + 1
<1>3. row \in CoreGrantRow
  BY <1>2 DEF CoreGrantRow
<1>4. /\ given' = Append(given, row) /\ UNCHANGED <<code, pairs, over>>
      /\ Core!Become(c, [stage |-> "family", grant |-> n])
  BY <1>1 DEF Core!Connect
<1>5. /\ given' \in Seq(CoreGrantRow) /\ Len(given') = n
      /\ \A g \in DOMAIN given : given'[g] = given[g]
      /\ given'[n] = row
  BY <1>3, <1>4, AppendProperties, CoreRowTypes DEF CoreIInv, CoreRowsOK
<1>6. /\ DOMAIN given' = 1..n /\ DOMAIN given = 1..Len(given) /\ Len(given) \in Nat
      /\ n \in Nat /\ n \notin DOMAIN given
  BY <1>5, CoreRowTypes, LenProperties
<1>7. \A g \in DOMAIN given' : g \in DOMAIN given \/ g = n
  BY <1>6
<1> HIDE DEF n
<1>8. CoreRowsOK'
  BY <1>4, <1>5 DEF CoreIInv, CoreRowsOK
<1>9. CoreMoves /\ CoreByHolder(r)
  <2>1. \A g \in DOMAIN given : g \in DOMAIN given' /\ given'[g] = given[g]
    BY <1>5, <1>6 DEF n
  <2>2. CoreMoves
    BY <1>4, <2>1 DEF CoreMoves, CoreSpent
  <2>3. CoreByHolder(r)
    BY <1>2, <1>5, <1>7, <2>1 DEF CoreByHolder
  <2>4. QED
    BY <2>2, <2>3
<1>10. CoreGrantsOK'
  <2>1. Core!OneGrantPerCode'
    <3>1. \A g, h \in DOMAIN given : given[g].code = given[h].code => g = h
      BY DEF CoreIInv, CoreGrantsOK, Core!OneGrantPerCode
    <3>2. \A g, h \in DOMAIN given' : given'[g].code = given'[h].code => g = h
      BY <1>2, <1>5, <1>7, <3>1
    <3>3. QED
      BY <3>2 DEF Core!OneGrantPerCode
  <2>2. (\A g \in DOMAIN given : CoreSpent(given[g].code))'
    BY <1>2, <1>4, <1>5, <1>7 DEF CoreIInv, CoreGrantsOK, CoreSpent
  <2>3. /\ (\A p \in DOMAIN pairs : CoreStarted(pairs[p].grant))'
        /\ \A g \in over' : CoreRevoked(g)'
    BY <1>4, <1>9, CoreLasting DEF CoreIInv, CoreGrantsOK
  <2>4. QED
    BY <2>1, <2>2, <2>3 DEF CoreGrantsOK
<1>11. CoreGoes(c)
  <2>1. n \in DOMAIN given' /\ given'[n].family = "none"
    BY <1>5, <1>6 DEF n
  <2>2. PICK g \in Nat : g = n
    BY <1>6
  <2>3. QED
    BY <1>4, <1>6, <2>1, <2>2, CoreGrants
<1>12. QED
  BY <1>1, <1>8, <1>9, <1>10, <1>11 DEF CoreGood

\* A statement that sets one column of one grant.
LEMMA CoreGrantChanges ==
  ASSUME CoreIInv, UNCHANGED <<code, pairs, over>>, NEW g \in DOMAIN given, NEW row \in CoreGrantRow,
         given' = [given EXCEPT ![g] = row],
         row.code = given[g].code,
         given[g].connection = "revoked" => row.connection = "revoked",
         given[g].family = "revoked" => row.family = "revoked",
         given[g].family # "none" => row.family # "none"
  PROVE  CoreRowsOK' /\ CoreGrantsOK' /\ CoreMoves /\ DOMAIN given' = DOMAIN given
<1>1. /\ given \in [1..Len(given) -> CoreGrantRow] /\ Len(given) \in Nat
      /\ DOMAIN given = 1..Len(given)
  BY LenProperties DEF CoreIInv, CoreRowsOK
<1>2. given' \in [1..Len(given) -> CoreGrantRow]
  BY <1>1
<1>3. given' \in Seq(CoreGrantRow) /\ DOMAIN given' = DOMAIN given
  BY <1>1, <1>2, SeqDef
<1>4. CoreRowsOK'
  BY <1>3 DEF CoreIInv, CoreRowsOK
<1>5. \A h \in DOMAIN given : given'[h] = IF h = g THEN row ELSE given[h]
  BY <1>1
<1>6. CoreMoves
  BY <1>3, <1>5 DEF CoreMoves, CoreSpent
<1>7. CoreGrantsOK'
  <2>1. \A h \in DOMAIN given : given'[h].code = given[h].code
    BY <1>5
  <2>2. Core!OneGrantPerCode'
    BY <1>3, <2>1 DEF CoreIInv, CoreGrantsOK, Core!OneGrantPerCode
  <2>3. (\A h \in DOMAIN given : CoreSpent(given[h].code))'
    BY <1>3, <2>1 DEF CoreIInv, CoreGrantsOK, CoreSpent
  <2>4. /\ (\A p \in DOMAIN pairs : CoreStarted(pairs[p].grant))'
        /\ \A h \in over' : CoreRevoked(h)'
    BY <1>6, CoreLasting DEF CoreIInv, CoreGrantsOK
  <2>5. QED
    BY <2>2, <2>3, <2>4 DEF CoreGrantsOK
<1>8. QED
  BY <1>3, <1>4, <1>6, <1>7

LEMMA CoreStartFamilyIsGood ==
  ASSUME CoreIInv, NEW c \in Caller, Core!StartFamily(c)
  PROVE  CoreGood(c)
<1>1. PICK r \in CoreRequestType : r = tokenReq[c]
  BY DEF CoreIInv
<1>2. /\ r.stage = "family" /\ r.grant \in Nat /\ r = [stage |-> "family", grant |-> r.grant]
      /\ r.grant \in DOMAIN given /\ given[r.grant].family = "none"
  BY <1>1, CoreShapes DEF Core!StartFamily, Core!At, CoreIInv, CoreRequestOK
<1>3. PICK row \in CoreGrantRow : row = [given[r.grant] EXCEPT !.family = "active"]
  BY <1>2, CoreRowTypes DEF CoreGrantRow
<1>4. given[r.grant] \in CoreGrantRow
  BY <1>2, CoreRowTypes
<1>5. /\ row.code = given[r.grant].code /\ row.connection = given[r.grant].connection
      /\ row.family = "active"
  BY <1>3, <1>4 DEF CoreGrantRow
<1>6. given' = [given EXCEPT ![r.grant] = row] /\ UNCHANGED <<code, pairs, over>>
  BY <1>1, <1>3 DEF Core!StartFamily
<1>7. CoreRowsOK' /\ CoreGrantsOK' /\ CoreMoves /\ DOMAIN given' = DOMAIN given
  BY <1>2, <1>5, <1>6, CoreGrantChanges
<1>8. CoreByHolder(r)
  BY <1>2, <1>6, <1>7 DEF CoreByHolder
<1>9. CoreGoes(c)
  <2>1. Core!Become(c, [stage |-> "access", grant |-> r.grant])
    BY <1>1, <1>2 DEF Core!StartFamily, Core!Goto
  <2>2. given'[r.grant] = row
    BY <1>2, <1>6, CoreRowTypes
  <2>3. CoreStarted(r.grant)'
    BY <1>2, <1>5, <1>7, <2>2 DEF CoreStarted
  <2>4. QED
    BY <1>2, <2>1, <2>3, CoreGrants
<1>10. QED
  BY <1>1, <1>7, <1>8, <1>9 DEF CoreGood

LEMMA CoreDisconnectIsGood ==
  ASSUME CoreIInv, NEW c \in Caller, Core!Disconnect(c)
  PROVE  CoreGood(c)
<1>1. PICK r \in CoreRequestType : r = tokenReq[c]
  BY DEF CoreIInv
<1>2. /\ r.grant \in Nat /\ r = [stage |-> "disconnect", grant |-> r.grant]
      /\ r.grant \in DOMAIN given /\ given[r.grant] \in CoreGrantRow
  BY <1>1, CoreShapes, CoreRowTypes DEF Core!Disconnect, Core!At, CoreIInv, CoreRequestOK
<1>3. PICK row \in CoreGrantRow : row = [given[r.grant] EXCEPT !.connection = "revoked"]
  BY <1>2 DEF CoreGrantRow
<1>4. /\ row.code = given[r.grant].code /\ row.connection = "revoked"
      /\ row.family = given[r.grant].family
  BY <1>2, <1>3 DEF CoreGrantRow
<1>5. given' = [given EXCEPT ![r.grant] = row] /\ UNCHANGED <<code, pairs, over>>
  BY <1>1, <1>3 DEF Core!Disconnect
<1>6. CoreRowsOK' /\ CoreGrantsOK' /\ CoreMoves /\ DOMAIN given' = DOMAIN given
  BY <1>2, <1>4, <1>5, CoreGrantChanges
<1>7. CoreByHolder(r)
  BY <1>2, <1>4, <1>5, <1>6 DEF CoreByHolder
<1>8. CoreGoes(c)
  <2>1. Core!Become(c, [stage |-> "list", grant |-> r.grant])
    BY <1>1, <1>2 DEF Core!Disconnect, Core!Goto
  <2>2. given'[r.grant] = row
    BY <1>2, <1>5, CoreRowTypes
  <2>3. QED
    BY <1>2, <1>4, <1>6, <2>1, <2>2, CoreGrants
<1>9. QED
  BY <1>1, <1>6, <1>7, <1>8 DEF CoreGood

LEMMA CoreRevokeFamilyIsGood ==
  ASSUME CoreIInv, NEW c \in Caller, Core!RevokeFamily(c)
  PROVE  CoreGood(c)
<1>1. PICK r \in CoreRequestType : r = tokenReq[c]
  BY DEF CoreIInv
<1>2. /\ r.stage = "revoke" /\ r.todo \in SUBSET Nat /\ r.promised \in SUBSET Nat
      /\ \A g \in r.todo : CoreStarted(g)
      /\ \A g \in r.promised : g \in r.todo \/ CoreRevoked(g)
  BY <1>1, CoreShapes DEF Core!RevokeFamily, Core!At, CoreIInv, CoreRequestOK
<1>3. PICK g \in r.todo :
        /\ given' = [given EXCEPT ![g].family = "revoked"]
        /\ Core!Become(c, [stage |-> "refreshes", todo |-> r.todo \ {g}, grant |-> g,
                           promised |-> r.promised])
  BY <1>1 DEF Core!RevokeFamily
<1>4. g \in DOMAIN given /\ given[g] \in CoreGrantRow /\ given[g].family # "none" /\ g \in Nat
  BY <1>2, CoreRowTypes DEF CoreStarted
<1>5. PICK row \in CoreGrantRow : row = [given[g] EXCEPT !.family = "revoked"]
  BY <1>4 DEF CoreGrantRow
<1>6. /\ row.code = given[g].code /\ row.connection = given[g].connection
      /\ row.family = "revoked"
  BY <1>4, <1>5 DEF CoreGrantRow
<1>7. given' = [given EXCEPT ![g] = row] /\ UNCHANGED <<code, pairs, over>>
  BY <1>3, <1>5 DEF Core!RevokeFamily
<1>8. CoreRowsOK' /\ CoreGrantsOK' /\ CoreMoves /\ DOMAIN given' = DOMAIN given
  BY <1>4, <1>6, <1>7, CoreGrantChanges
<1>9. CoreByHolder(r)
  BY <1>4, <1>7, <1>8 DEF CoreByHolder
<1>10. CoreGoes(c)
  <2>1. given'[g] = row
    BY <1>4, <1>7, CoreRowTypes
  <2>2. CoreRevoked(g)'
    BY <1>4, <1>6, <1>8, <2>1 DEF CoreRevoked
  <2>3. PICK t \in SUBSET Nat : t = r.todo \ {g}
    BY <1>2
  <2>4. \A h \in t : CoreStarted(h)'
    BY <1>2, <1>8, <2>3, CoreLasting
  <2>5. \A h \in r.promised : h \in t \/ CoreRevoked(h)'
    BY <1>2, <1>8, <2>2, <2>3, CoreLasting
  <2>6. Core!Become(c, [stage |-> "refreshes", todo |-> t, promised |-> r.promised, grant |-> g])
    BY <1>3, <2>3
  <2>7. QED
    BY <1>2, <1>4, <2>4, <2>5, <2>6, CoreRevokesOn
<1>11. QED
  BY <1>1, <1>8, <1>9, <1>10 DEF CoreGood

LEMMA CoreAnswerRevokedIsGood ==
  ASSUME CoreIInv, NEW c \in Caller, Core!AnswerRevoked(c)
  PROVE  CoreGood(c)
<1>1. PICK r \in CoreRequestType : r = tokenReq[c]
  BY DEF CoreIInv
<1>2. r.stage = "revoke" /\ r.todo = {} /\ over' = over \cup r.promised
      /\ UNCHANGED <<code, given, pairs>>
  BY <1>1 DEF Core!AnswerRevoked, Core!At
<1>3. \A g \in over' : CoreRevoked(g)
  BY <1>1, <1>2 DEF CoreIInv, CoreGrantsOK, CoreRequestOK
<1>4. CoreRowsOK' /\ CoreGrantsOK'
  BY <1>2, <1>3 DEF CoreIInv, CoreRowsOK, CoreGrantsOK, Core!OneGrantPerCode, CoreSpent,
     CoreStarted, CoreRevoked
<1>5. CoreMoves /\ CoreByHolder(tokenReq[c])
  BY <1>2 DEF CoreMoves, CoreByHolder, CoreSpent
<1>6. QED
  BY <1>4, <1>5, CoreReplies DEF CoreGood, Core!AnswerRevoked

\* One statement ends all grants of the authenticator; no row of theirs is written.
LEMMA CoreRetireIsGood ==
  ASSUME CoreIInv, NEW c \in Caller, Core!Retire(c)
  PROVE  CoreGood(c)
<1>1. PICK r \in CoreRequestType : r = tokenReq[c]
  BY DEF CoreIInv
<1>2. r = [stage |-> "retire"] /\ UNCHANGED <<code, given, pairs, over>>
  BY <1>1, CoreShapes DEF Core!Retire, Core!At
<1> DEFINE q == [r EXCEPT !.stage = "list all"]
<1>3. q \in [stage: {"idle", "retire", "list all"}] /\ q.stage = "list all" /\ Core!Become(c, q)
  <2>1. r \in [stage: {"idle", "retire", "list all"}]
    BY <1>2
  <2>2. q \in [stage: {"idle", "retire", "list all"}] /\ q.stage = "list all"
    BY <2>1
  <2>3. QED
    BY <1>1, <2>2 DEF Core!Retire, Core!Goto
<1>4. CoreRowsOK' /\ CoreGrantsOK'
  BY <1>2 DEF CoreIInv, CoreRowsOK, CoreGrantsOK, Core!OneGrantPerCode, CoreSpent, CoreStarted,
     CoreRevoked
<1>5. CoreMoves /\ CoreByHolder(tokenReq[c])
  BY <1>2 DEF CoreMoves, CoreByHolder, CoreSpent
<1> HIDE DEF q
<1>6. CoreGoes(c)
  <2>1. CoreRequestOK(q)' /\ CoreEnters(tokenReq[c], q)
    BY <1>3 DEF CoreRequestOK, CoreEnters, CoreUsing
  <2>2. q \in CoreRequestType
    BY <1>3 DEF CoreRequestType
  <2>3. QED
    BY <1>3, <2>1, <2>2, CoreBecomes
<1>7. QED
  BY <1>4, <1>5, <1>6 DEF CoreGood

-----------------------------------------------------------------------------
(* What the run checks, for every value of the constants *)

LEMMA CoreInitOK == Core!Init => CoreIInv
<1> SUFFICES ASSUME Core!Init PROVE CoreIInv
  OBVIOUS
<1>1. /\ code = [k \in Code |-> [status |-> "none", late |-> FALSE]]
      /\ given = <<>> /\ pairs = <<>> /\ over = {}
      /\ tokenReq = [c \in Caller |-> Core!Idle]
  BY DEF Core!Init
<1>2. CoreRowsOK /\ CoreGrantsOK
  BY <1>1 DEF CoreRowsOK, CoreGrantsOK, Core!OneGrantPerCode
<1>3. Core!Idle \in CoreRequestType /\ CoreRequestOK(Core!Idle)
  BY DEF CoreRequestType, Core!Idle, CoreRequestOK, CoreUsing
<1>4. /\ tokenReq \in [Caller -> CoreRequestType]
      /\ CoreOneHolder
      /\ \A c \in Caller : CoreRequestOK(tokenReq[c])
  BY <1>1, <1>3 DEF CoreOneHolder, Core!Idle
<1>5. QED
  BY <1>2, <1>4 DEF CoreIInv

\* Codes are made, and lapse, by themselves.
LEMMA CoreAroundOK ==
  ASSUME CoreIInv, Core!CreateCode \/ Core!Lapse \/ UNCHANGED Core!vars
  PROVE  CoreIInv'
<1>1. UNCHANGED <<given, pairs, over, tokenReq>>
  BY DEF Core!CreateCode, Core!Lapse, Core!vars
<1>2. code' \in [Code -> CoreCodeRow] /\ \A k \in Code : CoreSpent(k) => CoreSpent(k)'
  <2>1. code \in [Code -> CoreCodeRow]
    BY DEF CoreIInv, CoreRowsOK, CoreCodeRow
  <2>2. CASE Core!CreateCode
    BY <2>1, <2>2 DEF Core!CreateCode, CoreCodeRow, CoreSpent
  <2>3. CASE Core!Lapse
    <3>1. PICK k \in Code : code' = [code EXCEPT ![k].late = TRUE]
      BY <2>3 DEF Core!Lapse
    <3>2. QED
      BY <2>1, <3>1 DEF CoreCodeRow, CoreSpent
  <2>4. CASE UNCHANGED Core!vars
    BY <2>1, <2>4 DEF Core!vars, CoreSpent
  <2>5. QED
    BY <2>2, <2>3, <2>4
<1>3. CoreRowsOK' /\ CoreGrantsOK' /\ CoreMoves /\ \A h : CoreByHolder(h)
  BY <1>1, <1>2, CoreCodesMove
<1>4. ASSUME NEW c \in Caller PROVE CoreRequestOK(tokenReq[c])'
  <2>1. PICK r \in CoreRequestType : r = tokenReq[c]
    BY DEF CoreIInv
  <2>2. CoreRequestOK(r) /\ CoreRowsOK
    BY <2>1 DEF CoreIInv
  <2>3. CoreByHolder(Core!Idle) /\ Core!Idle.stage \notin {"connect", "family"}
    BY <1>3 DEF Core!Idle
  <2>4. CoreRequestOK(r)'
    BY <1>3, <2>2, <2>3, CoreRequestStable
  <2>5. r = tokenReq'[c]
    BY <1>1, <2>1
  <2>6. QED
    BY <2>4, <2>5 DEF CoreRequestOK, CoreSpent, CoreRevoked, CoreStarted
<1>5. QED
  BY <1>1, <1>3, <1>4 DEF CoreIInv, CoreOneHolder

LEMMA CoreNextOK ==
  ASSUME CoreIInv, [Core!Next]_(Core!vars)
  PROVE  CoreIInv'
<1>1. CASE Core!CreateCode \/ Core!Lapse \/ UNCHANGED Core!vars
  BY <1>1, CoreAroundOK
<1>2. ASSUME NEW c \in Caller, Core!Die(c)
      PROVE  CoreGood(c)
  BY <1>2, CoreReplies, CoreQuietIsGood DEF Core!Die
<1>3. ASSUME NEW c \in Caller,
        \/ Core!BeginRedeem(c) \/ Core!Expire(c) \/ Core!Claim(c) \/ Core!Check(c) \/ Core!Connect(c) \/ Core!StartFamily(c)
        \/ Core!IssueAccess(c) \/ Core!IssueRefresh(c)
        \/ Core!BeginCall(c) \/ Core!BeginRotate(c) \/ Core!LookAtFamily(c) \/ Core!Freshness(c) \/ Core!Serve(c)
        \/ Core!Rotate(c) \/ Core!BeginRevoke(c) \/ Core!Drop(c) \/ Core!Disconnect(c) \/ Core!Retire(c) \/ Core!List(c)
        \/ Core!RevokeFamily(c) \/ Core!RevokeRefreshes(c) \/ Core!RevokeAccesses(c) \/ Core!AnswerRevoked(c)
      PROVE  CoreGood(c)
  BY <1>3, CoreBeginIsGood, CoreExpireIsGood, CoreClaimIsGood, CoreCheckIsGood, CoreConnectIsGood,
     CoreStartFamilyIsGood, CoreIssueAccessIsGood, CoreTokenStepIsGood, CoreUseIsGood,
     CoreDisconnectIsGood,
     CoreRetireIsGood, CoreListIsGood, CoreRevokeFamilyIsGood, CoreRevokeTokensIsGood,
     CoreAnswerRevokedIsGood,
     Zenon
<1>4. QED
  BY <1>1, <1>2, <1>3, CoreStepOfClient, Zenon DEF Core!Next

\* For any number of codes and requests, whichever of them die: a code yields
\* at most one grant, and a request that begins after a revocation was answered
\* is not let through.
THEOREM AuthorityIsKept == Core!Spec => []AuthorityKept
<1>1. CoreIInv /\ [Core!Next]_(Core!vars) => CoreIInv'
  BY CoreNextOK
<1>2. CoreIInv => Core!AuthorityKept
  BY DEF CoreIInv, CoreGrantsOK, CoreRequestOK, Core!AuthorityKept, Core!RevokedRefused
<1>3. QED
  BY <1>1, <1>2, CoreInitOK, PTL DEF AuthorityKept, Core!Spec
-----------------------------------------------------------------------------
(* Homes *)

HomeConnRow == [status: {"none", "active", "revoked"}, role: {"admin", "member"}]
HomeStored == [by: Conn, from: Inbox, to: SUBSET Inbox, body: Body]

HomeRoleOp == [kind: {"role"}, by: Conn, whom: Conn, role: {"admin", "member"}]
HomeRevokeOp == [kind: {"revoke"}, by: Conn, whom: Conn]
HomeCreateOp == [kind: {"create"}, by: Conn, inbox: Inbox, own: BOOLEAN]
HomeGrantOp == [kind: {"grant", "ungrant"}, by: Conn, inbox: Inbox, whom: Conn]
HomeSendOp == [kind: {"send"}, by: Conn, message: Letter, from: Inbox, to: SUBSET Inbox \ {{}}, body: Body]
HomeReadOp == [kind: {"read"}, by: Conn, inbox: Inbox]
HomeAckOp == [kind: {"ack"}, by: Conn, inbox: Inbox, message: Letter]

HomeChecked == [stage: {"check", "write"}, op: Home!Request]
HomeSending == [stage: {"replay", "insert", "why"}, op: HomeSendOp]
HomeReading == [stage: {"fetch"}, op: HomeReadOp]
           \cup [stage: {"stamp", "last look"}, op: HomeReadOp, marked: SUBSET Letter]
HomeJoining == [stage: {"home", "create home", "attach", "again"}, by: Conn, wants: BOOLEAN]
HomeRequestType == [stage: {"idle"}] \cup HomeChecked \cup HomeSending \cup HomeReading \cup HomeJoining

\* The three facts that requests rely on after they read them.
HomeFound == \E a \in Conn : conns[a].status # "none"
HomeOfHome(i) == boxes[i] = "home"
HomePosted(m) == letters[m] # Home!Store!NoMessage

HomeRequestOK(r) ==
  /\ r.stage = "attach" => HomeFound
  /\ r.stage = "write" => (r.op.kind = "ungrant" => HomeOfHome(r.op.inbox))
  /\ r.stage = "stamp" => \A m \in r.marked : Home!Store!Delivered(m, r.op.inbox)

HomeConnsOK == /\ conns \in [Conn -> HomeConnRow]
               /\ \A a \in Conn : conns[a].status = "none" => conns[a] = Home!Store!NoConn
HomeRightsOK == rights \in [Inbox -> [Conn -> SUBSET Home!Store!Cap]]
HomeMessagesOK == letters \in [Letter -> {Home!Store!NoMessage} \cup HomeStored]

HomeRowsOK == /\ HomeConnsOK /\ HomeRightsOK /\ HomeMessagesOK
              /\ boxes \in [Inbox -> {"none", "home"} \cup Conn]
              /\ answered \subseteq HomeSendOp
              /\ Home!SomebodyAdministers /\ Home!RevokedHoldsNothing /\ Home!SentIsStored

HomeIInv == /\ HomeRowsOK
            /\ homeReq \in [Caller -> HomeRequestType]
            /\ \A c \in Caller : HomeRequestOK(homeReq[c])

\* Nobody takes them back.
HomeStays == /\ HomeFound => HomeFound'
             /\ \A i \in Inbox : HomeOfHome(i) => HomeOfHome(i)'
             /\ \A m \in Letter : HomePosted(m) => letters'[m] = letters[m]

HomeMapped == Home!tables' # Home!tables => Home!Store!Next

HomeGoes(c) == \E r \in HomeRequestType : Home!Become(c, r) /\ HomeRequestOK(r)'

HomeGood(c) == HomeRowsOK' /\ HomeStays /\ HomeMapped /\ HomeGoes(c)

LEMMA HomeRequestStable ==
  ASSUME HomeIInv, HomeStays, NEW r \in HomeRequestType, HomeRequestOK(r)
  PROVE  HomeRequestOK(r)'
<1>1. r.stage = "attach" => HomeFound'
  BY DEF HomeRequestOK, HomeStays
<1>2. r.stage = "write" => (r.op.kind = "ungrant" => HomeOfHome(r.op.inbox)')
  <2>1. r.stage = "write" => r.op \in Home!Request
    BY DEF HomeRequestType, HomeChecked, HomeSending, HomeReading, HomeJoining
  <2>2. r.stage = "write" => (r.op.kind = "ungrant" => r.op.inbox \in Inbox)
    BY <2>1 DEF Home!Request
  <2>3. QED
    BY <2>2 DEF HomeRequestOK, HomeStays
<1>3. ASSUME r.stage = "stamp", NEW m \in r.marked PROVE Home!Store!Delivered(m, r.op.inbox)'
  <2>1. m \in Letter
    BY <1>3 DEF HomeRequestType, HomeChecked, HomeSending, HomeReading, HomeJoining
  <2>2. Home!Store!Delivered(m, r.op.inbox)
    BY <1>3 DEF HomeRequestOK
  <2>3. QED
    BY <2>1, <2>2 DEF HomeStays, HomePosted, Home!Store!Delivered
<1>4. QED
  BY <1>1, <1>2, <1>3 DEF HomeRequestOK

LEMMA HomeStepOfClient ==
  ASSUME HomeIInv, NEW c \in Caller, HomeGood(c)
  PROVE  HomeIInv' /\ HomeMapped
<1>1. PICK r \in HomeRequestType : Home!Become(c, r) /\ HomeRequestOK(r)'
  BY DEF HomeGood, HomeGoes
<1>2. homeReq' \in [Caller -> HomeRequestType] /\ homeReq'[c] = r /\ \A d \in Caller \ {c} : homeReq'[d] = homeReq[d]
  BY <1>1 DEF HomeIInv, Home!Become
<1>3. ASSUME NEW d \in Caller PROVE HomeRequestOK(homeReq[d])'
  <2>1. CASE d = c
    BY <1>1, <1>2, <2>1 DEF HomeRequestOK
  <2>2. CASE d # c
    <3>1. PICK q \in HomeRequestType : q = homeReq[d] /\ HomeRequestOK(q)
      BY DEF HomeIInv
    <3>2. HomeRequestOK(q)'
      BY <3>1, HomeRequestStable DEF HomeGood
    <3>3. homeReq'[d] = q
      BY <1>2, <2>2, <3>1
    <3>4. QED
      BY <3>2, <3>3 DEF HomeRequestOK
  <2>3. QED
    BY <2>1, <2>2
<1>4. QED
  BY <1>2, <1>3 DEF HomeIInv, HomeGood

LEMMA HomeIdleOK == Home!Idle \in HomeRequestType /\ Home!Idle.stage = "idle"
BY DEF Home!Idle, HomeRequestType

LEMMA HomeReplyGoes == ASSUME NEW c \in Caller, Home!Reply(c) PROVE HomeGoes(c)
<1>1. HomeRequestOK(Home!Idle)'
  BY HomeIdleOK DEF HomeRequestOK
<1>2. QED
  BY <1>1, HomeIdleOK DEF Home!Reply, HomeGoes

\* Nothing is written: a stutter of the store.
LEMMA HomeLooksOK ==
  ASSUME HomeIInv, UNCHANGED <<Home!tables, answered>>
  PROVE  HomeRowsOK' /\ HomeStays /\ HomeMapped
<1>1. UNCHANGED <<conns, boxes, rights, letters, opened, noted, answered>>
  BY DEF Home!tables
<1>2. HomeRowsOK'
  BY <1>1 DEF HomeIInv, HomeRowsOK, HomeConnsOK, HomeRightsOK, HomeMessagesOK,
     Home!SomebodyAdministers,
     Home!RevokedHoldsNothing, Home!SentIsStored, Home!ActiveAdmins, Home!AdminGuard
<1>3. HomeStays
  BY <1>1 DEF HomeStays, HomeFound, HomeOfHome, HomePosted
<1>4. HomeMapped
  BY DEF HomeMapped
<1>5. QED
  BY <1>2, <1>3, <1>4

\* What is on the way with a request: of a stage, an operation of a kind.
LEMMA HomeSorts ==
  ASSUME HomeIInv, NEW c \in Caller
  PROVE  /\ Home!At(c, "check") \/ Home!At(c, "write") => homeReq[c] \in HomeChecked
         /\ Home!At(c, "replay") \/ Home!At(c, "insert") \/ Home!At(c, "why") => homeReq[c] \in HomeSending
         /\ Home!At(c, "fetch") => homeReq[c] \in [stage: {"fetch"}, op: HomeReadOp]
         /\ Home!At(c, "stamp") \/ Home!At(c, "last look") =>
              homeReq[c] \in [stage: {"stamp", "last look"}, op: HomeReadOp, marked: SUBSET Letter]
         /\ Home!At(c, "home") \/ Home!At(c, "create home") \/ Home!At(c, "attach") \/ Home!At(c, "again") =>
              homeReq[c] \in HomeJoining
<1>1. homeReq[c] \in HomeRequestType
  BY DEF HomeIInv
<1>2. QED
  BY <1>1 DEF Home!At, HomeRequestType, HomeChecked, HomeSending, HomeReading, HomeJoining

LEMMA HomeKinds ==
  ASSUME NEW op \in Home!Request
  PROVE  /\ op.kind = "role" => op \in HomeRoleOp
         /\ op.kind = "revoke" => op \in HomeRevokeOp
         /\ op.kind = "create" => op \in HomeCreateOp
         /\ op.kind \in {"grant", "ungrant"} => op \in HomeGrantOp
         /\ op.kind = "send" => op \in HomeSendOp
         /\ op.kind = "read" => op \in HomeReadOp
         /\ op.kind = "ack" => op \in HomeAckOp
         /\ op.kind \in {"role", "revoke", "create", "grant", "ungrant", "send", "read", "ack"}
BY DEF Home!Request, HomeRoleOp, HomeRevokeOp, HomeCreateOp, HomeGrantOp, HomeSendOp, HomeReadOp,
   HomeAckOp

-----------------------------------------------------------------------------
\* Looking

LEMMA HomeBeginOK == ASSUME HomeIInv, NEW c \in Caller, Home!Begin(c) PROVE HomeGood(c)
<1>1. PICK op \in Home!Request : Home!Become(c, [stage |-> "check", op |-> op])
  BY DEF Home!Begin
<1> DEFINE r == [stage |-> "check", op |-> op]
<1>2. r \in HomeRequestType /\ r.stage = "check"
  BY DEF HomeRequestType, HomeChecked
<1>3. Home!Become(c, r)
  BY <1>1
<1> HIDE DEF r
<1>4. HomeRequestOK(r)'
  BY <1>2 DEF HomeRequestOK
<1>5. HomeGoes(c)
  BY <1>2, <1>3, <1>4 DEF HomeGoes
<1>6. QED
  BY <1>5, HomeLooksOK DEF Home!Begin, HomeGood

LEMMA HomeBeginEnsureOK == ASSUME HomeIInv, NEW c \in Caller, Home!BeginEnsure(c) PROVE HomeGood(c)
<1>1. PICK a \in Conn, wants \in BOOLEAN :
        Home!Become(c, [stage |-> "home", by |-> a, wants |-> wants])
  BY DEF Home!BeginEnsure
<1> DEFINE r == [stage |-> "home", by |-> a, wants |-> wants]
<1>2. r \in HomeRequestType /\ r.stage = "home"
  BY DEF HomeRequestType, HomeJoining
<1>3. Home!Become(c, r)
  BY <1>1
<1> HIDE DEF r
<1>4. HomeRequestOK(r)'
  BY <1>2 DEF HomeRequestOK
<1>5. HomeGoes(c)
  BY <1>2, <1>3, <1>4 DEF HomeGoes
<1>6. QED
  BY <1>5, HomeLooksOK DEF Home!BeginEnsure, HomeGood

LEMMA HomeCheckOK == ASSUME HomeIInv, NEW c \in Caller, Home!Check(c) PROVE HomeGood(c)
<1>1. PICK q \in HomeChecked : q = homeReq[c]
  BY HomeSorts DEF Home!Check
<1>2. PICK op \in Home!Request : op = q.op
  BY DEF HomeChecked
<1>3. UNCHANGED <<Home!tables, answered>>
  BY DEF Home!Check
<1>4. ASSUME ~Home!Reply(c) PROVE HomeGoes(c)
  <2>1. PICK stage \in {"fetch", "replay", "write"} :
          /\ Home!Plausible(op) /\ Home!Goto(c, stage)
          /\ stage = "fetch" => op.kind = "read"
          /\ stage = "replay" => op.kind = "send"
    BY <1>1, <1>2, <1>4 DEF Home!Check
  <2> DEFINE r == [q EXCEPT !.stage = stage]
  <2>2. r.stage = stage /\ r.op = op
    BY <1>2 DEF HomeChecked
  <2>3. r \in HomeRequestType
    <3>1. stage = "write" => r \in HomeChecked
      BY DEF HomeChecked
    <3>2. stage = "fetch" => r \in HomeReading
      BY <1>2, <2>1, HomeKinds DEF HomeChecked, HomeReading
    <3>3. stage = "replay" => r \in HomeSending
      BY <1>2, <2>1, HomeKinds DEF HomeChecked, HomeSending
    <3>4. QED
      BY <3>1, <3>2, <3>3 DEF HomeRequestType
  <2>4. Home!Become(c, r)
    BY <1>1, <2>1 DEF Home!Goto
  <2> HIDE DEF r
  <2>5. op.kind = "ungrant" => HomeOfHome(op.inbox)
    BY <2>1 DEF Home!Plausible, HomeOfHome
  <2>6. HomeRequestOK(r)'
    BY <1>3, <2>2, <2>5 DEF HomeRequestOK, HomeOfHome, Home!tables
  <2>7. QED
    BY <2>3, <2>4, <2>6 DEF HomeGoes
<1>5. QED
  BY <1>3, <1>4, HomeLooksOK, HomeReplyGoes DEF HomeGood

\* A joining request goes on to another stage.
LEMMA HomeJoinGoes ==
  ASSUME HomeIInv, NEW c \in Caller, NEW q \in HomeJoining, q = homeReq[c],
         NEW stage \in {"home", "create home", "attach", "again"},
         Home!Become(c, [q EXCEPT !.stage = stage]), stage = "attach" => HomeFound'
  PROVE  HomeGoes(c)
<1> DEFINE r == [q EXCEPT !.stage = stage]
<1>1. r \in HomeRequestType /\ r.stage = stage
  BY DEF HomeRequestType, HomeJoining
<1>2. Home!Become(c, r)
  OBVIOUS
<1> HIDE DEF r
<1>3. HomeRequestOK(r)'
  BY <1>1 DEF HomeRequestOK
<1>4. QED
  BY <1>1, <1>2, <1>3 DEF HomeGoes

LEMMA HomeFindHomeOK == ASSUME HomeIInv, NEW c \in Caller, Home!FindHome(c) PROVE HomeGood(c)
<1>1. PICK q \in HomeJoining : q = homeReq[c]
  BY HomeSorts DEF Home!FindHome
<1>2. PICK stage \in {"create home", "attach"} :
        /\ Home!Become(c, [q EXCEPT !.stage = stage])
        /\ stage = "attach" => HomeFound
  BY <1>1 DEF Home!FindHome, HomeFound
<1>3. UNCHANGED <<Home!tables, answered>>
  BY DEF Home!FindHome
<1>4. HomeStays
  BY <1>3, HomeLooksOK
<1>5. stage = "attach" => HomeFound'
  BY <1>2, <1>4 DEF HomeStays
<1>6. HomeGoes(c)
  BY <1>1, <1>2, <1>5, HomeJoinGoes
<1>7. QED
  BY <1>3, <1>6, HomeLooksOK DEF HomeGood

LEMMA HomeAgainOK == ASSUME HomeIInv, NEW c \in Caller, Home!Again(c) PROVE HomeGood(c)
<1>1. PICK q \in HomeJoining : q = homeReq[c]
  BY HomeSorts DEF Home!Again
<1>2. Home!Reply(c) \/ Home!Become(c, [q EXCEPT !.stage = "home"])
  BY <1>1 DEF Home!Again, Home!Goto
<1>3. HomeGoes(c)
  BY <1>1, <1>2, HomeReplyGoes, HomeJoinGoes
<1>4. QED
  BY <1>3, HomeLooksOK DEF Home!Again, HomeGood

LEMMA HomeLastLookOK == ASSUME HomeIInv, NEW c \in Caller, Home!LastLook(c) PROVE HomeGood(c)
BY HomeReplyGoes, HomeLooksOK DEF Home!LastLook, HomeGood

LEMMA HomeDieOK == ASSUME HomeIInv, NEW c \in Caller, Home!Die(c) PROVE HomeGood(c)
BY HomeReplyGoes, HomeLooksOK DEF Home!Die, HomeGood

-----------------------------------------------------------------------------
\* Connections

\* A connection is written, and nothing else but its rights: what is left to
\* show is that an admin is left.
LEMMA HomeConnOK ==
  ASSUME HomeIInv, NEW a \in Conn, NEW row \in HomeConnRow, row.status # "none",
         conns' = [conns EXCEPT ![a] = row], UNCHANGED <<boxes, letters, answered>>,
         HomeRightsOK', Home!RevokedHoldsNothing', Home!ActiveAdmins' # {}
  PROVE  HomeRowsOK' /\ HomeStays
<1>1. conns'[a] = row /\ \A b \in Conn \ {a} : conns'[b] = conns[b]
  BY DEF HomeIInv, HomeRowsOK, HomeConnsOK
<1>2. HomeConnsOK'
  BY <1>1 DEF HomeIInv, HomeRowsOK, HomeConnsOK
<1>3. HomeStays
  BY <1>1 DEF HomeStays, HomeFound, HomeOfHome, HomePosted
<1>4. QED
  BY <1>2, <1>3 DEF HomeIInv, HomeRowsOK, HomeMessagesOK, Home!SomebodyAdministers,
     Home!SentIsStored

LEMMA HomeJoinedOK ==
  ASSUME HomeIInv, NEW a \in Conn, NEW row \in HomeConnRow, row.status = "active",
         conns[a].status = "none",
         row.role = "admin" \/ HomeFound,
         conns' = [conns EXCEPT ![a] = row], UNCHANGED <<boxes, rights, letters, answered>>
  PROVE  HomeRowsOK' /\ HomeStays
<1>1. conns'[a] = row /\ \A b \in Conn \ {a} : conns'[b] = conns[b]
  BY DEF HomeIInv, HomeRowsOK, HomeConnsOK
<1>2. HomeRightsOK' /\ Home!RevokedHoldsNothing'
  BY <1>1 DEF HomeIInv, HomeRowsOK, HomeRightsOK, Home!RevokedHoldsNothing
<1>3. Home!ActiveAdmins' # {}
  <2>1. CASE row.role = "admin"
    BY <1>1, <2>1 DEF Home!ActiveAdmins, Home!AdminGuard
  <2>2. CASE HomeFound
    <3>1. PICK b \in Conn : Home!AdminGuard(b)
      BY <2>2 DEF HomeIInv, HomeRowsOK, Home!SomebodyAdministers, HomeFound, Home!ActiveAdmins
    <3>2. b # a /\ Home!AdminGuard(b)'
      BY <1>1, <3>1 DEF Home!AdminGuard
    <3>3. QED
      BY <3>2 DEF Home!ActiveAdmins
  <2>3. QED
    BY <2>1, <2>2
<1>4. QED
  BY <1>1, <1>2, <1>3, HomeConnOK

\* Whoever has no row is as nobody to the store.
LEMMA HomeSameConns ==
  ASSUME HomeIInv
  PROVE  /\ \A a \in Conn : conns[a].status = "none" <=> conns[a] = Home!Store!NoConn
         /\ Home!Store!Admins = Home!ActiveAdmins
BY DEF HomeIInv, HomeRowsOK, HomeConnsOK, Home!Store!NoConn, Home!Store!Admins, Home!Store!Active,
   Home!ActiveAdmins, Home!AdminGuard

LEMMA HomeCreateHomeOK == ASSUME HomeIInv, NEW c \in Caller, Home!CreateHome(c) PROVE HomeGood(c)
<1>1. PICK q \in HomeJoining : q = homeReq[c]
  BY HomeSorts DEF Home!CreateHome
<1>2. UNCHANGED <<boxes, rights, letters, opened, noted, answered>>
  BY DEF Home!CreateHome
<1>3. ASSUME Home!Become(c, [q EXCEPT !.stage = "again"]), UNCHANGED conns PROVE HomeGood(c)
  BY <1>1, <1>2, <1>3, HomeJoinGoes, HomeLooksOK DEF HomeGood, Home!tables
<1>4. ASSUME \A a \in Conn : conns[a].status = "none",
             conns' = [conns EXCEPT ![q.by] = [status |-> "active", role |-> "admin"]], Home!Reply(c)
      PROVE  HomeGood(c)
  <2>1. [status |-> "active", role |-> "admin"] \in HomeConnRow /\ q.by \in Conn
    BY DEF HomeConnRow, HomeJoining
  <2>2. HomeRowsOK' /\ HomeStays
    BY <1>2, <1>4, <2>1, HomeJoinedOK
  <2>3. Home!Store!EnsureDefaultHome(q.by)
    BY <1>2, <1>4, <2>1, HomeSameConns DEF Home!Store!EnsureDefaultHome
  <2>4. HomeMapped
    BY <2>1, <2>3 DEF HomeMapped, Home!Store!Next
  <2>5. QED
    BY <1>4, <2>2, <2>4, HomeReplyGoes DEF HomeGood
<1>5. QED
  BY <1>1, <1>3, <1>4 DEF Home!CreateHome, Home!Goto

LEMMA HomeAttachOK == ASSUME HomeIInv, NEW c \in Caller, Home!Attach(c) PROVE HomeGood(c)
<1>1. PICK q \in HomeJoining : q = homeReq[c] /\ HomeFound
  BY HomeSorts DEF Home!Attach, Home!At, HomeIInv, HomeRequestOK
<1>2. UNCHANGED <<boxes, rights, letters, opened, noted, answered>>
  BY DEF Home!Attach
<1>3. ASSUME Home!Become(c, [q EXCEPT !.stage = "again"]), UNCHANGED conns PROVE HomeGood(c)
  BY <1>1, <1>2, <1>3, HomeJoinGoes, HomeLooksOK DEF HomeGood, Home!tables
<1>4. ASSUME conns[q.by].status = "none", Home!Reply(c),
             conns' = [conns EXCEPT ![q.by] =
               [status |-> "active",
                role |-> IF q.wants /\ Home!ActiveAdmins = {} THEN "admin" ELSE "member"]]
      PROVE  HomeGood(c)
  <2>1. PICK role \in {"admin", "member"} :
          role = IF q.wants /\ Home!ActiveAdmins = {} THEN "admin" ELSE "member"
    OBVIOUS
  <2>2. /\ [status |-> "active", role |-> role] \in HomeConnRow /\ q.by \in Conn
        /\ q.wants \in BOOLEAN
    BY DEF HomeConnRow, HomeJoining
  <2>3. conns' = [conns EXCEPT ![q.by] = [status |-> "active", role |-> role]]
    BY <1>4, <2>1
  <2>4. HomeRowsOK' /\ HomeStays
    BY <1>1, <1>2, <1>4, <2>2, <2>3, HomeJoinedOK
  <2>5. ~(\A b \in Conn : conns[b] = Home!Store!NoConn)
    BY <1>1, HomeSameConns DEF HomeFound
  <2>6. role = IF (\A b \in Conn : conns[b] = Home!Store!NoConn) \/ (q.wants /\ Home!Store!Admins = {})
               THEN "admin" ELSE "member"
    BY <2>1, <2>5, HomeSameConns
  <2>7. Home!Store!EnsureDefaultHome(q.by)
    BY <1>2, <1>4, <2>2, <2>3, <2>6, HomeSameConns DEF Home!Store!EnsureDefaultHome
  <2>8. HomeMapped
    BY <2>2, <2>7 DEF HomeMapped, Home!Store!Next
  <2>9. QED
    BY <1>4, <2>4, <2>8, HomeReplyGoes DEF HomeGood
<1>5. QED
  BY <1>1, <1>3, <1>4 DEF Home!Attach, Home!Goto

LEMMA HomeOneOfOne == \A a : Home!Cardinality({a}) = 1
BY FS_Singleton DEF Cardinality, Home!Cardinality

\* The last admin is protected: another is left when this one goes.
LEMMA HomeAnotherIsLeft ==
  ASSUME HomeIInv, NEW a \in Conn, conns[a].status # "none",
         a \notin Home!ActiveAdmins \/ Home!Cardinality(Home!ActiveAdmins) > 1
  PROVE  /\ Home!ActiveAdmins # {a}
         /\ \E b \in Home!ActiveAdmins : b # a
<1>1. Home!ActiveAdmins # {}
  BY DEF HomeIInv, HomeRowsOK, Home!SomebodyAdministers
<1>2. Home!ActiveAdmins # {a}
  BY HomeOneOfOne
<1>3. QED
  BY <1>1, <1>2

LEMMA HomeSetRoleOK == ASSUME HomeIInv, NEW c \in Caller, Home!SetRole(c) PROVE HomeGood(c)
<1>1. PICK q \in HomeChecked : q = homeReq[c] /\ q.op.kind = "role"
  BY HomeSorts DEF Home!SetRole, Home!Write
<1>2. PICK op \in HomeRoleOp : op = q.op
  BY <1>1, HomeKinds DEF HomeChecked
<1>3. UNCHANGED <<boxes, rights, letters, opened, noted, answered>> /\ Home!Reply(c)
  BY DEF Home!SetRole, Home!Write
<1>4. op.whom \in Conn /\ op.by \in Conn /\ op.role \in {"admin", "member"}
  BY DEF HomeRoleOp
<1>5. ASSUME Home!RoleAllowed(op), conns' = [conns EXCEPT ![op.whom].role = op.role]
      PROVE  HomeGood(c)
  <2>1. PICK row \in HomeConnRow : row = conns[op.whom] /\ row.status = "active"
    BY <1>4, <1>5 DEF Home!RoleAllowed, Home!ConnGuard, HomeIInv, HomeRowsOK, HomeConnsOK
  <2> DEFINE new == [row EXCEPT !.role = op.role]
  <2>2. new \in HomeConnRow /\ new.status = "active" /\ new.role = op.role
    BY <1>4, <2>1 DEF HomeConnRow
  <2>3. conns' = [conns EXCEPT ![op.whom] = new]
    BY <1>5, <2>1
  <2> HIDE DEF new
  <2>4. conns'[op.whom] = new /\ \A b \in Conn \ {op.whom} : conns'[b] = conns[b]
    BY <1>4, <2>3 DEF HomeIInv, HomeRowsOK, HomeConnsOK
  <2>5. HomeRightsOK' /\ Home!RevokedHoldsNothing'
    BY <1>3, <2>2, <2>4 DEF HomeIInv, HomeRowsOK, HomeRightsOK, Home!RevokedHoldsNothing
  <2>6. CASE op.role = "admin"
    <3>1. Home!ActiveAdmins' # {}
      BY <1>4, <2>2, <2>4, <2>6 DEF Home!ActiveAdmins, Home!AdminGuard
    <3>2. Home!Store!SetConnectionRole(op.by, op.whom, op.role)
      BY <1>3, <1>4, <1>5, <2>1, <2>6, HomeSameConns
         DEF Home!RoleAllowed, Home!Store!SetConnectionRole, Home!Store!Active, Home!ActiveAdmins
    <3>3. QED
      BY <1>3, <1>4, <2>2, <2>3, <2>5, <3>1, <3>2, HomeConnOK, HomeReplyGoes DEF HomeGood,
         HomeMapped, Home!Store!Next
  <2>7. CASE op.role = "member"
    <3>1. PICK b \in Home!ActiveAdmins : b # op.whom
      BY <1>4, <1>5, <2>1, <2>7, HomeAnotherIsLeft DEF Home!RoleAllowed
    <3>2. b \in Conn /\ Home!AdminGuard(b)
      BY DEF Home!ActiveAdmins
    <3>3. Home!AdminGuard(b)'
      BY <2>4, <3>1, <3>2 DEF Home!AdminGuard
    <3>4. Home!ActiveAdmins' # {}
      BY <3>2, <3>3 DEF Home!ActiveAdmins
    <3>5. Home!Store!SetConnectionRole(op.by, op.whom, op.role)
      BY <1>3, <1>4, <1>5, <2>1, <3>1, HomeSameConns
         DEF Home!RoleAllowed, Home!Store!SetConnectionRole, Home!Store!Active, Home!ActiveAdmins
    <3>6. QED
      BY <1>3, <1>4, <2>2, <2>3, <2>5, <3>4, <3>5, HomeConnOK, HomeReplyGoes DEF HomeGood,
         HomeMapped, Home!Store!Next
  <2>8. QED
    BY <1>4, <2>6, <2>7
<1>6. ASSUME UNCHANGED conns PROVE HomeGood(c)
  BY <1>3, <1>6, HomeLooksOK, HomeReplyGoes DEF HomeGood, Home!tables
<1>7. QED
  BY <1>1, <1>2, <1>5, <1>6 DEF Home!SetRole

LEMMA HomeRevokeOK == ASSUME HomeIInv, NEW c \in Caller, Home!Revoke(c) PROVE HomeGood(c)
<1>1. PICK q \in HomeChecked : q = homeReq[c] /\ q.op.kind = "revoke"
  BY HomeSorts DEF Home!Revoke, Home!Write
<1>2. PICK op \in HomeRevokeOp : op = q.op
  BY <1>1, HomeKinds DEF HomeChecked
<1>3. UNCHANGED <<boxes, letters, opened, noted, answered>> /\ Home!Reply(c)
  BY DEF Home!Revoke, Home!Write
<1>4. op.whom \in Conn /\ op.by \in Conn
  BY DEF HomeRevokeOp
<1>5. ASSUME Home!RevokeAllowed(op),
             conns' = [conns EXCEPT ![op.whom].status = "revoked"],
             rights' = [i \in Inbox |-> [rights[i] EXCEPT ![op.whom] = {}]]
      PROVE  HomeGood(c)
  <2>1. PICK row \in HomeConnRow : row = conns[op.whom] /\ row.status = "active"
    BY <1>4, <1>5 DEF Home!RevokeAllowed, Home!ConnGuard, HomeIInv, HomeRowsOK, HomeConnsOK
  <2> DEFINE new == [row EXCEPT !.status = "revoked"]
  <2>2. new \in HomeConnRow /\ new.status = "revoked"
    BY <2>1 DEF HomeConnRow
  <2>3. conns' = [conns EXCEPT ![op.whom] = new]
    BY <1>5, <2>1
  <2> HIDE DEF new
  <2>4. conns'[op.whom] = new /\ \A b \in Conn \ {op.whom} : conns'[b] = conns[b]
    BY <1>4, <2>3 DEF HomeIInv, HomeRowsOK, HomeConnsOK
  <2>5. HomeRightsOK'
    BY <1>4, <1>5 DEF HomeIInv, HomeRowsOK, HomeRightsOK
  <2>6. Home!RevokedHoldsNothing'
    <3>1. ASSUME NEW a \in Conn, NEW i \in Inbox, conns'[a].status = "revoked"
          PROVE  rights'[i][a] = {}
      <4>1. PICK old \in [Conn -> SUBSET Home!Store!Cap] : old = rights[i]
        BY DEF HomeIInv, HomeRowsOK, HomeRightsOK
      <4>2. rights'[i] = [old EXCEPT ![op.whom] = {}]
        BY <1>5, <4>1
      <4>3. CASE a = op.whom
        BY <1>4, <4>2, <4>3
      <4>4. CASE a # op.whom
        <5>1. old[a] = {}
          BY <2>4, <3>1, <4>1, <4>4 DEF HomeIInv, HomeRowsOK, Home!RevokedHoldsNothing
        <5>2. QED
          BY <4>2, <4>4, <5>1
      <4>5. QED
        BY <4>3, <4>4
    <3>2. QED
      BY <3>1 DEF Home!RevokedHoldsNothing
  <2>7. PICK b \in Home!ActiveAdmins : b # op.whom
    BY <1>4, <1>5, <2>1, HomeAnotherIsLeft DEF Home!RevokeAllowed
  <2>8. b \in Conn /\ Home!AdminGuard(b)
    BY DEF Home!ActiveAdmins
  <2>9. Home!AdminGuard(b)'
    BY <2>4, <2>7, <2>8 DEF Home!AdminGuard
  <2>10. Home!ActiveAdmins' # {}
    BY <2>8, <2>9 DEF Home!ActiveAdmins
  <2>11. op.by = op.whom \/ op.by \in Home!ActiveAdmins
    BY <1>4, <1>5 DEF Home!RevokeAllowed, Home!ActiveAdmins
  <2>12. Home!Store!Active(op.by) /\ Home!Store!Active(op.whom)
    BY <1>5 DEF Home!RevokeAllowed, Home!ConnGuard, Home!AdminGuard, Home!Store!Active
  <2>13. Home!Store!RevokeConnection(op.by, op.whom)
    BY <1>3, <1>5, <2>11, <2>12, HomeSameConns DEF Home!Store!RevokeConnection
  <2>14. HomeMapped
    BY <1>4, <2>13 DEF HomeMapped, Home!Store!Next
  <2>15. QED
    BY <1>3, <1>4, <2>2, <2>3, <2>5, <2>6, <2>10, <2>14, HomeConnOK, HomeReplyGoes DEF HomeGood
<1>6. ASSUME UNCHANGED <<conns, rights>> PROVE HomeGood(c)
  BY <1>3, <1>6, HomeLooksOK, HomeReplyGoes DEF HomeGood, Home!tables
<1>7. QED
  BY <1>1, <1>2, <1>5, <1>6 DEF Home!Revoke

-----------------------------------------------------------------------------
\* Inboxes and grants

\* One right is written, of a connection that is active if it is given any.
LEMMA HomeRightOK ==
  ASSUME HomeIInv, NEW i \in Inbox, NEW a \in Conn, NEW caps \in SUBSET Home!Store!Cap,
         caps = {} \/ Home!ConnGuard(a),
         rights' = [rights EXCEPT ![i][a] = caps], UNCHANGED <<conns, letters, answered>>,
         boxes' \in [Inbox -> {"none", "home"} \cup Conn],
         \A j \in Inbox : HomeOfHome(j) => HomeOfHome(j)'
  PROVE  HomeRowsOK' /\ HomeStays
<1>1. PICK old \in [Conn -> SUBSET Home!Store!Cap] : old = rights[i]
  BY DEF HomeIInv, HomeRowsOK, HomeRightsOK
<1> DEFINE new == [old EXCEPT ![a] = caps]
<1>2. new \in [Conn -> SUBSET Home!Store!Cap] /\ new[a] = caps /\ \A b \in Conn \ {a} : new[b] = old[b]
  OBVIOUS
<1>3. rights' = [rights EXCEPT ![i] = new]
  BY <1>1
<1> HIDE DEF new
<1>4. HomeRightsOK' /\ rights'[i] = new /\ \A j \in Inbox \ {i} : rights'[j] = rights[j]
  BY <1>2, <1>3 DEF HomeIInv, HomeRowsOK, HomeRightsOK
<1>5. Home!RevokedHoldsNothing'
  BY <1>1, <1>2, <1>4 DEF HomeIInv, HomeRowsOK, Home!RevokedHoldsNothing, Home!ConnGuard
<1>6. HomeRowsOK'
  BY <1>4, <1>5 DEF HomeIInv, HomeRowsOK, HomeConnsOK, HomeMessagesOK, Home!SomebodyAdministers,
     Home!SentIsStored,
     Home!ActiveAdmins, Home!AdminGuard
<1>7. HomeStays
  BY DEF HomeStays, HomeFound, HomePosted
<1>8. QED
  BY <1>6, <1>7

LEMMA HomeInboxOK ==
  ASSUME HomeIInv, UNCHANGED <<conns, rights, letters, answered>>,
         boxes' \in [Inbox -> {"none", "home"} \cup Conn],
         \A j \in Inbox : HomeOfHome(j) => HomeOfHome(j)'
  PROVE  HomeRowsOK' /\ HomeStays
<1>1. HomeRowsOK'
  BY DEF HomeIInv, HomeRowsOK, HomeConnsOK, HomeRightsOK, HomeMessagesOK,
     Home!SomebodyAdministers, Home!RevokedHoldsNothing,
     Home!SentIsStored, Home!ActiveAdmins, Home!AdminGuard
<1>2. QED
  BY <1>1 DEF HomeStays, HomeFound, HomePosted

LEMMA HomeCreateInboxOK == ASSUME HomeIInv, NEW c \in Caller, Home!CreateInbox(c) PROVE HomeGood(c)
<1>1. PICK q \in HomeChecked : q = homeReq[c] /\ q.op.kind = "create"
  BY HomeSorts DEF Home!CreateInbox, Home!Write
<1>2. PICK op \in HomeCreateOp : op = q.op
  BY <1>1, HomeKinds DEF HomeChecked
<1>3. UNCHANGED <<conns, letters, opened, noted, answered>> /\ Home!Reply(c)
  BY DEF Home!CreateInbox, Home!Write
<1>4. op.by \in Conn /\ op.inbox \in Inbox /\ op.own \in BOOLEAN
  BY DEF HomeCreateOp
<1>5. ASSUME IF op.own THEN Home!ConnGuard(op.by) ELSE Home!AdminGuard(op.by),
             boxes[op.inbox] = "none",
             boxes' = [boxes EXCEPT ![op.inbox] = IF op.own THEN op.by ELSE "home"],
             NEW granted \in BOOLEAN,
             rights' = IF op.own \/ granted THEN [rights EXCEPT ![op.inbox][op.by] = Home!Store!Cap]
                       ELSE rights
      PROVE  HomeGood(c)
  <2>1. Home!ConnGuard(op.by) /\ (op.own \/ op.by \in Home!ActiveAdmins)
    BY <1>4, <1>5 DEF Home!ConnGuard, Home!AdminGuard, Home!ActiveAdmins
  <2>2. /\ boxes' \in [Inbox -> {"none", "home"} \cup Conn]
        /\ \A j \in Inbox : HomeOfHome(j) => HomeOfHome(j)'
    BY <1>4, <1>5 DEF HomeIInv, HomeRowsOK, HomeOfHome
  <2>3. HomeRowsOK' /\ HomeStays
    BY <1>3, <1>4, <1>5, <2>1, <2>2, HomeRightOK, HomeInboxOK
  <2>4. Home!Store!CreateInbox(op.by, op.inbox, op.own, granted)
    BY <1>3, <1>5, <2>1, HomeSameConns DEF Home!Store!CreateInbox, Home!Store!Active, Home!ConnGuard
  <2>5. HomeMapped
    BY <1>4, <2>4 DEF HomeMapped, Home!Store!Next
  <2>6. QED
    BY <1>3, <2>3, <2>5, HomeReplyGoes DEF HomeGood
<1>6. ASSUME UNCHANGED <<boxes, rights>> PROVE HomeGood(c)
  BY <1>3, <1>6, HomeLooksOK, HomeReplyGoes DEF HomeGood, Home!tables
<1>7. QED
  BY <1>1, <1>2, <1>5, <1>6 DEF Home!CreateInbox

LEMMA HomeGrantOK == ASSUME HomeIInv, NEW c \in Caller, Home!Grant(c) PROVE HomeGood(c)
<1>1. PICK q \in HomeChecked : q = homeReq[c] /\ q.op.kind = "grant"
  BY HomeSorts DEF Home!Grant, Home!Write
<1>2. PICK op \in HomeGrantOp : op = q.op
  BY <1>1, HomeKinds DEF HomeChecked
<1>3. UNCHANGED <<conns, boxes, letters, opened, noted, answered>> /\ Home!Reply(c)
  BY DEF Home!Grant, Home!Write
<1>4. op.by \in Conn /\ op.inbox \in Inbox /\ op.whom \in Conn
  BY DEF HomeGrantOp
<1>5. ASSUME Home!GrantAllowed(op), NEW caps \in {Home!Store!Cap, {"read"}},
             rights' = [rights EXCEPT ![op.inbox][op.whom] = caps]
      PROVE  HomeGood(c)
  <2>1. caps \in SUBSET Home!Store!Cap
    BY DEF Home!Store!Cap
  <2>2. /\ boxes' \in [Inbox -> {"none", "home"} \cup Conn]
        /\ \A j \in Inbox : HomeOfHome(j) => HomeOfHome(j)'
    BY <1>3 DEF HomeIInv, HomeRowsOK, HomeOfHome
  <2>3. HomeRowsOK' /\ HomeStays
    BY <1>3, <1>4, <1>5, <2>1, <2>2, HomeRightOK DEF Home!GrantAllowed
  <2>4. op.by \in Home!Store!Admins /\ Home!Store!Active(op.whom) /\ boxes[op.inbox] = "home"
    BY <1>4, <1>5, HomeSameConns DEF Home!GrantAllowed, Home!ActiveAdmins, Home!Store!Active,
       Home!ConnGuard
  <2>5. Home!Store!GrantInbox(op.by, op.inbox, op.whom, caps)
    BY <1>3, <1>5, <2>4 DEF Home!Store!GrantInbox
  <2>6. HomeMapped
    BY <1>4, <2>1, <2>5 DEF HomeMapped, Home!Store!Next
  <2>7. QED
    BY <1>3, <2>3, <2>6, HomeReplyGoes DEF HomeGood
<1>6. ASSUME UNCHANGED rights PROVE HomeGood(c)
  BY <1>3, <1>6, HomeLooksOK, HomeReplyGoes DEF HomeGood, Home!tables
<1>7. QED
  BY <1>1, <1>2, <1>5, <1>6 DEF Home!Grant

LEMMA HomeRevokeGrantOK == ASSUME HomeIInv, NEW c \in Caller, Home!RevokeGrant(c) PROVE HomeGood(c)
<1>1. PICK q \in HomeChecked : q = homeReq[c] /\ q.op.kind = "ungrant" /\ q.stage = "write" /\ HomeRequestOK(q)
  BY HomeSorts DEF Home!RevokeGrant, Home!Write, Home!At, HomeIInv
<1>2. PICK op \in HomeGrantOp : op = q.op /\ op.kind = "ungrant"
  BY <1>1, HomeKinds DEF HomeChecked
<1>3. UNCHANGED <<conns, boxes, letters, opened, noted, answered>> /\ Home!Reply(c)
  BY DEF Home!RevokeGrant, Home!Write
<1>4. op.by \in Conn /\ op.inbox \in Inbox /\ op.whom \in Conn
  BY DEF HomeGrantOp
<1>5. ASSUME Home!AdminGuard(op.by), rights' = [rights EXCEPT ![op.inbox][op.whom] = {}]
      PROVE  HomeGood(c)
  <2>1. /\ boxes' \in [Inbox -> {"none", "home"} \cup Conn]
        /\ \A j \in Inbox : HomeOfHome(j) => HomeOfHome(j)'
    BY <1>3 DEF HomeIInv, HomeRowsOK, HomeOfHome
  <2>2. HomeRowsOK' /\ HomeStays
    <3>1. PICK caps \in SUBSET Home!Store!Cap : caps = {}
      OBVIOUS
    <3>2. rights' = [rights EXCEPT ![op.inbox][op.whom] = caps]
      BY <1>5, <3>1
    <3>3. QED
      BY <1>3, <1>4, <2>1, <3>1, <3>2, HomeRightOK
  <2>3. op.by \in Home!Store!Admins /\ boxes[op.inbox] = "home"
    BY <1>1, <1>2, <1>4, <1>5, HomeSameConns DEF Home!ActiveAdmins, HomeRequestOK, HomeOfHome
  <2>4. Home!Store!RevokeGrant(op.by, op.inbox, op.whom)
    BY <1>3, <1>5, <2>3 DEF Home!Store!RevokeGrant
  <2>5. HomeMapped
    BY <1>4, <2>4 DEF HomeMapped, Home!Store!Next
  <2>6. QED
    BY <1>3, <2>2, <2>5, HomeReplyGoes DEF HomeGood
<1>6. ASSUME UNCHANGED rights PROVE HomeGood(c)
  BY <1>3, <1>6, HomeLooksOK, HomeReplyGoes DEF HomeGood, Home!tables
<1>7. QED
  BY <1>1, <1>2, <1>5, <1>6 DEF Home!RevokeGrant

-----------------------------------------------------------------------------
\* Messages

\* Only what is read or acknowledged changes.
LEMMA HomeMarkedOK ==
  ASSUME HomeIInv, UNCHANGED <<conns, boxes, rights, letters, answered>>
  PROVE  HomeRowsOK' /\ HomeStays
<1>1. /\ boxes' \in [Inbox -> {"none", "home"} \cup Conn]
      /\ \A j \in Inbox : HomeOfHome(j) => HomeOfHome(j)'
  BY DEF HomeIInv, HomeRowsOK, HomeOfHome
<1>2. QED
  BY <1>1, HomeInboxOK

LEMMA HomeSameRights ==
  ASSUME NEW a, NEW i, NEW cap, Home!GrantGuard(a, i, cap)
  PROVE  Home!Store!Can(a, i, cap)
BY DEF Home!GrantGuard, Home!ConnGuard, Home!Store!Can, Home!Store!Active

LEMMA HomeAckOK == ASSUME HomeIInv, NEW c \in Caller, Home!Ack(c) PROVE HomeGood(c)
<1>1. PICK q \in HomeChecked : q = homeReq[c] /\ q.op.kind = "ack"
  BY HomeSorts DEF Home!Ack, Home!Write
<1>2. PICK op \in HomeAckOp : op = q.op
  BY <1>1, HomeKinds DEF HomeChecked
<1>3. UNCHANGED <<conns, boxes, rights, letters, answered>> /\ Home!Reply(c)
  BY DEF Home!Ack, Home!Write
<1>4. op.by \in Conn /\ op.inbox \in Inbox /\ op.message \in Letter
  BY DEF HomeAckOp
<1>5. ASSUME Home!Store!Delivered(op.message, op.inbox), Home!GrantGuard(op.by, op.inbox, "ack"),
             opened' = opened \cup {<<op.message, op.inbox>>},
             noted' = noted \cup {<<op.message, op.inbox>>}
      PROVE  HomeGood(c)
  <2>1. Home!Store!Ack(op.by, op.inbox, op.message)
    BY <1>3, <1>5, HomeSameRights DEF Home!Store!Ack
  <2>2. HomeMapped
    BY <1>4, <2>1 DEF HomeMapped, Home!Store!Next
  <2>3. QED
    BY <1>3, <2>2, HomeMarkedOK, HomeReplyGoes DEF HomeGood
<1>6. ASSUME UNCHANGED <<opened, noted>> PROVE HomeGood(c)
  BY <1>3, <1>6, HomeLooksOK, HomeReplyGoes DEF HomeGood, Home!tables
<1>7. QED
  BY <1>1, <1>2, <1>5, <1>6 DEF Home!Ack

\* A send is answered when it is what is stored.
LEMMA HomeAnsweredOK ==
  ASSUME HomeIInv, NEW c \in Caller, NEW op \in HomeSendOp, op = homeReq[c].op, Home!AnswerReplay(c), UNCHANGED Home!tables
  PROVE  HomeGood(c)
<1>1. UNCHANGED <<conns, boxes, rights, letters, opened, noted>> /\ Home!Reply(c)
  BY DEF Home!tables, Home!AnswerReplay
<1>2. answered' = IF Home!IsReplay(op) THEN answered \cup {op} ELSE answered
  BY DEF Home!AnswerReplay
<1>3. answered' \subseteq HomeSendOp /\ \A p \in answered' : letters[p.message] = Home!AsSent(p)
  BY <1>2 DEF HomeIInv, HomeRowsOK, Home!SentIsStored, Home!IsReplay
<1>4. HomeRowsOK'
  BY <1>1, <1>3 DEF HomeIInv, HomeRowsOK, HomeConnsOK, HomeRightsOK, HomeMessagesOK,
     Home!SomebodyAdministers,
     Home!RevokedHoldsNothing, Home!SentIsStored, Home!ActiveAdmins, Home!AdminGuard
<1>5. HomeStays /\ HomeMapped
  BY <1>1 DEF HomeStays, HomeFound, HomeOfHome, HomePosted, HomeMapped
<1>6. QED
  BY <1>1, <1>4, <1>5, HomeReplyGoes DEF HomeGood

\* A send goes on to another stage.
LEMMA HomeSendGoes ==
  ASSUME HomeIInv, NEW c \in Caller, NEW q \in HomeSending, q = homeReq[c],
         NEW stage \in {"insert", "why"}, Home!Goto(c, stage)
  PROVE  HomeGoes(c)
<1> DEFINE r == [q EXCEPT !.stage = stage]
<1>1. r \in HomeRequestType /\ r.stage = stage
  BY DEF HomeRequestType, HomeSending
<1>2. Home!Become(c, r)
  BY DEF Home!Goto
<1> HIDE DEF r
<1>3. HomeRequestOK(r)'
  BY <1>1 DEF HomeRequestOK
<1>4. QED
  BY <1>1, <1>2, <1>3 DEF HomeGoes

LEMMA HomeLookForReplayOK == ASSUME HomeIInv, NEW c \in Caller, Home!LookForReplay(c) PROVE HomeGood(c)
<1>1. PICK q \in HomeSending : q = homeReq[c]
  BY HomeSorts DEF Home!LookForReplay
<1>2. PICK op \in HomeSendOp : op = homeReq[c].op
  BY <1>1 DEF HomeSending
<1>3. UNCHANGED Home!tables
  BY DEF Home!LookForReplay
<1>4. ASSUME Home!Goto(c, "insert"), UNCHANGED answered PROVE HomeGood(c)
  BY <1>1, <1>3, <1>4, HomeSendGoes, HomeLooksOK DEF HomeGood
<1>5. ASSUME Home!AnswerReplay(c) PROVE HomeGood(c)
  BY <1>2, <1>3, <1>5, HomeAnsweredOK
<1>6. QED
  BY <1>4, <1>5 DEF Home!LookForReplay

LEMMA HomeClassifyOK == ASSUME HomeIInv, NEW c \in Caller, Home!Classify(c) PROVE HomeGood(c)
<1>1. PICK q \in HomeSending : q = homeReq[c]
  BY HomeSorts DEF Home!Classify
<1>2. PICK op \in HomeSendOp : op = homeReq[c].op
  BY <1>1 DEF HomeSending
<1>3. UNCHANGED Home!tables
  BY DEF Home!Classify
<1>4. ASSUME Home!Reply(c), UNCHANGED answered PROVE HomeGood(c)
  BY <1>3, <1>4, HomeReplyGoes, HomeLooksOK DEF HomeGood
<1>5. ASSUME Home!AnswerReplay(c) PROVE HomeGood(c)
  BY <1>2, <1>3, <1>5, HomeAnsweredOK
<1>6. QED
  BY <1>4, <1>5 DEF Home!Classify

LEMMA HomeInsertMessageOK == ASSUME HomeIInv, NEW c \in Caller, Home!InsertMessage(c) PROVE HomeGood(c)
<1>1. PICK q \in HomeSending : q = homeReq[c]
  BY HomeSorts DEF Home!InsertMessage
<1>2. PICK op \in HomeSendOp : op = q.op
  BY <1>1 DEF HomeSending
<1>3. UNCHANGED <<conns, boxes, rights, opened, noted>>
  BY DEF Home!InsertMessage
<1>4. ASSUME Home!Goto(c, "why"), UNCHANGED <<letters, answered>> PROVE HomeGood(c)
  BY <1>1, <1>3, <1>4, HomeSendGoes, HomeLooksOK DEF HomeGood, Home!tables
<1>5. ASSUME letters[op.message] = Home!Store!NoMessage, Home!SendAllowed(op), Home!Reply(c),
             letters' = [letters EXCEPT ![op.message] = Home!AsSent(op)],
             answered' = answered \cup {op}
      PROVE  HomeGood(c)
  <2>1. /\ op.message \in Letter /\ op.by \in Conn /\ op.from \in Inbox
        /\ op.to \in SUBSET Inbox /\ op.body \in Body
    BY DEF HomeSendOp
  <2>2. Home!AsSent(op) \in HomeStored
    BY <2>1 DEF Home!AsSent, HomeStored
  <2>3. HomeMessagesOK' /\ letters'[op.message] = Home!AsSent(op)
        /\ \A m \in Letter \ {op.message} : letters'[m] = letters[m]
    BY <1>5, <2>1, <2>2 DEF HomeIInv, HomeRowsOK, HomeMessagesOK
  <2>4. Home!SentIsStored' /\ answered' \subseteq HomeSendOp
    <3>1. ASSUME NEW p \in answered' PROVE letters'[p.message] = Home!AsSent(p)
      <4>1. CASE p = op
        BY <2>3, <4>1
      <4>2. CASE p \in answered
        <5>1. p \in HomeSendOp /\ letters[p.message] = Home!AsSent(p)
          BY <4>2 DEF HomeIInv, HomeRowsOK, Home!SentIsStored
        <5>2. Home!AsSent(p) # Home!Store!NoMessage /\ p.message \in Letter
          BY <5>1 DEF Home!AsSent, Home!Store!NoMessage, HomeSendOp
        <5>3. p.message # op.message
          BY <1>5, <5>1, <5>2
        <5>4. QED
          BY <2>3, <5>1, <5>2, <5>3
      <4>3. QED
        BY <1>5, <4>1, <4>2
    <3>2. answered' \subseteq HomeSendOp
      BY <1>5 DEF HomeIInv, HomeRowsOK
    <3>3. QED
      BY <3>1, <3>2 DEF Home!SentIsStored, Home!AsSent
  <2>5. HomeRowsOK'
    BY <1>3, <2>3, <2>4 DEF HomeIInv, HomeRowsOK, HomeConnsOK, HomeRightsOK,
       Home!SomebodyAdministers,
       Home!RevokedHoldsNothing, Home!ActiveAdmins, Home!AdminGuard
  <2>6. HomeStays
    BY <1>3, <1>5, <2>3 DEF HomeStays, HomeFound, HomeOfHome, HomePosted
  <2>7. Home!Store!Send(op.by, op.message, op.from, op.to, op.body)
    BY <1>3, <1>5, HomeSameRights DEF Home!Store!Send, Home!SendAllowed, Home!AsSent
  <2>8. HomeMapped
    BY <2>1, <2>7 DEF HomeMapped, Home!Store!Next
  <2>9. QED
    BY <1>5, <2>5, <2>6, <2>8, HomeReplyGoes DEF HomeGood
<1>6. QED
  BY <1>1, <1>2, <1>4, <1>5 DEF Home!InsertMessage

LEMMA HomeFetchOK == ASSUME HomeIInv, NEW c \in Caller, Home!Fetch(c) PROVE HomeGood(c)
<1>1. PICK q \in [stage: {"fetch"}, op: HomeReadOp] : q = homeReq[c]
  BY HomeSorts DEF Home!Fetch
<1>2. PICK op \in HomeReadOp, i \in Inbox : op = q.op /\ i = op.inbox
  BY DEF HomeReadOp
<1>3. PICK ms \in SUBSET {m \in Letter : Home!Store!Delivered(m, i) /\ <<m, i>> \notin opened} :
        Home!Become(c, [stage |-> IF ms = {} THEN "last look" ELSE "stamp", op |-> op, marked |-> ms])
  BY <1>1, <1>2 DEF Home!Fetch
<1>4. PICK stage \in {"last look", "stamp"} : stage = IF ms = {} THEN "last look" ELSE "stamp"
  OBVIOUS
<1>5. PICK marked \in SUBSET Letter : marked = ms /\ \A m \in marked : Home!Store!Delivered(m, i)
  OBVIOUS
<1> DEFINE r == [stage |-> stage, op |-> op, marked |-> marked]
<1>6. r \in HomeRequestType /\ r.stage = stage /\ r.op = op /\ r.marked = marked
  BY DEF HomeRequestType, HomeReading
<1>7. Home!Become(c, r)
  BY <1>3, <1>4, <1>5
<1> HIDE DEF r
<1>8. UNCHANGED <<Home!tables, answered>>
  BY DEF Home!Fetch
<1>9. \A m \in marked : Home!Store!Delivered(m, i)'
  BY <1>5, <1>8 DEF Home!tables, Home!Store!Delivered
<1>10. HomeRequestOK(r)'
  BY <1>2, <1>6, <1>9 DEF HomeRequestOK
<1>11. HomeGoes(c)
  BY <1>6, <1>7, <1>10 DEF HomeGoes
<1>12. QED
  BY <1>8, <1>11, HomeLooksOK DEF HomeGood

LEMMA HomeStampOK == ASSUME HomeIInv, NEW c \in Caller, Home!Stamp(c) PROVE HomeGood(c)
<1>1. PICK q \in [stage: {"stamp", "last look"}, op: HomeReadOp, marked: SUBSET Letter] :
        q = homeReq[c] /\ q.stage = "stamp" /\ HomeRequestOK(q)
  BY HomeSorts DEF Home!Stamp, Home!At, HomeIInv
<1>2. PICK op \in HomeReadOp : op = q.op /\ op.by \in Conn /\ op.inbox \in Inbox
  BY DEF HomeReadOp
<1>3. \A m \in q.marked : Home!Store!Delivered(m, op.inbox)
  BY <1>1, <1>2 DEF HomeRequestOK
<1>4. UNCHANGED <<conns, boxes, rights, letters, noted, answered>>
  BY DEF Home!Stamp
<1>5. HomeMapped
  <2>1. CASE Home!GrantGuard(op.by, op.inbox, "read")
    <3>1. opened' = opened \cup (q.marked \X {op.inbox})
      BY <1>1, <1>2, <2>1 DEF Home!Stamp
    <3>2. Home!Store!ReadInbox(op.by, op.inbox, q.marked)
      BY <1>3, <1>4, <2>1, <3>1, HomeSameRights DEF Home!Store!ReadInbox
    <3>3. q.marked \in SUBSET Letter
      OBVIOUS
    <3>4. QED
      BY <1>2, <3>2, <3>3 DEF HomeMapped, Home!Store!Next
  <2>2. CASE ~Home!GrantGuard(op.by, op.inbox, "read")
    <3>1. UNCHANGED opened
      BY <1>1, <1>2, <2>2 DEF Home!Stamp
    <3>2. QED
      BY <1>4, <3>1 DEF HomeMapped, Home!tables
  <2>3. QED
    BY <2>1, <2>2
<1> DEFINE r == [q EXCEPT !.stage = "last look"]
<1>6. r \in HomeRequestType /\ r.stage = "last look"
  BY DEF HomeRequestType, HomeReading
<1>7. Home!Become(c, r)
  BY <1>1 DEF Home!Stamp, Home!Goto
<1> HIDE DEF r
<1>8. HomeRequestOK(r)'
  BY <1>6 DEF HomeRequestOK
<1>9. QED
  BY <1>4, <1>5, <1>6, <1>7, <1>8, HomeMarkedOK DEF HomeGood, HomeGoes

-----------------------------------------------------------------------------
LEMMA HomeNextOK == ASSUME HomeIInv, Home!Next PROVE HomeIInv' /\ HomeMapped
<1>1. PICK c \in Caller :
        \/ Home!Begin(c) \/ Home!BeginEnsure(c) \/ Home!Check(c)
        \/ Home!FindHome(c) \/ Home!CreateHome(c) \/ Home!Attach(c) \/ Home!Again(c)
        \/ Home!SetRole(c) \/ Home!Revoke(c) \/ Home!CreateInbox(c) \/ Home!Grant(c) \/ Home!RevokeGrant(c) \/ Home!Ack(c)
        \/ Home!LookForReplay(c) \/ Home!InsertMessage(c) \/ Home!Classify(c)
        \/ Home!Fetch(c) \/ Home!Stamp(c) \/ Home!LastLook(c) \/ Home!Die(c)
  BY DEF Home!Next
<1>2. HomeGood(c)
  BY <1>1, HomeBeginOK, HomeBeginEnsureOK, HomeCheckOK, HomeFindHomeOK, HomeCreateHomeOK,
     HomeAttachOK, HomeAgainOK, HomeSetRoleOK,
     HomeRevokeOK, HomeCreateInboxOK, HomeGrantOK, HomeRevokeGrantOK, HomeAckOK,
     HomeLookForReplayOK, HomeInsertMessageOK,
     HomeClassifyOK, HomeFetchOK, HomeStampOK, HomeLastLookOK, HomeDieOK
<1>3. QED
  BY <1>2, HomeStepOfClient

LEMMA HomeStutterOK == ASSUME HomeIInv, UNCHANGED Home!vars PROVE HomeIInv' /\ HomeMapped
<1>1. UNCHANGED <<Home!tables, answered>> /\ UNCHANGED homeReq
  BY DEF Home!vars
<1>2. HomeRowsOK' /\ HomeStays /\ HomeMapped
  BY <1>1, HomeLooksOK
<1>3. ASSUME NEW c \in Caller PROVE HomeRequestOK(homeReq[c])'
  <2>1. PICK q \in HomeRequestType : q = homeReq[c] /\ HomeRequestOK(q)
    BY DEF HomeIInv
  <2>2. HomeRequestOK(q)' /\ homeReq'[c] = q
    BY <1>1, <1>2, <2>1, HomeRequestStable
  <2>3. QED
    BY <2>2 DEF HomeRequestOK
<1>4. QED
  BY <1>1, <1>2, <1>3 DEF HomeIInv

LEMMA HomeInitOK == Home!Init => HomeIInv
<1> SUFFICES ASSUME Home!Init PROVE HomeIInv
  OBVIOUS
<1>1. homeReq \in [Caller -> HomeRequestType] /\ \A c \in Caller : homeReq[c].stage = "idle"
  BY HomeIdleOK DEF Home!Init
<1>2. HomeConnsOK /\ \A a \in Conn : conns[a].status = "none"
  BY DEF Home!Init, Home!Store!Init, HomeConnsOK, HomeConnRow, Home!Store!NoConn
<1>3. HomeRightsOK /\ HomeMessagesOK /\ boxes \in [Inbox -> {"none", "home"} \cup Conn]
  BY DEF Home!Init, Home!Store!Init, HomeRightsOK, HomeMessagesOK
<1>4. Home!SomebodyAdministers /\ Home!RevokedHoldsNothing /\ Home!SentIsStored
  BY <1>2 DEF Home!Init, Home!SomebodyAdministers, Home!RevokedHoldsNothing, Home!SentIsStored
<1>5. QED
  BY <1>1, <1>2, <1>3, <1>4 DEF Home!Init, HomeIInv, HomeRowsOK, HomeRequestOK

\* A home with connections has an admin, a revoked connection holds no grant,
\* and a send answered with success is the one stored, for any number of
\* requests racing each other and dying between their calls (the
\* guarded statements and batches of the D1 store).
THEOREM HomeIsKept == Home!Spec => []HomeKept
<1>1. HomeIInv => Home!HomeKept
  BY DEF HomeIInv, HomeRowsOK, Home!HomeKept
<1>2. HomeIInv /\ [Home!Next]_(Home!vars) => HomeIInv'
  BY HomeNextOK, HomeStutterOK
<1>3. QED
  BY <1>1, <1>2, HomeInitOK, PTL DEF HomeKept, Home!Spec

\* Every step of the D1 store that changes a table is a step of the in-memory
\* store, which checks and writes at once (memory-store.js beside d1-store.js).
THEOREM HomeRefinesStore == Home!Spec => ImplementsHomeStore
<1>1. HomeIInv /\ [Home!Next]_(Home!vars) => HomeIInv' /\ HomeMapped
  BY HomeNextOK, HomeStutterOK
<1>2. HomeIInv /\ [Home!Next]_(Home!vars) => [Home!tables' # Home!tables => Home!Store!Next]_(Home!tables)
  BY <1>1 DEF HomeMapped
<1>3. QED
  BY <1>1, <1>2, HomeInitOK, PTL DEF ImplementsHomeStore, Home!Spec, Home!ImplementsHomeStore
-----------------------------------------------------------------------------
(* Sign-ins *)

SignInAccount == {"none"} \cup {Target[i] : i \in Invite} \cup {Enrolled[p] : p \in Passkey}
SignInStatuses == {"none", "pending", "authenticated"} \cup SignIn!Completed
SignInSessionRow == [status: SignInStatuses, account: SignInAccount,
                     authn: {"none", "invite"} \cup Passkey, stepUp: BOOLEAN]
SignInGrant == [account: SignInAccount, authn: {"none", "invite"} \cup Passkey, stepUp: BOOLEAN]

SignInInviteAsk == [kind: {"invite"}, session: Login, invite: Invite]
SignInProofAsk == [kind: {"assert", "register"}, session: Login, challenge: SignIn!Challenge, passkey: Passkey]

SignInStages == {"invite", "redeem", "invited", "issue", "challenge", "use", "overdue", "verify",
                 "step up", "claim", "mint", "deny"}
SignInWorking == [stage: SignInStages, ask: SignIn!Ask, row: SignInSessionRow]
SignInRequestType == [stage: {"idle"}] \cup SignInWorking

\* Whoever claims a verified user names a passkey of that account.
SignInBacked(g) ==
  g.stepUp => /\ g.authn \in Passkey
              /\ g.account # "none" /\ passkeys[g.authn] = g.account

\* A session has an account from when it is signed in.
SignInRowOK(s, row) ==
  /\ row.status \in {"none", "pending"} => row.account = "none"
  /\ row.status \in {"authenticated", "approved"} => row.account # "none"
  /\ SignInBacked(row)
  /\ row.authn = "invite" => \E i \in Invite : codeInvites[i] = s /\ Target[i] = row.account

SignInCodeOK(s) == \/ minted[s] = <<>>
                   \/ /\ logins[s].status = "approved"
                      /\ \E g \in SignInGrant : minted[s] = <<g>> /\ SignInBacked(g)

SignInRowsOK == /\ logins \in [Login -> SignInSessionRow]
                /\ codeInvites \in [Invite -> {"none", "unused", "expired"} \cup Login]
                /\ passkeys \in [Passkey -> SignInAccount]
                /\ DOMAIN minted = Login
                /\ \A s \in Login : SignInRowOK(s, logins[s]) /\ SignInCodeOK(s)

SignInSignedIn == {"registration", "register", "approve"}

SignInRequestOK(r) ==
  r.stage # "idle" =>
    /\ SignInBacked(r.row)
    /\ r.ask.kind \in SignInSignedIn => /\ r.row.account # "none"
                                        /\ logins[r.ask.session].account = r.row.account
    /\ r.stage \in {"invite", "redeem", "invited"} => r.ask \in SignInInviteAsk
    /\ r.stage = "invited" => codeInvites[r.ask.invite] = r.ask.session
    /\ r.stage \in {"challenge", "use", "overdue", "verify", "step up"} => r.ask \in SignInProofAsk
    /\ r.stage = "step up" => /\ r.ask.kind = "register"
                              /\ passkeys[r.ask.passkey] = r.row.account
    /\ r.stage \in {"claim", "mint"} => r.ask.kind = "approve"
    /\ r.stage = "mint" => logins[r.ask.session].status = "approved"

\* Who is about to mint is the only one, for a session without a code.
SignInOneMints ==
  \A c \in Caller : SignIn!At(c, "mint") =>
    /\ minted[loginReq[c].ask.session] = <<>>
    /\ \A d \in Caller : SignIn!At(d, "mint") /\ loginReq[d].ask.session = loginReq[c].ask.session => d = c

SignInIInv == /\ AccountsAreNamed
              /\ SignInRowsOK
              /\ loginReq \in [Caller -> SignInRequestType]
              /\ \A c \in Caller : SignInRequestOK(loginReq[c])
              /\ SignInOneMints

SignInFinal ==
  \A s \in Login :
    /\ logins[s].account # "none" => logins'[s].account = logins[s].account
    /\ logins[s].status \in SignIn!Completed => logins'[s].status = logins[s].status

\* Nobody takes back an account, a passkey, or the redemption of an invite.
SignInStays ==
  /\ SignInFinal
  /\ \A p \in Passkey : passkeys[p] # "none" => passkeys'[p] = passkeys[p]
  /\ \A i \in Invite : codeInvites[i] \in Login => codeInvites'[i] = codeInvites[i]

SignInMoves(c, r) == r \in SignInRequestType /\ SignIn!Become(c, r) /\ SignInRequestOK(r)'

SignInGoes(c) == \E r : SignInMoves(c, r) /\ r.stage # "mint"

SignInGood(c) == SignInRowsOK' /\ SignInStays /\ UNCHANGED minted /\ SignInGoes(c)

LEMMA SignInBackedStable ==
  ASSUME SignInStays, NEW g, SignInBacked(g)
  PROVE  SignInBacked(g)'
BY DEF SignInBacked, SignInStays

LEMMA SignInRequestStable ==
  ASSUME SignInIInv, SignInStays, NEW r \in SignInRequestType, SignInRequestOK(r)
  PROVE  SignInRequestOK(r)'
<1> SUFFICES ASSUME r.stage # "idle" PROVE SignInRequestOK(r)'
  BY DEF SignInRequestOK
<1>1. r.ask \in SignIn!Ask /\ r.row \in SignInSessionRow
  BY DEF SignInRequestType, SignInWorking
<1>2. r.ask.session \in Login
  BY <1>1 DEF SignIn!Ask
<1>3. SignInBacked(r.row)'
  BY SignInBackedStable DEF SignInRequestOK
<1>4. r.ask.kind \in SignInSignedIn => logins'[r.ask.session].account = r.row.account
  BY <1>2 DEF SignInRequestOK, SignInStays, SignInFinal
<1>5. r.stage = "invited" => codeInvites'[r.ask.invite] = r.ask.session
  <2>1. r.stage = "invited" => r.ask.invite \in Invite
    BY DEF SignInRequestOK, SignInInviteAsk
  <2>2. QED
    BY <1>2, <2>1 DEF SignInRequestOK, SignInStays
<1>6. r.stage = "step up" => passkeys'[r.ask.passkey] = r.row.account
  <2>1. r.stage = "step up" => r.ask.passkey \in Passkey /\ r.row.account # "none"
    BY DEF SignInRequestOK, SignInProofAsk, SignInSignedIn
  <2>2. QED
    BY <2>1 DEF SignInRequestOK, SignInStays
<1>7. r.stage = "mint" => logins'[r.ask.session].status = "approved"
  BY <1>2 DEF SignInRequestOK, SignInStays, SignInFinal, SignIn!Completed
<1>8. QED
  BY <1>3, <1>4, <1>5, <1>6, <1>7 DEF SignInRequestOK

LEMMA SignInRequestsOK ==
  ASSUME SignInIInv, SignInStays, NEW c \in Caller, NEW r, SignInMoves(c, r)
  PROVE  /\ loginReq' \in [Caller -> SignInRequestType]
         /\ \A d \in Caller : SignInRequestOK(loginReq[d])'
         /\ loginReq'[c] = r /\ \A d \in Caller \ {c} : loginReq'[d] = loginReq[d]
<1>1. loginReq' \in [Caller -> SignInRequestType] /\ loginReq'[c] = r /\ \A d \in Caller \ {c} : loginReq'[d] = loginReq[d]
  BY DEF SignInMoves, SignIn!Become, SignInIInv
<1>2. ASSUME NEW d \in Caller PROVE SignInRequestOK(loginReq[d])'
  <2>1. CASE d = c
    BY <1>1, <2>1 DEF SignInMoves, SignInRequestOK
  <2>2. CASE d # c
    <3>1. PICK q \in SignInRequestType : q = loginReq[d] /\ SignInRequestOK(q)
      BY DEF SignInIInv
    <3>2. SignInRequestOK(q)'
      BY <3>1, SignInRequestStable
    <3>3. loginReq'[d] = q
      BY <1>1, <2>2, <3>1
    <3>4. QED
      BY <3>2, <3>3 DEF SignInRequestOK
  <2>3. QED
    BY <2>1, <2>2
<1>3. QED
  BY <1>1, <1>2

LEMMA SignInStepOfClient ==
  ASSUME SignInIInv, NEW c \in Caller, SignInGood(c)
  PROVE  SignInIInv' /\ SignInFinal
<1>1. PICK r : SignInMoves(c, r) /\ r.stage # "mint"
  BY DEF SignInGood, SignInGoes
<1>2. /\ loginReq' \in [Caller -> SignInRequestType]
      /\ \A d \in Caller : SignInRequestOK(loginReq[d])'
      /\ loginReq'[c] = r /\ \A d \in Caller \ {c} : loginReq'[d] = loginReq[d]
  BY <1>1, SignInRequestsOK DEF SignInGood
<1>3. SignInOneMints'
  BY <1>1, <1>2 DEF SignInIInv, SignInOneMints, SignIn!At, SignInGood
<1>4. QED
  BY <1>2, <1>3 DEF SignInIInv, SignInGood, SignInStays

LEMMA SignInIdleOK == SignIn!Idle \in SignInRequestType /\ SignIn!Idle.stage = "idle"
BY DEF SignIn!Idle, SignInRequestType

LEMMA SignInReplyGoes == ASSUME NEW c \in Caller, SignIn!Reply(c) PROVE SignInGoes(c)
<1>1. SignInRequestOK(SignIn!Idle)'
  BY SignInIdleOK DEF SignInRequestOK
<1>2. QED
  BY <1>1, SignInIdleOK DEF SignIn!Reply, SignInGoes, SignInMoves

\* Nothing that is looked at changes.
LEMMA SignInLooksOK ==
  ASSUME SignInIInv, UNCHANGED <<logins, codeInvites, passkeys, minted>>
  PROVE  SignInRowsOK' /\ SignInStays /\ UNCHANGED minted
<1>1. SignInRowsOK'
  BY DEF SignInIInv, SignInRowsOK, SignInRowOK, SignInCodeOK, SignInBacked
<1>2. QED
  BY <1>1 DEF SignInStays, SignInFinal

LEMMA SignInReplyOK ==
  ASSUME SignInIInv, NEW c \in Caller, SignIn!Reply(c), UNCHANGED <<logins, codeInvites, passkeys, minted>>
  PROVE  SignInGood(c)
BY SignInLooksOK, SignInReplyGoes DEF SignInGood

\* What is to hold where a request goes on to a stage.
SignInMayGo(q, stage) ==
  /\ stage \in {"redeem", "invited"} => q.ask \in SignInInviteAsk
  /\ stage = "invited" => codeInvites[q.ask.invite] = q.ask.session
  /\ stage \in {"use", "overdue", "verify", "step up"} => q.ask \in SignInProofAsk
  /\ stage = "step up" => q.ask.kind = "register" /\ passkeys[q.ask.passkey] = q.row.account
  /\ stage = "mint" => q.ask.kind = "approve" /\ logins[q.ask.session].status = "approved"
  /\ stage \notin {"invite", "issue", "challenge", "claim", "deny"}

\* A request goes on to another stage, and knows no more than it did.
LEMMA SignInGoOn ==
  ASSUME SignInIInv, SignInStays, NEW c \in Caller, NEW q \in SignInWorking,
         q = loginReq[c], NEW stage \in SignInStages, SignIn!Goto(c, stage), SignInMayGo(q, stage)'
  PROVE  \E r : SignInMoves(c, r) /\ r.stage = stage /\ r.ask = q.ask
<1> DEFINE r == [q EXCEPT !.stage = stage]
<1>1. r \in SignInRequestType /\ r.stage = stage /\ r.ask = q.ask /\ r.row = q.row
  BY DEF SignInRequestType, SignInWorking
<1>2. SignIn!Become(c, r)
  BY DEF SignIn!Goto
<1>3. SignInRequestOK(q)'
  BY SignInRequestStable DEF SignInRequestType, SignInIInv
<1>4. q.stage # "idle"
  BY DEF SignInWorking, SignInStages
<1> HIDE DEF r
<1>5. SignInRequestOK(r)'
  BY <1>1, <1>3, <1>4 DEF SignInRequestOK, SignInMayGo
<1>6. QED
  BY <1>1, <1>2, <1>5 DEF SignInMoves

LEMMA SignInAtWork ==
  ASSUME SignInIInv, NEW c \in Caller, ~SignIn!At(c, "idle")
  PROVE  loginReq[c] \in SignInWorking /\ SignInRequestOK(loginReq[c])
BY DEF SignInIInv, SignInRequestType, SignInWorking, SignIn!At

LEMMA SignInAskOK == ASSUME NEW q \in SignInWorking PROVE q.ask \in SignIn!Ask /\ q.row \in SignInSessionRow /\ q.ask.session \in Login
BY DEF SignIn!Ask, SignInWorking

-----------------------------------------------------------------------------
\* Sessions

\* One session is written; what it was signed in as stays.
LEMMA SignInSessionOK ==
  ASSUME SignInIInv, NEW s \in Login, NEW row \in SignInSessionRow, SignInRowOK(s, row),
         logins[s].account # "none" => row.account = logins[s].account,
         logins[s].status \in SignIn!Completed => row.status = logins[s].status,
         logins' = [logins EXCEPT ![s] = row], UNCHANGED <<codeInvites, passkeys, minted>>
  PROVE  SignInRowsOK' /\ SignInStays
<1>1. /\ logins' \in [Login -> SignInSessionRow] /\ logins'[s] = row
      /\ \A t \in Login \ {s} : logins'[t] = logins[t]
  BY DEF SignInIInv, SignInRowsOK
<1>2. SignInStays
  BY <1>1 DEF SignInStays, SignInFinal
<1>3. \A t \in Login : SignInRowOK(t, logins[t])'
  BY <1>1 DEF SignInIInv, SignInRowsOK, SignInRowOK, SignInBacked
<1>4. \A t \in Login : SignInCodeOK(t)'
  BY <1>1 DEF SignInIInv, SignInRowsOK, SignInCodeOK, SignInBacked, SignIn!Completed
<1>5. QED
  BY <1>1, <1>2, <1>3, <1>4 DEF SignInIInv, SignInRowsOK

\* A session that is not completed gets another status.
LEMMA SignInStatusOK ==
  ASSUME SignInIInv, NEW s \in Login, NEW status \in SignInStatuses \ {"none", "authenticated"},
         logins[s].status \notin SignIn!Completed,
         status = "pending" => logins[s].status = "none",
         status = "approved" => logins[s].status = "authenticated",
         logins' = [logins EXCEPT ![s].status = status], UNCHANGED <<codeInvites, passkeys, minted>>
  PROVE  SignInRowsOK' /\ SignInStays /\ logins'[s].status = status
<1>1. PICK old \in SignInSessionRow : old = logins[s] /\ SignInRowOK(s, old)
  BY DEF SignInIInv, SignInRowsOK
<1> DEFINE row == [old EXCEPT !.status = status]
<1>2. /\ row \in SignInSessionRow /\ row.status = status /\ row.account = old.account
      /\ row.authn = old.authn /\ row.stepUp = old.stepUp
  BY DEF SignInSessionRow
<1>3. logins' = [logins EXCEPT ![s] = row]
  BY <1>1
<1> HIDE DEF row
<1>4. SignInRowOK(s, row)
  BY <1>1, <1>2 DEF SignInRowOK, SignInBacked
<1>5. logins'[s] = row
  BY <1>3 DEF SignInIInv, SignInRowsOK
<1>6. QED
  BY <1>1, <1>2, <1>3, <1>4, <1>5, SignInSessionOK

LEMMA SignInBeginAuthorizeOK == ASSUME SignInIInv, NEW c \in Caller, SignIn!BeginAuthorize(c) PROVE SignInIInv' /\ SignInFinal
<1>1. PICK s \in Login : /\ logins[s].status = "none"
                         /\ logins' = [logins EXCEPT ![s].status = "pending"]
  BY DEF SignIn!BeginAuthorize
<1>2. UNCHANGED <<codeInvites, challenges, passkeys, minted, loginReq>>
  BY DEF SignIn!BeginAuthorize
<1>3. PICK status \in SignInStatuses \ {"none", "authenticated"} : status = "pending"
  BY DEF SignInStatuses
<1>4. SignInRowsOK' /\ SignInStays
  BY <1>1, <1>2, <1>3, SignInStatusOK DEF SignIn!Completed
<1>5. ASSUME NEW d \in Caller PROVE SignInRequestOK(loginReq[d])'
  <2>1. PICK q \in SignInRequestType : q = loginReq[d] /\ SignInRequestOK(q)
    BY DEF SignInIInv
  <2>2. SignInRequestOK(q)' /\ loginReq'[d] = q
    BY <1>2, <1>4, <2>1, SignInRequestStable
  <2>3. QED
    BY <2>2 DEF SignInRequestOK
<1>6. QED
  BY <1>2, <1>4, <1>5 DEF SignInIInv, SignInOneMints, SignIn!At, SignInStays

LEMMA SignInExpireOK == ASSUME SignInIInv, NEW c \in Caller, SignIn!Expire(c) PROVE SignInIInv' /\ SignInFinal
<1>1. PICK s \in Login : /\ SignIn!Open(s)
                         /\ logins' = [logins EXCEPT ![s].status = "expired"]
  BY DEF SignIn!Expire
<1>2. UNCHANGED <<codeInvites, challenges, passkeys, minted, loginReq>>
  BY DEF SignIn!Expire
<1>3. PICK status \in SignInStatuses \ {"none", "authenticated"} : status = "expired"
  BY DEF SignInStatuses, SignIn!Completed
<1>4. SignInRowsOK' /\ SignInStays
  BY <1>1, <1>2, <1>3, SignInStatusOK DEF SignIn!Completed, SignIn!Open
<1>5. ASSUME NEW d \in Caller PROVE SignInRequestOK(loginReq[d])'
  <2>1. PICK q \in SignInRequestType : q = loginReq[d] /\ SignInRequestOK(q)
    BY DEF SignInIInv
  <2>2. SignInRequestOK(q)' /\ loginReq'[d] = q
    BY <1>2, <1>4, <2>1, SignInRequestStable
  <2>3. QED
    BY <2>2 DEF SignInRequestOK
<1>6. QED
  BY <1>2, <1>4, <1>5 DEF SignInIInv, SignInOneMints, SignIn!At, SignInStays

LEMMA SignInLoadOK == ASSUME SignInIInv, NEW c \in Caller, SignIn!Load(c) PROVE SignInGood(c)
<1>1. PICK ask \in SignIn!Ask :
        /\ logins[ask.session].status \in SignIn!Needs(ask.kind)
        /\ SignIn!Become(c, [stage |-> SignIn!First(ask.kind), ask |-> ask, row |-> logins[ask.session]])
  BY DEF SignIn!Load
<1>2. ask.session \in Login
  BY DEF SignIn!Ask
<1>3. PICK row \in SignInSessionRow : row = logins[ask.session] /\ SignInRowOK(ask.session, row)
  BY <1>2 DEF SignInIInv, SignInRowsOK
<1>4. ask.kind \in {"invite", "assertion", "registration", "assert", "register", "approve", "deny"}
  BY DEF SignIn!Ask, SignIn!Purpose
<1>5. PICK stage \in {"invite", "issue", "challenge", "claim", "deny"} :
        /\ stage = SignIn!First(ask.kind)
        /\ stage = "invite" => ask.kind = "invite"
        /\ stage = "challenge" => ask.kind \in {"assert", "register"}
        /\ stage = "claim" => ask.kind = "approve"
  BY <1>4 DEF SignIn!First, SignIn!Purpose
<1> DEFINE r == [stage |-> stage, ask |-> ask, row |-> row]
<1>6. r \in SignInRequestType /\ r.stage = stage /\ r.ask = ask /\ r.row = row
  BY DEF SignInRequestType, SignInWorking, SignInStages
<1>7. SignIn!Become(c, r)
  BY <1>1, <1>3, <1>5
<1> HIDE DEF r
<1>8. UNCHANGED <<logins, codeInvites, passkeys, minted>>
  BY DEF SignIn!Load
<1>9. ask.kind \in SignInSignedIn => row.account # "none"
  BY <1>1, <1>3 DEF SignInSignedIn, SignIn!Needs, SignInRowOK
<1>10. SignInBacked(row)'
  BY <1>3, <1>8, SignInLooksOK, SignInBackedStable DEF SignInRowOK
<1>11. logins'[ask.session] = row
  BY <1>3, <1>8
<1>12. /\ stage = "invite" => ask \in SignInInviteAsk
       /\ stage = "challenge" => ask \in SignInProofAsk
  BY <1>5 DEF SignIn!Ask, SignInInviteAsk, SignInProofAsk, SignIn!Purpose
<1>13. SignInRequestOK(r)'
  BY <1>5, <1>6, <1>9, <1>10, <1>11, <1>12 DEF SignInRequestOK
<1>14. SignInGoes(c)
  BY <1>6, <1>7, <1>13 DEF SignInGoes, SignInMoves
<1>15. QED
  BY <1>8, <1>14, SignInLooksOK DEF SignInGood

\* A pending session is signed in, by an invite or a passkey of the account.
LEMMA SignInMarkOK ==
  ASSUME SignInIInv, NEW c \in Caller, NEW s \in Login, s = loginReq[c].ask.session,
         NEW account \in SignInAccount, account # "none",
         NEW authn \in {"invite"} \cup Passkey, NEW stepUp \in BOOLEAN,
         stepUp => authn \in Passkey /\ passkeys[authn] = account,
         authn = "invite" => \E i \in Invite : codeInvites[i] = s /\ Target[i] = account,
         SignIn!MarkAuthenticated(c, account, authn, stepUp), UNCHANGED <<codeInvites, passkeys, minted>>
  PROVE  SignInGood(c)
<1>1. SignIn!Reply(c)
  BY DEF SignIn!MarkAuthenticated
<1>2. CASE logins[s].status = "pending"
  <2> DEFINE row == [status |-> "authenticated", account |-> account,
                     authn |-> authn, stepUp |-> stepUp]
  <2>1. /\ row \in SignInSessionRow /\ row.status = "authenticated" /\ row.account = account
        /\ row.authn = authn /\ row.stepUp = stepUp
    BY DEF SignInSessionRow, SignInStatuses
  <2>2. logins' = [logins EXCEPT ![s] = row]
    BY <1>2 DEF SignIn!MarkAuthenticated
  <2> HIDE DEF row
  <2>3. SignInRowOK(s, row)
    BY <2>1 DEF SignInRowOK, SignInBacked
  <2>4. logins[s].account = "none" /\ logins[s].status \notin SignIn!Completed
    BY <1>2 DEF SignInIInv, SignInRowsOK, SignInRowOK, SignIn!Completed
  <2>5. SignInRowsOK' /\ SignInStays
    BY <2>1, <2>2, <2>3, <2>4, SignInSessionOK
  <2>6. QED
    BY <1>1, <2>5, SignInReplyGoes DEF SignInGood
<1>3. CASE logins[s].status # "pending"
  BY <1>1, <1>3, SignInReplyOK DEF SignIn!MarkAuthenticated
<1>4. QED
  BY <1>2, <1>3

-----------------------------------------------------------------------------
\* Invites

\* An invite that no session has redeemed changes.
LEMMA SignInInviteOK ==
  ASSUME SignInIInv, NEW i \in Invite, NEW new \in {"unused", "expired"} \cup Login,
         codeInvites[i] \notin Login, codeInvites' = [codeInvites EXCEPT ![i] = new],
         UNCHANGED <<logins, passkeys, minted>>
  PROVE  SignInRowsOK' /\ SignInStays /\ codeInvites'[i] = new
<1>1. /\ codeInvites' \in [Invite -> {"none", "unused", "expired"} \cup Login] /\ codeInvites'[i] = new
      /\ \A j \in Invite \ {i} : codeInvites'[j] = codeInvites[j]
  BY DEF SignInIInv, SignInRowsOK
<1>2. SignInStays
  BY <1>1 DEF SignInStays, SignInFinal
<1>3. \A s \in Login : SignInRowOK(s, logins[s])'
  <2>1. ASSUME NEW s \in Login PROVE SignInRowOK(s, logins[s])'
    <3>1. SignInRowOK(s, logins[s])
      BY DEF SignInIInv, SignInRowsOK
    <3>2. \A j \in Invite : codeInvites[j] = s => codeInvites'[j] = s
      BY <1>1
    <3>3. QED
      BY <3>1, <3>2 DEF SignInRowOK, SignInBacked
  <2>2. QED
    BY <2>1
<1>4. \A s \in Login : SignInCodeOK(s)'
  BY DEF SignInIInv, SignInRowsOK, SignInCodeOK, SignInBacked
<1>5. QED
  BY <1>1, <1>2, <1>3, <1>4 DEF SignInIInv, SignInRowsOK

LEMMA SignInNotRedeemed ==
  ASSUME SignInIInv, NEW i \in Invite, codeInvites[i] \in {"none", "unused"}
  PROVE  codeInvites[i] \notin Login
BY DEF SignInIInv, AccountsAreNamed

LEMMA SignInMintInviteOK == ASSUME SignInIInv, SignIn!MintInvite PROVE SignInIInv' /\ SignInFinal
<1>1. PICK i \in Invite : /\ codeInvites[i] = "none"
                          /\ codeInvites' = [codeInvites EXCEPT ![i] = "unused"]
  BY DEF SignIn!MintInvite
<1>2. UNCHANGED <<logins, challenges, passkeys, minted, loginReq>>
  BY DEF SignIn!MintInvite
<1>3. PICK new \in {"unused", "expired"} \cup Login : new = "unused"
  OBVIOUS
<1>4. SignInRowsOK' /\ SignInStays
  BY <1>1, <1>2, <1>3, SignInInviteOK, SignInNotRedeemed
<1>5. ASSUME NEW d \in Caller PROVE SignInRequestOK(loginReq[d])'
  <2>1. PICK q \in SignInRequestType : q = loginReq[d] /\ SignInRequestOK(q)
    BY DEF SignInIInv
  <2>2. SignInRequestOK(q)' /\ loginReq'[d] = q
    BY <1>2, <1>4, <2>1, SignInRequestStable
  <2>3. QED
    BY <2>2 DEF SignInRequestOK
<1>6. QED
  BY <1>2, <1>4, <1>5 DEF SignInIInv, SignInOneMints, SignIn!At, SignInStays

LEMMA SignInLookAtInviteOK == ASSUME SignInIInv, NEW c \in Caller, SignIn!LookAtInvite(c) PROVE SignInGood(c)
<1>1. PICK q \in SignInWorking :
        q = loginReq[c] /\ q.stage = "invite" /\ SignInRequestOK(q)
  BY SignInAtWork DEF SignIn!LookAtInvite, SignIn!At
<1>2. PICK i \in Invite : i = q.ask.invite /\ q.ask \in SignInInviteAsk
  BY <1>1 DEF SignInRequestOK, SignInInviteAsk
<1>3. UNCHANGED <<logins, challenges, passkeys, minted>>
  BY DEF SignIn!LookAtInvite
<1>4. ASSUME SignIn!Goto(c, "redeem"), UNCHANGED codeInvites PROVE SignInGood(c)
  <2>1. PICK stage \in SignInStages : stage = "redeem"
    BY DEF SignInStages
  <2>2. SignInRowsOK' /\ SignInStays
    BY <1>3, <1>4, SignInLooksOK
  <2>3. \E r : SignInMoves(c, r) /\ r.stage = stage /\ r.ask = q.ask
    <3>1. SignIn!Goto(c, stage)
      BY <1>1, <1>2, <1>4, <2>1, <2>2
    <3>2. SignInMayGo(q, stage)'
      BY <1>1, <1>2, <1>4, <2>1, <2>2 DEF SignInMayGo
    <3>3. QED
      BY <1>1, <1>2, <1>4, <2>1, <2>2, <3>1, <3>2, SignInGoOn
  <2>4. QED
    BY <1>3, <2>1, <2>2, <2>3 DEF SignInGood, SignInGoes
<1>5. ASSUME codeInvites[i] = "unused", codeInvites' = [codeInvites EXCEPT ![i] = "expired"], SignIn!Reply(c)
      PROVE  SignInGood(c)
  <2>1. PICK new \in {"unused", "expired"} \cup Login : new = "expired"
    OBVIOUS
  <2>2. SignInRowsOK' /\ SignInStays
    BY <1>3, <1>5, <2>1, SignInInviteOK, SignInNotRedeemed
  <2>3. QED
    BY <1>3, <1>5, <2>2, SignInReplyGoes DEF SignInGood
<1>6. ASSUME codeInvites' = codeInvites, SignIn!Reply(c) PROVE SignInGood(c)
  BY <1>3, <1>6, SignInReplyOK
<1>7. QED
  BY <1>1, <1>2, <1>4, <1>5, <1>6 DEF SignIn!LookAtInvite

LEMMA SignInRedeemOK == ASSUME SignInIInv, NEW c \in Caller, SignIn!Redeem(c) PROVE SignInGood(c)
<1>1. PICK q \in SignInWorking :
        q = loginReq[c] /\ q.stage = "redeem" /\ SignInRequestOK(q)
  BY SignInAtWork DEF SignIn!Redeem, SignIn!At
<1>2. PICK i \in Invite, s \in Login :
        i = q.ask.invite /\ s = q.ask.session /\ q.ask \in SignInInviteAsk
  BY <1>1 DEF SignInRequestOK, SignInInviteAsk
<1>3. UNCHANGED <<logins, challenges, passkeys, minted>>
  BY DEF SignIn!Redeem
<1>4. ASSUME codeInvites[i] = "unused", codeInvites' = [codeInvites EXCEPT ![i] = s], SignIn!Goto(c, "invited")
      PROVE  SignInGood(c)
  <2>1. PICK stage \in SignInStages : stage = "invited"
    BY DEF SignInStages
  <2>2. SignInRowsOK' /\ SignInStays /\ codeInvites'[i] = s
    BY <1>3, <1>4, SignInInviteOK, SignInNotRedeemed
  <2>3. \E r : SignInMoves(c, r) /\ r.stage = stage /\ r.ask = q.ask
    <3>1. SignIn!Goto(c, stage)
      BY <1>1, <1>2, <1>4, <2>1, <2>2
    <3>2. SignInMayGo(q, stage)'
      BY <1>1, <1>2, <1>4, <2>1, <2>2 DEF SignInMayGo
    <3>3. QED
      BY <1>1, <1>2, <1>4, <2>1, <2>2, <3>1, <3>2, SignInGoOn
  <2>4. QED
    BY <1>3, <2>1, <2>2, <2>3 DEF SignInGood, SignInGoes
<1>5. ASSUME UNCHANGED codeInvites, SignIn!Reply(c) PROVE SignInGood(c)
  BY <1>3, <1>5, SignInReplyOK
<1>6. QED
  BY <1>1, <1>2, <1>4, <1>5 DEF SignIn!Redeem

LEMMA SignInSignInByInviteOK == ASSUME SignInIInv, NEW c \in Caller, SignIn!SignInByInvite(c) PROVE SignInGood(c)
<1>1. PICK q \in SignInWorking :
        q = loginReq[c] /\ q.stage = "invited" /\ SignInRequestOK(q)
  BY SignInAtWork DEF SignIn!SignInByInvite, SignIn!At
<1>2. PICK i \in Invite, s \in Login :
        i = q.ask.invite /\ s = q.ask.session /\ codeInvites[i] = s
  BY <1>1 DEF SignInRequestOK, SignInInviteAsk
<1>3. PICK account \in SignInAccount : account = Target[i] /\ account # "none"
  BY DEF SignInIInv, AccountsAreNamed, SignInAccount
<1>4. PICK authn \in {"invite"} \cup Passkey : authn = "invite"
  OBVIOUS
<1>5. SignIn!MarkAuthenticated(c, account, authn, FALSE) /\ UNCHANGED <<codeInvites, passkeys, minted>>
  BY <1>1, <1>2, <1>3, <1>4 DEF SignIn!SignInByInvite
<1>6. PICK stepUp \in BOOLEAN : stepUp = FALSE
  OBVIOUS
<1>7. SignIn!MarkAuthenticated(c, account, authn, stepUp)
  BY <1>5, <1>6
<1>8. QED
  BY <1>1, <1>2, <1>3, <1>4, <1>5, <1>6, <1>7, SignInMarkOK

-----------------------------------------------------------------------------
\* Challenges and passkeys

LEMMA SignInIssueOK == ASSUME SignInIInv, NEW c \in Caller, SignIn!Issue(c) PROVE SignInGood(c)
BY SignInReplyOK DEF SignIn!Issue

LEMMA SignInChallengeGoes ==
  ASSUME SignInIInv, NEW c \in Caller, SignIn!At(c, "challenge") \/ SignIn!At(c, "use"),
         NEW stage \in {"use", "overdue", "verify"}, SignIn!Goto(c, stage),
         UNCHANGED <<logins, codeInvites, passkeys, minted>>
  PROVE  SignInGood(c)
<1>1. PICK q \in SignInWorking :
        q = loginReq[c] /\ q.stage \in {"challenge", "use"} /\ SignInRequestOK(q)
  BY SignInAtWork DEF SignIn!At
<1>2. q.ask \in SignInProofAsk /\ stage \in SignInStages
  BY <1>1 DEF SignInRequestOK, SignInStages
<1>3. SignInRowsOK' /\ SignInStays
  BY SignInLooksOK
<1>4. \E r : SignInMoves(c, r) /\ r.stage = stage /\ r.ask = q.ask
  <2>1. SignIn!Goto(c, stage)
    BY <1>1, <1>2, <1>3
  <2>2. SignInMayGo(q, stage)'
    BY <1>1, <1>2, <1>3 DEF SignInMayGo
  <2>3. QED
    BY <1>1, <1>2, <1>3, <2>1, <2>2, SignInGoOn
<1>5. QED
  BY <1>3, <1>4 DEF SignInGood, SignInGoes

LEMMA SignInLookAtChallengeOK == ASSUME SignInIInv, NEW c \in Caller, SignIn!LookAtChallenge(c) PROVE SignInGood(c)
<1>1. UNCHANGED <<logins, codeInvites, passkeys, minted>> /\ SignIn!At(c, "challenge")
  BY DEF SignIn!LookAtChallenge
<1>2. SignIn!Reply(c) \/ \E stage \in {"use", "overdue", "verify"} : SignIn!Goto(c, stage)
  BY DEF SignIn!LookAtChallenge
<1>3. QED
  BY <1>1, <1>2, SignInReplyOK, SignInChallengeGoes

LEMMA SignInExpireChallengeOK == ASSUME SignInIInv, NEW c \in Caller, SignIn!ExpireChallenge(c) PROVE SignInGood(c)
BY SignInReplyOK DEF SignIn!ExpireChallenge

LEMMA SignInUseChallengeOK == ASSUME SignInIInv, NEW c \in Caller, SignIn!UseChallenge(c) PROVE SignInGood(c)
<1>1. UNCHANGED <<logins, codeInvites, passkeys, minted>> /\ SignIn!At(c, "use")
  BY DEF SignIn!UseChallenge
<1>2. SignIn!Reply(c) \/ \E stage \in {"use", "overdue", "verify"} : SignIn!Goto(c, stage)
  BY DEF SignIn!UseChallenge
<1>3. QED
  BY <1>1, <1>2, SignInReplyOK, SignInChallengeGoes

LEMMA SignInVerifyAssertionOK == ASSUME SignInIInv, NEW c \in Caller, SignIn!VerifyAssertion(c) PROVE SignInGood(c)
<1>1. PICK q \in SignInWorking :
        q = loginReq[c] /\ q.stage = "verify" /\ SignInRequestOK(q)
  BY SignInAtWork DEF SignIn!VerifyAssertion, SignIn!At
<1>2. PICK p \in Passkey, s \in Login : p = q.ask.passkey /\ s = q.ask.session
  BY <1>1 DEF SignInRequestOK, SignInProofAsk
<1>3. UNCHANGED <<codeInvites, challenges, passkeys, minted>>
  BY DEF SignIn!VerifyAssertion
<1>4. ASSUME passkeys[p] # "none", SignIn!MarkAuthenticated(c, passkeys[p], p, TRUE) PROVE SignInGood(c)
  <2>1. PICK account \in SignInAccount : account = passkeys[p]
    BY DEF SignInIInv, SignInRowsOK
  <2>2. PICK stepUp \in BOOLEAN : stepUp = TRUE
    OBVIOUS
  <2>3. SignIn!MarkAuthenticated(c, account, p, stepUp)
    BY <1>4, <2>1, <2>2
  <2>4. p \in {"invite"} \cup Passkey /\ p # "invite"
    BY DEF SignInIInv, AccountsAreNamed
  <2>5. QED
    BY <1>1, <1>2, <1>3, <1>4, <2>1, <2>2, <2>3, <2>4, SignInMarkOK
<1>5. ASSUME SignIn!Reply(c), UNCHANGED logins PROVE SignInGood(c)
  BY <1>3, <1>5, SignInReplyOK
<1>6. QED
  BY <1>1, <1>2, <1>4, <1>5 DEF SignIn!VerifyAssertion

LEMMA SignInEnrollOK == ASSUME SignInIInv, NEW c \in Caller, SignIn!Enroll(c) PROVE SignInGood(c)
<1>1. PICK q \in SignInWorking :
        q = loginReq[c] /\ q.stage = "verify" /\ q.ask.kind = "register" /\ SignInRequestOK(q)
  BY SignInAtWork DEF SignIn!Enroll, SignIn!At
<1>2. PICK p \in Passkey : p = q.ask.passkey /\ q.ask \in SignInProofAsk
  BY <1>1 DEF SignInRequestOK, SignInProofAsk
<1>3. PICK account \in SignInAccount : account = q.row.account
  BY SignInAskOK DEF SignInSessionRow
<1>4. UNCHANGED <<logins, codeInvites, challenges, minted>>
  BY DEF SignIn!Enroll
<1>5. ASSUME passkeys[p] = "none", passkeys' = [passkeys EXCEPT ![p] = account], SignIn!Goto(c, "step up")
      PROVE  SignInGood(c)
  <2>1. /\ passkeys' \in [Passkey -> SignInAccount] /\ passkeys'[p] = account
        /\ \A o \in Passkey \ {p} : passkeys'[o] = passkeys[o]
    BY <1>5 DEF SignInIInv, SignInRowsOK
  <2>2. SignInStays
    BY <1>4, <1>5, <2>1 DEF SignInStays, SignInFinal
  <2>3. \A s \in Login : SignInRowOK(s, logins[s])' /\ SignInCodeOK(s)'
    <3>1. ASSUME NEW s \in Login PROVE SignInRowOK(s, logins[s])' /\ SignInCodeOK(s)'
      <4>1. PICK row \in SignInSessionRow : row = logins[s] /\ SignInRowOK(s, row)
        BY DEF SignInIInv, SignInRowsOK
      <4>2. SignInBacked(row)'
        BY <2>2, <4>1, SignInBackedStable DEF SignInRowOK
      <4>3. SignInRowOK(s, row)'
        BY <1>4, <4>1, <4>2 DEF SignInRowOK
      <4>4. SignInRowOK(s, logins[s])'
        BY <1>4, <4>1, <4>3 DEF SignInRowOK, SignInBacked
      <4>5. SignInCodeOK(s)'
        <5>1. CASE minted[s] = <<>>
          BY <1>4, <5>1 DEF SignInCodeOK
        <5>2. CASE minted[s] # <<>>
          <6>1. PICK g \in SignInGrant : minted[s] = <<g>> /\ SignInBacked(g) /\ logins[s].status = "approved"
            BY <5>2 DEF SignInIInv, SignInRowsOK, SignInCodeOK
          <6>2. SignInBacked(g)'
            BY <2>2, <6>1, SignInBackedStable
          <6>3. QED
            BY <1>4, <6>1, <6>2 DEF SignInCodeOK
        <5>3. QED
          BY <5>1, <5>2
      <4>6. QED
        BY <4>4, <4>5
    <3>2. QED
      BY <3>1
  <2>4. SignInRowsOK'
    BY <1>4, <2>1, <2>3 DEF SignInIInv, SignInRowsOK
  <2>5. PICK stage \in SignInStages : stage = "step up"
    BY DEF SignInStages
  <2>6. \E r : SignInMoves(c, r) /\ r.stage = stage /\ r.ask = q.ask
    <3>1. SignIn!Goto(c, stage)
      BY <1>1, <1>2, <1>3, <1>5, <2>1, <2>2, <2>5
    <3>2. SignInMayGo(q, stage)'
      BY <1>1, <1>2, <1>3, <1>5, <2>1, <2>2, <2>5 DEF SignInMayGo
    <3>3. QED
      BY <1>1, <2>2, <3>1, <3>2, SignInGoOn
  <2>7. QED
    BY <1>4, <2>2, <2>4, <2>5, <2>6 DEF SignInGood, SignInGoes
<1>6. ASSUME SignIn!Reply(c), UNCHANGED passkeys PROVE SignInGood(c)
  BY <1>4, <1>6, SignInReplyOK
<1>7. QED
  BY <1>1, <1>2, <1>3, <1>5, <1>6 DEF SignIn!Enroll

LEMMA SignInStepUpOK == ASSUME SignInIInv, NEW c \in Caller, SignIn!StepUp(c) PROVE SignInGood(c)
<1>1. PICK q \in SignInWorking :
        q = loginReq[c] /\ q.stage = "step up" /\ SignInRequestOK(q)
  BY SignInAtWork DEF SignIn!StepUp, SignIn!At
<1>2. PICK p \in Passkey, s \in Login : p = q.ask.passkey /\ s = q.ask.session
  BY <1>1 DEF SignInRequestOK, SignInProofAsk
<1>3. PICK old \in SignInSessionRow : old = logins[s] /\ SignInRowOK(s, old)
  BY DEF SignInIInv, SignInRowsOK
<1>4. passkeys[p] = old.account /\ old.account # "none"
  BY <1>1, <1>2, <1>3 DEF SignInRequestOK, SignInSignedIn
<1> DEFINE row == [[old EXCEPT !.authn = p] EXCEPT !.stepUp = TRUE]
<1>5. /\ row \in SignInSessionRow /\ row.status = old.status /\ row.account = old.account
      /\ row.authn = p /\ row.stepUp = TRUE
  BY DEF SignInSessionRow
<1>6. logins' = [logins EXCEPT ![s] = row]
  BY <1>1, <1>2, <1>3 DEF SignIn!StepUp
<1> HIDE DEF row
<1>7. p # "invite"
  BY DEF SignInIInv, AccountsAreNamed
<1>8. SignInRowOK(s, row)
  BY <1>3, <1>4, <1>5, <1>7 DEF SignInRowOK, SignInBacked
<1>9. SignInRowsOK' /\ SignInStays
  BY <1>3, <1>5, <1>6, <1>8, SignInSessionOK DEF SignIn!StepUp
<1>10. QED
  BY <1>9, SignInReplyGoes DEF SignIn!StepUp, SignInGood

-----------------------------------------------------------------------------
\* Decisions

LEMMA SignInClaimOK == ASSUME SignInIInv, NEW c \in Caller, SignIn!Claim(c) PROVE SignInIInv' /\ SignInFinal
<1>1. PICK q \in SignInWorking :
        q = loginReq[c] /\ q.stage = "claim" /\ SignInRequestOK(q)
  BY SignInAtWork DEF SignIn!Claim, SignIn!At
<1>2. PICK s \in Login : s = q.ask.session /\ q.ask.kind = "approve"
  BY <1>1, SignInAskOK DEF SignInRequestOK
<1>3. UNCHANGED <<codeInvites, challenges, passkeys, minted>>
  BY DEF SignIn!Claim
<1>4. ASSUME logins[s].status = "authenticated", SignIn!Goto(c, "mint"),
             logins' = [logins EXCEPT ![s].status = "approved"]
      PROVE  SignInIInv' /\ SignInFinal
  <2>1. PICK status \in SignInStatuses \ {"none", "authenticated"} : status = "approved"
    BY DEF SignInStatuses, SignIn!Completed
  <2>2. SignInRowsOK' /\ SignInStays /\ logins'[s].status = "approved"
    BY <1>3, <1>4, <2>1, SignInStatusOK DEF SignIn!Completed
  <2>3. PICK stage \in SignInStages : stage = "mint"
    BY DEF SignInStages
  <2>4. PICK r : SignInMoves(c, r) /\ r.stage = stage /\ r.ask = q.ask
    <3>1. SignIn!Goto(c, stage)
      BY <1>1, <1>2, <1>4, <2>2, <2>3
    <3>2. SignInMayGo(q, stage)'
      BY <1>1, <1>2, <1>4, <2>2, <2>3 DEF SignInMayGo
    <3>3. QED
      BY <1>1, <1>2, <1>4, <2>2, <2>3, <3>1, <3>2, SignInGoOn
  <2>5. /\ loginReq' \in [Caller -> SignInRequestType]
        /\ \A d \in Caller : SignInRequestOK(loginReq[d])'
        /\ loginReq'[c] = r /\ \A d \in Caller \ {c} : loginReq'[d] = loginReq[d]
    BY <2>2, <2>4, SignInRequestsOK
  <2>6. minted[s] = <<>>
    BY <1>4 DEF SignInIInv, SignInRowsOK, SignInCodeOK
  <2>7. \A d \in Caller : SignIn!At(d, "mint") => loginReq[d].ask.session # s
    BY <1>4 DEF SignInIInv, SignInRequestOK, SignIn!At
  <2>8. SignInOneMints'
    BY <1>2, <1>3, <2>4, <2>5, <2>6, <2>7 DEF SignInIInv, SignInOneMints, SignIn!At
  <2>9. QED
    BY <2>2, <2>5, <2>8 DEF SignInIInv, SignInStays
<1>5. ASSUME SignIn!Reply(c), UNCHANGED logins PROVE SignInIInv' /\ SignInFinal
  BY <1>3, <1>5, SignInReplyOK, SignInStepOfClient
<1>6. QED
  BY <1>1, <1>2, <1>4, <1>5 DEF SignIn!Claim

LEMMA SignInMintOK == ASSUME SignInIInv, NEW c \in Caller, SignIn!Mint(c) PROVE SignInIInv' /\ SignInFinal
<1>1. PICK q \in SignInWorking :
        q = loginReq[c] /\ q.stage = "mint" /\ SignInRequestOK(q)
  BY SignInAtWork DEF SignIn!Mint, SignIn!At
<1>2. PICK s \in Login : s = q.ask.session /\ logins[s].status = "approved"
  BY <1>1, SignInAskOK DEF SignInRequestOK
<1>3. PICK g \in SignInGrant : g = SignIn!GrantOf(c) /\ SignInBacked(g)
  <2>1. PICK row \in SignInSessionRow : row = q.row /\ SignInBacked(row)
    BY <1>1, SignInAskOK DEF SignInRequestOK
  <2> DEFINE new == [account |-> row.account, authn |-> row.authn, stepUp |-> row.stepUp]
  <2>2. new \in SignInGrant /\ new.account = row.account /\ new.authn = row.authn
        /\ new.stepUp = row.stepUp
    BY DEF SignInGrant, SignInSessionRow
  <2>3. new = SignIn!GrantOf(c)
    BY <1>1, <2>1 DEF SignIn!GrantOf
  <2> HIDE DEF new
  <2>4. QED
    BY <2>1, <2>2, <2>3 DEF SignInBacked
<1>4. minted[s] = <<>>
  BY <1>1, <1>2 DEF SignInIInv, SignInOneMints, SignIn!At
<1>5. minted' = [minted EXCEPT ![s] = <<g>>]
  BY <1>1, <1>2, <1>3, <1>4 DEF SignIn!Mint
<1>6. UNCHANGED <<logins, codeInvites, challenges, passkeys>> /\ SignIn!Reply(c)
  BY DEF SignIn!Mint
<1>7. DOMAIN minted' = Login /\ minted'[s] = <<g>> /\ \A t \in Login \ {s} : minted'[t] = minted[t]
  BY <1>5 DEF SignInIInv, SignInRowsOK
<1>8. SignInStays
  BY <1>6 DEF SignInStays, SignInFinal
<1>9. \A t \in Login : SignInCodeOK(t)'
  BY <1>2, <1>3, <1>6, <1>7 DEF SignInIInv, SignInRowsOK, SignInCodeOK, SignInBacked
<1>10. \A t \in Login : SignInRowOK(t, logins[t])'
  BY <1>6 DEF SignInIInv, SignInRowsOK, SignInRowOK, SignInBacked
<1>11. SignInRowsOK'
  BY <1>6, <1>7, <1>9, <1>10 DEF SignInIInv, SignInRowsOK
<1>12. SignInMoves(c, SignIn!Idle)
  BY <1>6, SignInIdleOK DEF SignInMoves, SignIn!Reply, SignInRequestOK
<1>13. /\ loginReq' \in [Caller -> SignInRequestType]
       /\ \A d \in Caller : SignInRequestOK(loginReq[d])'
       /\ loginReq'[c] = SignIn!Idle /\ \A d \in Caller \ {c} : loginReq'[d] = loginReq[d]
  BY <1>8, <1>12, SignInRequestsOK
<1>14. \A d \in Caller \ {c} : SignIn!At(d, "mint") => loginReq[d].ask.session \in Login \ {s}
  <2>1. ASSUME NEW d \in Caller, d # c, SignIn!At(d, "mint") PROVE loginReq[d].ask.session \in Login \ {s}
    <3>1. loginReq[d].ask.session \in Login
      BY <2>1, SignInAtWork, SignInAskOK DEF SignIn!At
    <3>2. QED
      BY <1>1, <1>2, <2>1, <3>1 DEF SignInIInv, SignInOneMints, SignIn!At
  <2>2. QED
    BY <2>1
<1>15. SignInOneMints'
  BY <1>7, <1>13, <1>14, SignInIdleOK DEF SignInIInv, SignInOneMints, SignIn!At
<1>16. QED
  BY <1>8, <1>11, <1>13, <1>15 DEF SignInIInv, SignInStays

LEMMA SignInDenyOK == ASSUME SignInIInv, NEW c \in Caller, SignIn!Deny(c) PROVE SignInGood(c)
<1>1. PICK q \in SignInWorking : q = loginReq[c]
  BY SignInAtWork DEF SignIn!Deny, SignIn!At
<1>2. PICK s \in Login : s = q.ask.session
  BY SignInAskOK
<1>3. UNCHANGED <<codeInvites, challenges, passkeys, minted>> /\ SignIn!Reply(c)
  BY DEF SignIn!Deny
<1>4. CASE SignIn!Open(s)
  <2>1. PICK status \in SignInStatuses \ {"none", "authenticated"} : status = "denied"
    BY DEF SignInStatuses, SignIn!Completed
  <2>2. logins' = [logins EXCEPT ![s].status = status]
    BY <1>1, <1>2, <1>4, <2>1 DEF SignIn!Deny
  <2>3. SignInRowsOK' /\ SignInStays
    BY <1>3, <1>4, <2>1, <2>2, SignInStatusOK DEF SignIn!Open, SignIn!Completed
  <2>4. QED
    BY <1>3, <2>3, SignInReplyGoes DEF SignInGood
<1>5. CASE ~SignIn!Open(s)
  BY <1>1, <1>2, <1>3, <1>5, SignInReplyOK DEF SignIn!Deny
<1>6. QED
  BY <1>4, <1>5

LEMMA SignInStopOK == ASSUME SignInIInv, NEW c \in Caller, SignIn!Stop(c) PROVE SignInGood(c)
BY SignInReplyOK DEF SignIn!Stop

-----------------------------------------------------------------------------
LEMMA SignInNextOK == ASSUME SignInIInv, SignIn!Next PROVE SignInIInv' /\ SignInFinal
<1>1. ASSUME NEW c \in Caller,
             \/ SignIn!Load(c) \/ SignIn!LookAtInvite(c) \/ SignIn!Redeem(c) \/ SignIn!SignInByInvite(c)
             \/ SignIn!Issue(c) \/ SignIn!LookAtChallenge(c) \/ SignIn!ExpireChallenge(c) \/ SignIn!UseChallenge(c)
             \/ SignIn!VerifyAssertion(c) \/ SignIn!Enroll(c) \/ SignIn!StepUp(c) \/ SignIn!Deny(c) \/ SignIn!Stop(c)
      PROVE  SignInIInv' /\ SignInFinal
  <2>1. SignInGood(c)
    BY <1>1, SignInLoadOK, SignInLookAtInviteOK, SignInRedeemOK, SignInSignInByInviteOK,
       SignInIssueOK, SignInLookAtChallengeOK,
       SignInExpireChallengeOK, SignInUseChallengeOK, SignInVerifyAssertionOK, SignInEnrollOK,
       SignInStepUpOK, SignInDenyOK, SignInStopOK
  <2>2. QED
    BY <2>1, SignInStepOfClient
<1>2. QED
  BY <1>1, SignInMintInviteOK, SignInBeginAuthorizeOK, SignInExpireOK, SignInClaimOK,
     SignInMintOK DEF SignIn!Next

LEMMA SignInStutterOK == ASSUME SignInIInv, UNCHANGED SignIn!vars PROVE SignInIInv' /\ SignInFinal
<1>1. UNCHANGED <<logins, codeInvites, challenges, passkeys, minted, loginReq>>
  BY DEF SignIn!vars
<1>2. SignInRowsOK' /\ SignInStays
  BY <1>1, SignInLooksOK
<1>3. ASSUME NEW d \in Caller PROVE SignInRequestOK(loginReq[d])'
  <2>1. PICK q \in SignInRequestType : q = loginReq[d] /\ SignInRequestOK(q)
    BY DEF SignInIInv
  <2>2. SignInRequestOK(q)' /\ loginReq'[d] = q
    BY <1>1, <1>2, <2>1, SignInRequestStable
  <2>3. QED
    BY <2>2 DEF SignInRequestOK
<1>4. QED
  BY <1>1, <1>2, <1>3 DEF SignInIInv, SignInOneMints, SignIn!At, SignInStays

LEMMA SignInInitOK == AccountsAreNamed /\ SignIn!Init => SignInIInv
<1> SUFFICES ASSUME AccountsAreNamed, SignIn!Init PROVE SignInIInv
  OBVIOUS
<1>1. loginReq \in [Caller -> SignInRequestType] /\ \A c \in Caller : loginReq[c].stage = "idle"
  BY SignInIdleOK DEF SignIn!Init
<1>2. SignIn!NoSession \in SignInSessionRow /\ SignIn!NoSession.status = "none" /\ SignIn!NoSession.account = "none"
      /\ SignIn!NoSession.authn = "none" /\ SignIn!NoSession.stepUp = FALSE
  BY DEF SignIn!NoSession, SignInSessionRow, SignInStatuses, SignInAccount
<1>3. logins \in [Login -> SignInSessionRow] /\ \A s \in Login : logins[s] = SignIn!NoSession
  BY <1>2 DEF SignIn!Init
<1>4. passkeys \in [Passkey -> SignInAccount]
  BY DEF SignIn!Init, AccountsAreNamed, SignInAccount
<1>5. \A s \in Login : SignInRowOK(s, logins[s]) /\ SignInCodeOK(s)
  BY <1>2, <1>3 DEF SignIn!Init, SignInRowOK, SignInCodeOK, SignInBacked
<1>6. SignInRowsOK
  BY <1>3, <1>4, <1>5 DEF SignIn!Init, SignInRowsOK
<1>7. (\A c \in Caller : SignInRequestOK(loginReq[c])) /\ SignInOneMints
  BY <1>1 DEF SignInRequestOK, SignInOneMints, SignIn!At
<1>8. QED
  BY <1>1, <1>6, <1>7 DEF SignInIInv

LEMMA SignInKeptOK == ASSUME SignInIInv PROVE SignIn!SignInsKept
<1>1. ASSUME NEW s \in Login
      PROVE  Len(minted[s]) <= 1 /\ (minted[s] # <<>> => logins[s].status = "approved")
  <2>1. PICK g : minted[s] = <<>> \/ minted[s] = <<g>>
    BY DEF SignInIInv, SignInRowsOK, SignInCodeOK
  <2>2. Len(minted[s]) <= 1
    <3>1. Len(<<>>) = 0 /\ Len(<<g>>) = 1
      OBVIOUS
    <3>2. Len(minted[s]) = 0 \/ Len(minted[s]) = 1
      BY <2>1, <3>1, Zenon
    <3>3. PICK n \in {0, 1} : n = Len(minted[s])
      BY <3>2, Zenon
    <3>4. n <= 1
      OBVIOUS
    <3>5. QED
      BY <3>3, <3>4, Zenon
  <2>3. QED
    BY <2>2 DEF SignInIInv, SignInRowsOK, SignInCodeOK
<1>2. ASSUME NEW s \in Login, NEW g \in {logins[s]} \cup {minted[s][n] : n \in DOMAIN minted[s]},
             g.stepUp
      PROVE  g.authn \in Passkey /\ passkeys[g.authn] = g.account
  <2>1. SignInBacked(logins[s])
    BY DEF SignInIInv, SignInRowsOK, SignInRowOK
  <2>2. CASE minted[s] = <<>>
    BY <1>2, <2>1, <2>2 DEF SignInBacked
  <2>3. CASE minted[s] # <<>>
    <3>1. PICK h \in SignInGrant : minted[s] = <<h>> /\ SignInBacked(h)
      BY <2>3 DEF SignInIInv, SignInRowsOK, SignInCodeOK
    <3>2. g = logins[s] \/ g = h
      BY <3>1
    <3>3. QED
      BY <1>2, <2>1, <3>1, <3>2 DEF SignInBacked
  <2>4. QED
    BY <2>2, <2>3
<1>3. SignIn!InvitesUsedOnce
  BY DEF SignInIInv, SignInRowsOK, SignInRowOK, SignIn!InvitesUsedOnce
<1>4. QED
  BY <1>1, <1>2, <1>3 DEF SignIn!SignInsKept, SignIn!CodesApproved, SignIn!StepUpIsPasskey

\* A session has one code at most and only if it is approved, a verified user
\* has a passkey of the account, and an invite signs one session in, for any
\* number of requests, whichever of them die (redeemLoginInviteForSession,
\* verifyRegistrationForSession, approveAuthorizeSession).
THEOREM SignInsAreKept == AccountsAreNamed /\ SignIn!Spec => []SignInsKept
<1>1. SignInIInv => SignIn!SignInsKept
  BY SignInKeptOK
<1>2. SignInIInv /\ [SignIn!Next]_(SignIn!vars) => SignInIInv'
  BY SignInNextOK, SignInStutterOK
<1>3. QED
  BY <1>1, <1>2, SignInInitOK, PTL DEF SignInsKept, SignIn!Spec

\* Whoever a session was signed in as stays, and a session that is completed
\* stays as it was completed (the UPDATE of markAuthenticated, which asks for a
\* pending session).
THEOREM SignedInIsFinal == AccountsAreNamed /\ SignIn!Spec => SignedInStays
<1>1. SignInIInv /\ [SignIn!Next]_(SignIn!vars) => SignInIInv' /\ SignInFinal
  BY SignInNextOK, SignInStutterOK
<1>2. SignInIInv /\ [SignIn!Next]_(SignIn!vars) =>
        [\A s \in Login :
           /\ logins[s].account # "none" => logins'[s].account = logins[s].account
           /\ logins[s].status \in SignIn!Completed => logins'[s].status = logins[s].status]_(SignIn!vars)
  BY <1>1 DEF SignInFinal
<1>3. QED
  BY <1>1, <1>2, SignInInitOK, PTL DEF SignedInStays, SignIn!Spec, SignIn!SignedInStays
=============================================================================
