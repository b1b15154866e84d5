-------------------------- MODULE AgentServiceProofs --------------------------
(*****************************************************************************)
(* For any number of concurrent requests: one approval of a tool is one call *)
(* at most, a grant that is revoked stays as it was revoked, and what callers*)
(* are told of either is on record; runs, tools and pages of the journal are *)
(* bounded as they should be; and an ingestion of a repository brings the    *)
(* chain of its stones to the tree it read.                                  *)
(*****************************************************************************)
EXTENDS AgentServices, SequenceTheorems, FiniteSetTheorems, FunctionTheorems,
        WellFoundedInduction, NaturalsInduction, TLAPS

(* Authorizations of tools *)

ToolAuth == [status: Tool!Status, request: Time \cup {"none"}, decision: Tool!Decision \cup {"none"},
             stone: Tool!Decision \cup {"none"}, term: {"none", "running", "over"},
             claim: Client \cup {"none"}, result: {"none", "done", "failed", "guard"}]

ToolPlain    == {"package", "load", "expire", "consume", "lost", "observe", "mismatch",
                 "invoke", "verify"}
ToolAsking   == {"known", "stone", "persist", "compare"}
ToolChoosing == {"claim", "evidence", "undecided", "settle"}

ToolRequestType ==
  [stage: {"idle"}, answer: {"none", "refused", "executed"} \cup Tool!Decision]
  \cup [stage: {"idle"}, answer: {"requested"}, stone: Time \cup {"none"}]
  \cup [stage: ToolPlain]
  \cup [stage: ToolAsking, stone: Time]
  \cup [stage: ToolChoosing, decision: Tool!Decision, execute: BOOLEAN]
  \cup [stage: {"finish"}, ok: BOOLEAN]

\* What the row says of a decision and of a call agrees with its status.
ToolDecided == auth.status \in {"authorized", "consuming", "executed", "guard_failed",
                                "execution_failed", "expired"}
ToolRowOK ==
  /\ ToolDecided => auth.decision = "approved" /\ auth.stone = "approved"
  /\ auth.status = "denied" => auth.decision = "denied" /\ auth.stone = "denied"
  /\ auth.status \in {"none", "pending", "deciding"} => auth.stone = "none"
  /\ auth.result # "none" => auth.status \in Tool!Settled
  /\ invoked = 1 => auth.status \in {"consuming", "executed", "execution_failed"}
  /\ auth.status = "executed" => invoked = 1 /\ auth.result = "done"

\* A claim is held by the request that made it, until it settles it or dies.
ToolRequestOK(c, r) ==
  /\ r.stage \in Tool!Calling => auth.status = "consuming" /\ auth.claim = c
  /\ r.stage \in {"observe", "mismatch", "invoke"} => invoked = 0
  /\ r.stage = "verify" => invoked = 1
  /\ r.stage = "finish" /\ r.ok => invoked = 1
  /\ r.stage \in Tool!Deciding => auth.status = "deciding" /\ auth.decision = r.decision
  /\ r.stage = "compare" => auth.status # "none"
  /\ r.stage = "idle" =>
       /\ r.answer = "executed" => invoked = 1 /\ auth.result = "done"
       /\ r.answer \in Tool!Decision => auth.decision = r.answer /\ auth.stone = r.answer
       /\ r.answer = "requested" => auth.status # "none" /\ auth.request = r.stone

ToolTypesOK == /\ auth \in ToolAuth
               /\ head \in Tool!Head
               /\ invoked \in {0, 1}
               /\ aReq \in [Client -> ToolRequestType]

ToolOneDecides == \A c, d \in Client :
  aReq[c].stage \in Tool!Deciding /\ aReq[d].stage \in Tool!Deciding => c = d

ToolIInv == /\ ToolTypesOK
            /\ ToolRowOK
            /\ ToolOneDecides
            /\ \A c \in Client : ToolRequestOK(c, aReq[c])

-----------------------------------------------------------------------------
(* What a step does to the row, and to the request that makes it *)

ToolRowMoves ==
  /\ auth.status # "none" => auth'.status # "none" /\ auth'.request = auth.request
  /\ auth.stone \in Tool!Decision => auth'.decision = auth.decision /\ auth'.stone = auth.stone
  /\ auth.status \in Tool!Settled => auth'.status = auth.status /\ auth'.result = auth.result
  /\ invoked = 1 => invoked' = 1

ToolRowKept == auth' \in ToolAuth /\ head' \in Tool!Head /\ invoked' \in {0, 1} /\ ToolRowOK' /\ ToolRowMoves

\* A row that is claimed is changed by the holder of the claim only.
ToolByHolder(c) == \/ auth' = auth /\ invoked' = invoked
                   \/ auth.status \notin {"deciding", "consuming"}
                   \/ aReq[c].stage \in Tool!Deciding \cup Tool!Calling

\* A claim is made on a row that is free.
ToolEnters(c, q) ==
  /\ q.stage \in Tool!Deciding => aReq[c].stage \in Tool!Deciding \/ auth.status = "pending"
  /\ q.stage \in Tool!Calling => aReq[c].stage \in Tool!Calling \/ auth.status = "authorized"

ToolGoes(c) == \E q \in ToolRequestType :
  aReq' = [aReq EXCEPT ![c] = q] /\ ToolRequestOK(c, q)' /\ ToolEnters(c, q)

ToolGood(c) == ToolRowKept /\ ToolByHolder(c) /\ ToolGoes(c)

\* What another request relies on stays true.
LEMMA ToolRequestStable ==
  ASSUME ToolIInv, ToolRowMoves, NEW d \in Client, NEW r \in ToolRequestType, ToolRequestOK(d, r),
         r.stage \in Tool!Deciding \cup Tool!Calling => auth' = auth /\ invoked' = invoked
  PROVE  ToolRequestOK(d, r)'
<1>1. CASE r.stage \in Tool!Deciding \cup Tool!Calling
  <2>1. auth' = auth /\ invoked' = invoked
    BY <1>1
  <2>2. QED
    BY <2>1 DEF ToolRequestOK
<1>2. CASE r.stage \notin Tool!Deciding \cup Tool!Calling
  <2>1. r.stage = "compare" => auth'.status # "none"
    BY DEF ToolRequestOK, ToolRowMoves
  <2>2. ASSUME r.stage = "idle"
        PROVE  /\ r.answer = "executed" => invoked' = 1 /\ auth'.result = "done"
               /\ r.answer \in Tool!Decision => auth'.decision = r.answer /\ auth'.stone = r.answer
               /\ r.answer = "requested" => auth'.status # "none" /\ auth'.request = r.stone
    BY <2>2 DEF ToolRequestOK, ToolRowMoves, ToolIInv, ToolRowOK
  <2>3. r.stage \notin {"observe", "mismatch", "invoke", "verify", "finish"}
    BY <1>2 DEF Tool!Calling
  <2>4. QED
    BY <1>2, <2>1, <2>2, <2>3 DEF ToolRequestOK
<1>3. QED
  BY <1>1, <1>2

\* A holder is alone with its claim.
LEMMA ToolHolderAlone ==
  ASSUME ToolIInv, NEW c \in Client, NEW d \in Client, d # c, ToolByHolder(c),
         aReq[d].stage \in Tool!Deciding \cup Tool!Calling
  PROVE  auth' = auth /\ invoked' = invoked
<1>1. auth.status \in {"deciding", "consuming"}
  BY DEF ToolIInv, ToolRequestOK
<1>2. ~(aReq[c].stage \in Tool!Deciding \cup Tool!Calling)
  <2>1. ToolRequestOK(c, aReq[c]) /\ ToolRequestOK(d, aReq[d])
    BY DEF ToolIInv
  <2>2. ~(aReq[c].stage \in Tool!Deciding /\ aReq[d].stage \in Tool!Deciding)
    BY DEF ToolIInv, ToolOneDecides
  <2>3. QED
    BY <2>1, <2>2 DEF ToolRequestOK
<1>3. QED
  BY <1>1, <1>2 DEF ToolByHolder

LEMMA ToolStepOfClient ==
  ASSUME ToolIInv, NEW c \in Client, ToolGood(c)
  PROVE  ToolIInv' /\ (Tool!Abandoned => Tool!Abandoned')
<1>1. PICK q \in ToolRequestType :
        aReq' = [aReq EXCEPT ![c] = q] /\ ToolRequestOK(c, q)' /\ ToolEnters(c, q)
  BY DEF ToolGood, ToolGoes
<1>2. /\ aReq' \in [Client -> ToolRequestType]
      /\ aReq'[c] = q
      /\ \A d \in Client : d # c => aReq'[d] = aReq[d]
  BY <1>1 DEF ToolIInv, ToolTypesOK
<1>3. ToolTypesOK' /\ ToolRowOK'
  BY <1>2 DEF ToolGood, ToolRowKept, ToolTypesOK
<1>4. ASSUME NEW d \in Client PROVE ToolRequestOK(d, aReq[d])'
  <2>1. CASE d = c
    BY <1>1, <1>2, <2>1 DEF ToolRequestOK
  <2>2. CASE d # c
    <3>1. PICK r \in ToolRequestType : r = aReq[d]
      BY DEF ToolIInv, ToolTypesOK
    <3>2. ToolRequestOK(d, r)
      BY <3>1 DEF ToolIInv
    <3>3. r.stage \in Tool!Deciding \cup Tool!Calling => auth' = auth /\ invoked' = invoked
      BY <2>2, <3>1, ToolHolderAlone DEF ToolGood
    <3>4. ToolRequestOK(d, r)'
      BY <3>2, <3>3, ToolRequestStable DEF ToolGood, ToolRowKept
    <3>5. r = aReq'[d]
      BY <1>2, <2>2, <3>1
    <3>6. QED
      BY <3>4, <3>5 DEF ToolRequestOK
  <2>3. QED
    BY <2>1, <2>2
<1>5. ToolOneDecides'
  <2>1. ASSUME NEW d \in Client, d # c, q.stage \in Tool!Deciding
        PROVE  aReq[d].stage \notin Tool!Deciding
    <3>1. aReq[d].stage \in Tool!Deciding => auth.status = "deciding"
      BY DEF ToolIInv, ToolRequestOK
    <3>2. aReq[c].stage \in Tool!Deciding => aReq[d].stage \notin Tool!Deciding
      BY <2>1 DEF ToolIInv, ToolOneDecides
    <3>3. QED
      BY <1>1, <2>1, <3>1, <3>2 DEF ToolEnters
  <2>2. \A d, e \in Client : d # c /\ e # c /\ aReq'[d].stage \in Tool!Deciding
                             /\ aReq'[e].stage \in Tool!Deciding => d = e
    BY <1>2 DEF ToolIInv, ToolOneDecides
  <2>3. \A d \in Client : d # c => ~(aReq'[d].stage \in Tool!Deciding /\ aReq'[c].stage \in Tool!Deciding)
    BY <1>2, <2>1
  <2>4. QED
    BY <2>2, <2>3 DEF ToolOneDecides
<1>6. Tool!Abandoned => Tool!Abandoned'
  <2>1. ToolRequestOK(c, aReq[c]) /\ ToolByHolder(c)
    BY DEF ToolIInv, ToolGood
  <2>2. ASSUME auth.status = "consuming", \A d \in Client : aReq[d].stage \notin Tool!Calling
        PROVE  Tool!Abandoned'
    <3>1. auth' = auth
      BY <2>1, <2>2 DEF ToolRequestOK, ToolByHolder
    <3>2. \A d \in Client : aReq'[d].stage \notin Tool!Calling
      BY <1>1, <1>2, <2>2 DEF ToolEnters
    <3>3. QED
      BY <2>2, <3>1, <3>2 DEF Tool!Abandoned
  <2>3. ASSUME auth.status = "deciding", \A d \in Client : aReq[d].stage \notin Tool!Deciding
        PROVE  Tool!Abandoned'
    <3>1. auth' = auth
      BY <2>1, <2>3 DEF ToolRequestOK, ToolByHolder
    <3>2. \A d \in Client : aReq'[d].stage \notin Tool!Deciding
      BY <1>1, <1>2, <2>3 DEF ToolEnters
    <3>3. QED
      BY <2>3, <3>1, <3>2 DEF Tool!Abandoned
  <2>4. QED
    BY <2>2, <2>3 DEF Tool!Abandoned
<1>7. QED
  BY <1>3, <1>4, <1>5, <1>6 DEF ToolIInv

-----------------------------------------------------------------------------
(* The ways a request goes on *)

LEMMA ToolAnswered ==
  ASSUME NEW c \in Client, NEW a \in {"none", "refused", "executed"} \cup Tool!Decision,
         Tool!Reply(c, a),
         a = "executed" => invoked' = 1 /\ auth'.result = "done",
         a \in Tool!Decision => auth'.decision = a /\ auth'.stone = a
  PROVE  ToolGoes(c)
<1>1. Tool!Idle(a) \in ToolRequestType
  BY DEF Tool!Idle, ToolRequestType
<1>2. ToolRequestOK(c, Tool!Idle(a))' /\ ToolEnters(c, Tool!Idle(a))
  BY DEF Tool!Idle, ToolRequestOK, ToolEnters, Tool!Calling, Tool!Deciding, Tool!Decision
<1>3. QED
  BY <1>1, <1>2 DEF ToolGoes, Tool!Reply, Tool!Become

LEMMA ToolRefused ==
  ASSUME NEW c \in Client, Tool!Reply(c, "refused") \/ Tool!Reply(c, "none")
  PROVE  ToolGoes(c)
BY ToolAnswered DEF Tool!Decision

LEMMA ToolBecomes ==
  ASSUME NEW c \in Client, NEW q \in ToolRequestType, Tool!Become(c, q),
         ToolRequestOK(c, q)', ToolEnters(c, q)
  PROVE  ToolGoes(c)
BY DEF ToolGoes, Tool!Become

LEMMA ToolNamedOK ==
  ASSUME NEW c \in Client, NEW s \in Time \cup {"none"}, Tool!Named(c, "requested", s),
         auth'.status # "none", auth'.request = s
  PROVE  ToolGoes(c)
<1> DEFINE q == [stage |-> "idle", answer |-> "requested", stone |-> s]
<1>1. q \in ToolRequestType
  BY DEF ToolRequestType
<1>2. ToolRequestOK(c, q)' /\ ToolEnters(c, q)
  BY DEF ToolRequestOK, ToolEnters, Tool!Calling, Tool!Deciding, Tool!Decision
<1>3. Tool!Become(c, q)
  BY DEF Tool!Named
<1> HIDE DEF q
<1>4. QED
  BY <1>1, <1>2, <1>3, ToolBecomes

LEMMA ToolPlainly ==
  ASSUME NEW c \in Client, NEW s \in ToolPlain, Tool!Become(c, [stage |-> s]),
         s \in {"observe", "mismatch", "invoke", "verify"} =>
           /\ auth'.status = "consuming" /\ auth'.claim = c
           /\ aReq[c].stage \in Tool!Calling \/ auth.status = "authorized",
         s \in {"observe", "mismatch", "invoke"} => invoked' = 0,
         s = "verify" => invoked' = 1
  PROVE  ToolGoes(c)
<1> DEFINE q == [stage |-> s]
<1>1. q \in ToolRequestType
  BY DEF ToolRequestType
<1>2. ToolRequestOK(c, q)' /\ ToolEnters(c, q)
  BY DEF ToolRequestOK, ToolEnters, Tool!Calling, Tool!Deciding, ToolPlain
<1>3. Tool!Become(c, q)
  OBVIOUS
<1> HIDE DEF q
<1>4. QED
  BY <1>1, <1>2, <1>3, ToolBecomes

LEMMA ToolAsks ==
  ASSUME NEW c \in Client, NEW s \in ToolAsking, NEW t \in Time,
         Tool!Become(c, [stage |-> s, stone |-> t]),
         s = "compare" => auth'.status # "none"
  PROVE  ToolGoes(c)
<1> DEFINE q == [stage |-> s, stone |-> t]
<1>1. q \in ToolRequestType
  BY DEF ToolRequestType
<1>2. ToolRequestOK(c, q)' /\ ToolEnters(c, q)
  BY DEF ToolRequestOK, ToolEnters, Tool!Calling, Tool!Deciding, ToolAsking
<1>3. Tool!Become(c, q)
  OBVIOUS
<1> HIDE DEF q
<1>4. QED
  BY <1>1, <1>2, <1>3, ToolBecomes

LEMMA ToolChooses ==
  ASSUME NEW c \in Client, NEW s \in ToolChoosing, NEW d \in Tool!Decision, NEW e \in BOOLEAN,
         Tool!Become(c, [stage |-> s, decision |-> d, execute |-> e]),
         s \in Tool!Deciding => /\ auth'.status = "deciding" /\ auth'.decision = d
                                /\ aReq[c].stage \in Tool!Deciding \/ auth.status = "pending"
  PROVE  ToolGoes(c)
<1> DEFINE q == [stage |-> s, decision |-> d, execute |-> e]
<1>1. q \in ToolRequestType
  BY DEF ToolRequestType
<1>2. ToolRequestOK(c, q)' /\ ToolEnters(c, q)
  BY DEF ToolRequestOK, ToolEnters, Tool!Calling, ToolChoosing, Tool!Deciding
<1>3. Tool!Become(c, q)
  OBVIOUS
<1> HIDE DEF q
<1>4. QED
  BY <1>1, <1>2, <1>3, ToolBecomes

LEMMA ToolFinishes ==
  ASSUME NEW c \in Client, NEW b \in BOOLEAN, Tool!Become(c, [stage |-> "finish", ok |-> b]),
         auth'.status = "consuming", auth'.claim = c, aReq[c].stage \in Tool!Calling,
         b => invoked' = 1
  PROVE  ToolGoes(c)
<1> DEFINE q == [stage |-> "finish", ok |-> b]
<1>1. q \in ToolRequestType
  BY DEF ToolRequestType
<1>2. ToolRequestOK(c, q)' /\ ToolEnters(c, q)
  BY DEF ToolRequestOK, ToolEnters, Tool!Calling, Tool!Deciding
<1>3. Tool!Become(c, q)
  OBVIOUS
<1> HIDE DEF q
<1>4. QED
  BY <1>1, <1>2, <1>3, ToolBecomes

\* What a request looks like at each of its stages.
LEMMA ToolShapes ==
  ASSUME NEW r \in ToolRequestType
  PROVE  /\ r.stage \in ToolPlain => r = [stage |-> r.stage]
         /\ r.stage \in ToolAsking => r.stone \in Time /\ r = [stage |-> r.stage, stone |-> r.stone]
         /\ r.stage \in ToolChoosing =>
              /\ r.decision \in Tool!Decision /\ r.execute \in BOOLEAN
              /\ r = [stage |-> r.stage, decision |-> r.decision, execute |-> r.execute]
         /\ r.stage = "finish" => r.ok \in BOOLEAN
<1>1. CASE r \in [stage: {"idle"}, answer: {"none", "refused", "executed"} \cup Tool!Decision]
           \/ r \in [stage: {"idle"}, answer: {"requested"}, stone: Time \cup {"none"}]
  BY <1>1 DEF ToolPlain, ToolAsking, ToolChoosing
<1>2. CASE r \in [stage: ToolPlain]
  BY <1>2 DEF ToolPlain, ToolAsking, ToolChoosing
<1>3. CASE r \in [stage: ToolAsking, stone: Time]
  BY <1>3 DEF ToolPlain, ToolAsking, ToolChoosing
<1>4. CASE r \in [stage: ToolChoosing, decision: Tool!Decision, execute: BOOLEAN]
  BY <1>4 DEF ToolPlain, ToolAsking, ToolChoosing
<1>5. CASE r \in [stage: {"finish"}, ok: BOOLEAN]
  BY <1>5 DEF ToolPlain, ToolAsking, ToolChoosing
<1>6. QED
  BY <1>1, <1>2, <1>3, <1>4, <1>5 DEF ToolRequestType

-----------------------------------------------------------------------------
(* The steps that leave the row alone *)

LEMMA ToolQuietIsGood ==
  ASSUME ToolIInv, NEW c \in Client, ToolGoes(c), UNCHANGED auth, Tool!Outside
  PROVE  ToolGood(c)
BY DEF ToolGood, ToolRowKept, ToolRowMoves, ToolByHolder, ToolIInv, ToolTypesOK, ToolRowOK, ToolDecided, Tool!Outside

LEMMA ToolAskingIsGood ==
  ASSUME ToolIInv, NEW c \in Client,
         Tool!Request(c) \/ Tool!Prepare(c) \/ Tool!Package(c) \/ Tool!Known(c) \/ Tool!WriteStone(c) \/ Tool!Compare(c)
  PROVE  ToolGood(c)
<1>1. PICK r \in ToolRequestType : r = aReq[c]
  BY DEF ToolIInv, ToolTypesOK
<1>2. UNCHANGED auth /\ Tool!Outside
  BY DEF Tool!Request, Tool!Prepare, Tool!Package, Tool!Known, Tool!WriteStone, Tool!Compare
<1>3. auth.request \in Time \cup {"none"} /\ auth'.request = auth.request
      /\ auth'.status = auth.status
  BY <1>2 DEF ToolIInv, ToolTypesOK, ToolAuth
<1>4. ToolGoes(c)
  <2>1. CASE Tool!Request(c) \/ Tool!Package(c)
    <3>1. \/ Tool!Reply(c, "refused")
          \/ \E t \in Time : Tool!Become(c, [stage |-> "known", stone |-> t])
      BY <2>1 DEF Tool!Request, Tool!Package
    <3>2. QED
      BY <3>1, ToolRefused, ToolAsks DEF ToolAsking
  <2>2. CASE Tool!Prepare(c)
    <3>1. Tool!Reply(c, "refused") \/ Tool!Become(c, [stage |-> "package"])
      BY <2>2 DEF Tool!Prepare
    <3>2. QED
      BY <3>1, ToolRefused, ToolPlainly DEF ToolPlain
  <2>3. CASE Tool!Known(c)
    <3>1. /\ r.stage = "known"
          /\ \/ auth.status # "none" /\ Tool!Named(c, "requested", auth.request)
             \/ Tool!Goto(c, "stone")
             \/ Tool!Reply(c, "refused")
      BY <1>1, <2>3 DEF Tool!Known, Tool!At
    <3>2. CASE auth.status # "none" /\ Tool!Named(c, "requested", auth.request)
      <4>1. PICK s \in Time \cup {"none"} : s = auth.request
        BY <1>3
      <4>2. QED
        BY <1>3, <3>2, <4>1, ToolNamedOK
    <3>3. CASE Tool!Goto(c, "stone")
      <4>1. r.stone \in Time /\ r = [stage |-> "known", stone |-> r.stone]
        BY <3>1, ToolShapes DEF ToolAsking
      <4>2. Tool!Become(c, [stage |-> "stone", stone |-> r.stone])
        BY <1>1, <3>3, <4>1 DEF Tool!Goto
      <4>3. QED
        BY <4>1, <4>2, ToolAsks DEF ToolAsking
    <3>4. QED
      BY <3>1, <3>2, <3>3, ToolRefused
  <2>4. CASE Tool!WriteStone(c)
    <3>1. r.stage = "stone" /\ (Tool!Goto(c, "persist") \/ Tool!Reply(c, "refused"))
      BY <1>1, <2>4 DEF Tool!WriteStone, Tool!At
    <3>2. CASE Tool!Goto(c, "persist")
      <4>1. r.stone \in Time /\ r = [stage |-> "stone", stone |-> r.stone]
        BY <3>1, ToolShapes DEF ToolAsking
      <4>2. Tool!Become(c, [stage |-> "persist", stone |-> r.stone])
        BY <1>1, <3>2, <4>1 DEF Tool!Goto
      <4>3. QED
        BY <4>1, <4>2, ToolAsks DEF ToolAsking
    <3>3. QED
      BY <3>1, <3>2, ToolRefused
  <2>5. CASE Tool!Compare(c)
    <3>1. /\ r.stage = "compare"
          /\ \/ auth.request = r.stone /\ Tool!Named(c, "requested", r.stone)
             \/ Tool!Reply(c, "refused")
      BY <1>1, <2>5 DEF Tool!Compare, Tool!At
    <3>2. auth'.status # "none" /\ r.stone \in Time
      BY <1>1, <1>3, <3>1, ToolShapes DEF ToolIInv, ToolRequestOK, ToolAsking
    <3>3. QED
      BY <1>3, <3>1, <3>2, ToolNamedOK, ToolRefused
  <2>6. QED
    BY <2>1, <2>2, <2>3, <2>4, <2>5
<1>5. QED
  BY <1>2, <1>4, ToolQuietIsGood

LEMMA ToolDecideIsGood ==
  ASSUME ToolIInv, NEW c \in Client, Tool!Decide(c)
  PROVE  ToolGood(c)
<1>1. UNCHANGED auth /\ Tool!Outside
  BY DEF Tool!Decide
<1>2. PICK d \in Tool!Decision, execute \in BOOLEAN :
        \/ Tool!Reply(c, "refused")
        \/ Tool!Replayed(d) /\ Tool!Reply(c, d)
        \/ Tool!Become(c, [stage |-> "claim", decision |-> d,
                           execute |-> execute /\ d = "approved"])
  BY DEF Tool!Decide
<1>3. Tool!Replayed(d) => auth'.decision = d /\ auth'.stone = d
  BY <1>1 DEF Tool!Replayed, ToolIInv, ToolRowOK, ToolDecided
<1>4. (execute /\ d = "approved") \in BOOLEAN
  OBVIOUS
<1>5. ToolGoes(c)
  <2>1. CASE Tool!Replayed(d) /\ Tool!Reply(c, d)
    BY <1>3, <2>1, ToolAnswered DEF Tool!Decision
  <2>2. CASE Tool!Become(c, [stage |-> "claim", decision |-> d,
                             execute |-> execute /\ d = "approved"])
    <3>1. PICK e \in BOOLEAN : e = (execute /\ d = "approved")
      BY <1>4
    <3>2. "claim" \in ToolChoosing /\ "claim" \notin Tool!Deciding
      BY DEF ToolChoosing, Tool!Deciding
    <3>3. QED
      BY <2>2, <3>1, <3>2, ToolChooses
  <2>3. QED
    BY <1>2, <2>1, <2>2, ToolRefused
<1>6. QED
  BY <1>1, <1>5, ToolQuietIsGood

LEMMA ToolCallingIsGood ==
  ASSUME ToolIInv, NEW c \in Client,
         Tool!Execute(c) \/ Tool!Load(c) \/ Tool!Lost(c) \/ Tool!Observe(c) \/ Tool!Verify(c) \/ Tool!Die(c) \/ Tool!Evidence(c)
  PROVE  ToolGood(c)
<1>1. PICK r \in ToolRequestType : r = aReq[c]
  BY DEF ToolIInv, ToolTypesOK
<1>2. UNCHANGED auth /\ Tool!Outside
  BY DEF Tool!Execute, Tool!Load, Tool!Lost, Tool!Observe, Tool!Verify, Tool!Die, Tool!Evidence
<1>3. /\ ToolRequestOK(c, r) /\ auth'.status = auth.status /\ auth'.claim = auth.claim
      /\ auth'.decision = auth.decision /\ invoked' = invoked
      /\ auth.status = "executed" => invoked' = 1 /\ auth'.result = "done"
  BY <1>1, <1>2 DEF ToolIInv, ToolRowOK, Tool!Outside
<1>4. ToolGoes(c)
  <2>1. CASE Tool!Execute(c)
    BY <2>1, ToolPlainly DEF Tool!Execute, ToolPlain
  <2>2. CASE Tool!Load(c)
    <3>1. \/ auth.status = "executed" /\ Tool!Reply(c, "executed")
          \/ Tool!Reply(c, "refused")
          \/ Tool!Become(c, [stage |-> "expire"])
          \/ Tool!Become(c, [stage |-> "consume"])
      BY <2>2 DEF Tool!Load
    <3>2. QED
      BY <1>3, <3>1, ToolAnswered, ToolRefused, ToolPlainly DEF ToolPlain, Tool!Decision
  <2>3. CASE Tool!Lost(c)
    <3>1. Tool!Reply(c, IF auth.status = "executed" THEN "executed" ELSE "refused")
      BY <2>3 DEF Tool!Lost
    <3>2. CASE auth.status = "executed"
      BY <1>3, <3>1, <3>2, ToolAnswered DEF Tool!Decision
    <3>3. CASE auth.status # "executed"
      BY <3>1, <3>3, ToolRefused
    <3>4. QED
      BY <3>2, <3>3
  <2>4. CASE Tool!Observe(c)
    <3>1. r.stage = "observe" /\ (Tool!Goto(c, "invoke") \/ Tool!Goto(c, "mismatch"))
      BY <1>1, <2>4 DEF Tool!Observe, Tool!At
    <3>2. r = [stage |-> "observe"]
      BY <3>1, ToolShapes DEF ToolPlain
    <3>3. Tool!Become(c, [stage |-> "invoke"]) \/ Tool!Become(c, [stage |-> "mismatch"])
      BY <1>1, <3>1, <3>2 DEF Tool!Goto
    <3>4. auth'.status = "consuming" /\ auth'.claim = c /\ invoked' = 0
          /\ aReq[c].stage \in Tool!Calling
      BY <1>1, <1>3, <3>1 DEF ToolRequestOK, Tool!Calling
    <3>5. QED
      BY <3>3, <3>4, ToolPlainly DEF ToolPlain
  <2>5. CASE Tool!Verify(c)
    <3>1. r.stage = "verify" /\ Tool!Become(c, [stage |-> "finish", ok |-> head = "target"])
      BY <1>1, <2>5 DEF Tool!Verify, Tool!At
    <3>2. auth'.status = "consuming" /\ auth'.claim = c /\ invoked' = 1
          /\ aReq[c].stage \in Tool!Calling
      BY <1>1, <1>3, <3>1 DEF ToolRequestOK, Tool!Calling
    <3>3. PICK b \in BOOLEAN : b = (head = "target")
      OBVIOUS
    <3>4. QED
      BY <3>1, <3>2, <3>3, ToolFinishes
  <2>6. CASE Tool!Die(c)
    BY <2>6, ToolRefused DEF Tool!Die
  <2>7. CASE Tool!Evidence(c)
    <3>1. r.stage = "evidence" /\ (Tool!Goto(c, "settle") \/ Tool!Goto(c, "undecided"))
      BY <1>1, <2>7 DEF Tool!Evidence, Tool!At
    <3>2. /\ r.decision \in Tool!Decision /\ r.execute \in BOOLEAN
          /\ r = [stage |-> "evidence", decision |-> r.decision, execute |-> r.execute]
      BY <3>1, ToolShapes DEF ToolChoosing
    <3>3. \/ Tool!Become(c, [stage |-> "settle", decision |-> r.decision, execute |-> r.execute])
          \/ Tool!Become(c, [stage |-> "undecided", decision |-> r.decision, execute |-> r.execute])
      BY <1>1, <3>1, <3>2 DEF Tool!Goto
    <3>4. auth'.status = "deciding" /\ auth'.decision = r.decision /\ aReq[c].stage \in Tool!Deciding
      BY <1>1, <1>3, <3>1 DEF ToolRequestOK, Tool!Deciding
    <3>5. QED
      BY <3>2, <3>3, <3>4, ToolChooses DEF ToolChoosing
  <2>8. QED
    BY <2>1, <2>2, <2>3, <2>4, <2>5, <2>6, <2>7
<1>5. QED
  BY <1>2, <1>4, ToolQuietIsGood

-----------------------------------------------------------------------------
(* The steps that write the row *)

LEMMA ToolPersistIsGood ==
  ASSUME ToolIInv, NEW c \in Client, Tool!Persist(c)
  PROVE  ToolGood(c)
<1>1. PICK r \in ToolRequestType : r = aReq[c]
  BY DEF ToolIInv, ToolTypesOK
<1>2. CASE UNCHANGED auth /\ Tool!Reply(c, "refused")
  BY <1>2, ToolRefused, ToolQuietIsGood DEF Tool!Persist
<1>3. CASE /\ auth' = IF auth.status = "none"
                      THEN [Tool!NoAuth EXCEPT !.status = "pending", !.request = aReq[c].stone]
                      ELSE auth
           /\ Tool!Goto(c, "compare")
  <2>1. r.stone \in Time /\ r = [stage |-> "persist", stone |-> r.stone]
    BY <1>1, ToolShapes DEF Tool!Persist, Tool!At, ToolAsking
  <2>2. Tool!Become(c, [stage |-> "compare", stone |-> r.stone])
    BY <1>1, <1>3, <2>1 DEF Tool!Goto
  <2>3. head' = head /\ invoked' = invoked
    BY DEF Tool!Persist, Tool!Outside
  <2>4. CASE auth.status = "none"
    <3>1. auth' = [Tool!NoAuth EXCEPT !.status = "pending", !.request = r.stone]
      BY <1>1, <1>3, <2>4
    <3>2. /\ auth' \in ToolAuth /\ auth'.status = "pending" /\ auth'.stone = "none"
          /\ auth'.result = "none"
      BY <2>1, <3>1 DEF Tool!NoAuth, ToolAuth, Tool!Status
    <3>3. invoked # 1 /\ auth.stone = "none"
      BY <2>4 DEF ToolIInv, ToolRowOK
    <3>4. ToolRowKept
      BY <2>3, <2>4, <3>2, <3>3
      DEF ToolRowKept, ToolRowMoves, ToolRowOK, ToolDecided, Tool!Settled, Tool!Decision, ToolIInv, ToolTypesOK
    <3>5. ToolGoes(c)
      BY <2>1, <2>2, <3>2, ToolAsks DEF ToolAsking
    <3>6. QED
      BY <2>4, <3>4, <3>5 DEF ToolGood, ToolByHolder
  <2>5. CASE auth.status # "none"
    <3>1. auth' = auth
      BY <1>3, <2>5
    <3>2. ToolGoes(c)
      BY <2>1, <2>2, <2>5, <3>1, ToolAsks DEF ToolAsking
    <3>3. QED
      BY <2>3, <3>1, <3>2, ToolQuietIsGood DEF Tool!Outside
  <2>6. QED
    BY <2>4, <2>5
<1>4. QED
  BY <1>2, <1>3 DEF Tool!Persist

LEMMA ToolClaimIsGood ==
  ASSUME ToolIInv, NEW c \in Client, Tool!Claim(c)
  PROVE  ToolGood(c)
<1>1. PICK r \in ToolRequestType : r = aReq[c]
  BY DEF ToolIInv, ToolTypesOK
<1>2. CASE auth.status = "pending"
  <2>1. /\ r.decision \in Tool!Decision /\ r.execute \in BOOLEAN
        /\ r = [stage |-> "claim", decision |-> r.decision, execute |-> r.execute]
    BY <1>1, ToolShapes DEF Tool!Claim, Tool!At, ToolChoosing
  <2>2. /\ auth' = [auth EXCEPT !.status = "deciding", !.decision = r.decision]
        /\ Tool!Become(c, [stage |-> "evidence", decision |-> r.decision, execute |-> r.execute])
    BY <1>1, <1>2, <2>1 DEF Tool!Claim, Tool!Goto
  <2>3. /\ auth \in ToolAuth /\ head' = head /\ invoked' = invoked /\ invoked # 1
        /\ auth.stone = "none" /\ auth.result = "none"
    BY <1>2 DEF ToolIInv, ToolTypesOK, ToolRowOK, Tool!Claim, Tool!Outside, Tool!Settled
  <2>4. /\ auth' \in ToolAuth /\ auth'.status = "deciding" /\ auth'.decision = r.decision
        /\ auth'.stone = auth.stone /\ auth'.request = auth.request /\ auth'.result = auth.result
    BY <2>1, <2>2, <2>3 DEF ToolAuth, Tool!Status
  <2>5. ToolRowKept
    BY <1>2, <2>3, <2>4
    DEF ToolRowKept, ToolRowMoves, ToolRowOK, ToolDecided, Tool!Settled, Tool!Decision, ToolIInv, ToolTypesOK
  <2>6. ToolGoes(c)
    BY <1>2, <2>1, <2>2, <2>4, ToolChooses DEF ToolChoosing
  <2>7. QED
    BY <1>2, <2>5, <2>6 DEF ToolGood, ToolByHolder
<1>3. CASE auth.status # "pending"
  BY <1>3, ToolRefused, ToolQuietIsGood DEF Tool!Claim
<1>4. QED
  BY <1>2, <1>3

LEMMA ToolUndecidedIsGood ==
  ASSUME ToolIInv, NEW c \in Client, Tool!Undecided(c)
  PROVE  ToolGood(c)
<1>1. auth.status = "deciding" /\ aReq[c].stage \in Tool!Deciding
  BY DEF ToolIInv, ToolRequestOK, Tool!Undecided, Tool!At, Tool!Deciding
<1>2. /\ auth \in ToolAuth /\ head' = head /\ invoked' = invoked /\ invoked # 1
      /\ auth.stone = "none" /\ auth.result = "none"
  BY <1>1 DEF ToolIInv, ToolTypesOK, ToolRowOK, Tool!Undecided, Tool!Outside, Tool!Settled
<1>3. /\ auth' \in ToolAuth /\ auth'.status = "authorization_failed"
      /\ auth'.stone = auth.stone /\ auth'.request = auth.request /\ auth'.result = auth.result
  BY <1>2 DEF Tool!Undecided, ToolAuth, Tool!Status, Tool!Settled
<1>4. ToolRowKept
  BY <1>1, <1>2, <1>3
  DEF ToolRowKept, ToolRowMoves, ToolRowOK, ToolDecided, Tool!Settled, Tool!Decision, ToolIInv, ToolTypesOK
<1>5. QED
  BY <1>1, <1>4, ToolRefused DEF ToolGood, ToolByHolder, Tool!Undecided

LEMMA ToolSettleIsGood ==
  ASSUME ToolIInv, NEW c \in Client, Tool!Settle(c)
  PROVE  ToolGood(c)
<1>1. PICK r \in ToolRequestType : r = aReq[c]
  BY DEF ToolIInv, ToolTypesOK
<1>2. r.stage = "settle" /\ r.decision \in Tool!Decision
  BY <1>1, ToolShapes DEF Tool!Settle, Tool!At, ToolChoosing
<1>3. auth.status = "deciding" /\ auth.decision = r.decision /\ aReq[c].stage \in Tool!Deciding
  BY <1>1, <1>2 DEF ToolIInv, ToolRequestOK, Tool!Deciding
<1>4. PICK d \in Tool!Decision : d = r.decision
  BY <1>2
<1>5. /\ auth \in ToolAuth /\ head' = head /\ invoked' = invoked /\ invoked # 1
      /\ auth.stone = "none" /\ auth.result = "none"
  BY <1>3 DEF ToolIInv, ToolTypesOK, ToolRowOK, Tool!Settle, Tool!Outside, Tool!Settled
<1>6. auth' = [auth EXCEPT
         !.status = IF d = "approved" THEN "authorized" ELSE "denied",
         !.term   = IF d = "approved" THEN "running" ELSE "none",
         !.stone  = d]
  BY <1>1, <1>4 DEF Tool!Settle
<1>7. /\ auth' \in ToolAuth /\ auth'.status = IF d = "approved" THEN "authorized" ELSE "denied"
      /\ auth'.stone = d /\ auth'.decision = d
      /\ auth'.request = auth.request /\ auth'.result = auth.result
  BY <1>3, <1>4, <1>5, <1>6 DEF ToolAuth, Tool!Status, Tool!Settled, Tool!Decision
<1>8. ToolRowKept
  BY <1>3, <1>5, <1>7
  DEF ToolRowKept, ToolRowMoves, ToolRowOK, ToolDecided, Tool!Settled, Tool!Decision, ToolIInv, ToolTypesOK
<1>9. ToolGoes(c)
  <2>1. Tool!Become(c, [stage |-> "load"]) \/ Tool!Reply(c, d)
    BY <1>1, <1>4 DEF Tool!Settle
  <2>2. CASE Tool!Become(c, [stage |-> "load"])
    BY <2>2, ToolPlainly DEF ToolPlain
  <2>3. CASE Tool!Reply(c, d)
    BY <1>7, <2>3, ToolAnswered DEF Tool!Decision
  <2>4. QED
    BY <2>1, <2>2, <2>3
<1>10. QED
  BY <1>3, <1>8, <1>9 DEF ToolGood, ToolByHolder

LEMMA ToolExpireIsGood ==
  ASSUME ToolIInv, NEW c \in Client, Tool!Expire(c)
  PROVE  ToolGood(c)
<1>1. CASE auth.status = "authorized"
  <2>1. /\ auth \in ToolAuth /\ head' = head /\ invoked' = invoked /\ invoked # 1
        /\ auth.decision = "approved" /\ auth.stone = "approved" /\ auth.result = "none"
    BY <1>1 DEF ToolIInv, ToolTypesOK, ToolRowOK, ToolDecided, Tool!Expire, Tool!Outside, Tool!Settled
  <2>2. /\ auth' \in ToolAuth /\ auth'.status = "expired" /\ auth'.decision = auth.decision
        /\ auth'.stone = auth.stone /\ auth'.request = auth.request
        /\ auth'.result = auth.result
    BY <1>1, <2>1 DEF Tool!Expire, ToolAuth, Tool!Status, Tool!Settled
  <2>3. ToolRowKept
    BY <1>1, <2>1, <2>2
    DEF ToolRowKept, ToolRowMoves, ToolRowOK, ToolDecided, Tool!Settled, Tool!Decision, ToolIInv, ToolTypesOK
  <2>4. QED
    BY <1>1, <2>3, ToolRefused DEF ToolGood, ToolByHolder, Tool!Expire
<1>2. CASE auth.status # "authorized"
  BY <1>2, ToolRefused, ToolQuietIsGood DEF Tool!Expire
<1>3. QED
  BY <1>1, <1>2

LEMMA ToolConsumeIsGood ==
  ASSUME ToolIInv, NEW c \in Client, Tool!Consume(c)
  PROVE  ToolGood(c)
<1>1. PICK r \in ToolRequestType : r = aReq[c]
  BY DEF ToolIInv, ToolTypesOK
<1>2. r = [stage |-> "consume"]
  BY <1>1, ToolShapes DEF Tool!Consume, Tool!At, ToolPlain
<1>3. CASE auth.status = "authorized"
  <2>1. /\ auth \in ToolAuth /\ head' = head /\ invoked' = invoked /\ invoked = 0
        /\ auth.decision = "approved" /\ auth.stone = "approved" /\ auth.result = "none"
    BY <1>3 DEF ToolIInv, ToolTypesOK, ToolRowOK, ToolDecided, Tool!Consume, Tool!Outside, Tool!Settled
  <2>2. /\ auth' = [auth EXCEPT !.status = "consuming", !.claim = c]
        /\ Tool!Become(c, [stage |-> "observe"])
    BY <1>1, <1>2, <1>3 DEF Tool!Consume, Tool!Goto
  <2>3. /\ auth' \in ToolAuth /\ auth'.status = "consuming" /\ auth'.claim = c
        /\ auth'.decision = auth.decision /\ auth'.stone = auth.stone
        /\ auth'.request = auth.request /\ auth'.result = auth.result
    BY <2>1, <2>2 DEF ToolAuth, Tool!Status
  <2>4. ToolRowKept
    BY <1>3, <2>1, <2>3
    DEF ToolRowKept, ToolRowMoves, ToolRowOK, ToolDecided, Tool!Settled, Tool!Decision, ToolIInv, ToolTypesOK
  <2>5. ToolGoes(c)
    BY <1>3, <2>1, <2>2, <2>3, ToolPlainly DEF ToolPlain
  <2>6. QED
    BY <1>3, <2>4, <2>5 DEF ToolGood, ToolByHolder
<1>4. CASE auth.status # "authorized"
  <2>1. Tool!Become(c, [stage |-> "lost"]) /\ UNCHANGED auth /\ Tool!Outside
    BY <1>1, <1>2, <1>4 DEF Tool!Consume, Tool!Goto
  <2>2. QED
    BY <2>1, ToolPlainly, ToolQuietIsGood DEF ToolPlain
<1>5. QED
  BY <1>3, <1>4

LEMMA ToolMismatchIsGood ==
  ASSUME ToolIInv, NEW c \in Client, Tool!Mismatch(c)
  PROVE  ToolGood(c)
<1>1. auth.status = "consuming" /\ aReq[c].stage \in Tool!Calling /\ invoked = 0
  BY DEF ToolIInv, ToolRequestOK, Tool!Mismatch, Tool!At, Tool!Calling
<1>2. /\ auth \in ToolAuth /\ head' = head /\ invoked' = invoked
      /\ auth.decision = "approved" /\ auth.stone = "approved"
  BY <1>1 DEF ToolIInv, ToolTypesOK, ToolRowOK, ToolDecided, Tool!Mismatch, Tool!Outside
<1>3. /\ auth' \in ToolAuth /\ auth'.status = "guard_failed" /\ auth'.result = "guard"
      /\ auth'.decision = auth.decision /\ auth'.stone = auth.stone
      /\ auth'.request = auth.request
  BY <1>2 DEF Tool!Mismatch, ToolAuth, Tool!Status, Tool!Settled
<1>4. ToolRowKept
  BY <1>1, <1>2, <1>3
  DEF ToolRowKept, ToolRowMoves, ToolRowOK, ToolDecided, Tool!Settled, Tool!Decision, ToolIInv, ToolTypesOK
<1>5. QED
  BY <1>1, <1>4, ToolRefused DEF ToolGood, ToolByHolder, Tool!Mismatch

LEMMA ToolInvokeIsGood ==
  ASSUME ToolIInv, NEW c \in Client, Tool!Invoke(c)
  PROVE  ToolGood(c)
<1>1. PICK r \in ToolRequestType : r = aReq[c]
  BY DEF ToolIInv, ToolTypesOK
<1>2. r = [stage |-> "invoke"]
  BY <1>1, ToolShapes DEF Tool!Invoke, Tool!At, ToolPlain
<1>3. /\ auth' = auth /\ auth.status = "consuming" /\ auth.claim = c /\ invoked = 0
      /\ aReq[c].stage \in Tool!Calling
  <2>1. aReq[c].stage = "invoke" /\ auth' = auth
    BY DEF Tool!Invoke, Tool!At
  <2>2. QED
    BY <2>1 DEF ToolIInv, ToolRequestOK, Tool!Calling
<1>4. CASE head' = "target" /\ invoked' = invoked + 1 /\ Tool!Goto(c, "verify")
  <2>1. Tool!Become(c, [stage |-> "verify"]) /\ invoked' = 1
    BY <1>1, <1>2, <1>3, <1>4 DEF Tool!Goto
  <2>2. ToolRowKept
    BY <1>3, <1>4, <2>1
    DEF ToolRowKept, ToolRowMoves, ToolRowOK, ToolDecided, Tool!Settled, ToolIInv, ToolTypesOK, Tool!Head
  <2>3. ToolGoes(c)
    BY <1>3, <2>1, ToolPlainly DEF ToolPlain
  <2>4. QED
    BY <1>3, <2>2, <2>3 DEF ToolGood, ToolByHolder
<1>5. CASE UNCHANGED <<head, invoked>> /\ Tool!Become(c, [stage |-> "finish", ok |-> FALSE])
  <2>1. ToolGoes(c)
    BY <1>3, <1>5, ToolFinishes
  <2>2. QED
    BY <1>3, <1>5, <2>1, ToolQuietIsGood DEF Tool!Outside
<1>6. QED
  BY <1>4, <1>5 DEF Tool!Invoke

LEMMA ToolFinishIsGood ==
  ASSUME ToolIInv, NEW c \in Client, Tool!Finish(c)
  PROVE  ToolGood(c)
<1>1. PICK r \in ToolRequestType : r = aReq[c]
  BY DEF ToolIInv, ToolTypesOK
<1>2. r.stage = "finish" /\ r.ok \in BOOLEAN
  BY <1>1, ToolShapes DEF Tool!Finish, Tool!At
<1>3. /\ auth.status = "consuming" /\ aReq[c].stage \in Tool!Calling
      /\ r.ok => invoked = 1
  BY <1>1, <1>2 DEF ToolIInv, ToolRequestOK, Tool!Calling
<1>4. /\ auth \in ToolAuth /\ head' = head /\ invoked' = invoked
      /\ auth.decision = "approved" /\ auth.stone = "approved"
  BY <1>3 DEF ToolIInv, ToolTypesOK, ToolRowOK, ToolDecided, Tool!Finish, Tool!Outside
<1>5. PICK b \in BOOLEAN : b = r.ok
  BY <1>2
<1>6. /\ auth' = [auth EXCEPT !.status = IF b THEN "executed" ELSE "execution_failed",
                              !.result = IF b THEN "done" ELSE "failed"]
      /\ Tool!Reply(c, IF b THEN "executed" ELSE "refused")
  BY <1>1, <1>5 DEF Tool!Finish
<1>7. /\ auth' \in ToolAuth /\ auth'.decision = auth.decision /\ auth'.stone = auth.stone
      /\ auth'.request = auth.request
      /\ auth'.status = IF b THEN "executed" ELSE "execution_failed"
      /\ auth'.result = IF b THEN "done" ELSE "failed"
  BY <1>4, <1>6 DEF ToolAuth, Tool!Status, Tool!Settled
<1>8. ToolRowKept
  BY <1>3, <1>4, <1>5, <1>7
  DEF ToolRowKept, ToolRowMoves, ToolRowOK, ToolDecided, Tool!Settled, Tool!Decision, ToolIInv, ToolTypesOK
<1>9. ToolGoes(c)
  <2>1. CASE b
    BY <1>3, <1>4, <1>5, <1>6, <1>7, <2>1, ToolAnswered DEF Tool!Decision
  <2>2. CASE ~b
    BY <1>6, <2>2, ToolRefused
  <2>3. QED
    BY <2>1, <2>2
<1>10. QED
  BY <1>3, <1>8, <1>9 DEF ToolGood, ToolByHolder

-----------------------------------------------------------------------------
(* What the runs check, for every value of the constants *)

LEMMA ToolInitOK == Tool!Init => ToolIInv
<1> SUFFICES ASSUME Tool!Init PROVE ToolIInv
  OBVIOUS
<1>1. auth = Tool!NoAuth /\ head = "expected" /\ invoked = 0
  BY DEF Tool!Init
<1>2. aReq \in [Client -> ToolRequestType] /\ \A c \in Client : aReq[c] = Tool!Idle("none")
  BY DEF Tool!Init, ToolRequestType, Tool!Idle
<1>3. ToolTypesOK
  BY <1>1, <1>2 DEF ToolTypesOK, ToolAuth, Tool!NoAuth, Tool!Status, Tool!Head
<1>4. ToolRowOK
  BY <1>1 DEF ToolRowOK, Tool!NoAuth, ToolDecided
<1>5. QED
  BY <1>2, <1>3, <1>4 DEF ToolIInv, ToolOneDecides, ToolRequestOK, Tool!Idle, Tool!Calling, Tool!Deciding, Tool!Decision

\* Time passes, or another writer moves the head: no claim depends on either.
LEMMA ToolAroundOK ==
  ASSUME ToolIInv, Tool!Lapse \/ Tool!MoveHead \/ UNCHANGED Tool!vars
  PROVE  ToolIInv' /\ ToolRowMoves /\ (Tool!Abandoned => Tool!Abandoned')
<1>1. /\ auth' \in ToolAuth /\ head' \in Tool!Head /\ invoked' = invoked /\ aReq' = aReq
      /\ auth'.status = auth.status /\ auth'.request = auth.request
      /\ auth'.decision = auth.decision /\ auth'.stone = auth.stone
      /\ auth'.claim = auth.claim /\ auth'.result = auth.result
  <2>1. CASE Tool!Lapse
    BY <2>1 DEF Tool!Lapse, ToolIInv, ToolTypesOK, ToolAuth
  <2>2. CASE Tool!MoveHead
    BY <2>2 DEF Tool!MoveHead, ToolIInv, ToolTypesOK
  <2>3. CASE UNCHANGED Tool!vars
    BY <2>3 DEF Tool!vars, ToolIInv, ToolTypesOK
  <2>4. QED
    BY <2>1, <2>2, <2>3
<1>2. ToolTypesOK' /\ ToolRowOK' /\ ToolOneDecides'
  BY <1>1 DEF ToolIInv, ToolTypesOK, ToolRowOK, ToolDecided, ToolOneDecides
<1>3. \A c \in Client : ToolRequestOK(c, aReq[c])'
  BY <1>1 DEF ToolIInv, ToolRequestOK
<1>4. QED
  BY <1>1, <1>2, <1>3 DEF ToolIInv, ToolRowMoves, Tool!Abandoned

LEMMA ToolNextOK ==
  ASSUME ToolIInv, [Tool!Next]_(Tool!vars)
  PROVE  ToolIInv' /\ ToolRowMoves /\ (Tool!Abandoned => Tool!Abandoned')
<1>1. CASE Tool!Lapse \/ Tool!MoveHead \/ UNCHANGED Tool!vars
  BY <1>1, ToolAroundOK
<1>2. ASSUME NEW c \in Client, Tool!Step(c) \/ Tool!Begin(c) \/ Tool!Die(c)
      PROVE  ToolGood(c)
  BY <1>2, ToolAskingIsGood, ToolDecideIsGood, ToolCallingIsGood, ToolPersistIsGood, ToolClaimIsGood,
     ToolUndecidedIsGood, ToolSettleIsGood, ToolExpireIsGood, ToolConsumeIsGood, ToolMismatchIsGood,
     ToolInvokeIsGood, ToolFinishIsGood, Zenon DEF Tool!Step, Tool!Begin
<1>3. ASSUME NEW c \in Client, ToolGood(c)
      PROVE  ToolIInv' /\ ToolRowMoves /\ (Tool!Abandoned => Tool!Abandoned')
  BY <1>3, ToolStepOfClient DEF ToolGood, ToolRowKept
<1>4. QED
  BY <1>1, <1>2, <1>3, Zenon DEF Tool!Next, Tool!Work

LEMMA ToolImplied == ToolIInv => Tool!ClaimsKept
<1> SUFFICES ASSUME ToolIInv PROVE Tool!ClaimsKept
  OBVIOUS
<1>1. Tool!TypeOK
  <2>1. ASSUME NEW c \in Client, aReq[c].stage = "idle"
        PROVE  aReq[c].answer \in {"none", "refused", "requested", "executed"} \cup Tool!Decision
    <3>1. PICK r \in ToolRequestType : r = aReq[c]
      BY DEF ToolIInv, ToolTypesOK
    <3>2. QED
      BY <2>1, <3>1 DEF ToolRequestType, ToolPlain, ToolAsking, ToolChoosing
  <2>2. QED
    BY <2>1 DEF ToolIInv, ToolTypesOK, Tool!TypeOK, ToolAuth
<1>2. Tool!OneCallPerApproval
  BY DEF ToolIInv, ToolTypesOK, ToolRequestOK, ToolRowOK, ToolDecided, Tool!OneCallPerApproval
<1>3. Tool!DecidedAsAnswered /\ Tool!RequestedAsRecorded
  BY DEF ToolIInv, ToolRequestOK, Tool!DecidedAsAnswered, Tool!RequestedAsRecorded, Tool!At
<1>4. QED
  BY <1>1, <1>2, <1>3 DEF Tool!ClaimsKept

\* For any number of concurrent requests, retries, deciders and deaths: the tool
\* runs at most once for one approval and only after a human's approval of it is
\* recorded, and what each caller is told is what the row says.
THEOREM ClaimsAreKept == Tool!Spec => []ClaimsKept
<1>1. ToolIInv /\ [Tool!Next]_(Tool!vars) => ToolIInv'
  BY ToolNextOK
<1>2. QED
  BY <1>1, ToolInitOK, ToolImplied, PTL DEF ClaimsKept, Tool!Spec

\* For any number of concurrent requests: no late loser, unconditional update or
\* expiry changes an outcome, and nobody takes over a claim whose holder died.
THEOREM OutcomesAreKept == Tool!Spec => OutcomesKept
<1>1. ToolIInv /\ [Tool!Next]_(Tool!vars) => ToolIInv'
  BY ToolNextOK
<1>2. ToolIInv /\ [Tool!Next]_(Tool!vars) =>
        [auth.status \in Tool!Settled => auth'.status = auth.status
                                         /\ auth'.result = auth.result]_(Tool!vars)
  BY ToolNextOK DEF ToolRowMoves
<1>3. ToolIInv /\ [Tool!Next]_(Tool!vars) => [Tool!Abandoned => Tool!Abandoned']_(Tool!vars)
  BY ToolNextOK
<1>4. QED
  BY <1>1, <1>2, <1>3, ToolInitOK, PTL DEF OutcomesKept, Tool!Spec, Tool!OutcomesKept, Tool!OutcomeStays, Tool!AbandonedStays
-----------------------------------------------------------------------------
(* Access grants *)

GrantAnswers == {"none", "refused", "read", "revoked"}
GrantStages == {"send", "notified", "revoke", "read", "answer"}
GrantRequest == [stage: {"idle"}, answer: GrantAnswers] \cup [stage: GrantStages]

GrantGrant == [status: {"none", "granted", "first_read", "revoked"},
               term: {"running", "over"}, read_by: Client \cup {Grants!Nobody},
               revoked_by: Client \cup {Grants!Nobody}, notified: BOOLEAN]

GrantTypeOK == /\ grant \in GrantGrant
               /\ sent \in BOOLEAN
               /\ grantReq \in [Client -> GrantRequest]

\* What is settled of the row only by the statements a request has made.
GrantRequestOK(r) ==
  /\ r.stage = "idle" => /\ r.answer = "read" => grant.read_by # Grants!Nobody
                         /\ r.answer = "revoked" => grant.status = "revoked"
  /\ r.stage # "idle" => grant.status # "none"
  /\ r.stage = "notified" => sent
  /\ r.stage = "answer" => grant.read_by # Grants!Nobody \/ grant.status = "revoked"

GrantIInv == /\ GrantTypeOK
             /\ \A c \in Client : GrantRequestOK(grantReq[c])
             /\ grant.notified => sent
             /\ grant.status = "first_read" => grant.read_by # Grants!Nobody

\* What every step does to the row: it goes on from where it is, and keeps its
\* reader and its revoker.
GrantMovesOn ==
  /\ grant'.status = "none" => grant.status = "none"
  /\ grant.status = "revoked" =>
       grant'.status = "revoked" /\ grant'.revoked_by = grant.revoked_by
       /\ grant'.read_by = grant.read_by
  /\ grant.read_by # Grants!Nobody => grant'.read_by # Grants!Nobody
  /\ sent => sent'

\* What a request relies on stays true under the steps of others.
LEMMA GrantRequestStable ==
  ASSUME GrantMovesOn, NEW r \in GrantRequest, GrantRequestOK(r)
  PROVE  GrantRequestOK(r)'
BY DEF GrantMovesOn, GrantRequestOK

LEMMA GrantStepOfClient ==
  ASSUME GrantIInv, GrantMovesOn, grant' \in GrantGrant, sent' \in BOOLEAN,
         NEW c \in Client, NEW q \in GrantRequest, grantReq' = [grantReq EXCEPT ![c] = q],
         GrantRequestOK(q)', (grant.notified => sent)',
         (grant.status = "first_read" => grant.read_by # Grants!Nobody)'
  PROVE  GrantIInv'
<1>1. grantReq' \in [Client -> GrantRequest]
  BY DEF GrantIInv, GrantTypeOK
<1>2. ASSUME NEW d \in Client PROVE GrantRequestOK(grantReq[d])'
  <2>1. CASE d = c
    <3>1. grantReq'[d] = q
      BY <2>1 DEF GrantIInv, GrantTypeOK
    <3>2. QED
      BY <3>1 DEF GrantRequestOK
  <2>2. CASE d # c
    <3>1. PICK r \in GrantRequest : r = grantReq[d]
      BY DEF GrantIInv, GrantTypeOK
    <3>2. grantReq'[d] = r /\ GrantRequestOK(r)
      BY <2>2, <3>1 DEF GrantIInv, GrantTypeOK
    <3>3. GrantRequestOK(r)'
      BY <3>2, GrantRequestStable
    <3>4. QED
      BY <3>2, <3>3 DEF GrantRequestOK
  <2>3. QED
    BY <2>1, <2>2
<1>3. QED
  BY <1>1, <1>2 DEF GrantIInv, GrantTypeOK

\* A request goes on to another statement, or it is answered.
LEMMA GrantGoesOn ==
  ASSUME NEW c \in Client, NEW s \in GrantStages, Grants!Goto(c, s),
         grant'.status # "none", s = "notified" => sent',
         s = "answer" => (grant.read_by # Grants!Nobody \/ grant.status = "revoked")'
  PROVE  \E q \in GrantRequest : grantReq' = [grantReq EXCEPT ![c] = q] /\ GrantRequestOK(q)'
<1>1. [stage |-> s] \in GrantRequest
  BY DEF GrantRequest
<1>2. GrantRequestOK([stage |-> s])'
  BY DEF GrantRequestOK, GrantStages
<1>3. QED
  BY <1>1, <1>2 DEF Grants!Goto

LEMMA GrantIsAnswered ==
  ASSUME NEW c \in Client, NEW a \in GrantAnswers, Grants!Reply(c, a),
         a = "read" => grant'.read_by # Grants!Nobody,
         a = "revoked" => grant'.status = "revoked"
  PROVE  \E q \in GrantRequest : grantReq' = [grantReq EXCEPT ![c] = q] /\ GrantRequestOK(q)'
<1>1. Grants!Idle(a) \in GrantRequest
  BY DEF GrantRequest, Grants!Idle
<1>2. GrantRequestOK(Grants!Idle(a))'
  BY DEF GrantRequestOK, Grants!Idle
<1>3. QED
  BY <1>1, <1>2 DEF Grants!Reply

LEMMA GrantInitOK == Grants!Init => GrantIInv
<1> SUFFICES ASSUME Grants!Init PROVE GrantIInv
  OBVIOUS
<1>1. GrantTypeOK
  BY DEF Grants!Init, GrantTypeOK, GrantGrant, Grants!NoGrant, GrantRequest, Grants!Idle, GrantAnswers, Grants!Nobody
<1>2. \A c \in Client : grantReq[c] = Grants!Idle("none")
  BY DEF Grants!Init
<1>3. QED
  BY <1>1, <1>2 DEF Grants!Init, GrantIInv, GrantRequestOK, Grants!Idle, Grants!NoGrant

\* The steps that leave the row alone.
LEMMA GrantQuietOK ==
  ASSUME GrantIInv, NEW c \in Client,
         Grants!Send(c) \/ Grants!BeginRevoke(c) \/ Grants!BeginRead(c) \/ Grants!Answer(c) \/ Grants!Die(c)
  PROVE  GrantIInv' /\ GrantMovesOn
<1>1. PICK r \in GrantRequest : r = grantReq[c]
  BY DEF GrantIInv, GrantTypeOK
<1>2. /\ grant' = grant /\ grant \in GrantGrant /\ sent' \in BOOLEAN /\ GrantRequestOK(r)
      /\ sent => sent'
  BY <1>1 DEF GrantIInv, GrantTypeOK, Grants!Send, Grants!BeginRevoke, Grants!BeginRead, Grants!Answer, Grants!Die
<1>3. GrantMovesOn
  BY <1>2 DEF GrantMovesOn
<1>4. \E q \in GrantRequest : grantReq' = [grantReq EXCEPT ![c] = q] /\ GrantRequestOK(q)'
  <2>1. CASE Grants!Send(c)
    <3>1. r.stage = "send" /\ ((sent' /\ Grants!Goto(c, "notified")) \/ Grants!Reply(c, "none"))
      BY <2>1, <1>1 DEF Grants!Send, Grants!At
    <3>2. grant'.status # "none"
      BY <3>1, <1>2 DEF GrantRequestOK
    <3>3. QED
      BY <3>1, <3>2, GrantGoesOn, GrantIsAnswered DEF GrantStages, GrantAnswers
  <2>2. CASE Grants!BeginRevoke(c)
    <3>1. /\ grant'.status # "none"
          /\ (grant'.status = "revoked" /\ Grants!Reply(c, "revoked")) \/ Grants!Goto(c, "revoke")
      BY <2>2, <1>2 DEF Grants!BeginRevoke
    <3>2. QED
      BY <3>1, GrantGoesOn, GrantIsAnswered DEF GrantStages, GrantAnswers
  <2>3. CASE Grants!BeginRead(c)
    <3>1. /\ grant'.status # "none"
          /\ \/ Grants!Reply(c, "refused")
             \/ grant.status = "first_read" /\ Grants!Reply(c, "read")
             \/ Grants!Goto(c, "read")
      BY <2>3, <1>2, Zenon DEF Grants!BeginRead
    <3>2. grant.status = "first_read" => grant'.read_by # Grants!Nobody
      BY <1>2 DEF GrantIInv
    <3>3. QED
      BY <3>1, <3>2, GrantGoesOn, GrantIsAnswered DEF GrantStages, GrantAnswers
  <2>4. CASE Grants!Answer(c)
    <3>1. /\ r.stage = "answer"
          /\ Grants!Reply(c, IF grant.status = "revoked" THEN "revoked" ELSE "read")
      BY <2>4, <1>1 DEF Grants!Answer, Grants!At
    <3>2. CASE grant.status = "revoked"
      BY <3>1, <3>2, <1>2, GrantIsAnswered DEF GrantAnswers
    <3>3. CASE grant.status # "revoked"
      <4>1. grant'.read_by # Grants!Nobody
        BY <3>1, <3>3, <1>2 DEF GrantRequestOK
      <4>2. QED
        BY <3>1, <3>3, <4>1, GrantIsAnswered DEF GrantAnswers
    <3>4. QED
      BY <3>2, <3>3
  <2>5. CASE Grants!Die(c)
    BY <2>5, GrantIsAnswered DEF Grants!Die, GrantAnswers
  <2>6. QED
    BY <2>1, <2>2, <2>3, <2>4, <2>5
<1>5. QED
  BY <1>2, <1>3, <1>4, GrantStepOfClient DEF GrantIInv

\* The steps that write the row.
LEMMA GrantWriteOK ==
  ASSUME GrantIInv, ClientsAreSomebody, NEW c \in Client,
         Grants!Create(c) \/ Grants!Notified(c) \/ Grants!Revoke(c) \/ Grants!Read(c)
  PROVE  GrantIInv' /\ GrantMovesOn
<1>1. PICK r \in GrantRequest : r = grantReq[c]
  BY DEF GrantIInv, GrantTypeOK
<1>2. /\ grant \in GrantGrant /\ sent \in BOOLEAN /\ sent' = sent /\ GrantRequestOK(r)
      /\ grant.notified => sent
      /\ grant.status = "first_read" => grant.read_by # Grants!Nobody
  BY <1>1 DEF GrantIInv, GrantTypeOK, Grants!Create, Grants!Notified, Grants!Revoke, Grants!Read
<1>3. CASE Grants!Create(c)
  <2>1. grant.status = "none" /\ grant' = [grant EXCEPT !.status = "granted"]
    BY <1>3 DEF Grants!Create
  <2>2. \E q \in GrantRequest : grantReq' = [grantReq EXCEPT ![c] = q] /\ GrantRequestOK(q)'
    <3>1. grant'.status = "granted"
      BY <1>2, <2>1 DEF GrantGrant
    <3>2. Grants!Goto(c, "send") \/ Grants!Reply(c, "none")
      BY <1>3 DEF Grants!Create
    <3>3. QED
      BY <3>1, <3>2, GrantGoesOn, GrantIsAnswered DEF GrantStages, GrantAnswers
  <2>3. GrantMovesOn /\ grant' \in GrantGrant
    BY <1>2, <2>1 DEF GrantMovesOn, GrantGrant
  <2>4. QED
    BY <1>2, <2>1, <2>2, <2>3, GrantStepOfClient DEF GrantGrant
<1>4. CASE Grants!Notified(c)
  <2>1. r.stage = "notified" /\ sent /\ grant' = [grant EXCEPT !.notified = TRUE]
    BY <1>1, <1>2, <1>4 DEF Grants!Notified, Grants!At, GrantRequestOK
  <2>2. \E q \in GrantRequest : grantReq' = [grantReq EXCEPT ![c] = q] /\ GrantRequestOK(q)'
    BY <1>4, GrantIsAnswered DEF Grants!Notified, GrantAnswers
  <2>3. GrantMovesOn /\ grant' \in GrantGrant
    BY <1>2, <2>1 DEF GrantMovesOn, GrantGrant
  <2>4. QED
    BY <1>2, <2>1, <2>2, <2>3, GrantStepOfClient DEF GrantGrant
<1>5. CASE Grants!Revoke(c)
  <2>1. grant' = IF grant.status = "revoked" THEN grant
                 ELSE [grant EXCEPT !.status = "revoked", !.revoked_by = c]
    BY <1>5 DEF Grants!Revoke
  <2>2. \E q \in GrantRequest : grantReq' = [grantReq EXCEPT ![c] = q] /\ GrantRequestOK(q)'
    <3>1. Grants!Reply(c, "revoked") /\ grant'.status = "revoked"
      BY <1>2, <1>5, <2>1 DEF Grants!Revoke, GrantGrant
    <3>2. QED
      BY <3>1, GrantIsAnswered DEF GrantAnswers
  <2>3. GrantMovesOn /\ grant' \in GrantGrant
    BY <1>2, <2>1 DEF GrantMovesOn, GrantGrant
  <2>4. QED
    BY <1>2, <2>1, <2>2, <2>3, GrantStepOfClient DEF GrantGrant
<1>6. CASE Grants!Read(c)
  <2>1. /\ grant.status # "none"
        /\ grant' = IF grant.status = "granted"
                    THEN [grant EXCEPT !.status = "first_read", !.read_by = c]
                    ELSE grant
        /\ grantReq' = [grantReq EXCEPT ![c] = [stage |-> "answer"]]
    BY <1>1, <1>2, <1>6 DEF Grants!Read, Grants!At, Grants!Goto, GrantRequestOK
  <2>2. grant'.read_by # Grants!Nobody \/ grant'.status = "revoked"
    BY <1>2, <2>1 DEF GrantGrant, ClientsAreSomebody
  <2>3. GrantMovesOn /\ grant' \in GrantGrant
    BY <1>2, <2>1 DEF GrantMovesOn, GrantGrant, ClientsAreSomebody
  <2>4. [stage |-> "answer"] \in GrantRequest /\ GrantRequestOK([stage |-> "answer"])'
    BY <2>1, <2>2, <2>3 DEF GrantRequest, GrantStages, GrantRequestOK, GrantMovesOn
  <2>5. (grant.notified => sent)' /\ (grant.status = "first_read" => grant.read_by # Grants!Nobody)'
    BY <1>2, <2>1, <2>2 DEF GrantGrant
  <2>6. QED
    BY <1>2, <2>1, <2>3, <2>4, <2>5, GrantStepOfClient
<1>7. QED
  BY <1>3, <1>4, <1>5, <1>6

LEMMA GrantLapseOK ==
  ASSUME GrantIInv, Grants!Lapse \/ UNCHANGED Grants!vars
  PROVE  GrantIInv' /\ GrantMovesOn
<1>1. /\ grant' \in GrantGrant /\ sent' = sent /\ grantReq' = grantReq
      /\ grant'.status = grant.status /\ grant'.read_by = grant.read_by
      /\ grant'.revoked_by = grant.revoked_by /\ grant'.notified = grant.notified
  BY DEF GrantIInv, GrantTypeOK, Grants!Lapse, Grants!vars, GrantGrant
<1>2. QED
  BY <1>1 DEF GrantIInv, GrantTypeOK, GrantRequestOK, GrantMovesOn

LEMMA GrantNextOK ==
  ASSUME GrantIInv, ClientsAreSomebody, [Grants!Next]_(Grants!vars)
  PROVE  GrantIInv' /\ GrantMovesOn
<1>1. CASE Grants!Lapse \/ UNCHANGED Grants!vars
  BY <1>1, GrantLapseOK
<1>2. ASSUME NEW c \in Client,
             \/ Grants!Create(c) \/ Grants!Send(c) \/ Grants!Notified(c) \/ Grants!BeginRevoke(c) \/ Grants!Revoke(c)
             \/ Grants!BeginRead(c) \/ Grants!Read(c) \/ Grants!Answer(c) \/ Grants!Die(c)
      PROVE  GrantIInv' /\ GrantMovesOn
  BY <1>2, GrantQuietOK, GrantWriteOK
<1>3. QED
  BY <1>1, <1>2 DEF Grants!Next

\* For any number of requests: once revoked, a grant keeps its first revocation
\* and its first read, and whoever is told it is read, revoked or notified is
\* told what the row says.
THEOREM GrantIsKept == ClientsAreSomebody /\ Grants!Spec => GrantKept
<1>1. Grants!Init => GrantIInv
  BY GrantInitOK
<1>2. ClientsAreSomebody /\ GrantIInv /\ [Grants!Next]_(Grants!vars) => GrantIInv' /\ GrantMovesOn
  BY GrantNextOK
<1>3. GrantIInv => Grants!AnswersHold
  BY DEF GrantIInv, GrantRequestOK, Grants!AnswersHold
<1> DEFINE Stays == grant.status = "revoked" =>
                      grant'.status = "revoked" /\ grant'.revoked_by = grant.revoked_by
                      /\ grant'.read_by = grant.read_by
<1>4. GrantMovesOn => [Stays]_(Grants!vars)
  BY DEF GrantMovesOn
<1> SUFFICES ASSUME ClientsAreSomebody PROVE Grants!Spec => GrantKept
  OBVIOUS
<1>5. QED
  BY <1>1, <1>2, <1>3, <1>4, PTL DEF GrantKept, Grants!Spec, Grants!GrantKept, Grants!RevokedStays
-----------------------------------------------------------------------------
(* Task runs *)

TaskHeld == {"invoke", "record", "cancel"}

TaskRequestType ==
  [stage: {"idle"}]
  \cup [stage: {"insert", "parent"}, run: Run, row: Task!Row]
  \cup [stage: {"list"}, run: Run, parent: Run, children: SUBSET Run]
  \cup [stage: {"invoke"}, run: Run, caps: SUBSET Power]
  \cup [stage: {"record"}, run: Run, caps: SUBSET Power, state: Task!State]
  \cup [stage: {"cancel"}, run: Run]

\* The row of r is that of a child of p.
TaskChild(r, p) == Task!Exists(r) /\ runs[r].parent = p /\ runs[r].depth = runs[p].depth + 1

TaskRowsOK == /\ runs \in [Run -> Task!Row \cup {Task!Absent}]
              /\ Task!ListedChildrenExist
              /\ Task!RefsNest
              /\ \A r \in Run : Task!Exists(r) /\ runs[r].parent # "none" => Task!Exists(runs[r].parent)

\* What a request has read of the rows it writes about never changes: their
\* references, their parents and their depths.
TaskRequestOK(q) ==
  /\ q.stage = "insert" => /\ q.row.parent \in Run /\ Task!Exists(q.row.parent)
                           /\ q.row.refs \subseteq runs[q.row.parent].refs
                           /\ q.row.depth = runs[q.row.parent].depth + 1
                           /\ q.row.children = {}
  /\ q.stage = "parent" => /\ q.row.parent \in Run /\ Task!Exists(q.row.parent)
                           /\ TaskChild(q.run, q.row.parent)
  /\ q.stage = "list" => /\ Task!Exists(q.parent) /\ TaskChild(q.run, q.parent)
                         /\ \A r \in q.children : TaskChild(r, q.parent)
  /\ q.stage \in TaskHeld => Task!Exists(q.run)

TaskIInv == /\ TaskRowsOK
            /\ ran \in [Run -> Nat]
            /\ runReq \in [Client -> TaskRequestType]
            /\ \A c \in Client : TaskRequestOK(runReq[c])

-----------------------------------------------------------------------------
(* What a step does to the rows, and to the request that makes it *)

TaskRowsStay == \A r \in Run : Task!Exists(r) =>
                  /\ Task!Exists(r)' /\ runs'[r].parent = runs[r].parent
                  /\ runs'[r].depth = runs[r].depth /\ runs'[r].refs = runs[r].refs

TaskOver(r) == Task!Exists(r) /\ Task!Terminal(runs[r])
TaskHolds(q, r) == q.stage \in TaskHeld /\ q.run = r

\* A run that is over is changed by a request that held it before only.
TaskByHolder(c) == \A r \in Run : TaskOver(r) /\ ~TaskHolds(runReq[c], r) =>
                     runs'[r].state = runs[r].state /\ ran'[r] = ran[r]

TaskGoes(c) == \E q \in TaskRequestType :
                 /\ Task!Become(c, q) /\ TaskRequestOK(q)'
                 /\ \A r \in Run : TaskOver(r) /\ TaskHolds(q, r) => TaskHolds(runReq[c], r)

TaskGood(c) == TaskRowsOK' /\ ran' \in [Run -> Nat] /\ TaskRowsStay /\ TaskByHolder(c) /\ TaskGoes(c)

LEMMA TaskAbsentIsNoRow == Task!Absent \notin Task!Row
<1>1. Task!Absent.state \notin Task!State
  BY DEF Task!Absent, Task!State
<1>2. \A entry \in Task!Row : entry.state \in Task!State
  BY DEF Task!Row
<1>3. QED
  BY <1>1, <1>2, Zenon

LEMMA TaskRequestStable ==
  ASSUME TaskIInv, TaskRowsStay, NEW q \in TaskRequestType, TaskRequestOK(q)
  PROVE  TaskRequestOK(q)'
<1>1. CASE q.stage \in {"insert", "parent"}
  <2>1. q.run \in Run /\ q.row \in Task!Row
    BY <1>1 DEF TaskRequestType
  <2>2. QED
    BY <1>1, <2>1 DEF TaskRowsStay, TaskRequestOK, TaskChild, TaskHeld
<1>2. CASE q.stage = "list"
  <2>1. q.run \in Run /\ q.parent \in Run /\ q.children \in SUBSET Run
    BY <1>2 DEF TaskRequestType
  <2>2. QED
    BY <1>2, <2>1 DEF TaskRowsStay, TaskRequestOK, TaskChild, TaskHeld
<1>3. CASE q.stage \in TaskHeld
  <2>1. q.run \in Run
    BY <1>3 DEF TaskRequestType, TaskHeld
  <2>2. QED
    BY <1>3, <2>1 DEF TaskRowsStay, TaskRequestOK, TaskHeld
<1>4. CASE q.stage = "idle"
  BY <1>4 DEF TaskRequestOK, TaskHeld
<1>5. q.stage \in {"insert", "parent", "list", "idle"} \cup TaskHeld
  BY DEF TaskRequestType, TaskHeld
<1>6. QED
  BY <1>1, <1>2, <1>3, <1>4, <1>5

\* What one client does to the others, and to the runs that are over.
LEMMA TaskStepOfClient ==
  ASSUME TaskIInv, NEW c \in Client, TaskGood(c)
  PROVE  /\ TaskIInv'
         /\ \A r \in Run : TaskOver(r) /\ ~Task!InFlight(r) =>
              runs'[r].state = runs[r].state /\ ran'[r] = ran[r] /\ ~Task!InFlight(r)'
<1>1. PICK q \in TaskRequestType :
        /\ Task!Become(c, q) /\ TaskRequestOK(q)'
        /\ \A r \in Run : TaskOver(r) /\ TaskHolds(q, r) => TaskHolds(runReq[c], r)
  BY DEF TaskGood, TaskGoes
<1>2. runReq' \in [Client -> TaskRequestType] /\ runReq'[c] = q /\ \A d \in Client \ {c} : runReq'[d] = runReq[d]
  BY <1>1 DEF TaskIInv, Task!Become
<1>3. ASSUME NEW d \in Client PROVE TaskRequestOK(runReq[d])'
  <2>1. CASE d = c
    BY <1>1, <1>2, <2>1 DEF TaskRequestOK, TaskChild, Task!Exists
  <2>2. CASE d # c
    <3>1. PICK s \in TaskRequestType : s = runReq[d]
      BY DEF TaskIInv
    <3>2. TaskRequestOK(s)'
      BY <3>1, TaskRequestStable DEF TaskIInv, TaskGood
    <3>3. runReq'[d] = s
      BY <1>2, <2>2, <3>1
    <3>4. QED
      BY <3>2, <3>3 DEF TaskRequestOK, TaskChild, Task!Exists
  <2>3. QED
    BY <2>1, <2>2
<1>4. ASSUME NEW r \in Run, TaskOver(r), ~Task!InFlight(r)
      PROVE  runs'[r].state = runs[r].state /\ ran'[r] = ran[r] /\ ~Task!InFlight(r)'
  <2>1. \A d \in Client : ~TaskHolds(runReq[d], r)
    BY <1>4 DEF Task!InFlight, TaskHolds, TaskHeld
  <2>2. ~TaskHolds(q, r)
    BY <1>1, <1>4, <2>1
  <2>3. \A d \in Client : ~TaskHolds(runReq'[d], r)
    BY <1>2, <2>1, <2>2
  <2>4. QED
    BY <1>4, <2>1, <2>3 DEF TaskGood, TaskByHolder, Task!InFlight, TaskHolds, TaskHeld
<1>5. QED
  BY <1>2, <1>3, <1>4 DEF TaskIInv, TaskGood

-----------------------------------------------------------------------------
(* The steps that leave the rows alone *)

LEMMA TaskQuiet ==
  ASSUME TaskIInv, UNCHANGED runs
  PROVE  TaskRowsOK' /\ TaskRowsStay /\ \A q : TaskRequestOK(q) => TaskRequestOK(q)'
BY DEF TaskIInv, TaskRowsOK, Task!ListedChildrenExist, Task!RefsNest, Task!Exists, TaskRowsStay, TaskRequestOK, TaskChild

LEMMA TaskGoesTo ==
  ASSUME NEW c \in Client, NEW q \in TaskRequestType, Task!Become(c, q), TaskRequestOK(q)',
         \A r \in Run : TaskOver(r) /\ TaskHolds(q, r) => TaskHolds(runReq[c], r)
  PROVE  TaskGoes(c)
BY DEF TaskGoes

LEMMA TaskReplyIsGood ==
  ASSUME NEW c \in Client, Task!Reply(c)
  PROVE  TaskGoes(c)
<1>1. Task!Idle \in TaskRequestType /\ TaskRequestOK(Task!Idle)' /\ \A r : ~TaskHolds(Task!Idle, r)
  BY DEF Task!Idle, TaskRequestType, TaskRequestOK, TaskHolds, TaskHeld
<1>2. QED
  BY <1>1, TaskGoesTo DEF Task!Reply

LEMMA TaskQuietIsGood ==
  ASSUME TaskIInv, NEW c \in Client, UNCHANGED <<runs, ran>>, TaskGoes(c)
  PROVE  TaskGood(c)
BY TaskQuiet DEF TaskGood, TaskByHolder, TaskIInv

LEMMA TaskBeginChildIsGood ==
  ASSUME CapsAreCaps, TaskIInv, NEW c \in Client, Task!BeginChild(c)
  PROVE  TaskGood(c)
<1>1. PICK p \in Run, r \in Run, caps \in SUBSET Power, refs \in SUBSET Ref, hint \in Hint :
        /\ Task!Exists(p) /\ Task!Allowed(runs[p], caps, refs)
        /\ Task!Become(c, [stage |-> "insert", run |-> r,
                           row |-> Task!Proposed(caps, refs, hint, p, runs[p].depth + 1)])
  BY DEF Task!BeginChild
<1>2. PICK d \in 0..MaxDepth : d = runs[p].depth + 1
  <2>1. runs[p] \in Task!Row
    BY <1>1 DEF TaskIInv, TaskRowsOK, Task!Exists
  <2>2. runs[p].depth \in 0..MaxDepth
    BY <2>1 DEF Task!Row
  <2>3. QED
    BY <1>1, <2>2 DEF Task!Allowed, CapsAreCaps
<1>3. PICK entry \in Task!Row : /\ entry = Task!Proposed(caps, refs, hint, p, d)
                                /\ entry.parent = p /\ entry.refs = refs /\ entry.depth = d /\ entry.children = {}
  <2>1. <<"proposed", "not_dispatched">> \in Task!State
    BY DEF Task!State
  <2>2. Task!Proposed(caps, refs, hint, p, d) \in Task!Row
    BY <2>1 DEF Task!Proposed, Task!Row
  <2>3. QED
    BY <2>2 DEF Task!Proposed
<1> DEFINE q == [stage |-> "insert", run |-> r, row |-> entry]
<1>4. /\ q \in TaskRequestType /\ q.stage = "insert" /\ q.row = entry
      /\ Task!Become(c, q)
  BY <1>1, <1>2, <1>3 DEF TaskRequestType
<1> HIDE DEF q
<1>5. TaskRequestOK(q)
  BY <1>1, <1>2, <1>3, <1>4 DEF TaskRequestOK, Task!Allowed, TaskHeld
<1>6. TaskRequestOK(q)' /\ \A s \in Run : ~TaskHolds(q, s)
  BY <1>4, <1>5, TaskQuiet DEF Task!BeginChild, TaskHolds, TaskHeld
<1>7. QED
  BY <1>4, <1>6, TaskGoesTo, TaskQuietIsGood DEF Task!BeginChild

LEMMA TaskReadParentIsGood ==
  ASSUME TaskIInv, NEW c \in Client, Task!ReadParent(c)
  PROVE  TaskGood(c)
<1>1. PICK s \in TaskRequestType : s = runReq[c]
  BY DEF TaskIInv
<1>2. s.stage = "parent" /\ TaskRequestOK(s) /\ s.run \in Run /\ s.row \in Task!Row
  BY <1>1 DEF Task!ReadParent, Task!At, TaskIInv, TaskRequestType
<1>3. PICK p \in Run : p = s.row.parent
  BY <1>2 DEF TaskRequestOK
<1>4. Task!Exists(p) /\ TaskChild(s.run, p)
  BY <1>2, <1>3 DEF TaskRequestOK
<1>5. PICK children \in SUBSET Run : children = runs[p].children
  <2>1. runs[p] \in Task!Row
    BY <1>4 DEF TaskIInv, TaskRowsOK, Task!Exists
  <2>2. QED
    BY <2>1 DEF Task!Row
<1>6. \A r \in children : TaskChild(r, p)
  BY <1>4, <1>5 DEF TaskIInv, TaskRowsOK, Task!ListedChildrenExist, TaskChild
<1> DEFINE q == [stage |-> "list", run |-> s.run, parent |-> p, children |-> children]
<1>7. /\ q \in TaskRequestType /\ q.stage = "list" /\ q.run = s.run /\ q.parent = p
      /\ q.children = children
  BY <1>2 DEF TaskRequestType
<1>8. Task!Become(c, q)
  BY <1>1, <1>3, <1>5 DEF Task!ReadParent
<1> HIDE DEF q
<1>9. TaskRequestOK(q)
  BY <1>4, <1>6, <1>7 DEF TaskRequestOK, TaskHeld
<1>10. TaskRequestOK(q)' /\ \A r \in Run : ~TaskHolds(q, r)
  BY <1>7, <1>9, TaskQuiet DEF Task!ReadParent, TaskHolds, TaskHeld
<1>11. QED
  BY <1>7, <1>8, <1>10, TaskGoesTo, TaskQuietIsGood DEF Task!ReadParent

LEMMA TaskBeginDispatchIsGood ==
  ASSUME CapsAreCaps, TaskIInv, NEW c \in Client, Task!BeginDispatch(c)
  PROVE  TaskGood(c)
<1>1. PICK r \in Run : /\ Task!Exists(r) /\ Task!Dispatchable(runs[r])
                       /\ \E caps \in {runs[r].caps} \cup Override :
                            Task!Become(c, [stage |-> "invoke", run |-> r, caps |-> caps \cup runs[r].hint])
  BY DEF Task!BeginDispatch
<1>2. runs[r] \in Task!Row
  BY <1>1 DEF TaskIInv, TaskRowsOK, Task!Exists
<1>3. PICK given \in {runs[r].caps} \cup Override :
        Task!Become(c, [stage |-> "invoke", run |-> r, caps |-> given \cup runs[r].hint])
  BY <1>1
<1>4. PICK caps \in SUBSET Power : caps = given \cup runs[r].hint
  BY <1>2 DEF Task!Row, CapsAreCaps
<1> DEFINE q == [stage |-> "invoke", run |-> r, caps |-> caps]
<1>5. q \in TaskRequestType /\ q.stage = "invoke" /\ q.run = r /\ Task!Become(c, q)
  BY <1>3, <1>4 DEF TaskRequestType
<1> HIDE DEF q
<1>6. TaskRequestOK(q)
  BY <1>1, <1>5 DEF TaskRequestOK, TaskHeld
<1>7. TaskRequestOK(q)' /\ \A s \in Run : TaskOver(s) => ~TaskHolds(q, s)
  BY <1>1, <1>5, <1>6, TaskQuiet DEF Task!BeginDispatch, TaskHolds, TaskOver, Task!Terminal, Task!Status, Task!Dispatchable
<1>8. QED
  BY <1>5, <1>7, TaskGoesTo, TaskQuietIsGood DEF Task!BeginDispatch

LEMMA TaskBeginCancelIsGood ==
  ASSUME TaskIInv, NEW c \in Client, Task!BeginCancel(c)
  PROVE  TaskGood(c)
<1>1. PICK r \in Run : Task!Cancellable(runs[r]) /\ Task!Become(c, [stage |-> "cancel", run |-> r])
  BY DEF Task!BeginCancel
<1> DEFINE q == [stage |-> "cancel", run |-> r]
<1>2. q \in TaskRequestType /\ q.stage = "cancel" /\ q.run = r /\ Task!Become(c, q)
  BY <1>1 DEF TaskRequestType
<1> HIDE DEF q
<1>3. TaskRequestOK(q)
  BY <1>1, <1>2 DEF TaskRequestOK, TaskHeld, Task!Cancellable, Task!Exists
<1>4. TaskRequestOK(q)' /\ \A s \in Run : TaskOver(s) => ~TaskHolds(q, s)
  BY <1>1, <1>2, <1>3, TaskQuiet DEF Task!BeginCancel, TaskHolds, TaskOver, Task!Cancellable
<1>5. QED
  BY <1>2, <1>4, TaskGoesTo, TaskQuietIsGood DEF Task!BeginCancel

\* An invocation is by the request that holds the run.
LEMMA TaskInvokeIsGood ==
  ASSUME TaskIInv, NEW c \in Client, Task!Invoke(c)
  PROVE  TaskGood(c)
<1>1. PICK s \in TaskRequestType : s = runReq[c]
  BY DEF TaskIInv
<1>2. s.stage = "invoke" /\ TaskRequestOK(s) /\ s.run \in Run /\ s.caps \in SUBSET Power
  BY <1>1 DEF Task!Invoke, Task!At, TaskIInv, TaskRequestType
<1>3. ran' = [ran EXCEPT ![s.run] = @ + 1] /\ UNCHANGED runs
  BY <1>1 DEF Task!Invoke
<1>4. ran' \in [Run -> Nat] /\ \A r \in Run : ~TaskHolds(runReq[c], r) => ran'[r] = ran[r]
  BY <1>1, <1>2, <1>3 DEF TaskIInv, TaskHolds, TaskHeld
<1>5. ASSUME NEW t \in Task!State,
             Task!Become(c, [stage |-> "record", run |-> s.run, caps |-> s.caps, state |-> t])
      PROVE  TaskGoes(c)
  <2> DEFINE q == [stage |-> "record", run |-> s.run, caps |-> s.caps, state |-> t]
  <2>1. q \in TaskRequestType /\ q.stage = "record" /\ q.run = s.run /\ Task!Become(c, q)
    BY <1>2, <1>5 DEF TaskRequestType
  <2> HIDE DEF q
  <2>2. TaskRequestOK(q)
    BY <1>2, <2>1 DEF TaskRequestOK, TaskHeld
  <2>3. TaskRequestOK(q)' /\ \A r \in Run : TaskHolds(q, r) => TaskHolds(runReq[c], r)
    BY <1>1, <1>2, <1>3, <2>1, <2>2, TaskQuiet DEF TaskHolds, TaskHeld
  <2>4. QED
    BY <2>1, <2>3, TaskGoesTo
<1>6. TaskGoes(c)
  <2>1. {<<"queued", "dispatched">>, <<"completed", "completed">>} \subseteq Task!State
    BY DEF Task!State
  <2>2. \/ Task!Reply(c)
        \/ \E t \in {<<"queued", "dispatched">>, <<"completed", "completed">>} :
             Task!Become(c, [stage |-> "record", run |-> s.run, caps |-> s.caps, state |-> t])
    BY <1>1 DEF Task!Invoke
  <2>3. QED
    BY <1>5, <2>1, <2>2, TaskReplyIsGood
<1>7. QED
  BY <1>3, <1>4, <1>6, TaskQuiet DEF TaskGood, TaskByHolder

-----------------------------------------------------------------------------
(* The steps that write a row *)

\* A row that is not there yet, proposed beneath a row that is, or by itself.
LEMMA TaskNewRow ==
  ASSUME TaskIInv, NEW r \in Run, NEW entry \in Task!Row, ~Task!Exists(r),
         runs' = [runs EXCEPT ![r] = entry], entry.children = {},
         entry.parent # "none" => /\ Task!Exists(entry.parent)
                                  /\ entry.refs \subseteq runs[entry.parent].refs
  PROVE  /\ TaskRowsOK' /\ TaskRowsStay /\ Task!Exists(r)' /\ runs'[r] = entry
         /\ \A s \in Run : TaskOver(s) => runs'[s].state = runs[s].state
<1>1. /\ runs' \in [Run -> Task!Row \cup {Task!Absent}] /\ runs'[r] = entry
      /\ \A s \in Run \ {r} : runs'[s] = runs[s]
  BY DEF TaskIInv, TaskRowsOK
<1>2. TaskRowsStay /\ Task!Exists(r)' /\ \A s \in Run : Task!Exists(s) => s # r /\ runs'[s] = runs[s] /\ Task!Exists(s)'
  BY <1>1, TaskAbsentIsNoRow DEF TaskRowsStay, Task!Exists
<1>3. \A s \in Run : Task!Exists(s)' => s = r \/ Task!Exists(s)
  BY <1>1 DEF Task!Exists
<1>4. entry.parent \in Run \cup {"none"} /\ \A s \in Run : Task!Exists(s) => runs[s] \in Task!Row
  BY DEF Task!Row, TaskIInv, TaskRowsOK, Task!Exists
<1>5. Task!ListedChildrenExist'
  <2>1. ASSUME NEW p \in Run, Task!Exists(p)', NEW s \in runs'[p].children
        PROVE  Task!Exists(s)' /\ runs'[s].parent = p /\ runs'[s].depth = runs'[p].depth + 1
    <3>1. p # r /\ Task!Exists(p) /\ runs'[p] = runs[p]
      BY <1>1, <1>2, <1>3, <2>1
    <3>2. s \in Run
      BY <1>4, <2>1, <3>1 DEF Task!Row
    <3>3. Task!Exists(s) /\ runs[s].parent = p /\ runs[s].depth = runs[p].depth + 1
      BY <2>1, <3>1 DEF TaskIInv, TaskRowsOK, Task!ListedChildrenExist
    <3>4. QED
      BY <1>2, <3>1, <3>2, <3>3
  <2>2. QED
    BY <2>1 DEF Task!ListedChildrenExist
<1>6. ASSUME NEW s \in Run, Task!Exists(s)', runs'[s].parent # "none"
      PROVE  /\ runs'[runs'[s].parent] # Task!Absent
             /\ runs'[s].refs \subseteq runs'[runs'[s].parent].refs
  <2>1. CASE s = r
    <3>1. entry.parent \in Run /\ Task!Exists(entry.parent) /\ entry.refs \subseteq runs[entry.parent].refs
      BY <1>1, <1>4, <1>6, <2>1
    <3>2. runs'[s] = entry
      BY <1>1, <2>1
    <3>3. Task!Exists(entry.parent)' /\ runs'[entry.parent] = runs[entry.parent]
      BY <1>2, <3>1
    <3>4. QED
      BY <3>1, <3>2, <3>3 DEF Task!Exists
  <2>2. CASE s # r
    <3>1. Task!Exists(s) /\ runs'[s] = runs[s] /\ runs[s].parent # "none"
      BY <1>1, <1>3, <1>6, <2>2
    <3>2. PICK p \in Run : p = runs[s].parent
      BY <1>4, <3>1 DEF Task!Row
    <3>3. Task!Exists(p) /\ runs[s].refs \subseteq runs[p].refs
      BY <3>1, <3>2 DEF TaskIInv, TaskRowsOK, Task!RefsNest
    <3>4. Task!Exists(p)' /\ runs'[p] = runs[p]
      BY <1>2, <3>3
    <3>5. QED
      BY <3>1, <3>2, <3>3, <3>4 DEF Task!Exists
  <2>3. QED
    BY <2>1, <2>2
<1>7. QED
  BY <1>1, <1>2, <1>5, <1>6 DEF TaskRowsOK, Task!RefsNest, Task!Exists, TaskOver

\* A row that is there keeps its references, its parent and its depth.
LEMMA TaskChangedRow ==
  ASSUME TaskIInv, NEW r \in Run, NEW entry \in Task!Row, Task!Exists(r),
         runs' = [runs EXCEPT ![r] = entry], entry.parent = runs[r].parent,
         entry.depth = runs[r].depth, entry.refs = runs[r].refs,
         \A s \in entry.children : TaskChild(s, r)
  PROVE  TaskRowsOK' /\ TaskRowsStay /\ \A s \in Run \ {r} : runs'[s] = runs[s]
<1>1. /\ runs' \in [Run -> Task!Row \cup {Task!Absent}] /\ runs'[r] = entry
      /\ \A s \in Run \ {r} : runs'[s] = runs[s]
  BY DEF TaskIInv, TaskRowsOK
<1>2. \A s \in Run : /\ Task!Exists(s)' <=> Task!Exists(s)
                     /\ Task!Exists(s) => /\ runs'[s].parent = runs[s].parent
                                          /\ runs'[s].depth = runs[s].depth
                                          /\ runs'[s].refs = runs[s].refs
                                          /\ runs[s] \in Task!Row
  <2>1. ASSUME NEW s \in Run
        PROVE  /\ Task!Exists(s)' <=> Task!Exists(s)
               /\ Task!Exists(s) => /\ runs'[s].parent = runs[s].parent
                                    /\ runs'[s].depth = runs[s].depth
                                    /\ runs'[s].refs = runs[s].refs
                                    /\ runs[s] \in Task!Row
    <3>1. CASE s = r
      BY <1>1, <3>1, TaskAbsentIsNoRow DEF Task!Exists, TaskIInv, TaskRowsOK
    <3>2. CASE s # r
      BY <1>1, <3>2 DEF Task!Exists, TaskIInv, TaskRowsOK
    <3>3. QED
      BY <3>1, <3>2
  <2>2. QED
    BY <2>1
<1>3. TaskRowsStay
  BY <1>2 DEF TaskRowsStay
<1>4. Task!ListedChildrenExist'
  <2>1. ASSUME NEW p \in Run, Task!Exists(p)', NEW s \in runs'[p].children
        PROVE  Task!Exists(s)' /\ runs'[s].parent = p /\ runs'[s].depth = runs'[p].depth + 1
    <3>1. Task!Exists(p) /\ runs'[p].depth = runs[p].depth
      BY <1>2, <2>1
    <3>2. TaskChild(s, p) /\ s \in Run
      <4>1. CASE p = r
        BY <1>1, <2>1, <4>1 DEF Task!Row
      <4>2. CASE p # r
        <5>1. runs'[p] = runs[p] /\ runs[p] \in Task!Row
          BY <1>1, <1>2, <3>1, <4>2
        <5>2. QED
          BY <2>1, <3>1, <5>1 DEF TaskIInv, TaskRowsOK, Task!ListedChildrenExist, TaskChild, Task!Row
      <4>3. QED
        BY <4>1, <4>2
    <3>3. QED
      BY <1>2, <3>1, <3>2 DEF TaskChild
  <2>2. QED
    BY <2>1 DEF Task!ListedChildrenExist
<1>5. ASSUME NEW s \in Run, Task!Exists(s)', runs'[s].parent # "none"
      PROVE  /\ runs'[runs'[s].parent] # Task!Absent
             /\ runs'[s].refs \subseteq runs'[runs'[s].parent].refs
  <2>1. /\ Task!Exists(s) /\ runs'[s].parent = runs[s].parent /\ runs'[s].refs = runs[s].refs
        /\ runs[s] \in Task!Row
    BY <1>2, <1>5
  <2>2. PICK p \in Run : p = runs[s].parent
    BY <1>5, <2>1 DEF Task!Row
  <2>3. Task!Exists(p) /\ runs[s].refs \subseteq runs[p].refs
    BY <1>5, <2>1, <2>2 DEF TaskIInv, TaskRowsOK, Task!RefsNest
  <2>4. Task!Exists(p)' /\ runs'[p].refs = runs[p].refs
    BY <1>2, <2>3
  <2>5. QED
    BY <2>1, <2>2, <2>3, <2>4 DEF Task!Exists
<1>6. QED
  BY <1>1, <1>3, <1>4, <1>5 DEF TaskRowsOK, Task!RefsNest, Task!Exists

LEMMA TaskProposeIsGood ==
  ASSUME CapsAreCaps, TaskIInv, NEW c \in Client, Task!Propose(c)
  PROVE  TaskGood(c)
<1>1. PICK r \in Run, caps \in SUBSET Power, refs \in SUBSET Ref, hint \in Hint :
        ~Task!Exists(r) /\ runs' = [runs EXCEPT ![r] = Task!Proposed(caps, refs, hint, "none", 0)]
  BY DEF Task!Propose
<1>2. PICK entry \in Task!Row : /\ entry = Task!Proposed(caps, refs, hint, "none", 0)
                                /\ entry.parent = "none" /\ entry.children = {}
  <2>1. <<"proposed", "not_dispatched">> \in Task!State /\ 0 \in 0..MaxDepth
    BY DEF Task!State, CapsAreCaps
  <2>2. Task!Proposed(caps, refs, hint, "none", 0) \in Task!Row
    BY <2>1 DEF Task!Proposed, Task!Row
  <2>3. QED
    BY <2>2 DEF Task!Proposed
<1>3. TaskRowsOK' /\ TaskRowsStay /\ \A s \in Run : TaskOver(s) => runs'[s].state = runs[s].state
  BY <1>1, <1>2, TaskNewRow
<1>4. QED
  BY <1>3, TaskReplyIsGood DEF Task!Propose, TaskGood, TaskByHolder, TaskIInv

LEMMA TaskInsertChildIsGood ==
  ASSUME TaskIInv, NEW c \in Client, Task!InsertChild(c)
  PROVE  TaskGood(c)
<1>1. PICK s \in TaskRequestType : s = runReq[c]
  BY DEF TaskIInv
<1>2. /\ s.stage = "insert" /\ TaskRequestOK(s)
      /\ s \in [stage: {"insert", "parent"}, run: Run, row: Task!Row]
  BY <1>1 DEF Task!InsertChild, Task!At, TaskIInv, TaskRequestType
<1>3. CASE Task!Exists(s.run) /\ Task!Reply(c) /\ UNCHANGED runs
  BY <1>3, TaskReplyIsGood, TaskQuietIsGood DEF Task!InsertChild
<1>4. CASE /\ ~Task!Exists(s.run) /\ runs' = [runs EXCEPT ![s.run] = s.row]
           /\ Task!Become(c, [s EXCEPT !.stage = "parent"])
  <2>1. PICK r \in Run : r = s.run
    BY <1>2
  <2>2. PICK entry \in Task!Row : entry = s.row
    BY <1>2
  <2>3. PICK p \in Run : p = entry.parent
    BY <1>2, <2>2 DEF TaskRequestOK
  <2>4. /\ Task!Exists(p) /\ entry.refs \subseteq runs[p].refs /\ entry.children = {}
        /\ entry.depth = runs[p].depth + 1
    BY <1>2, <2>2, <2>3 DEF TaskRequestOK
  <2>5. /\ TaskRowsOK' /\ TaskRowsStay /\ Task!Exists(r)' /\ runs'[r] = entry
        /\ \A t \in Run : TaskOver(t) => runs'[t].state = runs[t].state
    BY <1>4, <2>1, <2>2, <2>3, <2>4, TaskNewRow
  <2> DEFINE q == [s EXCEPT !.stage = "parent"]
  <2>6. /\ q \in TaskRequestType /\ q.stage = "parent" /\ q.run = r /\ q.row = entry /\ Task!Become(c, q)
    BY <1>2, <1>4, <2>1, <2>2 DEF TaskRequestType
  <2> HIDE DEF q
  <2>7. Task!Exists(p)' /\ runs'[p].depth = runs[p].depth
    BY <2>4, <2>5 DEF TaskRowsStay
  <2>8. TaskRequestOK(q)' /\ \A t \in Run : ~TaskHolds(q, t)
    BY <2>3, <2>4, <2>5, <2>6, <2>7 DEF TaskRequestOK, TaskChild, TaskHeld, TaskHolds
  <2>9. TaskGoes(c)
    BY <2>6, <2>8, TaskGoesTo
  <2>10. QED
    BY <2>5, <2>9 DEF Task!InsertChild, TaskGood, TaskByHolder, TaskIInv
<1>5. QED
  BY <1>1, <1>3, <1>4 DEF Task!InsertChild

LEMMA TaskListChildIsGood ==
  ASSUME TaskIInv, NEW c \in Client, Task!ListChild(c)
  PROVE  TaskGood(c)
<1>1. PICK s \in TaskRequestType : s = runReq[c]
  BY DEF TaskIInv
<1>2. /\ s.stage = "list" /\ TaskRequestOK(s)
      /\ s.run \in Run /\ s.parent \in Run /\ s.children \in SUBSET Run
  BY <1>1 DEF Task!ListChild, Task!At, TaskIInv, TaskRequestType
<1>3. PICK p \in Run : p = s.parent
  BY <1>2
<1>4. PICK children \in SUBSET Run : children = s.children \cup {s.run}
  BY <1>2
<1>5. Task!Exists(p) /\ \A r \in children : TaskChild(r, p)
  BY <1>2, <1>3, <1>4 DEF TaskRequestOK
<1>6. PICK old \in Task!Row : old = runs[p]
  BY <1>5 DEF TaskIInv, TaskRowsOK, Task!Exists
<1> DEFINE entry == [old EXCEPT !.children = children]
<1>7. /\ entry \in Task!Row /\ entry.children = children /\ entry.parent = old.parent
      /\ entry.depth = old.depth /\ entry.refs = old.refs /\ entry.state = old.state
  BY DEF Task!Row
<1>8. runs' = [runs EXCEPT ![p] = entry]
  BY <1>1, <1>3, <1>4, <1>6 DEF Task!ListChild
<1> HIDE DEF entry
<1>9. TaskRowsOK' /\ TaskRowsStay /\ \A t \in Run \ {p} : runs'[t] = runs[t]
  BY <1>5, <1>6, <1>7, <1>8, TaskChangedRow
<1>10. \A t \in Run : runs'[t].state = runs[t].state
  <2>1. runs'[p] = entry
    BY <1>8 DEF TaskIInv, TaskRowsOK
  <2>2. QED
    BY <1>6, <1>7, <1>9, <2>1
<1>11. QED
  BY <1>9, <1>10, TaskReplyIsGood DEF Task!ListChild, TaskGood, TaskByHolder, TaskIInv

\* A request that holds a run gives it another state.
LEMMA TaskStateIsGood ==
  ASSUME TaskIInv, NEW c \in Client, NEW r \in Run, Task!Exists(r), TaskHolds(runReq[c], r), Task!Reply(c),
         UNCHANGED ran, NEW entry \in Task!Row, runs' = [runs EXCEPT ![r] = entry],
         entry.children = runs[r].children, entry.parent = runs[r].parent,
         entry.depth = runs[r].depth, entry.refs = runs[r].refs
  PROVE  TaskGood(c)
<1>1. \A s \in entry.children : TaskChild(s, r)
  BY DEF TaskIInv, TaskRowsOK, Task!ListedChildrenExist, TaskChild
<1>2. TaskRowsOK' /\ TaskRowsStay /\ \A s \in Run \ {r} : runs'[s] = runs[s]
  BY <1>1, TaskChangedRow
<1>3. QED
  BY <1>2, TaskReplyIsGood DEF TaskGood, TaskByHolder, TaskIInv

LEMMA TaskRecordIsGood ==
  ASSUME TaskIInv, NEW c \in Client, Task!Record(c)
  PROVE  TaskGood(c)
<1>1. PICK s \in TaskRequestType : s = runReq[c]
  BY DEF TaskIInv
<1>2. /\ s.stage = "record" /\ TaskRequestOK(s)
      /\ s.run \in Run /\ s.caps \in SUBSET Power /\ s.state \in Task!State
  BY <1>1 DEF Task!Record, Task!At, TaskIInv, TaskRequestType
<1>3. PICK r \in Run : r = s.run
  BY <1>2
<1>4. PICK caps \in SUBSET Power, state \in Task!State : caps = s.caps /\ state = s.state
  BY <1>2
<1>5. Task!Exists(r) /\ TaskHolds(runReq[c], r)
  BY <1>1, <1>2, <1>3 DEF TaskRequestOK, TaskHolds, TaskHeld
<1>6. PICK old \in Task!Row : old = runs[r]
  BY <1>5 DEF TaskIInv, TaskRowsOK, Task!Exists
<1> DEFINE entry == [old EXCEPT !.state = state, !.caps = caps]
<1>7. /\ entry \in Task!Row /\ entry.children = old.children /\ entry.parent = old.parent
      /\ entry.depth = old.depth /\ entry.refs = old.refs
  BY DEF Task!Row
<1>8. runs' = [runs EXCEPT ![r] = entry] /\ UNCHANGED ran /\ Task!Reply(c)
  BY <1>1, <1>3, <1>4, <1>6 DEF Task!Record
<1> HIDE DEF entry
<1>9. QED
  BY <1>5, <1>6, <1>7, <1>8, TaskStateIsGood

LEMMA TaskCancelIsGood ==
  ASSUME TaskIInv, NEW c \in Client, Task!Cancel(c)
  PROVE  TaskGood(c)
<1>1. PICK s \in TaskRequestType : s = runReq[c]
  BY DEF TaskIInv
<1>2. s.stage = "cancel" /\ TaskRequestOK(s) /\ s.run \in Run
  BY <1>1 DEF Task!Cancel, Task!At, TaskIInv, TaskRequestType
<1>3. PICK r \in Run : r = s.run
  BY <1>2
<1>4. Task!Exists(r) /\ TaskHolds(runReq[c], r)
  BY <1>1, <1>2, <1>3 DEF TaskRequestOK, TaskHolds, TaskHeld
<1>5. PICK old \in Task!Row : old = runs[r]
  BY <1>4 DEF TaskIInv, TaskRowsOK, Task!Exists
<1>6. PICK state \in Task!State :
        state = IF old.state[2] = "not_dispatched" THEN <<"cancelled", "not_dispatched">>
                ELSE <<"cancelled", "cancelled">>
  BY DEF Task!State
<1> DEFINE entry == [old EXCEPT !.state = state]
<1>7. /\ entry \in Task!Row /\ entry.children = old.children /\ entry.parent = old.parent
      /\ entry.depth = old.depth /\ entry.refs = old.refs
  BY DEF Task!Row
<1>8. runs' = [runs EXCEPT ![r] = entry] /\ UNCHANGED ran /\ Task!Reply(c)
  BY <1>1, <1>3, <1>5, <1>6 DEF Task!Cancel
<1> HIDE DEF entry
<1>9. QED
  BY <1>4, <1>5, <1>7, <1>8, TaskStateIsGood

-----------------------------------------------------------------------------
LEMMA TaskInitOK == Task!Init => TaskIInv
<1>1. SUFFICES ASSUME Task!Init PROVE TaskIInv
  OBVIOUS
<1>2. \A r \in Run : ~Task!Exists(r)
  BY <1>1 DEF Task!Init, Task!Exists
<1>3. TaskRowsOK
  BY <1>1, <1>2 DEF Task!Init, TaskRowsOK, Task!ListedChildrenExist, Task!RefsNest
<1>4. Task!Idle \in TaskRequestType /\ TaskRequestOK(Task!Idle)
  BY DEF Task!Idle, TaskRequestType, TaskRequestOK, TaskHeld
<1>5. QED
  BY <1>1, <1>3, <1>4 DEF Task!Init, TaskIInv

LEMMA TaskNextOK ==
  ASSUME CapsAreCaps, TaskIInv, [Task!Next]_(Task!vars)
  PROVE  /\ TaskIInv'
         /\ UNCHANGED Task!vars \/ \A r \in Run : TaskOver(r) /\ ~Task!InFlight(r) =>
              runs'[r].state = runs[r].state /\ ran'[r] = ran[r] /\ ~Task!InFlight(r)'
<1>1. CASE UNCHANGED Task!vars
  BY <1>1 DEF Task!vars, TaskIInv, TaskRowsOK, Task!ListedChildrenExist, Task!RefsNest, Task!Exists, TaskRequestOK, TaskChild
<1>2. ASSUME NEW c \in Client, Task!Die(c) PROVE TaskGood(c)
  BY <1>2, TaskReplyIsGood, TaskQuietIsGood DEF Task!Die
<1>3. QED
  BY <1>1, <1>2, TaskStepOfClient, TaskProposeIsGood, TaskBeginChildIsGood, TaskInsertChildIsGood,
     TaskReadParentIsGood, TaskListChildIsGood, TaskBeginDispatchIsGood, TaskInvokeIsGood, TaskRecordIsGood,
     TaskBeginCancelIsGood, TaskCancelIsGood, Zenon DEF Task!Next

\* For any number of proposals, dispatches and cancellations, whichever of them
\* overlap or die: a run lists only children that are there and name it as their
\* parent, one level deeper, and a child refers to nothing its parent did not.
THEOREM FamilyIsKept == CapsAreCaps /\ Task!Spec => []FamilyKept
<1> SUFFICES ASSUME CapsAreCaps PROVE Task!Spec => []FamilyKept
  OBVIOUS
<1>1. TaskIInv /\ [Task!Next]_(Task!vars) => TaskIInv'
  BY TaskNextOK
<1>2. TaskIInv => Task!FamilyKept
  BY DEF TaskIInv, TaskRowsOK, TaskRequestType, Task!FamilyKept, Task!TypeOK, Task!At
<1>3. QED
  BY <1>1, <1>2, TaskInitOK, PTL DEF FamilyKept, Task!Spec

\* For any number of them: a run that is over keeps its state and no executor is
\* called for it again, but by a request that had read it before.
THEOREM OverIsFinal == CapsAreCaps /\ Task!Spec => OverUnlessRaced
<1> SUFFICES ASSUME CapsAreCaps PROVE Task!Spec => OverUnlessRaced
  OBVIOUS
<1>1. TaskIInv /\ [Task!Next]_(Task!vars) => TaskIInv'
  BY TaskNextOK
<1>2. TaskIInv /\ [Task!Next]_(Task!vars) =>
        [\A r \in Run : Task!Exists(r) /\ Task!Terminal(runs[r]) /\ ~Task!InFlight(r) =>
           runs'[r].state = runs[r].state /\ ran'[r] = ran[r] /\ ~Task!InFlight(r)']_(Task!vars)
  BY TaskNextOK DEF TaskOver
<1>3. QED
  BY <1>1, <1>2, TaskInitOK, PTL DEF OverUnlessRaced, Task!Spec, Task!OverUnlessRaced
-----------------------------------------------------------------------------
(* Tools of MCP sessions *)

McpRow == [state: {"none", "live", "expired"}, tools: SUBSET Eligible]
McpRequestType == [stage: {"idle", "expire"}]
                  \cup [stage: {"set", "update"}, asked: SUBSET Eligible, tools: SUBSET Eligible]

\* A load keeps to the limit from its second read of the row on.
McpIInv == /\ row \in McpRow
           /\ promised \in SUBSET Eligible
           /\ meddled \in BOOLEAN
           /\ rpc \in [Client -> McpRequestType]
           /\ Mcp!Cardinality(row.tools) <= MaxTools
           /\ Mcp!LoadedStays
           /\ \A c \in Client : Mcp!At(c, "update") => Mcp!Cardinality(rpc[c].tools) <= MaxTools

LEMMA McpEmpty == ASSUME LimitIsNumber PROVE Mcp!Cardinality({}) <= MaxTools
<1>1. Mcp!Cardinality({}) = Cardinality({})
  BY DEF Mcp!Cardinality, Cardinality
<1>2. QED
  BY <1>1, FS_EmptySet DEF LimitIsNumber

LEMMA McpInitOK == ASSUME LimitIsNumber, Mcp!Init PROVE McpIInv
<1>1. row \in McpRow /\ row.tools = {} /\ promised = {}
  BY DEF Mcp!Init, Mcp!NoSession, McpRow
<1>2. Mcp!Cardinality(row.tools) <= MaxTools
  BY <1>1, McpEmpty, Zenon
<1>3. rpc \in [Client -> McpRequestType] /\ \A c \in Client : ~Mcp!At(c, "update")
  BY DEF Mcp!Init, McpRequestType, Mcp!Idle, Mcp!At
<1>4. QED
  BY <1>1, <1>2, <1>3 DEF Mcp!Init, McpIInv, Mcp!LoadedStays

\* A request goes on to another of its stages, or it is answered.
LEMMA McpRequestsOK ==
  ASSUME McpIInv, NEW c \in Client, NEW r \in McpRequestType, Mcp!Become(c, r),
         r.stage = "update" => Mcp!Cardinality(r.tools) <= MaxTools
  PROVE  /\ rpc' \in [Client -> McpRequestType]
         /\ \A d \in Client : Mcp!At(d, "update")' => Mcp!Cardinality(rpc'[d].tools) <= MaxTools
BY DEF McpIInv, Mcp!Become, Mcp!At

LEMMA McpIdleOK == Mcp!Idle \in McpRequestType /\ Mcp!Idle.stage # "update"
BY DEF Mcp!Idle, McpRequestType

\* A session is made, deleted or found expired, whatever the requests do.
LEMMA McpEmptyOK ==
  ASSUME LimitIsNumber, McpIInv, row' \in {Mcp!NoSession, [state |-> "live", tools |-> {}]},
         promised' = {}
  PROVE  row' \in McpRow /\ promised' \in SUBSET Eligible /\ Mcp!LoadedStays'
         /\ Mcp!Cardinality(row'.tools) <= MaxTools
BY McpEmpty DEF McpIInv, Mcp!NoSession, McpRow, Mcp!LoadedStays

LEMMA McpUpdateOK ==
  ASSUME LimitIsNumber, McpIInv, NEW c \in Client, Mcp!Update(c)
  PROVE  McpIInv'
<1>1. PICK r \in McpRequestType : r = rpc[c]
  BY DEF McpIInv
<1>2. /\ r.stage = "update" /\ r.asked \in SUBSET Eligible /\ r.tools \in SUBSET Eligible
      /\ Mcp!Cardinality(r.tools) <= MaxTools
  BY <1>1 DEF Mcp!Update, Mcp!At, McpIInv, McpRequestType
<1>3. /\ rpc' \in [Client -> McpRequestType]
      /\ \A d \in Client : Mcp!At(d, "update")' => Mcp!Cardinality(rpc'[d].tools) <= MaxTools
  BY McpRequestsOK, McpIdleOK DEF Mcp!Update, Mcp!Reply
<1>4. /\ row' \in McpRow /\ Mcp!Cardinality(row'.tools) <= MaxTools
      /\ promised' \in SUBSET Eligible /\ meddled' \in BOOLEAN
  BY <1>1, <1>2 DEF Mcp!Update, McpIInv, McpRow
<1>5. Mcp!LoadedStays'
  <2>1. SUFFICES ASSUME ~meddled', row'.state = "live" PROVE promised' \subseteq row'.tools
    BY DEF Mcp!LoadedStays
  <2>2. row.state = "live" /\ row.tools \cup r.asked = r.tools /\ ~meddled
    BY <1>1, <2>1 DEF Mcp!Update
  <2>3. promised \subseteq row.tools
    BY <2>2 DEF McpIInv, Mcp!LoadedStays
  <2>4. promised' = promised \cup r.asked /\ row'.tools = r.tools
    BY <1>1, <2>2 DEF Mcp!Update
  <2>5. QED
    BY <2>2, <2>3, <2>4
<1>6. QED
  BY <1>3, <1>4, <1>5 DEF McpIInv

LEMMA McpNextOK == ASSUME LimitIsNumber, McpIInv, [Mcp!Next]_(Mcp!vars) PROVE McpIInv'
<1>1. CASE UNCHANGED Mcp!vars
  BY <1>1 DEF Mcp!vars, McpIInv, Mcp!At, Mcp!LoadedStays
<1>2. CASE Mcp!Create
  BY <1>2, McpEmptyOK DEF Mcp!Create, McpIInv, Mcp!At
<1>3. CASE Mcp!Delete
  BY <1>3, McpEmptyOK DEF Mcp!Delete, McpIInv, Mcp!At
<1>4. CASE Mcp!Lapse
  BY <1>4 DEF Mcp!Lapse, McpIInv, McpRow, Mcp!At, Mcp!LoadedStays
<1>5. ASSUME NEW c \in Client, Mcp!BeginRead(c) PROVE McpIInv'
  <2>1. [stage |-> "expire"] \in McpRequestType
    BY DEF McpRequestType
  <2>2. QED
    BY <1>5, <2>1, McpRequestsOK DEF Mcp!BeginRead, McpIInv, Mcp!LoadedStays
<1>6. ASSUME NEW c \in Client, Mcp!Expire(c) PROVE McpIInv'
  <2>1. row' = Mcp!NoSession /\ promised' = {} /\ meddled' \in BOOLEAN
    BY <1>6 DEF Mcp!Expire, McpIInv, McpRow
  <2>2. QED
    BY <1>6, <2>1, McpEmptyOK, McpRequestsOK, McpIdleOK DEF Mcp!Expire, Mcp!Reply, McpIInv
<1>7. ASSUME NEW c \in Client, Mcp!BeginLoad(c) PROVE McpIInv'
  <2>1. PICK asked \in SUBSET Eligible :
          Mcp!Become(c, [stage |-> "set", asked |-> asked, tools |-> row.tools \cup asked])
    BY <1>7 DEF Mcp!BeginLoad, Mcp!Selectable
  <2>2. [stage |-> "set", asked |-> asked, tools |-> row.tools \cup asked] \in McpRequestType
    BY DEF McpRequestType, McpIInv, McpRow
  <2>3. QED
    BY <1>7, <2>1, <2>2, McpRequestsOK DEF Mcp!BeginLoad, McpIInv, Mcp!LoadedStays
<1>8. ASSUME NEW c \in Client, Mcp!BeginSet(c) PROVE McpIInv'
  <2>1. PICK r \in McpRequestType : r = rpc[c]
    BY DEF McpIInv
  <2>2. r.stage = "set" /\ r \in [stage: {"set", "update"}, asked: SUBSET Eligible, tools: SUBSET Eligible]
    BY <1>8, <2>1 DEF Mcp!BeginSet, Mcp!At, McpRequestType
  <2>3. [stage |-> "expire"] \in McpRequestType
    BY DEF McpRequestType
  <2>4. /\ [r EXCEPT !.stage = "update"] \in McpRequestType
        /\ [r EXCEPT !.stage = "update"].tools = r.tools
    BY <2>2 DEF McpRequestType
  <2>5. \/ Mcp!Reply(c) \/ Mcp!Become(c, [stage |-> "expire"])
        \/ Mcp!Fits(r.asked, r.tools) /\ Mcp!Become(c, [r EXCEPT !.stage = "update"])
    BY <1>8, <2>1, Zenon DEF Mcp!BeginSet
  <2>6. /\ rpc' \in [Client -> McpRequestType]
        /\ \A d \in Client : Mcp!At(d, "update")' => Mcp!Cardinality(rpc'[d].tools) <= MaxTools
    BY <2>3, <2>4, <2>5, McpRequestsOK, McpIdleOK DEF Mcp!Reply, Mcp!Fits
  <2>7. QED
    BY <1>8, <2>6 DEF Mcp!BeginSet, McpIInv, Mcp!LoadedStays
<1>9. ASSUME NEW c \in Client, Mcp!Die(c) PROVE McpIInv'
  BY <1>9, McpRequestsOK, McpIdleOK DEF Mcp!Die, Mcp!Reply, McpIInv, Mcp!LoadedStays
<1>10. QED
  BY <1>1, <1>2, <1>3, <1>4, <1>5, <1>6, <1>7, <1>8, <1>9, McpUpdateOK DEF Mcp!Next

\* For any number of loads and tools, and sessions that lapse or are made again
\* meanwhile: a session lists eligible tools only and no more than the limit, and
\* what a load was answered ok for stays, unless the row changed under it.
THEOREM ToolsAreKept == LimitIsNumber /\ Mcp!Spec => []ToolsKept
<1> SUFFICES ASSUME LimitIsNumber PROVE Mcp!Spec => []ToolsKept
  OBVIOUS
<1>1. Mcp!Init => McpIInv
  BY McpInitOK
<1>2. McpIInv /\ [Mcp!Next]_(Mcp!vars) => McpIInv'
  BY McpNextOK
<1>3. McpIInv => Mcp!ToolsKept
  BY DEF McpIInv, McpRow, Mcp!ToolsKept, Mcp!LoadedWithinPolicy
<1>4. QED
  BY <1>1, <1>2, <1>3, PTL DEF ToolsKept, Mcp!Spec
-----------------------------------------------------------------------------
(* Pages of the journal *)

EventCount(s) == Events!Cardinality(s)

LEMMA EventCounting == \A s : EventCount(s) = Cardinality(s)
BY DEF EventCount, Events!Cardinality, Cardinality

EventTimes == taken \in [Event -> Nat]
EventNewer(e, s) == {f \in s : f # e /\ Events!After(f, e)}
EventOlder(e, s) == {f \in s : f # e /\ Events!After(e, f)}

LEMMA EventOrdered ==
  ASSUME EventsAreOrdered, EventTimes, NEW e \in Event, NEW f \in Event
  PROVE  /\ e = f \/ Events!After(e, f) \/ Events!After(f, e)
         /\ ~(Events!After(e, f) /\ Events!After(f, e)) /\ ~Events!After(e, e)
         /\ \A g \in Event : Events!After(e, f) /\ Events!After(f, g) => Events!After(e, g)
BY DEF EventsAreOrdered, EventTimes, Events!After

LEMMA EventFewer ==
  ASSUME NEW S, IsFiniteSet(S), NEW T \in SUBSET S, T # S
  PROVE  /\ Cardinality(T) \in Nat /\ Cardinality(S) \in Nat
         /\ Cardinality(T) < Cardinality(S)
<1>1. IsFiniteSet(T) /\ Cardinality(T) <= Cardinality(S) /\ Cardinality(T) # Cardinality(S)
  BY FS_Subset
<1>2. Cardinality(T) \in Nat /\ Cardinality(S) \in Nat
  BY <1>1, FS_CardinalityType
<1>3. QED
  BY <1>1, <1>2

\* A set of numbers that belong to its elements has a least one.
LEMMA EventLeast ==
  ASSUME NEW S, S # {}, NEW f \in [S -> Nat]
  PROVE  \E x \in S : \A y \in S : f[x] <= f[y]
<1>1. PICK N \in SUBSET Nat : N = {f[x] : x \in S} /\ N # {}
  <2>1. {f[x] : x \in S} \in SUBSET Nat /\ {f[x] : x \in S} # {}
    OBVIOUS
  <2>2. QED
    BY <2>1
<1>2. \E n \in N : \A m \in N : ~(<<m, n>> \in OpToRel(<, Nat))
  <2>1. N \subseteq Nat /\ N # {}
    BY <1>1
  <2>2. QED
    BY <2>1, NatLessThanWellFounded, WFMin
<1>3. \A n, m \in Nat : m < n => <<m, n>> \in OpToRel(<, Nat)
  <2>1. OpToRel(<, Nat) = {ss \in Nat \X Nat : ss[1] < ss[2]}
    BY Zenon DEF OpToRel
  <2>2. \A n, m \in Nat : m < n => <<m, n>> \in {ss \in Nat \X Nat : ss[1] < ss[2]}
    OBVIOUS
  <2>3. QED
    BY <2>1, <2>2, Zenon
<1>4. PICK n \in N : \A m \in N : ~(<<m, n>> \in OpToRel(<, Nat))
  BY <1>2
<1>5. \A m \in N : ~(m < n)
  BY <1>3, <1>4
<1>6. \A m \in N : n <= m
  BY <1>5
<1>7. QED
  BY <1>1, <1>6

\* The newest of a finite set is the one that has the fewest newer ones.
LEMMA EventNewestIs ==
  ASSUME EventsAreOrdered, EventTimes, NEW s \in SUBSET Event, IsFiniteSet(s), s # {}
  PROVE  /\ Events!Newest(s) \in s
         /\ \A f \in s \ {Events!Newest(s)} : Events!After(Events!Newest(s), f)
<1> DEFINE rank == [e \in s |-> Cardinality(EventNewer(e, s))]
<1>1. \A e \in s : IsFiniteSet(EventNewer(e, s)) /\ Cardinality(EventNewer(e, s)) \in Nat
  BY FS_Subset, FS_CardinalityType DEF EventNewer
<1>2. PICK n \in s : \A f \in s : rank[n] <= rank[f]
  <2>1. rank \in [s -> Nat]
    BY <1>1
  <2> HIDE DEF rank
  <2>2. QED
    BY <2>1, EventLeast
<1>3. ASSUME NEW f \in s \ {n}, ~Events!After(n, f) PROVE FALSE
  <2>1. Events!After(f, n)
    BY <1>3, EventOrdered
  <2>2. \A g \in EventNewer(f, s) : g \in EventNewer(n, s)
    BY <2>1, EventOrdered DEF EventNewer
  <2>3. f \in EventNewer(n, s) /\ f \notin EventNewer(f, s)
    BY <1>3, <2>1 DEF EventNewer
  <2>4. Cardinality(EventNewer(f, s)) < Cardinality(EventNewer(n, s))
    BY <1>1, <2>2, <2>3, EventFewer
  <2>5. Cardinality(EventNewer(n, s)) <= Cardinality(EventNewer(f, s))
    BY <1>2, <1>3
  <2>6. QED
    BY <1>1, <1>3, <2>4, <2>5
<1>4. \E e \in s : \A f \in s \ {e} : Events!After(e, f)
  BY <1>3
<1>5. QED
  BY <1>4 DEF Events!Newest

LEMMA EventOldestIs ==
  ASSUME EventsAreOrdered, EventTimes, NEW s \in SUBSET Event, IsFiniteSet(s), s # {}
  PROVE  /\ Events!Oldest(s) \in s
         /\ \A f \in s \ {Events!Oldest(s)} : Events!After(f, Events!Oldest(s))
<1> DEFINE rank == [e \in s |-> Cardinality(EventOlder(e, s))]
<1>1. \A e \in s : IsFiniteSet(EventOlder(e, s)) /\ Cardinality(EventOlder(e, s)) \in Nat
  BY FS_Subset, FS_CardinalityType DEF EventOlder
<1>2. PICK n \in s : \A f \in s : rank[n] <= rank[f]
  <2>1. rank \in [s -> Nat]
    BY <1>1
  <2> HIDE DEF rank
  <2>2. QED
    BY <2>1, EventLeast
<1>3. ASSUME NEW f \in s \ {n}, ~Events!After(f, n) PROVE FALSE
  <2>1. Events!After(n, f)
    BY <1>3, EventOrdered
  <2>2. \A g \in EventOlder(f, s) : g \in EventOlder(n, s)
    BY <2>1, EventOrdered DEF EventOlder
  <2>3. f \in EventOlder(n, s) /\ f \notin EventOlder(f, s)
    BY <1>3, <2>1 DEF EventOlder
  <2>4. Cardinality(EventOlder(f, s)) < Cardinality(EventOlder(n, s))
    BY <1>1, <2>2, <2>3, EventFewer
  <2>5. Cardinality(EventOlder(n, s)) <= Cardinality(EventOlder(f, s))
    BY <1>2, <1>3
  <2>6. QED
    BY <1>1, <1>3, <2>4, <2>5
<1>4. \E e \in s : \A f \in s \ {e} : Events!After(f, e)
  BY <1>3
<1>5. QED
  BY <1>4 DEF Events!Oldest

-----------------------------------------------------------------------------
(* A page is the newest of a set, and all of it when it is not full *)

LEMMA EventPageIsNewest ==
  ASSUME EventsAreOrdered, EventTimes, NEW s \in SUBSET Event, IsFiniteSet(s)
  PROVE  /\ Events!Page(s) \subseteq s
         /\ \A e \in s \ Events!Page(s), f \in Events!Page(s) : Events!After(f, e)
<1>1. \A e \in s : e \in Events!Page(s) <=> Cardinality(EventNewer(e, s)) < Limit
  BY EventCounting DEF Events!Page, EventNewer, EventCount
<1>2. Events!Page(s) \subseteq s
  BY DEF Events!Page
<1>3. \A e \in s : IsFiniteSet(EventNewer(e, s)) /\ Cardinality(EventNewer(e, s)) \in Nat
  BY FS_Subset, FS_CardinalityType DEF EventNewer
<1>4. ASSUME NEW e \in s \ Events!Page(s), NEW f \in Events!Page(s), ~Events!After(f, e) PROVE FALSE
  <2>1. f \in s /\ e # f /\ Events!After(e, f)
    BY <1>2, <1>4, EventOrdered
  <2>2. \A g \in EventNewer(e, s) : g \in EventNewer(f, s)
    BY <2>1, EventOrdered DEF EventNewer
  <2>3. Cardinality(EventNewer(e, s)) <= Cardinality(EventNewer(f, s))
    BY <1>3, <2>1, <2>2, FS_Subset
  <2>4. QED
    BY <1>1, <1>3, <1>4, <2>1, <2>3 DEF EventsAreOrdered
<1>5. QED
  BY <1>2, <1>4

LEMMA EventPageIsAll ==
  ASSUME EventsAreOrdered, EventTimes, NEW s \in SUBSET Event, IsFiniteSet(s),
         EventCount(Events!Page(s)) # Limit
  PROVE  Events!Page(s) = s
<1>1. \A e \in s : e \in Events!Page(s) <=> Cardinality(EventNewer(e, s)) < Limit
  BY EventCounting DEF Events!Page, EventNewer, EventCount
<1>2. Events!Page(s) \subseteq s /\ \A e \in s \ Events!Page(s), f \in Events!Page(s) : Events!After(f, e)
  BY EventPageIsNewest
<1>3. \A e \in s : IsFiniteSet(EventNewer(e, s)) /\ Cardinality(EventNewer(e, s)) \in Nat
  BY FS_Subset, FS_CardinalityType DEF EventNewer
<1>4. SUFFICES ASSUME s \ Events!Page(s) # {} PROVE FALSE
  BY <1>2
<1> DEFINE rest == s \ Events!Page(s)
           e == Events!Newest(rest)
<1>5. e \in rest /\ \A f \in rest \ {e} : Events!After(e, f)
  <2>1. rest \in SUBSET Event /\ IsFiniteSet(rest) /\ rest # {}
    BY <1>4, FS_Subset
  <2> HIDE DEF rest
  <2>2. QED
    BY <2>1, EventNewestIs
<1> HIDE DEF e
<1>6. EventNewer(e, s) = Events!Page(s)
  <2>1. \A f \in Events!Page(s) : f \in EventNewer(e, s)
    BY <1>2, <1>5 DEF EventNewer
  <2>2. \A f \in EventNewer(e, s) : f \in Events!Page(s)
    BY <1>5, EventOrdered DEF EventNewer
  <2>3. QED
    BY <2>1, <2>2
<1>7. IsFiniteSet(Events!Page(s)) /\ Cardinality(Events!Page(s)) \in Nat /\ Cardinality(Events!Page(s)) > Limit
  <2>1. e \in s /\ e \notin Events!Page(s)
    BY <1>5
  <2>2. Cardinality(Events!Page(s)) # Limit
    BY EventCounting
  <2>3. QED
    BY <1>1, <1>3, <1>6, <2>1, <2>2 DEF EventsAreOrdered
<1>8. Events!Page(s) # {}
  BY <1>7, FS_EmptySet DEF EventsAreOrdered
<1> DEFINE g == Events!Oldest(Events!Page(s))
<1>9. g \in Events!Page(s) /\ \A f \in Events!Page(s) \ {g} : Events!After(f, g)
  <2>1. Events!Page(s) \in SUBSET Event
    BY <1>2
  <2>2. QED
    BY <1>7, <1>8, <2>1, EventOldestIs
<1> HIDE DEF g
<1>10. EventNewer(g, s) = Events!Page(s) \ {g}
  <2>1. \A f \in Events!Page(s) \ {g} : f \in EventNewer(g, s)
    BY <1>2, <1>9 DEF EventNewer
  <2>2. \A f \in EventNewer(g, s) : f \in Events!Page(s) \ {g}
    BY <1>2, <1>9, EventOrdered DEF EventNewer
  <2>3. QED
    BY <2>1, <2>2
<1>11. Cardinality(EventNewer(g, s)) = Cardinality(Events!Page(s)) - 1
  BY <1>7, <1>9, <1>10, FS_RemoveElement
<1>12. Cardinality(EventNewer(g, s)) < Limit
  BY <1>1, <1>2, <1>9
<1>13. QED
  BY <1>3, <1>7, <1>11, <1>12 DEF EventsAreOrdered

-----------------------------------------------------------------------------
\* Of what is in the journal, and not late: what is not newer than `since` was
\* shown; and half way through a round, what is not newer than the newest shown
\* is shown or behind the cursor.
EventIInv ==
  /\ clock \in Nat /\ EventTimes
  /\ journal \in SUBSET Event /\ IsFiniteSet(journal)
  /\ \A e \in journal : taken[e] # 0
  /\ reader \in [at: {"rest", "page"}, since: Nat, shown: SUBSET journal, again: {FALSE}]
  /\ \A e \in reader.shown : taken[e] > reader.since
  /\ \A e \in journal \ late : taken[e] <= reader.since => e \in seen
  /\ \A e \in journal \ late, f \in reader.shown :
       taken[e] > reader.since /\ taken[e] <= taken[f] =>
         e \in reader.shown \/ \A g \in reader.shown : Events!After(g, e)

LEMMA EventTakeTimeOK ==
  ASSUME EventIInv, NEW e \in Event, Events!TakeTime(e)
  PROVE  EventIInv'
<1>1. PICK t \in 1..clock : taken' = [taken EXCEPT ![e] = t]
  BY DEF Events!TakeTime
<1>2. /\ taken' \in [Event -> Nat] /\ e \notin journal
      /\ \A f \in Event \ {e} : taken'[f] = taken[f]
  BY <1>1 DEF Events!TakeTime, EventIInv, EventTimes
<1>3. reader.shown \subseteq journal /\ journal \subseteq Event
  BY DEF EventIInv
<1>4. \A f \in journal : f \in Event \ {e} /\ taken'[f] = taken[f]
  BY <1>2, <1>3
<1>5. \A f, g \in journal : Events!After(g, f)' <=> Events!After(g, f)
  BY <1>4 DEF Events!After
<1>6. UNCHANGED <<clock, journal, reader, late, seen>>
  BY DEF Events!TakeTime
<1>7. EventTimes'
  BY <1>2 DEF EventTimes
<1>8. \A f \in journal \ late, g \in reader.shown :
        taken'[f] > reader.since /\ taken'[f] <= taken'[g] =>
          f \in reader.shown \/ \A h \in reader.shown : Events!After(h, f)'
  BY <1>3, <1>4, <1>5 DEF EventIInv
<1>9. QED
  BY <1>3, <1>4, <1>6, <1>7, <1>8 DEF EventIInv

\* The newest time a reader has seen.
LEMMA EventBoundIs ==
  ASSUME EventsAreOrdered, EventIInv
  PROVE  Events!Bound \in Nat /\ Events!Bound >= reader.since /\ \A f \in reader.shown : taken[f] <= Events!Bound
<1>1. CASE reader.shown = {}
  BY <1>1 DEF Events!Bound, EventIInv
<1>2. CASE reader.shown # {}
  <2>1. PICK s \in SUBSET Event : s = reader.shown
    BY DEF EventIInv
  <2>2. IsFiniteSet(s)
    BY <2>1, FS_Subset DEF EventIInv
  <2>3. Events!Newest(s) \in s /\ \A f \in s \ {Events!Newest(s)} : Events!After(Events!Newest(s), f)
    BY <1>2, <2>1, <2>2, EventNewestIs DEF EventIInv
  <2>4. PICK n \in s : n = Events!Newest(s)
    BY <2>3
  <2>5. Events!Bound = taken[n]
    BY <1>2, <2>1, <2>4 DEF Events!Bound
  <2>6. \A f \in s : f = n \/ Events!After(n, f)
    BY <2>3, <2>4
  <2>7. QED
    BY <2>1, <2>5, <2>6 DEF EventIInv, EventTimes, Events!After
<1>3. QED
  BY <1>1, <1>2

\* What is inserted is late, or newer than all the reader has seen.
LEMMA EventInsertedIs ==
  ASSUME EventsAreOrdered, EventIInv, NEW e \in Event, Events!Insert(e)
  PROVE  /\ journal' = journal \cup {e} /\ late' \subseteq late \cup {e} /\ late \subseteq late'
         /\ e \notin late' => /\ taken[e] > reader.since
                              /\ \A g \in reader.shown : taken[e] > taken[g]
<1>1. PICK b \in Nat : b = Events!Bound
  BY EventBoundIs
<1>2. PICK t \in Nat : t = taken[e]
  BY DEF EventIInv, EventTimes
<1>3. /\ journal' = journal \cup {e} /\ late' = IF t <= b THEN late \cup {e} ELSE late
  BY <1>1, <1>2 DEF Events!Insert
<1>4. b >= reader.since /\ \A g \in reader.shown : taken[g] <= b /\ taken[g] \in Nat
  BY <1>1, EventBoundIs DEF EventIInv, EventTimes
<1>5. reader.since \in Nat
  BY DEF EventIInv
<1>6. QED
  BY <1>2, <1>3, <1>4, <1>5

LEMMA EventInsertOK ==
  ASSUME EventsAreOrdered, EventIInv, NEW e \in Event, Events!Insert(e)
  PROVE  EventIInv'
<1>1. /\ journal' = journal \cup {e} /\ e \notin journal /\ taken[e] # 0
      /\ late' = IF taken[e] <= Events!Bound THEN late \cup {e} ELSE late
      /\ UNCHANGED <<clock, taken, reader, seen>>
  BY DEF Events!Insert
<1>2. IsFiniteSet(journal') /\ journal' \in SUBSET Event
  <2>1. IsFiniteSet(journal) /\ journal \in SUBSET Event
    BY DEF EventIInv
  <2>2. QED
    BY <1>1, <2>1, FS_AddElement
<1>3. /\ \A f \in journal' \ late' : f \in journal \ late \/ f = e
      /\ e \notin late' => /\ taken[e] > reader.since
                           /\ \A g \in reader.shown : taken[e] > taken[g]
  BY <1>1, EventInsertedIs
<1>4. reader \in [at: {"rest", "page"}, since: Nat, shown: SUBSET journal', again: {FALSE}]
  BY <1>1 DEF EventIInv
<1>5. ASSUME NEW f \in journal' \ late', taken[f] <= reader.since PROVE f \in seen
  <2>1. taken[e] \in Nat /\ reader.since \in Nat
    BY DEF EventIInv, EventTimes
  <2>2. f \in journal \ late
    BY <1>3, <1>5, <2>1
  <2>3. QED
    BY <1>5, <2>2 DEF EventIInv
<1>6. ASSUME NEW f \in journal' \ late', NEW g \in reader.shown,
             taken[f] > reader.since, taken[f] <= taken[g]
      PROVE  f \in reader.shown \/ \A h \in reader.shown : Events!After(h, f)
  <2>1. taken[e] \in Nat /\ taken[g] \in Nat
    BY DEF EventIInv, EventTimes
  <2>2. f \in journal \ late
    BY <1>3, <1>6, <2>1
  <2>3. QED
    BY <1>6, <2>2 DEF EventIInv
<1>7. \A f, g : Events!After(f, g)' <=> Events!After(f, g)
  BY <1>1 DEF Events!After
<1>8. QED
  BY <1>1, <1>2, <1>4, <1>5, <1>6, <1>7 DEF EventIInv, EventTimes

-----------------------------------------------------------------------------
\* What a page may show is what the reader has not seen, behind its cursor.
LEMMA EventPagedIs ==
  ASSUME EventsAreOrdered, EventIInv
  PROVE  /\ Events!Paged \subseteq journal /\ IsFiniteSet(Events!Paged)
         /\ \A e \in journal : e \in Events!Paged <=>
              taken[e] > reader.since /\ \A g \in reader.shown : Events!After(g, e)
<1>1. Events!Paged \subseteq journal
  BY DEF Events!Paged
<1>2. IsFiniteSet(Events!Paged)
  BY <1>1, FS_Subset DEF EventIInv
<1>3. CASE reader.shown = {}
  BY <1>1, <1>2, <1>3 DEF Events!Paged
<1>4. CASE reader.shown # {}
  <2>1. PICK s \in SUBSET Event : s = reader.shown
    BY DEF EventIInv
  <2>2. IsFiniteSet(s)
    BY <2>1, FS_Subset DEF EventIInv
  <2>3. Events!Oldest(s) \in s /\ \A f \in s \ {Events!Oldest(s)} : Events!After(f, Events!Oldest(s))
    BY <1>4, <2>1, <2>2, EventOldestIs DEF EventIInv
  <2>4. PICK o \in s : o = Events!Oldest(s)
    BY <2>3
  <2>5. \A e \in journal : e \in Events!Paged <=> taken[e] > reader.since /\ Events!After(o, e)
    BY <1>4, <2>1, <2>4 DEF Events!Paged
  <2>6. \A e \in Event : Events!After(o, e) <=> \A g \in s : Events!After(g, e)
    BY <2>3, <2>4, EventOrdered DEF EventIInv
  <2>7. QED
    BY <1>1, <1>2, <2>1, <2>5, <2>6 DEF EventIInv
<1>5. QED
  BY <1>3, <1>4

LEMMA EventListOK ==
  ASSUME EventsAreOrdered, EventIInv, Events!List
  PROVE  EventIInv'
<1> DEFINE page == Events!Page(Events!Paged)
           shown == reader.shown \cup page
<1>1. /\ page \subseteq Events!Paged
      /\ \A e \in Events!Paged \ page, f \in page : Events!After(f, e)
      /\ EventCount(page) # Limit => page = Events!Paged
  <2>1. Events!Paged \in SUBSET Event /\ IsFiniteSet(Events!Paged)
    BY EventPagedIs DEF EventIInv
  <2>2. QED
    BY <2>1, EventPageIsNewest, EventPageIsAll DEF EventIInv
<1>2. \/ /\ reader' = [reader EXCEPT !.at = "page", !.shown = shown,
                         !.again = @ \/ page \cap reader.shown # {}]
         /\ UNCHANGED seen
      \/ /\ EventCount(page) # Limit
         /\ seen' = seen \cup shown
         /\ reader' = [reader EXCEPT !.at = "rest", !.shown = {},
                         !.again = @ \/ page \cap reader.shown # {},
                         !.since = IF shown = {} THEN @ ELSE taken[Events!Newest(shown)]]
  BY DEF Events!List, EventCount
<1>3. UNCHANGED <<clock, taken, journal, late>>
  BY DEF Events!List
<1> HIDE DEF page
<1>4. /\ page \subseteq journal
      /\ \A e \in page : taken[e] > reader.since /\ \A g \in reader.shown : Events!After(g, e)
  BY <1>1, EventPagedIs
<1>5. page \cap reader.shown = {} /\ reader.again = FALSE
  <2>1. \A e \in page : e \in Event /\ e \notin reader.shown
    BY <1>4, EventOrdered DEF EventIInv
  <2>2. QED
    BY <2>1 DEF EventIInv
<1>6. shown \in SUBSET journal /\ shown \in SUBSET Event /\ IsFiniteSet(shown)
  BY <1>4, FS_Subset DEF EventIInv
<1>7. \A e \in shown : taken[e] > reader.since
  BY <1>4 DEF EventIInv
<1>8. \A e \in journal \ late, f \in shown :
        taken[e] > reader.since /\ taken[e] <= taken[f] =>
          e \in shown \/ \A g \in shown : Events!After(g, e)
  <2>1. ASSUME NEW e \in journal \ late, NEW f \in shown,
               taken[e] > reader.since, taken[e] <= taken[f], e \notin shown
        PROVE  \A g \in shown : Events!After(g, e)
    <3>1. \A g \in reader.shown : Events!After(g, e)
      <4>1. CASE f \in reader.shown
        BY <2>1, <4>1 DEF EventIInv
      <4>2. CASE f \in page
        <5>1. \A g \in reader.shown : Events!After(g, f) /\ g \in Event /\ f \in Event /\ e \in Event
          BY <1>4, <4>2 DEF EventIInv
        <5>2. \A g \in reader.shown : taken[f] <= taken[g]
          BY <5>1 DEF Events!After, EventIInv, EventTimes
        <5>3. \A g \in reader.shown : taken[e] <= taken[g]
          BY <2>1, <5>1, <5>2 DEF EventIInv, EventTimes
        <5>4. QED
          BY <2>1, <5>3 DEF EventIInv
      <4>3. QED
        BY <2>1, <4>1, <4>2
    <3>2. e \in Events!Paged \ page
      BY <2>1, <3>1, EventPagedIs
    <3>3. QED
      BY <1>1, <3>1, <3>2
  <2>2. QED
    BY <2>1
<1> HIDE DEF shown
<1>9. CASE /\ reader' = [reader EXCEPT !.at = "page", !.shown = shown,
                           !.again = @ \/ page \cap reader.shown # {}]
           /\ UNCHANGED seen
  <2>1. /\ reader' \in [at: {"rest", "page"}, since: Nat, shown: SUBSET journal, again: {FALSE}]
        /\ reader'.shown = shown /\ reader'.since = reader.since
    BY <1>5, <1>6, <1>9 DEF EventIInv
  <2>2. \A f, g : Events!After(f, g)' <=> Events!After(f, g)
    BY <1>3 DEF Events!After
  <2>3. QED
    BY <1>3, <1>7, <1>8, <1>9, <2>1, <2>2 DEF EventIInv, EventTimes
<1>10. CASE /\ EventCount(page) # Limit
            /\ seen' = seen \cup shown
            /\ reader' = [reader EXCEPT !.at = "rest", !.shown = {},
                            !.again = @ \/ page \cap reader.shown # {},
                            !.since = IF shown = {} THEN @ ELSE taken[Events!Newest(shown)]]
  <2>1. PICK b \in Nat : /\ b = IF shown = {} THEN reader.since ELSE taken[Events!Newest(shown)]
                         /\ shown = {} => b = reader.since
                         /\ shown # {} => \E n \in shown : b = taken[n]
    <3>1. CASE shown = {}
      BY <3>1 DEF EventIInv
    <3>2. CASE shown # {}
      <4>1. Events!Newest(shown) \in shown
        BY <1>6, <3>2, EventNewestIs DEF EventIInv
      <4>2. taken[Events!Newest(shown)] \in Nat
        BY <1>6, <4>1 DEF EventIInv, EventTimes
      <4>3. QED
        BY <3>2, <4>1, <4>2
    <3>3. QED
      BY <3>1, <3>2
  <2>2. /\ reader' \in [at: {"rest", "page"}, since: Nat, shown: SUBSET journal, again: {FALSE}]
        /\ reader'.shown = {} /\ reader'.since = b
    BY <1>5, <1>10, <2>1 DEF EventIInv
  <2>3. ASSUME NEW e \in journal \ late, taken[e] <= b PROVE e \in seen \cup shown
    <3>1. CASE taken[e] <= reader.since
      BY <3>1 DEF EventIInv
    <3>2. CASE ~(taken[e] <= reader.since)
      <4>1. taken[e] > reader.since
        BY <3>2 DEF EventIInv, EventTimes
      <4>2. PICK n \in shown : b = taken[n]
        BY <2>1, <2>3, <3>2
      <4>3. e \in shown \/ \A g \in shown : Events!After(g, e)
        BY <1>8, <2>3, <4>1, <4>2
      <4>4. ASSUME \A g \in shown : Events!After(g, e) PROVE e \in shown
        <5>1. e \in Events!Paged
          BY <4>1, <4>4, EventPagedIs DEF shown
        <5>2. QED
          BY <1>1, <1>10, <5>1 DEF shown
      <4>5. QED
        BY <4>3, <4>4
    <3>3. QED
      BY <3>1, <3>2
  <2>4. QED
    BY <1>3, <1>10, <2>2, <2>3 DEF EventIInv, EventTimes
<1>11. QED
  BY <1>2, <1>9, <1>10

-----------------------------------------------------------------------------
LEMMA EventInitOK == Events!Init => EventIInv
BY FS_EmptySet DEF Events!Init, EventIInv, EventTimes, Events!Resting

LEMMA EventNextOK == EventsAreOrdered /\ EventIInv /\ [Events!Next]_(Events!vars) => EventIInv'
<1>1. ASSUME EventIInv, UNCHANGED Events!vars PROVE EventIInv'
  BY <1>1 DEF Events!vars, EventIInv, EventTimes, Events!After
<1>2. ASSUME EventIInv, Events!Tick PROVE EventIInv'
  <2>1. clock' \in Nat /\ UNCHANGED <<taken, journal, reader, late, seen>>
    BY <1>2 DEF Events!Tick, EventIInv
  <2>2. \A f, g : Events!After(f, g)' <=> Events!After(f, g)
    BY <2>1 DEF Events!After
  <2>3. QED
    BY <1>2, <2>1, <2>2 DEF EventIInv, EventTimes
<1>3. QED
  BY <1>1, <1>2, EventTakeTimeOK, EventInsertOK, EventListOK, Zenon DEF Events!Next

\* For any number of events, and whatever is inserted between two pages: no event
\* is shown twice in a round, and a reader that goes on from the newest event it
\* saw misses only those inserted with a time it had passed.
THEOREM PagesAreKept == EventsAreOrdered /\ Events!Spec => []PagesKept
<1> SUFFICES ASSUME EventsAreOrdered PROVE Events!Spec => []PagesKept
  OBVIOUS
<1>1. EventIInv /\ [Events!Next]_(Events!vars) => EventIInv'
  BY EventNextOK
<1>2. EventIInv => Events!PagesKept
  BY DEF EventIInv, Events!PagesKept, Events!MissedWereLate, Events!NoneTwice
<1>3. QED
  BY <1>1, <1>2, EventInitOK, PTL DEF PagesKept, Events!Spec
-----------------------------------------------------------------------------
(* Repositories *)

(* What is chosen of a sequence *)

\* What a sequence holds.
RepoRng(seq) == {seq[i] : i \in DOMAIN seq}

RepoRank(i, at) == Cardinality({k \in at : k <= i})

\* The positions that are chosen have the ranks up to their number, each one
\* its own, and in their order.
LEMMA RepoRanks ==
  ASSUME NEW n \in Nat, NEW at \in SUBSET (1..n)
  PROVE  /\ IsFiniteSet(at) /\ Cardinality(at) \in Nat
         /\ \A i \in at : RepoRank(i, at) \in 1..Cardinality(at)
         /\ \A i, j \in at : i < j => RepoRank(i, at) < RepoRank(j, at)
         /\ \A m \in 1..Cardinality(at) : \E i \in at : RepoRank(i, at) = m
<1> DEFINE upto(i) == {k \in at : k <= i}
<1>1. IsFiniteSet(at) /\ Cardinality(at) \in Nat /\ \A i \in at : i \in Nat
  <2>1. 1 \in Int /\ n \in Int /\ IsFiniteSet(1..n)
    BY FS_Interval
  <2>2. IsFiniteSet(at)
    BY <2>1, FS_Subset
  <2>3. QED
    BY <2>2, FS_CardinalityType
<1>2. ASSUME NEW i \in at
      PROVE  /\ IsFiniteSet(upto(i)) /\ Cardinality(upto(i)) \in Nat
             /\ Cardinality(upto(i)) # 0 /\ Cardinality(upto(i)) <= Cardinality(at)
  <2>1. upto(i) \in SUBSET at /\ i \in upto(i)
    OBVIOUS
  <2> HIDE DEF upto
  <2>2. QED
    BY <1>1, <2>1, FS_Subset, FS_CardinalityType, FS_EmptySet
<1>3. \A i \in at : RepoRank(i, at) \in 1..Cardinality(at)
  <2>1. \A i \in at : RepoRank(i, at) = Cardinality(upto(i))
    BY DEF RepoRank
  <2> HIDE DEF upto
  <2>2. QED
    BY <1>1, <1>2, <2>1
<1>4. ASSUME NEW i \in at, NEW j \in at, i < j PROVE RepoRank(i, at) < RepoRank(j, at)
  <2>1. upto(i) \in SUBSET upto(j) /\ j \in upto(j) /\ j \notin upto(i)
    <3>1. i \in Nat /\ j \in Nat /\ \A k \in at : k \in Nat
      BY <1>1
    <3>2. j <= j /\ ~(j <= i) /\ \A k \in at : k <= i => k <= j
      BY <1>4, <3>1
    <3>3. QED
      BY <3>2
  <2>2. RepoRank(i, at) = Cardinality(upto(i)) /\ RepoRank(j, at) = Cardinality(upto(j))
    BY DEF RepoRank
  <2>3. IsFiniteSet(upto(j)) /\ Cardinality(upto(i)) \in Nat /\ Cardinality(upto(j)) \in Nat
    BY <1>2
  <2> HIDE DEF upto
  <2>4. upto(i) # upto(j)
    BY <2>1
  <2>5. Cardinality(upto(i)) <= Cardinality(upto(j)) /\ Cardinality(upto(i)) # Cardinality(upto(j))
    BY <2>1, <2>3, <2>4, FS_Subset
  <2>6. QED
    BY <2>2, <2>3, <2>5
<1>5. ASSUME NEW m \in 1..Cardinality(at) PROVE \E i \in at : RepoRank(i, at) = m
  <2> DEFINE f == [i \in at |-> RepoRank(i, at)]
  <2>1. PICK c \in Nat : c = Cardinality(at)
    BY <1>1
  <2>2. f \in [at -> 1..c]
    BY <1>3, <2>1
  <2>3. \A i, j \in at : f[i] = f[j] => i = j
    <3>1. SUFFICES ASSUME NEW i \in at, NEW j \in at, i # j PROVE f[i] # f[j]
      OBVIOUS
    <3>2. i \in Nat /\ j \in Nat /\ RepoRank(i, at) \in Nat /\ RepoRank(j, at) \in Nat
      BY <1>1, <1>3
    <3>3. i < j \/ j < i
      BY <3>1, <3>2
    <3>4. RepoRank(i, at) < RepoRank(j, at) \/ RepoRank(j, at) < RepoRank(i, at)
      BY <1>4, <3>3
    <3>5. QED
      BY <3>2, <3>4
  <2>4. f \in Injection(at, 1..c)
    <3> HIDE DEF f
    <3>1. QED
      BY <2>2, <2>3 DEF Injection, IsInjective
  <2>5. IsFiniteSet(1..c) /\ Cardinality(1..c) = c
    BY FS_Interval
  <2>6. f \in Surjection(at, 1..c)
    <3> HIDE DEF f
    <3>1. QED
      BY <2>1, <2>4, <2>5, FS_Injection
  <2>7. \E i \in at : f[i] = m
    <3> HIDE DEF f
    <3>1. QED
      BY <2>1, <2>6 DEF Surjection
  <2>8. QED
    BY <2>7
<1>6. QED
  BY <1>1, <1>3, <1>4, <1>5

\* What is chosen is what stands at those positions.
LEMMA RepoChosenInOrder ==
  ASSUME NEW S, NEW seq \in Seq(S), NEW at \in SUBSET DOMAIN seq
  PROVE  Repo!Chosen(seq, at) \in Seq(S) /\ RepoRng(Repo!Chosen(seq, at)) = {seq[i] : i \in at}
<1>1. PICK n \in Nat : n = Len(seq) /\ DOMAIN seq = 1..n /\ \A i \in 1..n : seq[i] \in S
  OBVIOUS
<1>2. PICK c \in Nat : c = Cardinality(at)
  BY <1>1, RepoRanks
<1>3. /\ \A i \in at : i \in Nat /\ RepoRank(i, at) \in 1..c
      /\ \A i, j \in at : i < j => RepoRank(i, at) < RepoRank(j, at)
      /\ \A m \in 1..c : \E i \in at : RepoRank(i, at) = m
  <2>1. at \in SUBSET (1..n)
    BY <1>1
  <2>2. \A i \in at : i \in Nat
    BY <1>1
  <2>3. QED
    BY <1>1, <1>2, <2>1, <2>2, RepoRanks
<1> DEFINE spot(m) == CHOOSE i \in at : RepoRank(i, at) = m
<1>4. \A m \in 1..c : spot(m) \in at /\ RepoRank(spot(m), at) = m
  BY <1>3
<1>5. PICK s : s = Repo!Chosen(seq, at)
  OBVIOUS
<1>6. s = [m \in 1..c |-> seq[spot(m)]]
  BY <1>2, <1>5 DEF Repo!Chosen, RepoRank, Cardinality, Repo!Cardinality
<1> HIDE DEF spot
<1>7. \A m \in 1..c : s[m] = seq[spot(m)] /\ s[m] \in S
  BY <1>1, <1>4, <1>6
<1>8. s \in Seq(S) /\ DOMAIN s = 1..c
  BY <1>6, <1>7
<1>9. ASSUME NEW i \in at PROVE \E m \in 1..c : s[m] = seq[i]
  <2>1. PICK m \in 1..c : m = RepoRank(i, at)
    BY <1>3
  <2>2. \A j \in at : RepoRank(j, at) = m => j = i
    <3>1. \A j \in at : j = i \/ j < i \/ i < j
      BY <1>3
    <3>2. \A j \in at : RepoRank(j, at) \in Nat /\ RepoRank(i, at) \in Nat
      BY <1>3
    <3>3. \A j \in at : j # i => RepoRank(j, at) < RepoRank(i, at) \/
            RepoRank(i, at) < RepoRank(j, at)
      BY <1>3, <3>1
    <3>4. QED
      BY <2>1, <3>2, <3>3
  <2>3. spot(m) = i
    BY <1>4, <2>2
  <2>4. QED
    BY <1>7, <2>3
<1>10. RepoRng(s) = {s[m] : m \in 1..c}
  BY <1>8 DEF RepoRng
<1>11. \A m \in 1..c : s[m] \in {seq[i] : i \in at}
  BY <1>4, <1>7
<1>12. RepoRng(s) = {seq[i] : i \in at}
  BY <1>9, <1>10, <1>11
<1>13. QED
  BY <1>5, <1>8, <1>12

(* Numbers and sequences *)

\* A set of numbers up to a number has a least and a greatest.
LEMMA RepoLeastIs ==
  ASSUME NEW S \in SUBSET Nat, S # {}
  PROVE  \E n \in S : \A m \in S : n <= m
<1>1. PICK f \in [S -> Nat] : \A n \in S : f[n] = n
  <2>1. [n \in S |-> n] \in [S -> Nat] /\ \A n \in S : [m \in S |-> m][n] = n
    OBVIOUS
  <2>2. QED
    BY <2>1
<1>2. PICK n \in S : \A m \in S : f[n] <= f[m]
  BY EventLeast
<1>3. QED
  BY <1>1, <1>2

LEMMA RepoLowestIs ==
  ASSUME NEW S \in SUBSET Nat, S # {}
  PROVE  Repo!Lowest(S) \in S
<1>1. \E n \in S : \A m \in S : n <= m
  BY RepoLeastIs
<1>2. QED
  BY <1>1 DEF Repo!Lowest

LEMMA RepoLatestIs ==
  ASSUME NEW n \in Nat, NEW S \in SUBSET (1..n), S # {}
  PROVE  Repo!Latest(S) \in S
<1>1. PICK T \in SUBSET Nat : T = {n - x : x \in S} /\ T # {}
  <2>1. \A x \in S : n - x \in Nat
    OBVIOUS
  <2>2. {n - x : x \in S} \in SUBSET Nat /\ {n - x : x \in S} # {}
    BY <2>1
  <2>3. QED
    BY <2>2
<1>2. PICK t \in T : \A u \in T : t <= u
  BY <1>1, RepoLeastIs
<1>3. PICK x \in S : t = n - x
  BY <1>1, <1>2
<1>4. \A y \in S : n - y \in T
  BY <1>1
<1>5. \A y \in S : x \in Nat /\ y \in Nat /\ n - x <= n - y
  BY <1>2, <1>3, <1>4
<1>6. \A y \in S : x >= y
  BY <1>5
<1>7. QED
  BY <1>6 DEF Repo!Latest

LEMMA RepoFirstIs ==
  ASSUME NEW S, NEW seq \in Seq(S), NEW n \in Nat
  PROVE  Repo!First(n, seq) \in Seq(S) /\ RepoRng(Repo!First(n, seq)) \subseteq RepoRng(seq)
<1>1. PICK l \in Nat : l = Len(seq) /\ DOMAIN seq = 1..l
  OBVIOUS
<1>2. PICK k \in Nat : k = (IF l < n THEN l ELSE n) /\ k <= l
  OBVIOUS
<1>3. Repo!First(n, seq) = SubSeq(seq, 1, k)
  BY <1>1, <1>2 DEF Repo!First
<1>4. PICK t : t = SubSeq(seq, 1, k)
  OBVIOUS
<1>5. t \in Seq(S) /\ Len(t) = k /\ \A i \in 1..k : t[i] = seq[i]
  BY <1>1, <1>2, <1>4
<1>6. DOMAIN t = 1..k
  BY <1>5
<1>7. QED
  BY <1>1, <1>2, <1>3, <1>4, <1>5, <1>6 DEF RepoRng

LEMMA RepoJoined ==
  ASSUME NEW S, NEW a \in Seq(S), NEW b \in Seq(S)
  PROVE  a \o b \in Seq(S) /\ RepoRng(a \o b) = RepoRng(a) \cup RepoRng(b)
<1>0. PICK s : s = a \o b
  OBVIOUS
<1>1. s \in Seq(S) /\ Len(s) = Len(a) + Len(b)
  BY <1>0, ConcatProperties
<1>2. \A k \in 1..Len(s) : s[k] = IF k <= Len(a) THEN a[k] ELSE b[k - Len(a)]
  BY <1>0, <1>1, ConcatProperties
<1>3. PICK m \in Nat, n \in Nat : m = Len(a) /\ n = Len(b) /\ DOMAIN a = 1..m /\ DOMAIN b = 1..n
  OBVIOUS
<1>4. DOMAIN s = 1..(m + n)
  BY <1>1, <1>3
<1>5. \A k \in 1..(m + n) : s[k] = IF k <= m THEN a[k] ELSE b[k - m]
  BY <1>1, <1>2, <1>3
<1>6. \A i \in 1..m : i \in 1..(m + n) /\ s[i] = a[i]
  BY ONLY <1>5, m \in Nat, n \in Nat
<1>7. \A i \in 1..n : m + i \in 1..(m + n) /\ ~(m + i <= m) /\ m + i - m = i
  OBVIOUS
<1>8. \A i \in 1..n : m + i \in 1..(m + n) /\ s[m + i] = b[i]
  BY ONLY <1>5, <1>7, m \in Nat, n \in Nat
<1>9. \A k \in 1..(m + n) : (k \in 1..m /\ s[k] = a[k]) \/ (k - m \in 1..n /\ s[k] = b[k - m])
  BY ONLY <1>5, m \in Nat, n \in Nat
<1>10. RepoRng(s) = RepoRng(a) \cup RepoRng(b)
  <2>1. RepoRng(a) = {a[i] : i \in 1..m} /\ RepoRng(b) = {b[i] : i \in 1..n}
    BY <1>3 DEF RepoRng
  <2>2. RepoRng(s) = {s[i] : i \in 1..(m + n)}
    BY <1>4 DEF RepoRng
  <2>3. \A x \in {s[i] : i \in 1..(m + n)} : x \in {a[i] : i \in 1..m} \/ x \in {b[i] : i \in 1..n}
    BY ONLY <1>9
  <2>4. \A x \in {a[i] : i \in 1..m} : x \in {s[i] : i \in 1..(m + n)}
    BY ONLY <1>6
  <2>5. \A x \in {b[i] : i \in 1..n} : x \in {s[i] : i \in 1..(m + n)}
    BY ONLY <1>8
  <2>6. QED
    BY ONLY <2>1, <2>2, <2>3, <2>4, <2>5
<1>11. QED
  BY <1>0, <1>1, <1>10

(* Stones *)

RepoBlob  == Blob \cup {Repo!Absent, CHOOSE t \in Blob : t \in Noted}
RepoAbout == {"note", "orientation", "architecture", "lint", "review"}
RepoRow   == [kind : RepoAbout, whole : BOOLEAN] \cup
         [kind : {"file"}, path : Repo!Paths, sha : RepoBlob, text : RepoBlob, whole : BOOLEAN]

RepoIsFile(st, s, p) == s \in DOMAIN st /\ st[s].kind = "file" /\ st[s].path = p
RepoIsHead(st, s)    == s \in DOMAIN st /\ st[s].kind \in {"note", "orientation"}

\* Stones are added, and made whole.
RepoAges(old, new) ==
  /\ Len(old) <= Len(new)
  /\ \A s \in DOMAIN old :
       /\ s \in DOMAIN new /\ new[s].kind = old[s].kind
       /\ old[s].kind = "file" =>
            new[s].path = old[s].path /\ new[s].sha = old[s].sha /\ new[s].text = old[s].text
       /\ old[s].whole => new[s].whole

LEMMA RepoSameAge == ASSUME NEW st \in Seq(RepoRow) PROVE RepoAges(st, st)
BY DEF RepoAges

\* A stone is inserted.
RepoGrown(st, stone, new) ==
  /\ new \in Seq(RepoRow) /\ RepoAges(st, new)
  /\ Len(st) \in Nat /\ DOMAIN st = 1..Len(st) /\ DOMAIN new = 1..(Len(st) + 1)
  /\ new[Len(st) + 1] = stone /\ \A s \in DOMAIN st : new[s] = st[s]

\* What is inserted comes after what is there, and changes none of it.
LEMMA RepoAgesByInsert ==
  ASSUME NEW st \in Seq(RepoRow), NEW stone \in RepoRow
  PROVE  RepoGrown(st, stone, Append(st, stone))
<1>0. PICK new : new = Append(st, stone)
  OBVIOUS
<1>1. PICK n \in Nat : n = Len(st) /\ DOMAIN st = 1..n
  OBVIOUS
<1>2. new \in Seq(RepoRow) /\ Len(new) = n + 1 /\ DOMAIN new = 1..(n + 1)
  BY <1>0, <1>1
<1>3. new[n + 1] = stone /\ \A s \in 1..n : new[s] = st[s]
  BY <1>0, <1>1
<1>4. \A s \in 1..n : s \in 1..(n + 1)
  OBVIOUS
<1>5. RepoAges(st, new)
  BY <1>1, <1>2, <1>3, <1>4 DEF RepoAges
<1>6. RepoGrown(st, stone, new)
  BY <1>1, <1>2, <1>3, <1>5 DEF RepoGrown
<1>7. QED
  BY <1>0, <1>6

\* A stone is made whole.
RepoMade(st, k, new) ==
  /\ new \in Seq(RepoRow) /\ RepoAges(st, new) /\ DOMAIN new = DOMAIN st
  /\ new[k].whole /\ \A s \in DOMAIN st : s # k => new[s] = st[s]

\* The refs of a stone make it whole, and change nothing else.
LEMMA RepoAgesByRefs ==
  ASSUME NEW st \in Seq(RepoRow), NEW k \in DOMAIN st
  PROVE  RepoMade(st, k, [st EXCEPT ![k].whole = TRUE])
<1>0. PICK new : new = [st EXCEPT ![k].whole = TRUE]
  OBVIOUS
<1>1. PICK any : any = [st[k] EXCEPT !.whole = TRUE]
  OBVIOUS
<1>2. st[k] \in RepoRow
  OBVIOUS
<1>3. /\ any \in RepoRow /\ any.whole /\ any.kind = st[k].kind
      /\ st[k].kind = "file" => any.path = st[k].path /\ any.sha = st[k].sha /\
           any.text = st[k].text
  BY <1>1, <1>2 DEF RepoRow, RepoAbout
<1>4. new = [st EXCEPT ![k] = any]
  BY <1>0, <1>1
<1>5. new \in Seq(RepoRow) /\ Len(new) = Len(st) /\ DOMAIN new = DOMAIN st
  <2>1. PICK n \in Nat : n = Len(st) /\ DOMAIN st = 1..n /\ st \in [1..n -> RepoRow]
    OBVIOUS
  <2>2. any \in RepoRow
    BY <1>3
  <2>3. [st EXCEPT ![k] = any] \in [1..n -> RepoRow]
    BY <2>1, <2>2
  <2>4. PICK r : r = [st EXCEPT ![k] = any]
    OBVIOUS
  <2>5. r \in Seq(RepoRow) /\ Len(r) = n /\ DOMAIN r = 1..n
    BY ONLY <2>3, <2>4, n \in Nat
  <2>6. QED
    BY ONLY <2>1, <2>4, <2>5, <1>4
<1>6. new[k] = any /\ \A s \in DOMAIN st : s # k => new[s] = st[s]
  BY <1>4
<1>7. RepoAges(st, new)
  BY <1>3, <1>5, <1>6 DEF RepoAges
<1>8. RepoMade(st, k, new)
  BY <1>3, <1>5, <1>6, <1>7 DEF RepoMade
<1>9. QED
  BY <1>0, <1>8

(* Heads and edges *)

RepoYounger(st, old, new) ==
  /\ old < new
  /\ \/ st[old].kind = "file" /\ st[new].kind = "file" /\ st[old].path = st[new].path
     \/ st[old].kind \in {"orientation", "note"} /\ st[new].kind = "orientation"
RepoJoins(st, from, to, type) ==
  from \in DOMAIN st /\ to \in DOMAIN st /\ (type = "supersedes" => RepoYounger(st, to, from))

RepoHeadsOK(st, ph, ch) ==
  /\ ph \in [Repo!Paths -> Nat]
  /\ \A p \in Repo!Paths : ph[p] # 0 => RepoIsFile(st, ph[p], p)
  /\ RepoIsHead(st, ch) /\ st[ch].whole
RepoEdgesOK(st, ed) == \A e \in ed : RepoJoins(st, e.from, e.to, e.type)

\* Files, heads and what joins two stones stay what they are as the chain ages.
LEMMA RepoAgedFile ==
  ASSUME NEW st, NEW new, RepoAges(st, new)
  PROVE  \A s, p : RepoIsFile(st, s, p) => RepoIsFile(new, s, p)
BY DEF RepoAges, RepoIsFile
LEMMA RepoAgedHead ==
  ASSUME NEW st, NEW new, RepoAges(st, new)
  PROVE  \A s : RepoIsHead(st, s) => RepoIsHead(new, s)
BY DEF RepoAges, RepoIsHead
LEMMA RepoAgedJoin ==
  ASSUME NEW st, NEW new, RepoAges(st, new)
  PROVE  \A from, to, type : RepoJoins(st, from, to, type) => RepoJoins(new, from, to, type)
BY DEF RepoAges, RepoJoins, RepoYounger
\* So heads and edges that were right stay right.
LEMMA RepoAgedTables ==
  ASSUME NEW st, NEW new, RepoAges(st, new), NEW ph, NEW ch, NEW ed
  PROVE  /\ RepoHeadsOK(st, ph, ch) => RepoHeadsOK(new, ph, ch)
         /\ RepoEdgesOK(st, ed) => RepoEdgesOK(new, ed)
<1>1. RepoHeadsOK(st, ph, ch) => RepoHeadsOK(new, ph, ch)
  <2>1. \A s, p : RepoIsFile(st, s, p) => RepoIsFile(new, s, p)
    BY RepoAgedFile
  <2>2. \A s : RepoIsHead(st, s) /\ st[s].whole => RepoIsHead(new, s) /\ new[s].whole
    BY DEF RepoAges, RepoIsHead
  <2>3. QED
    BY <2>1, <2>2 DEF RepoHeadsOK
<1>2. RepoEdgesOK(st, ed) => RepoEdgesOK(new, ed)
  BY RepoAgedJoin DEF RepoEdgesOK
<1>3. QED
  BY <1>1, <1>2

(* An ingestion *)

RepoLinkRow == [to : Nat, type : {"supersedes", "documents", "reviews"}]
RepoNexts   == {"files", "architecture", "lint", "review", "finish"}
RepoApart   == {"architecture", "lint", "review"}
RepoFull == [stage : {"refs", "links", "chain head"} \cup RepoNexts,
             ask : Ingestion, alone : BOOLEAN, prior : [Repo!Paths -> Nat], previous : Nat,
             tree : [Repo!Paths -> RepoBlob], todo : Seq(Repo!Paths), created :
               SUBSET Nat, reused : SUBSET Nat,
             failed : SUBSET Repo!Paths, accepted : SUBSET Nat, stone : Nat, links :
               Seq(RepoLinkRow),
             next : RepoNexts \cup {""}, orientation : Nat]

\* What was superseded is known since before the tree was read.
RepoPriorOK(st, prior, previous) ==
  /\ prior \in [Repo!Paths -> Nat]
  /\ \A p \in Repo!Paths : prior[p] # 0 => RepoIsFile(st, prior[p], p)
  /\ RepoIsHead(st, previous)

RepoFiling(st, j) == \/ j.stage = "files"
                     \/ j.stage = "refs" /\ st[j.stone].kind = "file"
                     \/ j.stage = "links" /\ j.next = "files"
RepoSettled(st, j) == \/ j.stage \in RepoApart \cup {"finish"}
                      \/ j.stage = "refs" /\ st[j.stone].kind \in RepoApart
                      \/ j.stage = "links" /\ j.next \in {"lint", "review", "finish"}
RepoHeading(j) == j.stage = "links" /\ j.next = "architecture"

\* Each file that is asked for is to come, could not be fetched, or has a stone
\* of the blob in the tree.
RepoFilesOK(st, j) ==
  /\ j.created \subseteq 1..MaxStones
  /\ \A s \in Repo!Current(j) : /\ s \in DOMAIN st /\ st[s].kind = "file"
                                /\ st[s].path \in Repo!Paths
                                /\ st[s].sha = j.tree[st[s].path]
  /\ \A s \in j.reused : \E i \in DOMAIN Path : s = j.prior[Path[i]]
  /\ \A p \in RepoRng(Repo!Candidates(j.ask, j.tree)) :
       p \in RepoRng(j.todo) \/ p \in j.failed \/ \E s \in Repo!Current(j) : st[s].path = p

RepoAcceptedOK(st, ph, j) ==
  /\ j.accepted \subseteq Repo!Current(j)
  /\ RepoFiling(st, j) \/ (j.todo = <<>> /\ j.accepted = Repo!Current(j))
  /\ j.alone => \A s \in j.accepted : ph[st[s].path] \in j.accepted

RepoDocumented(ed, j, s) == [from |-> j.orientation, to |-> s, type |-> "documents"] \in ed

RepoRefsOK(st, j) == j.stage = "refs" =>
  /\ j.stone \in DOMAIN st /\ j.stone <= MaxStones /\
       st[j.stone].kind \in {"file", "orientation"} \cup RepoApart
  /\ st[j.stone].kind = "file" =>
       /\ j.todo # <<>> /\ st[j.stone].path = Head(j.todo)
       /\ st[j.stone].sha = j.tree[Head(j.todo)] /\ j.prior[Head(j.todo)] < j.stone
  /\ st[j.stone].kind = "orientation" => j.ask.orient /\ j.previous < j.stone

RepoOrientOK(st, ch, j) ==
  /\ j.orientation # 0 => /\ j.orientation \in DOMAIN st
                          /\ st[j.orientation].kind = "orientation" /\ st[j.orientation].whole
  /\ j.stage = "chain head" => /\ j.ask.orient /\ j.orientation = j.stone /\ j.orientation # 0
                               /\ j.previous < j.stone
  /\ RepoHeading(j) => j.ask.orient /\ j.stone = j.orientation
  /\ RepoSettled(st, j) \/ RepoHeading(j) =>
       (j.alone /\ j.ask.orient /\ j.ask.head => ch = j.orientation)

RepoLinksOK(st, ed, j) ==
  /\ j.stage = "links" => /\ j.links # <<>> /\ j.next \in RepoNexts
                          /\ \A l \in RepoRng(j.links) : RepoJoins(st, j.stone, l.to, l.type)
  /\ RepoHeading(j) /\ j.ask.link => \A s \in Repo!Current(j) :
       RepoDocumented(ed, j, s) \/ [to |-> s, type |-> "documents"] \in RepoRng(j.links)
  /\ RepoSettled(st, j) /\ j.ask.orient /\ j.ask.link =>
       \A s \in Repo!Current(j) : RepoDocumented(ed, j, s)

RepoFullOK(st, ph, ch, ed, j) ==
  /\ j \in RepoFull /\ RepoPriorOK(st, j.prior, j.previous)
  /\ RepoFilesOK(st, j) /\ RepoAcceptedOK(st, ph, j) /\ RepoRefsOK(st, j) /\ RepoOrientOK(st, ch, j)
  /\ RepoLinksOK(st, ed, j)

RepoEarlyOK(st, j) ==
  \/ j \in [stage : {"head"}, ask : Ingestion, alone : BOOLEAN]
  \/ j \in [stage : {"index"}, ask : Ingestion, alone : BOOLEAN, head : Nat] /\ RepoIsHead(st, j.head)
  \/ /\ j \in [stage : {"tree"}, ask : Ingestion, alone : BOOLEAN,
               prior : [Repo!Paths -> Nat], previous : Nat]
     /\ RepoPriorOK(st, j.prior, j.previous)

RepoJobOK(st, ph, ch, ed, j) == j = Repo!Idle \/ RepoEarlyOK(st, j) \/ RepoFullOK(st, ph, ch, ed, j)

\* What was read of the chain stays true of it.
LEMMA RepoAgedPrior ==
  ASSUME NEW st, NEW new, RepoAges(st, new), NEW prior, NEW previous,
         RepoPriorOK(st, prior, previous)
  PROVE  RepoPriorOK(new, prior, previous)
BY RepoAgedFile, RepoAgedHead DEF RepoPriorOK

LEMMA RepoAgedEarly ==
  ASSUME NEW st, NEW new, RepoAges(st, new), NEW j, RepoEarlyOK(st, j)
  PROVE  RepoEarlyOK(new, j)
BY RepoAgedHead, RepoAgedPrior DEF RepoEarlyOK

\* What an ingestion knows stays, whatever the others do.
LEMMA RepoAgedFull ==
  ASSUME NEW st, NEW new, RepoAges(st, new), NEW ed, NEW more, ed \subseteq more,
         NEW ph, NEW ph2, NEW ch, NEW ch2, NEW j, RepoFullOK(st, ph, ch, ed, j),
         j.alone => ph2 = ph /\ ch2 = ch
  PROVE  RepoFullOK(new, ph2, ch2, more, j)
<1>1. j \in RepoFull /\ RepoPriorOK(new, j.prior, j.previous)
  BY RepoAgedPrior DEF RepoFullOK
<1>2. \A s \in Repo!Current(j) : s \in DOMAIN st /\ st[s].kind = "file"
  BY DEF RepoFullOK, RepoFilesOK
<1>3. \A s \in Repo!Current(j) : /\ s \in DOMAIN new /\ new[s].kind = "file"
                                 /\ new[s].path = st[s].path
                                 /\ new[s].sha = st[s].sha
  BY <1>2 DEF RepoAges
<1>4. RepoFilesOK(new, j)
  BY <1>3 DEF RepoFullOK, RepoFilesOK
<1>5. j.stage = "refs" => j.stone \in DOMAIN st
  BY DEF RepoFullOK, RepoRefsOK
<1>6. j.stage = "refs" => /\ j.stone \in DOMAIN new /\ new[j.stone].kind = st[j.stone].kind
                          /\ st[j.stone].kind = "file" => /\ new[j.stone].path = st[j.stone].path
                                                          /\ new[j.stone].sha = st[j.stone].sha
  BY <1>5 DEF RepoAges
<1>7. (RepoFiling(st, j) <=> RepoFiling(new, j)) /\ (RepoSettled(st, j) <=> RepoSettled(new, j))
  BY <1>6 DEF RepoFiling, RepoSettled
<1>8. RepoAcceptedOK(new, ph2, j)
  BY <1>3, <1>7 DEF RepoFullOK, RepoAcceptedOK
<1>9. RepoRefsOK(new, j)
  BY <1>6 DEF RepoFullOK, RepoRefsOK
<1>10. RepoOrientOK(new, ch2, j)
  BY <1>7 DEF RepoFullOK, RepoOrientOK, RepoAges
<1>11. RepoLinksOK(new, more, j)
  <2>1. \A s : RepoDocumented(ed, j, s) => RepoDocumented(more, j, s)
    BY DEF RepoDocumented
  <2>2. \A from, to, type : RepoJoins(st, from, to, type) => RepoJoins(new, from, to, type)
    BY RepoAgedJoin
  <2>3. QED
    BY <1>7, <2>1, <2>2 DEF RepoFullOK, RepoLinksOK
<1>12. QED
  BY <1>1, <1>4, <1>8, <1>9, <1>10, <1>11 DEF RepoFullOK

(* The lists of a request *)

RepoTypes == {"supersedes", "documents", "reviews"}

\* A list is its head and its tail.
LEMMA RepoHeadTail ==
  ASSUME NEW S, NEW seq \in Seq(S), seq # <<>>
  PROVE  /\ Head(seq) \in S /\ Tail(seq) \in Seq(S)
         /\ RepoRng(seq) = {Head(seq)} \cup RepoRng(Tail(seq))
<1>1. PICK n \in Nat : n = Len(seq) /\ DOMAIN seq = 1..n /\ n # 0
  OBVIOUS
<1>2. Head(seq) = seq[1] /\ Head(seq) \in S /\ 1 \in 1..n
  BY <1>1
<1>3. PICK t \in Seq(S) : t = Tail(seq)
  BY HeadTailProperties
<1>4. Len(t) = n - 1 /\ DOMAIN t = 1..(n - 1) /\ \A k \in 1..(n - 1) : t[k] = seq[k + 1]
  <2>1. Len(t) = Len(seq) - 1 /\ \A k \in 1..Len(t) : t[k] = seq[k + 1]
    BY <1>3, HeadTailProperties
  <2>2. DOMAIN t = 1..Len(t)
    OBVIOUS
  <2>3. QED
    BY <1>1, <2>1, <2>2
<1>5. \A i \in 1..n : i = 1 \/ (i - 1 \in 1..(n - 1) /\ i - 1 + 1 = i)
  OBVIOUS
<1>6. \A k \in 1..(n - 1) : k + 1 \in 1..n
  OBVIOUS
<1>7. \A i \in 1..n : i = 1 \/ (i - 1 \in 1..(n - 1) /\ t[i - 1] = seq[i])
  BY ONLY <1>4, <1>5, n \in Nat
<1>8. RepoRng(seq) = {seq[1]} \cup RepoRng(t)
  <2>1. RepoRng(seq) = {seq[i] : i \in 1..n}
    BY <1>1 DEF RepoRng
  <2>2. RepoRng(t) = {t[i] : i \in 1..(n - 1)}
    BY <1>4 DEF RepoRng
  <2>3. \A x \in {seq[i] : i \in 1..n} : x = seq[1] \/ x \in {t[i] : i \in 1..(n - 1)}
    BY ONLY <1>7
  <2>4. \A x \in {t[i] : i \in 1..(n - 1)} : x \in {seq[i] : i \in 1..n}
    BY ONLY <1>4, <1>6
  <2>5. seq[1] \in {seq[i] : i \in 1..n}
    BY ONLY <1>2
  <2>6. QED
    BY ONLY <2>1, <2>2, <2>3, <2>4, <2>5
<1>9. QED
  BY <1>2, <1>3, <1>8

\* The links of a list name what is in it.
LEMMA RepoLinksAre ==
  ASSUME NEW seq \in Seq(Nat), NEW type \in RepoTypes
  PROVE  /\ Repo!Links(seq, type) \in Seq(RepoLinkRow)
         /\ RepoRng(Repo!Links(seq, type)) = {[to |-> x, type |-> type] : x \in RepoRng(seq)}
<1>1. PICK n \in Nat : n = Len(seq) /\ DOMAIN seq = 1..n
  OBVIOUS
<1>2. \A i \in 1..n : [to |-> seq[i], type |-> type] \in RepoLinkRow
  BY <1>1 DEF RepoLinkRow, RepoTypes
<1>3. PICK s : s = [i \in 1..n |-> [to |-> seq[i], type |-> type]]
  OBVIOUS
<1>4. s \in Seq(RepoLinkRow)
  BY ONLY <1>2, <1>3, n \in Nat
<1>5. RepoRng(s) = {[to |-> x, type |-> type] : x \in RepoRng(seq)}
  BY <1>1, <1>3 DEF RepoRng
<1>6. QED
  BY <1>1, <1>3, <1>4, <1>5 DEF Repo!Links

LEMMA RepoNoneIn == RepoRng(<<>>) = {} /\ \A S : <<>> \in Seq(S)
BY DEF RepoRng

\* The lists an ingestion makes of its sets hold just those sets.
LEMMA RepoInOrderIs ==
  ASSUME RepositoryIsListed, NEW S \in SUBSET (1..MaxStones)
  PROVE  Repo!InOrder(S) \in Seq(Nat) /\ RepoRng(Repo!InOrder(S)) = S
<1>1. PICK n \in Nat : n = MaxStones
  BY DEF RepositoryIsListed
<1>2. PICK seq : seq = [i \in 1..n |-> i]
  OBVIOUS
<1>3. seq \in Seq(Nat) /\ DOMAIN seq = 1..n /\ \A i \in 1..n : seq[i] = i
  BY <1>2
<1>4. S \in SUBSET DOMAIN seq
  BY <1>1, <1>3
<1>5. Repo!InOrder(S) = Repo!Chosen(seq, S)
  BY <1>1, <1>2 DEF Repo!InOrder
<1>9. seq \in Seq(Nat)
  BY <1>3
<1>6. Repo!Chosen(seq, S) \in Seq(Nat) /\ RepoRng(Repo!Chosen(seq, S)) = {seq[i] : i \in S}
  BY ONLY <1>9, <1>4, RepoChosenInOrder
<1>7. {seq[i] : i \in S} = S
  BY <1>1, <1>3
<1>8. QED
  BY <1>5, <1>6, <1>7

\* Only files that are there are candidates.
LEMMA RepoCandidatesAre ==
  ASSUME RepositoryIsListed, NEW ask \in Ingestion, NEW tree
  PROVE  /\ Repo!Candidates(ask, tree) \in Seq(Repo!Paths)
         /\ \A p \in RepoRng(Repo!Candidates(ask, tree)) : p \in Repo!Paths /\ tree[p] # Repo!Absent
<1>1. Path \in Seq(Repo!Paths)
  BY DEF RepositoryIsListed, Repo!Paths
<1>2. PICK at : at = {i \in DOMAIN Path : Path[i] \in ask.include /\ tree[Path[i]] # Repo!Absent}
  OBVIOUS
<1>3. at \in SUBSET DOMAIN Path
  BY <1>2
<1>4. PICK all : all = Repo!Chosen(Path, at)
  OBVIOUS
<1>5. all \in Seq(Repo!Paths) /\ RepoRng(all) = {Path[i] : i \in at}
  BY <1>1, <1>3, <1>4, RepoChosenInOrder
<1>6. Repo!Candidates(ask, tree) = Repo!First(ask.most, all) /\ ask.most \in Nat
  BY <1>2, <1>4 DEF Repo!Candidates, RepositoryIsListed
<1>7. Repo!First(ask.most, all) \in Seq(Repo!Paths) /\
        RepoRng(Repo!First(ask.most, all)) \subseteq RepoRng(all)
  BY <1>5, <1>6, RepoFirstIs
<1>8. \A i \in at : Path[i] \in Repo!Paths /\ tree[Path[i]] # Repo!Absent
  BY <1>2 DEF Repo!Paths
<1>9. QED
  BY <1>5, <1>6, <1>7, <1>8

RepoListed(j) ==
  /\ j.created \subseteq 1..MaxStones /\ j.prior \in [Repo!Paths -> Nat]
  /\ \A s \in j.reused : \E i \in DOMAIN Path : s = j.prior[Path[i]]

\* The current files are those created or reused.
LEMMA RepoCurrentFilesAre ==
  ASSUME RepositoryIsListed, NEW j, RepoListed(j)
  PROVE  Repo!CurrentFiles(j) \in Seq(Nat) /\ RepoRng(Repo!CurrentFiles(j)) = Repo!Current(j)
<1>1. PICK a : a = Repo!InOrder(j.created)
  OBVIOUS
<1>2. a \in Seq(Nat) /\ RepoRng(a) = j.created
  <2>1. j.created \in SUBSET (1..MaxStones)
    BY DEF RepoListed
  <2>2. QED
    BY <1>1, <2>1, RepoInOrderIs
<1>3. PICK n \in Nat : DOMAIN Path = 1..n
  BY DEF RepositoryIsListed
<1>4. PICK seq : seq = [i \in DOMAIN Path |-> j.prior[Path[i]]]
  OBVIOUS
<1>5. seq \in Seq(Nat) /\ DOMAIN seq = DOMAIN Path /\
        \A i \in DOMAIN Path : seq[i] = j.prior[Path[i]]
  <2>1. \A i \in 1..n : j.prior[Path[i]] \in Nat
    BY <1>3 DEF RepoListed, Repo!Paths
  <2>2. seq = [i \in 1..n |-> j.prior[Path[i]]]
    BY <1>3, <1>4
  <2>3. seq \in Seq(Nat)
    BY ONLY <2>1, <2>2, n \in Nat
  <2>4. QED
    BY <1>4, <2>3
<1>6. PICK at : at = {i \in DOMAIN Path : j.prior[Path[i]] \in j.reused}
  OBVIOUS
<1>7. PICK b : b = Repo!Chosen(seq, at)
  OBVIOUS
<1>8. at \in SUBSET DOMAIN seq
  BY <1>5, <1>6
<1>9. b \in Seq(Nat) /\ RepoRng(b) = {seq[i] : i \in at}
  BY <1>5, <1>7, <1>8, RepoChosenInOrder
<1>10. {seq[i] : i \in at} = j.reused
  BY <1>5, <1>6 DEF RepoListed
<1>11. Repo!CurrentFiles(j) = a \o b
  BY <1>1, <1>4, <1>6, <1>7 DEF Repo!CurrentFiles
<1>12. a \o b \in Seq(Nat) /\ RepoRng(a \o b) = RepoRng(a) \cup RepoRng(b)
  BY <1>2, <1>9, RepoJoined
<1>13. QED
  BY <1>2, <1>9, <1>10, <1>11, <1>12 DEF Repo!Current

\* Only files that were created are reviewed.
LEMMA RepoReviewedAre ==
  ASSUME RepositoryIsListed, NEW j, RepoListed(j)
  PROVE  Repo!Reviewed(j) \in Seq(Nat) /\ RepoRng(Repo!Reviewed(j)) \subseteq j.created
<1>1. PICK a : a = Repo!InOrder(j.created)
  OBVIOUS
<1>2. a \in Seq(Nat) /\ RepoRng(a) = j.created
  <2>1. j.created \in SUBSET (1..MaxStones)
    BY DEF RepoListed
  <2>2. QED
    BY <1>1, <2>1, RepoInOrderIs
<1>3. PICK e : e = Repo!First(MaxExamined, a)
  OBVIOUS
<1>4. e \in Seq(Nat) /\ RepoRng(e) \subseteq RepoRng(a)
  BY <1>2, <1>3, RepoFirstIs DEF RepositoryIsListed
<1>5. PICK at : at = {i \in DOMAIN e : chain[e[i]].text \in Noted}
  OBVIOUS
<1>6. PICK b : b = Repo!Chosen(e, at)
  OBVIOUS
<1>7. at \in SUBSET DOMAIN e
  BY <1>5
<1>8. b \in Seq(Nat) /\ RepoRng(b) = {e[i] : i \in at}
  BY <1>4, <1>6, <1>7, RepoChosenInOrder
<1>9. {e[i] : i \in at} \subseteq RepoRng(e)
  BY <1>7 DEF RepoRng
<1>10. Repo!Reviewed(j) = Repo!First(MaxReviewed, b)
  BY <1>1, <1>3, <1>5, <1>6 DEF Repo!Reviewed
<1>11. Repo!First(MaxReviewed, b) \in Seq(Nat) /\
         RepoRng(Repo!First(MaxReviewed, b)) \subseteq RepoRng(b)
  BY <1>8, RepoFirstIs DEF RepositoryIsListed
<1>12. QED
  BY <1>2, <1>4, <1>8, <1>9, <1>10, <1>11

(* The inductive invariant *)

RepoWholeOK(st, jb, ct) ==
  \A s \in DOMAIN st : \/ st[s].whole \/ s \in ct
                       \/ \E c \in Client : jb[c].stage = "refs" /\ jb[c].stone = s

\* While the branch stays, what is fetched is what the tree names.
RepoCalmOK(br, st, jb, cm) ==
  /\ br \in [Repo!Paths -> RepoBlob] /\ cm \in BOOLEAN
  /\ cm => /\ \A s \in DOMAIN st : st[s].kind = "file" => st[s].text = st[s].sha
           /\ \A c \in Client : jb[c] \in RepoFull => jb[c].tree = br

RepoJobsOK(st, ph, ch, ed, jb) ==
  /\ jb = [c \in Client |-> jb[c]]
  /\ \A c \in Client : RepoJobOK(st, ph, ch, ed, jb[c])
  /\ \A c, d \in Client : c # d /\ jb[c] # Repo!Idle /\ jb[d] # Repo!Idle => ~jb[c].alone

RepoBrought(st, ph, o) ==
  \A p \in Repo!Wanted(o) : p \in Repo!Paths /\ ph[p] # 0 /\ st[ph[p]].sha = o.tree[p] /\
    o.tree[p] # Repo!Absent

RepoEndedWith(st, ph, ch, ed, o) ==
  /\ RepoBrought(st, ph, o)
  /\ \A p \in Repo!Wanted(o) : o.ask.orient /\ o.ask.link => RepoDocumented(ed, o, ph[p])
  /\ o.ask.orient /\ o.ask.head => ch = o.orientation

RepoLastOK(st, ph, ch, ed, jb, ls) ==
  \/ ls = Repo!Nothing
  \/ /\ ls = [ended |-> TRUE, of |-> ls.of]
     /\ \A c \in Client : jb[c] = Repo!Idle
     /\ RepoEndedWith(st, ph, ch, ed, ls.of)

RepoShown(st, h, paths) == h \in st /\ \A p \in Repo!Paths : paths[p] \in st \cup {0}

RepoViewOK(st, vw) ==
  /\ vw.stage = "observe" =>
       /\ \A p \in Repo!Paths : vw.accepted[p] # 0 => RepoIsFile(st, vw.accepted[p], p)
       /\ vw.last.ended => RepoBrought(st, vw.accepted, vw.last.of)
  /\ vw.stage = "reconciled" => \A p \in vw.after : vw.drift[p] = "in_sync"
  /\ vw.stage = "path heads" => vw.head \in DOMAIN st
  /\ vw.stage = "nodes" => RepoShown(DOMAIN st, vw.head, vw.paths)
  /\ vw.stage \in {"edges", "shown"} => RepoShown(vw.nodes, vw.head, vw.paths)

RepoTablesOK(st, ph, ch, ed) == st \in Seq(RepoRow) /\ RepoHeadsOK(st, ph, ch) /\
  RepoEdgesOK(st, ed)

\* The chain, its heads and edges; what every ingestion knows of them; what the
\* last one left, and what a reader has seen.
RepoStateOK(br, st, ph, ch, ed, jb, vw, ls, cm, ct) ==
  /\ RepoTablesOK(st, ph, ch, ed) /\ RepoJobsOK(st, ph, ch, ed, jb) /\ RepoWholeOK(st, jb, ct)
  /\ RepoCalmOK(br, st, jb, cm) /\ RepoLastOK(st, ph, ch, ed, jb, ls) /\ RepoViewOK(st, vw)

RepoIInv == RepoStateOK(branch, chain, pathHeads, chainHead, edges, ingestion, view, latest, calm, cut)

(* One ingestion goes on *)

\* What a reader has seen stays right as the chain ages.
LEMMA RepoAgedView ==
  ASSUME NEW st, NEW new, RepoAges(st, new), NEW vw, RepoViewOK(st, vw)
  PROVE  RepoViewOK(new, vw)
<1>1. DOMAIN st \subseteq DOMAIN new
  BY DEF RepoAges
<1>2. \A s, p : RepoIsFile(st, s, p) => RepoIsFile(new, s, p) /\ new[s].sha = st[s].sha
  BY DEF RepoAges, RepoIsFile
<1>3. vw.stage = "observe" => \A p \in Repo!Paths : vw.accepted[p] # 0 =>
        RepoIsFile(st, vw.accepted[p], p)
  BY DEF RepoViewOK
<1>4. vw.stage = "observe" /\ RepoBrought(st, vw.accepted, vw.last.of) =>
        RepoBrought(new, vw.accepted, vw.last.of)
  BY <1>2, <1>3 DEF RepoBrought
<1>5. \A h, paths : RepoShown(DOMAIN st, h, paths) => RepoShown(DOMAIN new, h, paths)
  BY <1>1 DEF RepoShown
<1>6. QED
  BY <1>1, <1>2, <1>3, <1>4, <1>5 DEF RepoViewOK

\* A step of the ingestion j that c runs, and what it leaves.
RepoGoes(br, st, ed, jb, cm, ct, c, new, ph2, ch2, more, j) ==
  /\ c \in Client /\ jb[c] # Repo!Idle /\ j # Repo!Idle /\ j.alone = jb[c].alone
  /\ RepoAges(st, new) /\ ed \subseteq more /\ RepoTablesOK(new, ph2, ch2, more)
  /\ RepoJobOK(new, ph2, ch2, more, j)
  /\ cm => /\ j \in RepoFull => j.tree = br
           /\ \A s \in DOMAIN new : new[s].kind = "file" => new[s].text = new[s].sha
  /\ RepoWholeOK(new, [jb EXCEPT ![c] = j], ct)

\* Who has a request that goes on, and leaves the tables right, leaves everybody
\* else what they know.
LEMMA RepoJobStep ==
  ASSUME NEW br, NEW st, NEW ph, NEW ch, NEW ed, NEW jb, NEW vw, NEW ls, NEW cm, NEW ct,
         RepoStateOK(br, st, ph, ch, ed, jb, vw, ls, cm, ct),
         NEW c, NEW new, NEW ph2, NEW ch2, NEW more, NEW j,
         RepoGoes(br, st, ed, jb, cm, ct, c, new, ph2, ch2, more, j)
  PROVE  RepoStateOK(br, new, ph2, ch2, more, [jb EXCEPT ![c] = j], vw, ls, cm, ct)
<1>1. c \in Client /\ jb[c] # Repo!Idle /\ j # Repo!Idle /\ j.alone = jb[c].alone
  BY DEF RepoGoes
<1>2. PICK jb2 : jb2 = [jb EXCEPT ![c] = j]
  OBVIOUS
<1>3. jb = [d \in Client |-> jb[d]]
  BY DEF RepoStateOK, RepoJobsOK
<1>4. jb2 = [d \in Client |-> jb2[d]] /\ jb2[c] = j /\ \A d \in Client : d # c => jb2[d] = jb[d]
  BY <1>1, <1>2, <1>3
<1>5. RepoJobsOK(new, ph2, ch2, more, jb2)
  <2>1. \A d \in Client : d # c => RepoJobOK(new, ph2, ch2, more, jb2[d])
    <3>1. SUFFICES ASSUME NEW d \in Client, d # c PROVE RepoJobOK(new, ph2, ch2, more, jb2[d])
      OBVIOUS
    <3>2. RepoJobOK(st, ph, ch, ed, jb[d]) /\ jb2[d] = jb[d] /\ RepoAges(st, new) /\
            ed \subseteq more
      BY <1>4, <3>1 DEF RepoStateOK, RepoJobsOK, RepoGoes
    <3>3. CASE jb[d] = Repo!Idle
      BY <3>2, <3>3 DEF RepoJobOK
    <3>4. CASE jb[d] # Repo!Idle /\ RepoEarlyOK(st, jb[d])
      BY <3>2, <3>4, RepoAgedEarly DEF RepoJobOK
    <3>5. CASE jb[d] # Repo!Idle /\ RepoFullOK(st, ph, ch, ed, jb[d])
      <4>1. ~jb[d].alone
        BY <1>1, <3>1, <3>5 DEF RepoStateOK, RepoJobsOK
      <4>2. RepoFullOK(new, ph2, ch2, more, jb[d])
        BY <3>2, <3>5, <4>1, RepoAgedFull
      <4>3. QED
        BY <3>2, <4>2 DEF RepoJobOK
    <3>6. QED
      BY <3>2, <3>3, <3>4, <3>5 DEF RepoJobOK
  <2>2. RepoJobOK(new, ph2, ch2, more, jb2[c])
    BY <1>4 DEF RepoGoes
  <2>3. \A d, e \in Client : d # e /\ jb2[d] # Repo!Idle /\ jb2[e] # Repo!Idle => ~jb2[d].alone
    <3>1. \A d, e \in Client : d # e /\ jb[d] # Repo!Idle /\ jb[e] # Repo!Idle => ~jb[d].alone
      BY DEF RepoStateOK, RepoJobsOK
    <3>2. \A d \in Client : (jb2[d] # Repo!Idle <=> jb[d] # Repo!Idle) /\
            (jb[d] # Repo!Idle => jb2[d].alone = jb[d].alone)
      BY <1>1, <1>4
    <3>3. QED
      BY <3>1, <3>2
  <2>4. QED
    BY <1>4, <2>1, <2>2, <2>3 DEF RepoJobsOK
<1>6. RepoCalmOK(br, new, jb2, cm)
  <2>1. RepoCalmOK(br, st, jb, cm)
    BY DEF RepoStateOK
  <2>2. cm => \A d \in Client : jb2[d] \in RepoFull => jb2[d].tree = br
    BY <1>4, <2>1 DEF RepoCalmOK, RepoGoes
  <2>3. cm => \A s \in DOMAIN new : new[s].kind = "file" => new[s].text = new[s].sha
    BY DEF RepoGoes
  <2>4. QED
    BY <2>1, <2>2, <2>3 DEF RepoCalmOK
<1>7. ls = Repo!Nothing
  BY <1>1 DEF RepoStateOK, RepoLastOK
<1>8. RepoViewOK(new, vw)
  BY RepoAgedView DEF RepoStateOK, RepoGoes
<1>9. RepoTablesOK(new, ph2, ch2, more) /\ RepoWholeOK(new, jb2, ct)
  BY <1>2 DEF RepoGoes
<1>10. QED
  BY <1>2, <1>5, <1>6, <1>7, <1>8, <1>9 DEF RepoStateOK, RepoLastOK

\* No stone is written.
LEMMA RepoPlainStep ==
  ASSUME NEW br, NEW st, NEW ph, NEW ch, NEW ed, NEW jb, NEW vw, NEW ls, NEW cm, NEW ct,
         RepoStateOK(br, st, ph, ch, ed, jb, vw, ls, cm, ct),
         NEW c \in Client, jb[c] # Repo!Idle, jb[c].stage # "refs",
         NEW ph2, NEW ch2, NEW more, ed \subseteq more, RepoHeadsOK(st, ph2, ch2),
         RepoEdgesOK(st, more),
         NEW j, j # Repo!Idle, j.alone = jb[c].alone, RepoJobOK(st, ph2, ch2, more, j),
         cm /\ j \in RepoFull => j.tree = br
  PROVE  RepoStateOK(br, st, ph2, ch2, more, [jb EXCEPT ![c] = j], vw, ls, cm, ct)
<1>1. st \in Seq(RepoRow) /\ RepoTablesOK(st, ph2, ch2, more)
  BY DEF RepoStateOK, RepoTablesOK
<1>2. RepoAges(st, st)
  BY <1>1, RepoSameAge
<1>3. cm => \A s \in DOMAIN st : st[s].kind = "file" => st[s].text = st[s].sha
  BY DEF RepoStateOK, RepoCalmOK
<1>4. PICK jb2 : jb2 = [jb EXCEPT ![c] = j]
  OBVIOUS
<1>5. \A d \in Client : jb[d].stage = "refs" => jb2[d] = jb[d]
  BY <1>4 DEF RepoStateOK, RepoJobsOK
<1>6. RepoWholeOK(st, jb2, ct)
  <2>1. RepoWholeOK(st, jb, ct)
    BY DEF RepoStateOK
  <2>2. QED
    BY <1>5, <2>1 DEF RepoWholeOK
<1>7. RepoGoes(br, st, ed, jb, cm, ct, c, st, ph2, ch2, more, j)
  BY <1>1, <1>2, <1>3, <1>4, <1>6 DEF RepoGoes
<1>8. QED
  BY <1>7, RepoJobStep

(* From stage to stage *)

\* What does not change with the stage.
RepoSame(j, k) ==
  /\ k.ask = j.ask /\ k.alone = j.alone /\ k.prior = j.prior /\ k.previous = j.previous
  /\ k.tree = j.tree /\ k.todo = j.todo /\ k.created = j.created /\ k.reused = j.reused
  /\ k.failed = j.failed /\ k.accepted = j.accepted /\ k.orientation = j.orientation

\* A request that goes on with the same sets knows what it knew.
LEMMA RepoMoved ==
  ASSUME NEW st, NEW ph, NEW ch, NEW ed, NEW j, RepoFullOK(st, ph, ch, ed, j), NEW k \in RepoFull,
         RepoSame(j, k),
         RepoFiling(st, k) \/ (j.todo = <<>> /\ j.accepted = Repo!Current(j)),
         RepoRefsOK(st, k), RepoOrientOK(st, ch, k), RepoLinksOK(st, ed, k)
  PROVE  RepoFullOK(st, ph, ch, ed, k)
<1>1. Repo!Current(k) = Repo!Current(j)
  BY DEF RepoSame, Repo!Current
<1>2. RepoPriorOK(st, k.prior, k.previous)
  BY DEF RepoFullOK, RepoSame
<1>3. RepoFilesOK(st, k)
  BY <1>1 DEF RepoFullOK, RepoFilesOK, RepoSame
<1>4. RepoAcceptedOK(st, ph, k)
  BY <1>1 DEF RepoFullOK, RepoAcceptedOK, RepoSame
<1>5. QED
  BY <1>2, <1>3, <1>4 DEF RepoFullOK

\* After the chain's head is set, only the stage changes.
LEMMA RepoMovedSettled ==
  ASSUME NEW st, NEW ph, NEW ch, NEW ed, NEW j, RepoFullOK(st, ph, ch, ed, j), RepoSettled(st, j),
         NEW k \in RepoFull, RepoSame(j, k), RepoSettled(st, k), RepoRefsOK(st, k),
         k.stage = "links" =>
           k.links # <<>> /\ \A l \in RepoRng(k.links) : RepoJoins(st, k.stone, l.to, l.type)
  PROVE  RepoFullOK(st, ph, ch, ed, k)
<1>1. ~RepoFiling(st, j)
  BY DEF RepoSettled, RepoFiling, RepoApart
<1>2. j.todo = <<>> /\ j.accepted = Repo!Current(j)
  BY <1>1 DEF RepoFullOK, RepoAcceptedOK
<1>3. ~RepoHeading(k) /\ k.stage # "chain head"
  BY DEF RepoSettled, RepoHeading, RepoApart
<1>4. RepoOrientOK(st, ch, k)
  BY <1>3 DEF RepoFullOK, RepoOrientOK, RepoSame
<1>5. RepoLinksOK(st, ed, k)
  <2>1. Repo!Current(k) = Repo!Current(j)
    BY DEF RepoSame, Repo!Current
  <2>2. \A s : RepoDocumented(ed, j, s) => RepoDocumented(ed, k, s)
    BY DEF RepoDocumented, RepoSame
  <2>3. k.ask = j.ask
    BY DEF RepoSame
  <2>4. k.stage = "links" => k.next \in RepoNexts
    BY DEF RepoSettled, RepoApart, RepoNexts
  <2>5. RepoSettled(st, k) /\ k.ask.orient /\ k.ask.link =>
          \A s \in Repo!Current(k) : RepoDocumented(ed, k, s)
    BY <2>1, <2>2, <2>3 DEF RepoFullOK, RepoLinksOK
  <2>6. QED
    BY <1>3, <2>4, <2>5 DEF RepoLinksOK
<1>6. QED
  BY <1>2, <1>4, <1>5, RepoMoved

\* References are made, or there are none.
LEMMA RepoLinkingIs ==
  ASSUME NEW j \in RepoFull, NEW links \in Seq(RepoLinkRow), NEW next \in RepoNexts
  PROVE  /\ Repo!Linking(j, links, next) \in RepoFull /\ RepoSame(j, Repo!Linking(j, links, next))
         /\ Repo!Linking(j, links, next).stone = j.stone
         /\ links = <<>> => Repo!Linking(j, links, next).stage = next
         /\ links # <<>> => /\ Repo!Linking(j, links, next).stage = "links"
                            /\ Repo!Linking(j, links, next).links = links
                            /\ Repo!Linking(j, links, next).next = next
<1>1. CASE links = <<>>
  <2>1. PICK k : k = [j EXCEPT !.stage = next]
    OBVIOUS
  <2>2. k \in RepoFull /\ RepoSame(j, k) /\ k.stone = j.stone /\ k.stage = next
    BY <2>1 DEF RepoFull, RepoSame
  <2>3. QED
    BY <1>1, <2>1, <2>2 DEF Repo!Linking
<1>2. CASE links # <<>>
  <2>1. PICK k : k = [j EXCEPT !.stage = "links", !.links = links, !.next = next]
    OBVIOUS
  <2>2. k \in RepoFull /\ RepoSame(j, k) /\ k.stone = j.stone /\ k.stage = "links" /\
          k.links = links /\ k.next = next
    BY <2>1 DEF RepoFull, RepoSame
  <2>3. QED
    BY <1>2, <2>1, <2>2 DEF Repo!Linking
<1>3. QED
  BY <1>1, <1>2

\* What may be inserted by an ingestion.
RepoInsertable(st, cm, j, stone) ==
  /\ stone \in RepoRow /\ ~stone.whole /\ Len(st) < MaxStones
  /\ \/ /\ j.stage = "files" /\ j.todo # <<>> /\ stone.kind = "file" /\ stone.path = Head(j.todo)
        /\ stone.sha = j.tree[Head(j.todo)] /\ (cm => stone.text = stone.sha)
     \/ /\ j.stage = "files" /\ j.todo = <<>> /\ j.accepted = Repo!Current(j)
        /\ stone.kind = "orientation" /\ j.ask.orient
     \/ j.stage \in RepoApart /\ stone.kind \in RepoApart

\* An ingestion that is to write the references of the stone that it inserted.
RepoRefers(st, j, k) == k \in RepoFull /\ RepoSame(j, k) /\ k.stage = "refs" /\
  k.stone = Len(st) + 1

\* The request that inserted a stone goes on to its refs.
LEMMA RepoRefersBy ==
  ASSUME NEW st \in Seq(RepoRow), NEW j \in RepoFull
  PROVE  RepoRefers(st, j, [j EXCEPT !.stage = "refs", !.stone = Len(st) + 1])
<1>1. PICK n \in Nat : n = Len(st) + 1
  OBVIOUS
<1>2. PICK k : k = [j EXCEPT !.stage = "refs", !.stone = n]
  OBVIOUS
<1>3. k \in RepoFull
  BY <1>2 DEF RepoFull
<1>4. RepoSame(j, k) /\ k.stage = "refs" /\ k.stone = n
  BY <1>2 DEF RepoFull, RepoSame
<1>5. QED
  BY <1>1, <1>2, <1>3, <1>4 DEF RepoRefers

\* It knows what it inserted.
LEMMA RepoInsertedFull ==
  ASSUME NEW st \in Seq(RepoRow), NEW ph, NEW ch, NEW ed, NEW j, RepoFullOK(st, ph, ch, ed, j),
         RepositoryIsListed, NEW cm, NEW stone, RepoInsertable(st, cm, j, stone),
         NEW new, RepoGrown(st, stone, new), NEW k, RepoRefers(st, j, k)
  PROVE  RepoFullOK(new, ph, ch, ed, k)
<1>1. PICK n \in Nat : n = Len(st) /\ n < MaxStones /\ DOMAIN st = 1..n
  BY DEF RepoInsertable, RepositoryIsListed
<1>2. /\ new \in Seq(RepoRow) /\ RepoAges(st, new) /\ DOMAIN new = 1..(n + 1)
      /\ new[n + 1] = stone /\ \A s \in DOMAIN st : new[s] = st[s]
  BY <1>1 DEF RepoGrown
<1>3. RepoFullOK(new, ph, ch, ed, j)
  BY <1>2, RepoAgedFull
<1>4. j \in RepoFull
  BY DEF RepoFullOK
<1>5. k \in RepoFull /\ RepoSame(j, k) /\ k.stage = "refs" /\ k.stone = n + 1
  BY <1>1 DEF RepoRefers
<1>6. k.stone \in DOMAIN new /\ new[k.stone] = stone /\ n + 1 <= MaxStones
  BY <1>1, <1>2, <1>5 DEF RepositoryIsListed
<1>7. j.previous < n + 1 /\ \A p \in Repo!Paths : j.prior[p] < n + 1
  BY <1>1, <1>4 DEF RepoFullOK, RepoPriorOK, RepoIsHead, RepoIsFile
<1>8. j.todo # <<>> => Head(j.todo) \in Repo!Paths
  BY <1>4, RepoHeadTail DEF RepoFull
<1>9. CASE stone.kind = "file"
  <2>1. /\ j.stage = "files" /\ j.todo # <<>> /\ stone.path = Head(j.todo)
        /\ stone.sha = j.tree[Head(j.todo)]
    BY <1>9 DEF RepoInsertable, RepoApart
  <2>2. RepoFiling(new, k) /\ ~RepoSettled(new, k) /\ ~RepoHeading(k)
    BY <1>5, <1>6, <1>9 DEF RepoFiling, RepoSettled, RepoHeading, RepoApart
  <2>3. RepoRefsOK(new, k)
    BY <1>5, <1>6, <1>7, <1>8, <1>9, <2>1 DEF RepoRefsOK, RepoSame
  <2>4. RepoOrientOK(new, ch, k)
    BY <1>3, <1>5, <2>2 DEF RepoFullOK, RepoOrientOK, RepoSame
  <2>5. RepoLinksOK(new, ed, k)
    BY <1>5, <2>2 DEF RepoLinksOK
  <2>6. QED
    BY <1>3, <1>5, <2>2, <2>3, <2>4, <2>5, RepoMoved
<1>10. CASE stone.kind = "orientation"
  <2>1. j.todo = <<>> /\ j.accepted = Repo!Current(j) /\ j.ask.orient
    BY <1>10 DEF RepoInsertable, RepoApart
  <2>2. ~RepoSettled(new, k) /\ ~RepoHeading(k)
    BY <1>5, <1>6, <1>10 DEF RepoSettled, RepoHeading, RepoApart
  <2>3. RepoRefsOK(new, k)
    BY <1>5, <1>6, <1>7, <1>10, <2>1 DEF RepoRefsOK, RepoSame
  <2>4. RepoOrientOK(new, ch, k)
    BY <1>3, <1>5, <2>2 DEF RepoFullOK, RepoOrientOK, RepoSame
  <2>5. RepoLinksOK(new, ed, k)
    BY <1>5, <2>2 DEF RepoLinksOK
  <2>6. QED
    BY <1>3, <1>5, <2>1, <2>3, <2>4, <2>5, RepoMoved
<1>11. CASE stone.kind \in RepoApart
  <2>1. j.stage \in RepoApart
    BY <1>11 DEF RepoInsertable, RepoApart
  <2>2. RepoSettled(new, j) /\ RepoSettled(new, k)
    BY <1>5, <1>6, <1>11, <2>1 DEF RepoSettled
  <2>3. RepoRefsOK(new, k)
    BY <1>5, <1>6, <1>11 DEF RepoRefsOK, RepoApart
  <2>4. QED
    BY <1>3, <1>5, <2>2, <2>3, RepoMovedSettled
<1>12. QED
  BY <1>9, <1>10, <1>11 DEF RepoInsertable

\* Inserting a stone leaves the invariant true.
LEMMA RepoInsertStep ==
  ASSUME NEW br, NEW st, NEW ph, NEW ch, NEW ed, NEW jb, NEW vw, NEW ls, NEW cm, NEW ct,
         RepoStateOK(br, st, ph, ch, ed, jb, vw, ls, cm, ct), RepositoryIsListed,
         NEW c \in Client, RepoFullOK(st, ph, ch, ed, jb[c]),
         NEW stone, RepoInsertable(st, cm, jb[c], stone),
         NEW new, RepoGrown(st, stone, new), NEW k, RepoRefers(st, jb[c], k)
  PROVE  RepoStateOK(br, new, ph, ch, ed, [jb EXCEPT ![c] = k], vw, ls, cm, ct)
<1>1. st \in Seq(RepoRow) /\ RepoHeadsOK(st, ph, ch) /\ RepoEdgesOK(st, ed)
  BY DEF RepoStateOK, RepoTablesOK
<1>2. PICK j : j = jb[c]
  OBVIOUS
<1>3. RepoFullOK(new, ph, ch, ed, k)
  BY <1>1, RepoInsertedFull
<1>4. j \in RepoFull /\ RepoFullOK(st, ph, ch, ed, j) /\ RepoInsertable(st, cm, j, stone)
  BY <1>2 DEF RepoFullOK
<1>5. k.stage = "refs" /\ k.stone = Len(st) + 1 /\ k.alone = j.alone /\ k.tree = j.tree
  BY <1>2 DEF RepoRefers, RepoSame
<1>6. /\ new \in Seq(RepoRow) /\ RepoAges(st, new)
      /\ Len(st) \in Nat /\ DOMAIN st = 1..Len(st) /\ DOMAIN new = 1..(Len(st) + 1)
      /\ new[Len(st) + 1] = stone /\ \A s \in DOMAIN st : new[s] = st[s]
  BY DEF RepoGrown
<1>7. RepoTablesOK(new, ph, ch, ed)
  BY <1>1, <1>6, RepoAgedTables DEF RepoTablesOK
<1>8. j # Repo!Idle /\ k # Repo!Idle /\ j.stage # "refs"
  <2>1. j.stage = "files" \/ j.stage \in RepoApart
    BY <1>4 DEF RepoInsertable
  <2>2. j.stage # "idle" /\ k.stage # "idle" /\ j.stage # "refs"
    BY <1>5, <2>1 DEF RepoApart
  <2>3. Repo!Idle.stage = "idle"
    BY DEF Repo!Idle
  <2>4. QED
    BY <2>2, <2>3
<1>9. PICK jb2 : jb2 = [jb EXCEPT ![c] = k]
  OBVIOUS
<1>10. jb2[c] = k /\ \A d \in Client : jb[d].stage = "refs" => jb2[d] = jb[d]
  BY <1>2, <1>8, <1>9 DEF RepoStateOK, RepoJobsOK
<1>11. RepoWholeOK(new, jb2, ct)
  <2>1. RepoWholeOK(st, jb, ct)
    BY DEF RepoStateOK
  <2>2. \A s \in DOMAIN new : s \in DOMAIN st \/ s = k.stone
    BY <1>5, <1>6
  <2>3. \A s \in DOMAIN st : new[s] = st[s]
    BY <1>6
  <2>4. k.stage = "refs"
    BY <1>5
  <2>5. SUFFICES ASSUME NEW s \in DOMAIN new
                 PROVE  new[s].whole \/ s \in ct \/ \E d \in Client : jb2[d].stage = "refs" /\
                          jb2[d].stone = s
    BY DEF RepoWholeOK
  <2>6. CASE s = k.stone
    BY <1>10, <2>4, <2>6
  <2>7. CASE s \in DOMAIN st
    <3>1. new[s] = st[s]
      BY <2>3, <2>7
    <3>2. st[s].whole \/ s \in ct \/ \E d \in Client : jb[d].stage = "refs" /\ jb[d].stone = s
      BY <2>1, <2>7 DEF RepoWholeOK
    <3>3. QED
      BY <1>10, <3>1, <3>2
  <2>8. QED
    BY <2>2, <2>6, <2>7
<1>12. cm => \A s \in DOMAIN new : new[s].kind = "file" => new[s].text = new[s].sha
  <2>1. RepoCalmOK(br, st, jb, cm)
    BY DEF RepoStateOK
  <2>2. \A s \in DOMAIN new : s \in DOMAIN st \/ s = Len(st) + 1
    BY <1>6
  <2>3. cm /\ stone.kind = "file" => stone.text = stone.sha
    BY <1>4 DEF RepoInsertable, RepoApart
  <2>4. QED
    BY <1>6, <2>1, <2>2, <2>3 DEF RepoCalmOK
<1>13. cm => k.tree = br
  BY <1>2, <1>4, <1>5 DEF RepoStateOK, RepoCalmOK
<1>14. RepoGoes(br, st, ed, jb, cm, ct, c, new, ph, ch, ed, k)
  BY <1>2, <1>3, <1>5, <1>6, <1>7, <1>8, <1>9, <1>11, <1>12, <1>13 DEF RepoGoes, RepoJobOK
<1>15. QED
  BY <1>14, RepoJobStep

(* What follows a stone *)

\* References that supersede nothing.
RepoMentions(st, links) ==
  links \in Seq(RepoLinkRow) /\ \A l \in RepoRng(links) : l.to \in DOMAIN st /\
    l.type # "supersedes"

\* Links to what is there: of two lists, of one, of none.
LEMMA RepoMentionsBoth ==
  ASSUME NEW st, NEW a, NEW b, RepoMentions(st, a), RepoMentions(st, b)
  PROVE  RepoMentions(st, a \o b)
<1>1. a \in Seq(RepoLinkRow)
  BY DEF RepoMentions
<1>2. b \in Seq(RepoLinkRow)
  BY DEF RepoMentions
<1>3. a \o b \in Seq(RepoLinkRow) /\ RepoRng(a \o b) = RepoRng(a) \cup RepoRng(b)
  BY ONLY <1>1, <1>2, RepoJoined
<1>4. QED
  BY <1>3 DEF RepoMentions

LEMMA RepoMentionsThem ==
  ASSUME NEW st, NEW seq \in Seq(Nat), RepoRng(seq) \subseteq DOMAIN st,
         NEW type \in RepoTypes \ {"supersedes"}
  PROVE  RepoMentions(st, Repo!Links(seq, type))
<1>1. type \in RepoTypes
  OBVIOUS
<1>2. /\ Repo!Links(seq, type) \in Seq(RepoLinkRow)
      /\ RepoRng(Repo!Links(seq, type)) = {[to |-> x, type |-> type] : x \in RepoRng(seq)}
  BY <1>1, RepoLinksAre
<1>3. QED
  BY <1>2 DEF RepoMentions

LEMMA RepoMentionsNone == ASSUME NEW st PROVE RepoMentions(st, <<>>)
BY RepoNoneIn DEF RepoMentions

\* A list of one holds that one.
LEMMA RepoOneIs ==
  ASSUME NEW x \in Nat
  PROVE  <<x>> \in Seq(Nat) /\ RepoRng(<<x>>) = {x}
BY DEF RepoRng

\* The orientation is mentioned only when there is one.
LEMMA RepoMentionsOrientation ==
  ASSUME NEW st, NEW ch, NEW j \in RepoFull, RepoOrientOK(st, ch, j),
         NEW type \in RepoTypes \ {"supersedes"}
  PROVE  RepoMentions(st, Repo!AboutOrientation(j, type))
<1>1. CASE j.orientation = 0
  BY <1>1, RepoMentionsNone DEF Repo!AboutOrientation
<1>2. CASE j.orientation # 0
  <2>1. j.orientation \in Nat /\ j.orientation \in DOMAIN st
    BY <1>2 DEF RepoFull, RepoOrientOK
  <2>2. PICK seq : seq = <<j.orientation>>
    OBVIOUS
  <2>3. seq \in Seq(Nat) /\ RepoRng(seq) \subseteq DOMAIN st
    BY <2>1, <2>2, RepoOneIs
  <2>4. RepoMentions(st, Repo!Links(seq, type))
    BY <2>3, RepoMentionsThem
  <2>5. QED
    BY <1>2, <2>2, <2>4 DEF Repo!AboutOrientation
<1>3. QED
  BY <1>1, <1>2

\* What an ingestion counts as current is in the chain.
LEMMA RepoFullIsListed ==
  ASSUME NEW st, NEW ph, NEW ch, NEW ed, NEW j, RepoFullOK(st, ph, ch, ed, j)
  PROVE  RepoListed(j) /\ Repo!Current(j) \subseteq DOMAIN st
BY DEF RepoFullOK, RepoFilesOK, RepoPriorOK, RepoListed

\* A file stone that is whole is filed, and supersedes the one before it.
LEMMA RepoFiledFull ==
  ASSUME RepositoryIsListed, NEW st \in Seq(RepoRow), NEW ph, NEW ch, NEW ed, NEW j,
         RepoFullOK(st, ph, ch, ed, j),
         j.stage = "refs", st[j.stone].kind = "file"
  PROVE  RepoFullOK(st, ph, ch, ed,
                    Repo!Linking([j EXCEPT !.created = @ \cup {j.stone}, !.todo = Tail(@)],
                                 Repo!Supersedes(j, j.prior[st[j.stone].path]), "files"))
<1>1. j \in RepoFull
  BY DEF RepoFullOK
<1>2. PICK p : p = Head(j.todo)
  OBVIOUS
<1>3. /\ j.stone \in DOMAIN st /\ j.stone <= MaxStones /\ j.todo # <<>> /\ st[j.stone].path = p
      /\ st[j.stone].sha = j.tree[p] /\ j.prior[p] < j.stone
  BY <1>2 DEF RepoFullOK, RepoRefsOK
<1>4. p \in Repo!Paths /\ Tail(j.todo) \in Seq(Repo!Paths) /\
        RepoRng(j.todo) = {p} \cup RepoRng(Tail(j.todo))
  <2>1. j.todo \in Seq(Repo!Paths)
    BY <1>1 DEF RepoFull
  <2>2. QED
    BY <1>2, <1>3, <2>1, RepoHeadTail
<1>5. j.stone \in 1..MaxStones /\ j.stone \in Nat
  BY <1>3 DEF RepositoryIsListed
<1>6. PICK m : m = [j EXCEPT !.created = @ \cup {j.stone}, !.todo = Tail(@)]
  OBVIOUS
<1>7. /\ m \in RepoFull /\ m.created = j.created \cup {j.stone} /\ m.todo = Tail(j.todo)
      /\ m.ask = j.ask /\ m.alone = j.alone /\ m.prior = j.prior /\ m.previous = j.previous
      /\ m.tree = j.tree /\ m.reused = j.reused /\ m.failed = j.failed /\ m.accepted = j.accepted
      /\ m.orientation = j.orientation /\ m.stone = j.stone
  <2>1. j.created \cup {j.stone} \in SUBSET Nat
    BY <1>1, <1>5 DEF RepoFull
  <2>2. m = [j EXCEPT !.created = j.created \cup {j.stone}, !.todo = Tail(j.todo)]
    BY <1>6
  <2>3. QED
    BY <1>1, <1>4, <2>1, <2>2 DEF RepoFull
<1>8. PICK old : old = j.prior[p]
  OBVIOUS
<1>9. old \in Nat /\ (old # 0 => RepoIsFile(st, old, p))
  BY <1>1, <1>4, <1>8 DEF RepoFullOK, RepoPriorOK
<1>10. PICK links : links = Repo!Supersedes(j, old)
  OBVIOUS
<1>11. links \in Seq(RepoLinkRow) /\ \A l \in RepoRng(links) : RepoJoins(st, j.stone, l.to, l.type)
  <2>1. CASE j.ask.supersede /\ old # 0
    <3>1. PICK seq : seq = <<old>>
      OBVIOUS
    <3>2. seq \in Seq(Nat) /\ RepoRng(seq) = {old}
      BY <1>9, <3>1, RepoOneIs
    <3>3. links = Repo!Links(seq, "supersedes")
      BY <1>10, <2>1, <3>1 DEF Repo!Supersedes
    <3>4. links \in Seq(RepoLinkRow) /\
            RepoRng(links) = {[to |-> x, type |-> "supersedes"] : x \in {old}}
      BY <3>2, <3>3, RepoLinksAre DEF RepoTypes
    <3>5. RepoJoins(st, j.stone, old, "supersedes")
      BY <1>3, <1>8, <1>9, <2>1 DEF RepoJoins, RepoYounger, RepoIsFile
    <3>6. QED
      BY <3>4, <3>5
  <2>2. CASE ~(j.ask.supersede /\ old # 0)
    BY <1>10, <2>2, RepoNoneIn DEF Repo!Supersedes
  <2>3. QED
    BY <2>1, <2>2
<1>12. PICK k : k = Repo!Linking(m, links, "files")
  OBVIOUS
<1>13. /\ k \in RepoFull /\ RepoSame(m, k) /\ k.stone = m.stone
       /\ (links = <<>> => k.stage = "files")
       /\ (links # <<>> => k.stage = "links" /\ k.links = links /\ k.next = "files")
  BY <1>7, <1>11, <1>12, RepoLinkingIs DEF RepoNexts
<1>14. /\ k.created = j.created \cup {j.stone} /\ k.todo = Tail(j.todo)
       /\ k.ask = j.ask /\ k.alone = j.alone /\ k.prior = j.prior /\ k.previous = j.previous
       /\ k.tree = j.tree /\ k.reused = j.reused /\ k.failed = j.failed /\ k.accepted = j.accepted
       /\ k.orientation = j.orientation /\ k.stone = j.stone
  BY <1>7, <1>13 DEF RepoSame
<1>15. Repo!Current(k) = Repo!Current(j) \cup {j.stone}
  BY <1>14 DEF Repo!Current
<1>16. RepoFiling(st, k) /\ ~RepoSettled(st, k) /\ ~RepoHeading(k) /\
         k.stage \notin {"refs", "chain head"}
  BY <1>13 DEF RepoFiling, RepoSettled, RepoHeading, RepoApart
<1>17. RepoFilesOK(st, k)
  <2>1. RepoFilesOK(st, j)
    BY DEF RepoFullOK
  <2>2. \A s \in Repo!Current(k) : /\ s \in DOMAIN st /\ st[s].kind = "file"
                                   /\ st[s].path \in Repo!Paths
                                   /\ st[s].sha = k.tree[st[s].path]
    BY <1>3, <1>4, <1>14, <1>15, <2>1 DEF RepoFilesOK
  <2>3. \A q \in RepoRng(Repo!Candidates(k.ask, k.tree)) :
          q \in RepoRng(k.todo) \/ q \in k.failed \/ \E s \in Repo!Current(k) : st[s].path = q
    BY <1>3, <1>4, <1>14, <1>15, <2>1 DEF RepoFilesOK
  <2>4. QED
    BY <1>5, <1>14, <2>1, <2>2, <2>3 DEF RepoFilesOK
<1>18. RepoAcceptedOK(st, ph, k)
  BY <1>14, <1>15, <1>16 DEF RepoFullOK, RepoAcceptedOK
<1>19. RepoRefsOK(st, k)
  BY <1>16 DEF RepoRefsOK
<1>20. RepoOrientOK(st, ch, k)
  BY <1>14, <1>16 DEF RepoFullOK, RepoOrientOK
<1>21. RepoLinksOK(st, ed, k)
  <2>1. k.stage = "links" => k.links = links /\ links # <<>> /\ k.next = "files"
    BY <1>13
  <2>2. QED
    BY <1>11, <1>14, <1>16, <2>1 DEF RepoLinksOK, RepoNexts
<1>22. RepoPriorOK(st, k.prior, k.previous)
  BY <1>14 DEF RepoFullOK
<1>23. RepoFullOK(st, ph, ch, ed, k)
  BY <1>13, <1>17, <1>18, <1>19, <1>20, <1>21, <1>22 DEF RepoFullOK
<1>24. QED
  BY <1>3, <1>6, <1>8, <1>10, <1>12, <1>23

\* An orientation that is whole is to become the head.
LEMMA RepoOrientedFull ==
  ASSUME NEW st \in Seq(RepoRow), NEW ph, NEW ch, NEW ed, NEW j, RepoFullOK(st, ph, ch, ed, j),
         j.stage = "refs", st[j.stone].kind = "orientation", st[j.stone].whole
  PROVE  RepoFullOK(st, ph, ch, ed, [j EXCEPT !.stage = "chain head", !.orientation = j.stone])
<1>1. j \in RepoFull
  BY DEF RepoFullOK
<1>2. j.stone \in DOMAIN st /\ j.ask.orient /\ j.previous < j.stone
  BY DEF RepoFullOK, RepoRefsOK
<1>3. j.stone \in Nat /\ j.stone # 0
  BY <1>2
<1>4. PICK k : k = [j EXCEPT !.stage = "chain head", !.orientation = j.stone]
  OBVIOUS
<1>5. /\ k \in RepoFull /\ k.stage = "chain head" /\ k.orientation = j.stone
      /\ k.created = j.created /\ k.todo = j.todo
      /\ k.ask = j.ask /\ k.alone = j.alone /\ k.prior = j.prior /\ k.previous = j.previous
      /\ k.tree = j.tree /\ k.reused = j.reused /\ k.failed = j.failed /\ k.accepted = j.accepted
      /\ k.stone = j.stone
  BY <1>1, <1>3, <1>4 DEF RepoFull
<1>6. Repo!Current(k) = Repo!Current(j)
  BY <1>5 DEF Repo!Current
<1>7. ~RepoFiling(st, j) /\ ~RepoSettled(st, k) /\ ~RepoHeading(k)
  BY <1>5 DEF RepoFiling, RepoSettled, RepoHeading, RepoApart
<1>8. RepoFilesOK(st, k)
  <2>1. RepoFilesOK(st, j)
    BY DEF RepoFullOK
  <2>2. /\ k.created = j.created /\ k.reused = j.reused /\ k.prior = j.prior /\ k.ask = j.ask
        /\ k.tree = j.tree /\ k.todo = j.todo /\ k.failed = j.failed
    BY <1>5
  <2>3. QED
    BY ONLY <1>6, <2>1, <2>2 DEF RepoFilesOK
<1>9. RepoAcceptedOK(st, ph, k)
  BY <1>5, <1>6, <1>7 DEF RepoFullOK, RepoAcceptedOK
<1>10. RepoOrientOK(st, ch, k)
  BY <1>2, <1>3, <1>5, <1>7 DEF RepoOrientOK
<1>11. RepoRefsOK(st, k) /\ RepoLinksOK(st, ed, k) /\ RepoPriorOK(st, k.prior, k.previous)
  BY <1>5, <1>7 DEF RepoFullOK, RepoRefsOK, RepoLinksOK
<1>12. QED
  BY <1>4, <1>5, <1>8, <1>9, <1>10, <1>11 DEF RepoFullOK

\* A stone about the repository is linked to what it is about.
LEMMA RepoNotedFull ==
  ASSUME NEW st, NEW ph, NEW ch, NEW ed, NEW j, RepoFullOK(st, ph, ch, ed, j), RepoSettled(st, j),
         NEW links, RepoMentions(st, links), j.stone \in DOMAIN st,
         NEW next \in {"lint", "review", "finish"}
  PROVE  RepoFullOK(st, ph, ch, ed, Repo!Linking(j, links, next))
<1>1. j \in RepoFull /\ links \in Seq(RepoLinkRow) /\ next \in RepoNexts
  BY DEF RepoFullOK, RepoMentions, RepoNexts
<1>2. PICK k : k = Repo!Linking(j, links, next)
  OBVIOUS
<1>3. /\ k \in RepoFull /\ RepoSame(j, k) /\ k.stone = j.stone
      /\ (links = <<>> => k.stage = next)
      /\ (links # <<>> => k.stage = "links" /\ k.links = links /\ k.next = next)
  BY <1>1, <1>2, RepoLinkingIs
<1>4. RepoSettled(st, k) /\ k.stage # "refs"
  BY <1>3 DEF RepoSettled, RepoApart
<1>5. RepoRefsOK(st, k)
  BY <1>4 DEF RepoRefsOK
<1>6. k.stage = "links" => k.links = links /\ links # <<>>
  BY <1>3
<1>7. k.stage = "links" => k.links # <<>> /\
                           \A l \in RepoRng(k.links) : RepoJoins(st, k.stone, l.to, l.type)
  BY <1>3, <1>6 DEF RepoMentions, RepoJoins
<1>8. QED
  BY <1>2, <1>3, <1>4, <1>5, <1>7, RepoMovedSettled

\* Whatever stone was written, its request goes on as it should.
LEMMA RepoWrittenFull ==
  ASSUME RepositoryIsListed, NEW st \in Seq(RepoRow), NEW ph, NEW ch, NEW ed, NEW j,
         RepoFullOK(st, ph, ch, ed, j),
         j.stage = "refs", st[j.stone].whole, NEW stone, stone.kind = st[j.stone].kind,
         stone.kind = "file" => stone.path = st[j.stone].path
  PROVE  RepoFullOK(st, ph, ch, ed, Repo!AfterStone(j, stone))
<1>1. stone.kind \in {"file", "orientation"} \cup RepoApart /\ j.stone \in DOMAIN st
  BY DEF RepoFullOK, RepoRefsOK
<1>2. CASE stone.kind = "file"
  <2>1. Repo!AfterStone(j, stone) =
          Repo!Linking([j EXCEPT !.created = @ \cup {j.stone}, !.todo = Tail(@)],
                                                 Repo!Supersedes(j, j.prior[st[j.stone].path]),
                                                 "files")
    BY <1>2 DEF Repo!AfterStone
  <2>2. QED
    BY <1>2, <2>1, RepoFiledFull
<1>3. CASE stone.kind = "orientation"
  BY <1>3, RepoOrientedFull DEF Repo!AfterStone
<1>4. CASE stone.kind \in RepoApart
  <2>1. RepoSettled(st, j)
    BY <1>4 DEF RepoSettled
  <2>2. j \in RepoFull /\ RepoOrientOK(st, ch, j) /\ RepoListed(j) /\
          Repo!Current(j) \subseteq DOMAIN st
    BY RepoFullIsListed DEF RepoFullOK
  <2>3. RepoMentions(st, Repo!AboutOrientation(j, "documents")) /\
          RepoMentions(st, Repo!AboutOrientation(j, "reviews"))
    BY <2>2, RepoMentionsOrientation DEF RepoTypes
  <2>4. CASE stone.kind = "architecture"
    <3>1. PICK more : more = IF j.ask.link
                 THEN Repo!Links(Repo!First(MaxDocumented, Repo!CurrentFiles(j)), "documents")
                   ELSE <<>>
      OBVIOUS
    <3>2. RepoMentions(st, more)
      <4>1. Repo!CurrentFiles(j) \in Seq(Nat) /\ RepoRng(Repo!CurrentFiles(j)) = Repo!Current(j)
        BY <2>2, RepoCurrentFilesAre
      <4>2. MaxDocumented \in Nat
        BY DEF RepositoryIsListed
      <4>3. /\ Repo!First(MaxDocumented, Repo!CurrentFiles(j)) \in Seq(Nat)
            /\ RepoRng(Repo!First(MaxDocumented, Repo!CurrentFiles(j)))
              \subseteq RepoRng(Repo!CurrentFiles(j))
        BY <4>1, <4>2, RepoFirstIs
      <4>4. RepoMentions(st, Repo!Links(Repo!First(MaxDocumented, Repo!CurrentFiles(j)),
              "documents"))
        BY <2>2, <4>1, <4>3, RepoMentionsThem DEF RepoTypes
      <4>5. QED
        BY <3>1, <4>4, RepoMentionsNone
    <3>3. RepoMentions(st, Repo!AboutOrientation(j, "documents") \o more)
      BY <2>3, <3>2, RepoMentionsBoth
    <3>4. Repo!AfterStone(j, stone) =
            Repo!Linking(j, Repo!AboutOrientation(j, "documents") \o more, "lint")
      BY <2>4, <3>1 DEF Repo!AfterStone
    <3>5. QED
      BY <1>1, <2>1, <3>3, <3>4, RepoNotedFull
  <2>5. CASE stone.kind = "lint"
    <3>1. Repo!AfterStone(j, stone) = Repo!Linking(j, Repo!AboutOrientation(j, "reviews"), "review")
      BY <2>5 DEF Repo!AfterStone
    <3>2. QED
      BY <1>1, <2>1, <2>3, <3>1, RepoNotedFull
  <2>6. CASE stone.kind = "review"
    <3>1. Repo!Reviewed(j) \in Seq(Nat) /\ RepoRng(Repo!Reviewed(j)) \subseteq j.created
      BY <2>2, RepoReviewedAre
    <3>2. RepoRng(Repo!Reviewed(j)) \subseteq DOMAIN st
      BY <2>2, <3>1 DEF Repo!Current
    <3>3. RepoMentions(st, Repo!Links(Repo!Reviewed(j), "reviews"))
      BY <3>1, <3>2, RepoMentionsThem DEF RepoTypes
    <3>4. RepoMentions(st, Repo!AboutOrientation(j, "reviews")
            \o Repo!Links(Repo!Reviewed(j), "reviews"))
      BY <2>3, <3>3, RepoMentionsBoth
    <3>5. Repo!AfterStone(j, stone) =
            Repo!Linking(j, Repo!AboutOrientation(j, "reviews")
              \o Repo!Links(Repo!Reviewed(j), "reviews"), "finish")
      BY <2>6 DEF Repo!AfterStone
    <3>6. QED
      BY <1>1, <2>1, <3>4, <3>5, RepoNotedFull
  <2>7. QED
    BY <1>4, <2>4, <2>5, <2>6 DEF RepoApart
<1>5. QED
  BY <1>1, <1>2, <1>3, <1>4

(* The files *)

RepoContinues(st, ph, ch, ed, j, k) == RepoFullOK(st, ph, ch, ed, k) /\ k.alone = j.alone /\
  k.tree = j.tree

\* A stone of the blob that is in the tree stands for the file.
LEMMA RepoReusedFull ==
  ASSUME RepositoryIsListed, NEW st \in Seq(RepoRow), NEW ph, NEW ch, NEW ed, NEW j,
         RepoFullOK(st, ph, ch, ed, j),
         j.stage = "files", j.todo # <<>>, NEW p, p = Head(j.todo), NEW old, old = j.prior[p],
         old # 0,
         st[old].sha = j.tree[p]
  PROVE  RepoContinues(st, ph, ch, ed, j, [j EXCEPT !.todo = Tail(@), !.reused = @ \cup {old}])
<1>0. PICK k : k = [j EXCEPT !.todo = Tail(@), !.reused = @ \cup {old}]
  OBVIOUS
<1>1. j \in RepoFull
  BY DEF RepoFullOK
<1>2. p \in Repo!Paths /\ Tail(j.todo) \in Seq(Repo!Paths) /\
        RepoRng(j.todo) = {p} \cup RepoRng(Tail(j.todo))
  <2>1. j.todo \in Seq(Repo!Paths)
    BY <1>1 DEF RepoFull
  <2>2. QED
    BY <2>1, RepoHeadTail
<1>3. old \in Nat /\ RepoIsFile(st, old, p) /\ \E i \in DOMAIN Path : old = j.prior[Path[i]]
  BY <1>1, <1>2 DEF RepoFullOK, RepoPriorOK, Repo!Paths
<1>4. /\ k \in RepoFull /\ k.reused = j.reused \cup {old} /\ k.todo = Tail(j.todo)
      /\ k.ask = j.ask /\ k.alone = j.alone /\ k.prior = j.prior /\ k.previous = j.previous
      /\ k.tree = j.tree /\ k.created = j.created /\ k.failed = j.failed /\ k.accepted = j.accepted
      /\ k.orientation = j.orientation /\ k.stone = j.stone /\ k.stage = j.stage
  <2>1. j.reused \cup {old} \in SUBSET Nat
    BY <1>1, <1>3 DEF RepoFull
  <2>2. k = [j EXCEPT !.todo = Tail(j.todo), !.reused = j.reused \cup {old}]
    BY <1>0
  <2>3. QED
    BY ONLY <1>1, <1>2, <2>1, <2>2 DEF RepoFull
<1>5. Repo!Current(k) = Repo!Current(j) \cup {old}
  BY <1>4 DEF Repo!Current
<1>6. RepoFiling(st, k) /\ ~RepoSettled(st, k) /\ ~RepoHeading(k)
  BY <1>4 DEF RepoFiling, RepoSettled, RepoHeading, RepoApart
<1>7. RepoFilesOK(st, k)
  <2>1. RepoFilesOK(st, j)
    BY DEF RepoFullOK
  <2>2. \A s \in Repo!Current(k) : /\ s \in DOMAIN st /\ st[s].kind = "file"
                                   /\ st[s].path \in Repo!Paths
                                   /\ st[s].sha = k.tree[st[s].path]
    BY <1>2, <1>3, <1>4, <1>5, <2>1 DEF RepoFilesOK, RepoIsFile
  <2>3. \A q \in RepoRng(Repo!Candidates(k.ask, k.tree)) :
          q \in RepoRng(k.todo) \/ q \in k.failed \/ \E s \in Repo!Current(k) : st[s].path = q
    BY <1>2, <1>3, <1>4, <1>5, <2>1 DEF RepoFilesOK, RepoIsFile
  <2>4. QED
    BY <1>3, <1>4, <2>1, <2>2, <2>3 DEF RepoFilesOK
<1>8. RepoAcceptedOK(st, ph, k)
  BY <1>4, <1>5, <1>6 DEF RepoFullOK, RepoAcceptedOK
<1>9. RepoOrientOK(st, ch, k)
  BY <1>4, <1>6 DEF RepoFullOK, RepoOrientOK
<1>10. RepoRefsOK(st, k) /\ RepoLinksOK(st, ed, k) /\ RepoPriorOK(st, k.prior, k.previous)
  BY <1>4, <1>6 DEF RepoFullOK, RepoRefsOK, RepoLinksOK
<1>11. QED
  BY <1>0, <1>4, <1>7, <1>8, <1>9, <1>10 DEF RepoFullOK, RepoContinues

\* A file that could not be fetched is recorded as such.
LEMMA RepoFailedFull ==
  ASSUME NEW st, NEW ph, NEW ch, NEW ed, NEW j, RepoFullOK(st, ph, ch, ed, j),
         j.stage = "files", j.todo # <<>>
  PROVE  RepoContinues(st, ph, ch, ed, j,
                       [j EXCEPT !.todo = Tail(@), !.failed = @ \cup {Head(j.todo)}])
<1>0. PICK k : k = [j EXCEPT !.todo = Tail(@), !.failed = @ \cup {Head(j.todo)}]
  OBVIOUS
<1>1. j \in RepoFull
  BY DEF RepoFullOK
<1>2. PICK p : p = Head(j.todo)
  OBVIOUS
<1>3. p \in Repo!Paths /\ Tail(j.todo) \in Seq(Repo!Paths) /\
        RepoRng(j.todo) = {p} \cup RepoRng(Tail(j.todo))
  <2>1. j.todo \in Seq(Repo!Paths)
    BY <1>1 DEF RepoFull
  <2>2. QED
    BY <1>2, <2>1, RepoHeadTail
<1>4. /\ k \in RepoFull /\ k.failed = j.failed \cup {p} /\ k.todo = Tail(j.todo)
      /\ k.ask = j.ask /\ k.alone = j.alone /\ k.prior = j.prior /\ k.previous = j.previous
      /\ k.tree = j.tree /\ k.created = j.created /\ k.reused = j.reused /\ k.accepted = j.accepted
      /\ k.orientation = j.orientation /\ k.stone = j.stone /\ k.stage = j.stage
  <2>1. j.failed \cup {p} \in SUBSET Repo!Paths
    BY <1>1, <1>3 DEF RepoFull
  <2>2. k = [j EXCEPT !.todo = Tail(j.todo), !.failed = j.failed \cup {p}]
    BY <1>0, <1>2
  <2>3. QED
    BY ONLY <1>1, <1>3, <2>1, <2>2 DEF RepoFull
<1>5. Repo!Current(k) = Repo!Current(j)
  BY <1>4 DEF Repo!Current
<1>6. RepoFiling(st, k) /\ ~RepoSettled(st, k) /\ ~RepoHeading(k)
  BY <1>4 DEF RepoFiling, RepoSettled, RepoHeading, RepoApart
<1>7. RepoFilesOK(st, k)
  <2>1. RepoFilesOK(st, j)
    BY DEF RepoFullOK
  <2>2. QED
    BY <1>3, <1>4, <1>5, <2>1 DEF RepoFilesOK
<1>8. RepoAcceptedOK(st, ph, k)
  BY <1>4, <1>5, <1>6 DEF RepoFullOK, RepoAcceptedOK
<1>9. RepoOrientOK(st, ch, k)
  BY <1>4, <1>6 DEF RepoFullOK, RepoOrientOK
<1>10. RepoRefsOK(st, k) /\ RepoLinksOK(st, ed, k) /\ RepoPriorOK(st, k.prior, k.previous)
  BY <1>4, <1>6 DEF RepoFullOK, RepoRefsOK, RepoLinksOK
<1>11. QED
  BY <1>0, <1>4, <1>7, <1>8, <1>9, <1>10 DEF RepoFullOK, RepoContinues

\* A file that is accepted becomes the head of its path.
LEMMA RepoAcceptedFull ==
  ASSUME NEW st \in Seq(RepoRow), NEW ph, NEW ch, NEW ed, RepoHeadsOK(st, ph, ch), NEW j,
         RepoFullOK(st, ph, ch, ed, j),
         j.stage = "files", NEW s \in Repo!Current(j)
  PROVE  /\ RepoContinues(st, [ph EXCEPT ![st[s].path] = s], ch, ed, j,
              [j EXCEPT !.accepted = @ \cup {s}])
         /\ RepoHeadsOK(st, [ph EXCEPT ![st[s].path] = s], ch)
<1>0. PICK ph2, k : ph2 = [ph EXCEPT ![st[s].path] = s] /\ k = [j EXCEPT !.accepted = @ \cup {s}]
  OBVIOUS
<1>1. j \in RepoFull
  BY DEF RepoFullOK
<1>2. s \in DOMAIN st /\ st[s].kind = "file" /\ st[s].path \in Repo!Paths /\ s \in Nat
  BY DEF RepoFullOK, RepoFilesOK
<1>3. PICK p : p = st[s].path
  OBVIOUS
<1>4. /\ k \in RepoFull /\ k.accepted = j.accepted \cup {s} /\ k.todo = j.todo
      /\ k.ask = j.ask /\ k.alone = j.alone /\ k.prior = j.prior /\ k.previous = j.previous
      /\ k.tree = j.tree /\ k.created = j.created /\ k.reused = j.reused /\ k.failed = j.failed
      /\ k.orientation = j.orientation /\ k.stone = j.stone /\ k.stage = j.stage
  <2>1. j.accepted \cup {s} \in SUBSET Nat
    BY <1>1, <1>2 DEF RepoFull
  <2>2. k = [j EXCEPT !.accepted = j.accepted \cup {s}]
    BY <1>0
  <2>3. QED
    BY ONLY <1>1, <2>1, <2>2 DEF RepoFull
<1>5. Repo!Current(k) = Repo!Current(j)
  BY <1>4 DEF Repo!Current
<1>6. RepoFiling(st, k) /\ ~RepoSettled(st, k) /\ ~RepoHeading(k)
  BY <1>4 DEF RepoFiling, RepoSettled, RepoHeading, RepoApart
<1>7. RepoFilesOK(st, k)
  <2>1. RepoFilesOK(st, j)
    BY DEF RepoFullOK
  <2>2. QED
    BY ONLY <1>4, <1>5, <2>1 DEF RepoFilesOK
<1>8. ph \in [Repo!Paths -> Nat]
  BY DEF RepoHeadsOK
<1>9. ph2 \in [Repo!Paths -> Nat] /\ ph2[p] = s /\ \A q \in Repo!Paths : q # p => ph2[q] = ph[q]
  <2>1. ph2 = [ph EXCEPT ![p] = s] /\ p \in Repo!Paths /\ s \in Nat
    BY <1>0, <1>2, <1>3
  <2>2. QED
    BY ONLY <1>8, <2>1
<1>10. RepoAcceptedOK(st, ph2, k)
  <2>1. j.accepted \subseteq Repo!Current(j) /\
          (j.alone => \A x \in j.accepted : ph[st[x].path] \in j.accepted)
    BY DEF RepoFullOK, RepoAcceptedOK
  <2>2. \A x \in Repo!Current(j) : st[x].path \in Repo!Paths
    BY DEF RepoFullOK, RepoFilesOK
  <2>3. \A x \in k.accepted : x = s \/ x \in j.accepted
    BY <1>4
  <2>4. k.alone => \A x \in k.accepted : ph2[st[x].path] \in k.accepted
    BY <1>3, <1>4, <1>9, <2>1, <2>2, <2>3
  <2>5. QED
    BY <1>4, <1>5, <1>6, <2>1, <2>4 DEF RepoAcceptedOK
<1>11. RepoOrientOK(st, ch, k)
  BY <1>4, <1>6 DEF RepoFullOK, RepoOrientOK
<1>12. RepoRefsOK(st, k) /\ RepoLinksOK(st, ed, k) /\ RepoPriorOK(st, k.prior, k.previous)
  BY <1>4, <1>6 DEF RepoFullOK, RepoRefsOK, RepoLinksOK
<1>13. RepoHeadsOK(st, ph2, ch)
  BY <1>2, <1>3, <1>9 DEF RepoHeadsOK, RepoIsFile
<1>14. QED
  BY <1>0, <1>4, <1>7, <1>10, <1>11, <1>12, <1>13 DEF RepoFullOK, RepoContinues

(* The stages after them *)

\* A stage that has nothing to do is passed.
LEMMA RepoNextFull ==
  ASSUME NEW st, NEW ph, NEW ch, NEW ed, NEW j, RepoFullOK(st, ph, ch, ed, j), NEW next,
         \/ /\ j.stage = "files" /\ j.todo = <<>> /\ j.accepted = Repo!Current(j) /\ ~j.ask.orient
            /\ next = "architecture"
         \/ j.stage \in RepoApart /\ next \in {"lint", "review", "finish"}
  PROVE  RepoContinues(st, ph, ch, ed, j, [j EXCEPT !.stage = next])
<1>0. PICK k : k = [j EXCEPT !.stage = next]
  OBVIOUS
<1>1. j \in RepoFull
  BY DEF RepoFullOK
<1>2. k \in RepoFull /\ RepoSame(j, k) /\ k.stage = next
  <2>1. next \in RepoNexts
    BY DEF RepoNexts
  <2>2. QED
    BY ONLY <1>0, <1>1, <2>1 DEF RepoFull, RepoSame
<1>3. RepoSettled(st, k) /\ ~RepoHeading(k) /\ k.stage \notin {"refs", "links", "chain head"}
  BY <1>2 DEF RepoSettled, RepoHeading, RepoApart
<1>4. RepoRefsOK(st, k)
  BY <1>3 DEF RepoRefsOK
<1>5. CASE j.stage = "files"
  <2>1. j.todo = <<>> /\ j.accepted = Repo!Current(j) /\ ~j.ask.orient
    BY <1>5 DEF RepoApart
  <2>2. k.ask = j.ask /\ k.orientation = j.orientation
    BY <1>2 DEF RepoSame
  <2>3. RepoOrientOK(st, ch, k)
    BY <1>3, <2>1, <2>2 DEF RepoFullOK, RepoOrientOK
  <2>4. RepoLinksOK(st, ed, k)
    BY <1>3, <2>1, <2>2 DEF RepoLinksOK
  <2>5. QED
    BY <1>0, <1>2, <1>4, <2>1, <2>3, <2>4, RepoMoved DEF RepoSame, RepoContinues
<1>6. CASE j.stage \in RepoApart
  <2>1. RepoSettled(st, j)
    BY <1>6 DEF RepoSettled
  <2>2. QED
    BY <1>0, <1>2, <1>3, <1>4, <2>1, RepoMovedSettled DEF RepoSame, RepoContinues
<1>7. QED
  BY <1>5, <1>6

\* After the head comes what the orientation supersedes and documents.
LEMMA RepoHeadedFull ==
  ASSUME RepositoryIsListed, NEW st \in Seq(RepoRow), NEW ph, NEW ch, NEW ed, NEW j,
         RepoFullOK(st, ph, ch, ed, j),
         j.stage = "chain head", NEW ch2, j.ask.head => ch2 = j.orientation,
         NEW more, more = IF j.ask.link THEN Repo!Links(Repo!CurrentFiles(j), "documents") ELSE <<>>
  PROVE  RepoContinues(st, ph, ch2, ed, j,
                       Repo!Linking(j, Repo!Supersedes(j, j.previous) \o more, "architecture"))
<1>0. PICK k : k = Repo!Linking(j, Repo!Supersedes(j, j.previous) \o more, "architecture")
  OBVIOUS
<1>1. j \in RepoFull
  BY DEF RepoFullOK
<1>2. /\ j.ask.orient /\ j.orientation = j.stone /\ j.orientation # 0 /\ j.previous < j.stone
      /\ j.orientation \in DOMAIN st /\ st[j.orientation].kind = "orientation"
  BY DEF RepoFullOK, RepoOrientOK
<1>3. j.previous \in Nat /\ RepoIsHead(st, j.previous)
  BY <1>1 DEF RepoFullOK, RepoPriorOK, RepoFull
<1>4. PICK a : a = Repo!Supersedes(j, j.previous)
  OBVIOUS
<1>5. a \in Seq(RepoLinkRow) /\ \A l \in RepoRng(a) : RepoJoins(st, j.stone, l.to, l.type)
  <2>1. CASE j.ask.supersede /\ j.previous # 0
    <3>1. PICK seq : seq = <<j.previous>>
      OBVIOUS
    <3>2. seq \in Seq(Nat) /\ RepoRng(seq) = {j.previous}
      BY <1>3, <3>1, RepoOneIs
    <3>3. a = Repo!Links(seq, "supersedes")
      BY <1>4, <2>1, <3>1 DEF Repo!Supersedes
    <3>4. a \in Seq(RepoLinkRow) /\
            RepoRng(a) = {[to |-> x, type |-> "supersedes"] : x \in {j.previous}}
      BY <3>2, <3>3, RepoLinksAre DEF RepoTypes
    <3>5. RepoJoins(st, j.stone, j.previous, "supersedes")
      BY <1>2, <1>3 DEF RepoJoins, RepoYounger, RepoIsHead
    <3>6. \A l \in RepoRng(a) : l.to = j.previous /\ l.type = "supersedes"
      BY ONLY <3>4
    <3>7. QED
      BY ONLY <3>4, <3>5, <3>6
  <2>2. CASE ~(j.ask.supersede /\ j.previous # 0)
    BY <1>4, <2>2, RepoNoneIn DEF Repo!Supersedes
  <2>3. QED
    BY <2>1, <2>2
<1>6. RepoListed(j) /\ Repo!Current(j) \subseteq DOMAIN st
  BY RepoFullIsListed
<1>7. Repo!CurrentFiles(j) \in Seq(Nat) /\ RepoRng(Repo!CurrentFiles(j)) = Repo!Current(j)
  BY <1>6, RepoCurrentFilesAre
<1>8. /\ Repo!Links(Repo!CurrentFiles(j), "documents") \in Seq(RepoLinkRow)
      /\ RepoRng(Repo!Links(Repo!CurrentFiles(j), "documents")) =
           {[to |-> x, type |-> "documents"] : x \in Repo!Current(j)}
  BY <1>7, RepoLinksAre DEF RepoTypes
<1>9. more \in Seq(RepoLinkRow) /\ \A l \in RepoRng(more) : RepoJoins(st, j.stone, l.to, l.type)
  <2>1. \A x \in Repo!Current(j) : RepoJoins(st, j.stone, x, "documents")
    BY <1>2, <1>6 DEF RepoJoins
  <2>2. \A l \in RepoRng(Repo!Links(Repo!CurrentFiles(j), "documents")) :
          l.to \in Repo!Current(j) /\ l.type = "documents"
    BY ONLY <1>8
  <2>3. CASE j.ask.link
    <3>1. more = Repo!Links(Repo!CurrentFiles(j), "documents")
      BY <2>3
    <3>2. QED
      BY ONLY <1>8, <2>1, <2>2, <3>1
  <2>4. CASE ~j.ask.link
    <3>1. more = <<>>
      BY <2>4
    <3>2. QED
      BY ONLY <3>1, RepoNoneIn
  <2>5. QED
    BY <2>3, <2>4
<1>10. j.ask.link => \A x \in Repo!Current(j) : [to |-> x, type |-> "documents"] \in RepoRng(more)
  BY <1>8
<1>11. PICK links : links = a \o more
  OBVIOUS
<1>12. links \in Seq(RepoLinkRow) /\ RepoRng(links) = RepoRng(a) \cup RepoRng(more)
  <2>1. a \in Seq(RepoLinkRow)
    BY <1>5
  <2>2. more \in Seq(RepoLinkRow)
    BY <1>9
  <2>3. QED
    BY ONLY <1>11, <2>1, <2>2, RepoJoined
<1>13. /\ k \in RepoFull /\ RepoSame(j, k) /\ k.stone = j.stone
       /\ (links = <<>> => k.stage = "architecture")
       /\ (links # <<>> => k.stage = "links" /\ k.links = links /\ k.next = "architecture")
  <2>1. k = Repo!Linking(j, links, "architecture")
    BY <1>0, <1>4, <1>11
  <2>2. "architecture" \in RepoNexts
    BY DEF RepoNexts
  <2>3. QED
    BY ONLY <1>1, <1>12, <2>1, <2>2, RepoLinkingIs
<1>14. /\ k.ask = j.ask /\ k.alone = j.alone /\ k.orientation = j.orientation /\ k.tree = j.tree
       /\ Repo!Current(k) = Repo!Current(j)
  BY <1>13 DEF RepoSame, Repo!Current
<1>15. RepoFullOK(st, ph, ch2, ed, j)
  <2>1. ~RepoSettled(st, j) /\ ~RepoHeading(j)
    BY DEF RepoSettled, RepoHeading, RepoApart
  <2>2. RepoOrientOK(st, ch2, j)
    BY <2>1 DEF RepoFullOK, RepoOrientOK
  <2>3. QED
    BY <2>2 DEF RepoFullOK
<1>16. j.todo = <<>> /\ j.accepted = Repo!Current(j)
  <2>1. ~RepoFiling(st, j)
    BY DEF RepoFiling
  <2>2. QED
    BY <2>1 DEF RepoFullOK, RepoAcceptedOK
<1>17. k.stage # "refs" /\ k.stage # "chain head" /\ RepoRefsOK(st, k)
  BY <1>13 DEF RepoRefsOK
<1>18. RepoOrientOK(st, ch2, k)
  BY <1>2, <1>13, <1>14, <1>17 DEF RepoFullOK, RepoOrientOK, RepoHeading
<1>19. RepoLinksOK(st, ed, k)
  <2>1. CASE links = <<>>
    <3>1. RepoRng(more) = {}
      BY <1>12, <2>1, RepoNoneIn
    <3>2. k.stage = "architecture" /\ (j.ask.link => Repo!Current(k) = {})
      BY <1>10, <1>13, <1>14, <2>1, <3>1
    <3>3. QED
      BY <1>14, <3>2 DEF RepoLinksOK, RepoHeading
  <2>2. CASE links # <<>>
    <3>1. k.stage = "links" /\ k.links = links /\ k.next = "architecture" /\ ~RepoSettled(st, k)
      BY <1>13, <2>2 DEF RepoSettled, RepoApart
    <3>2. \A l \in RepoRng(k.links) : RepoJoins(st, k.stone, l.to, l.type)
      BY <1>5, <1>9, <1>12, <1>13, <3>1
    <3>3. k.ask.link => \A x \in Repo!Current(k) :
            [to |-> x, type |-> "documents"] \in RepoRng(k.links)
      BY <1>10, <1>12, <1>14, <3>1
    <3>4. QED
      BY <2>2, <3>1, <3>2, <3>3 DEF RepoLinksOK, RepoNexts
  <2>3. QED
    BY <2>1, <2>2
<1>20. QED
  BY <1>0, <1>13, <1>14, <1>15, <1>16, <1>18, <1>19, <1>17, RepoMoved DEF RepoContinues

\* A link is written, and the request goes on with those that are left.
LEMMA RepoLinkedFull ==
  ASSUME NEW st, NEW ph, NEW ch, NEW ed, RepoEdgesOK(st, ed), NEW j, RepoFullOK(st, ph, ch, ed, j),
         j.stage = "links",
         NEW l, l = Head(j.links), NEW more,
         more = ed \cup {[from |-> j.stone, to |-> l.to, type |-> l.type]}
  PROVE  /\ RepoContinues(st, ph, ch, more, j,
              Repo!Linking([j EXCEPT !.links = <<>>], Tail(j.links), j.next))
         /\ RepoEdgesOK(st, more)
<1>0. PICK e, k : e = [from |-> j.stone, to |-> l.to, type |-> l.type]
                  /\ k = Repo!Linking([j EXCEPT !.links = <<>>], Tail(j.links), j.next)
  OBVIOUS
<1>1. j \in RepoFull
  BY DEF RepoFullOK
<1>2. /\ j.links # <<>> /\ j.next \in RepoNexts
      /\ \A x \in RepoRng(j.links) : RepoJoins(st, j.stone, x.to, x.type)
  BY DEF RepoFullOK, RepoLinksOK
<1>3. /\ l \in RepoLinkRow /\ Tail(j.links) \in Seq(RepoLinkRow)
      /\ RepoRng(j.links) = {l} \cup RepoRng(Tail(j.links))
  <2>1. j.links \in Seq(RepoLinkRow)
    BY <1>1 DEF RepoFull
  <2>2. QED
    BY <1>2, <2>1, RepoHeadTail
<1>4. RepoEdgesOK(st, more)
  <2>1. RepoJoins(st, j.stone, l.to, l.type)
    BY <1>2, <1>3
  <2>2. e.from = j.stone /\ e.to = l.to /\ e.type = l.type /\ more = ed \cup {e}
    BY <1>0
  <2>3. QED
    BY <2>1, <2>2 DEF RepoEdgesOK
<1>5. PICK m : m = [j EXCEPT !.links = <<>>]
  OBVIOUS
<1>6. m \in RepoFull /\ RepoSame(j, m) /\ m.stone = j.stone
  <2>1. <<>> \in Seq(RepoLinkRow)
    BY RepoNoneIn
  <2>2. QED
    BY ONLY <1>1, <1>5, <2>1 DEF RepoFull, RepoSame
<1>7. PICK rest : rest = Tail(j.links)
  OBVIOUS
<1>8. /\ k \in RepoFull /\ RepoSame(m, k) /\ k.stone = m.stone
      /\ (rest = <<>> => k.stage = j.next)
      /\ (rest # <<>> => k.stage = "links" /\ k.links = rest /\ k.next = j.next)
  <2>1. k = Repo!Linking(m, rest, j.next) /\ rest \in Seq(RepoLinkRow)
    BY <1>0, <1>3, <1>5, <1>7
  <2>2. QED
    BY <1>2, <1>6, <2>1, RepoLinkingIs
<1>9. RepoSame(j, k) /\ k.stone = j.stone /\ k.alone = j.alone /\ k.tree = j.tree /\
        k.ask = j.ask /\ k.orientation = j.orientation
  BY <1>6, <1>8 DEF RepoSame
<1>10. Repo!Current(k) = Repo!Current(j)
  BY <1>9 DEF RepoSame, Repo!Current
<1>11. RepoFullOK(st, ph, ch, more, j)
  <2>1. RepoLinksOK(st, more, j)
    BY DEF RepoFullOK, RepoLinksOK, RepoDocumented
  <2>2. QED
    BY <2>1 DEF RepoFullOK
<1>12. RepoRefsOK(st, k) /\ k.stage # "chain head"
  BY <1>2, <1>8 DEF RepoRefsOK, RepoNexts
<1>13. k.stage = "links" => k.links = rest /\
                            k.links # <<>> /\ k.next = j.next /\ RepoRng(k.links) \subseteq RepoRng(j.links)
  BY <1>2, <1>3, <1>7, <1>8 DEF RepoNexts
<1>14. k.stage = "links" => k.links # <<>> /\
                            \A x \in RepoRng(k.links) : RepoJoins(st, k.stone, x.to, x.type)
  BY <1>2, <1>9, <1>13
<1>15. CASE j.next = "files"
  <2>1. RepoFiling(st, k) /\ ~RepoSettled(st, k) /\ ~RepoHeading(k)
    BY <1>8, <1>15 DEF RepoFiling, RepoSettled, RepoHeading, RepoApart
  <2>2. RepoOrientOK(st, ch, k)
    BY <1>9, <1>12, <2>1 DEF RepoFullOK, RepoOrientOK
  <2>3. RepoLinksOK(st, more, k)
    BY <1>2, <1>13, <1>14, <2>1 DEF RepoLinksOK
  <2>4. QED
    BY <1>0, <1>4, <1>8, <1>9, <1>11, <1>12, <2>1, <2>2, <2>3, RepoMoved DEF RepoContinues
<1>16. CASE j.next = "architecture"
  <2>1. RepoHeading(j) /\ ~RepoFiling(st, j)
    BY <1>16 DEF RepoHeading, RepoFiling
  <2>2. j.todo = <<>> /\ j.accepted = Repo!Current(j)
    BY <2>1 DEF RepoFullOK, RepoAcceptedOK
  <2>3. j.ask.orient /\ j.stone = j.orientation /\ (j.alone /\ j.ask.head => ch = j.orientation)
    BY <2>1 DEF RepoFullOK, RepoOrientOK
  <2>4. RepoOrientOK(st, ch, k)
    BY <1>9, <1>12, <2>3 DEF RepoFullOK, RepoOrientOK
  <2>5. j.ask.link => \A s \in Repo!Current(j) : RepoDocumented(ed, j, s) \/
          [to |-> s, type |-> "documents"] \in RepoRng(j.links)
    BY <2>1 DEF RepoFullOK, RepoLinksOK
  <2>6. \A s : RepoDocumented(ed, j, s) => RepoDocumented(more, k, s)
    BY <1>9 DEF RepoDocumented
  <2>7. \A s : l = [to |-> s, type |-> "documents"] => RepoDocumented(more, k, s)
    BY <1>0, <1>9, <2>3 DEF RepoDocumented
  <2>8. k.ask.link => \A s \in Repo!Current(k) : RepoDocumented(more, k, s) \/
          [to |-> s, type |-> "documents"] \in RepoRng(rest)
    BY <1>3, <1>7, <1>9, <1>10, <2>5, <2>6, <2>7
  <2>9. CASE rest = <<>>
    <3>1. RepoRng(rest) = {} /\ k.stage = "architecture"
      BY <1>8, <1>16, <2>9, RepoNoneIn
    <3>2. RepoLinksOK(st, more, k)
      BY <2>8, <3>1 DEF RepoLinksOK, RepoHeading
    <3>3. QED
      BY <1>0, <1>4, <1>8, <1>9, <1>11, <1>12, <2>2, <2>4, <3>2, RepoMoved DEF RepoContinues
  <2>10. CASE rest # <<>>
    <3>1. k.stage = "links" /\ k.links = rest /\ k.next = "architecture" /\ ~RepoSettled(st, k)
      BY <1>8, <1>16, <2>10 DEF RepoSettled, RepoApart
    <3>2. RepoLinksOK(st, more, k)
      BY <1>14, <2>8, <3>1 DEF RepoLinksOK, RepoNexts
    <3>3. QED
      BY <1>0, <1>4, <1>8, <1>9, <1>11, <1>12, <2>2, <2>4, <3>2, RepoMoved DEF RepoContinues
  <2>11. QED
    BY <2>9, <2>10
<1>17. CASE j.next \in {"lint", "review", "finish"}
  <2>1. RepoSettled(st, j)
    BY <1>17 DEF RepoSettled
  <2>2. RepoSettled(st, k)
    BY <1>8, <1>17 DEF RepoSettled, RepoApart
  <2>3. QED
    BY <1>0, <1>4, <1>8, <1>9, <1>11, <1>12, <1>14, <2>1, <2>2, RepoMovedSettled DEF RepoContinues
<1>18. QED
  BY <1>2, <1>15, <1>16, <1>17 DEF RepoNexts

\* An ingestion that is no longer alone knows what it knew of the stones.
LEMMA RepoPartedFull ==
  ASSUME NEW st, NEW ph, NEW ch, NEW ed, NEW j, RepoFullOK(st, ph, ch, ed, j), NEW k,
         k = [j EXCEPT !.alone = FALSE]
  PROVE  RepoFullOK(st, ph, ch, ed, k) /\ ~k.alone /\ k.tree = j.tree /\ k.stage = j.stage /\
           k.stone = j.stone
<1>1. j \in RepoFull
  BY DEF RepoFullOK
<1>2. /\ k \in RepoFull /\ ~k.alone /\ k.todo = j.todo /\ k.accepted = j.accepted
      /\ k.ask = j.ask /\ k.prior = j.prior /\ k.previous = j.previous
      /\ k.tree = j.tree /\ k.created = j.created /\ k.reused = j.reused /\ k.failed = j.failed
      /\ k.orientation = j.orientation /\ k.stone = j.stone /\ k.stage = j.stage
      /\ k.links = j.links /\ k.next = j.next
  BY ONLY <1>1, k = [j EXCEPT !.alone = FALSE] DEF RepoFull
<1>3. Repo!Current(k) = Repo!Current(j)
  BY <1>2 DEF Repo!Current
<1>4. (RepoFiling(st, k) <=> RepoFiling(st, j)) /\ (RepoSettled(st, k) <=> RepoSettled(st, j)) /\
        (RepoHeading(k) <=> RepoHeading(j))
  BY <1>2 DEF RepoFiling, RepoSettled, RepoHeading
<1>5. RepoFilesOK(st, k)
  <2>1. RepoFilesOK(st, j)
    BY DEF RepoFullOK
  <2>2. QED
    BY ONLY <1>2, <1>3, <2>1 DEF RepoFilesOK
<1>6. RepoAcceptedOK(st, ph, k)
  BY <1>2, <1>3, <1>4 DEF RepoFullOK, RepoAcceptedOK
<1>7. RepoOrientOK(st, ch, k)
  BY <1>2, <1>4 DEF RepoFullOK, RepoOrientOK
<1>8. RepoRefsOK(st, k) /\ RepoPriorOK(st, k.prior, k.previous)
  BY <1>2 DEF RepoFullOK, RepoRefsOK
<1>9. RepoLinksOK(st, ed, k)
  <2>1. RepoLinksOK(st, ed, j)
    BY DEF RepoFullOK
  <2>2. \A s : RepoDocumented(ed, j, s) <=> RepoDocumented(ed, k, s)
    BY <1>2 DEF RepoDocumented
  <2>3. QED
    BY ONLY <1>2, <1>3, <1>4, <2>1, <2>2 DEF RepoLinksOK
<1>10. QED
  BY <1>2, <1>5, <1>6, <1>7, <1>8, <1>9 DEF RepoFullOK

(* Steps *)

\* Who is idle has no request.
LEMMA RepoIdleStage == Repo!Idle.stage = "idle" /\ Repo!Idle \notin RepoFull
BY DEF Repo!Idle, RepoFull, RepoNexts

\* Past the tree a request knows all it has done.
LEMMA RepoStageFull ==
  ASSUME NEW st, NEW ph, NEW ch, NEW ed, NEW j, RepoJobOK(st, ph, ch, ed, j),
         j.stage \notin {"idle", "head", "index", "tree"}
  PROVE  RepoFullOK(st, ph, ch, ed, j) /\ j \in RepoFull /\ j # Repo!Idle
BY RepoIdleStage DEF RepoJobOK, RepoEarlyOK, RepoFullOK

\* Whatever follows a stone, the tree stays the one that was read.
LEMMA RepoAfterSame ==
  ASSUME NEW j \in RepoFull, NEW stone, stone.kind \in {"file", "orientation"} \cup RepoApart
  PROVE  Repo!AfterStone(j, stone).alone = j.alone /\ Repo!AfterStone(j, stone).tree = j.tree
<1>1. \A m, links, next : m \in [DOMAIN m -> {m[x] : x \in DOMAIN m}] /\
        {"alone", "tree"} \subseteq DOMAIN m
        => Repo!Linking(m, links, next).alone = m.alone /\
          Repo!Linking(m, links, next).tree = m.tree
  BY DEF Repo!Linking
<1>2. j \in [DOMAIN j -> {j[x] : x \in DOMAIN j}] /\ {"alone", "tree"} \subseteq DOMAIN j
  BY DEF RepoFull
<1>3. CASE stone.kind = "file"
  <2>1. PICK m : m = [j EXCEPT !.created = @ \cup {j.stone}, !.todo = Tail(@)]
    OBVIOUS
  <2>2. m \in [DOMAIN m -> {m[x] : x \in DOMAIN m}] /\ {"alone", "tree"} \subseteq DOMAIN m /\
          m.alone = j.alone /\ m.tree = j.tree
    BY <1>2, <2>1
  <2>3. Repo!AfterStone(j, stone) =
          Repo!Linking(m, Repo!Supersedes(j, j.prior[stone.path]), "files")
    BY <1>3, <2>1 DEF Repo!AfterStone
  <2>4. QED
    BY <1>1, <2>2, <2>3
<1>4. CASE stone.kind = "orientation"
  <2>1. Repo!AfterStone(j, stone) = [j EXCEPT !.stage = "chain head", !.orientation = j.stone]
    BY <1>4 DEF Repo!AfterStone
  <2>2. QED
    BY <1>2, <2>1
<1>5. CASE stone.kind \in RepoApart
  <2>1. \E links, next : Repo!AfterStone(j, stone) = Repo!Linking(j, links, next)
    BY <1>5 DEF Repo!AfterStone, RepoApart
  <2>2. QED
    BY <1>1, <1>2, <2>1
<1>6. QED
  BY <1>3, <1>4, <1>5

\* Writing the refs of a stone leaves the invariant true.
LEMMA RepoRefsStep ==
  ASSUME NEW br, NEW st, NEW ph, NEW ch, NEW ed, NEW jb, NEW vw, NEW ls, NEW cm, NEW ct,
         RepoStateOK(br, st, ph, ch, ed, jb, vw, ls, cm, ct), RepositoryIsListed,
         NEW c \in Client, NEW j, j = jb[c], j.stage = "refs"
  PROVE  RepoStateOK(br, [st EXCEPT ![j.stone].whole = TRUE], ph, ch, ed,
              [jb EXCEPT ![c] = Repo!AfterStone(j, st[j.stone])], vw, ls, cm, ct)
<1>1. st \in Seq(RepoRow) /\ RepoHeadsOK(st, ph, ch) /\ RepoEdgesOK(st, ed) /\
        RepoJobOK(st, ph, ch, ed, j)
  BY DEF RepoStateOK, RepoTablesOK, RepoJobsOK
<1>2. RepoFullOK(st, ph, ch, ed, j) /\ j \in RepoFull /\ j # Repo!Idle
  BY <1>1, RepoStageFull
<1>3. j.stone \in DOMAIN st /\ st[j.stone].kind \in {"file", "orientation"} \cup RepoApart
  BY <1>2 DEF RepoFullOK, RepoRefsOK
<1>4. PICK new : new = [st EXCEPT ![j.stone].whole = TRUE]
  OBVIOUS
<1>5. /\ new \in Seq(RepoRow) /\ RepoAges(st, new) /\ DOMAIN new = DOMAIN st
      /\ new[j.stone].whole /\ \A s \in DOMAIN st : s # j.stone => new[s] = st[s]
  <2>1. RepoMade(st, j.stone, new)
    BY <1>1, <1>3, <1>4, RepoAgesByRefs
  <2>2. QED
    BY <2>1 DEF RepoMade
<1>6. RepoFullOK(new, ph, ch, ed, j)
  BY <1>2, <1>5, RepoAgedFull
<1>7. PICK stone : stone = st[j.stone]
  OBVIOUS
<1>8. new[j.stone].kind = stone.kind /\ (stone.kind = "file" => new[j.stone].path = stone.path)
  BY <1>3, <1>5, <1>7 DEF RepoAges
<1>9. PICK k : k = Repo!AfterStone(j, stone)
  OBVIOUS
<1>10. RepoFullOK(new, ph, ch, ed, k)
  BY <1>5, <1>6, <1>8, <1>9, RepoWrittenFull
<1>11. k \in RepoFull /\ k # Repo!Idle /\ k.alone = j.alone /\ k.tree = j.tree
  BY <1>2, <1>3, <1>7, <1>9, <1>10, RepoAfterSame, RepoIdleStage DEF RepoFullOK
<1>12. RepoTablesOK(new, ph, ch, ed)
  BY <1>1, <1>5, RepoAgedTables DEF RepoTablesOK
<1>13. PICK jb2 : jb2 = [jb EXCEPT ![c] = k]
  OBVIOUS
<1>14. jb2[c] = k /\ \A d \in Client : d # c => jb2[d] = jb[d]
  BY <1>13 DEF RepoStateOK, RepoJobsOK
<1>15. RepoWholeOK(new, jb2, ct)
  <2>1. SUFFICES ASSUME NEW s \in DOMAIN new
                 PROVE  new[s].whole \/ s \in ct \/ \E d \in Client : jb2[d].stage = "refs" /\
                          jb2[d].stone = s
    BY DEF RepoWholeOK
  <2>2. CASE s = j.stone
    BY <1>5, <2>2
  <2>3. CASE s # j.stone
    <3>1. new[s] = st[s] /\ s \in DOMAIN st
      BY <1>5, <2>3
    <3>2. st[s].whole \/ s \in ct \/ \E d \in Client : jb[d].stage = "refs" /\ jb[d].stone = s
      BY <3>1 DEF RepoStateOK, RepoWholeOK
    <3>3. \A d \in Client : jb[d].stone = s => d # c
      BY <2>3
    <3>4. QED
      BY <1>14, <3>1, <3>2, <3>3
  <2>4. QED
    BY <2>2, <2>3
<1>16. cm => \A s \in DOMAIN new : new[s].kind = "file" => new[s].text = new[s].sha
  <2>1. cm => \A s \in DOMAIN st : st[s].kind = "file" => st[s].text = st[s].sha
    BY DEF RepoStateOK, RepoCalmOK
  <2>2. QED
    BY <1>5, <2>1 DEF RepoAges
<1>17. cm => k.tree = br
  BY <1>2, <1>11 DEF RepoStateOK, RepoCalmOK
<1>18. RepoGoes(br, st, ed, jb, cm, ct, c, new, ph, ch, ed, k)
  BY <1>2, <1>5, <1>10, <1>11, <1>12, <1>13, <1>15, <1>16, <1>17 DEF RepoGoes, RepoJobOK
<1>19. RepoStateOK(br, new, ph, ch, ed, [jb EXCEPT ![c] = k], vw, ls, cm, ct)
  BY <1>18, RepoJobStep
<1>20. QED
  BY <1>4, <1>7, <1>9, <1>19

\* An ingestion that begins takes from the others that they are alone.
LEMMA RepoBeginStep ==
  ASSUME NEW br, NEW st, NEW ph, NEW ch, NEW ed, NEW jb, NEW vw, NEW ls, NEW cm, NEW ct,
         RepoStateOK(br, st, ph, ch, ed, jb, vw, ls, cm, ct),
         NEW c \in Client, jb[c].stage = "idle", NEW ask \in Ingestion,
         NEW jb2, jb2 = [d \in Client |->
                           IF d = c THEN [stage |-> "head", ask |-> ask,
                                          alone |-> \A e \in Client \ {c} : jb[e] = Repo!Idle]
                           ELSE IF jb[d] = Repo!Idle THEN Repo!Idle
                             ELSE [jb[d] EXCEPT !.alone = FALSE]]
  PROVE  RepoStateOK(br, st, ph, ch, ed, jb2, vw, Repo!Nothing, cm, ct)
<1>1. RepoJobsOK(st, ph, ch, ed, jb) /\ RepoWholeOK(st, jb, ct) /\ RepoCalmOK(br, st, jb, cm)
  BY DEF RepoStateOK
<1>2. PICK j : j = [stage |-> "head", ask |-> ask,
                    alone |-> \A e \in Client \ {c} : jb[e] = Repo!Idle]
  OBVIOUS
<1>3. j \in [stage : {"head"}, ask : Ingestion, alone : BOOLEAN] /\ j.stage = "head"
  BY <1>2
<1>4. j.alone <=> \A e \in Client \ {c} : jb[e] = Repo!Idle
  BY <1>2
<1>5. /\ jb2 = [d \in Client |-> jb2[d]] /\ jb2[c] = j
      /\ \A d \in Client : d # c =>
           jb2[d] = IF jb[d] = Repo!Idle THEN Repo!Idle ELSE [jb[d] EXCEPT !.alone = FALSE]
  BY <1>2
<1>6. \A d \in Client : d # c /\ jb[d] # Repo!Idle =>
        /\ RepoJobOK(st, ph, ch, ed, jb2[d]) /\ ~jb2[d].alone
        /\ jb2[d].stage = jb[d].stage /\ (jb[d].stage = "refs" => jb2[d].stone = jb[d].stone)
        /\ (jb2[d] \in RepoFull => jb[d] \in RepoFull /\ jb2[d].tree = jb[d].tree)
  <2>1. SUFFICES ASSUME NEW d \in Client, d # c, jb[d] # Repo!Idle
                 PROVE  /\ RepoJobOK(st, ph, ch, ed, jb2[d]) /\ ~jb2[d].alone
                        /\ jb2[d].stage = jb[d].stage /\
                             (jb[d].stage = "refs" => jb2[d].stone = jb[d].stone)
                        /\ (jb2[d] \in RepoFull => jb[d] \in RepoFull /\ jb2[d].tree = jb[d].tree)
    OBVIOUS
  <2>2. PICK m : m = jb[d]
    OBVIOUS
  <2>3. PICK k : k = [m EXCEPT !.alone = FALSE]
    OBVIOUS
  <2>4. jb2[d] = k /\ (RepoEarlyOK(st, m) \/ RepoFullOK(st, ph, ch, ed, m))
    BY <1>1, <1>5, <2>1, <2>2, <2>3 DEF RepoJobsOK, RepoJobOK
  <2>5. CASE RepoFullOK(st, ph, ch, ed, m)
    BY <2>2, <2>3, <2>4, <2>5, RepoPartedFull DEF RepoJobOK, RepoFullOK
  <2>6. CASE RepoEarlyOK(st, m)
    <3>1. RepoEarlyOK(st, k) /\ ~k.alone /\ k.stage = m.stage /\
            k.stage \in {"head", "index", "tree"}
      <4>1. CASE m \in [stage : {"head"}, ask : Ingestion, alone : BOOLEAN]
        BY ONLY <2>3, <4>1 DEF RepoEarlyOK
      <4>2. CASE m \in [stage : {"index"}, ask : Ingestion, alone : BOOLEAN, head : Nat] /\
                   RepoIsHead(st, m.head)
        BY ONLY <2>3, <4>2 DEF RepoEarlyOK
      <4>3. CASE /\ m \in [stage : {"tree"}, ask : Ingestion, alone : BOOLEAN,
                      prior : [Repo!Paths -> Nat], previous : Nat]
                 /\ RepoPriorOK(st, m.prior, m.previous)
        BY ONLY <2>3, <4>3 DEF RepoEarlyOK
      <4>4. QED
        BY <2>6, <4>1, <4>2, <4>3 DEF RepoEarlyOK
    <3>2. k \notin RepoFull
      BY <3>1 DEF RepoFull, RepoNexts
    <3>3. m.stage # "refs"
      BY <3>1
    <3>4. QED
      BY <2>2, <2>4, <3>1, <3>2, <3>3 DEF RepoJobOK
  <2>7. QED
    BY <2>4, <2>5, <2>6
<1>7. \A d \in Client : d # c /\ jb[d] = Repo!Idle => jb2[d] = Repo!Idle
  BY <1>5
<1>8. RepoJobsOK(st, ph, ch, ed, jb2)
  <2>1. \A d \in Client : RepoJobOK(st, ph, ch, ed, jb2[d])
    BY <1>3, <1>5, <1>6, <1>7 DEF RepoJobOK, RepoEarlyOK
  <2>2. \A d, e \in Client : d # e /\ jb2[d] # Repo!Idle /\ jb2[e] # Repo!Idle => ~jb2[d].alone
    BY <1>4, <1>5, <1>6, <1>7
  <2>3. QED
    BY <1>5, <2>1, <2>2 DEF RepoJobsOK
<1>9. RepoWholeOK(st, jb2, ct)
  <2>1. \A d \in Client : jb[d].stage = "refs" => d # c /\ jb[d] # Repo!Idle
    BY RepoIdleStage
  <2>2. QED
    BY <1>1, <1>6, <2>1 DEF RepoWholeOK
<1>10. RepoCalmOK(br, st, jb2, cm)
  <2>1. j \notin RepoFull
    BY <1>3 DEF RepoFull, RepoNexts
  <2>2. QED
    BY <1>1, <1>5, <1>6, <1>7, <2>1, RepoIdleStage DEF RepoCalmOK
<1>11. RepoTablesOK(st, ph, ch, ed) /\ RepoViewOK(st, vw)
  BY DEF RepoStateOK
<1>12. QED
  BY <1>8, <1>9, <1>10, <1>11 DEF RepoStateOK, RepoLastOK

\* A request that dies leaves the tables as they are.
LEMMA RepoDieStep ==
  ASSUME NEW br, NEW st, NEW ph, NEW ch, NEW ed, NEW jb, NEW vw, NEW ls, NEW cm, NEW ct,
         RepoStateOK(br, st, ph, ch, ed, jb, vw, ls, cm, ct),
         NEW c \in Client, jb[c] # Repo!Idle
  PROVE  RepoStateOK(br, st, ph, ch, ed, [jb EXCEPT ![c] = Repo!Idle], vw, ls, cm,
              IF jb[c].stage = "refs" THEN ct \cup {jb[c].stone} ELSE ct)
<1>1. RepoJobsOK(st, ph, ch, ed, jb) /\ RepoWholeOK(st, jb, ct) /\ RepoCalmOK(br, st, jb, cm)
  BY DEF RepoStateOK
<1>2. PICK jb2 : jb2 = [jb EXCEPT ![c] = Repo!Idle]
  OBVIOUS
<1>3. jb2 = [d \in Client |-> jb2[d]] /\ jb2[c] = Repo!Idle /\ \A d \in Client : d # c =>
        jb2[d] = jb[d]
  BY <1>1, <1>2 DEF RepoJobsOK
<1>4. RepoJobsOK(st, ph, ch, ed, jb2)
  <2>1. \A d \in Client : RepoJobOK(st, ph, ch, ed, jb2[d])
    BY <1>1, <1>3 DEF RepoJobsOK, RepoJobOK
  <2>2. \A d, e \in Client : d # e /\ jb2[d] # Repo!Idle /\ jb2[e] # Repo!Idle => ~jb2[d].alone
    BY <1>1, <1>3 DEF RepoJobsOK
  <2>3. QED
    BY <1>3, <2>1, <2>2 DEF RepoJobsOK
<1>5. RepoWholeOK(st, jb2, IF jb[c].stage = "refs" THEN ct \cup {jb[c].stone} ELSE ct)
  BY <1>1, <1>3 DEF RepoWholeOK
<1>6. RepoCalmOK(br, st, jb2, cm)
  BY <1>1, <1>3, RepoIdleStage DEF RepoCalmOK
<1>7. ls = Repo!Nothing
  BY DEF RepoStateOK, RepoLastOK
<1>8. RepoTablesOK(st, ph, ch, ed) /\ RepoViewOK(st, vw)
  BY DEF RepoStateOK
<1>9. QED
  BY <1>2, <1>4, <1>5, <1>6, <1>7, <1>8 DEF RepoStateOK, RepoLastOK

\* An ingestion that ran alone ends with what it was asked for.
LEMMA RepoFinishStep ==
  ASSUME NEW br, NEW st, NEW ph, NEW ch, NEW ed, NEW jb, NEW vw, NEW ls, NEW cm, NEW ct,
         RepoStateOK(br, st, ph, ch, ed, jb, vw, ls, cm, ct), RepositoryIsListed,
         NEW c \in Client, NEW j, j = jb[c], j.stage = "finish"
  PROVE  RepoStateOK(br, st, ph, ch, ed, [jb EXCEPT ![c] = Repo!Idle], vw,
              IF j.alone THEN [ended |-> TRUE, of |-> Repo!Outcome(j)] ELSE Repo!Nothing, cm, ct)
<1>1. /\ RepoJobsOK(st, ph, ch, ed, jb) /\ RepoWholeOK(st, jb, ct) /\ RepoCalmOK(br, st, jb, cm)
      /\ RepoTablesOK(st, ph, ch, ed) /\ RepoViewOK(st, vw)
  BY DEF RepoStateOK
<1>2. RepoFullOK(st, ph, ch, ed, j) /\ j \in RepoFull /\ j # Repo!Idle
  BY <1>1, RepoStageFull DEF RepoJobsOK
<1>3. PICK jb2 : jb2 = [jb EXCEPT ![c] = Repo!Idle]
  OBVIOUS
<1>4. jb2 = [d \in Client |-> jb2[d]] /\ jb2[c] = Repo!Idle /\ \A d \in Client : d # c =>
        jb2[d] = jb[d]
  BY <1>1, <1>3 DEF RepoJobsOK
<1>5. RepoStateOK(br, st, ph, ch, ed, jb2, vw, ls, cm, ct) /\ ls = Repo!Nothing
  BY <1>2, <1>3, RepoDieStep DEF RepoStateOK, RepoLastOK
<1>6. PICK o : o = Repo!Outcome(j)
  OBVIOUS
<1>7. o.ask = j.ask /\ o.tree = j.tree /\ o.failed = j.failed /\ o.orientation = j.orientation
  BY <1>6 DEF Repo!Outcome
<1>8. CASE j.alone
  <2>1. \A d \in Client : jb2[d] = Repo!Idle
    BY <1>1, <1>2, <1>4, <1>8 DEF RepoJobsOK
  <2>2. RepoSettled(st, j) /\ ~RepoFiling(st, j)
    BY DEF RepoSettled, RepoFiling
  <2>3. j.todo = <<>> /\ j.accepted = Repo!Current(j) /\
          \A s \in j.accepted : ph[st[s].path] \in j.accepted
    BY <1>2, <1>8, <2>2 DEF RepoFullOK, RepoAcceptedOK
  <2>4. st \in Seq(RepoRow) /\ ph \in [Repo!Paths -> Nat] /\ \A p \in Repo!Paths : ph[p] # 0 =>
          RepoIsFile(st, ph[p], p)
    BY <1>1 DEF RepoTablesOK, RepoHeadsOK
  <2>5. RepoFilesOK(st, j)
    BY <1>2 DEF RepoFullOK
  <2>6. \A p \in Repo!Wanted(o) : /\ p \in Repo!Paths /\ o.tree[p] # Repo!Absent
                                  /\ p \in RepoRng(Repo!Candidates(j.ask, j.tree)) /\
                                       p \notin j.failed
    <3>1. \A p \in Repo!Wanted(o) : p \in RepoRng(Repo!Candidates(j.ask, j.tree)) /\
            p \notin j.failed
      BY <1>7 DEF Repo!Wanted, RepoRng
    <3>2. j.ask \in Ingestion
      BY <1>2 DEF RepoFull
    <3>3. \A p \in RepoRng(Repo!Candidates(j.ask, j.tree)) : p \in Repo!Paths /\
            j.tree[p] # Repo!Absent
      BY <3>2, RepoCandidatesAre
    <3>4. QED
      BY <1>7, <3>1, <3>3
  <2>7. \A p \in Repo!Wanted(o) : ph[p] \in Repo!Current(j)
    <3>1. RepoRng(j.todo) = {}
      BY <2>3, RepoNoneIn
    <3>2. \A p \in Repo!Wanted(o) : \E s \in Repo!Current(j) : st[s].path = p
      BY <2>5, <2>6, <3>1 DEF RepoFilesOK
    <3>3. QED
      BY <2>3, <3>2
  <2>8. \A s \in Repo!Current(j) : s \in DOMAIN st /\ s # 0 /\ st[s].sha = j.tree[st[s].path]
    BY <2>4, <2>5 DEF RepoFilesOK
  <2>9. RepoBrought(st, ph, o)
    <3>1. \A p \in Repo!Wanted(o) : st[ph[p]].path = p
      BY <2>4, <2>6, <2>7, <2>8 DEF RepoIsFile
    <3>2. QED
      BY <1>7, <2>6, <2>7, <2>8, <3>1 DEF RepoBrought
  <2>10. j.ask.orient /\ j.ask.link => \A s \in Repo!Current(j) : RepoDocumented(ed, o, s)
    BY <1>2, <1>7, <2>2 DEF RepoFullOK, RepoLinksOK, RepoDocumented
  <2>11. j.ask.orient /\ j.ask.head => ch = o.orientation
    BY <1>2, <1>7, <1>8, <2>2 DEF RepoFullOK, RepoOrientOK
  <2>12. RepoEndedWith(st, ph, ch, ed, o)
    BY <1>7, <2>7, <2>9, <2>10, <2>11 DEF RepoEndedWith
  <2>13. RepoLastOK(st, ph, ch, ed, jb2, [ended |-> TRUE, of |-> o])
    BY <2>1, <2>12 DEF RepoLastOK
  <2>14. QED
    BY <1>3, <1>5, <1>6, <1>8, <2>13 DEF RepoStateOK
<1>9. CASE ~j.alone
  BY <1>3, <1>5, <1>9 DEF RepoStateOK
<1>10. QED
  BY <1>8, <1>9

\* The branch moves, and nothing that was read of it.
LEMMA RepoPushStep ==
  ASSUME NEW br, NEW st, NEW ph, NEW ch, NEW ed, NEW jb, NEW vw, NEW ls, NEW cm, NEW ct,
         RepoStateOK(br, st, ph, ch, ed, jb, vw, ls, cm, ct),
         NEW p \in Repo!Paths, NEW t \in Blob \cup {Repo!Absent}
  PROVE  RepoStateOK([br EXCEPT ![p] = t], st, ph, ch, ed, jb, vw, ls,
              cm /\ \A c \in Client : jb[c] = Repo!Idle, ct)
<1>1. RepoCalmOK(br, st, jb, cm)
  BY DEF RepoStateOK
<1>2. PICK br2 : br2 = [br EXCEPT ![p] = t]
  OBVIOUS
<1>3. br2 \in [Repo!Paths -> RepoBlob]
  BY <1>1, <1>2 DEF RepoCalmOK, RepoBlob
<1>4. PICK cm2 : cm2 = (cm /\ \A c \in Client : jb[c] = Repo!Idle)
  OBVIOUS
<1>5. cm2 \in BOOLEAN /\ (cm2 => cm /\ \A c \in Client : jb[c] = Repo!Idle)
  BY <1>4
<1>6. RepoCalmOK(br2, st, jb, cm2)
  BY <1>1, <1>3, <1>5, RepoIdleStage DEF RepoCalmOK
<1>7. QED
  BY <1>2, <1>4, <1>6 DEF RepoStateOK

(* The actions *)

RepoNow(br, st, ph, ch, ed, jb, vw, ls, cm, ct) ==
  /\ branch = br /\ chain = st /\ pathHeads = ph /\ chainHead = ch /\ edges = ed
  /\ ingestion = jb /\ view = vw /\ latest = ls /\ calm = cm /\ cut = ct

\* What the ingestion of a client is at a stage.
LEMMA RepoAtFull ==
  ASSUME NEW br, NEW st, NEW ph, NEW ch, NEW ed, NEW jb, NEW vw, NEW ls, NEW cm, NEW ct,
         RepoStateOK(br, st, ph, ch, ed, jb, vw, ls, cm, ct), NEW c \in Client,
         jb[c].stage \notin {"idle", "head", "index", "tree"}
  PROVE  /\ RepoFullOK(st, ph, ch, ed, jb[c]) /\ jb[c] \in RepoFull /\ jb[c] # Repo!Idle
         /\ cm => jb[c].tree = br
<1>1. RepoJobOK(st, ph, ch, ed, jb[c]) /\ RepoCalmOK(br, st, jb, cm)
  BY DEF RepoStateOK, RepoJobsOK
<1>2. RepoFullOK(st, ph, ch, ed, jb[c]) /\ jb[c] \in RepoFull /\ jb[c] # Repo!Idle
  BY <1>1, RepoStageFull
<1>3. QED
  BY <1>1, <1>2 DEF RepoCalmOK

\* What a request knows before it has the tree.
LEMMA RepoAtEarly ==
  ASSUME NEW br, NEW st, NEW ph, NEW ch, NEW ed, NEW jb, NEW vw, NEW ls, NEW cm, NEW ct,
         RepoStateOK(br, st, ph, ch, ed, jb, vw, ls, cm, ct), NEW c \in Client,
         jb[c].stage \in {"head", "index", "tree"}
  PROVE  RepoEarlyOK(st, jb[c]) /\ jb[c] # Repo!Idle
<1>1. RepoJobOK(st, ph, ch, ed, jb[c])
  BY DEF RepoStateOK, RepoJobsOK
<1>2. ~RepoFullOK(st, ph, ch, ed, jb[c])
  BY DEF RepoFullOK, RepoFull, RepoNexts
<1>3. QED
  BY <1>1, <1>2, RepoIdleStage DEF RepoJobOK

\* Only the ingestion changes.
LEMMA RepoQuietStep ==
  ASSUME NEW br, NEW st, NEW ph, NEW ch, NEW ed, NEW jb, NEW vw, NEW ls, NEW cm, NEW ct,
         RepoStateOK(br, st, ph, ch, ed, jb, vw, ls, cm, ct),
         NEW c \in Client, jb[c] # Repo!Idle, jb[c].stage # "refs",
         NEW j, j # Repo!Idle, j.alone = jb[c].alone,
         RepoEarlyOK(st, j) \/ RepoFullOK(st, ph, ch, ed, j),
         cm /\ j \in RepoFull => j.tree = br
  PROVE  RepoStateOK(br, st, ph, ch, ed, [jb EXCEPT ![c] = j], vw, ls, cm, ct)
<1>1. RepoHeadsOK(st, ph, ch) /\ RepoEdgesOK(st, ed) /\ RepoJobOK(st, ph, ch, ed, j)
  BY DEF RepoStateOK, RepoTablesOK, RepoJobOK
<1>2. QED
  BY <1>1, RepoPlainStep DEF RepoContinues

\* Reading the head, the stones and the tree.
LEMMA RepoEarlyStep ==
  ASSUME NEW br, NEW st, NEW ph, NEW ch, NEW ed, NEW jb, NEW vw, NEW ls, NEW cm, NEW ct,
         RepoNow(br, st, ph, ch, ed, jb, vw, ls, cm, ct),
           RepoStateOK(br, st, ph, ch, ed, jb, vw, ls, cm, ct),
         RepositoryIsListed, NEW c \in Client,
         Repo!ReadHead(c) \/ Repo!ReadIndex(c) \/ Repo!ReadTree(c)
  PROVE  RepoIInv'
<1>1. PICK j : j = jb[c]
  OBVIOUS
<1>2. ingestion[c] = j /\ j.stage \in {"head", "index", "tree"}
  BY <1>1 DEF RepoNow, Repo!ReadHead, Repo!ReadIndex, Repo!ReadTree, Repo!At
<1>3. RepoEarlyOK(st, j) /\ j # Repo!Idle /\ j.stage # "refs"
  BY <1>1, <1>2, RepoAtEarly
<1>4. st \in Seq(RepoRow) /\ RepoHeadsOK(st, ph, ch) /\ br \in [Repo!Paths -> RepoBlob]
  BY DEF RepoStateOK, RepoTablesOK, RepoCalmOK
<1>5. PICK n \in Nat : DOMAIN st = 1..n
  BY <1>4
<1>6. \A S \in SUBSET DOMAIN st : S # {} => Repo!Latest(S) \in S
  BY <1>5, RepoLatestIs
<1>7. RepoIsHead(st, ch) /\ ch \in Nat
  BY <1>4, <1>5 DEF RepoHeadsOK, RepoIsHead
<1>8. ASSUME Repo!ReadHead(c) PROVE RepoIInv'
  <2>1. PICK k : k = [stage |-> "index", ask |-> j.ask, alone |-> j.alone, head |-> ch]
    OBVIOUS
  <2>2. j.stage = "head" /\ ingestion' = [jb EXCEPT ![c] = k]
        /\ UNCHANGED <<branch, Repo!tables, view, Repo!history>>
    BY <1>1, <1>8, <2>1 DEF RepoNow, Repo!ReadHead, Repo!At, Repo!Become
  <2>3. j \in [stage : {"head"}, ask : Ingestion, alone : BOOLEAN]
    BY <1>3, <2>2 DEF RepoEarlyOK
  <2>4. RepoEarlyOK(st, k) /\ k.alone = j.alone /\ k.stage = "index"
    BY <1>7, <2>1, <2>3 DEF RepoEarlyOK
  <2>5. k # Repo!Idle /\ k \notin RepoFull
    BY <2>4, RepoIdleStage DEF RepoFull, RepoNexts
  <2>6. RepoStateOK(br, st, ph, ch, ed, [jb EXCEPT ![c] = k], vw, ls, cm, ct)
    BY <1>1, <1>3, <2>4, <2>5, RepoQuietStep DEF RepoContinues
  <2>7. QED
    BY <2>2, <2>6 DEF RepoIInv, RepoNow, Repo!tables, Repo!history
<1>9. ASSUME Repo!ReadIndex(c) PROVE RepoIInv'
  <2>1. PICK prior : prior = [p \in Repo!Paths |-> Repo!Latest(Repo!Files(p))]
    OBVIOUS
  <2>2. PICK previous : previous = IF Repo!Of("orientation") = {} THEN j.head
               ELSE Repo!Latest(Repo!Of("orientation"))
    OBVIOUS
  <2>3. PICK k : k = [stage |-> "tree", ask |-> j.ask, alone |-> j.alone,
                      prior |-> prior, previous |-> previous]
    OBVIOUS
  <2>4. j.stage = "index" /\ ingestion' = [jb EXCEPT ![c] = k]
        /\ UNCHANGED <<branch, Repo!tables, view, Repo!history>>
    BY <1>1, <1>9, <2>1, <2>2, <2>3 DEF RepoNow, Repo!ReadIndex, Repo!At, Repo!Become
  <2>5. j \in [stage : {"index"}, ask : Ingestion, alone : BOOLEAN, head : Nat] /\ RepoIsHead(st, j.head)
    BY <1>3, <2>4 DEF RepoEarlyOK
  <2>6. RepoPriorOK(st, prior, previous) /\ previous \in Nat
    <3>1. \A p : Repo!Files(p) \in SUBSET DOMAIN st /\ \A s \in Repo!Files(p) : RepoIsFile(st, s, p)
      BY DEF Repo!Files, RepoIsFile, RepoNow
    <3>2. \A p : Repo!Latest(Repo!Files(p)) = 0 \/ Repo!Latest(Repo!Files(p)) \in Repo!Files(p)
      BY <1>6, <3>1 DEF Repo!Latest
    <3>3. \A p \in Repo!Paths : prior[p] \in Nat /\ (prior[p] # 0 => RepoIsFile(st, prior[p], p))
      BY <1>5, <2>1, <3>1, <3>2
    <3>4. prior \in [Repo!Paths -> Nat]
      BY <2>1, <3>3
    <3>5. Repo!Of("orientation") \in SUBSET DOMAIN st /\
            \A s \in Repo!Of("orientation") : RepoIsHead(st, s)
      BY DEF Repo!Of, RepoIsHead, RepoNow
    <3>6. RepoIsHead(st, previous)
      BY <1>6, <2>2, <2>5, <3>5
    <3>7. previous \in Nat
      BY <1>5, <3>6 DEF RepoIsHead
    <3>8. QED
      BY <3>3, <3>4, <3>6, <3>7 DEF RepoPriorOK
  <2>7. RepoEarlyOK(st, k) /\ k.alone = j.alone /\ k.stage = "tree"
    <3>1. prior \in [Repo!Paths -> Nat]
      BY <2>6 DEF RepoPriorOK
    <3>2. k \in [stage : {"tree"}, ask : Ingestion, alone : BOOLEAN,
                  prior : [Repo!Paths -> Nat], previous : Nat]
      BY ONLY <2>3, <2>5, <2>6, <3>1
    <3>3. k.prior = prior /\ k.previous = previous /\ k.alone = j.alone /\ k.stage = "tree"
      BY <2>3
    <3>4. QED
      BY <2>6, <3>2, <3>3 DEF RepoEarlyOK
  <2>8. k # Repo!Idle /\ k \notin RepoFull
    BY <2>7, RepoIdleStage DEF RepoFull, RepoNexts
  <2>9. RepoStateOK(br, st, ph, ch, ed, [jb EXCEPT ![c] = k], vw, ls, cm, ct)
    BY <1>1, <1>3, <2>7, <2>8, RepoQuietStep DEF RepoContinues
  <2>10. QED
    BY <2>4, <2>9 DEF RepoIInv, RepoNow, Repo!tables, Repo!history
<1>10. ASSUME Repo!ReadTree(c) PROVE RepoIInv'
  <2>1. PICK todo : todo = Repo!Candidates(j.ask, br)
    OBVIOUS
  <2>2. PICK k : k = [stage |-> "files", ask |-> j.ask, alone |-> j.alone,
                      prior |-> j.prior, previous |-> j.previous, tree |-> br, todo |-> todo,
                      created |-> {}, reused |-> {}, failed |-> {}, accepted |-> {},
                      stone |-> 0, links |-> <<>>, next |-> "", orientation |-> 0]
    OBVIOUS
  <2>3. j.stage = "tree" /\ ingestion' = [jb EXCEPT ![c] = k]
        /\ UNCHANGED <<branch, Repo!tables, view, Repo!history>>
    BY <1>1, <1>10, <2>1, <2>2 DEF RepoNow, Repo!ReadTree, Repo!At, Repo!Become
  <2>4. /\ j \in [stage : {"tree"}, ask : Ingestion, alone : BOOLEAN,
                  prior : [Repo!Paths -> Nat], previous : Nat]
        /\ RepoPriorOK(st, j.prior, j.previous)
    BY <1>3, <2>3 DEF RepoEarlyOK
  <2>5. todo \in Seq(Repo!Paths)
    BY <2>1, <2>4, RepoCandidatesAre
  <2>6. k \in RepoFull
    <3>1. <<>> \in Seq(RepoLinkRow)
      BY RepoNoneIn
    <3>2. k.stage \in {"refs", "links", "chain head"} \cup RepoNexts
      BY <2>2 DEF RepoNexts
    <3>3. /\ j.ask \in Ingestion /\ j.alone \in BOOLEAN /\ j.prior \in [Repo!Paths -> Nat] /\
               j.previous \in Nat
          /\ "files" \in {"refs", "links", "chain head"} \cup RepoNexts
      BY <2>4 DEF RepoNexts
    <3>4. QED
      BY ONLY <1>4, <2>2, <2>5, <3>1, <3>3 DEF RepoFull
  <2>7. /\ k.stage = "files" /\ k.ask = j.ask /\ k.alone = j.alone /\ k.prior = j.prior /\
             k.previous = j.previous
        /\ k.tree = br /\ k.todo = todo /\ k.created = {} /\ k.reused = {} /\ k.accepted = {} /\
             k.orientation = 0
    BY <2>2
  <2>8. Repo!Current(k) = {}
    BY <2>7 DEF Repo!Current
  <2>9. RepoFilesOK(st, k)
    BY <2>1, <2>7, <2>8 DEF RepoFilesOK
  <2>10. RepoFiling(st, k) /\ ~RepoSettled(st, k) /\ ~RepoHeading(k)
    BY <2>7 DEF RepoFiling, RepoSettled, RepoHeading, RepoApart
  <2>11. RepoAcceptedOK(st, ph, k) /\ RepoOrientOK(st, ch, k) /\ RepoRefsOK(st, k) /\
           RepoLinksOK(st, ed, k)
    BY <2>7, <2>8, <2>10 DEF RepoAcceptedOK, RepoOrientOK, RepoRefsOK, RepoLinksOK
  <2>12. RepoFullOK(st, ph, ch, ed, k)
    BY <2>4, <2>6, <2>7, <2>9, <2>11 DEF RepoFullOK
  <2>13. k # Repo!Idle
    BY <2>7, RepoIdleStage
  <2>14. RepoStateOK(br, st, ph, ch, ed, [jb EXCEPT ![c] = k], vw, ls, cm, ct)
    BY <1>1, <1>3, <2>7, <2>12, <2>13, RepoQuietStep DEF RepoContinues
  <2>15. QED
    BY <2>3, <2>14 DEF RepoIInv, RepoNow, Repo!tables, Repo!history
<1>11. QED
  BY <1>8, <1>9, <1>10

\* Reusing, creating, failing and accepting the files.
LEMMA RepoFilesStep ==
  ASSUME NEW br, NEW st, NEW ph, NEW ch, NEW ed, NEW jb, NEW vw, NEW ls, NEW cm, NEW ct,
         RepoNow(br, st, ph, ch, ed, jb, vw, ls, cm, ct),
           RepoStateOK(br, st, ph, ch, ed, jb, vw, ls, cm, ct),
         RepositoryIsListed, NEW c \in Client,
         Repo!Reuse(c) \/ Repo!CreateFile(c) \/ Repo!FailFile(c) \/ Repo!Accept(c) \/ Repo!Orient(c)
  PROVE  RepoIInv'
<1>1. PICK j : j = jb[c]
  OBVIOUS
<1>2. ingestion[c] = j /\ j.stage = "files"
  BY <1>1 DEF RepoNow, Repo!Reuse, Repo!CreateFile, Repo!FailFile, Repo!Accept, Repo!Orient, Repo!At
<1>3. RepoFullOK(st, ph, ch, ed, j) /\ j \in RepoFull /\ j # Repo!Idle /\ (cm => j.tree = br)
  BY <1>1, <1>2, RepoAtFull
<1>4. st \in Seq(RepoRow) /\ RepoHeadsOK(st, ph, ch) /\ RepoEdgesOK(st, ed) /\
        br \in [Repo!Paths -> RepoBlob]
  BY DEF RepoStateOK, RepoTablesOK, RepoCalmOK
<1>5. \A k : RepoFullOK(st, ph, ch, ed, k) => k # Repo!Idle
  BY RepoIdleStage DEF RepoFullOK
<1>6. j.todo # <<>> => Head(j.todo) \in Repo!Paths
  BY <1>3, RepoHeadTail DEF RepoFull
<1>7. ASSUME Repo!Reuse(c) PROVE RepoIInv'
  <2>1. PICK p : p = Head(j.todo)
    OBVIOUS
  <2>2. PICK old : old = j.prior[p]
    OBVIOUS
  <2>3. PICK k : k = [j EXCEPT !.todo = Tail(@), !.reused = @ \cup {old}]
    OBVIOUS
  <2>4. /\ j.todo # <<>> /\ old # 0 /\ st[old].sha = j.tree[p] /\ ingestion' = [jb EXCEPT ![c] = k]
        /\ UNCHANGED <<branch, Repo!tables, view, Repo!history>>
    BY <1>1, <1>7, <2>1, <2>2, <2>3 DEF RepoNow, Repo!Reuse, Repo!Unchanged, Repo!Become
  <2>5. RepoContinues(st, ph, ch, ed, j, k)
    BY <1>2, <1>3, <1>4, <2>1, <2>2, <2>3, <2>4, RepoReusedFull
  <2>6. RepoStateOK(br, st, ph, ch, ed, [jb EXCEPT ![c] = k], vw, ls, cm, ct)
    BY <1>1, <1>2, <1>3, <1>5, <2>5, RepoQuietStep DEF RepoContinues
  <2>7. QED
    BY <2>4, <2>6 DEF RepoIInv, RepoNow, Repo!tables, Repo!history
<1>8. ASSUME Repo!FailFile(c) PROVE RepoIInv'
  <2>1. PICK k : k = [j EXCEPT !.todo = Tail(@), !.failed = @ \cup {Head(j.todo)}]
    OBVIOUS
  <2>2. /\ j.todo # <<>> /\ ingestion' = [jb EXCEPT ![c] = k]
        /\ UNCHANGED <<branch, Repo!tables, view, Repo!history>>
    BY <1>1, <1>8, <2>1 DEF RepoNow, Repo!FailFile, Repo!Become
  <2>3. RepoContinues(st, ph, ch, ed, j, k)
    BY <1>2, <1>3, <2>1, <2>2, RepoFailedFull
  <2>4. RepoStateOK(br, st, ph, ch, ed, [jb EXCEPT ![c] = k], vw, ls, cm, ct)
    BY <1>1, <1>2, <1>3, <1>5, <2>3, RepoQuietStep DEF RepoContinues
  <2>5. QED
    BY <2>2, <2>4 DEF RepoIInv, RepoNow, Repo!tables, Repo!history
<1>9. ASSUME Repo!CreateFile(c) PROVE RepoIInv'
  <2>1. PICK p : p = Head(j.todo)
    OBVIOUS
  <2>2. PICK stone : stone = [kind |-> "file", path |-> p, sha |-> j.tree[p], text |-> br[p],
                              whole |-> FALSE]
    OBVIOUS
  <2>3. PICK k : k = [j EXCEPT !.stage = "refs", !.stone = Len(st) + 1]
    OBVIOUS
  <2>4. /\ j.todo # <<>> /\ br[p] # Repo!Absent /\ Len(st) < MaxStones
        /\ chain' = Append(st, stone) /\ ingestion' = [jb EXCEPT ![c] = k]
        /\ UNCHANGED <<branch, pathHeads, chainHead, edges, view, Repo!history>>
    BY <1>1, <1>9, <2>1, <2>2, <2>3 DEF RepoNow, Repo!CreateFile, Repo!Insert, Repo!Become
  <2>5. p \in Repo!Paths /\ j.tree[p] \in RepoBlob /\ br[p] \in RepoBlob
    BY <1>3, <1>4, <1>6, <2>1, <2>4 DEF RepoFull
  <2>6. stone \in RepoRow
    BY <2>2, <2>5 DEF RepoRow
  <2>7. cm => stone.text = stone.sha
    BY <1>3, <2>2
  <2>8. RepoInsertable(st, cm, j, stone)
    <3>1. stone.kind = "file" /\ stone.path = p /\ stone.sha = j.tree[p] /\ ~stone.whole
      BY <2>2
    <3>2. QED
      BY <1>2, <2>1, <2>4, <2>6, <2>7, <3>1 DEF RepoInsertable
  <2>9. RepoRefers(st, j, k) /\ RepoGrown(st, stone, Append(st, stone))
    BY <1>3, <1>4, <2>3, <2>6, RepoRefersBy, RepoAgesByInsert
  <2>10. RepoStateOK(br, Append(st, stone), ph, ch, ed, [jb EXCEPT ![c] = k], vw, ls, cm, ct)
    BY <1>1, <1>3, <2>8, <2>9, RepoInsertStep
  <2>11. QED
    BY <2>4, <2>10 DEF RepoIInv, RepoNow, Repo!history
<1>10. ASSUME Repo!Accept(c) PROVE RepoIInv'
  <2>1. PICK s : s = IF j.created \subseteq j.accepted THEN Repo!Lowest(Repo!Unaccepted(j))
                     ELSE Repo!Lowest(j.created \ j.accepted)
    OBVIOUS
  <2>2. PICK ph2 : ph2 = [ph EXCEPT ![st[s].path] = s]
    OBVIOUS
  <2>3. PICK k : k = [j EXCEPT !.accepted = @ \cup {s}]
    OBVIOUS
  <2>4. /\ Repo!Unaccepted(j) # {} /\ pathHeads' = ph2 /\ ingestion' = [jb EXCEPT ![c] = k]
        /\ UNCHANGED <<branch, chain, chainHead, edges, view, Repo!history>>
    BY <1>1, <1>10, <2>1, <2>2, <2>3 DEF RepoNow, Repo!Accept, Repo!Become
  <2>5. s \in Repo!Current(j)
    <3>1. Repo!Unaccepted(j) \in SUBSET Nat /\ j.created \ j.accepted \in SUBSET Nat
      BY <1>3 DEF RepoFull, Repo!Unaccepted, Repo!Current
    <3>2. CASE j.created \subseteq j.accepted
      BY <2>1, <2>4, <3>1, <3>2, RepoLowestIs DEF Repo!Unaccepted
    <3>3. CASE ~(j.created \subseteq j.accepted)
      <4>1. j.created \ j.accepted # {}
        BY <3>3
      <4>2. s \in j.created \ j.accepted
        BY <2>1, <3>1, <3>3, <4>1, RepoLowestIs
      <4>3. QED
        BY <4>2 DEF Repo!Current
    <3>4. QED
      BY <3>2, <3>3
  <2>6. RepoContinues(st, ph2, ch, ed, j, k) /\ RepoHeadsOK(st, ph2, ch)
    BY <1>2, <1>3, <1>4, <2>2, <2>3, <2>5, RepoAcceptedFull
  <2>7. k # Repo!Idle /\ RepoJobOK(st, ph2, ch, ed, k)
    BY <2>6, RepoIdleStage DEF RepoFullOK, RepoJobOK, RepoContinues
  <2>8. RepoStateOK(br, st, ph2, ch, ed, [jb EXCEPT ![c] = k], vw, ls, cm, ct)
    BY <1>1, <1>2, <1>3, <1>4, <2>6, <2>7, RepoPlainStep DEF RepoContinues
  <2>9. QED
    BY <2>4, <2>8 DEF RepoIInv, RepoNow, Repo!history
<1>11. ASSUME Repo!Orient(c) PROVE RepoIInv'
  <2>1. j.todo = <<>> /\ Repo!Unaccepted(j) = {}
    BY <1>1, <1>11 DEF RepoNow, Repo!Orient
  <2>2. j.accepted = Repo!Current(j)
    BY <1>3, <2>1 DEF RepoFullOK, RepoAcceptedOK, Repo!Unaccepted
  <2>3. CASE j.ask.orient
    <3>1. PICK stone : stone = [kind |-> "orientation", whole |-> FALSE]
      OBVIOUS
    <3>2. PICK k : k = [j EXCEPT !.stage = "refs", !.stone = Len(st) + 1]
      OBVIOUS
    <3>3. /\ Len(st) < MaxStones /\ chain' = Append(st, stone) /\ ingestion' = [jb EXCEPT ![c] = k]
          /\ UNCHANGED <<branch, pathHeads, chainHead, edges, view, Repo!history>>
      BY <1>1, <1>11, <2>3, <3>1, <3>2 DEF RepoNow, Repo!Orient, Repo!Insert, Repo!Become
    <3>4. stone \in RepoRow /\ stone.kind = "orientation" /\ ~stone.whole
      BY <3>1 DEF RepoRow, RepoAbout
    <3>5. RepoInsertable(st, cm, j, stone)
      BY <1>2, <2>1, <2>2, <2>3, <3>3, <3>4 DEF RepoInsertable
    <3>6. RepoRefers(st, j, k) /\ RepoGrown(st, stone, Append(st, stone))
      BY <1>3, <1>4, <3>2, <3>4, RepoRefersBy, RepoAgesByInsert
    <3>7. RepoStateOK(br, Append(st, stone), ph, ch, ed, [jb EXCEPT ![c] = k], vw, ls, cm, ct)
      BY <1>1, <1>3, <3>5, <3>6, RepoInsertStep
    <3>8. QED
      BY <3>3, <3>7 DEF RepoIInv, RepoNow, Repo!history
  <2>4. CASE ~j.ask.orient
    <3>1. PICK k : k = [j EXCEPT !.stage = "architecture"]
      OBVIOUS
    <3>2. /\ ingestion' = [jb EXCEPT ![c] = k]
          /\ UNCHANGED <<branch, chain, pathHeads, chainHead, edges, view, Repo!history>>
      BY <1>1, <1>11, <2>4, <3>1 DEF RepoNow, Repo!Orient, Repo!Go, Repo!Become
    <3>3. RepoContinues(st, ph, ch, ed, j, k)
      BY <1>2, <1>3, <2>1, <2>2, <2>4, <3>1, RepoNextFull
    <3>4. RepoStateOK(br, st, ph, ch, ed, [jb EXCEPT ![c] = k], vw, ls, cm, ct)
      BY <1>1, <1>2, <1>3, <1>5, <3>3, RepoQuietStep DEF RepoContinues
    <3>5. QED
      BY <3>2, <3>4 DEF RepoIInv, RepoNow, Repo!history
  <2>5. QED
    BY <2>3, <2>4
<1>12. QED
  BY <1>7, <1>8, <1>9, <1>10, <1>11

\* Inserting the stones about the repository.
LEMMA RepoDeriveStep ==
  ASSUME NEW br, NEW st, NEW ph, NEW ch, NEW ed, NEW jb, NEW vw, NEW ls, NEW cm, NEW ct,
         RepoNow(br, st, ph, ch, ed, jb, vw, ls, cm, ct),
           RepoStateOK(br, st, ph, ch, ed, jb, vw, ls, cm, ct),
         RepositoryIsListed, NEW c \in Client, NEW kind \in RepoApart, NEW next \in {"lint",
         "review", "finish"},
         NEW wanted, Repo!Derive(c, kind, wanted, next)
  PROVE  RepoIInv'
<1>1. PICK j : j = jb[c]
  OBVIOUS
<1>2. ingestion[c] = j /\ j.stage = kind
  BY <1>1 DEF RepoNow, Repo!Derive, Repo!At
<1>3. RepoFullOK(st, ph, ch, ed, j) /\ j \in RepoFull /\ j # Repo!Idle /\ (cm => j.tree = br)
  BY <1>1, <1>2, RepoAtFull DEF RepoApart
<1>4. st \in Seq(RepoRow) /\ j.stage # "refs"
  BY <1>2 DEF RepoStateOK, RepoTablesOK, RepoApart
<1>5. CASE wanted
  <2>1. PICK stone : stone = [kind |-> kind, whole |-> FALSE]
    OBVIOUS
  <2>2. PICK k : k = [j EXCEPT !.stage = "refs", !.stone = Len(st) + 1]
    OBVIOUS
  <2>3. /\ Len(st) < MaxStones /\ chain' = Append(st, stone) /\ ingestion' = [jb EXCEPT ![c] = k]
        /\ UNCHANGED <<branch, pathHeads, chainHead, edges, view, Repo!history>>
    BY <1>1, <1>5, <2>1, <2>2 DEF RepoNow, Repo!Derive, Repo!Insert, Repo!Become
  <2>4. stone \in RepoRow /\ stone.kind = kind /\ ~stone.whole
    BY <2>1 DEF RepoRow, RepoAbout, RepoApart
  <2>5. RepoInsertable(st, cm, j, stone)
    BY <1>2, <2>3, <2>4 DEF RepoInsertable
  <2>6. RepoRefers(st, j, k) /\ RepoGrown(st, stone, Append(st, stone))
    BY <1>3, <1>4, <2>2, <2>4, RepoRefersBy, RepoAgesByInsert
  <2>7. RepoStateOK(br, Append(st, stone), ph, ch, ed, [jb EXCEPT ![c] = k], vw, ls, cm, ct)
    BY <1>1, <1>3, <2>5, <2>6, RepoInsertStep
  <2>8. QED
    BY <2>3, <2>7 DEF RepoIInv, RepoNow, Repo!history
<1>6. CASE ~wanted
  <2>1. PICK k : k = [j EXCEPT !.stage = next]
    OBVIOUS
  <2>2. /\ ingestion' = [jb EXCEPT ![c] = k]
        /\ UNCHANGED <<branch, chain, pathHeads, chainHead, edges, view, Repo!history>>
    BY <1>1, <1>6, <2>1 DEF RepoNow, Repo!Derive, Repo!Go, Repo!Become
  <2>3. RepoContinues(st, ph, ch, ed, j, k)
    BY <1>2, <1>3, <2>1, RepoNextFull
  <2>4. k # Repo!Idle
    BY <2>3, RepoIdleStage DEF RepoFullOK, RepoContinues
  <2>5. RepoStateOK(br, st, ph, ch, ed, [jb EXCEPT ![c] = k], vw, ls, cm, ct)
    BY <1>1, <1>3, <1>4, <2>3, <2>4, RepoQuietStep DEF RepoContinues
  <2>6. QED
    BY <2>2, <2>5 DEF RepoIInv, RepoNow, Repo!history
<1>7. QED
  BY <1>5, <1>6

\* The stages after the files.
LEMMA RepoLateStep ==
  ASSUME NEW br, NEW st, NEW ph, NEW ch, NEW ed, NEW jb, NEW vw, NEW ls, NEW cm, NEW ct,
         RepoNow(br, st, ph, ch, ed, jb, vw, ls, cm, ct),
           RepoStateOK(br, st, ph, ch, ed, jb, vw, ls, cm, ct),
         RepositoryIsListed, NEW c \in Client,
         \/ Repo!Begin(c) \/ Repo!InsertRefs(c) \/ Repo!Link(c) \/ Repo!SetHead(c) \/
              Repo!Finish(c) \/ Repo!Die(c)
         \/ Repo!Architecture(c) \/ Repo!Lint(c) \/ Repo!Review(c)
  PROVE  RepoIInv'
<1>1. PICK j : j = jb[c]
  OBVIOUS
<1>2. ingestion[c] = j /\ st \in Seq(RepoRow) /\ RepoHeadsOK(st, ph, ch) /\ RepoEdgesOK(st, ed)
  BY <1>1 DEF RepoNow, RepoStateOK, RepoTablesOK
<1>3. ASSUME Repo!Begin(c) PROVE RepoIInv'
  <2>1. PICK ask \in Ingestion :
          ingestion' = [d \in Client |->
                         IF d = c THEN [stage |-> "head", ask |-> ask,
                                        alone |-> \A e \in Client \ {c} : ingestion[e] = Repo!Idle]
                         ELSE IF ingestion[d] = Repo!Idle THEN Repo!Idle
                           ELSE [ingestion[d] EXCEPT !.alone = FALSE]]
    BY <1>3 DEF Repo!Begin
  <2>2. PICK jb2 : jb2 = [d \in Client |->
                   IF d = c THEN [stage |-> "head", ask |-> ask,
                                  alone |-> \A e \in Client \ {c} : jb[e] = Repo!Idle]
                   ELSE IF jb[d] = Repo!Idle THEN Repo!Idle ELSE [jb[d] EXCEPT !.alone = FALSE]]
    OBVIOUS
  <2>3. ingestion' = jb2 /\ j.stage = "idle" /\ latest' = Repo!Nothing /\
          UNCHANGED <<branch, Repo!tables, view, calm, cut>>
    BY <1>2, <1>3, <2>1, <2>2 DEF Repo!Begin, Repo!At, RepoNow
  <2>4. RepoStateOK(br, st, ph, ch, ed, jb2, vw, Repo!Nothing, cm, ct)
    BY <1>1, <2>2, <2>3, RepoBeginStep
  <2>5. QED
    BY <2>3, <2>4 DEF RepoIInv, RepoNow, Repo!tables
<1>4. ASSUME Repo!InsertRefs(c) PROVE RepoIInv'
  <2>1. /\ j.stage = "refs" /\ chain' = [st EXCEPT ![j.stone].whole = TRUE]
        /\ ingestion' = [jb EXCEPT ![c] = Repo!AfterStone(j, st[j.stone])]
        /\ UNCHANGED <<branch, pathHeads, chainHead, edges, view, Repo!history>>
    BY <1>1, <1>4 DEF RepoNow, Repo!InsertRefs, Repo!At, Repo!Become
  <2>2. RepoStateOK(br, [st EXCEPT ![j.stone].whole = TRUE], ph, ch, ed,
             [jb EXCEPT ![c] = Repo!AfterStone(j, st[j.stone])], vw, ls, cm, ct)
    BY <1>1, <2>1, RepoRefsStep
  <2>3. QED
    BY <2>1, <2>2 DEF RepoIInv, RepoNow, Repo!history
<1>5. ASSUME Repo!Link(c) PROVE RepoIInv'
  <2>1. PICK l : l = Head(j.links)
    OBVIOUS
  <2>2. PICK more : more = ed \cup {[from |-> j.stone, to |-> l.to, type |-> l.type]}
    OBVIOUS
  <2>3. PICK k : k = Repo!Linking([j EXCEPT !.links = <<>>], Tail(j.links), j.next)
    OBVIOUS
  <2>4. /\ j.stage = "links" /\ edges' = more /\ ingestion' = [jb EXCEPT ![c] = k]
        /\ UNCHANGED <<branch, chain, pathHeads, chainHead, view, Repo!history>>
    BY <1>1, <1>5, <2>1, <2>2, <2>3 DEF RepoNow, Repo!Link, Repo!At, Repo!Become
  <2>10. jb[c].stage \notin {"idle", "head", "index", "tree"}
    BY <1>1, <2>4
  <2>5. RepoFullOK(st, ph, ch, ed, j) /\ j \in RepoFull /\ j # Repo!Idle /\ (cm => j.tree = br)
    BY <1>1, <2>10, RepoAtFull
  <2>6. RepoContinues(st, ph, ch, more, j, k) /\ RepoEdgesOK(st, more)
    BY <1>2, <2>1, <2>2, <2>3, <2>4, <2>5, RepoLinkedFull
  <2>7. k # Repo!Idle /\ RepoJobOK(st, ph, ch, more, k) /\ ed \subseteq more
    BY <2>2, <2>6, RepoIdleStage DEF RepoFullOK, RepoJobOK, RepoContinues
  <2>8. RepoStateOK(br, st, ph, ch, more, [jb EXCEPT ![c] = k], vw, ls, cm, ct)
    BY <1>1, <1>2, <2>4, <2>5, <2>6, <2>7, RepoPlainStep DEF RepoContinues
  <2>9. QED
    BY <2>4, <2>8 DEF RepoIInv, RepoNow, Repo!history
<1>6. ASSUME Repo!SetHead(c) PROVE RepoIInv'
  <2>1. PICK ch2 : ch2 = IF j.ask.head THEN j.orientation ELSE ch
    OBVIOUS
  <2>2. PICK more : more = IF j.ask.link THEN Repo!Links(Repo!CurrentFiles(j), "documents")
               ELSE <<>>
    OBVIOUS
  <2>3. PICK k : k = Repo!Linking(j, Repo!Supersedes(j, j.previous) \o more, "architecture")
    OBVIOUS
  <2>4. /\ j.stage = "chain head" /\ chainHead' = ch2 /\ ingestion' = [jb EXCEPT ![c] = k]
        /\ UNCHANGED <<branch, chain, pathHeads, edges, view, Repo!history>>
    BY <1>1, <1>6, <2>1, <2>2, <2>3 DEF RepoNow, Repo!SetHead, Repo!At, Repo!Become
  <2>10. jb[c].stage \notin {"idle", "head", "index", "tree"}
    BY <1>1, <2>4
  <2>5. RepoFullOK(st, ph, ch, ed, j) /\ j \in RepoFull /\ j # Repo!Idle /\ (cm => j.tree = br)
    BY <1>1, <2>10, RepoAtFull
  <2>6. RepoContinues(st, ph, ch2, ed, j, k)
    BY <1>2, <2>1, <2>2, <2>3, <2>4, <2>5, RepoHeadedFull
  <2>7. RepoHeadsOK(st, ph, ch2)
    <3>1. RepoOrientOK(st, ch, j) /\ j.stage = "chain head"
      BY <2>4, <2>5 DEF RepoFullOK
    <3>2. RepoIsHead(st, j.orientation) /\ st[j.orientation].whole
      BY <3>1 DEF RepoOrientOK, RepoIsHead
    <3>3. QED
      BY <1>2, <2>1, <3>2 DEF RepoHeadsOK
  <2>8. k # Repo!Idle /\ RepoJobOK(st, ph, ch2, ed, k)
    BY <2>6, RepoIdleStage DEF RepoFullOK, RepoJobOK, RepoContinues
  <2>9. RepoStateOK(br, st, ph, ch2, ed, [jb EXCEPT ![c] = k], vw, ls, cm, ct)
    BY <1>1, <1>2, <2>4, <2>5, <2>6, <2>7, <2>8, RepoPlainStep DEF RepoContinues
  <2>11. QED
    BY <2>4, <2>9 DEF RepoIInv, RepoNow, Repo!history
<1>7. ASSUME Repo!Finish(c) PROVE RepoIInv'
  <2>1. PICK ls2 : ls2 = IF j.alone THEN [ended |-> TRUE, of |-> Repo!Outcome(j)] ELSE Repo!Nothing
    OBVIOUS
  <2>2. /\ j.stage = "finish" /\ latest' = ls2 /\ ingestion' = [jb EXCEPT ![c] = Repo!Idle]
        /\ UNCHANGED <<branch, Repo!tables, view, begun, calm, cut>>
    BY <1>1, <1>7, <2>1 DEF RepoNow, Repo!Finish, Repo!At, Repo!Become
  <2>3. RepoStateOK(br, st, ph, ch, ed, [jb EXCEPT ![c] = Repo!Idle], vw, ls2, cm, ct)
    BY <1>1, <2>1, <2>2, RepoFinishStep
  <2>4. QED
    BY <2>2, <2>3 DEF RepoIInv, RepoNow, Repo!tables
<1>8. ASSUME Repo!Die(c) PROVE RepoIInv'
  <2>1. PICK ct2 : ct2 = IF j.stage = "refs" THEN ct \cup {j.stone} ELSE ct
    OBVIOUS
  <2>2. /\ j # Repo!Idle /\ cut' = ct2 /\ ingestion' = [jb EXCEPT ![c] = Repo!Idle]
        /\ UNCHANGED <<branch, Repo!tables, view, latest, begun, calm>>
    BY <1>1, <1>8, <2>1 DEF RepoNow, Repo!Die, Repo!At, Repo!Become
  <2>3. RepoStateOK(br, st, ph, ch, ed, [jb EXCEPT ![c] = Repo!Idle], vw, ls, cm, ct2)
    BY <1>1, <2>1, <2>2, RepoDieStep
  <2>4. QED
    BY <2>2, <2>3 DEF RepoIInv, RepoNow, Repo!tables
<1>9. ASSUME Repo!Architecture(c) PROVE RepoIInv'
  <2>1. PICK wanted : wanted = (j.ask.architecture /\ j.orientation # 0)
    OBVIOUS
  <2>2. Repo!Derive(c, "architecture", wanted, "lint")
    BY <1>1, <1>9, <2>1 DEF RepoNow, Repo!Architecture
  <2>3. QED
    BY <2>2, RepoDeriveStep DEF RepoApart
<1>10. ASSUME Repo!Lint(c) PROVE RepoIInv'
  <2>1. PICK wanted : wanted = (j.ask.lint /\ Repo!Current(j) # {})
    OBVIOUS
  <2>2. Repo!Derive(c, "lint", wanted, "review")
    BY <1>1, <1>10, <2>1 DEF RepoNow, Repo!Lint
  <2>3. QED
    BY <2>2, RepoDeriveStep DEF RepoApart
<1>11. ASSUME Repo!Review(c) PROVE RepoIInv'
  <2>1. PICK wanted : wanted = (j.ask.review /\ Repo!Current(j) # {})
    OBVIOUS
  <2>2. Repo!Derive(c, "review", wanted, "finish")
    BY <1>1, <1>11, <2>1 DEF RepoNow, Repo!Review
  <2>3. QED
    BY <2>2, RepoDeriveStep DEF RepoApart
<1>12. QED
  BY <1>3, <1>4, <1>5, <1>6, <1>7, <1>8, <1>9, <1>10, <1>11

\* Readers change nothing but their views.
LEMMA RepoViewStep ==
  ASSUME NEW br, NEW st, NEW ph, NEW ch, NEW ed, NEW jb, NEW vw, NEW ls, NEW cm, NEW ct,
         RepoNow(br, st, ph, ch, ed, jb, vw, ls, cm, ct),
           RepoStateOK(br, st, ph, ch, ed, jb, vw, ls, cm, ct),
         Repo!Read
  PROVE  RepoIInv'
<1>1. ASSUME NEW v, Repo!See(v), RepoViewOK(st, v) PROVE RepoIInv'
  <2>1. view' = v /\ UNCHANGED <<branch, Repo!tables, ingestion, Repo!history>>
    BY <1>1 DEF Repo!See
  <2>2. RepoStateOK(br, st, ph, ch, ed, jb, v, ls, cm, ct)
    BY <1>1 DEF RepoStateOK
  <2>3. QED
    BY <2>1, <2>2 DEF RepoIInv, RepoNow, Repo!tables, Repo!history
<1>2. st \in Seq(RepoRow) /\ RepoHeadsOK(st, ph, ch) /\ RepoViewOK(st, vw) /\
        RepoLastOK(st, ph, ch, ed, jb, ls) /\ RepoCalmOK(br, st, jb, cm)
  BY DEF RepoStateOK, RepoTablesOK
<1>3. RepoViewOK(st, Repo!Idle)
  BY RepoIdleStage DEF RepoViewOK
<1>4. ch \in DOMAIN st /\ \A p \in Repo!Paths : ph[p] # 0 => RepoIsFile(st, ph[p], p)
  BY <1>2 DEF RepoHeadsOK, RepoIsHead
<1>5. ASSUME Repo!BeginReconcile PROVE RepoIInv'
  <2>1. PICK v : v = [stage |-> "observe", accepted |-> ph, last |-> ls]
    OBVIOUS
  <2>2. Repo!See(v)
    BY <1>5, <2>1 DEF Repo!BeginReconcile, RepoNow
  <2>3. v.stage = "observe" /\ v.accepted = ph /\ v.last = ls
    BY <2>1
  <2>4. ls.ended => RepoBrought(st, ph, ls.of)
    BY <1>2 DEF RepoLastOK, RepoEndedWith, Repo!Nothing
  <2>5. RepoViewOK(st, v)
    BY <1>4, <2>3, <2>4 DEF RepoViewOK
  <2>6. QED
    BY <1>1, <2>2, <2>5
<1>6. ASSUME Repo!Observe PROVE RepoIInv'
  <2>1. CASE Repo!See(Repo!Idle)
    BY <1>1, <1>3, <2>1
  <2>2. PICK drift : drift = [p \in Repo!Paths |-> Repo!Compared(vw.accepted[p], br[p])]
    OBVIOUS
  <2>3. PICK after : after = IF vw.last = ls /\ ls.ended /\ br = ls.of.tree /\
               cm THEN Repo!Wanted(ls.of) ELSE {}
    OBVIOUS
  <2>4. PICK v : v = [stage |-> "reconciled", drift |-> drift, after |-> after]
    OBVIOUS
  <2>5. vw.stage = "observe" /\ (Repo!See(Repo!Idle) \/ Repo!See(v))
    BY <1>6, <2>2, <2>3, <2>4 DEF Repo!Observe, RepoNow
  <2>6. /\ \A p \in Repo!Paths : vw.accepted[p] # 0 => RepoIsFile(st, vw.accepted[p], p)
        /\ vw.last.ended => RepoBrought(st, vw.accepted, vw.last.of)
    BY <1>2, <2>5 DEF RepoViewOK
  <2>7. \A p \in after : drift[p] = "in_sync"
    <3>1. SUFFICES ASSUME NEW p \in after PROVE drift[p] = "in_sync"
      OBVIOUS
    <3>2. vw.last = ls /\ ls.ended /\ br = ls.of.tree /\ cm /\ p \in Repo!Wanted(ls.of)
      BY <2>3, <3>1
    <3>3. PICK a : a = vw.accepted[p]
      OBVIOUS
    <3>4. p \in Repo!Paths /\ a # 0 /\ st[a].sha = br[p] /\ br[p] # Repo!Absent
      BY <2>6, <3>2, <3>3 DEF RepoBrought
    <3>5. RepoIsFile(st, a, p)
      BY <2>6, <3>3, <3>4
    <3>6. st[a].text = br[p]
      BY <1>2, <3>2, <3>4, <3>5 DEF RepoCalmOK, RepoIsFile
    <3>7. Repo!Compared(a, br[p]) = "in_sync"
      BY <3>4, <3>6 DEF Repo!Compared, RepoNow
    <3>8. QED
      BY <2>2, <3>3, <3>4, <3>7
  <2>8. RepoViewOK(st, v)
    <3>1. v.stage = "reconciled" /\ v.drift = drift /\ v.after = after
      BY <2>4
    <3>2. QED
      BY <2>7, <3>1 DEF RepoViewOK
  <2>9. QED
    BY <1>1, <1>3, <2>5, <2>8
<1>7. ASSUME Repo!BeginManifest PROVE RepoIInv'
  <2>1. PICK v : v = [stage |-> "path heads", head |-> ch]
    OBVIOUS
  <2>2. Repo!See(v)
    BY <1>7, <2>1 DEF Repo!BeginManifest, RepoNow
  <2>3. v.stage = "path heads" /\ v.head = ch
    BY <2>1
  <2>4. RepoViewOK(st, v)
    BY <1>4, <2>3 DEF RepoViewOK
  <2>5. QED
    BY <1>1, <2>2, <2>4
<1>8. ASSUME Repo!ShowPaths PROVE RepoIInv'
  <2>1. PICK v : v = [stage |-> "nodes", head |-> vw.head, paths |-> ph]
    OBVIOUS
  <2>2. Repo!See(v) /\ vw.stage = "path heads"
    BY <1>8, <2>1 DEF Repo!ShowPaths, RepoNow
  <2>3. v.stage = "nodes" /\ v.head = vw.head /\ v.paths = ph
    BY <2>1
  <2>4. RepoViewOK(st, v)
    BY <1>2, <1>4, <2>2, <2>3 DEF RepoViewOK, RepoShown, RepoIsFile
  <2>5. QED
    BY <1>1, <2>2, <2>4
<1>9. ASSUME Repo!ShowNodes PROVE RepoIInv'
  <2>1. PICK v : v = [stage |-> "edges", head |-> vw.head, paths |-> vw.paths, nodes |-> DOMAIN st]
    OBVIOUS
  <2>2. Repo!See(v) /\ vw.stage = "nodes"
    BY <1>9, <2>1 DEF Repo!ShowNodes, RepoNow
  <2>3. v.stage = "edges" /\ v.head = vw.head /\ v.paths = vw.paths /\ v.nodes = DOMAIN st
    BY <2>1
  <2>4. RepoViewOK(st, v)
    BY <1>2, <2>2, <2>3 DEF RepoViewOK
  <2>5. QED
    BY <1>1, <2>2, <2>4
<1>10. ASSUME Repo!ShowEdges PROVE RepoIInv'
  <2>1. PICK v : v = [stage |-> "shown", head |-> vw.head, paths |-> vw.paths, nodes |-> vw.nodes,
                      edges |-> {e \in ed : e.from \in vw.nodes \/ e.to \in vw.nodes}]
    OBVIOUS
  <2>2. Repo!See(v) /\ vw.stage = "edges"
    BY <1>10, <2>1 DEF Repo!ShowEdges, RepoNow
  <2>3. v.stage = "shown" /\ v.head = vw.head /\ v.paths = vw.paths /\ v.nodes = vw.nodes
    BY <2>1
  <2>4. RepoViewOK(st, v)
    BY <1>2, <2>2, <2>3 DEF RepoViewOK
  <2>5. QED
    BY <1>1, <2>2, <2>4
<1>11. ASSUME Repo!Forget PROVE RepoIInv'
  BY <1>1, <1>3, <1>11 DEF Repo!Forget
<1>12. QED
  BY <1>5, <1>6, <1>7, <1>8, <1>9, <1>10, <1>11 DEF Repo!Read

\* Every step leaves the invariant true.
LEMMA RepoIInvSteps == ASSUME RepositoryIsListed, RepoIInv, [Repo!Next]_(Repo!vars) PROVE RepoIInv'
<1>1. PICK br, st, ph, ch, ed, jb, vw, ls, cm, ct : RepoNow(br, st, ph, ch, ed, jb, vw, ls, cm, ct)
  BY DEF RepoNow
<1>2. RepoStateOK(br, st, ph, ch, ed, jb, vw, ls, cm, ct)
  BY <1>1 DEF RepoIInv, RepoNow
<1>3. CASE UNCHANGED Repo!vars
  BY <1>1, <1>2, <1>3 DEF RepoIInv, RepoNow, Repo!vars
<1>4. CASE Repo!Push
  <2>1. PICK p \in Repo!Paths, t \in Blob \cup {Repo!Absent} : branch' = [branch EXCEPT ![p] = t]
    BY <1>4 DEF Repo!Push
  <2>2. PICK br2, cm2 : br2 = [br EXCEPT ![p] = t] /\
               cm2 = (cm /\ \A c \in Client : jb[c] = Repo!Idle)
    OBVIOUS
  <2>3. branch' = br2 /\ calm' = cm2 /\
          UNCHANGED <<Repo!tables, ingestion, view, latest, begun, cut>>
    BY <1>1, <1>4, <2>1, <2>2 DEF Repo!Push, RepoNow
  <2>4. RepoStateOK(br2, st, ph, ch, ed, jb, vw, ls, cm2, ct)
    BY <1>2, <2>2, RepoPushStep
  <2>5. QED
    BY <1>1, <2>3, <2>4 DEF RepoIInv, RepoNow, Repo!tables
<1>5. CASE Repo!Read
  BY <1>1, <1>2, <1>5, RepoViewStep
<1>6. CASE \E c \in Client : Repo!Ingest(c)
  <2>1. PICK c \in Client : Repo!Ingest(c)
    BY <1>6
  <2>2. CASE Repo!ReadHead(c) \/ Repo!ReadIndex(c) \/ Repo!ReadTree(c)
    BY <1>1, <1>2, <2>2, RepoEarlyStep
  <2>3. CASE Repo!Reuse(c) \/ Repo!CreateFile(c) \/ Repo!FailFile(c) \/ Repo!Accept(c) \/
               Repo!Orient(c)
    BY <1>1, <1>2, <2>3, RepoFilesStep
  <2>4. CASE \/ Repo!Begin(c) \/ Repo!InsertRefs(c) \/ Repo!Link(c) \/ Repo!SetHead(c) \/
                  Repo!Finish(c) \/ Repo!Die(c)
             \/ Repo!Architecture(c) \/ Repo!Lint(c) \/ Repo!Review(c)
    BY <1>1, <1>2, <2>4, RepoLateStep
  <2>5. QED
    BY <2>1, <2>2, <2>3, <2>4 DEF Repo!Ingest
<1>7. QED
  BY <1>3, <1>4, <1>5, <1>6 DEF Repo!Next

\* The invariant is true of the chain with a note in it.
LEMMA RepoIInvStarts == ASSUME Repo!Init PROVE RepoIInv
<1>1. PICK st : st = <<[kind |-> "note", whole |-> TRUE]>>
  OBVIOUS
<1>2. PICK note : note = [kind |-> "note", whole |-> TRUE]
  OBVIOUS
<1>3. note \in RepoRow /\ note.kind = "note" /\ note.whole
  BY <1>2 DEF RepoRow, RepoAbout
<1>4. st \in Seq(RepoRow) /\ DOMAIN st = {1} /\ st[1] = note
  <2>1. st = <<note>>
    BY <1>1, <1>2
  <2>2. QED
    BY ONLY <2>1, <1>3
<1>5. PICK ph : ph = [p \in Repo!Paths |-> 0]
  OBVIOUS
<1>6. RepoHeadsOK(st, ph, 1) /\ RepoEdgesOK(st, {})
  BY <1>3, <1>4, <1>5 DEF RepoHeadsOK, RepoEdgesOK, RepoIsHead
<1>7. PICK jb : jb = [c \in Client |-> Repo!Idle]
  OBVIOUS
<1>8. RepoJobsOK(st, ph, 1, {}, jb)
  BY <1>7 DEF RepoJobsOK, RepoJobOK
<1>9. RepoWholeOK(st, jb, {})
  BY <1>3, <1>4 DEF RepoWholeOK
<1>10. PICK br : br = [p \in Repo!Paths |-> CHOOSE t \in Blob : t \in Noted]
  OBVIOUS
<1>11. br \in [Repo!Paths -> RepoBlob]
  BY <1>10 DEF RepoBlob
<1>12. RepoCalmOK(br, st, jb, TRUE)
  <2>1. \A s \in DOMAIN st : st[s].kind # "file"
    BY <1>3, <1>4
  <2>2. \A c \in Client : jb[c] \notin RepoFull
    BY <1>7, RepoIdleStage
  <2>3. QED
    BY <1>11, <2>1, <2>2 DEF RepoCalmOK
<1>13. RepoLastOK(st, ph, 1, {}, jb, Repo!Nothing) /\ RepoViewOK(st, Repo!Idle)
  BY RepoIdleStage DEF RepoLastOK, RepoViewOK
<1>14. RepoStateOK(br, st, ph, 1, {}, jb, Repo!Idle, Repo!Nothing, TRUE, {})
  BY <1>4, <1>6, <1>8, <1>9, <1>12, <1>13 DEF RepoStateOK, RepoTablesOK
<1>15. QED
  BY <1>1, <1>5, <1>7, <1>10, <1>14 DEF Repo!Init, RepoIInv

\* The invariant says what the run checks.
LEMMA RepoIInvSays == ASSUME RepoIInv PROVE Repo!RepositoryKept
<1>1. PICK br, st, ph, ch, ed, jb, vw, ls, cm, ct : RepoNow(br, st, ph, ch, ed, jb, vw, ls, cm, ct)
  BY DEF RepoNow
<1>2. RepoStateOK(br, st, ph, ch, ed, jb, vw, ls, cm, ct)
  BY <1>1 DEF RepoIInv, RepoNow
<1>3. RepoHeadsOK(st, ph, ch) /\ RepoEdgesOK(st, ed) /\ RepoWholeOK(st, jb, ct) /\
        RepoCalmOK(br, st, jb, cm)
      /\ RepoLastOK(st, ph, ch, ed, jb, ls) /\ RepoViewOK(st, vw)
  BY <1>2 DEF RepoStateOK, RepoTablesOK
<1>4. Repo!HeadsAreFiles
  BY <1>1, <1>3 DEF Repo!HeadsAreFiles, RepoHeadsOK, RepoWholeOK, Repo!Files, RepoIsFile, RepoNow,
     Repo!At
<1>5. Repo!YoungerSupersede
  BY <1>1, <1>3 DEF Repo!YoungerSupersede, RepoEdgesOK, RepoJoins, RepoYounger, RepoNow
<1>6. Repo!Ended
  <2>1. CASE ~ls.ended
    BY <1>1, <2>1 DEF Repo!Ended, RepoNow
  <2>2. CASE ls.ended
    <3>1. PICK o : o = ls.of
      OBVIOUS
    <3>2. RepoEndedWith(st, ph, ch, ed, o)
      BY <1>3, <2>2, <3>1 DEF RepoLastOK, Repo!Nothing
    <3>3. \A p \in Repo!Wanted(o) : /\ p \in Repo!Paths /\ ph[p] # 0 /\ st[ph[p]].sha = o.tree[p]
                                    /\ o.ask.orient /\ o.ask.link => RepoDocumented(ed, o, ph[p])
      BY <3>2 DEF RepoEndedWith, RepoBrought
    <3>4. \A p \in Repo!Wanted(o) : cm => st[ph[p]].text = o.tree[p]
      BY <1>3, <3>3 DEF RepoHeadsOK, RepoIsFile, RepoCalmOK
    <3>5. o.ask.orient /\ o.ask.head => ch = o.orientation
      BY <3>2 DEF RepoEndedWith
    <3>6. QED
      BY <1>1, <3>1, <3>3, <3>4, <3>5 DEF Repo!Ended, RepoDocumented, RepoNow
  <2>3. QED
    BY <2>1, <2>2
<1>7. Repo!ReconciledAfter
  BY <1>1, <1>3 DEF Repo!ReconciledAfter, RepoViewOK, RepoNow
<1>8. Repo!HeadsShown
  BY <1>1, <1>3 DEF Repo!HeadsShown, RepoViewOK, RepoShown, RepoNow
<1>9. QED
  BY <1>4, <1>5, <1>6, <1>7, <1>8 DEF Repo!RepositoryKept

\* For any tree of paths, any limits and any number of ingestions, whichever of
\* them die while the branch moves: heads and edges lead to stones of the chain,
\* and one that ran alone leaves each file it could fetch at the head of its path.
THEOREM RepositoryIsKept == RepositoryIsListed /\ Repo!Spec => []RepositoryKept
<1> SUFFICES ASSUME RepositoryIsListed PROVE Repo!Spec => []RepositoryKept
  OBVIOUS
<1>1. Repo!Init => RepoIInv
  BY RepoIInvStarts
<1>2. RepoIInv /\ [Repo!Next]_(Repo!vars) => RepoIInv'
  BY RepoIInvSteps
<1>3. RepoIInv => Repo!RepositoryKept
  BY RepoIInvSays
<1>4. QED
  BY <1>1, <1>2, <1>3, PTL DEF RepositoryKept, Repo!Spec
=============================================================================
