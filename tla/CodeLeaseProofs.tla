--------------------------- MODULE CodeLeaseProofs ---------------------------
(***************************************************************************)
(* For any agents, scopes and times: leases that overlap unasked were       *)
(* written past each other, as long as the listing shows every lease.       *)
(***************************************************************************)
EXTENDS CodeLease, FiniteSetTheorems, TLAPS

\* The part of the table an acquire looks at is all of it.
ListsAll == MaxLeases <= MaxList

-----------------------------------------------------------------------------
(* Scopes, rows and listings *)

LEMMA OverlapSymmetric ==
  ASSUME NEW s, NEW t
  PROVE  LeaseScopesOverlap(s, t) <=> LeaseScopesOverlap(t, s)
BY DEF LeaseScopesOverlap

LEMMA LeasesFunction ==
  ASSUME NEW s \in Seq(Lease)
  PROVE  /\ Len(s) \in Nat /\ DOMAIN s = 1..Len(s) /\ 0 \notin DOMAIN s
         /\ \A i \in DOMAIN s : /\ i \in Nat
                               /\ s[i] \in Lease
                               /\ s[i].expires \in Nat
                               /\ s[i].actor \in Actor
                               /\ s[i].scope \in Scope
<1>1. \A i \in 1..Len(s) : i \in Nat /\ s[i] \in Lease
  OBVIOUS
<1>2. Len(s) \in Nat /\ DOMAIN s = 1..Len(s) /\ 0 \notin 1..Len(s)
  OBVIOUS
<1>3. QED
  BY <1>1, <1>2 DEF Lease

LEMMA RowsAreSeq ==
  ASSUME NEW n \in Nat, NEW f \in [1..n -> Lease]
  PROVE  f \in Seq(Lease) /\ Len(f) = n /\ DOMAIN f = 1..n
OBVIOUS

LEMMA FirstIsAll ==
  ASSUME NEW ids, ids \subseteq DOMAIN leases, leases \in Seq(Lease),
         NEW n \in Nat, Len(leases) <= n, NEW top \in First(ids, n)
  PROVE  top = ids
<1>1. Len(leases) \in Nat /\ ids \subseteq 1..Len(leases)
  BY LeasesFunction
<1>2. IsFiniteSet(ids) /\ Cardinality(ids) <= Len(leases)
  <2>1. PICK k \in Nat : k = Len(leases)
    BY <1>1
  <2>2. IsFiniteSet(1..k) /\ Cardinality(1..k) = k
    BY FS_Interval
  <2>3. QED
    BY <1>1, <2>1, <2>2, FS_Subset
<1>3. Cardinality(ids) \in Nat
  BY <1>2, FS_CardinalityType
<1>4. Cardinality(ids) <= n
  BY <1>1, <1>2, <1>3
<1>5. top \in SUBSET ids /\ Cardinality(top) = Cardinality(ids)
  BY <1>3, <1>4 DEF First
<1>6. QED
  BY <1>2, <1>5, FS_Subset

-----------------------------------------------------------------------------
(* Requests *)

LEMMA IdleOK == RequestOK(Idle)
BY DEF RequestOK, Idle

LEMMA RequestType ==
  ASSUME TypeOK, NEW c \in Client, req[c].stage # "idle"
  PROVE  req[c] \in Request
BY DEF TypeOK, Idle

LEMMA OperationParts ==
  ASSUME NEW op \in Operation
  PROVE  /\ op.kind \in {"acquire", "renew", "release", "list"}
         /\ op.kind = "acquire" => /\ op.by \in Actor /\ op.scope \in Scope
                                   /\ op.ttl \in Ttl /\ op.allow_overlap \in BOOLEAN
         /\ op.kind = "renew" => /\ op.by \in Actor /\ op.lease \in 1..MaxLeases
                                 /\ op.ttl \in Ttl
         /\ op.kind = "release" => op.by \in Actor /\ op.lease \in 1..MaxLeases
BY SharingAssumption DEF Operation

\* How the table changes in one step, w being the lease a request wrote after
\* looking for overlaps, and 0 when it wrote none.
Evolves(w) ==
  /\ leases' \in Seq(Lease) /\ Len(leases') <= MaxLeases
  /\ DOMAIN leases \subseteq DOMAIN leases'
  /\ \A i \in DOMAIN leases :
       /\ leases'[i].actor = leases[i].actor
       /\ leases'[i].status = "active" => leases[i].status = "active"
  /\ \A i \in DOMAIN leases' : leases'[i].status = "active" =>
       /\ i # w => /\ i \in DOMAIN leases
                   /\ leases'[i].scope = leases[i].scope
                   /\ leases'[i].shared = leases[i].shared
                   /\ leases'[i].missed = leases[i].missed
       /\ \/ i \in DOMAIN leases /\ leases'[i].expires = leases[i].expires
          \/ leases'[i].expires > clock

Told(r, w) ==
  IF w # 0 /\ r.stage = "write" THEN [r EXCEPT !.between = @ \cup {w}] ELSE r

LEMMA ToldType ==
  ASSUME NEW r \in Request \cup {Idle}, NEW w \in Nat
  PROVE  /\ Told(r, w) \in Request \cup {Idle}
         /\ r \in Request => /\ Told(r, w).stage = r.stage
                             /\ Told(r, w).op = r.op
                             /\ Told(r, w).now = r.now
                             /\ Told(r, w).target = r.target
                             /\ r.between \subseteq Told(r, w).between
                             /\ w # 0 /\ r.stage = "write" => w \in Told(r, w).between
         /\ r = Idle => Told(r, w) = Idle
BY DEF Told, Request, Idle

LEMMA OthersStable ==
  ASSUME TypeOK, NEW w \in Nat, Evolves(w), clock' = clock,
         NEW r \in Request \cup {Idle}, RequestOK(r)
  PROVE  RequestOK(Told(r, w))'
<1>1. CASE r = Idle
  BY <1>1, ToldType, IdleOK DEF RequestOK, Idle
<1>2. CASE r \in Request /\ r.stage = "idle"
  BY <1>2, ToldType DEF RequestOK
<1>3. CASE r \in Request /\ r.stage # "idle"
  <2>1. PICK q \in Request \cup {Idle} : q = Told(r, w)
    BY ToldType
  <2>2. /\ q.stage = r.stage /\ q.op = r.op /\ q.now = r.now /\ q.target = r.target
        /\ r.between \subseteq q.between
        /\ w # 0 /\ r.stage = "write" => w \in q.between
    BY <1>3, <2>1, ToldType
  <2>3. /\ r.now <= clock /\ clock <= r.now + MaxDelay
        /\ r.op.kind \in {"renew", "release"} => r.op.lease \in DOMAIN leases
        /\ r.stage \in {"read", "write", "expire"} => Swept(r) /\ r.op.kind # "list"
        /\ r.stage = "write" /\ r.op.kind = "acquire" => Decided(r)
        /\ r.stage = "write" /\ r.op.kind # "acquire" => OwnsLease(r)
        /\ r.stage = "expire" => /\ r.op.kind = "release"
                                 /\ OwnsLease(r)
                                 /\ leases[r.op.lease].status # "active"
    BY <1>3 DEF RequestOK
  <2>4. /\ r.now \in Nat /\ clock \in Nat
        /\ leases \in Seq(Lease)
        /\ \A i \in DOMAIN leases : leases[i].expires \in Nat
        /\ \A i \in DOMAIN leases' : leases'[i].expires \in Nat
        /\ 0 \notin DOMAIN leases /\ 0 \notin DOMAIN leases'
    BY <1>3, LeasesFunction DEF TypeOK, Request, Lease, Evolves
  <2>5. Swept(r) => Swept(q)'
    BY <2>2, <2>3, <2>4 DEF Swept, Evolves
  <2>6. r.stage = "write" /\ Decided(r) => Decided(q)'
    <3> SUFFICES ASSUME r.stage = "write", Decided(r) PROVE Decided(q)'
      OBVIOUS
    <3>1. ASSUME NEW i \in DOMAIN leases', leases'[i].status = "active",
                 leases'[i].actor # q.op.by,
                 LeaseScopesOverlap(q.op.scope, leases'[i].scope)
          PROVE  q.op.allow_overlap \/ i \in q.between
      <4>1. CASE i = w
        BY <4>1, <2>2, <2>4
      <4>2. CASE i # w
        BY <4>2, <3>1, <2>2 DEF Evolves, Decided
      <4>3. QED
        BY <4>1, <4>2
    <3>2. q.target # 0 => /\ q.target \in DOMAIN leases'
                          /\ leases'[q.target].actor = q.op.by
      BY <2>2 DEF Evolves, Decided
    <3>3. QED
      BY <3>1, <3>2 DEF Decided
  <2>7. OwnsLease(r) => OwnsLease(q)'
    BY <2>2 DEF OwnsLease, Evolves
  <2>8. OwnsLease(r) /\ leases[r.op.lease].status # "active"
          => leases'[q.op.lease].status # "active"
    BY <2>2 DEF OwnsLease, Evolves
  <2>9. RequestOK(q)'
    BY <2>2, <2>3, <2>5, <2>6, <2>7, <2>8 DEF RequestOK, Evolves
  <2>10. QED
    BY <2>1, <2>9 DEF RequestOK, Told, Swept, Decided, OwnsLease
<1>4. QED
  BY <1>1, <1>2, <1>3

-----------------------------------------------------------------------------
(* Steps *)

LEMMA StepOfClient ==
  ASSUME IInv, NEW w \in Nat, Evolves(w), clock' = clock,
         NEW c \in Client, NEW q \in Request \cup {Idle}, RequestOK(q)',
         req' \in [Client -> Request \cup {Idle}],
         \A d \in Client : req'[d] = IF d = c THEN q ELSE Told(req[d], w),
         ActiveOverlapIsExplained'
  PROVE  IInv'
<1>1. TypeOK' /\ Len(leases') <= MaxLeases
  BY DEF IInv, TypeOK, Evolves
<1>2. ASSUME NEW d \in Client PROVE RequestOK(req[d])'
  <2>1. CASE d = c
    <3>1. req'[d] = q
      BY <2>1
    <3>2. QED
      BY <3>1 DEF RequestOK, Swept, Decided, OwnsLease
  <2>2. CASE d # c
    <3>1. PICK r \in Request \cup {Idle} : r = req[d]
      BY DEF IInv, TypeOK
    <3>2. RequestOK(r)
      BY <3>1 DEF IInv
    <3>3. RequestOK(Told(r, w))'
      BY <3>2, OthersStable DEF IInv
    <3>4. req'[d] = Told(r, w)
      BY <2>2, <3>1
    <3>5. QED
      BY <3>3, <3>4 DEF RequestOK, Swept, Decided, OwnsLease
  <2>3. QED
    BY <2>1, <2>2
<1>3. QED
  BY <1>1, <1>2 DEF IInv

LEMMA ExplainedStable ==
  ASSUME IInv, Evolves(0)
  PROVE  ActiveOverlapIsExplained'
<1>1. 0 \notin DOMAIN leases'
  BY LeasesFunction DEF Evolves
<1>2. ASSUME NEW i \in DOMAIN leases', leases'[i].status = "active"
      PROVE  /\ i \in DOMAIN leases /\ leases[i].status = "active"
             /\ leases'[i].actor = leases[i].actor
             /\ leases'[i].scope = leases[i].scope
             /\ leases'[i].shared = leases[i].shared
             /\ leases'[i].missed = leases[i].missed
  BY <1>1, <1>2 DEF Evolves
<1>3. QED
  BY <1>2 DEF IInv, ActiveOverlapIsExplained, Shared

\* The lease written by a request that had looked for overlaps.
LEMMA ExplainedWritten ==
  ASSUME IInv, NEW w \in Nat, Evolves(w), NEW r \in Request, Decided(r),
         leases'[w].status = "active" =>
           /\ leases'[w].actor = r.op.by
           /\ leases'[w].scope = r.op.scope
           /\ leases'[w].shared = r.op.allow_overlap
           /\ leases'[w].missed = r.between
  PROVE  ActiveOverlapIsExplained'
<1>1. ASSUME NEW i \in DOMAIN leases', leases'[i].status = "active", i # w
      PROVE  /\ i \in DOMAIN leases /\ leases[i].status = "active"
             /\ leases'[i].actor = leases[i].actor
             /\ leases'[i].scope = leases[i].scope
             /\ leases'[i].shared = leases[i].shared
             /\ leases'[i].missed = leases[i].missed
  BY <1>1 DEF Evolves
<1>2. ASSUME NEW i \in DOMAIN leases', i # w,
             leases'[i].status = "active", leases'[w].status = "active",
             leases'[i].actor # leases'[w].actor,
             LeaseScopesOverlap(leases'[w].scope, leases'[i].scope)
      PROVE  leases'[w].shared \/ i \in leases'[w].missed
  BY <1>1, <1>2 DEF Decided
<1>3. ASSUME NEW i \in DOMAIN leases', NEW j \in DOMAIN leases',
             leases'[i].status = "active", leases'[j].status = "active",
             leases'[i].actor # leases'[j].actor,
             LeaseScopesOverlap(leases'[i].scope, leases'[j].scope)
      PROVE  \/ leases'[i].shared \/ leases'[j].shared
             \/ i \in leases'[j].missed \/ j \in leases'[i].missed
  <2>1. CASE i # w /\ j # w
    BY <1>1, <1>3, <2>1 DEF IInv, ActiveOverlapIsExplained, Shared
  <2>2. CASE i = w
    BY <1>2, <1>3, <2>2
  <2>3. CASE j = w /\ i # w
    BY <1>2, <1>3, <2>3, OverlapSymmetric
  <2>4. QED
    BY <2>1, <2>2, <2>3
<1>4. QED
  BY <1>3 DEF ActiveOverlapIsExplained, Shared

\* A step in which no lease is written after a look for overlaps.
LEMMA QuietStep ==
  ASSUME IInv, Evolves(0), clock' = clock,
         NEW c \in Client, NEW q \in Request \cup {Idle}, RequestOK(q)', Become(c, q)
  PROVE  IInv'
<1>1. /\ req' \in [Client -> Request \cup {Idle}]
      /\ \A d \in Client : req'[d] = IF d = c THEN q ELSE Told(req[d], 0)
  BY DEF IInv, TypeOK, Become, Told
<1>2. QED
  BY <1>1, StepOfClient, ExplainedStable

LEMMA SameTable ==
  ASSUME IInv, leases' = leases
  PROVE  Evolves(0)
BY LeasesFunction DEF IInv, TypeOK, Evolves

LEMMA InitOK == Init => IInv
<1> SUFFICES ASSUME Init PROVE IInv
  OBVIOUS
<1>1. TypeOK /\ Len(leases) <= MaxLeases
  BY MaxListAssumption DEF Init, TypeOK
<1>2. ActiveOverlapIsExplained
  BY DEF Init, ActiveOverlapIsExplained
<1>3. \A c \in Client : RequestOK(req[c])
  BY IdleOK DEF Init
<1>4. QED
  BY <1>1, <1>2, <1>3 DEF IInv

LEMMA BeginOK ==
  ASSUME IInv, NEW c \in Client, Begin(c)
  PROVE  IInv'
<1>1. PICK op \in Operation :
        /\ op.kind \in {"renew", "release"} => op.lease <= Len(leases)
        /\ Become(c, [stage |-> IF op.kind = "list" THEN "list" ELSE "sweep", op |-> op,
                      now |-> clock, target |-> 0, between |-> {}])
        /\ UNCHANGED <<leases, clock>>
  BY DEF Begin
<1>2. PICK now \in Nat : now = clock
  BY DEF IInv, TypeOK
<1> DEFINE q == [stage |-> IF op.kind = "list" THEN "list" ELSE "sweep", op |-> op,
                 now |-> now, target |-> 0, between |-> {}]
<1>3. q \in Request
  BY DEF Request
<1>4. Become(c, q)
  BY <1>1, <1>2
<1>5. op.kind \in {"renew", "release"} => op.lease \in DOMAIN leases
  BY <1>1, OperationParts, LeasesFunction DEF IInv, TypeOK
<1>6. RequestOK(q)'
  BY <1>1, <1>2, <1>5, TtlAssumption DEF RequestOK
<1> HIDE DEF q
<1>7. QED
  BY <1>1, <1>3, <1>4, <1>6, SameTable, QuietStep

LEMMA DieOK ==
  ASSUME IInv, NEW c \in Client, Die(c)
  PROVE  IInv'
<1>1. RequestOK(Idle)'
  BY DEF RequestOK, Idle
<1>2. QED
  BY <1>1, SameTable, QuietStep DEF Die

LEMMA TickOK ==
  ASSUME IInv, Tick
  PROVE  IInv'
<1>1. TypeOK' /\ Len(leases') <= MaxLeases /\ ActiveOverlapIsExplained'
  BY DEF IInv, Tick, TypeOK, ActiveOverlapIsExplained, Shared
<1>2. ASSUME NEW c \in Client PROVE RequestOK(req[c])'
  <2>1. PICK r \in Request \cup {Idle} : r = req[c]
    BY DEF IInv, TypeOK
  <2>2. CASE r = Idle
    BY <2>1, <2>2 DEF Tick, RequestOK, Idle
  <2>3. CASE r \in Request /\ r # Idle
    <3>1. r.now \in Nat /\ clock \in Nat /\ MaxDelay \in Nat
      BY <2>3, TtlAssumption DEF IInv, TypeOK, Request
    <3>2. RequestOK(r) /\ clock < r.now + MaxDelay /\ clock' = clock + 1
      BY <2>1, <2>3 DEF IInv, Tick
    <3>3. req'[c] = r /\ leases' = leases
      BY <2>1 DEF Tick
    <3>4. r.stage # "idle" => /\ r.now <= clock'
                              /\ clock' <= r.now + MaxDelay
      BY <3>1, <3>2 DEF RequestOK
    <3>5. QED
      BY <3>2, <3>3, <3>4 DEF RequestOK, Swept, Decided, OwnsLease
  <2>4. QED
    BY <2>2, <2>3
<1>3. QED
  BY <1>1, <1>2 DEF IInv

LEMMA SweepOK ==
  ASSUME IInv, NEW c \in Client, Sweep(c)
  PROVE  IInv'
<1>1. PICK r \in Request : r = req[c]
  BY RequestType DEF IInv, Sweep
<1>2. RequestOK(r) /\ r.stage \in {"sweep", "list"} /\ clock' = clock
  BY <1>1 DEF IInv, Sweep
<1>3. leases' = [i \in DOMAIN leases |->
                  IF leases[i].status = "active" /\ leases[i].expires <= r.now
                    THEN [leases[i] EXCEPT !.status = "expired"]
                    ELSE leases[i]]
  BY <1>1 DEF Sweep, ExpireStaleLeases
<1>4. PICK n \in Nat : n = Len(leases) /\ DOMAIN leases = 1..n
  BY LeasesFunction DEF IInv, TypeOK
<1>5. /\ leases' \in Seq(Lease) /\ DOMAIN leases' = DOMAIN leases
      /\ Len(leases') <= MaxLeases
      /\ \A i \in DOMAIN leases :
           \/ leases'[i] = leases[i]
           \/ leases'[i] = [leases[i] EXCEPT !.status = "expired"]
  <2>1. \A i \in 1..n : leases[i] \in Lease
    BY <1>4, LeasesFunction DEF IInv, TypeOK
  <2>2. \A i \in 1..n : [leases[i] EXCEPT !.status = "expired"] \in Lease
    BY <2>1 DEF Lease
  <2>3. leases' \in [1..n -> Lease]
    BY <1>3, <1>4, <2>1, <2>2
  <2>4. QED
    BY <1>3, <1>4, <2>3, RowsAreSeq DEF IInv
<1>6. \A i \in DOMAIN leases :
        /\ leases'[i].actor = leases[i].actor
        /\ leases'[i].scope = leases[i].scope
        /\ leases'[i].shared = leases[i].shared
        /\ leases'[i].missed = leases[i].missed
        /\ leases'[i].expires = leases[i].expires
        /\ leases'[i].status = "active" => leases[i].status = "active"
  <2>1. \A i \in DOMAIN leases : leases[i] \in Lease
    BY LeasesFunction DEF IInv, TypeOK
  <2>2. QED
    BY <1>5, <2>1 DEF Lease
<1>7. Evolves(0)
  BY <1>5, <1>6 DEF Evolves
<1>8. \A i \in DOMAIN leases' : leases'[i].status = "active" => leases'[i].expires > r.now
  <2> SUFFICES ASSUME NEW i \in DOMAIN leases, leases'[i].status = "active"
               PROVE  leases'[i].expires > r.now
    BY <1>5
  <2>1. leases[i] \in Lease /\ leases[i].expires \in Nat /\ r.now \in Nat
    BY LeasesFunction DEF IInv, TypeOK, Request
  <2>2. ~(leases[i].status = "active" /\ leases[i].expires <= r.now)
    BY <1>3, <2>1 DEF Lease
  <2>3. QED
    BY <1>6, <2>1, <2>2
<1>9. PICK q \in Request \cup {Idle} :
        /\ Become(c, q)
        /\ \/ q = Idle
           \/ r.op.kind = "acquire" /\ q = [r EXCEPT !.stage = "list"]
           \/ r.op.kind # "list" /\ q = [r EXCEPT !.stage = "read"]
           \/ r.stage = "sweep" /\ r.op.kind = "list" /\ q = [r EXCEPT !.stage = "read"]
  <2> DEFINE next == CASE r.stage = "list" /\ r.op.kind = "list" -> Idle
                       [] r.stage = "sweep" /\ r.op.kind = "acquire" ->
                            [r EXCEPT !.stage = "list"]
                       [] OTHER -> [r EXCEPT !.stage = "read"]
  <2>1. Become(c, next)
    BY <1>1 DEF Sweep
  <2>2. [r EXCEPT !.stage = "list"] \in Request /\ [r EXCEPT !.stage = "read"] \in Request
    BY DEF Request
  <2>3. QED
    BY <1>2, <2>1, <2>2
<1>10. r.stage = "sweep" => r.op.kind # "list"
  BY <1>2 DEF RequestOK
<1>11. RequestOK(q)'
  <2>1. CASE q = Idle
    BY <2>1 DEF RequestOK, Idle
  <2>2. CASE q # Idle
    <3>1. /\ q.stage \in {"list", "read"} /\ q.op = r.op /\ q.now = r.now
          /\ q.target = r.target
          /\ q.stage = "read" => r.op.kind # "list"
      BY <1>9, <1>10, <2>2 DEF Request
    <3>2. QED
      BY <1>2, <1>5, <1>8, <3>1 DEF RequestOK, Swept
  <2>3. QED
    BY <2>1, <2>2
<1>12. QED
  BY <1>2, <1>7, <1>9, <1>11, QuietStep

LEMMA ReadAcquireOK ==
  ASSUME ListsAll, IInv, NEW c \in Client, ReadAcquire(c)
  PROVE  IInv'
<1>1. PICK r \in Request : r = req[c]
  BY RequestType DEF IInv, ReadAcquire
<1>2. /\ RequestOK(r) /\ r.stage = "read" /\ r.op.kind = "acquire"
      /\ UNCHANGED <<leases, clock>>
  BY <1>1 DEF IInv, ReadAcquire
<1>3. PICK top \in First(DOMAIN leases, 2 * MaxList) :
      \E seen \in First({i \in top : Live(i, r.now)}, MaxList) :
        LET hits == {i \in seen : LeaseScopesOverlap(r.op.scope, leases[i].scope)}
            own  == {i \in hits : leases[i].actor = r.op.by}
        IN \/ Become(c, Idle)
           \/ /\ hits = own \/ r.op.allow_overlap
              /\ Become(c, [r EXCEPT !.stage = "write"])
           \/ /\ hits = own \/ r.op.allow_overlap
              /\ \E i \in own : Become(c, [r EXCEPT !.stage = "write", !.target = i])
  BY <1>1 DEF ReadAcquire
<1>4. PICK seen \in First({i \in top : Live(i, r.now)}, MaxList) :
        LET hits == {i \in seen : LeaseScopesOverlap(r.op.scope, leases[i].scope)}
            own  == {i \in hits : leases[i].actor = r.op.by}
        IN \/ Become(c, Idle)
           \/ /\ hits = own \/ r.op.allow_overlap
              /\ Become(c, [r EXCEPT !.stage = "write"])
           \/ /\ hits = own \/ r.op.allow_overlap
              /\ \E i \in own : Become(c, [r EXCEPT !.stage = "write", !.target = i])
  BY <1>3
<1>5. /\ Len(leases) \in Nat /\ MaxList \in Nat /\ 2 * MaxList \in Nat
      /\ Len(leases) <= MaxList /\ Len(leases) <= 2 * MaxList
  BY LeasesFunction, MaxListAssumption DEF IInv, TypeOK, ListsAll
<1>6. seen = {i \in DOMAIN leases : Live(i, r.now)}
  <2>1. top = DOMAIN leases
    BY <1>5, FirstIsAll DEF IInv, TypeOK
  <2>2. QED
    BY <1>5, <2>1, FirstIsAll DEF IInv, TypeOK
<1>7. PICK q \in Request \cup {Idle} :
        /\ Become(c, q)
        /\ \/ q = Idle
           \/ /\ q.stage = "write" /\ q.op = r.op /\ q.now = r.now
              /\ \/ r.op.allow_overlap
                 \/ \A i \in seen : LeaseScopesOverlap(r.op.scope, leases[i].scope) =>
                                     leases[i].actor = r.op.by
              /\ \/ q.target = r.target
                 \/ q.target \in seen /\ leases[q.target].actor = r.op.by
  <2>1. CASE Become(c, Idle)
    BY <2>1
  <2>2. CASE /\ Become(c, [r EXCEPT !.stage = "write"])
             /\ \/ r.op.allow_overlap
                \/ \A i \in seen : LeaseScopesOverlap(r.op.scope, leases[i].scope) =>
                                    leases[i].actor = r.op.by
    <3>1. [r EXCEPT !.stage = "write"] \in Request
      BY DEF Request
    <3>2. QED
      BY <2>2, <3>1 DEF Request
  <2>3. ASSUME NEW i \in seen, leases[i].actor = r.op.by,
               Become(c, [r EXCEPT !.stage = "write", !.target = i]),
               \/ r.op.allow_overlap
               \/ \A k \in seen : LeaseScopesOverlap(r.op.scope, leases[k].scope) =>
                                   leases[k].actor = r.op.by
        PROVE  \E q \in Request : /\ Become(c, q)
                  /\ q.stage = "write" /\ q.op = r.op /\ q.now = r.now
                  /\ q.target = i
    <3>1. i \in Nat
      BY <1>6, LeasesFunction DEF IInv, TypeOK
    <3>2. [r EXCEPT !.stage = "write", !.target = i] \in Request
      BY <3>1 DEF Request
    <3>3. QED
      BY <2>3, <3>2 DEF Request
  <2> DEFINE hits == {i \in seen : LeaseScopesOverlap(r.op.scope, leases[i].scope)}
             own  == {i \in hits : leases[i].actor = r.op.by}
  <2>4. hits = own =>
          \A i \in seen : LeaseScopesOverlap(r.op.scope, leases[i].scope) =>
                         leases[i].actor = r.op.by
    OBVIOUS
  <2>5. \A i \in own : i \in seen /\ leases[i].actor = r.op.by
    OBVIOUS
  <2>6. \/ Become(c, Idle)
        \/ /\ hits = own \/ r.op.allow_overlap
           /\ Become(c, [r EXCEPT !.stage = "write"])
        \/ /\ hits = own \/ r.op.allow_overlap
           /\ \E i \in own : Become(c, [r EXCEPT !.stage = "write", !.target = i])
    BY <1>4
  <2> HIDE DEF hits, own
  <2>7. ASSUME hits = own \/ r.op.allow_overlap, NEW i \in own,
               Become(c, [r EXCEPT !.stage = "write", !.target = i])
        PROVE  \E q \in Request : /\ Become(c, q)
                  /\ q.stage = "write" /\ q.op = r.op /\ q.now = r.now
                  /\ q.target = i /\ i \in seen /\ leases[i].actor = r.op.by
    BY <2>3, <2>4, <2>5, <2>7
  <2>8. CASE /\ hits = own \/ r.op.allow_overlap
             /\ \E i \in own : Become(c, [r EXCEPT !.stage = "write", !.target = i])
    <3>1. PICK i \in own : Become(c, [r EXCEPT !.stage = "write", !.target = i])
      BY <2>8
    <3>2. PICK q \in Request : /\ Become(c, q)
                  /\ q.stage = "write" /\ q.op = r.op /\ q.now = r.now
                  /\ q.target = i /\ i \in seen /\ leases[i].actor = r.op.by
      BY <2>7, <2>8, <3>1
    <3>3. \/ r.op.allow_overlap
          \/ \A k \in seen : LeaseScopesOverlap(r.op.scope, leases[k].scope) =>
                              leases[k].actor = r.op.by
      BY <2>4, <2>8
    <3>4. QED
      BY <3>2, <3>3
  <2>9. CASE /\ hits = own \/ r.op.allow_overlap
             /\ Become(c, [r EXCEPT !.stage = "write"])
    BY <2>2, <2>4, <2>9
  <2>10. QED
    BY <2>1, <2>6, <2>8, <2>9
<1>8. r.target = 0
  BY <1>2 DEF RequestOK
<1>9. RequestOK(q)'
  <2>1. CASE q = Idle
    BY <2>1 DEF RequestOK, Idle
  <2>2. CASE q # Idle
    <3>1. \A i \in DOMAIN leases : leases[i].status = "active" => i \in seen
      BY <1>2, <1>6 DEF RequestOK, Swept, Live
    <3>2. seen \subseteq DOMAIN leases
      BY <1>6
    <3>3. Decided(q)'
      BY <1>2, <1>7, <1>8, <2>2, <3>1, <3>2 DEF Decided
    <3>4. QED
      BY <1>2, <1>7, <2>2, <3>3 DEF RequestOK, Swept
  <2>3. QED
    BY <2>1, <2>2
<1>10. QED
  BY <1>2, <1>7, <1>9, SameTable, QuietStep

LEMMA WrittenIs ==
  ASSUME IInv, NEW c \in Client, NEW w \in Nat \ {0},
         req' = [Written(w) EXCEPT ![c] = Idle]
  PROVE  /\ req' \in [Client -> Request \cup {Idle}]
         /\ \A d \in Client : req'[d] = IF d = c THEN Idle ELSE Told(req[d], w)
<1>1. \A d \in Client : Written(w)[d] = Told(req[d], w)
  BY DEF Written, Told
<1>2. \A d \in Client : Told(req[d], w) \in Request \cup {Idle}
  BY ToldType DEF IInv, TypeOK
<1>3. DOMAIN Written(w) = Client /\ Written(w) = [d \in Client |-> Written(w)[d]]
  BY DEF Written
<1>4. QED
  BY <1>1, <1>2, <1>3

LEMMA AcquireOK ==
  ASSUME IInv, NEW c \in Client, Acquire(c)
  PROVE  IInv'
<1>1. PICK r \in Request : r = req[c]
  BY RequestType DEF IInv, Acquire
<1>2. PICK n \in Nat : n = Len(leases) /\ DOMAIN leases = 1..n
  BY LeasesFunction DEF IInv, TypeOK
<1>3. PICK row : row = [actor |-> r.op.by, scope |-> r.op.scope, acquired |-> r.now,
                        expires |-> r.now + r.op.ttl, status |-> "active",
                        shared |-> r.op.allow_overlap, missed |-> r.between]
  OBVIOUS
<1>4. /\ r.stage = "write" /\ r.op.kind = "acquire" /\ RequestOK(r)
      /\ n < MaxLeases /\ leases' = Append(leases, row)
      /\ req' = [Written(n + 1) EXCEPT ![c] = Idle]
      /\ clock' = clock
  BY <1>1, <1>2, <1>3 DEF Acquire, IInv
<1>5. r.op.ttl \in Nat /\ r.op.ttl > MaxDelay /\ r.now \in Nat /\ clock \in Nat
      /\ MaxDelay \in Nat
  BY <1>4, OperationParts, TtlAssumption DEF Request, IInv, TypeOK
<1>6. row \in Lease
  BY <1>3, <1>4, <1>5, OperationParts DEF Request, Lease
<1>7. row.expires > clock
  BY <1>3, <1>4, <1>5 DEF RequestOK
<1>8. /\ leases' \in Seq(Lease) /\ Len(leases') = n + 1 /\ DOMAIN leases' = 1..(n + 1)
      /\ leases'[n + 1] = row
      /\ \A i \in 1..n : leases'[i] = leases[i]
  BY <1>2, <1>4, <1>6 DEF IInv, TypeOK
<1>9. Evolves(n + 1)
  BY <1>2, <1>4, <1>7, <1>8, MaxListAssumption DEF Evolves
<1>10. Decided(r)
  BY <1>4 DEF RequestOK
<1>11. ActiveOverlapIsExplained'
  BY <1>2, <1>3, <1>8, <1>9, <1>10, ExplainedWritten
<1>12. RequestOK(Idle)'
  BY DEF RequestOK, Idle
<1>13. QED
  BY <1>2, <1>4, <1>9, <1>11, <1>12, WrittenIs, StepOfClient

\* One row is given new values.
LEMMA OneRow ==
  ASSUME IInv, NEW i \in DOMAIN leases, NEW row \in Lease,
         row.actor = leases[i].actor,
         row.status = "active" => leases[i].status = "active",
         row.status = "active" =>
           row.expires = leases[i].expires \/ row.expires > clock,
         leases' = [leases EXCEPT ![i] = row]
  PROVE  /\ i \in Nat \ {0}
         /\ leases'[i] = row
         /\ Evolves(i)
         /\ (/\ row.scope = leases[i].scope /\ row.shared = leases[i].shared
             /\ row.missed = leases[i].missed) => Evolves(0)
<1>1. PICK n \in Nat : n = Len(leases) /\ DOMAIN leases = 1..n
  BY LeasesFunction DEF IInv, TypeOK
<1>2. i \in 1..n /\ leases \in [1..n -> Lease]
  BY <1>1 DEF IInv, TypeOK
<1>3. leases' \in [1..n -> Lease]
  BY <1>2
<1>4. leases' \in Seq(Lease) /\ Len(leases') = n /\ DOMAIN leases' = 1..n
  BY <1>3, RowsAreSeq
<1>5. /\ leases'[i] = row
      /\ \A k \in 1..n : k # i => leases'[k] = leases[k]
  BY <1>2
<1>6. n <= MaxLeases /\ 0 \notin 1..n
  BY <1>1 DEF IInv
<1>7. Evolves(i)
  BY <1>1, <1>2, <1>4, <1>5, <1>6 DEF Evolves
<1>8. (/\ row.scope = leases[i].scope /\ row.shared = leases[i].shared
       /\ row.missed = leases[i].missed) => Evolves(0)
  BY <1>1, <1>2, <1>4, <1>5, <1>6 DEF Evolves
<1>9. QED
  BY <1>2, <1>5, <1>7, <1>8

LEMMA ReacquireOK ==
  ASSUME IInv, NEW c \in Client, Reacquire(c)
  PROVE  IInv'
<1>1. PICK r \in Request : r = req[c]
  BY RequestType DEF IInv, Reacquire
<1>2. PICK i \in DOMAIN leases : i = r.target /\ leases[i].actor = r.op.by
  BY <1>1 DEF Reacquire, IInv, RequestOK, Decided
<1>3. PICK lease \in Lease : lease = leases[i] /\ i \in Nat \ {0}
  BY <1>2, LeasesFunction DEF IInv, TypeOK
<1>4. /\ r.stage = "write" /\ r.op.kind = "acquire" /\ RequestOK(r)
      /\ leases' = Rewrite(i, r)
      /\ req' = [Written(i) EXCEPT ![c] = Idle]
      /\ clock' = clock
  BY <1>1, <1>2 DEF Reacquire, IInv
<1>5. r.op.ttl \in Nat /\ r.op.ttl > MaxDelay /\ r.now \in Nat /\ clock \in Nat
      /\ MaxDelay \in Nat
  BY <1>4, OperationParts, TtlAssumption DEF Request, IInv, TypeOK
<1>6. PICK row : row = [lease EXCEPT !.scope = r.op.scope, !.expires = r.now + r.op.ttl,
                                     !.shared = r.op.allow_overlap, !.missed = r.between]
  OBVIOUS
<1>7. /\ row \in Lease
      /\ row.actor = lease.actor /\ row.status = lease.status
      /\ row.scope = r.op.scope /\ row.shared = r.op.allow_overlap
      /\ row.missed = r.between /\ row.expires = r.now + r.op.ttl
  <2>1. PICK scope \in Scope, shared \in BOOLEAN :
          scope = r.op.scope /\ shared = r.op.allow_overlap
    BY <1>4, OperationParts DEF Request
  <2>2. PICK missed \in SUBSET Nat, expires \in Nat :
          missed = r.between /\ expires = r.now + r.op.ttl
    BY <1>5 DEF Request
  <2>3. row = [lease EXCEPT !.scope = scope, !.expires = expires,
                            !.shared = shared, !.missed = missed]
    BY <1>6, <2>1, <2>2
  <2>4. QED
    BY <2>1, <2>2, <2>3 DEF Lease
<1>8. row.expires > clock
  BY <1>4, <1>5, <1>7 DEF RequestOK
<1>9. /\ Evolves(i)
      /\ leases'[i].status = "active" =>
           /\ leases'[i].actor = r.op.by
           /\ leases'[i].scope = r.op.scope
           /\ leases'[i].shared = r.op.allow_overlap
           /\ leases'[i].missed = r.between
  <2>1. CASE leases[i].status = "active"
    <3>1. leases' = [leases EXCEPT ![i] = row]
      BY <1>3, <1>4, <1>6, <2>1 DEF Rewrite
    <3>2. leases'[i] = row /\ Evolves(i)
      BY <1>3, <1>7, <1>8, <3>1, OneRow
    <3>3. QED
      BY <1>2, <1>3, <1>7, <3>2
  <2>2. CASE leases[i].status # "active"
    <3>1. leases' = leases
      BY <1>4, <2>2 DEF Rewrite
    <3>2. QED
      BY <2>2, <3>1, LeasesFunction DEF Evolves, IInv, TypeOK
  <2>3. QED
    BY <2>1, <2>2
<1>10. Decided(r)
  BY <1>4 DEF RequestOK
<1>11. ActiveOverlapIsExplained'
  BY <1>3, <1>9, <1>10, ExplainedWritten
<1>12. RequestOK(Idle)'
  BY DEF RequestOK, Idle
<1>13. QED
  BY <1>3, <1>4, <1>9, <1>11, <1>12, WrittenIs, StepOfClient

LEMMA ReadRowOK ==
  ASSUME IInv, NEW c \in Client, ReadRow(c)
  PROVE  IInv'
<1>1. PICK r \in Request : r = req[c]
  BY RequestType DEF IInv, ReadRow
<1>2. /\ RequestOK(r) /\ r.stage = "read" /\ r.op.kind \in {"renew", "release"}
      /\ UNCHANGED <<leases, clock>>
  BY <1>1 DEF IInv, ReadRow
<1>3. PICK q \in Request \cup {Idle} :
        /\ Become(c, q)
        /\ \/ q = Idle
           \/ /\ leases[r.op.lease].actor = r.op.by
              /\ q.op = r.op /\ q.now = r.now /\ q.target = r.target
              /\ \/ q.stage = "write"
                 \/ /\ q.stage = "expire" /\ r.op.kind = "release"
                    /\ ~Live(r.op.lease, r.now)
  <2>1. [r EXCEPT !.stage = "write"] \in Request /\ [r EXCEPT !.stage = "expire"] \in Request
    BY DEF Request
  <2>2. CASE Become(c, Idle)
    BY <2>2
  <2>3. CASE /\ leases[r.op.lease].actor = r.op.by
             /\ Become(c, [r EXCEPT !.stage = "write"])
    BY <2>1, <2>3 DEF Request
  <2>4. CASE /\ leases[r.op.lease].actor = r.op.by /\ r.op.kind = "release"
             /\ ~Live(r.op.lease, r.now)
             /\ Become(c, [r EXCEPT !.stage = "expire"])
    BY <2>1, <2>4 DEF Request
  <2>5. QED
    BY <1>1, <2>2, <2>3, <2>4 DEF ReadRow
<1>4. r.target = 0 /\ r.op.lease \in DOMAIN leases
  BY <1>2 DEF RequestOK
<1>5. ~Live(r.op.lease, r.now) => leases[r.op.lease].status # "active"
  BY <1>2, <1>4 DEF RequestOK, Swept, Live
<1>6. RequestOK(q)'
  <2>1. CASE q = Idle
    BY <2>1 DEF RequestOK, Idle
  <2>2. CASE q # Idle
    BY <1>2, <1>3, <1>4, <1>5, <2>2 DEF RequestOK, Swept, OwnsLease
  <2>3. QED
    BY <2>1, <2>2
<1>7. QED
  BY <1>2, <1>3, <1>6, SameTable, QuietStep

\* A step that gives at most one row new values and leaves its scope alone.
LEMMA QuietRow ==
  ASSUME IInv, NEW c \in Client, NEW i \in DOMAIN leases, NEW row \in Lease,
         row.actor = leases[i].actor, row.scope = leases[i].scope,
         row.shared = leases[i].shared, row.missed = leases[i].missed,
         row.status = "active" => /\ leases[i].status = "active"
                                  /\ row.expires = leases[i].expires \/ row.expires > clock,
         leases' = leases \/ leases' = [leases EXCEPT ![i] = row],
         Become(c, Idle), clock' = clock
  PROVE  IInv'
<1>1. Evolves(0)
  BY OneRow, SameTable
<1>2. RequestOK(Idle)'
  BY DEF RequestOK, Idle
<1>3. QED
  BY <1>1, <1>2, QuietStep

LEMMA RenewOK ==
  ASSUME IInv, NEW c \in Client, Renew(c)
  PROVE  IInv'
<1>1. PICK r \in Request : r = req[c]
  BY RequestType DEF IInv, Renew
<1>2. r.stage = "write" /\ r.op.kind = "renew" /\ RequestOK(r)
  BY <1>1 DEF Renew, IInv
<1>3. PICK i \in DOMAIN leases : i = r.op.lease
  BY <1>2 DEF RequestOK, OwnsLease
<1>4. PICK lease \in Lease : lease = leases[i]
  BY LeasesFunction DEF IInv, TypeOK
<1>5. r.op.ttl \in Nat /\ r.op.ttl > MaxDelay /\ r.now \in Nat /\ clock \in Nat
      /\ MaxDelay \in Nat
  BY <1>2, OperationParts, TtlAssumption DEF Request, IInv, TypeOK
<1>6. PICK row : row = [lease EXCEPT !.expires = r.now + r.op.ttl]
  OBVIOUS
<1>7. /\ row \in Lease /\ row.actor = lease.actor /\ row.status = lease.status
      /\ row.scope = lease.scope /\ row.shared = lease.shared
      /\ row.missed = lease.missed /\ row.expires = r.now + r.op.ttl
  BY <1>5, <1>6 DEF Lease
<1>8. row.expires > clock
  BY <1>2, <1>5, <1>7 DEF RequestOK
<1>9. leases' = leases \/ leases' = [leases EXCEPT ![i] = row]
  BY <1>1, <1>3, <1>4, <1>6 DEF Renew
<1>10. Become(c, Idle) /\ clock' = clock
  BY DEF Renew
<1>11. QED
  BY <1>4, <1>7, <1>8, <1>9, <1>10, QuietRow

LEMMA ReleaseOK ==
  ASSUME IInv, NEW c \in Client, Release(c)
  PROVE  IInv'
<1>1. PICK r \in Request : r = req[c]
  BY RequestType DEF IInv, Release
<1>2. r.stage = "write" /\ r.op.kind = "release" /\ RequestOK(r)
  BY <1>1 DEF Release, IInv
<1>3. PICK i \in DOMAIN leases : i = r.op.lease
  BY <1>2 DEF RequestOK, OwnsLease
<1>4. PICK lease \in Lease : lease = leases[i]
  BY LeasesFunction DEF IInv, TypeOK
<1>5. PICK row \in Lease : row = [lease EXCEPT !.status = "released"]
  BY DEF Lease
<1>6. /\ row.actor = lease.actor /\ row.status = "released"
      /\ row.scope = lease.scope /\ row.shared = lease.shared
      /\ row.missed = lease.missed
  BY <1>5 DEF Lease
<1>7. leases' = leases \/ leases' = [leases EXCEPT ![i] = row]
  BY <1>1, <1>3, <1>4, <1>5 DEF Release
<1>8. Become(c, Idle) /\ clock' = clock
  BY DEF Release
<1>9. QED
  BY <1>4, <1>6, <1>7, <1>8, QuietRow

LEMMA ReleaseExpiredOK ==
  ASSUME IInv, NEW c \in Client, ReleaseExpired(c)
  PROVE  IInv'
<1>1. PICK r \in Request : r = req[c]
  BY RequestType DEF IInv, ReleaseExpired
<1>2. r.stage = "expire" /\ RequestOK(r)
  BY <1>1 DEF ReleaseExpired, IInv
<1>3. PICK i \in DOMAIN leases : i = r.op.lease
  BY <1>2 DEF RequestOK, OwnsLease
<1>4. PICK lease \in Lease : lease = leases[i]
  BY LeasesFunction DEF IInv, TypeOK
<1>5. PICK row \in Lease : row = [lease EXCEPT !.status = "expired"]
  BY DEF Lease
<1>6. /\ row.actor = lease.actor /\ row.status = "expired"
      /\ row.scope = lease.scope /\ row.shared = lease.shared
      /\ row.missed = lease.missed
  BY <1>5 DEF Lease
<1>7. leases' = [leases EXCEPT ![i] = row]
  BY <1>1, <1>3, <1>4, <1>5 DEF ReleaseExpired
<1>8. Become(c, Idle) /\ clock' = clock
  BY DEF ReleaseExpired
<1>9. QED
  BY <1>4, <1>6, <1>7, <1>8, QuietRow

-----------------------------------------------------------------------------
(* Theorems *)

LEMMA NextOK ==
  ASSUME ListsAll, IInv, [Next]_vars
  PROVE  IInv'
<1>1. CASE Tick
  BY <1>1, TickOK
<1>2. ASSUME NEW c \in Client, Begin(c) \/ Sweep(c) \/ Die(c)
      PROVE  IInv'
  BY <1>2, BeginOK, SweepOK, DieOK
<1>3. ASSUME NEW c \in Client, ReadAcquire(c) \/ Acquire(c) \/ Reacquire(c)
      PROVE  IInv'
  BY <1>3, ReadAcquireOK, AcquireOK, ReacquireOK
<1>4. ASSUME NEW c \in Client, ReadRow(c) \/ Renew(c) \/ Release(c) \/ ReleaseExpired(c)
      PROVE  IInv'
  BY <1>4, ReadRowOK, RenewOK, ReleaseOK, ReleaseExpiredOK
<1>5. CASE UNCHANGED vars
  BY <1>5 DEF vars, IInv, TypeOK, ActiveOverlapIsExplained, Shared,
              RequestOK, Swept, Decided, OwnsLease
<1>6. QED
  BY <1>1, <1>2, <1>3, <1>4, <1>5 DEF Next

\* The invariant the rest follows from, for a listing that shows every lease.
THEOREM InductiveInvariant ==
  ASSUME ListsAll
  PROVE  Spec => []IInv
<1>1. Init => IInv
  BY InitOK
<1>2. IInv /\ [Next]_vars => IInv'
  BY NextOK
<1>3. QED
  BY <1>1, <1>2, PTL DEF Spec

\* Leases of different agents overlap only if one allowed it or was written
\* between the other's look at the table and its INSERT or UPDATE.
THEOREM OverlapsAreExplained ==
  ASSUME ListsAll
  PROVE  Spec => []OverlapIsExplained
<1>1. IInv => OverlapIsExplained
  BY DEF IInv, ActiveOverlapIsExplained, OverlapIsExplained, Contended, Live
<1>2. QED
  BY <1>1, InductiveInvariant, PTL

\* What a step does to a lease that was handed out.
LEMMA LeaseStep ==
  ASSUME IInv, Next, NEW i \in DOMAIN leases
  PROVE  /\ leases[i].status # "active" => leases'[i].status # "active"
         /\ Live(i, clock) /\ leases'[i].status # "active" =>
              /\ leases'[i].status = "released"
              /\ \E c \in Client : /\ Release(c)
                                   /\ req[c].op.lease = i
                                   /\ req[c].op.by = leases[i].actor
<1>1. PICK n \in Nat : n = Len(leases) /\ DOMAIN leases = 1..n
  BY LeasesFunction DEF IInv, TypeOK
<1>2. PICK lease \in Lease : lease = leases[i] /\ lease.expires \in Nat
  BY LeasesFunction DEF IInv, TypeOK
<1>3. CASE leases'[i].status = lease.status
  BY <1>2, <1>3 DEF Live
<1>4. ASSUME NEW c \in Client, Sweep(c)
      PROVE  \/ leases'[i].status = lease.status
             \/ leases'[i].status # "active" /\ ~Live(i, clock)
  <2>1. PICK r \in Request : r = req[c]
    BY <1>4, RequestType DEF IInv, Sweep
  <2>2. r.now \in Nat /\ r.now <= clock /\ clock \in Nat
    BY <1>4, <2>1 DEF Sweep, IInv, TypeOK, RequestOK, Request
  <2>3. \/ leases'[i] = lease
        \/ /\ leases'[i] = [lease EXCEPT !.status = "expired"]
           /\ lease.expires <= r.now
    BY <1>2, <1>4, <2>1 DEF Sweep, ExpireStaleLeases
  <2>4. [lease EXCEPT !.status = "expired"].status = "expired"
    BY DEF Lease
  <2>5. CASE leases'[i] = lease
    BY <2>5
  <2>6. CASE leases'[i] # lease
    <3>1. leases'[i].status = "expired"
      BY <2>3, <2>4, <2>6
    <3>2. lease.expires <= r.now
      BY <2>3, <2>6
    <3>3. ~(lease.expires > clock)
      BY <1>2, <2>2, <3>2
    <3>4. QED
      BY <1>2, <3>1, <3>3 DEF Live
  <2>7. QED
    BY <2>5, <2>6
<1>5. ASSUME NEW c \in Client, Acquire(c)
      PROVE  leases'[i].status = lease.status
  <2>1. PICK row : leases' = Append(leases, row)
    BY <1>5 DEF Acquire
  <2>2. leases'[i] = leases[i]
    BY <1>1, <2>1 DEF IInv, TypeOK
  <2>3. QED
    BY <1>2, <2>2
<1>6. ASSUME NEW c \in Client, Reacquire(c)
      PROVE  leases'[i].status = lease.status
  <2>1. PICK r : r = req[c] /\ leases' = Rewrite(r.target, r)
    BY <1>6 DEF Reacquire
  <2>2. PICK k, x, y, z, u :
          \/ leases' = leases
          \/ leases' = [leases EXCEPT ![k].scope = x, ![k].expires = y,
                                      ![k].shared = z, ![k].missed = u]
    BY <2>1 DEF Rewrite
  <2>3. \/ leases'[i] = lease
        \/ leases'[i] = [lease EXCEPT !.scope = x, !.expires = y,
                                      !.shared = z, !.missed = u]
    BY <1>1, <1>2, <2>2 DEF IInv, TypeOK
  <2>4. QED
    BY <2>3 DEF Lease
<1>7. ASSUME NEW c \in Client, Renew(c)
      PROVE  leases'[i].status = lease.status
  <2>1. PICK k, y : leases' = leases \/ leases' = [leases EXCEPT ![k].expires = y]
    BY <1>7 DEF Renew
  <2>2. leases'[i] = lease \/ leases'[i] = [lease EXCEPT !.expires = y]
    BY <1>1, <1>2, <2>1 DEF IInv, TypeOK
  <2>3. QED
    BY <2>2 DEF Lease
<1>8. ASSUME NEW c \in Client, Release(c), leases'[i].status # lease.status
      PROVE  /\ leases'[i].status = "released"
             /\ req[c].op.lease = i /\ req[c].op.by = lease.actor
  <2>1. PICK r \in Request : r = req[c]
    BY <1>8, RequestType DEF IInv, Release
  <2>2. OwnsLease(r)
    BY <1>8, <2>1 DEF Release, IInv, RequestOK
  <2>3. \/ leases' = leases
        \/ leases' = [leases EXCEPT ![r.op.lease].status = "released"]
    BY <1>8, <2>1 DEF Release
  <2>4. /\ r.op.lease = i
        /\ leases'[i] = [lease EXCEPT !.status = "released"]
    <3>1. leases'[i] # leases[i]
      BY <1>2, <1>8
    <3>2. leases' = [leases EXCEPT ![r.op.lease].status = "released"]
      BY <2>3, <3>1
    <3>3. r.op.lease = i
      BY <1>1, <3>1, <3>2 DEF IInv, TypeOK
    <3>4. QED
      BY <1>1, <1>2, <3>2, <3>3 DEF IInv, TypeOK
  <2>5. QED
    BY <1>2, <2>1, <2>2, <2>4 DEF Lease, OwnsLease
<1>9. ASSUME NEW c \in Client, ReleaseExpired(c)
      PROVE  \/ leases'[i].status = lease.status
             \/ leases'[i].status # "active" /\ lease.status # "active"
  <2>1. PICK r \in Request : r = req[c]
    BY <1>9, RequestType DEF IInv, ReleaseExpired
  <2>2. r.op.lease \in DOMAIN leases /\ leases[r.op.lease].status # "active"
    BY <1>9, <2>1 DEF ReleaseExpired, IInv, RequestOK, OwnsLease
  <2>3. leases' = [leases EXCEPT ![r.op.lease].status = "expired"]
    BY <1>9, <2>1 DEF ReleaseExpired
  <2>4. \/ leases'[i] = lease
        \/ leases'[i] = [lease EXCEPT !.status = "expired"] /\ lease.status # "active"
    BY <1>1, <1>2, <2>2, <2>3 DEF IInv, TypeOK
  <2>5. [lease EXCEPT !.status = "expired"].status = "expired"
    BY DEF Lease
  <2>6. QED
    BY <2>4, <2>5
<1>10. ASSUME NEW c \in Client,
              Begin(c) \/ ReadAcquire(c) \/ ReadRow(c) \/ Die(c)
       PROVE  leases' = leases
  BY <1>10 DEF Begin, ReadAcquire, ReadRow, Die
<1>11. Tick => leases' = leases
  BY DEF Tick
<1>12. ASSUME leases'[i].status # lease.status
       PROVE  \E c \in Client : Sweep(c) \/ Release(c) \/ ReleaseExpired(c)
  BY <1>2, <1>5, <1>6, <1>7, <1>10, <1>11, <1>12 DEF Next
<1>13. CASE leases'[i].status # lease.status
  <2>1. PICK c \in Client : Sweep(c) \/ Release(c) \/ ReleaseExpired(c)
    BY <1>12, <1>13
  <2>2. CASE Sweep(c) \/ ReleaseExpired(c)
    BY <1>2, <1>4, <1>9, <1>13, <2>2 DEF Live
  <2>3. CASE Release(c)
    BY <1>2, <1>8, <1>13, <2>3
  <2>4. QED
    BY <2>1, <2>2, <2>3
<1>14. QED
  BY <1>3, <1>13

\* A lease that ended stays ended: an extension decided while it was live,
\* and written after it was swept or released, changes nothing.
THEOREM EndedLeasesStayEnded ==
  ASSUME ListsAll
  PROVE  Spec => NeverRevived
<1>1. ASSUME IInv, [Next]_vars
      PROVE  [\A i \in DOMAIN leases :
                leases[i].status # "active" => leases'[i].status # "active"]_vars
  <2>1. CASE UNCHANGED vars
    BY <2>1
  <2>2. CASE Next
    BY <1>1, <2>2, LeaseStep
  <2>3. QED
    BY <1>1, <2>1, <2>2
<1>2. QED
  BY <1>1, InductiveInvariant, PTL DEF Spec, NeverRevived

\* A lease that has not expired is ended by a release of its owner, never by
\* the sweep or the late release of another request.
THEOREM OnlyReleaseEnds ==
  ASSUME ListsAll
  PROVE  Spec => EndsByRelease
<1>1. ASSUME IInv, [Next]_vars
      PROVE  [\A i \in DOMAIN leases :
                Live(i, clock) /\ leases'[i].status # "active" =>
                  /\ leases'[i].status = "released"
                  /\ \E c \in Client : /\ Release(c)
                                       /\ req[c].op.lease = i
                                       /\ req[c].op.by = leases[i].actor]_vars
  <2>1. CASE UNCHANGED vars
    BY <2>1
  <2>2. CASE Next
    BY <1>1, <2>2, LeaseStep
  <2>3. QED
    BY <1>1, <2>1, <2>2
<1>2. QED
  BY <1>1, InductiveInvariant, PTL DEF Spec, EndsByRelease

=============================================================================
