----------------------------- MODULE CodeLease -----------------------------
(***************************************************************************)
(* Leases of a code session: coordination hints by which agents avoid the   *)
(* same task or paths for a while.  A lease is a row with an expiry; every  *)
(* request first marks the expired ones, then reads, then writes, each with *)
(* a statement of its own and with the time it saw at the start.            *)
(***************************************************************************)
EXTENDS Naturals, Sequences, FiniteSets, SequencesExt

CONSTANTS
  Client,    \* concurrent requests
  Kinds,     \* the kinds of request made
  Actor,     \* the agents
  Scope,     \* the scopes they ask for
  Sharing,   \* the values of allow_overlap asked for
  Ttl,       \* times to live, in ticks
  MaxList,   \* MAX_LEASE_LIST, live leases considered by a request
  MaxDelay,  \* bound: ticks a request may last
  MaxClock,  \* bound: ticks
  MaxLeases  \* bound: leases ever acquired

NoTask == "none"

ASSUME ScopeAssumption ==
  \A s \in Scope : s.paths \subseteq Seq(STRING) /\ DOMAIN s = {"task", "paths"}
ASSUME SharingAssumption == Sharing \subseteq BOOLEAN
ASSUME TtlAssumption == /\ MaxDelay \in Nat
                        /\ Ttl \subseteq Nat
                        /\ \A t \in Ttl : t > MaxDelay
ASSUME MaxListAssumption == MaxList \in Nat \ {0} /\ MaxLeases \in Nat

VARIABLES leases, clock, req

vars == <<leases, clock, req>>

\* Histories of the check the row was last written after: `shared`, whether
\* it allowed overlaps; `missed`, the leases written since it read the table.
Lease == [actor: Actor, scope: Scope, acquired: Nat, expires: Nat,
          status: {"active", "expired", "released"},
          shared: BOOLEAN, missed: SUBSET Nat]

Operation ==
       [kind: {"acquire"}, by: Actor, scope: Scope, ttl: Ttl,
        allow_overlap: Sharing]
  \cup [kind: {"renew"}, by: Actor, lease: 1..MaxLeases, ttl: Ttl]
  \cup [kind: {"release"}, by: Actor, lease: 1..MaxLeases]
  \cup [kind: {"list"}]

\* `target` is the own lease an acquire extends, 0 for a new one; `between`
\* the leases written since the request read the table.
Request == [stage: {"idle", "sweep", "list", "read", "write", "expire"},
            op: Operation, now: Nat, target: Nat, between: SUBSET Nat]

Idle == [stage |-> "idle"]

Init == leases = <<>> /\ clock = 0 /\ req = [c \in Client |-> Idle]

Become(c, r) == req' = [req EXCEPT ![c] = r]

-----------------------------------------------------------------------------
(* Scopes and rows *)

\* Mutant: only the requester's scope can be session-wide.
LeaseScopesOverlapOneSided(left, right) ==
  \/ left.task = NoTask /\ left.paths = {}
  \/ left.task # NoTask /\ left.task = right.task
  \/ \E p \in left.paths, q \in right.paths : IsPrefix(p, q) \/ IsPrefix(q, p)

LeaseScopesOverlap(left, right) ==
  \/ left.task = NoTask /\ left.paths = {}
  \/ right.task = NoTask /\ right.paths = {}
  \/ left.task # NoTask /\ left.task = right.task
  \/ \E p \in left.paths, q \in right.paths : IsPrefix(p, q) \/ IsPrefix(q, p)

Live(i, now) == leases[i].status = "active" /\ leases[i].expires > now

\* ORDER BY expires_at DESC, acquired_at DESC
Before(i, j) ==
  \/ leases[i].expires > leases[j].expires
  \/ leases[i].expires = leases[j].expires /\ leases[i].acquired > leases[j].acquired

\* LIMIT n: ties are broken as the database likes.
First(ids, n) ==
  {top \in SUBSET ids :
     /\ Cardinality(top) = (IF Cardinality(ids) < n THEN Cardinality(ids) ELSE n)
     /\ \A i \in top, j \in ids \ top : ~Before(j, i)}

Written(i) == [c \in Client |->
  IF req[c].stage = "write" THEN [req[c] EXCEPT !.between = @ \cup {i}] ELSE req[c]]

-----------------------------------------------------------------------------
(* Requests *)

\* A renewal or a release names a lease that was handed out.
Begin(c) ==
  \E op \in Operation :
    /\ req[c] = Idle
    /\ op.kind \in Kinds
    /\ op.kind \in {"renew", "release"} => op.lease <= Len(leases)
    /\ Become(c, [stage |-> IF op.kind = "list" THEN "list" ELSE "sweep", op |-> op,
                  now |-> clock, target |-> 0, between |-> {}])
    /\ UNCHANGED <<leases, clock>>

\* Mutant: the sweep forgets to compare the expiry.
ExpireStaleLeasesAll(now) ==
  leases' = [i \in DOMAIN leases |->
    IF leases[i].status = "active" THEN [leases[i] EXCEPT !.status = "expired"]
                                   ELSE leases[i]]

ExpireStaleLeases(now) ==
  leases' = [i \in DOMAIN leases |->
    IF leases[i].status = "active" /\ leases[i].expires <= now
      THEN [leases[i] EXCEPT !.status = "expired"]
      ELSE leases[i]]

\* acquire sweeps once more when it lists the leases.
Sweep(c) ==
  LET r == req[c]
      next == CASE r.stage = "list" /\ r.op.kind = "list" -> Idle
                [] r.stage = "sweep" /\ r.op.kind = "acquire" -> [r EXCEPT !.stage = "list"]
                [] OTHER -> [r EXCEPT !.stage = "read"]
  IN /\ r.stage \in {"sweep", "list"}
     /\ ExpireStaleLeases(r.now)
     /\ Become(c, next)
     /\ UNCHANGED clock

\* The live leases among the first 2 * MaxList rows, at most MaxList of them.
ReadAcquire(c) ==
  LET r == req[c]
  IN /\ r.stage = "read" /\ r.op.kind = "acquire"
     /\ \E top \in First(DOMAIN leases, 2 * MaxList) :
        \E seen \in First({i \in top : Live(i, r.now)}, MaxList) :
          LET hits == {i \in seen : LeaseScopesOverlap(r.op.scope, leases[i].scope)}
              own  == {i \in hits : leases[i].actor = r.op.by}
          IN \/ /\ hits # own /\ ~r.op.allow_overlap
                /\ Become(c, Idle)
             \/ /\ hits = own \/ r.op.allow_overlap
                /\ own = {}
                /\ Become(c, [r EXCEPT !.stage = "write"])
             \/ /\ hits = own \/ r.op.allow_overlap
                /\ \E i \in own : /\ {i} \in First(own, 1)
                                  /\ Become(c, [r EXCEPT !.stage = "write", !.target = i])
     /\ UNCHANGED <<leases, clock>>

Acquire(c) ==
  LET r == req[c]
  IN /\ r.stage = "write" /\ r.op.kind = "acquire" /\ r.target = 0
     /\ Len(leases) < MaxLeases
     /\ leases' = Append(leases,
          [actor |-> r.op.by, scope |-> r.op.scope, acquired |-> r.now,
           expires |-> r.now + r.op.ttl, status |-> "active",
           shared |-> r.op.allow_overlap, missed |-> r.between])
     /\ req' = [Written(Len(leases) + 1) EXCEPT ![c] = Idle]
     /\ UNCHANGED clock

\* Mutant: UPDATE ... WHERE lease_id = ?
RewriteUnguarded(i, r) ==
  [leases EXCEPT ![i].scope = r.op.scope, ![i].status = "active",
                 ![i].expires = r.now + r.op.ttl,
                 ![i].shared = r.op.allow_overlap, ![i].missed = r.between]

\* UPDATE ... WHERE lease_id = ? AND status = 'active'
Rewrite(i, r) ==
  IF leases[i].status = "active"
    THEN [leases EXCEPT ![i].scope = r.op.scope, ![i].expires = r.now + r.op.ttl,
                        ![i].shared = r.op.allow_overlap, ![i].missed = r.between]
    ELSE leases

\* An own overlapping lease gets the new scope and expiry; whether the UPDATE
\* changed anything is not looked at.
Reacquire(c) ==
  LET r == req[c]
  IN /\ r.stage = "write" /\ r.op.kind = "acquire" /\ r.target # 0
     /\ leases' = Rewrite(r.target, r)
     /\ req' = [Written(r.target) EXCEPT ![c] = Idle]
     /\ UNCHANGED clock

\* Not the owner's, released already, or no longer live: nothing to do, but a
\* release still marks a lease that is no longer live as expired.
ReadRow(c) ==
  LET r == req[c]  i == r.op.lease  owned == leases[i].actor = r.op.by
  IN /\ r.stage = "read" /\ r.op.kind \in {"renew", "release"}
     /\ \/ /\ owned /\ Live(i, r.now)
           /\ Become(c, [r EXCEPT !.stage = "write"])
        \/ /\ owned /\ ~Live(i, r.now)
           /\ r.op.kind = "release" /\ leases[i].status # "released"
           /\ Become(c, [r EXCEPT !.stage = "expire"])
        \/ /\ ~owned \/ leases[i].status = "released" \/ (~Live(i, r.now) /\ r.op.kind = "renew")
           /\ Become(c, Idle)
     /\ UNCHANGED <<leases, clock>>

Renew(c) ==
  LET r == req[c]  i == r.op.lease
  IN /\ r.stage = "write" /\ r.op.kind = "renew"
     /\ leases' = IF Live(i, r.now)
                  THEN [leases EXCEPT ![i].expires = r.now + r.op.ttl]
                  ELSE leases
     /\ Become(c, Idle)
     /\ UNCHANGED clock

Release(c) ==
  LET r == req[c]  i == r.op.lease
  IN /\ r.stage = "write" /\ r.op.kind = "release"
     /\ leases' = IF leases[i].status = "active"
                  THEN [leases EXCEPT ![i].status = "released"]
                  ELSE leases
     /\ Become(c, Idle)
     /\ UNCHANGED clock

\* Releasing a lease that is no longer live marks it expired, unconditionally.
ReleaseExpired(c) ==
  LET r == req[c]
  IN /\ r.stage = "expire"
     /\ leases' = [leases EXCEPT ![r.op.lease].status = "expired"]
     /\ Become(c, Idle)
     /\ UNCHANGED clock

Die(c) == req[c] # Idle /\ Become(c, Idle) /\ UNCHANGED <<leases, clock>>

\* No request outlives the delay that is assumed of it.
Tick == /\ clock < MaxClock
        /\ \A c \in Client : req[c] # Idle => clock < req[c].now + MaxDelay
        /\ clock' = clock + 1
        /\ UNCHANGED <<leases, req>>

Next == \/ Tick
        \/ \E c \in Client :
             \/ Begin(c) \/ Sweep(c)
             \/ ReadAcquire(c) \/ Acquire(c) \/ Reacquire(c)
             \/ ReadRow(c) \/ Renew(c) \/ Release(c) \/ ReleaseExpired(c)
             \/ Die(c)

Spec == Init /\ [][Next]_vars

-----------------------------------------------------------------------------
(* Correctness *)

TypeOK == /\ leases \in Seq(Lease)
          /\ clock \in Nat
          /\ req \in [Client -> Request \cup {Idle}]

\* Two leases of different agents that overlap now.
Contended(i, j) ==
  /\ Live(i, clock) /\ Live(j, clock)
  /\ leases[i].actor # leases[j].actor
  /\ LeaseScopesOverlap(leases[i].scope, leases[j].scope)

Shared(i, j) == leases[i].shared \/ leases[j].shared

\* Overlapping leases were asked for, or one was written between the other's
\* look at the table and its own write: expiry, renewal, release and changes
\* of scope leave no other way.
OverlapIsExplained ==
  \A i, j \in DOMAIN leases : Contended(i, j) =>
    \/ Shared(i, j)
    \/ i \in leases[j].missed
    \/ j \in leases[i].missed

\* The same of all leases not yet marked expired.
ActiveOverlapIsExplained ==
  \A i, j \in DOMAIN leases :
    /\ leases[i].status = "active" /\ leases[j].status = "active"
    /\ leases[i].actor # leases[j].actor
    /\ LeaseScopesOverlap(leases[i].scope, leases[j].scope)
    => Shared(i, j) \/ i \in leases[j].missed \/ j \in leases[i].missed

\* What a request may rely on: it is not late, it has swept what had expired
\* when it started, and what it decided still holds but for later writes.
Swept(r) == \A i \in DOMAIN leases :
  leases[i].status = "active" => leases[i].expires > r.now

Decided(r) ==
  /\ \A i \in DOMAIN leases :
       /\ leases[i].status = "active"
       /\ leases[i].actor # r.op.by
       /\ LeaseScopesOverlap(r.op.scope, leases[i].scope)
       => r.op.allow_overlap \/ i \in r.between
  /\ r.target # 0 => /\ r.target \in DOMAIN leases
                     /\ leases[r.target].actor = r.op.by

OwnsLease(r) == /\ r.op.lease \in DOMAIN leases
                /\ leases[r.op.lease].actor = r.op.by

RequestOK(r) == r.stage # "idle" =>
  /\ r.now <= clock /\ clock <= r.now + MaxDelay
  /\ r.op.kind \in {"renew", "release"} => r.op.lease \in DOMAIN leases
  /\ r.stage \in {"sweep", "read", "write", "expire"} => r.op.kind # "list"
  /\ r.stage \in {"read", "write", "expire"} => Swept(r)
  /\ r.stage # "write" => r.target = 0
  /\ r.stage = "write" /\ r.op.kind = "acquire" => Decided(r)
  /\ r.stage = "write" /\ r.op.kind # "acquire" => OwnsLease(r)
  /\ r.stage = "expire" => /\ r.op.kind = "release"
                           /\ OwnsLease(r)
                           /\ leases[r.op.lease].status # "active"

IInv == /\ TypeOK
        /\ Len(leases) <= MaxLeases
        /\ ActiveOverlapIsExplained
        /\ \A c \in Client : RequestOK(req[c])

\* A lease that ended stays ended, however late an extension of it arrives.
NeverRevived ==
  [][\A i \in DOMAIN leases :
       leases[i].status # "active" => leases'[i].status # "active"]_vars

\* A lease that has not expired ends only by its owner's release.
EndsByRelease ==
  [][\A i \in DOMAIN leases :
       Live(i, clock) /\ leases'[i].status # "active" =>
         /\ leases'[i].status = "released"
         /\ \E c \in Client : /\ Release(c)
                              /\ req[c].op.lease = i
                              /\ req[c].op.by = leases[i].actor]_vars

=============================================================================
