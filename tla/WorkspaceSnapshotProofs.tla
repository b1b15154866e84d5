---------------------- MODULE WorkspaceSnapshotProofs ----------------------
(***************************************************************************)
(* While no draft is deleted or renamed, every stored tip vector is one the *)
(* workspace had at an instant: tips only move to later revisions, so two   *)
(* equal readings leave no room for a change between them.                  *)
(***************************************************************************)
EXTENDS WorkspaceSnapshot, TLAPS

Steady == Removals = FALSE

LEMMA BlankType == Blank \in Vector
BY DEF Blank, Vector

LEMMA IdleType == Idle \in Job
BY BlankType DEF Idle, Job, Stage

LEMMA RestartType ==
  ASSUME NEW j \in Job, NEW s \in Stage
  PROVE  [j EXCEPT !.stage = s, !.read = 0, !.got = Blank] \in Job
BY BlankType DEF Job

LEMMA KeepType ==
  ASSUME NEW j \in Job, NEW v \in Vector, NEW h \in Vector
  PROVE  [j EXCEPT !.stage = "second", !.vector = v, !.read = 0,
                   !.got = Blank, !.between = h] \in Job
BY BlankType DEF Job, Stage

LEMMA OneReadType ==
  ASSUME NEW j \in Job, NEW v \in Vector
  PROVE  [j EXCEPT !.read = j.read + 1, !.got = v] \in Job
<1>1. j.read + 1 \in Nat
  BY DEF Job
<1>2. QED
  BY <1>1 DEF Job

LEMMA IdleOK == JobOK(Idle)
BY DEF JobOK, Idle, Blank, Vector

LEMMA OnlyType ==
  ASSUME NEW h \in Vector, NEW scope \in SUBSET Path
  PROVE  /\ Only(h, scope) \in Vector
         /\ \A p \in Path : Only(h, scope)[p] \in {0, h[p]}
BY DEF Only, Vector

\* What the tables say of a request survives while they and the tips grow.
Grows == /\ head' \in Vector
         /\ \A p \in Path : head[p] <= head'[p]
         /\ live \subseteq live'
         /\ snapshots \subseteq snapshots'

LEMMA WasLiveStable ==
  ASSUME NEW v, live \subseteq live', WasLive(v)
  PROVE  WasLive(v)'
BY DEF WasLive

LEMMA JobStable ==
  ASSUME TypeOK, Grows, NEW j \in Job, JobOK(j)
  PROVE  JobOK(j)'
<1>1. /\ \A p \in Path : head[p] \in Nat /\ head'[p] \in Nat
      /\ \A p \in Path : j.got[p] \in Nat /\ j.vector[p] \in Nat /\ j.between[p] \in Nat
  BY DEF TypeOK, Grows, Vector, Job
<1>2. j.stage = "first" => \A p \in Path : j.got[p] <= head'[p]
  BY <1>1 DEF JobOK, Grows
<1>3. j.stage = "second" => \A p \in Path : j.between[p] <= head'[p]
  BY <1>1 DEF JobOK, Grows
<1>4. j.stage \in {"store", "third", "publish"} => WasLive(j.vector)'
  BY WasLiveStable DEF JobOK, Grows
<1>5. QED
  BY <1>2, <1>3, <1>4 DEF JobOK, Grows

\* A step that replaces one request and lets the tables grow.
LEMMA JobsStable ==
  ASSUME IInv, Grows, NEW f \in Freezer, NEW n \in Job, Become(f, n), JobOK(n)'
  PROVE  /\ job' \in [Freezer -> Job]
         /\ \A g \in Freezer : JobOK(job[g])'
<1>1. job' \in [Freezer -> Job] /\ job'[f] = n
  BY DEF IInv, TypeOK, Become
<1>2. ASSUME NEW g \in Freezer, g # f  PROVE JobOK(job[g])'
  <2>1. job'[g] = job[g] /\ job[g] \in Job
    BY <1>2 DEF IInv, TypeOK, Become
  <2>2. QED
    BY <2>1, JobStable DEF IInv, JobOK
<1>3. JobOK(job[f])'
  BY <1>1 DEF JobOK
<1>4. QED
  BY <1>1, <1>2, <1>3

\* A step that changes nothing but one request.
LEMMA JobStep ==
  ASSUME IInv, UNCHANGED <<head, log, snapshots, proposals, live>>,
         NEW f \in Freezer, NEW n \in Job, Become(f, n), JobOK(n)
  PROVE  IInv'
<1>1. Grows
  BY DEF IInv, TypeOK, Grows, Vector
<1>2. JobOK(n)'
  BY JobStable, <1>1 DEF IInv
<1>3. job' \in [Freezer -> Job] /\ \A g \in Freezer : JobOK(job[g])'
  BY JobsStable, <1>1, <1>2
<1>4. QED
  BY <1>3 DEF IInv, TypeOK, LogGrows, ProposedIsStored, StoredVectorWasLive, WasLive

-----------------------------------------------------------------------------
(* The steps *)

LEMMA InitIInv == Init => IInv
BY BlankType, IdleType, IdleOK
   DEF Init, Tree!Init, IInv, TypeOK, Blank, LogGrows, ProposedIsStored,
       StoredVectorWasLive

\* Without removals a draft's tip only moves to a later revision.
LEMMA EditIInv ==
  ASSUME IInv, Steady, Edit
  PROVE  IInv'
<1>1. /\ log' \in Seq([path: Path, parent: Nat])
      /\ LogGrows'
      /\ head' \in Vector
      /\ \A p \in Path : head[p] <= head'[p]
  <2>0. Len(log) \in Nat /\ \A p \in Path : head[p] \in Nat
    BY DEF IInv, TypeOK, Vector
  <2>1. CASE Tree!Record
    <3>1. PICK p \in Path, base \in 0..Len(log) :
            /\ log' = Append(log, [path |-> p, parent |-> base])
            /\ UNCHANGED head
      BY <2>1 DEF Tree!Record
    <3>2. base \in Nat
      OBVIOUS
    <3>3. log' \in Seq([path: Path, parent: Nat])
      BY <3>1, <3>2 DEF IInv, TypeOK
    <3>4. LogGrows'
      BY <3>1, <3>2, <2>0 DEF IInv, TypeOK, LogGrows
    <3>5. QED
      BY <3>1, <3>3, <3>4, <2>0 DEF IInv, TypeOK
  <2>2. CASE \E p \in Path : Tree!Create(p)
    <3>1. PICK p \in Path, r \in 1..Len(log) :
            head[p] = 0 /\ head' = [head EXCEPT ![p] = r] /\ UNCHANGED log
      BY <2>2 DEF Tree!Create
    <3>2. r \in Nat
      OBVIOUS
    <3>3. QED
      BY <3>1, <3>2, <2>0 DEF IInv, TypeOK, Vector, LogGrows
  <2>3. CASE \E p \in Path : Tree!Advance(p)
    <3>1. PICK p \in Path, r \in 1..Len(log) :
            /\ log[r] = [path |-> p, parent |-> head[p]]
            /\ head' = [head EXCEPT ![p] = r]
            /\ UNCHANGED log
      BY <2>3 DEF Tree!Advance
    <3>2. r \in Nat /\ head[p] < r
      BY <3>1, <2>0 DEF IInv, LogGrows
    <3>3. QED
      BY <3>1, <3>2, <2>0 DEF IInv, TypeOK, Vector, LogGrows
  <2>4. QED
    BY <2>1, <2>2, <2>3 DEF Edit, Steady
<1>2. live' = live \cup {head'} /\ UNCHANGED <<snapshots, proposals, job>>
  BY DEF Edit
<1>3. Grows
  BY <1>1, <1>2 DEF Grows
<1>4. \A f \in Freezer : JobOK(job[f])'
  <2>1. SUFFICES ASSUME NEW f \in Freezer  PROVE JobOK(job[f])'
    OBVIOUS
  <2>2. job[f] \in Job /\ job'[f] = job[f] /\ JobOK(job[f])
    BY <1>2 DEF IInv, TypeOK
  <2>3. QED
    BY <2>2, <1>3, JobStable DEF IInv, JobOK
<1>5. TypeOK'
  BY <1>1, <1>2 DEF IInv, TypeOK
<1>6. StoredVectorWasLive'
  BY <1>2 DEF IInv, StoredVectorWasLive, WasLive
<1>7. QED
  BY <1>1, <1>2, <1>4, <1>5, <1>6 DEF IInv, ProposedIsStored

\* A vector read twice alike, the tips growing in between, was live between.
LEMMA TwoEqualReadings ==
  ASSUME TypeOK, NEW j \in Job, JobOK(j), j.stage = "second",
         NEW got \in Vector, got = j.vector,
         \A p \in Path : got[p] # 0 => j.between[p] <= got[p]
  PROVE  WasLive(j.vector)
<1>1. \A p \in Path : j.vector[p] \in Nat /\ j.between[p] \in Nat
  BY DEF Job, Vector
<1>2. \A p \in Path : j.vector[p] # 0 => j.between[p] = j.vector[p]
  BY <1>1 DEF JobOK
<1>3. QED
  BY <1>2 DEF WasLive, JobOK

\* What a completed reading leads to, whichever way it was made.
LEMMA AfterReadingOK ==
  ASSUME IInv, NEW j \in Job, JobOK(j),
         j.stage \in {"first", "second", "third"}, NEW got \in Vector,
         j.stage = "first" => \A p \in Path : got[p] <= head[p],
         j.stage = "second" => \A p \in Path : got[p] # 0 => j.between[p] <= got[p]
  PROVE  AfterReading(j, got) \in Job /\ JobOK(AfterReading(j, got))
<1> DEFINE k == AfterReading(j, got)
<1>0. Len(j.order) \in Nat /\ (j.order # <<>> => Len(j.order) > 0)
  BY DEF Job
<1>1. CASE j.stage = "first" /\ got # Blank
  <2>1. k = [j EXCEPT !.stage = "second", !.vector = got, !.read = 0,
                      !.got = Blank, !.between = head]
    BY <1>1 DEF AfterReading, AfterFirst, AfterSecond, AfterThird
  <2>2. k \in Job
    <3>1. head \in Vector
      BY DEF IInv, TypeOK
    <3>2. [j EXCEPT !.stage = "second", !.vector = got, !.read = 0,
                    !.got = Blank, !.between = head] \in Job
      BY <3>1, KeepType
    <3>3. QED
      BY <2>1, <3>2
  <2>3. \A p \in Path : head[p] \in Nat /\ got[p] \in Nat /\ Blank[p] = 0
    BY DEF IInv, TypeOK, Vector, Blank
  <2>4. /\ k.order = j.order /\ k.read = 0 /\ k.stage = "second"
        /\ k.got = Blank /\ k.vector = got /\ k.between = head
    BY <2>1 DEF Job
  <2>5. JobOK(k)
    BY <2>3, <2>4, <1>0, <1>1 DEF JobOK, IInv, TypeOK
  <2>6. QED
    BY <2>2, <2>5
<1>2. CASE j.stage = "second" /\ got = j.vector
  <2>1. k = [j EXCEPT !.stage = "store", !.read = 0, !.got = Blank]
    BY <1>2 DEF AfterReading, AfterFirst, AfterSecond, AfterThird
  <2>2. k \in Job
    BY <2>1, RestartType DEF Stage
  <2>3. WasLive(j.vector)
    BY <1>2, TwoEqualReadings DEF IInv
  <2>4. /\ k.order = j.order /\ k.read = 0 /\ k.stage = "store"
        /\ k.vector = j.vector
    BY <2>1, <1>2 DEF Job
  <2>5. JobOK(k)
    BY <2>3, <2>4, <1>0 DEF JobOK
  <2>6. QED
    BY <2>2, <2>5
<1>3. CASE j.stage = "third" /\ got = j.vector
  <2>1. k = [j EXCEPT !.stage = "publish"]
    BY <1>3 DEF AfterReading, AfterFirst, AfterSecond, AfterThird
  <2>2. k \in Job
    BY <2>1 DEF Job, Stage
  <2>3. JobOK(k)
    BY <2>1, <1>3 DEF JobOK, Job
  <2>4. QED
    BY <2>2, <2>3
<1>4. CASE k = Idle
  BY <1>4, IdleType, IdleOK
<1>5. QED
  BY <1>1, <1>2, <1>3, <1>4 DEF AfterReading, AfterFirst, AfterSecond, AfterThird

LEMMA BeginIInv ==
  ASSUME IInv, NEW f \in Freezer, BeginPaths(f) \/ BeginListing(f)
  PROVE  IInv'
<1>1. CASE BeginPaths(f)
  <2>0. PICK n \in 1..2 : \E order \in [1..n -> Path] :
          /\ Become(f, [Idle EXCEPT !.stage = "first", !.order = order])
          /\ UNCHANGED <<head, log, snapshots, proposals, live>>
    BY <1>1 DEF BeginPaths
  <2>1. PICK order \in [1..n -> Path] :
          /\ Become(f, [Idle EXCEPT !.stage = "first", !.order = order])
          /\ UNCHANGED <<head, log, snapshots, proposals, live>>
    BY <2>0
  <2> DEFINE j == [Idle EXCEPT !.stage = "first", !.order = order]
  <2>2. order \in Seq(Path) /\ Len(order) = n /\ n > 0
    OBVIOUS
  <2>3. j \in Job
    BY <2>2, IdleType DEF Job, Idle, Stage
  <2>4. \A p \in Path : 0 <= head[p] /\ Blank[p] = 0
    BY DEF IInv, TypeOK, Vector, Blank
  <2>5. JobOK(j)
    BY <2>2, <2>4 DEF JobOK, Idle
  <2>6. QED
    BY <2>1, <2>3, <2>5, JobStep
<1>2. CASE BeginListing(f)
  <2>1. PICK scope \in SUBSET Path :
          /\ Become(f, [Idle EXCEPT !.stage = "first", !.scope = scope])
          /\ UNCHANGED <<head, log, snapshots, proposals, live>>
    BY <1>2 DEF BeginListing
  <2> DEFINE j == [Idle EXCEPT !.stage = "first", !.scope = scope]
  <2>2. j \in Job
    BY IdleType DEF Job, Idle, Stage
  <2>3. \A p \in Path : 0 <= head[p] /\ Blank[p] = 0
    BY DEF IInv, TypeOK, Vector, Blank
  <2>4. JobOK(j)
    BY <2>3 DEF JobOK, Idle
  <2>5. QED
    BY <2>1, <2>2, <2>4, JobStep
<1>3. QED
  BY <1>1, <1>2

LEMMA ReadListingIInv ==
  ASSUME IInv, NEW f \in Freezer, ReadListing(f)
  PROVE  IInv'
<1> DEFINE j == job[f]
           got == Only(head, j.scope)
<1>1. j \in Job /\ JobOK(j) /\ head \in Vector
  BY DEF IInv, TypeOK
<1>2. j.stage \in {"first", "second", "third"}
  BY DEF ReadListing, Reading
<1>3. got \in Vector /\ \A p \in Path : got[p] \in {0, head[p]}
  BY <1>1, OnlyType DEF Job
<1>4. \A p \in Path : head[p] \in Nat
  BY <1>1 DEF Vector
<1>5. \A p \in Path : got[p] <= head[p]
  <2>1. SUFFICES ASSUME NEW p \in Path  PROVE got[p] <= head[p]
    OBVIOUS
  <2>2. head[p] \in Nat /\ (got[p] = 0 \/ got[p] = head[p])
    BY <1>3, <1>4
  <2> HIDE DEF got
  <2>3. QED
    BY <2>2
<1>6. j.stage = "second" => \A p \in Path : got[p] # 0 => j.between[p] <= got[p]
  BY <1>1, <1>2, <1>3 DEF JobOK
<1>7. AfterReading(j, got) \in Job /\ JobOK(AfterReading(j, got))
  BY <1>1, <1>2, <1>3, <1>5, <1>6, AfterReadingOK
<1>8. QED
  BY <1>7, JobStep DEF ReadListing

LEMMA ReadPathIInv ==
  ASSUME IInv, NEW f \in Freezer, ReadPath(f)
  PROVE  IInv'
<1> DEFINE j   == job[f]
           p   == j.order[j.read + 1]
           got == [j.got EXCEPT ![p] = head[p]]
<1>1. j \in Job /\ JobOK(j) /\ head \in Vector
  BY DEF IInv, TypeOK
<1>2. j.stage \in {"first", "second", "third"} /\ j.order # <<>>
  BY DEF ReadPath, Reading
<1>3. p \in Path
  <2>1. j.read \in Nat /\ j.order \in Seq(Path) /\ j.read < Len(j.order)
    BY <1>1, <1>2 DEF Job, JobOK
  <2>2. j.read + 1 \in 1..Len(j.order)
    BY <2>1
  <2>3. QED
    BY <2>1, <2>2
<1>4. got \in Vector
  BY <1>1, <1>3 DEF Job, Vector
<1>5. /\ got[p] = head[p]
      /\ \A q \in Path : q # p => got[q] = j.got[q]
      /\ \A q \in Path : head[q] \in Nat /\ j.got[q] \in Nat
  BY <1>1, <1>3 DEF Job, Vector
<1>6. j.stage = "first" => \A q \in Path : got[q] <= head[q]
  <2>1. SUFFICES ASSUME j.stage = "first", NEW q \in Path
                 PROVE  got[q] <= head[q]
    OBVIOUS
  <2>2. head[q] \in Nat /\ j.got[q] <= head[q]
    BY <1>1, <1>5, <2>1 DEF JobOK
  <2>3. got[q] = head[q] \/ got[q] = j.got[q]
    BY <1>5
  <2> HIDE DEF got
  <2>4. QED
    BY <2>2, <2>3
<1>7. j.stage = "second" => \A q \in Path : got[q] # 0 => j.between[q] <= got[q]
  BY <1>1, <1>2, <1>3, <1>5 DEF JobOK
<1>8. AfterReading(j, got) \in Job /\ JobOK(AfterReading(j, got))
  BY <1>1, <1>2, <1>4, <1>6, <1>7, AfterReadingOK
<1> DEFINE k == [j EXCEPT !.read = j.read + 1, !.got = got]
<1>9. ASSUME j.read + 1 # Len(j.order)  PROVE k \in Job /\ JobOK(k)
  <2>1. k \in Job
    BY <1>1, <1>4, OneReadType
  <2>2. /\ k.order = j.order /\ k.read = j.read + 1 /\ k.stage = j.stage
        /\ k.got = got /\ k.vector = j.vector /\ k.between = j.between
    BY <1>1 DEF Job
  <2>3. k.read < Len(k.order)
    <3>1. j.read \in Nat /\ Len(j.order) \in Nat /\ j.read < Len(j.order)
      BY <1>1, <1>2 DEF Job, JobOK
    <3>2. QED
      BY <3>1, <2>2, <1>9
  <2>4. JobOK(k)
    BY <2>2, <2>3, <1>1, <1>2, <1>6, <1>7 DEF JobOK
  <2>5. QED
    BY <2>1, <2>4
<1>10. QED
  BY <1>8, <1>9, IdleType, IdleOK, JobStep DEF ReadPath

LEMMA StoreIInv ==
  ASSUME IInv, NEW f \in Freezer, Store(f)
  PROVE  IInv'
<1>0. PICK j \in Job : j = job[f]
  BY DEF IInv, TypeOK
<1> DEFINE k == [j EXCEPT !.stage = "third"]
<1>1. /\ j \in Job /\ JobOK(j) /\ j.stage = "store"
      /\ snapshots' = snapshots \cup {j.vector}
      /\ Become(f, k)
      /\ UNCHANGED <<head, log, proposals, live>>
  BY <1>0 DEF IInv, Store
<1>2. k \in Job
  BY <1>1 DEF Job, Stage
<1>3. Grows
  BY <1>1 DEF IInv, TypeOK, Grows, Vector
<1>4. /\ k.order = j.order /\ k.read = j.read /\ k.stage = "third"
      /\ k.vector = j.vector
  BY <1>1 DEF Job
<1>5. WasLive(j.vector) /\ live' = live
  BY <1>1 DEF JobOK
<1>6. JobOK(k)'
  BY <1>1, <1>4, <1>5 DEF JobOK, WasLive
<1>7. job' \in [Freezer -> Job] /\ \A g \in Freezer : JobOK(job[g])'
  BY <1>1, <1>2, <1>3, <1>6, JobsStable
<1>8. TypeOK'
  BY <1>1, <1>7 DEF IInv, TypeOK, Job
<1>9. StoredVectorWasLive'
  BY <1>1, <1>5 DEF IInv, StoredVectorWasLive, WasLive
<1>10. QED
  BY <1>1, <1>7, <1>8, <1>9 DEF IInv, LogGrows, ProposedIsStored

LEMMA PublishIInv ==
  ASSUME IInv, NEW f \in Freezer, Publish(f)
  PROVE  IInv'
<1>1. /\ job[f] \in Job /\ JobOK(job[f]) /\ job[f].stage = "publish"
      /\ proposals' \subseteq proposals \cup {job[f].vector}
      /\ Become(f, Idle)
      /\ UNCHANGED <<head, log, snapshots, live>>
  BY DEF IInv, TypeOK, Publish
<1>2. job[f].vector \in snapshots /\ job[f].vector \in Vector
  BY <1>1 DEF JobOK, Job
<1>3. Grows
  BY <1>1 DEF IInv, TypeOK, Grows, Vector
<1>4. JobOK(Idle)'
  BY <1>3, IdleType, IdleOK, JobStable DEF IInv
<1>5. job' \in [Freezer -> Job] /\ \A g \in Freezer : JobOK(job[g])'
  BY <1>1, <1>3, <1>4, IdleType, JobsStable
<1>6. TypeOK'
  BY <1>1, <1>2, <1>5 DEF IInv, TypeOK
<1>7. QED
  BY <1>1, <1>2, <1>5, <1>6
     DEF IInv, LogGrows, ProposedIsStored, StoredVectorWasLive, WasLive

LEMMA NextIInv == Steady /\ IInv /\ [Next]_vars => IInv'
<1> SUFFICES ASSUME Steady, IInv, [Next]_vars  PROVE IInv'
  OBVIOUS
<1>1. CASE Edit
  BY <1>1, EditIInv
<1>2. CASE \E f \in Freezer : BeginPaths(f) \/ BeginListing(f)
  BY <1>2, BeginIInv
<1>3. CASE \E f \in Freezer : ReadListing(f)
  BY <1>3, ReadListingIInv
<1>4. CASE \E f \in Freezer : ReadPath(f)
  BY <1>4, ReadPathIInv
<1>5. CASE \E f \in Freezer : Store(f)
  BY <1>5, StoreIInv
<1>6. CASE \E f \in Freezer : Publish(f)
  BY <1>6, PublishIInv
<1>7. CASE \E f \in Freezer : Die(f)
  BY <1>7, IdleType, IdleOK, JobStep DEF Die
<1>8. CASE UNCHANGED vars
  BY <1>8 DEF vars, IInv, TypeOK, LogGrows, JobOK, ProposedIsStored,
              StoredVectorWasLive, WasLive
<1>9. QED
  BY <1>1, <1>2, <1>3, <1>4, <1>5, <1>6, <1>7, <1>8 DEF Next

\* The strengthened invariant of freezing, while nothing is deleted or renamed.
THEOREM InductiveInvariant ==
  ASSUME Steady  PROVE Spec => []IInv
<1>1. Init => IInv
  BY InitIInv
<1>2. IInv /\ [Next]_vars => IInv'
  BY NextIInv
<1>3. QED
  BY <1>1, <1>2, PTL DEF Spec

\* A stored snapshot is a state the workspace was in at one instant, however
\* the readings interleave with the writers.
THEOREM StoredVectorsWereLive ==
  ASSUME Steady  PROVE Spec => []StoredVectorWasLive
<1>1. Spec => []IInv
  BY InductiveInvariant
<1>2. IInv => StoredVectorWasLive
  BY DEF IInv
<1>3. QED
  BY <1>1, <1>2, PTL

=============================================================================
