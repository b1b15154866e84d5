------------------------- MODULE WorkspaceSnapshot -------------------------
(***************************************************************************)
(* freezeWorkspaceSnapshot and propose_accept: a tip vector is read, read   *)
(* again, stored, read a third time and then published as a proposal stone, *)
(* while drafts keep moving.  The drafts are the registers of CasTree,      *)
(* which WorkspaceDraft implements.  Two ways of reading a vector:          *)
(* `listing` is one SELECT over a prefix, `paths` one SELECT per path.      *)
(***************************************************************************)
EXTENDS Naturals, Sequences

CONSTANTS
  Path,      \* canonical workspace paths
  Freezer,   \* concurrent propose_accept requests
  MaxLog,    \* bound: revisions in the log
  Removals,  \* whether drafts are deleted or renamed meanwhile
  CanDie     \* whether a request may die between two steps

ASSUME RemovalsAssumption == Removals \in BOOLEAN
ASSUME CanDieAssumption   == CanDie \in BOOLEAN

VARIABLES
  head, log,   \* the drafts
  snapshots,   \* workspace_snapshots: the id is a hash of the vector
  proposals,   \* the vectors of the proposal stones
  job,         \* the request each freezer is working on
  live         \* history: every tip vector the workspace has had

vars == <<head, log, snapshots, proposals, job, live>>

Tree == INSTANCE CasTree

-----------------------------------------------------------------------------
(* Vectors: 0 stands for a path that is not in the vector. *)

Vector == [Path -> Nat]
Blank  == [p \in Path |-> 0]

Only(h, scope) == [p \in Path |-> IF p \in scope THEN h[p] ELSE 0]

\* Some instant had this vector: its paths held exactly these revisions.
WasLive(v) == \E h \in live : \A p \in Path : v[p] # 0 => h[p] = v[p]

\* `read` paths of the list are in `got` in this reading; `vector` is the result
\* of the first one.  `between` is history: the tips when the first one ended.
Stage == {"idle", "first", "second", "store", "third", "publish"}

Job == [stage: Stage, order: Seq(Path), scope: SUBSET Path,
        read: Nat, got: Vector, vector: Vector, between: Vector]

Idle == [stage |-> "idle", order |-> <<>>, scope |-> {}, read |-> 0,
         got |-> Blank, vector |-> Blank, between |-> Blank]

Init == /\ Tree!Init
        /\ snapshots = {}
        /\ proposals = {}
        /\ job = [f \in Freezer |-> Idle]
        /\ live = {Blank}

Become(f, j) == job' = [job EXCEPT ![f] = j]

-----------------------------------------------------------------------------
(* The drafts move *)

Edit == /\ \/ Tree!Record
           \/ \E p \in Path : \/ Tree!Create(p)
                              \/ Tree!Advance(p)
                              \/ Removals /\ Tree!Remove(p)
        /\ Len(log') <= MaxLog
        /\ live' = live \cup {head'}
        /\ UNCHANGED <<snapshots, proposals, job>>

-----------------------------------------------------------------------------
(* Freezing *)

\* The authorized request names a list of paths, or a prefix (or nothing).  A
\* path named twice only adds a reading, and is left out.
BeginPaths(f) ==
  \E n \in 1..2 : \E order \in [1..n -> Path] :
    /\ job[f] = Idle
    /\ \A i, k \in 1..n : order[i] = order[k] => i = k
    /\ Become(f, [Idle EXCEPT !.stage = "first", !.order = order])
    /\ UNCHANGED <<head, log, snapshots, proposals, live>>

BeginListing(f) ==
  \E scope \in (SUBSET Path) \ {{}} :
    /\ job[f] = Idle
    /\ Become(f, [Idle EXCEPT !.stage = "first", !.scope = scope])
    /\ UNCHANGED <<head, log, snapshots, proposals, live>>

\* The vector of the first reading is kept and compared with the others.
AfterFirst(j, got) ==
  IF got = Blank THEN Idle
  ELSE [j EXCEPT !.stage = "second", !.vector = got, !.read = 0,
                 !.got = Blank, !.between = head]

AfterThird(j, got) ==
  IF got # j.vector THEN Idle ELSE [j EXCEPT !.stage = "publish"]

\* Mutant: the second reading is not compared.
AfterSecondUnchecked(j, got) ==
  [j EXCEPT !.stage = "store", !.read = 0, !.got = Blank]

AfterSecond(j, got) ==
  IF got # j.vector THEN Idle
  ELSE [j EXCEPT !.stage = "store", !.read = 0, !.got = Blank]

\* What follows a completed reading.
AfterReading(j, got) ==
  IF j.stage = "first" THEN AfterFirst(j, got)
  ELSE IF j.stage = "second" THEN AfterSecond(j, got)
  ELSE AfterThird(j, got)

Reading(f) == job[f].stage \in {"first", "second", "third"}

ReadListing(f) ==
  /\ Reading(f)
  /\ job[f].order = <<>>
  /\ Become(f, AfterReading(job[f], Only(head, job[f].scope)))
  /\ UNCHANGED <<head, log, snapshots, proposals, live>>

\* One path of the list: without a tip it is workspace_path_not_found.
ReadPath(f) ==
  LET j   == job[f]
      p   == j.order[j.read + 1]
      got == [j.got EXCEPT ![p] = head[p]]
  IN /\ Reading(f)
     /\ j.order # <<>>
     /\ Become(f, IF head[p] = 0 THEN Idle
                  ELSE IF j.read + 1 = Len(j.order) THEN AfterReading(j, got)
                  ELSE [j EXCEPT !.read = j.read + 1, !.got = got])
     /\ UNCHANGED <<head, log, snapshots, proposals, live>>

Store(f) ==
  /\ job[f].stage = "store"
  /\ snapshots' = snapshots \cup {job[f].vector}
  /\ Become(f, [job[f] EXCEPT !.stage = "third"])
  /\ UNCHANGED <<head, log, proposals, live>>

\* The bound GitHub ref is resolved and the proposal stone created, or one of
\* the two fails: the snapshot stays either way.
Publish(f) ==
  /\ job[f].stage = "publish"
  /\ \/ proposals' = proposals \cup {job[f].vector}
     \/ UNCHANGED proposals
  /\ Become(f, Idle)
  /\ UNCHANGED <<head, log, snapshots, live>>

Die(f) ==
  /\ CanDie
  /\ job[f] # Idle
  /\ Become(f, Idle)
  /\ UNCHANGED <<head, log, snapshots, proposals, live>>

Next == \/ Edit
        \/ \E f \in Freezer :
             \/ BeginPaths(f) \/ BeginListing(f)
             \/ ReadListing(f) \/ ReadPath(f)
             \/ Store(f) \/ Publish(f) \/ Die(f)

Spec == Init /\ [][Next]_vars

-----------------------------------------------------------------------------
(* Correctness *)

TypeOK ==
  /\ head \in Vector
  /\ log \in Seq([path: Path, parent: Nat])
  /\ snapshots \subseteq Vector
  /\ proposals \subseteq Vector
  /\ job \in [Freezer -> Job]
  /\ head \in live /\ live \subseteq Vector

\* The double reading: a stored vector, put together from one SELECT per path
\* while writers moved the tips in between, is a vector the workspace really
\* had at one instant.
StoredVectorWasLive == \A v \in snapshots : WasLive(v)

(* The inductive invariant, when nothing is deleted or renamed: tips only    *)
(* grow, so two equal readings enclose an instant at which all of it held.   *)

LogGrows == \A i \in 1..Len(log) : log[i].parent < i

\* Only a vector that was stored is proposed.
ProposedIsStored == proposals \subseteq snapshots

\* What has been read of a path was its tip then, and tips only grow.
JobOK(j) ==
  /\ j.order # <<>> => j.read < Len(j.order)
  /\ j.stage = "first" => \A p \in Path : j.got[p] <= head[p]
  /\ j.stage = "second" =>
       /\ j.between \in live
       /\ \A p \in Path :
            /\ j.vector[p] <= j.between[p]
            /\ j.between[p] <= head[p]
            /\ j.got[p] # 0 => j.between[p] <= j.got[p]
  /\ j.stage \in {"store", "third", "publish"} => WasLive(j.vector)
  /\ j.stage \in {"third", "publish"} => j.vector \in snapshots

IInv == /\ TypeOK
        /\ LogGrows
        /\ \A f \in Freezer : JobOK(job[f])
        /\ ProposedIsStored
        /\ StoredVectorWasLive

=============================================================================
