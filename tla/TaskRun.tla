------------------------------ MODULE TaskRun ------------------------------
(***************************************************************************)
(* Task runs: proposed, dispatched to an executor by a human's commit, or   *)
(* cancelled; a run under way may have children within its ceilings.  Every *)
(* operation reads a row, decides, and writes by task_run_id alone; a child *)
(* is inserted first and added to its parent's list by a second write.      *)
(* Requests of actors who may not are refused and change nothing: they are  *)
(* left out.                                                                *)
(***************************************************************************)
EXTENDS Naturals, FiniteSets

CONSTANTS
  Client,      \* concurrent requests
  Run,         \* task run ids
  Ref,         \* object references (attachment_refs and object_refs as one)
  Cap,         \* capabilities
  Override,    \* capability lists a dispatch names in place of the row's
  Hint,        \* sets of capabilities that a run's refs and note may imply
  MaxDepth,    \* TASK_RUN_MAX_DELEGATION_DEPTH
  MaxFanout,   \* TASK_RUN_MAX_FANOUT
  MaxInvoked   \* bound: invocations of one run

VARIABLES
  runs,      \* task_runs
  invoked,   \* how often an executor was invoked for each run (not in the code)
  req        \* the request each client is working on

vars == <<runs, invoked, req>>

-----------------------------------------------------------------------------
State == {<<"proposed", "not_dispatched">>, <<"queued", "dispatched">>,
          <<"completed", "completed">>, <<"cancelled", "not_dispatched">>,
          <<"cancelled", "cancelled">>}
Row == [state: State, caps: SUBSET Cap, refs: SUBSET Ref, hint: Hint,
        parent: Run \cup {"none"}, depth: 0..MaxDepth, children: SUBSET Run]
Absent == [state |-> <<"none", "none">>]

Exists(r)   == runs[r] # Absent
Status(row) == row.state[1]
Dispatchable(row) == row.state = <<"proposed", "not_dispatched">>
Active(row) == Status(row) = "queued"
Terminal(row) == Status(row) \in {"completed", "cancelled"}

Idle == [stage |-> "idle"]

Init == /\ runs = [r \in Run |-> Absent]
        /\ invoked = [r \in Run |-> 0]
        /\ req = [c \in Client |-> Idle]

Become(c, r) == req' = [req EXCEPT ![c] = r]
Reply(c) == Become(c, Idle)
At(c, stage) == req[c].stage = stage

-----------------------------------------------------------------------------
(* proposeTaskRun *)

Proposed(caps, refs, hint, parent, depth) ==
  [state |-> <<"proposed", "not_dispatched">>, caps |-> caps, refs |-> refs,
   hint |-> hint, parent |-> parent, depth |-> depth, children |-> {}]

Propose(c) ==
  /\ At(c, "idle")
  /\ \E r \in Run, caps \in SUBSET Cap, refs \in SUBSET Ref \ {{}}, hint \in Hint :
       /\ ~Exists(r)
       /\ runs' = [runs EXCEPT ![r] = Proposed(caps, refs, hint, "none", 0)]
  /\ Reply(c)
  /\ UNCHANGED invoked

\* Mutant: the ceiling of the references is left to the dispatch.
AllowedAnyRef(p, caps, refs) ==
  Active(p) /\ p.depth + 1 <= MaxDepth /\ Cardinality(p.children) < MaxFanout
  /\ caps \subseteq p.caps

\* The parent is under way, has room, and its ceilings hold the child.
Allowed(p, caps, refs) ==
  /\ Active(p)
  /\ p.depth + 1 <= MaxDepth
  /\ Cardinality(p.children) < MaxFanout
  /\ refs \subseteq p.refs
  /\ caps \subseteq p.caps

BeginChild(c) ==
  /\ At(c, "idle")
  /\ \E p \in Run, r \in Run, caps \in SUBSET Cap, refs \in SUBSET Ref \ {{}}, hint \in Hint :
       /\ Exists(p) /\ p # r
       /\ Allowed(runs[p], caps, refs)
       /\ Become(c, [stage |-> "insert", run |-> r,
                     row |-> Proposed(caps, refs, hint, p, runs[p].depth + 1)])
  /\ UNCHANGED <<runs, invoked>>

InsertChild(c) ==
  /\ At(c, "insert")
  /\ IF Exists(req[c].run)
     THEN Reply(c) /\ UNCHANGED runs
     ELSE /\ runs' = [runs EXCEPT ![req[c].run] = req[c].row]
          /\ Become(c, [req[c] EXCEPT !.stage = "parent"])
  /\ UNCHANGED invoked

ReadParent(c) ==
  /\ At(c, "parent")
  /\ Become(c, [stage |-> "list", run |-> req[c].run, parent |-> req[c].row.parent,
                children |-> runs[req[c].row.parent].children])
  /\ UNCHANGED <<runs, invoked>>

\* The list read, and this child: another child listed meanwhile is lost.
ListChild(c) ==
  /\ At(c, "list")
  /\ runs' = [runs EXCEPT ![req[c].parent].children = req[c].children \cup {req[c].run}]
  /\ Reply(c)
  /\ UNCHANGED invoked

-----------------------------------------------------------------------------
(* dispatchTaskRun, with human_commit *)

\* The route adds the capabilities that references and note imply; it may
\* find no executor.
BeginDispatch(c) ==
  /\ At(c, "idle")
  /\ \E r \in Run : Exists(r) /\ Dispatchable(runs[r]) /\
       \E caps \in {runs[r].caps} \cup Override :
         Become(c, [stage |-> "invoke", run |-> r, caps |-> caps \cup runs[r].hint])
  /\ UNCHANGED <<runs, invoked>>

\* The executor reads at once, queues a job, or reports a failure: then the
\* row stays as it was.
Invoke(c) ==
  /\ At(c, "invoke")
  /\ invoked[req[c].run] < MaxInvoked
  /\ invoked' = [invoked EXCEPT ![req[c].run] = @ + 1]
  /\ \/ Reply(c)
     \/ \E s \in {<<"queued", "dispatched">>, <<"completed", "completed">>} :
          Become(c, [stage |-> "record", run |-> req[c].run, caps |-> req[c].caps,
                     state |-> s])
  /\ UNCHANGED runs

Record(c) ==
  /\ At(c, "record")
  /\ runs' = [runs EXCEPT ![req[c].run] =
       [@ EXCEPT !.state = req[c].state, !.caps = req[c].caps]]
  /\ Reply(c)
  /\ UNCHANGED invoked

-----------------------------------------------------------------------------
(* cancelTaskRun *)

\* Mutant: a run that is over can be cancelled.
CancellableAny(row) == row # Absent

Cancellable(row) == row # Absent /\ ~Terminal(row)

BeginCancel(c) ==
  /\ At(c, "idle")
  /\ \E r \in Run :
       /\ Cancellable(runs[r])
       /\ Become(c, [stage |-> "cancel", run |-> r])
  /\ UNCHANGED <<runs, invoked>>

Cancel(c) ==
  /\ At(c, "cancel")
  /\ runs' = [runs EXCEPT ![req[c].run].state =
       IF @[2] = "not_dispatched" THEN <<"cancelled", "not_dispatched">>
       ELSE <<"cancelled", "cancelled">>]
  /\ Reply(c)
  /\ UNCHANGED invoked

Die(c) ==
  /\ ~At(c, "idle")
  /\ Reply(c)
  /\ UNCHANGED <<runs, invoked>>

Next == \E c \in Client :
          \/ Propose(c) \/ BeginChild(c) \/ InsertChild(c) \/ ReadParent(c) \/ ListChild(c)
          \/ BeginDispatch(c) \/ Invoke(c) \/ Record(c)
          \/ BeginCancel(c) \/ Cancel(c) \/ Die(c)
Spec == Init /\ [][Next]_vars

-----------------------------------------------------------------------------
(* Properties *)

\* The shape of the rows.
TypeOK == /\ runs \in [Run -> Row \cup {Absent}]
          /\ \A c \in Client : At(c, "insert") => req[c].row \in Row

\* Every run a parent lists is there, names that parent and is one level below
\* it, however proposals overlap or die: the list may miss a child, it never
\* invents one.
ListedChildrenExist ==
  \A p \in Run : Exists(p) => \A r \in runs[p].children :
    Exists(r) /\ runs[r].parent = p /\ runs[r].depth = runs[p].depth + 1

\* A child refers to nothing its ancestors did not refer to.
RefsNest ==
  \A r \in Run : Exists(r) /\ runs[r].parent # "none" =>
    runs[r].refs \subseteq runs[runs[r].parent].refs

\* A child is never handed more capabilities than its parent holds.
CapsNest ==
  \A r \in Run : Exists(r) /\ runs[r].parent # "none" =>
    runs[r].caps \subseteq runs[runs[r].parent].caps

InFlight(r) == \E c \in Client : req[c].stage \in {"invoke", "record", "cancel"}
                                 /\ req[c].run = r

\* A run that is over stays as it is and no executor is called for it again,
\* unless a request had read it before it was over and has yet to write.
OverUnlessRaced ==
  [][\A r \in Run : Exists(r) /\ Terminal(runs[r]) /\ ~InFlight(r) =>
       runs'[r].state = runs[r].state /\ invoked'[r] = invoked[r] /\ ~InFlight(r)']_vars

\* Parents and children stay consistent, whichever proposals overlap.
FamilyKept ==
  /\ TypeOK
  /\ ListedChildrenExist
  /\ RefsNest
=============================================================================
