----------------------------- MODULE RepoStones -----------------------------
(***************************************************************************)
(* A repository made into stones: each accepted file of a tree gets a stone *)
(* or keeps the one it has, the path heads are set to them, an orientation  *)
(* becomes the head of the chain, and architecture, lint and review stones  *)
(* are written about it.  Nothing is atomic: the tree is read once, the     *)
(* files by the name of the branch, and a request may die at any statement. *)
(* Readers reconcile the path heads with a tree or show the chain.          *)
(***************************************************************************)
EXTENDS Naturals, Sequences, FiniteSets

CONSTANTS
  Client,         \* concurrent ingestions
  Path,           \* the paths of the repository in the order of a tree
  Text,           \* contents of a file; a blob's sha stands for its text
  Noted,          \* texts that the static analyses have something to say about
  Request,        \* what ingestions ask for
  MaxDocumented,  \* files that an architecture stone is linked to (50)
  MaxExamined,    \* files that are reviewed (30)
  MaxReviewed,    \* of these, files that a review stone is linked to (20)
  MaxStones,      \* bound: stones of the chain
  MaxRuns         \* bound: ingestions

VARIABLES
  branch,     \* external: the repository at the name that is asked for
  stones,     \* stones of the chain, in the order of created_at
  pathHead,   \* path_heads
  chainHead,  \* chain_heads
  edges,      \* stone_edges
  job,        \* the ingestion each client runs
  view,       \* what a reader has read
  last,       \* history: the last ingestion to end, if none ran beside it or since
  runs,       \* history: how many ingestions began
  calm,       \* history: the branch never moved under an ingestion
  cut         \* history: stones whose creation was cut short

vars == <<branch, stones, pathHead, chainHead, edges, job, view, last, runs, calm, cut>>
tables == <<stones, pathHead, chainHead, edges>>
history == <<last, runs, calm, cut>>

-----------------------------------------------------------------------------
Paths == {Path[i] : i \in DOMAIN Path}
Absent == "absent"
Nothing == [ended |-> FALSE]
Idle == [stage |-> "idle"]

\* A chain that someone has written a note in.
Init == /\ branch = [p \in Paths |-> CHOOSE t \in Text : t \in Noted]
        /\ stones = <<[kind |-> "note", whole |-> TRUE]>>
        /\ pathHead = [p \in Paths |-> 0]
        /\ chainHead = 1
        /\ edges = {}
        /\ job = [c \in Client |-> Idle]
        /\ view = Idle
        /\ last = Nothing /\ runs = 0 /\ calm = TRUE /\ cut = {}

At(c, stage) == job[c].stage = stage
Become(c, j) == job' = [job EXCEPT ![c] = j]
Go(c, stage) == Become(c, [job[c] EXCEPT !.stage = stage])

Lowest(S) == CHOOSE x \in S : \A y \in S : x <= y
Latest(S) == IF S = {} THEN 0 ELSE CHOOSE x \in S : \A y \in S : x >= y
First(n, seq) == SubSeq(seq, 1, IF Len(seq) < n THEN Len(seq) ELSE n)

\* What a sequence holds at some of its positions, in their order.
Chosen(seq, at) ==
  [n \in 1..Cardinality(at) |->
     seq[CHOOSE i \in at : Cardinality({k \in at : k <= i}) = n]]
InOrder(S) == Chosen([i \in 1..MaxStones |-> i], S)

-----------------------------------------------------------------------------
Push ==
  /\ \E p \in Paths, t \in Text \cup {Absent} :
       t # branch[p] /\ branch' = [branch EXCEPT ![p] = t]
  /\ calm' = (calm /\ \A c \in Client : job[c] = Idle)
  /\ UNCHANGED <<tables, job, view, last, runs, cut>>

Begin(c) ==
  /\ At(c, "idle") /\ runs < MaxRuns
  /\ \E ask \in Request :
       job' = [d \in Client |->
                 IF d = c THEN [stage |-> "head", ask |-> ask,
                                alone |-> \A e \in Client \ {c} : job[e] = Idle]
                 ELSE IF job[d] = Idle THEN Idle ELSE [job[d] EXCEPT !.alone = FALSE]]
  /\ last' = Nothing /\ runs' = runs + 1
  /\ UNCHANGED <<branch, tables, view, calm, cut>>

-----------------------------------------------------------------------------
(* loadPriorRepoStoneIndex and fetchGitHubRepoTree *)

Files(p) == {s \in DOMAIN stones : stones[s].kind = "file" /\ stones[s].path = p}
Of(kind) == {s \in DOMAIN stones : stones[s].kind = kind}

ReadHead(c) ==
  /\ At(c, "head")
  /\ Become(c, [stage |-> "index", ask |-> job[c].ask, alone |-> job[c].alone, head |-> chainHead])
  /\ UNCHANGED <<branch, tables, view, history>>

\* What the next orientation supersedes is the latest one, or the chain's head.
ReadIndex(c) ==
  /\ At(c, "index")
  /\ Become(c, [stage |-> "tree", ask |-> job[c].ask, alone |-> job[c].alone,
                prior |-> [p \in Paths |-> Latest(Files(p))],
                previous |-> IF Of("orientation") = {} THEN job[c].head
                             ELSE Latest(Of("orientation"))])
  /\ UNCHANGED <<branch, tables, view, history>>

\* repoStoneShouldInclude for what is there, up to max_files.
Candidates(ask, tree) ==
  First(ask.most, Chosen(Path, {i \in DOMAIN Path :
                                  Path[i] \in ask.include /\ tree[Path[i]] # Absent}))

ReadTree(c) ==
  /\ At(c, "tree")
  /\ Become(c, [stage |-> "files", ask |-> job[c].ask, alone |-> job[c].alone,
                prior |-> job[c].prior, previous |-> job[c].previous,
                tree |-> branch, todo |-> Candidates(job[c].ask, branch),
                created |-> {}, reused |-> {}, failed |-> {}, accepted |-> {},
                stone |-> 0, links |-> <<>>, next |-> "", orientation |-> 0])
  /\ UNCHANGED <<branch, tables, view, history>>

\* The tree cannot be fetched, or a statement throws.
Die(c) ==
  /\ job[c] # Idle
  /\ cut' = IF At(c, "refs") THEN cut \cup {job[c].stone} ELSE cut
  /\ Become(c, Idle)
  /\ UNCHANGED <<branch, tables, view, last, runs, calm>>

-----------------------------------------------------------------------------
(* createStone: the row, then its references and receipt *)

Insert(c, stone) ==
  /\ Len(stones) < MaxStones
  /\ stones' = Append(stones, stone)
  /\ Become(c, [job[c] EXCEPT !.stage = "refs", !.stone = Len(stones) + 1])

Links(seq, type) == [i \in DOMAIN seq |-> [to |-> seq[i], type |-> type]]

Linking(j, links, next) ==
  IF links = <<>> THEN [j EXCEPT !.stage = next]
  ELSE [j EXCEPT !.stage = "links", !.links = links, !.next = next]

Current(j) == j.created \cup j.reused
Supersedes(j, old) ==
  IF j.ask.supersede /\ old # 0 THEN Links(<<old>>, "supersedes") ELSE <<>>

\* The created ones come first, in the order of the tree, then the reused.
CurrentFiles(j) ==
  InOrder(j.created) \o Chosen([i \in DOMAIN Path |-> j.prior[Path[i]]],
                               {i \in DOMAIN Path : j.prior[Path[i]] \in j.reused})

\* What the static review has observations about is among what was created.
Reviewed(j) ==
  LET examined == First(MaxExamined, InOrder(j.created)) IN
  First(MaxReviewed, Chosen(examined, {i \in DOMAIN examined : stones[examined[i]].text \in Noted}))

AboutOrientation(j, type) ==
  IF j.orientation = 0 THEN <<>> ELSE Links(<<j.orientation>>, type)

AfterStone(j, stone) ==
  CASE stone.kind = "file" ->
         Linking([j EXCEPT !.created = @ \cup {j.stone}, !.todo = Tail(@)],
                 Supersedes(j, j.prior[stone.path]), "files")
    [] stone.kind = "orientation" -> [j EXCEPT !.stage = "chain head", !.orientation = j.stone]
    [] stone.kind = "architecture" ->
         Linking(j, AboutOrientation(j, "documents") \o
                    IF j.ask.link THEN Links(First(MaxDocumented, CurrentFiles(j)), "documents")
                    ELSE <<>>, "lint")
    [] stone.kind = "lint" -> Linking(j, AboutOrientation(j, "reviews"), "review")
    [] stone.kind = "review" ->
         Linking(j, AboutOrientation(j, "reviews") \o Links(Reviewed(j), "reviews"), "finish")

InsertRefs(c) ==
  /\ At(c, "refs")
  /\ stones' = [stones EXCEPT ![job[c].stone].whole = TRUE]
  /\ Become(c, AfterStone(job[c], stones[job[c].stone]))
  /\ UNCHANGED <<branch, pathHead, chainHead, edges, view, history>>

Link(c) ==
  /\ At(c, "links")
  /\ LET j == job[c] IN
     /\ edges' = edges \cup {[from |-> j.stone, to |-> Head(j.links).to, type |-> Head(j.links).type]}
     /\ Become(c, Linking([j EXCEPT !.links = <<>>], Tail(j.links), j.next))
  /\ UNCHANGED <<branch, stones, pathHead, chainHead, view, history>>

-----------------------------------------------------------------------------
(* The files *)

Unchanged(j, p) == j.ask.reuse /\ j.prior[p] # 0 /\ stones[j.prior[p]].sha = j.tree[p]

Reuse(c) ==
  /\ At(c, "files") /\ job[c].todo # <<>>
  /\ LET p == Head(job[c].todo) IN
     /\ Unchanged(job[c], p)
     /\ Become(c, [job[c] EXCEPT !.todo = Tail(@), !.reused = @ \cup {job[c].prior[p]}])
  /\ UNCHANGED <<branch, tables, view, history>>

\* The file is fetched by the name of the branch, not of the tree.
CreateFile(c) ==
  /\ At(c, "files") /\ job[c].todo # <<>>
  /\ LET p == Head(job[c].todo) IN
     /\ ~Unchanged(job[c], p) /\ branch[p] # Absent
     /\ Insert(c, [kind |-> "file", path |-> p, sha |-> job[c].tree[p], text |-> branch[p],
                   whole |-> FALSE])
  /\ UNCHANGED <<branch, pathHead, chainHead, edges, view, history>>

FailFile(c) ==
  /\ At(c, "files") /\ job[c].todo # <<>>
  /\ LET p == Head(job[c].todo) IN
     /\ ~Unchanged(job[c], p)
     /\ Become(c, [job[c] EXCEPT !.todo = Tail(@), !.failed = @ \cup {p}])
  /\ UNCHANGED <<branch, tables, view, history>>

\* Mutant: path heads are set for what was created only.
UnacceptedCreated(j) == j.created \ j.accepted

Unaccepted(j) == Current(j) \ j.accepted

\* upsertPathHead compares nothing.
Accept(c) ==
  /\ At(c, "files") /\ job[c].todo = <<>> /\ Unaccepted(job[c]) # {}
  /\ LET s == IF job[c].created \subseteq job[c].accepted THEN Lowest(Unaccepted(job[c]))
              ELSE Lowest(job[c].created \ job[c].accepted)
     IN /\ pathHead' = [pathHead EXCEPT ![stones[s].path] = s]
        /\ Become(c, [job[c] EXCEPT !.accepted = @ \cup {s}])
  /\ UNCHANGED <<branch, stones, chainHead, edges, view, history>>

-----------------------------------------------------------------------------
(* The stones about the repository *)

Orient(c) ==
  /\ At(c, "files") /\ job[c].todo = <<>> /\ Unaccepted(job[c]) = {}
  /\ IF job[c].ask.orient THEN Insert(c, [kind |-> "orientation", whole |-> FALSE])
     ELSE Go(c, "architecture") /\ UNCHANGED stones
  /\ UNCHANGED <<branch, pathHead, chainHead, edges, view, history>>

SetHead(c) ==
  /\ At(c, "chain head")
  /\ LET j == job[c] IN
     /\ chainHead' = IF j.ask.head THEN j.orientation ELSE chainHead
     /\ Become(c, Linking(j, Supersedes(j, j.previous) \o
                             IF j.ask.link THEN Links(CurrentFiles(j), "documents") ELSE <<>>,
                          "architecture"))
  /\ UNCHANGED <<branch, stones, pathHead, edges, view, history>>

Derive(c, kind, wanted, next) ==
  /\ At(c, kind)
  /\ IF wanted THEN Insert(c, [kind |-> kind, whole |-> FALSE])
     ELSE Go(c, next) /\ UNCHANGED stones
  /\ UNCHANGED <<branch, pathHead, chainHead, edges, view, history>>

Architecture(c) ==
  At(c, "architecture") /\
  Derive(c, "architecture", job[c].ask.architecture /\ job[c].orientation # 0, "lint")
Lint(c) ==
  At(c, "lint") /\ Derive(c, "lint", job[c].ask.lint /\ Current(job[c]) # {}, "review")
Review(c) ==
  At(c, "review") /\ Derive(c, "review", job[c].ask.review /\ Current(job[c]) # {}, "finish")

Outcome(j) == [ask |-> j.ask, tree |-> j.tree, failed |-> j.failed, orientation |-> j.orientation]

Finish(c) ==
  /\ At(c, "finish")
  /\ last' = IF job[c].alone THEN [ended |-> TRUE, of |-> Outcome(job[c])] ELSE Nothing
  /\ Become(c, Idle)
  /\ UNCHANGED <<branch, tables, view, runs, calm, cut>>

-----------------------------------------------------------------------------
(* reconcileRepo and getChainManifest *)

See(v) == view' = v /\ UNCHANGED <<branch, tables, job, history>>

BeginReconcile ==
  view = Idle /\ See([stage |-> "observe", accepted |-> pathHead, last |-> last])

Compared(a, observed) ==
  CASE a = 0 /\ observed = Absent -> "neither"
    [] a = 0 /\ observed # Absent -> "added"
    [] a # 0 /\ observed = Absent -> "removed"
    [] OTHER -> IF stones[a].text = observed THEN "in_sync" ELSE "changed"

\* What an ingestion was to accept, but for the files it could not fetch.
Wanted(j) == {Candidates(j.ask, j.tree)[i] : i \in DOMAIN Candidates(j.ask, j.tree)} \ j.failed

\* The tree of one commit; or no commit, no tree, or only part of it.
Observe ==
  /\ view.stage = "observe"
  /\ \/ See(Idle)
     \/ See([stage |-> "reconciled",
             drift |-> [p \in Paths |-> Compared(view.accepted[p], branch[p])],
             after |-> IF view.last = last /\ last.ended /\ branch = last.of.tree /\ calm
                       THEN Wanted(last.of) ELSE {}])

BeginManifest == view = Idle /\ See([stage |-> "path heads", head |-> chainHead])

ShowPaths == view.stage = "path heads"
             /\ See([stage |-> "nodes", head |-> view.head, paths |-> pathHead])
ShowNodes == view.stage = "nodes"
             /\ See([stage |-> "edges", head |-> view.head, paths |-> view.paths,
                     nodes |-> DOMAIN stones])
ShowEdges ==
  /\ view.stage = "edges"
  /\ See([stage |-> "shown", head |-> view.head, paths |-> view.paths, nodes |-> view.nodes,
          edges |-> {e \in edges : e.from \in view.nodes \/ e.to \in view.nodes}])

Forget == view.stage \in {"reconciled", "shown"} /\ See(Idle)

Ingest(c) == \/ Begin(c) \/ ReadHead(c) \/ ReadIndex(c) \/ ReadTree(c)
             \/ Reuse(c) \/ CreateFile(c) \/ FailFile(c) \/ Accept(c)
             \/ InsertRefs(c) \/ Link(c) \/ Orient(c) \/ SetHead(c)
             \/ Architecture(c) \/ Lint(c) \/ Review(c) \/ Finish(c) \/ Die(c)
Read == \/ BeginReconcile \/ Observe \/ BeginManifest \/ ShowPaths \/ ShowNodes \/ ShowEdges
        \/ Forget
Next == Push \/ Read \/ \E c \in Client : Ingest(c)
Spec == Init /\ [][Next]_vars

-----------------------------------------------------------------------------
(* Properties *)

\* Whatever ingestions race or die, a path head is a file's stone of its path,
\* and one that can be searched unless its creation is going on or was cut
\* short; the chain's head is complete.
HeadsAreFiles ==
  /\ \A p \in Paths : pathHead[p] # 0 =>
       /\ pathHead[p] \in Files(p)
       /\ \/ stones[pathHead[p]].whole \/ pathHead[p] \in cut
          \/ \E c \in Client : At(c, "refs") /\ job[c].stone = pathHead[p]
  /\ stones[chainHead].whole

\* What supersedes is younger; a file supersedes a stone of its path, an
\* orientation an orientation or what was the head before there was one.
YoungerSupersede ==
  \A e \in edges : e.type = "supersedes" =>
    /\ e.to < e.from
    /\ LET old == stones[e.to] new == stones[e.from] IN
       \/ old.kind = "file" /\ new.kind = "file" /\ old.path = new.path
       \/ old.kind \in {"orientation", "note"} /\ new.kind = "orientation"

\* An ingestion that ended, and that none ran beside, has brought the chain to
\* its tree, whatever earlier ones left behind: every file but those that it
\* could not fetch is accepted at the blob of the tree, and the orientation is
\* the head and is linked to these files.
Ended == last.ended => LET j == last.of IN
  /\ \A p \in Wanted(j) :
         /\ pathHead[p] # 0 /\ stones[pathHead[p]].sha = j.tree[p]
         /\ calm => stones[pathHead[p]].text = j.tree[p]
         /\ j.ask.orient /\ j.ask.link =>
              [from |-> j.orientation, to |-> pathHead[p], type |-> "documents"] \in edges
  /\ j.ask.orient /\ j.ask.head => chainHead = j.orientation

\* A reconciliation right after it finds these files in sync.
ReconciledAfter ==
  view.stage = "reconciled" => \A p \in view.after : view.drift[p] = "in_sync"

\* The heads that a manifest names are among its stones.
HeadsShown ==
  view.stage = "shown" =>
    view.head \in view.nodes /\ \A p \in Paths : view.paths[p] \in view.nodes \cup {0}

RepositoryKept ==
  HeadsAreFiles /\ YoungerSupersede /\ Ended /\ ReconciledAfter /\ HeadsShown
=============================================================================
