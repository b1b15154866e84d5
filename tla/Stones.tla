------------------------------- MODULE Stones -------------------------------
(***************************************************************************)
(* Stones, heads and edges.  A stone's row, its references and its receipt  *)
(* are written one after the other; heads are set afterwards, by the commit *)
(* or by a request of their own, after a look at the stone.  A freshness    *)
(* check compares the accepted head of a path with the file in the source   *)
(* repository and records what it saw; it moves no head.                    *)
(***************************************************************************)
EXTENDS Naturals, FiniteSets

CONSTANTS
  Client,     \* concurrent requests
  Stone,      \* hashes of the stones that may be made
  File,       \* places a stone may be at: its path and its chain
  Content     \* contents of a file

VARIABLES
  stones,     \* stones: chain, path, content and how far its rows have come
  pathHead,   \* path_heads
  chainHead,  \* chain_heads
  edges,      \* stone_edges
  source,     \* external: the file at each path of the repository
  fresh,      \* source_freshness
  broken,     \* history: stones whose creation was cut short
  write       \* the request each client is working on

vars == <<stones, pathHead, chainHead, edges, source, fresh, broken, write>>

-----------------------------------------------------------------------------
NoStone == [parts |-> "none"]
NoHead == "none"
Missing == "missing"
Unchecked == [accepted |-> NoHead, drift |-> FALSE, seen |-> "nothing"]
Idle == [stage |-> "idle"]

Exists(s) == stones[s] # NoStone
FilePath == {f[1] : f \in File}
Chain == {f[2] : f \in File}
Of(s) == <<stones[s].path, stones[s].chain>>

Init == /\ stones = [s \in Stone |-> NoStone]
        /\ pathHead = [f \in File |-> NoHead]
        /\ chainHead = [h \in Chain |-> NoHead]
        /\ edges = {}
        /\ source = [p \in FilePath |-> Missing]
        /\ fresh = [f \in File |-> Unchecked]
        /\ broken = {}
        /\ write = [c \in Client |-> Idle]

Become(c, r) == write' = [write EXCEPT ![c] = r]
Reply(c) == Become(c, Idle)
At(c, stage) == write[c].stage = stage

-----------------------------------------------------------------------------
(* createStone and commit *)

\* A stone of the chain and path with this content, as a commit looks for one.
Same(f, x) ==
  {s \in Stone : Exists(s) /\ Of(s) = f /\ stones[s].content = x}

\* Of several, the newest; their order is not kept.  createStone is a commit
\* that neither looks for a stone nor sets a path head.
BeginCommit(c) ==
  /\ At(c, "idle")
  /\ \E f \in File, x \in Content, dedupe, setPath, asHead \in BOOLEAN, link \in SUBSET Stone :
       /\ Cardinality(link) <= 1
       /\ IF dedupe /\ Same(f, x) # {}
          THEN \E s \in Same(f, x) :
                 Become(c, [stage |-> "path head", stone |-> s, file |-> f,
                            setPath |-> setPath, asHead |-> asHead, link |-> link])
          ELSE Become(c, [stage |-> "stone", file |-> f, content |-> x,
                          setPath |-> setPath, asHead |-> asHead, link |-> link])
  /\ UNCHANGED <<stones, pathHead, chainHead, edges, source, fresh, broken>>

InsertStone(c) ==
  /\ At(c, "stone")
  /\ \E s \in Stone :
       /\ ~Exists(s)
       /\ stones' = [stones EXCEPT ![s] = [parts |-> "row", path |-> write[c].file[1],
                       chain |-> write[c].file[2], content |-> write[c].content]]
       /\ Become(c, [stage |-> "refs", stone |-> s, file |-> write[c].file,
                     setPath |-> write[c].setPath, asHead |-> write[c].asHead, link |-> write[c].link])
  /\ UNCHANGED <<pathHead, chainHead, edges, source, fresh, broken>>

\* Mutant: the path head is set while the references are written.
InsertRefsUnderHead(c) ==
  /\ At(c, "refs")
  /\ pathHead' = [pathHead EXCEPT ![write[c].file] = write[c].stone]
  /\ Become(c, [write[c] EXCEPT !.stage = "chain head"])
  /\ UNCHANGED <<stones, chainHead, edges, source, fresh, broken>>

\* References, their index and the receipt.
InsertRefs(c) ==
  /\ At(c, "refs")
  /\ stones' = [stones EXCEPT ![write[c].stone].parts = "all"]
  /\ Become(c, [write[c] EXCEPT !.stage = "path head"])
  /\ UNCHANGED <<pathHead, chainHead, edges, source, fresh, broken>>

SetPathOfCommit(c) ==
  /\ At(c, "path head")
  /\ pathHead' = IF write[c].setPath
                 THEN [pathHead EXCEPT ![write[c].file] = write[c].stone] ELSE pathHead
  /\ Become(c, [write[c] EXCEPT !.stage = "chain head"])
  /\ UNCHANGED <<stones, chainHead, edges, source, fresh, broken>>

SetChainOfCommit(c) ==
  /\ At(c, "chain head")
  /\ chainHead' = IF write[c].asHead
                  THEN [chainHead EXCEPT ![write[c].file[2]] = write[c].stone] ELSE chainHead
  /\ Become(c, [write[c] EXCEPT !.stage = "edges"])
  /\ UNCHANGED <<stones, pathHead, edges, source, fresh, broken>>

\* A target that is not found, or the stone itself, is skipped.
Link(c) ==
  /\ At(c, "edges")
  /\ edges' = edges \cup
       {<<write[c].stone, t>> : t \in {u \in write[c].link \ {write[c].stone} : Exists(u)}}
  /\ Reply(c)
  /\ UNCHANGED <<stones, pathHead, chainHead, source, fresh, broken>>

\* linkStones looks both up, and links a stone to itself too.
LinkStones ==
  /\ \E s, t \in Stone :
       Exists(s) /\ Exists(t) /\ edges' = edges \cup {<<s, t>>}
  /\ UNCHANGED <<stones, pathHead, chainHead, source, fresh, broken, write>>

-----------------------------------------------------------------------------
(* setHead and setPathHead: the stone is looked at, then the row written *)

BeginSetHead(c) ==
  /\ At(c, "idle")
  /\ \E s \in Stone, h \in Chain :
       /\ Exists(s) /\ stones[s].chain = h
       /\ Become(c, [stage |-> "set head", stone |-> s, chain |-> h])
  /\ UNCHANGED <<stones, pathHead, chainHead, edges, source, fresh, broken>>

SetHead(c) ==
  /\ At(c, "set head")
  /\ chainHead' = [chainHead EXCEPT ![write[c].chain] = write[c].stone]
  /\ Reply(c)
  /\ UNCHANGED <<stones, pathHead, edges, source, fresh, broken>>

BeginSetPathHead(c) ==
  /\ At(c, "idle")
  /\ \E s \in Stone, f \in File :
       /\ Exists(s) /\ Of(s) = f
       /\ Become(c, [stage |-> "set path head", stone |-> s, file |-> f])
  /\ UNCHANGED <<stones, pathHead, chainHead, edges, source, fresh, broken>>

SetPathHead(c) ==
  /\ At(c, "set path head")
  /\ pathHead' = [pathHead EXCEPT ![write[c].file] = write[c].stone]
  /\ Reply(c)
  /\ UNCHANGED <<stones, chainHead, edges, source, fresh, broken>>

-----------------------------------------------------------------------------
(* checkSourceFreshness *)

Push ==
  /\ \E p \in FilePath, x \in Content \cup {Missing} :
       x # source[p] /\ source' = [source EXCEPT ![p] = x]
  /\ UNCHANGED <<stones, pathHead, chainHead, edges, fresh, broken, write>>

\* The file, or a failure to fetch it.
Observe(c) ==
  /\ At(c, "idle")
  /\ \E f \in File : \E x \in {source[f[1]], "failed"} :
       Become(c, [stage |-> "accepted", file |-> f, seen |-> x])
  /\ UNCHANGED <<stones, pathHead, chainHead, edges, source, fresh, broken>>

Drifted(a, x) ==
  \/ a = NoHead
  \/ x \in {Missing, "failed"}
  \/ stones[a].content # x

ReadAccepted(c) ==
  /\ At(c, "accepted")
  /\ Become(c, [stage |-> "record", file |-> write[c].file, seen |-> write[c].seen,
                accepted |-> pathHead[write[c].file]])
  /\ UNCHANGED <<stones, pathHead, chainHead, edges, source, fresh, broken>>

Record(c) ==
  /\ At(c, "record")
  /\ LET w == write[c] IN
     fresh' = [fresh EXCEPT ![w.file] = [accepted |-> w.accepted, seen |-> w.seen,
                                         drift |-> Drifted(w.accepted, w.seen)]]
  /\ Reply(c)
  /\ UNCHANGED <<stones, pathHead, chainHead, edges, source, broken>>

-----------------------------------------------------------------------------
Die(c) ==
  /\ ~At(c, "idle")
  /\ broken' = IF At(c, "refs") THEN broken \cup {write[c].stone} ELSE broken
  /\ Reply(c)
  /\ UNCHANGED <<stones, pathHead, chainHead, edges, source, fresh>>

Next == Push \/ LinkStones \/ \E c \in Client :
          \/ BeginCommit(c) \/ InsertStone(c) \/ InsertRefs(c)
          \/ SetPathOfCommit(c) \/ SetChainOfCommit(c) \/ Link(c)
          \/ BeginSetHead(c) \/ SetHead(c) \/ BeginSetPathHead(c) \/ SetPathHead(c)
          \/ Observe(c) \/ ReadAccepted(c) \/ Record(c) \/ Die(c)
Spec == Init /\ [][Next]_vars

-----------------------------------------------------------------------------
(* Properties *)

\* Whatever requests race, a path head is a stone of its path and chain, and a
\* chain head one of its chain.
HeadsAreTheirs ==
  /\ \A f \in File : pathHead[f] # NoHead => Exists(pathHead[f]) /\ Of(pathHead[f]) = f
  /\ \A h \in Chain : chainHead[h] # NoHead =>
       Exists(chainHead[h]) /\ stones[chainHead[h]].chain = h

\* What is at a head can be searched and expanded: its references are there,
\* or the request that makes them is still at it or was cut short.
HeadsComplete ==
  \A f \in File : pathHead[f] # NoHead =>
    \/ stones[pathHead[f]].parts = "all"
    \/ pathHead[f] \in broken
    \/ \E c \in Client : At(c, "refs") /\ write[c].stone = pathHead[f]

\* Edges lead from stones to stones, for every edge a commit names before or
\* while the stones it would join are made.
EdgesJoinStones ==
  \A e \in edges : Exists(e[1]) /\ Exists(e[2])

\* A path is recorded as in sync only with an accepted stone of that path whose
\* content is what was seen in the source.
InSyncIsSame ==
  \A f \in File : fresh[f] # Unchecked /\ ~fresh[f].drift =>
    fresh[f].accepted # NoHead /\ Of(fresh[f].accepted) = f
    /\ stones[fresh[f].accepted].content = fresh[f].seen

\* Heads and edges lead to stones that are there, of the right path and
\* complete; a head that is said to be as the source is has its content.
HeadsKept ==
  /\ HeadsAreTheirs
  /\ HeadsComplete
  /\ EdgesJoinStones
  /\ InSyncIsSame
=============================================================================
