------------------------------ MODULE V5Import ------------------------------
(***************************************************************************)
(* The import of a chain's snapshot from the old vault: an inspection of    *)
(* the destination, then the raw objects, one batch of rows, the index of   *)
(* each stone and, last, the head of the chain.  An import that died or     *)
(* failed is run again; commits and other imports go on meanwhile.          *)
(***************************************************************************)
EXTENDS Naturals, FiniteSets

CONSTANTS
  Client,    \* concurrent imports
  Bundle     \* snapshots: sets of stones, numbered as they were made

VARIABLES
  raw,       \* raw objects of the stones
  rows,      \* stones, with their refs, receipts and edges
  index,     \* stones whose rows of refs_fts are as they should be
  place,     \* path_heads: the row of the one path of the chain
  chain,     \* chain_heads: the row of the chain
  moved,     \* history: a commit moved a head
  complete,  \* history: bundles whose import wrote the chain's head
  wrote,     \* history: bundles whose import wrote a head of the chain or its path
  refused,   \* history: bundles refused though only their own imports wrote heads
  job        \* the import each client is working on

vars == <<raw, rows, index, place, chain, moved, complete, wrote, refused, job>>

-----------------------------------------------------------------------------
Stone == UNION Bundle
NoHead == [stone |-> 0, by |-> "none"]
Idle == [stage |-> "idle"]
Head(b) == CHOOSE s \in b : \A t \in b : t <= s
Imported(b) == [stone |-> Head(b), by |-> "import"]

Init == /\ raw = {} /\ rows = {} /\ index = {}
        /\ place = NoHead /\ chain = NoHead
        /\ moved = FALSE
        /\ complete = {} /\ wrote = {} /\ refused = {}
        /\ job = [c \in Client |-> Idle]

Become(c, r) == job' = [job EXCEPT ![c] = r]
Reply(c) == Become(c, Idle)
At(c, stage) == job[c].stage = stage
Goto(c, stage) == Become(c, [job[c] EXCEPT !.stage = stage])

-----------------------------------------------------------------------------
(* inspectDestination: each row is read by a statement of its own *)

\* A head of another stone, or of this one set by a commit at another time.
Conflicts(h, b) == h # NoHead /\ h # Imported(b)

PlaceConflicts(h, b) == Conflicts(h, b)

Refuse(c, b) ==
  /\ refused' = IF moved \/ wrote \ {b} # {} THEN refused ELSE refused \cup {b}
  /\ Reply(c)

Begin(c) ==
  /\ At(c, "idle")
  /\ \E b \in Bundle :
       IF Conflicts(chain, b) THEN Refuse(c, b)
       ELSE /\ Become(c, [stage |-> "look at stones", bundle |-> b, head |-> chain = NoHead,
                          raws |-> {}, missing |-> {}, unindexed |-> {}, place |-> FALSE])
            /\ UNCHANGED refused
  /\ UNCHANGED <<raw, rows, index, place, chain, moved, complete, wrote>>

LookAtStones(c) ==
  /\ At(c, "look at stones")
  /\ LET b == job[c].bundle IN
     Become(c, [job[c] EXCEPT !.stage = "look at paths", !.raws = b \ raw,
                              !.missing = b \ rows, !.unindexed = b \ index])
  /\ UNCHANGED <<raw, rows, index, place, chain, moved, complete, wrote, refused>>

\* The preview ends here.
LookAtPaths(c) ==
  /\ At(c, "look at paths")
  /\ \/ /\ PlaceConflicts(place, job[c].bundle)
        /\ Refuse(c, job[c].bundle)
     \/ /\ ~PlaceConflicts(place, job[c].bundle)
        /\ \/ Become(c, [job[c] EXCEPT !.stage = "raw", !.place = (place = NoHead)])
           \/ Reply(c)
        /\ UNCHANGED refused
  /\ UNCHANGED <<raw, rows, index, place, chain, moved, complete, wrote>>

-----------------------------------------------------------------------------
(* applyImport *)

PutRaw(c) ==
  /\ At(c, "raw")
  /\ IF job[c].raws = {} THEN Goto(c, "rows") /\ UNCHANGED raw
     ELSE \E s \in job[c].raws :
            raw' = raw \cup {s} /\ Become(c, [job[c] EXCEPT !.raws = @ \ {s}])
  /\ UNCHANGED <<rows, index, place, chain, moved, complete, wrote, refused>>

\* One batch of plain INSERTs: one row that is there by now fails them all.
InsertRows(c) ==
  /\ At(c, "rows")
  /\ LET j == job[c] IN
     IF j.missing \cap rows # {} \/ (j.place /\ place # NoHead)
     THEN Reply(c) /\ UNCHANGED <<rows, place, wrote>>
     ELSE /\ wrote' = IF j.place THEN wrote \cup {j.bundle} ELSE wrote
          /\ rows' = rows \cup j.missing
          /\ place' = IF j.place THEN Imported(j.bundle) ELSE place
          /\ Goto(c, "index")
  /\ UNCHANGED <<raw, index, chain, moved, complete, refused>>

\* A batch per stone: its rows are deleted and made again.
Index(c) ==
  /\ At(c, "index")
  /\ IF job[c].unindexed = {} THEN Goto(c, "head") /\ UNCHANGED index
     ELSE \E s \in job[c].unindexed :
            index' = index \cup {s} /\ Become(c, [job[c] EXCEPT !.unindexed = @ \ {s}])
  /\ UNCHANGED <<raw, rows, place, chain, moved, complete, wrote, refused>>

\* Mutant: a head that was set meanwhile is replaced.
InsertHeadOver(c) ==
  /\ At(c, "head")
  /\ IF job[c].head
     THEN /\ chain' = Imported(job[c].bundle)
          /\ complete' = complete \cup {job[c].bundle}
          /\ wrote' = wrote \cup {job[c].bundle}
     ELSE UNCHANGED <<chain, complete, wrote>>
  /\ Reply(c)
  /\ UNCHANGED <<raw, rows, index, place, moved, refused>>

\* The INSERT fails when a head was set meanwhile.  What verifyDestination
\* then counts only decides the answer.
InsertHead(c) ==
  /\ At(c, "head")
  /\ IF job[c].head /\ chain = NoHead
     THEN /\ chain' = Imported(job[c].bundle)
          /\ complete' = complete \cup {job[c].bundle}
          /\ wrote' = wrote \cup {job[c].bundle}
     ELSE UNCHANGED <<chain, complete, wrote>>
  /\ Reply(c)
  /\ UNCHANGED <<raw, rows, index, place, moved, refused>>

-----------------------------------------------------------------------------
\* A commit or a request of its own sets a head to a stone that is there.
MoveHead ==
  /\ \E s \in rows :
       \/ chain' = [stone |-> s, by |-> "commit"] /\ UNCHANGED place
       \/ place' = [stone |-> s, by |-> "commit"] /\ UNCHANGED chain
  /\ moved' = TRUE
  /\ UNCHANGED <<raw, rows, index, complete, wrote, refused, job>>

Die(c) ==
  /\ ~At(c, "idle")
  /\ Reply(c)
  /\ UNCHANGED <<raw, rows, index, place, chain, moved, complete, wrote, refused>>

Next == MoveHead \/ \E c \in Client :
          \/ Begin(c) \/ LookAtStones(c) \/ LookAtPaths(c)
          \/ PutRaw(c) \/ InsertRows(c) \/ Index(c) \/ InsertHead(c) \/ Die(c)
Spec == Init /\ [][Next]_vars

-----------------------------------------------------------------------------
(* Properties *)

\* A chain whose head an import has set is all there: content, rows and index
\* of every stone, whichever imports wrote them and wherever they stopped.
HeadIsLast ==
  \A b \in complete : b \subseteq raw /\ b \subseteq rows /\ b \subseteq index

\* An import never replaces a head, of its chain or of a path, that was set
\* since it looked.
HeadsAreKept ==
  [][/\ chain # NoHead => chain' = chain \/ chain'.by = "commit"
     /\ place # NoHead => place' = place \/ place'.by = "commit"]_vars

\* As long as nobody else has set a head of the chain, an import that died or
\* failed at any point can be run again: the rows it left are no conflict.
Replayable == refused = {}

\* An import that dies anywhere leaves nothing half visible, nothing in the
\* way of the next, and no head of others replaced.
ImportsKept == [](HeadIsLast /\ Replayable) /\ HeadsAreKept
=============================================================================
