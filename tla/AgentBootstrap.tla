--------------------------- MODULE AgentBootstrap ---------------------------
(***************************************************************************)
(* One compile of an agent's context: the heads of a chain, the guide and   *)
(* the brief of the chain that owns the instructions, skills from the       *)
(* accepted manifest and evidence from memory, read one statement after the *)
(* other while writers move the heads, and read again at the end.  Stones   *)
(* never change: what a head named is what was fetched.                     *)
(***************************************************************************)
EXTENDS Naturals, Sequences, FiniteSets

CONSTANTS
  Version,   \* the stones a head may name, in their order
  BriefFor,  \* the guide that each brief was written for
  Found,     \* what the search over refs may return: sequences of rows
  Hits,      \* limits.max_memory_hits asked for
  Room,      \* limits.max_memory_bytes, in rows
  MaxMoves   \* bound: heads set during one compile

VARIABLES
  heads,  \* what the heads named since the compile began, the last one now
  job,    \* the compile
  told    \* the package, or that there is none

vars == <<heads, job, told>>

-----------------------------------------------------------------------------
\* The chain, the chain that owns the instructions, and the skills chain.
Target == {"head", "guide", "brief", "doc"}
Owner  == {"owner head", "owner guide", "owner brief"}
Pointer == Target \cup Owner \cup {"manifest", "skill"}

now == heads[Len(heads)]

Lowest == CHOOSE v \in Version : \A w \in Version : v <= w
Quiet  == [stage |-> "quiet"]
Untold == [ok |-> FALSE]

Init == /\ heads = <<[p \in Pointer |-> Lowest]>>
        /\ job = Quiet
        /\ told = Untold

At(stage) == job.stage = stage
Go(stage) == job' = [job EXCEPT !.stage = stage]
Fail == job' = Quiet /\ told' = [ok |-> FALSE, why |-> job.stage]
Reading == UNCHANGED heads

-----------------------------------------------------------------------------
(* Writers: chain_heads and path_heads compare nothing *)

Move ==
  /\ job # Quiet /\ Len(heads) <= MaxMoves
  /\ \E p \in Pointer, v \in Version :
       v # now[p] /\ heads' = Append(heads, [now EXCEPT ![p] = v])
  /\ UNCHANGED <<job, told>>

-----------------------------------------------------------------------------
(* captureAuthoritySnapshot: the head row and the path heads of one chain are *)
(* two statements of resumeChainFromBody                                      *)

Begin ==
  /\ job = Quiet /\ told = Untold
  /\ \E owner, sparse, current \in BOOLEAN, hits \in Hits :
       job' = [stage |-> "chain", owner |-> owner, sparse |-> sparse, current |-> current,
               hits |-> hits, saw |-> [p \in Pointer |-> 0], resolved |-> 0,
               differs |-> FALSE, brief |-> FALSE, relevant |-> FALSE, items |-> <<>>]
  /\ UNCHANGED told /\ Reading

See(stage, pointers, next) ==
  /\ At(stage)
  /\ \/ /\ job' = [job EXCEPT !.stage = next,
                              !.saw = [p \in Pointer |-> IF p \in pointers THEN now[p] ELSE @[p]]]
        /\ UNCHANGED told
     \/ Fail
  /\ Reading

Chain      == See("chain", {"head"}, "paths")
Paths      == See("paths", Target \ {"head"}, IF job.owner THEN "owner chain" ELSE "guide")
OwnerChain == See("owner chain", {"owner head"}, "owner paths")
OwnerPaths == See("owner paths", Owner \ {"owner head"}, "guide")

\* Mutant: the fingerprint covers the head of a chain only.
DiffersByHead(pointers) ==
  \E p \in pointers \cap {"head", "owner head"} : now[p] # job.saw[p]

Differs(pointers) == \E p \in pointers : now[p] # job.saw[p]

\* The second reading; it is compared when both its statements returned.
SeeAgain(stage, pointers, next) ==
  /\ At(stage)
  /\ \/ job' = [job EXCEPT !.stage = next, !.differs = @ \/ Differs(pointers)]
        /\ UNCHANGED told
     \/ Fail
  /\ Reading

Compare(stage, pointers, next) ==
  /\ At(stage)
  /\ \/ Fail
     \/ ~job.differs /\ ~Differs(pointers) /\ Go(next) /\ UNCHANGED told
  /\ Reading

-----------------------------------------------------------------------------
(* compileCanonicalInstructions *)

Guide == IF job.owner THEN job.saw["owner guide"] ELSE job.saw["guide"]
Brief == IF job.owner THEN job.saw["owner brief"] ELSE job.saw["brief"]

\* The brief, where it can be fetched and says it is for this guide; the guide
\* in full otherwise.
Instruct ==
  /\ At("guide")
  /\ \/ Fail
     \/ \E brief \in BOOLEAN :
          /\ brief => job.sparse /\ BriefFor[Brief] = Guide
          /\ job' = [job EXCEPT !.stage = "manifest", !.brief = brief]
          /\ UNCHANGED told
  /\ Reading

-----------------------------------------------------------------------------
(* compileSkills: the manifest is loaded for the list, for the resolution and *)
(* for the bundle; each skill has a path head of its own                      *)

ListManifest == See("manifest", {"manifest"}, "resolve")

Resolve ==
  /\ At("resolve")
  /\ \/ Fail
     \/ job' = [job EXCEPT !.stage = "bundle", !.resolved = now["manifest"]] /\ UNCHANGED told
  /\ Reading

\* Nothing to load, or a bundle of the manifest that was listed.
Bundle ==
  /\ At("bundle")
  /\ \/ Fail
     \/ Go("memory") /\ UNCHANGED told
     \/ /\ ~Differs({"manifest"})
        /\ Go("skills") /\ UNCHANGED told
  /\ Reading

SkillHeads == See("skills", {"skill"}, "memory")

-----------------------------------------------------------------------------
(* compileMemory *)

Row(path, stone, ref) == [path |-> path, stone |-> stone, ref |-> ref]
RowOf(path) == Row(path, job.saw[path], 1)

Rows(seq) == {seq[i] : i \in DOMAIN seq}

\* What a sequence holds at some of its positions, in their order.
Chosen(seq, at) ==
  [n \in 1..Cardinality(at) |->
     seq[CHOOSE i \in at : Cardinality({k \in at : k <= i}) = n]]

Without(seq, rows) == Chosen(seq, {i \in DOMAIN seq : seq[i] \notin rows})

Class(row) ==
  CASE row.path = "head" /\ row.stone = job.saw["head"] -> "CHAIN_HEAD"
    [] row.path # "head" /\ row.stone = job.saw[row.path] -> "PATH_HEAD"
    [] OTHER -> "HISTORICAL"

\* The chain's head and the one path head that the task is about are seeded.
Seeded(relevant, lost) ==
  IF job.hits = 0 THEN <<>>
  ELSE LET head == Without(<<RowOf("head")>>, lost) IN
       head \o IF relevant /\ Len(head) < job.hits THEN Without(<<RowOf("doc")>>, lost) ELSE <<>>

OfClass(class, rows) == Chosen(rows, {i \in DOMAIN rows : Class(rows[i]) = class})

\* By authority, and the seeds first, then what the search found.
Accepted(seeded, more) ==
  (OfClass("CHAIN_HEAD", seeded) \o OfClass("CHAIN_HEAD", more))
    \o (OfClass("PATH_HEAD", seeded) \o OfClass("PATH_HEAD", more))

\* For a task about the present, nothing superseded of a path that is there
\* with its head.
Superseded(more, first) ==
  LET old == OfClass("HISTORICAL", more) IN
  Chosen(old, {i \in DOMAIN old :
    ~(job.current /\ \E k \in DOMAIN first : first[k].path = old[i].path)})

Ranked(seeded, found) ==
  LET more  == Without(found, Rows(seeded))
      first == Accepted(seeded, more)
  IN first \o Superseded(more, first)

\* A seed that cannot be read, or does not fit, ends a compile about the
\* present; other rows are passed over.  The hits end the list silently.
Select(found, relevant, lost) ==
  LET seeded == Seeded(relevant, lost)
      read == Without(Ranked(seeded, found), lost)
      take == IF Len(read) < job.hits THEN Len(read) ELSE job.hits
      room == IF take <= Room THEN take ELSE Room
  IN /\ job.current => /\ seeded = Seeded(relevant, {})
                       /\ room < take => read[room + 1] \notin Rows(seeded)
     /\ job' = [job EXCEPT !.stage = "size", !.items = SubSeq(read, 1, room),
                           !.relevant = RowOf("doc") \in Rows(seeded)]

Recall ==
  /\ At("memory")
  /\ \/ Fail
     \/ /\ \E found \in Found, relevant \in BOOLEAN :
             \E lost \in SUBSET (Rows(found) \cup {RowOf("head"), RowOf("doc")}) :
               Select(found, relevant, lost)
        /\ UNCHANGED told
  /\ Reading

-----------------------------------------------------------------------------
(* enforceSizeDiscipline *)

FirstOf(class, i) ==
  Class(job.items[i]) = class /\ \A k \in 1..(i - 1) : Class(job.items[k]) # class
Protected(i) == FirstOf("CHAIN_HEAD", i) \/ FirstOf("PATH_HEAD", i)

\* The last of the rows that are not the floor are dropped, then skills.
Size ==
  /\ At("size")
  /\ \/ Fail
     \/ \E from \in 1..(Len(job.items) + 1) :
          /\ job' = [job EXCEPT !.stage = "chain again",
                                !.items = Chosen(@, {i \in DOMAIN @ : i < from \/ Protected(i)})]
          /\ UNCHANGED told
  /\ Reading

ChainAgain == SeeAgain("chain again", {"head"}, "paths again")
PathsAgain == Compare("paths again", Target \ {"head"},
                      IF job.owner THEN "owner chain again" ELSE "recheck")
OwnerChainAgain == SeeAgain("owner chain again", {"owner head"}, "owner paths again")
OwnerPathsAgain == Compare("owner paths again", Owner \ {"owner head"}, "recheck")

\* compileAuthorityEnvelope: all path heads, or of the sparse envelope those
\* of the instructions and of the evidence.
Represented ==
  IF ~job.sparse THEN Target \ {"head"}
  ELSE (IF job.owner THEN {} ELSE {"guide"} \cup (IF job.brief THEN {"brief"} ELSE {}))
         \cup {job.items[i].path : i \in {k \in DOMAIN job.items :
                 Class(job.items[k]) = "PATH_HEAD"}}

\* The manifest's head once more; the package is what was seen.
Recheck ==
  /\ At("recheck")
  /\ \/ Fail
     \/ /\ ~Differs({"manifest"})
        /\ job' = Quiet
        /\ told' = [ok |-> TRUE, of |-> job, paths |-> Represented,
                    class |-> [i \in DOMAIN job.items |-> Class(job.items[i])]]
  /\ Reading

Forget == /\ job = Quiet /\ told # Untold
          /\ heads' = <<[p \in Pointer |-> Lowest]>> /\ told' = Untold /\ UNCHANGED job

Step == \/ Chain \/ Paths \/ OwnerChain \/ OwnerPaths \/ Instruct
        \/ ListManifest \/ Resolve \/ Bundle \/ SkillHeads \/ Recall \/ Size
        \/ ChainAgain \/ PathsAgain \/ OwnerChainAgain \/ OwnerPathsAgain \/ Recheck
Next == Begin \/ Step \/ Move \/ Forget
Spec == Init /\ [][Next]_vars

-----------------------------------------------------------------------------
(* Properties *)

\* A head was set to what it had named before and away from in between.
Returned ==
  \E p \in Pointer : \E i, j, k \in DOMAIN heads :
    i < j /\ j < k /\ heads[i][p] = heads[k][p] /\ heads[j][p] # heads[i][p]

Used == Target \cup (IF told.of.owner THEN Owner ELSE {}) \cup {"manifest"}

\* One generation: whatever the order of the reads and of the writers, all
\* that a package rests on was accepted at one moment of its compile, the
\* manifest its skills were chosen from included; unless a head came back.
OneGeneration ==
  told.ok => \/ Returned
             \/ \E i \in DOMAIN heads :
                  /\ \A p \in Used : heads[i][p] = told.of.saw[p]
                  /\ heads[i]["manifest"] = told.of.resolved

Items == told.of.items

\* The evidence is called what it is among the heads of the package, its path
\* is represented, and a task about the present gets the chain's head and no
\* superseded stone beside its successor; the one path that is seeded is
\* there too, unless rows of the chain's head used up the hits.
EvidenceClassed ==
  told.ok =>
    /\ \A i \in DOMAIN Items :
         LET item == Items[i] IN
         /\ told.class[i] = "CHAIN_HEAD" => item.path = "head" /\ item.stone = told.of.saw["head"]
         /\ told.class[i] = "PATH_HEAD" =>
              item.path \in told.paths /\ item.stone = told.of.saw[item.path]
         /\ told.of.current /\ told.class[i] = "HISTORICAL" =>
              \A k \in DOMAIN Items : Items[k].path = item.path => told.class[k] = "HISTORICAL"
    /\ told.of.current /\ told.of.hits > 0 =>
         /\ Items # <<>> /\ told.class[1] = "CHAIN_HEAD"
         /\ \/ ~told.of.relevant
            \/ \E i \in DOMAIN Items : Items[i].path = "doc" /\ told.class[i] = "PATH_HEAD"
            \/ \A i \in DOMAIN Items : told.class[i] = "CHAIN_HEAD"

\* A brief is sent for the guide of the same generation only.
BriefFits == told.ok /\ told.of.brief =>
  LET saw == told.of.saw IN
  IF told.of.owner THEN BriefFor[saw["owner brief"]] = saw["owner guide"]
  ELSE BriefFor[saw["brief"]] = saw["guide"]

PackageKept == OneGeneration /\ EvidenceClassed /\ BriefFits
=============================================================================
