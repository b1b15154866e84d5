----------------------------- MODULE GithubBind -----------------------------
(***************************************************************************)
(* The GitHub transport of a workspace: one JSON column that is read, and   *)
(* written back as a whole after a call to GitHub, and the pointer that a   *)
(* proposal takes from it, while the branches of the repository move on.    *)
(***************************************************************************)
EXTENDS Naturals

CONSTANTS
  Client,     \* concurrent requests
  Branch,     \* branches of the repository
  Root,       \* root paths a caller may name
  MaxCommit   \* bound: commits of the repository

VARIABLES
  bind,       \* workspaces.github_bind_json
  tip,        \* external: the commit each branch is at
  was,        \* external: the commits each branch has been at
  pointers,   \* the branches and commits recorded in proposals and tree ops
  request     \* the request each client is working on

vars == <<bind, tip, was, pointers, request>>

-----------------------------------------------------------------------------
Idle == [stage |-> "idle"]
NoRoot == "none"

\* createWorkspace stores no commit: the branch is looked up when it is needed.
Init == /\ \E b \in Branch : bind = [ref |-> b, root |-> NoRoot, commit |-> 0, given |-> FALSE]
        /\ tip = [b \in Branch |-> 1] /\ was = [b \in Branch |-> {1}]
        /\ pointers = {}
        /\ request = [c \in Client |-> Idle]

Become(c, r) == request' = [request EXCEPT ![c] = r]
Reply(c) == Become(c, Idle)
At(c, stage) == request[c].stage = stage

\* External: a branch gets a new commit.
Push ==
  /\ \E b \in Branch, n \in 1..MaxCommit :
       /\ \A d \in Branch : \A m \in was[d] : m < n
       /\ tip' = [tip EXCEPT ![b] = n]
       /\ was' = [was EXCEPT ![b] = @ \cup {n}]
  /\ UNCHANGED <<bind, pointers, request>>

-----------------------------------------------------------------------------
(* setGithubTransport *)

\* Mutant: a root that is not named is dropped.
RootForgotten(named) == IF named = "keep" THEN NoRoot ELSE named

\* A root that is not named stays what it was.
RootFor(named) == IF named = "keep" THEN bind.root ELSE named

\* A caller may name the commit too, and then nothing is looked up.
BeginSet(c) ==
  /\ At(c, "idle")
  /\ \E b \in Branch, named \in Root \cup {"keep"}, given \in BOOLEAN :
       Become(c, [stage |-> IF given THEN "put" ELSE "resolve", ref |-> b, root |-> RootFor(named),
                  commit |-> IF given THEN 1 ELSE 0, given |-> given,
                  named |-> named # "keep", crossed |-> FALSE])
  /\ UNCHANGED <<bind, tip, was, pointers>>

Resolve(c) ==
  /\ At(c, "resolve")
  /\ \/ Become(c, [request[c] EXCEPT !.stage = "put", !.commit = tip[request[c].ref]])
     \/ Reply(c)
  /\ UNCHANGED <<bind, tip, was, pointers>>

\* An unconditional UPDATE; every other setter at work has read an older row.
Put(c) ==
  /\ At(c, "put")
  /\ bind' = [ref |-> request[c].ref, root |-> request[c].root,
              commit |-> request[c].commit, given |-> request[c].given]
  /\ request' = [d \in Client |->
       IF d = c THEN [request[c] EXCEPT !.stage = "op"]
       ELSE IF "crossed" \in DOMAIN request[d] THEN [request[d] EXCEPT !.crossed = TRUE]
       ELSE request[d]]
  /\ UNCHANGED <<tip, was, pointers>>

RecordOp(c) ==
  /\ At(c, "op")
  /\ pointers' = IF request[c].given THEN pointers
                 ELSE pointers \cup {[ref |-> request[c].ref, commit |-> request[c].commit]}
  /\ Reply(c)
  /\ UNCHANGED <<bind, tip, was>>

-----------------------------------------------------------------------------
(* proposeAcceptWorkspaceFromBody *)

BeginPropose(c) ==
  /\ At(c, "idle")
  /\ Become(c, [stage |-> "observe", ref |-> bind.ref])
  /\ UNCHANGED <<bind, tip, was, pointers>>

\* Once the snapshot is frozen; the ref is the one read before it.
Observe(c) ==
  /\ At(c, "observe")
  /\ \/ Become(c, [stage |-> "propose", ref |-> request[c].ref, commit |-> tip[request[c].ref]])
     \/ Reply(c)
  /\ UNCHANGED <<bind, tip, was, pointers>>

Propose(c) ==
  /\ At(c, "propose")
  /\ pointers' = pointers \cup {[ref |-> request[c].ref, commit |-> request[c].commit]}
  /\ Reply(c)
  /\ UNCHANGED <<bind, tip, was>>

Die(c) == ~At(c, "idle") /\ Reply(c) /\ UNCHANGED <<bind, tip, was, pointers>>

Next == Push \/ \E c \in Client :
          \/ BeginSet(c) \/ Resolve(c) \/ Put(c) \/ RecordOp(c)
          \/ BeginPropose(c) \/ Observe(c) \/ Propose(c) \/ Die(c)
Spec == Init /\ [][Next]_vars

-----------------------------------------------------------------------------
(* Properties *)

\* A proposal or a tree op never names a commit that the branch beside it was
\* not at, whatever transport is set and whatever is pushed between the reads.
CommitsOfTheirBranch ==
  /\ \A p \in pointers : p.commit \in was[p.ref]
  /\ bind.commit = 0 \/ bind.given \/ bind.commit \in was[bind.ref]

\* The root path changes only when a caller names it, or under a caller whose
\* read another setter has overtaken: the column is written as a whole.
RootChangesAsNamed ==
  [][bind'.root # bind.root =>
       \E c \in Client : /\ At(c, "put")
                         /\ request[c].named \/ request[c].crossed]_vars

\* Branch, commit and root path stay those of one another.
BindKept == []CommitsOfTheirBranch /\ RootChangesAsNamed
=============================================================================
