----------------------------- MODULE Grounding -----------------------------
(***************************************************************************)
(* Answers grounded in a scope of several chains.  An answer is compiled    *)
(* from a snapshot of the chains' accepted heads, which are read one after  *)
(* the other, in seven passes, and it is given up when one has moved.  A    *)
(* grounded response is such an answer kept in a row under an id computed   *)
(* from it; requests expand it to deeper levels as long as its snapshot is  *)
(* the present one, or as the original, and write the whole row back.       *)
(***************************************************************************)
EXTENDS Naturals, Sequences, FiniteSets

CONSTANTS
  Client,        \* concurrent requests
  Chain,         \* chains that may have stones of the repository asked about
  HeadStone,          \* stones that may be heads
  Evidence,      \* stones that a search may come to
  Text,          \* what a model may write beside the conclusion
  Model,         \* the catalog of envelopes; a model's provider follows
  Generator,     \* the one that compiles answers
  Depth,         \* the levels of an answer, 1..n
  MaxMoves,      \* bound: moves of heads, path heads and the scope
  MaxResponses,  \* bound: rows of grounded_responses
  MaxSwaps       \* bound: changes of an envelope

VARIABLES
  heads,      \* chain_heads
  scope,      \* the chains that have stones of the repository
  found,      \* the one that is the head of its path
  responses,  \* grounded_responses by id
  request,    \* the request each client is working on
  moves,      \* history: moves so far
  past,       \* history: the heads each chain has left
  returned,   \* history: a chain has come back to a head it had left
  fresh,      \* history: the heads there were since a request's model has
              \* answered, or since it loaded the response
  rewritten   \* history: ids under which an answer was compiled again

vars == <<heads, scope, found, responses, request, moves, past, returned, fresh, rewritten>>
world == <<heads, scope, found, moves, past, returned>>

-----------------------------------------------------------------------------
NoHead == "none"
Plain == "plain"
Idle == [stage |-> "idle"]
Empty == <<>>

\* A function with one value more, or another one.
With(f, x, value) == [y \in DOMAIN f \cup {x} |-> IF y = x THEN value ELSE f[y]]

First == CHOOSE k \in Chain : TRUE

Init == /\ scope = {First}
        /\ heads = [k \in Chain |-> IF k = First THEN CHOOSE h \in HeadStone : TRUE ELSE NoHead]
        /\ found = CHOOSE e \in Evidence : e \notin HeadStone
        /\ responses = Empty
        /\ request = [c \in Client |-> Idle]
        /\ moves = 0 /\ past = [k \in Chain |-> {}] /\ returned = FALSE
        /\ fresh = [c \in Client |-> {}]
        /\ rewritten = {}

At(c, stage) == request[c].stage = stage
Become(c, r) == request' = [request EXCEPT ![c] = r]
Give(c) == Become(c, Idle) /\ fresh' = [fresh EXCEPT ![c] = {}]

HeadsNow == {<<k, heads[k]>> : k \in Chain}
Entries(snapshot) == {<<k, snapshot[k]>> : k \in DOMAIN snapshot}

Loaded(r) == "of" \in DOMAIN r
Answered(r) == "text" \in DOMAIN r

-----------------------------------------------------------------------------
(* Writers elsewhere: a head is accepted, a path head moves, a chain gets   *)
(* its first stone of the repository                                        *)

Accept(k, h) ==
  /\ heads[k] # h
  /\ heads' = [heads EXCEPT ![k] = h]
  /\ past' = [past EXCEPT ![k] = @ \cup {heads[k]}]
  /\ returned' = (returned \/ h \in past[k])
  /\ fresh' = [c \in Client |->
                 IF Loaded(request[c]) \/ Answered(request[c])
                 THEN fresh[c] \cup {<<k, h>>} ELSE fresh[c]]
  /\ UNCHANGED <<scope, found>>

Write ==
  /\ moves < MaxMoves /\ moves' = moves + 1
  /\ \/ \E k \in Chain, h \in HeadStone : Accept(k, h)
     \/ /\ \E e \in Evidence \ {found} : found' = e
        /\ UNCHANGED <<heads, scope, past, returned, fresh>>
     \/ /\ \E k \in Chain \ scope : scope' = scope \cup {k}
        /\ UNCHANGED <<heads, found, past, returned, fresh>>
  /\ UNCHANGED <<responses, request, rewritten>>

-----------------------------------------------------------------------------
(* Reading the heads of a scope.  Passes 1 and 2 resolve it, 3 and 4        *)
(* resolve it again for the search, 5 ends the search, 6 comes before the   *)
(* model is asked and 7 after it has answered.                              *)

chainsForRepo == scope

Pass(r, n) == [r EXCEPT !.pass = n, !.left = DOMAIN r.snapshot]
Onward(r) == IF r.left = {} /\ r.pass \in {1, 3, 5} THEN Pass(r, r.pass + 1) ELSE r

\* After the first pass each head has to be the one it was.
ReadHead(c) ==
  /\ At(c, "read")
  /\ LET r == request[c] IN
     \E k \in r.left :
       IF r.pass = 1 \/ heads[k] = r.snapshot[k]
       THEN /\ Become(c, Onward([r EXCEPT !.left = @ \ {k},
                                          !.snapshot = With(@, k, heads[k])]))
            /\ UNCHANGED fresh
       ELSE Give(c)
  /\ UNCHANGED <<world, responses, rewritten>>

Through(c, pass) == At(c, "read") /\ request[c].pass = pass /\ request[c].left = {}

-----------------------------------------------------------------------------
(* Answers: asked for once, or to be kept *)

\* A request to keep one says how deep, and the response it refreshes, if any.
Keeping ==
  {{}} \cup {{[depth |-> d, parent |-> p]} :
              d \in Depth, p \in {{}} \cup {{id} : id \in DOMAIN responses}}

BeginAnswer(c) ==
  /\ At(c, "idle")
  /\ \E keep \in Keeping :
       Become(c, [stage |-> "read", pass |-> 1, left |-> chainsForRepo, snapshot |-> Empty,
                  keep |-> keep])
  /\ UNCHANGED <<world, responses, fresh, rewritten>>

\* Every chain must have a head, and the search resolves the scope anew.
BeginSearch(c) ==
  /\ Through(c, 2) /\ ~Loaded(request[c])
  /\ LET r == request[c] IN
     IF NoHead \in {r.snapshot[k] : k \in DOMAIN r.snapshot} \/ scope # DOMAIN r.snapshot
     THEN Give(c)
     ELSE Become(c, Pass(r, 3)) /\ UNCHANGED fresh
  /\ UNCHANGED <<world, responses, rewritten>>

\* scopeAuthorityClass: the path head is read as it is then, and not again.
Class(stone, snapshot) ==
  IF \E k \in DOMAIN snapshot : snapshot[k] = stone THEN "CHAIN_HEAD"
  ELSE IF stone = found THEN "PATH_HEAD" ELSE "HISTORICAL"

\* The heads orient; what is found adds to them, but for the heads themselves.
Added(stone, snapshot) ==
  IF Class(stone, snapshot) = "CHAIN_HEAD" THEN {} ELSE {<<stone, Class(stone, snapshot)>>}

\* The search finds a stone or none; `joint` says whether the snapshot was the state of the heads just then.
Search(c) ==
  /\ Through(c, 4)
  /\ LET r == request[c] IN
     \E e \in {{}} \cup {Added(s, r.snapshot) : s \in Evidence} :
       Become(c, [stage |-> "read", pass |-> 5, left |-> DOMAIN r.snapshot,
                  snapshot |-> r.snapshot, keep |-> r.keep, evidence |-> e,
                  joint |-> Entries(r.snapshot) \subseteq HeadsNow])
  /\ UNCHANGED <<world, responses, fresh, rewritten>>

\* The answer is there: another pass over what is left.
Replied(r, text, left) ==
  [stage |-> "read", pass |-> 7, left |-> left, snapshot |-> r.snapshot, keep |-> r.keep,
   evidence |-> r.evidence, joint |-> r.joint, text |-> text]

\* Mutant: nothing is read again after the model has answered.
AskUnchecked(c) ==
  /\ Through(c, 6)
  /\ \/ Give(c)
     \/ /\ \E t \in Text : Become(c, Replied(request[c], t, {}))
        /\ fresh' = [fresh EXCEPT ![c] = HeadsNow]
  /\ UNCHANGED <<world, responses, rewritten>>

\* The model fails, cites what it was not given, or answers.
Ask(c) ==
  /\ Through(c, 6)
  /\ \/ Give(c)
     \/ /\ \E t \in Text : Become(c, Replied(request[c], t, DOMAIN request[c].snapshot))
        /\ fresh' = [fresh EXCEPT ![c] = HeadsNow]
  /\ UNCHANGED <<world, responses, rewritten>>

\* renderResponseLod: the first level shows the conclusion only.
Render(depth, text) == IF depth = 1 THEN Plain ELSE text

\* The id covers the question, the scope with its snapshot, the evidence and
\* the conclusion, and for a refresh what it refreshes; not the rest of the
\* text, nor the envelope.
Id(r, keep) == [snapshot |-> r.snapshot, evidence |-> r.evidence, refresh |-> keep.parent]

Compiled(r, keep) ==
  [id |-> Id(r, keep), text |-> r.text, parent |-> keep.parent,
   shown |-> [d \in 1..keep.depth |-> Render(d, r.text)], highest |-> keep.depth,
   model |-> Generator, history |-> <<>>]

\* A row that is there keeps its identity and its text, and takes the levels
\* and the envelope.
Upserted(row) ==
  With(responses, row.id,
       IF row.id \in DOMAIN responses
       THEN [responses[row.id] EXCEPT !.shown = row.shown, !.highest = row.highest,
                                      !.model = row.model, !.history = row.history]
       ELSE row)

FinishAnswer(c) ==
  /\ Through(c, 7)
  /\ LET r == request[c] IN
     IF r.keep = {} THEN UNCHANGED <<responses, rewritten>>
     ELSE \E keep \in r.keep :
            /\ responses' = Upserted(Compiled(r, keep))
            /\ rewritten' = rewritten \cup ({Id(r, keep)} \cap DOMAIN responses)
            /\ Cardinality(DOMAIN responses') <= MaxResponses
  /\ Give(c)
  /\ UNCHANGED world

-----------------------------------------------------------------------------
(* Responses that are shown again, deeper or under another model's name *)

Load(c, id, want) ==
  /\ At(c, "idle")
  /\ Become(c, [stage |-> "loaded", of |-> responses[id], want |-> want])
  /\ fresh' = [fresh EXCEPT ![c] = HeadsNow]
  /\ UNCHANGED <<world, responses, rewritten>>

Get(c) ==
  \E id \in DOMAIN responses :
    Load(c, id, [depth |-> responses[id].highest, original |-> TRUE, swap |-> {}])

\* No other envelope, or the one of a model.
Swaps == {{}} \cup {{m} : m \in Model}

Expand(c) ==
  \E id \in DOMAIN responses, d \in Depth, o \in BOOLEAN, s \in Swaps :
    Load(c, id, [depth |-> d, original |-> o, swap |-> s])

ResolveAgain(c) ==
  /\ At(c, "loaded")
  /\ LET r == request[c] IN
     Become(c, [stage |-> "read", pass |-> 1, left |-> chainsForRepo, snapshot |-> Empty,
                of |-> r.of, want |-> r.want])
  /\ UNCHANGED <<world, responses, fresh, rewritten>>

\* checkAuthorityFreshness
Stale(r) == r.snapshot # r.of.id.snapshot

Swapped(row, models) ==
  IF models \subseteq {row.model} THEN row
  ELSE [row EXCEPT !.model = CHOOSE m \in models : TRUE, !.history = Append(@, row.model)]

\* Every level up to the one wanted is rendered from the skeleton stored.
Deepened(row, depth) ==
  IF depth \in DOMAIN row.shown THEN row
  ELSE [row EXCEPT !.shown = [d \in DOMAIN row.shown \cup 1..depth |->
                               IF d \in DOMAIN row.shown THEN row.shown[d]
                               ELSE Render(d, row.text)],
                   !.highest = IF @ > depth THEN @ ELSE depth]

FinishExpand(c) ==
  /\ Through(c, 2) /\ Loaded(request[c])
  /\ LET r == request[c]
         row == Deepened(Swapped(r.of, r.want.swap), r.want.depth) IN
     /\ Len(row.history) <= MaxSwaps
     /\ responses' = IF (Stale(r) /\ ~r.want.original) \/ row = r.of
                     THEN responses ELSE Upserted(row)
  /\ Give(c)
  /\ UNCHANGED <<world, rewritten>>

-----------------------------------------------------------------------------
Work(c) == \/ BeginAnswer(c) \/ ReadHead(c) \/ BeginSearch(c) \/ Search(c) \/ Ask(c)
           \/ FinishAnswer(c) \/ Get(c) \/ Expand(c) \/ ResolveAgain(c) \/ FinishExpand(c)
Next == Write \/ \E c \in Client : Work(c)
Spec == Init /\ [][Next]_vars

-----------------------------------------------------------------------------
(* Properties *)

\* An answer that is given names heads that were each accepted at some time
\* since the model had answered (the pass after it); and if no chain came back
\* to a head it had left, all of them were accepted at once when the evidence
\* was searched for, though no statement reads two of them.
AnswersGrounded ==
  \A c \in Client : Through(c, 7) =>
    /\ Entries(request[c].snapshot) \subseteq fresh[c]
    /\ returned \/ request[c].joint

\* What is said to be current when it is shown again had its heads accepted,
\* each at some time since the response was loaded.
CurrentIsCurrent ==
  \A c \in Client : Through(c, 2) /\ Loaded(request[c]) /\ ~Stale(request[c]) =>
    Entries(request[c].of.id.snapshot) \subseteq fresh[c]

\* Whatever writes the rows back, each holds every level up to its highest, and
\* they are of the text it stores unless it was compiled again.
LevelsKept ==
  \A id \in DOMAIN responses : LET row == responses[id] IN
    /\ DOMAIN row.shown = 1..row.highest
    /\ id \notin rewritten => \A d \in DOMAIN row.shown : row.shown[d] = Render(d, row.text)

\* The names an envelope has had begin with the generator's, and lead to the
\* present one by real changes.
TrailKept ==
  \A id \in DOMAIN responses :
    LET trail == Append(responses[id].history, responses[id].model) IN
    /\ trail[1] = Generator
    /\ \A i \in 1..(Len(trail) - 1) : trail[i] # trail[i + 1]

\* No request makes another answer of a response: neither an expansion nor an
\* answer that gets the same id changes what the response says, and none is lost.
SaysTheSame ==
  [][responses' # responses =>
       \A id \in DOMAIN responses :
         /\ id \in DOMAIN responses'
         /\ responses'[id].text = responses[id].text
         /\ responses'[id].parent = responses[id].parent]_responses

GroundedKept ==
  /\ [](AnswersGrounded /\ CurrentIsCurrent /\ LevelsKept /\ TrailKept)
  /\ SaysTheSame
=============================================================================
