------------------------- MODULE ToolAuthorization -------------------------
(***************************************************************************)
(* The life of one tool authorization: a model's request becomes a stone    *)
(* and a pending row, a human decides it, and the approved call is consumed *)
(* at most once, behind a guard on the head it is about to move.  Two       *)
(* transitions compare the status (the claims); the updates that settle a   *)
(* claim name the authorization only.                                       *)
(***************************************************************************)
EXTENDS Naturals

CONSTANTS
  Client,    \* concurrent requests
  Time,      \* when a request is made: the only part of its stone that varies
  Other      \* heads that other writers set

VARIABLES
  auth,      \* the tool_authorizations row
  head,      \* the guarded chain or path head
  invoked,   \* how often the tool has run (not in the code)
  req        \* the request each client is working on

vars == <<auth, head, invoked, req>>

-----------------------------------------------------------------------------
Decision == {"approved", "denied"}
Settled  == {"denied", "authorization_failed", "expired", "executed",
             "guard_failed", "execution_failed"}
Status   == {"none", "pending", "deciding", "authorized", "consuming"} \cup Settled

\* The head the guard expects, and the one the tool sets.
Head == {"expected", "target"} \cup Other

\* The clock, as far as expires_at tells: `term` is running or over.
NoAuth == [status |-> "none", request |-> "none", decision |-> "none", stone |-> "none",
           term |-> "none", claim |-> "none", result |-> "none"]

Idle(answer) == [stage |-> "idle", answer |-> answer]

Init == /\ auth = NoAuth
        /\ head = "expected"
        /\ invoked = 0
        /\ req = [c \in Client |-> Idle("none")]

Become(c, r) == req' = [req EXCEPT ![c] = r]
Goto(c, stage) == Become(c, [req[c] EXCEPT !.stage = stage])
Reply(c, answer) == Become(c, Idle(answer))
At(c, stage) == req[c].stage = stage
Outside == UNCHANGED <<head, invoked>>

-----------------------------------------------------------------------------
(* requestToolAuthorizationFromBody: one identity, asked for again and again *)

\* A field that claims an authority, a package, an intent or a guard that is
\* not valid, arguments too long, or a call that needs no authorization or is
\* not to be had: the request ends.
Request(c) ==
  /\ At(c, "idle")
  /\ \/ Reply(c, "refused")
     \/ \E t \in Time : Become(c, [stage |-> "known", stone |-> t])
  /\ UNCHANGED auth /\ Outside

\* cairnstone_tool_authorization_prepare: the package is compiled first.
Prepare(c) ==
  /\ At(c, "idle")
  /\ \/ Reply(c, "refused")
     \/ Become(c, [stage |-> "package"])
  /\ UNCHANGED auth /\ Outside

Package(c) ==
  /\ At(c, "package")
  /\ \/ Reply(c, "refused")
     \/ \E t \in Time : Become(c, [stage |-> "known", stone |-> t])
  /\ UNCHANGED auth /\ Outside

\* The answer to a request names its stone.
Named(c, answer, stone) ==
  Become(c, [stage |-> "idle", answer |-> answer, stone |-> stone])

\* A request that is there is given again; a read that fails ends it.
Known(c) ==
  /\ At(c, "known")
  /\ \/ auth.status # "none" /\ Named(c, "requested", auth.request)
     \/ auth.status = "none" /\ Goto(c, "stone")
     \/ Reply(c, "refused")
  /\ UNCHANGED auth /\ Outside

WriteStone(c) ==
  /\ At(c, "stone")
  /\ Goto(c, "persist") \/ Reply(c, "refused")
  /\ UNCHANGED auth /\ Outside

\* persistPendingAuthorizationRecord: INSERT OR IGNORE, then a look at the row.
Persist(c) ==
  /\ At(c, "persist")
  /\ \/ /\ auth' = IF auth.status = "none"
                    THEN [NoAuth EXCEPT !.status = "pending", !.request = req[c].stone]
                    ELSE auth
        /\ Goto(c, "compare")
     \/ UNCHANGED auth /\ Reply(c, "refused")
  /\ Outside

Compare(c) ==
  /\ At(c, "compare")
  /\ \/ auth.request = req[c].stone /\ Named(c, "requested", req[c].stone)
     \/ Reply(c, "refused")
  /\ UNCHANGED auth /\ Outside

-----------------------------------------------------------------------------
(* authorizeToolRequestFromBody *)

Replayed(d) ==
  \/ d = "approved" /\ auth.status \in {"executed", "authorized"}
  \/ d = "denied" /\ auth.status = "denied"

\* The row is loaded.  The registry may have been changed by a deployment.
Decide(c) ==
  /\ At(c, "idle")
  /\ auth.status # "none"
  /\ \E d \in Decision, execute \in BOOLEAN :
       \/ Reply(c, "refused")
       \/ Replayed(d) /\ Reply(c, d)
       \/ /\ ~Replayed(d)
          /\ IF auth.status = "pending"
             THEN Become(c, [stage |-> "claim", decision |-> d,
                             execute |-> execute /\ d = "approved"])
             ELSE Reply(c, "refused")
  /\ UNCHANGED auth /\ Outside

Claim(c) ==
  /\ At(c, "claim")
  /\ IF auth.status = "pending"
     THEN /\ auth' = [auth EXCEPT !.status = "deciding", !.decision = req[c].decision]
          /\ Goto(c, "evidence")
     ELSE UNCHANGED auth /\ Reply(c, "refused")
  /\ Outside

\* The decision stone is written, or it cannot be.
Evidence(c) ==
  /\ At(c, "evidence")
  /\ \/ Goto(c, "settle")
     \/ Goto(c, "undecided")
  /\ UNCHANGED auth /\ Outside

Undecided(c) ==
  /\ At(c, "undecided")
  /\ auth' = [auth EXCEPT !.status = "authorization_failed"]
  /\ Reply(c, "refused")
  /\ Outside

Settle(c) ==
  LET d == req[c].decision IN
  /\ At(c, "settle")
  /\ auth' = [auth EXCEPT
       !.status = IF d = "approved" THEN "authorized" ELSE "denied",
       !.term   = IF d = "approved" THEN "running" ELSE "none",
       !.stone  = d]
  /\ IF req[c].execute THEN Become(c, [stage |-> "load"]) ELSE Reply(c, d)
  /\ Outside

-----------------------------------------------------------------------------
(* executeAuthorizedToolFromBody *)

Execute(c) ==
  /\ At(c, "idle")
  /\ auth.status # "none"
  /\ Become(c, [stage |-> "load"])
  /\ UNCHANGED auth /\ Outside

Executable == auth.status = "authorized"

\* The stored request never changes, so its digest matches; the registry may
\* refuse the tool.
Load(c) ==
  /\ At(c, "load")
  /\ \/ auth.status = "executed" /\ Reply(c, "executed")
     \/ auth.status # "executed" /\ ~Executable /\ Reply(c, "refused")
     \/ Executable /\ auth.term = "over" /\ Become(c, [stage |-> "expire"])
     \/ Executable /\ auth.term = "running" /\ Become(c, [stage |-> "consume"])
     \/ Executable /\ auth.term = "running" /\ Reply(c, "refused")
  /\ UNCHANGED auth /\ Outside

\* Mutant: an expired authorization is marked, whatever became of it.
ExpireUnguarded(c) ==
  /\ At(c, "expire")
  /\ auth' = [auth EXCEPT !.status = "expired"]
  /\ Reply(c, "refused")
  /\ Outside

Expire(c) ==
  /\ At(c, "expire")
  /\ auth' = IF auth.status = "authorized"
             THEN [auth EXCEPT !.status = "expired"] ELSE auth
  /\ Reply(c, "refused")
  /\ Outside

\* The one-time claim; a loser looks once more, for a result to replay.
Consume(c) ==
  /\ At(c, "consume")
  /\ IF auth.status = "authorized"
     THEN /\ auth' = [auth EXCEPT !.status = "consuming", !.claim = c]
          /\ Goto(c, "observe")
     ELSE UNCHANGED auth /\ Goto(c, "lost")
  /\ Outside

Lost(c) ==
  /\ At(c, "lost")
  /\ Reply(c, IF auth.status = "executed" THEN "executed" ELSE "refused")
  /\ UNCHANGED auth /\ Outside

Observe(c) ==
  /\ At(c, "observe")
  /\ Goto(c, IF head = "expected" THEN "invoke" ELSE "mismatch")
  /\ UNCHANGED auth /\ Outside

\* Mutant: a guard that does not match ends the request only.
MismatchUnrecorded(c) ==
  /\ At(c, "mismatch")
  /\ Reply(c, "refused")
  /\ UNCHANGED auth /\ Outside

Mismatch(c) ==
  /\ At(c, "mismatch")
  /\ auth' = [auth EXCEPT !.status = "guard_failed", !.result = "guard"]
  /\ Reply(c, "refused")
  /\ Outside

\* The tool compares nothing; it reports success, or fails without effect.
Invoke(c) ==
  /\ At(c, "invoke")
  /\ \/ head' = "target" /\ invoked' = invoked + 1 /\ Goto(c, "verify")
     \/ UNCHANGED <<head, invoked>> /\ Become(c, [stage |-> "finish", ok |-> FALSE])
  /\ UNCHANGED auth

Verify(c) ==
  /\ At(c, "verify")
  /\ Become(c, [stage |-> "finish", ok |-> head = "target"])
  /\ UNCHANGED auth /\ Outside

\* Mutant: a verification that failed leaves the call to be tried again.
FinishOrRetry(c) ==
  /\ At(c, "finish")
  /\ auth' = [auth EXCEPT
       !.status = IF req[c].ok THEN "executed" ELSE "authorized",
       !.result = IF req[c].ok THEN "done" ELSE "failed"]
  /\ Reply(c, IF req[c].ok THEN "executed" ELSE "refused")
  /\ Outside

Finish(c) ==
  /\ At(c, "finish")
  /\ auth' = [auth EXCEPT
       !.status = IF req[c].ok THEN "executed" ELSE "execution_failed",
       !.result = IF req[c].ok THEN "done" ELSE "failed"]
  /\ Reply(c, IF req[c].ok THEN "executed" ELSE "refused")
  /\ Outside

-----------------------------------------------------------------------------
(* Around it: time, the other writers of the head, and the Worker's end *)

Lapse ==
  /\ auth.term = "running"
  /\ auth' = [auth EXCEPT !.term = "over"]
  /\ UNCHANGED <<head, invoked, req>>

MoveHead ==
  /\ head' \in Head \ {head}
  /\ UNCHANGED <<auth, invoked, req>>

Die(c) ==
  /\ ~At(c, "idle")
  /\ Reply(c, "none")
  /\ UNCHANGED auth /\ Outside

Step(c) == \/ Package(c) \/ Known(c) \/ WriteStone(c) \/ Persist(c) \/ Compare(c)
           \/ Claim(c) \/ Evidence(c) \/ Undecided(c) \/ Settle(c)
           \/ Load(c) \/ Expire(c) \/ Consume(c) \/ Lost(c)
           \/ Observe(c) \/ Mismatch(c) \/ Invoke(c) \/ Verify(c) \/ Finish(c)
Begin(c) == Request(c) \/ Prepare(c) \/ Decide(c) \/ Execute(c)

Work == Lapse \/ MoveHead \/ \E c \in Client : Step(c) \/ Begin(c)
Next == Work \/ \E c \in Client : Die(c)
Spec == Init /\ [][Next]_vars

\* A request that is not cut short goes on: every call it awaits returns.
Fairness == \A c \in Client : WF_vars(Step(c))

-----------------------------------------------------------------------------
(* Properties *)

\* The shape of the row and of the requests in flight.
TypeOK ==
  /\ auth \in [status: Status, request: Time \cup {"none"}, decision: Decision \cup {"none"},
               stone: Decision \cup {"none"}, term: {"none", "running", "over"},
               claim: Client \cup {"none"}, result: {"none", "done", "failed", "guard"}]
  /\ head \in Head
  /\ \A c \in Client : req[c].stage = "idle" =>
       req[c].answer \in {"none", "refused", "requested", "executed"} \cup Decision

Calling == {"observe", "mismatch", "invoke", "verify", "finish"}

\* One approval is one call at most: however many requests decide, execute,
\* retry or die, one of them holds the claim and the tool runs once, after a
\* human's approval of it was recorded; and only a call that was made and
\* read back is replayed.
OneCallPerApproval ==
  /\ \A c \in Client :
       /\ req[c].stage \in Calling => auth.status = "consuming" /\ auth.claim = c
       /\ req[c].stage = "idle" /\ req[c].answer = "executed" =>
            invoked = 1 /\ auth.result = "done"
  /\ invoked <= 1
  /\ invoked = 1 => /\ auth.decision = "approved" /\ auth.stone = "approved"
                    /\ auth.status \in {"consuming", "executed", "execution_failed"}

\* A decision or a call is settled once: no late loser, unconditional update
\* or expiry changes an authorization that has its outcome.
OutcomeStays == [][auth.status \in Settled => auth'.status = auth.status
                                              /\ auth'.result = auth.result]_vars

\* What the human is told was decided is what the row and the stone say, then
\* and ever after, also where two deciders disagree.
DecidedAsAnswered ==
  \A c \in Client : At(c, "idle") /\ req[c].answer \in Decision =>
    auth.decision = req[c].answer /\ auth.stone = req[c].answer

Deciding == {"evidence", "undecided", "settle"}
Abandoned == \/ auth.status = "consuming" /\ \A c \in Client : req[c].stage \notin Calling
             \/ auth.status = "deciding" /\ \A c \in Client : req[c].stage \notin Deciding

\* An authorization whose request died after its claim is not taken over: it
\* stays as it is, and whether the tool ran is never asked again by calling it.
AbandonedStays == [][Abandoned => Abandoned']_vars

\* Every decision that claims the authorization gets an outcome, and every
\* call that claims it a result, where no request is cut short.
ClaimsSettle ==
  /\ auth.status = "deciding" ~> auth.status \in {"authorized", "denied", "authorization_failed"}
  /\ auth.status = "consuming" ~> auth.status \in Settled

\* However often a request is made, by retries or by several at once, and
\* whichever stones that leaves, the stone each caller is given is the one a
\* human will decide on.
RequestedAsRecorded ==
  \A c \in Client : At(c, "idle") /\ req[c].answer = "requested" =>
    auth.status # "none" /\ auth.request = req[c].stone

\* What is requested is recorded once, what is claimed is claimed once, and
\* each answer is what the row says.
ClaimsKept ==
  /\ TypeOK
  /\ OneCallPerApproval
  /\ DecidedAsAnswered
  /\ RequestedAsRecorded

\* Neither an outcome nor an abandoned claim is ever changed.
OutcomesKept ==
  /\ OutcomeStays
  /\ AbandonedStays
=============================================================================
