----------------------------- MODULE Delegation -----------------------------
(***************************************************************************)
(* One delegation: a task is grounded by the live reads its profile plans,  *)
(* a model is called through an ordered list of routes, and the reads it    *)
(* proposes are run by the tool broker, turn by turn, until it answers.     *)
(* A model's intent is data: what runs is what the broker's registry, the   *)
(* package and the allowlist let through.  The tool_execute call of a       *)
(* client goes through the same broker.                                     *)
(***************************************************************************)
EXTENDS Naturals, Sequences, FiniteSets

CONSTANTS
  AutomaticRead, \* registered tools of class read that run unasked
  Mutation,      \* registered tools a human confirms or a grant covers
  Withdrawn,     \* registered tools that are not available
  ProfileTool,   \* tool_allowlist of the profile
  Plan,          \* the lists of reads the profile's rules ask for
  MaxLive,       \* max_live_read_turns of the profile
  MaxTurns,      \* DELEGATE_LOOP_MAX_MAX_TURNS
  MaxCalls,      \* DELEGATE_LOOP_MAX_TOOL_CALLS
  MaxPerTurn,    \* max_tool_calls_per_turn
  Keyed,         \* providers whose key is among the Worker's secrets
  MaxRoute,      \* bound: candidates of a route, at most six
  MaxIntents     \* bound: tools one model turn proposes

VARIABLES
  job,   \* the request at work
  ran,   \* the tools that were run, in their order, with the turn
  asked, \* the calls of a model, in their order
  told   \* the answer

vars == <<job, ran, asked, told>>

-----------------------------------------------------------------------------
(* The broker *)

Registered == AutomaticRead \cup Mutation \cup Withdrawn
Named      == Registered \cup {"unheard"}

\* An intent's arguments fit the tool's schema or not; those that do not parse
\* arrive as none, which fit a tool that requires none.
Intent == [tool: Named \cup {"unnamed"}, fits: BOOLEAN]

Available(tool) == tool \in AutomaticRead \cup Mutation

brokerDecisionFor(intent, capabilities) ==
  CASE ~Available(intent.tool)          -> "deny"
    [] intent.tool \notin capabilities  -> "deny"
    [] ~intent.fits                     -> "deny"
    [] intent.tool \in AutomaticRead    -> "allow"
    [] OTHER                            -> "require_authorization"

\* executeToolIntentFromBody up to the handler; the allowlist only narrows.
MayRun(intent, capabilities, allowlist, sofar, most) ==
  /\ brokerDecisionFor(intent, capabilities) = "allow"
  /\ intent.tool \in AutomaticRead /\ intent.tool \in allowlist
  /\ sofar < most

\* The handler returns; a receipt that could not be written changes nothing.
Run(tool) == ran' = Append(ran, [tool |-> tool, turn |-> job.turn])

Here(turn) == Cardinality({i \in DOMAIN ran : ran[i].turn = turn})

-----------------------------------------------------------------------------
(* Routes *)

\* Of the providers with one wire format, one stands for all.
Provider == {"mock", "workers-ai", "openai", "anthropic"}

\* A candidate is available, unknown, or carries a credential.
Candidate == Provider \cup {"unknown", "credential"}

validateRouteEnvelope(route) ==
  /\ Len(route) <= 6
  /\ \A i \in DOMAIN route : route[i] \in Provider

Said(intents) == [ok |-> TRUE, intents |-> intents]
Failed        == [ok |-> FALSE, intents |-> <<>>]

\* The adapters: what encode, invoke and normalize return for one candidate.
\* A fixture proposes nothing, a provider proposes or fails, and one whose key
\* is missing is not called.
Mocked == {Said(<<>>)}
WorkersAi(proposals) == {Said(p) : p \in proposals} \cup {Failed}
ByKey(provider, proposals) ==
  IF provider \in Keyed THEN {Said(p) : p \in proposals} \cup {Failed} ELSE {Failed}
OpenAi(proposals)    == ByKey("openai", proposals)
Anthropic(proposals) == ByKey("anthropic", proposals)

Results(provider, proposals) ==
  CASE provider = "mock"       -> Mocked
    [] provider = "workers-ai" -> WorkersAi(proposals)
    [] provider = "openai"     -> OpenAi(proposals)
    [] provider = "anthropic"  -> Anthropic(proposals)

-----------------------------------------------------------------------------
Quiet == [stage |-> "quiet", turn |-> 0]
Untold == [ok |-> FALSE, stop |-> "none"]

Init == job = Quiet /\ ran = <<>> /\ asked = <<>> /\ told = Untold

Go(stage) == job' = [job EXCEPT !.stage = stage]

\* An answer as delegationFailure, the loop and the compact wrapper give it;
\* failures before the first model call report no tool, whatever ran.
Tell(ok, stop, left, counted) ==
  /\ told' = [ok |-> ok, stop |-> stop, left |-> left, tools |-> counted, job |-> job]
  /\ job' = Quiet

Fail(stop) == Tell(FALSE, stop, 0, Len(ran))
FailEarly(stop) == Tell(FALSE, stop, 0, 0)

\* buildSubagentResultFromDelegation: an answer over the cap is none.
Answer(stop, left) ==
  \E long \in BOOLEAN :
    IF job.compact /\ long THEN Fail("over cap")
    ELSE Tell(TRUE, stop, left, Len(ran))

Looping == job.turns >= 2

-----------------------------------------------------------------------------
(* delegateFromBody *)

\* What a request names instead of a profile, and the routes it may bring.
NoProfile == <<"no profile">>
Routes == UNION {[1..n -> Candidate] : n \in 1..MaxRoute}

Fresh == job = Quiet /\ ran = <<>> /\ told = Untold

Begin ==
  /\ Fresh
  /\ \E turns \in 1..MaxTurns, compact \in BOOLEAN, plan \in Plan \cup {NoProfile}, route \in Routes :
       LET profile == plan # NoProfile IN
       job' = [stage |-> IF profile THEN "plan" ELSE "compile",
               turn |-> IF profile THEN 0 ELSE 1, turns |-> turns, compact |-> compact,
               profile |-> profile, plan |-> IF profile THEN plan ELSE <<>>,
               route |-> route, intents |-> <<>>, tried |-> 0]
  /\ UNCHANGED <<ran, asked, told>>

\* A request leaves nothing behind for the next one.
Forget ==
  /\ job = Quiet /\ ~Fresh
  /\ ran' = <<>> /\ asked' = <<>> /\ told' = Untold /\ UNCHANGED job

\* planProfileGroundingReads, and the first package: for the planned reads.
PlanReads ==
  /\ job.stage = "plan"
  /\ UNCHANGED <<ran, asked>>
  /\ \/ /\ Go("ground") /\ UNCHANGED told
        /\ \A i \in DOMAIN job.plan : job.plan[i] \in ProfileTool
        /\ Len(job.plan) <= MaxLive
     \/ FailEarly("plan")

Planned == {job.plan[i] : i \in DOMAIN job.plan}

\* The next planned read, or the task with what they returned in it.
Ground ==
  /\ job.stage = "ground"
  /\ UNCHANGED asked
  /\ LET done == Len(ran)
         next == [tool |-> job.plan[done + 1], fits |-> TRUE]
     IN IF done = Len(job.plan)
        THEN /\ UNCHANGED ran
             /\ \/ job' = [job EXCEPT !.stage = "compile", !.turn = 1] /\ UNCHANGED told
                \/ FailEarly("too large")
        ELSE \/ /\ MayRun(next, Planned, {next.tool}, done, MaxLive)
                /\ Run(next.tool)
                /\ UNCHANGED <<job, told>>
             \/ FailEarly("live read") /\ UNCHANGED ran

allowlist == IF job.profile THEN AutomaticRead \cap ProfileTool ELSE AutomaticRead

\* The package of a turn offers the loop's tools, that of one shot none.
Compile ==
  /\ job.stage = "compile"
  /\ UNCHANGED <<ran, asked>>
  /\ IF Looping /\ allowlist = {} THEN Fail("allowlist empty")
     ELSE \/ Fail("bootstrap") \/ FailEarly("exception")
          \/ job' = [job EXCEPT !.stage = "route", !.tried = 0] /\ UNCHANGED told

-----------------------------------------------------------------------------
(* modelRouteFromBody *)

Route ==
  /\ job.stage = "route"
  /\ UNCHANGED <<ran, asked>>
  /\ IF validateRouteEnvelope(job.route) THEN Go("call") /\ UNCHANGED told
     ELSE Fail("route")

\* What an adapter's normalize returns: an intent of a name that was not
\* offered has no tool.
Offered == (IF Looping THEN allowlist ELSE {}) \cup {"unnamed"}
Proposals ==
  UNION {[1..n -> {i \in Intent : i.tool \in Offered}] : n \in 0..MaxIntents}

\* The candidates are called in their order until one returns a result of the
\* right shape; the last failure is the route's.
Call ==
  /\ job.stage = "call"
  /\ asked' = Append(asked, [turn |-> job.turn, candidate |-> job.tried + 1])
  /\ UNCHANGED ran
  /\ \E result \in Results(job.route[job.tried + 1], Proposals) :
       IF result.ok
       THEN job' = [job EXCEPT !.stage = "output", !.intents = result.intents] /\ UNCHANGED told
       ELSE IF job.tried + 1 < Len(job.route)
            THEN job' = [job EXCEPT !.tried = @ + 1] /\ UNCHANGED told
            ELSE Fail("route")

-----------------------------------------------------------------------------
(* runBrokeredReadLoop, and the one shot *)

\* Mutant: the reads of the grounding do not count.
ExhaustedByLoop == Len(ran) - Here(0) >= MaxCalls

Exhausted == Len(ran) >= MaxCalls

Output ==
  /\ job.stage = "output"
  /\ UNCHANGED <<ran, asked>>
  /\ LET left == Len(job.intents) IN
     CASE left = 0      -> Answer("final_answer", 0)
       [] ~Looping      -> Fail("intent forbidden")
       [] Exhausted     -> Answer("budget", left)
       [] OTHER         -> Go("tools") /\ UNCHANGED told

\* The policy is previewed, then the allowlist and the budgets are asked, and
\* the broker decides again.
Tools ==
  LET intent == Head(job.intents) IN
  /\ job.stage = "tools" /\ job.intents # <<>>
  /\ UNCHANGED asked
  /\ \/ /\ intent.tool # "unnamed"
        /\ intent.tool \in allowlist
        /\ ~Exhausted
        /\ MayRun(intent, allowlist, allowlist, Here(job.turn), MaxPerTurn)
        /\ Run(intent.tool)
        /\ job' = [job EXCEPT !.intents = Tail(@)]
        /\ UNCHANGED told
     \/ Fail("stopped") /\ UNCHANGED ran

EndTurn ==
  /\ job.stage = "tools" /\ job.intents = <<>>
  /\ UNCHANGED <<ran, asked>>
  /\ IF job.turn = job.turns THEN Fail("max_turns")
     ELSE job' = [job EXCEPT !.stage = "compile", !.turn = @ + 1] /\ UNCHANGED told

-----------------------------------------------------------------------------
(* cairnstone_tool_execute *)

\* The caller brings a package, an allowlist and the count of its calls.
ToolExecute ==
  /\ Fresh
  /\ \E intent \in Intent, capabilities, listed \in SUBSET Registered, sofar \in 0..1 :
       /\ MayRun(intent, capabilities, listed, sofar, 1)
       /\ ran' = <<[tool |-> intent.tool, turn |-> 0]>>
  /\ UNCHANGED <<job, asked, told>>

Step == \/ PlanReads \/ Ground \/ Compile \/ Route \/ Call
        \/ Output \/ Tools \/ EndTurn
Next == Begin \/ Step \/ ToolExecute \/ Forget
Spec == Init /\ [][Next]_vars

-----------------------------------------------------------------------------
(* Properties *)

Current == IF job = Quiet /\ "job" \in DOMAIN told THEN told.job ELSE job

\* What ran was an automatic read, of the profile where there is one, and the
\* budgets hold: that of each turn, that of the profile for the grounding, and
\* that of the delegation for what runs on top of the grounding.
Bounded ==
  /\ \A i \in DOMAIN ran : ran[i].tool \in AutomaticRead
  /\ "profile" \in DOMAIN Current =>
       /\ Current.profile => \A i \in DOMAIN ran : ran[i].tool \in ProfileTool
       /\ Here(0) <= MaxLive
       /\ Len(ran) <= MaxCalls \/ Len(ran) = Here(0)
       /\ \A t \in 1..Current.turns : Here(t) <= MaxPerTurn
       /\ Here(0) = 0 \/ Current.profile

\* No model is called before the planned reads have all run, nor where one of
\* the candidates is not valid; and each turn tries them in their order.
Ordered ==
  asked # <<>> =>
    /\ Here(0) = Len(Current.plan)
    /\ \A i \in DOMAIN Current.plan : ran[i].tool = Current.plan[i]
    /\ \A i \in DOMAIN Current.route : Current.route[i] \in Provider
    /\ \A i \in DOMAIN asked :
         asked[i].candidate =
           IF i > 1 /\ asked[i - 1].turn = asked[i].turn
           THEN asked[i - 1].candidate + 1 ELSE 1

\* An answer that is given is one the model ended its last turn with, or the
\* delegation had no call left; it names every tool that ran.
Answered ==
  told.ok => /\ \/ told.stop = "final_answer" /\ told.left = 0
                \/ told.stop = "budget" /\ Len(ran) >= MaxCalls
             /\ told.tools = Len(ran)
             /\ asked # <<>>

\* However often the routes fail and the model asks for more, only reads run,
\* within their budgets, after the grounding and before a final answer.
DelegationKept == Bounded /\ Ordered /\ Answered
=============================================================================
