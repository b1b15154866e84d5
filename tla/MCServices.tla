----------------------------- MODULE MCServices -----------------------------
(***************************************************************************)
(* The services of the Worker that share no table, each explored from its   *)
(* own initial state: `service` names the one at work.                      *)
(***************************************************************************)
EXTENDS AgentServices, AccountServices, Sequences, FiniteSets, TLC

CONSTANTS c1, c2, Service

Symmetry == Permutations(Client)

VARIABLE service

\* Values of constants that are records or functions.
Turns    == {[turn |-> "t1", message |-> "m1"], [turn |-> "t2", message |-> "m1"]}
Scopes   == {<<"w">>}
Parties  == {{"worker"}, {"worker", "peer"}}
Settings == {[mode |-> "off", payload |-> "full_turns"], [mode |-> "on", payload |-> "full_turns"]}
InvitedAs  == [i |-> "B"]
EnrolledAs == [p0 |-> "A", p1 |-> "none"]

\* A home with an admin, a member and an inbox that both may use.
Furnished ==
  /\ conns = [a |-> [status |-> "active", role |-> "admin"],
              b |-> [status |-> "active", role |-> "member"]]
  /\ boxes = [i |-> "home"]
  /\ rights = [i |-> [a |-> Home!Store!Cap, b |-> Home!Store!Cap]]
  /\ letters = [m |-> Home!Store!NoMessage]
  /\ opened = {} /\ noted = {} /\ answered = {}
  /\ homeReq = [c \in Client |-> Home!Idle]
Furnishing == IF service = "letters" THEN Furnished ELSE Home!Init

\* A repository of two files, of one of which an analysis has something to say.
Paths == <<"p", "q">>
OfFiles == [include |-> {"p", "q"}, most |-> 2, reuse |-> TRUE, supersede |-> TRUE,
            orient |-> FALSE, head |-> TRUE, link |-> TRUE,
            architecture |-> FALSE, lint |-> FALSE, review |-> FALSE]
OfAll == [OfFiles EXCEPT !.orient = TRUE, !.architecture = TRUE, !.lint = TRUE, !.review = TRUE]
Ingestions == {OfFiles, OfAll}

ASSUME Service \subseteq
  {"appends", "turnsync", "authorizations", "task runs", "grants", "mail",
   "worker", "tools", "journal", "tokens", "homes", "letters", "sign-ins",
   "files", "repository", "manifests",
   "answers", "responses"}
ASSUME ScopesAreLists /\ ClientsAreSomebody /\ CapsAreCaps /\ LimitIsNumber /\ EventsAreOrdered
ASSUME AccountsAreNamed /\ ScopesAndLevels /\ RepositoryIsListed

Init == /\ service \in Service /\ Conv!Init /\ Tool!Init /\ Task!Init
        /\ Grants!Init /\ Mail!Init /\ Mcp!Init /\ Events!Init /\ Core!Init
        /\ Furnishing /\ SignIn!Init /\ Repo!Init
        /\ Answer!Init

vars == <<service, convVars, toolVars, taskVars, grantVars, mailVars,
          mcpVars, eventVars, coreVars, homeVars, signInVars, repoVars, answerVars>>

\* One component takes a step, the tables of the others stay.
Only(component) ==
  /\ IF component = "conversations" THEN TRUE ELSE UNCHANGED convVars
  /\ IF component = "authorizations" THEN TRUE ELSE UNCHANGED toolVars
  /\ IF component = "task runs" THEN TRUE ELSE UNCHANGED taskVars
  /\ IF component = "grants" THEN TRUE ELSE UNCHANGED grantVars
  /\ IF component = "correspondence" THEN TRUE ELSE UNCHANGED mailVars
  /\ IF component = "tools" THEN TRUE ELSE UNCHANGED mcpVars
  /\ IF component = "journal" THEN TRUE ELSE UNCHANGED eventVars
  /\ IF component = "core auth" THEN TRUE ELSE UNCHANGED coreVars
  /\ IF component = "home" THEN TRUE ELSE UNCHANGED homeVars
  /\ IF component = "sign-in" THEN TRUE ELSE UNCHANGED signInVars
  /\ IF component = "repository" THEN TRUE ELSE UNCHANGED repoVars
  /\ IF component = "answers" THEN TRUE ELSE UNCHANGED answerVars

-----------------------------------------------------------------------------
(* Conversations: appends and updates by anyone, or turns synced by one *)

Appends(r) == r.stage # "policy" /\ (r.stage \notin {"idle", "update"} => ~r.sync)
Syncs(r) == /\ r.stage \notin {"idle", "policy", "update"} => r.sync /\ r.actor = "owner"
            /\ r.stage = "policy" => r.set.mode = IF r.key = "w" THEN "off" ELSE "on"

Conversing ==
  /\ service \in {"appends", "turnsync"}
  /\ Conv!Next
  /\ \/ /\ service = "appends"
        /\ \A c \in Client : Appends(req'[c])
        /\ session'.scope = <<>>
     \/ /\ service = "turnsync"
        /\ \A c \in Client : Syncs(req'[c])
        /\ session'.status \in {"none", "active"} /\ session'.members = {}
  /\ Only("conversations")

Authorizing == service = "authorizations" /\ Tool!Next /\ Only("authorizations")

\* r1 is the only root, with every reference, and r3 is only proposed.
Tasking ==
  /\ service = "task runs"
  /\ Task!Next
  /\ Task!Exists("r1")' => runs'["r1"].refs = {"stone", "repo"}
  /\ \A r \in {"r2", "r3"} : Task!Exists(r)' => runs'[r].parent # "none"
  /\ \A c \in Client : runReq'[c].stage \in {"invoke", "cancel"} => runReq'[c].run # "r3"
  /\ Only("task runs")

Granting == service = "grants" /\ Grants!Next /\ Only("grants")

-----------------------------------------------------------------------------
(* Correspondence: sends, notes and handoffs, or the ticks of workers *)

Asks(r) == r.stage \in {"look", "stone", "deliver"} /\ r.print.message # "result"
Ticks(r) == r.stage \in {"read", "delegate"} \/ (r.stage \in {"look", "stone", "deliver"} /\ ~Asks(r))

Mailing ==
  /\ service \in {"mail", "worker"}
  /\ Mail!Next
  /\ \/ /\ service = "mail"
        /\ \A c \in Client : ~Ticks(mail'[c])
        /\ Len(posted') <= 2
     \/ /\ service = "worker"
        /\ \A c \in Client : Asks(mail'[c]) =>
             mail'[c].print = Mail!Contract("request", "task", {"worker"})
  /\ Only("correspondence")

Loading == service = "tools" /\ Mcp!Next /\ Only("tools")

Journaling == service = "journal" /\ Events!Next /\ Only("journal")

Tokening == service = "tokens" /\ Core!Next /\ Only("core auth")

\* Connections, roles and grants; or, in a home that is furnished, messages
\* while grants and connections are revoked.
Homing ==
  /\ service \in {"homes", "letters"}
  /\ Home!Next
  /\ \A c \in Client : "op" \in DOMAIN homeReq'[c] =>
       homeReq'[c].op.kind \in (IF service = "homes"
         THEN {"role", "revoke", "create", "grant", "ungrant"}
         ELSE {"revoke", "ungrant", "send", "read", "ack"})
  /\ Only("home")

\* One session in every way, another only by the invite.
SigningIn ==
  /\ service = "sign-ins"
  /\ SignIn!Next
  /\ logins'["s2"].status \in {"none", "pending", "authenticated"}
  /\ \A c \in Client : "ask" \in DOMAIN loginReq'[c] /\ loginReq'[c].ask.session = "s2" =>
       loginReq'[c].ask.kind = "invite"
  /\ Only("sign-in")

\* Ingestions of files at once; or one after the other, of files or of
\* everything, with reconciliations between them; or one with readers.
Ingesting ==
  /\ service \in {"files", "repository", "manifests"}
  /\ Repo!Next
  /\ branch'["q"] = "x"
  /\ LET asks == {c \in Client : "ask" \in DOMAIN ingestion'[c]} IN
     \/ /\ service = "files"
        /\ view' = Repo!Idle /\ branch'["p"] # Repo!Absent /\ Len(chain') <= 4
        /\ \A c \in asks : ingestion'[c].ask = OfFiles
     \/ /\ service = "repository"
        /\ \A c \in asks : ingestion'[c].alone /\ (ingestion'[c].ask = OfFiles => Len(chain') <= 5)
        /\ view' # Repo!Idle => asks = {} /\ view'.stage \in {"observe", "reconciled"}
        /\ \/ branch' = branch
           \/ asks = {} /\ view = Repo!Idle
           \/ \E c \in asks : ingestion'[c].stage = "files" /\ ingestion'[c].todo # <<>>
     \/ /\ service = "manifests"
        /\ \A c \in asks : ingestion'[c].alone
        /\ branch' = branch /\ begun' <= 1 /\ view'.stage \notin {"observe", "reconciled"}
  /\ Only("repository")

\* One answer after the other while the heads move; or responses expanded at
\* once, and compiled again, with one move of a head.
Answering ==
  /\ service \in {"answers", "responses"}
  /\ Answer!Next
  /\ LET busy == {c \in Client : asker'[c] # Answer!Idle}
         asking == {c \in busy : ~Answer!Loaded(asker'[c])} IN
     \/ /\ service = "answers"
        /\ Cardinality(busy) <= 1 /\ asking = busy
        /\ \A c \in busy : \A k \in asker'[c].keep : k.depth = 1 /\ k.parent = {}
        /\ \A c \in busy : "text" \in DOMAIN asker'[c] => asker'[c].text = "x"
        /\ Cardinality(DOMAIN answers') <= 1
     \/ /\ service = "responses"
        /\ Cardinality(asking) <= 1
        /\ scoped' = {Answer!First} /\ known' = "e" /\ moves' <= 1
        /\ \A c \in asking : asker'[c].keep # {} /\ \A k \in asker'[c].keep : k.depth = 2
        /\ \A c \in asking : "evidence" \in DOMAIN asker'[c] => asker'[c].evidence = {<<"e", "PATH_HEAD">>}
        /\ \A c \in busy \ asking : LET want == asker'[c].want IN
             \/ want.depth = 3 /\ want.swap = {} /\ (want.original => busy = {c})
             \/ want.depth = 1 /\ want.swap # {} /\ want.original
             \/ want.depth = 2 /\ want.swap = {} /\ want.original /\ busy = {c}
        /\ \/ moves' = 0 /\ Cardinality(DOMAIN answers') <= 1
              /\ \A c \in asking : \A k \in asker'[c].keep : k.parent = {}
           \/ asking = {} /\ Cardinality(DOMAIN answers') <= 1 /\ Cardinality(busy) <= 1
           \/ moves' = 0 /\ Cardinality(busy) <= 1
              /\ \A c \in busy \ asking : asker'[c].of.parent # {}
  /\ Only("answers")

Next == /\ UNCHANGED service
        /\ \/ Conversing \/ Authorizing \/ Tasking \/ Granting
           \/ Mailing \/ Loading \/ Journaling \/ Tokening \/ Homing \/ SigningIn
           \/ Ingesting \/ Answering
Spec == Init /\ [][Next]_vars

\* Without deaths: one request at a time syncs, the other appends and updates.
Serving ==
  /\ UNCHANGED service
  /\ \/ service = "authorizations" /\ Tool!Work /\ Only("authorizations")
     \/ /\ service = "turnsync" /\ Conv!Work /\ Only("conversations")
        /\ Syncs(req'[c1]) /\ Appends(req'[c2])
        /\ session'.members = {}
LiveSpec == Init /\ [][Serving]_vars /\ Conv!Fairness /\ Tool!Fairness

ClaimsSettle == Tool!ClaimsSettle
SyncsEnd == Conv!SyncsEnd
=============================================================================
