------------------------ MODULE MCWorkspaceServices ------------------------
(***************************************************************************)
(* The services around a workspace that share no table: its snapshots, its  *)
(* invites and the gate in front of it, its GitHub transport, stones with   *)
(* their heads, the import of a chain, the environment of a code session,   *)
(* delegations, and the compile of an agent's package.  Each is explored    *)
(* from its own initial state: `service` names the one at work.             *)
(***************************************************************************)
EXTENDS WorkspaceSnapshot, WorkspaceServices, FiniteSets, TLC

CONSTANT Service

Symmetry == Permutations(Client)

VARIABLE service

\* Values of constants that are sequences, records or functions.
Files   == {<<"p", "h">>, <<"q", "h">>}
Bundles == {{1}, {1, 2}}
Allowed == [full |-> {"build", "install"}, local |-> {"build"}]
Folders == {<<"d">>, <<"e">>}
Capabilities ==
  {[actor |-> "a", workspace |-> "w", role |-> "owner", scopes |-> {"ls", "write_draft"}, prefix |-> <<>>],
   [actor |-> "a", workspace |-> "w", role |-> "drafter", scopes |-> {"write_draft"}, prefix |-> <<"d">>],
   [actor |-> "a", workspace |-> "w", role |-> "reader", scopes |-> {"write_draft"}, prefix |-> <<>>],
   [actor |-> "a", workspace |-> "v", role |-> "owner", scopes |-> {"write_draft"}, prefix |-> <<>>]}
Plans == {<<>>, <<"search", "search">>, <<"chain">>, <<"set_head">>}

EvidenceRow(path, stone, ref) == [path |-> path, stone |-> stone, ref |-> ref]

Briefs   == <<1, 2>>
Findings == {<<EvidenceRow("doc", 1, 1), EvidenceRow("doc", 2, 1)>>,
             <<EvidenceRow("head", 1, 2), EvidenceRow("doc", 1, 1)>>}

ASSUME Service \subseteq {"snapshots", "invites", "stones", "freshness",
                          "sandboxes", "environments", "import", "transport", "gate",
                          "delegation", "bootstrap"}
ASSUME FilesArePlaces /\ CapabilitiesAreSigned /\ PathsAreCanonical /\ NamesAreNames
ASSUME BudgetsAreNumbers /\ RowsAreOfTheChain

serviceVars == <<service, vars, inviteVars, stoneVars, boxVars, importVars, githubVars,
                 gateVars, delegationVars, bootstrapVars>>

ServiceInit == /\ service \in Service /\ Init /\ Invites!Init /\ Heads!Init
               /\ Box!Init /\ (box.manifest = Box!None \/ service \in {"sandboxes", "environments"})
               /\ Import!Init /\ Gate!Init /\ Delegate!Init /\ Boot!Init
               /\ Github!Init /\ bind.ref = "b1"

\* One component takes a step, the tables of the others stay.
Stay(component) ==
  /\ IF component = "snapshots" THEN TRUE ELSE UNCHANGED vars
  /\ IF component = "invites" THEN TRUE ELSE UNCHANGED inviteVars
  /\ IF component = "stones" THEN TRUE ELSE UNCHANGED stoneVars
  /\ IF component = "sandboxes" THEN TRUE ELSE UNCHANGED boxVars
  /\ IF component = "import" THEN TRUE ELSE UNCHANGED importVars
  /\ IF component = "transport" THEN TRUE ELSE UNCHANGED githubVars
  /\ IF component = "gate" THEN TRUE ELSE UNCHANGED gateVars
  /\ IF component = "delegation" THEN TRUE ELSE UNCHANGED delegationVars
  /\ IF component = "bootstrap" THEN TRUE ELSE UNCHANGED bootstrapVars

-----------------------------------------------------------------------------
Freezing == service = "snapshots" /\ Next /\ Stay("snapshots")

Inviting == service = "invites" /\ Invites!Next /\ Stay("invites")

\* Stones of one content with their heads and edges, or commits of one file
\* and its source.
Stoning ==
  /\ service \in {"stones", "freshness"}
  /\ Heads!Next
  /\ \/ /\ service = "stones"
        /\ source' = source /\ fresh' = fresh /\ edges' \subseteq {<<"s2", "s1">>}
        /\ \A c \in Client :
             /\ write'[c].stage \notin {"accepted", "record"}
             /\ write'[c].stage = "stone" => write'[c].content = "x"
             /\ "link" \in DOMAIN write'[c] =>
                  write'[c].link \subseteq {"s1"} /\ write'[c].asHead = write'[c].setPath
     \/ /\ service = "freshness"
        /\ source'["q"] = "missing" /\ chainHead' = chainHead /\ edges' = edges
        /\ \E c \in Client : write'[c].stage \notin {"accepted", "record"}
        /\ \A c \in Client :
             /\ write'[c].stage \notin {"set head", "set path head"}
             /\ "file" \in DOMAIN write'[c] => write'[c].file = <<"p", "h">>
             /\ "link" \in DOMAIN write'[c] =>
                  write'[c].link = {} /\ write'[c].setPath /\ ~write'[c].asHead
  /\ Stay("stones")

\* m allows local commands, n all of them; attachments alone, or the rest.
Boxing ==
  /\ service \in {"sandboxes", "environments"}
  /\ Box!Next
  /\ manifests'["m"].class \in {"none", "local"} /\ manifests'["n"].class \in {"none", "full"}
  /\ manifests'["m"].home \/ manifests'["m"].class = "none"
  /\ \/ service = "environments" /\ attachments' = attachments
        /\ \A c \in Client : op'[c].stage \notin {"attach", "point"}
     \/ service = "sandboxes" /\ receipts' = receipts
        /\ \A c \in Client : op'[c].stage # "receipt"
        /\ box'.manifest # "m" /\ box'.rev <= 2
  /\ Stay("sandboxes")

Importing == service = "import" /\ Import!Next /\ Stay("import")

\* One pointer at a time is enough to be wrong.
Transporting ==
  /\ service = "transport"
  /\ Github!Next
  /\ \A p, q \in pointers' : p = q
  /\ Stay("transport")

Settles(r) == CASE r.stage = "idle" -> TRUE
                [] r.stage = "join" -> r.workspace = "w" /\ r.role = "drafter"
                [] OTHER            -> r.ask.kind = "create" /\ r.cap.workspace = "w"

\* Paths only where drafts change, one or the other for a hydration.
Plainly(ask) == /\ ask.kind = "other" => ask.path = <<>> /\ ask.scope = "write_draft"
                /\ ask.kind = "hydrate" => <<>> \in {ask.path, ask.other}

\* Creations and joins at once, and one other request at a time; v is there
\* first, for its row.
Gating ==
  /\ service = "gate"
  /\ Gate!Next
  /\ Cardinality(revoked' \cup expired') <= 1
  /\ \E c \in Client : Settles(gateReq'[c])
  /\ \A c \in Client : "ask" \in DOMAIN gateReq'[c] =>
       /\ Plainly(gateReq'[c].ask)
       /\ gateReq'[c].cap.workspace = (IF home["o"] = "v" THEN "w" ELSE "v")
  /\ Stay("gate")

\* A second candidate is there for a provider that fails, with its key or
\* without.
Delegating ==
  /\ service = "delegation"
  /\ Delegate!Next
  /\ "route" \in DOMAIN delegation' /\ Len(delegation'.route) = 2 =>
       delegation'.route[1] \in {"openai", "anthropic"}
  /\ Stay("delegation")

\* A chain that owns the instructions moves where it is read, and for tasks
\* about the present.
Bootstrapping ==
  /\ service = "bootstrap"
  /\ Boot!Next
  /\ \A i \in DOMAIN heads' : heads'[i]["owner head"] = 1
  /\ "owner" \in DOMAIN compile' /\ compile'.owner => compile'.current
  /\ "owner" \in DOMAIN compile' /\ ~compile'.owner =>
       \A i \in DOMAIN heads' : heads'[i]["owner guide"] = 1 /\ heads'[i]["owner brief"] = 1
  /\ Stay("bootstrap")

ServiceNext == /\ UNCHANGED service
               /\ \/ Freezing \/ Inviting \/ Stoning \/ Boxing \/ Importing \/ Transporting
                  \/ Gating \/ Delegating \/ Bootstrapping
ServiceSpec == ServiceInit /\ [][ServiceNext]_serviceVars
=============================================================================
