----------------------------- MODULE PrivateHome -----------------------------
(***************************************************************************)
(* The home of one account as the D1 store keeps it.  A request checks its  *)
(* authority with reads, and evaluates it again in the one statement or     *)
(* batch that writes; when that changes nothing, it reads once more to say  *)
(* why.  Requests interleave between their awaited calls and may die there. *)
(***************************************************************************)
EXTENDS Naturals, FiniteSets

CONSTANTS
  Client,    \* concurrent requests
  Conn,      \* connections of the account
  Inbox,     \* ids of inboxes
  Message,   \* ids of messages
  Body       \* their bodies

VARIABLES
  conns,     \* priv_home_connections
  inboxes,   \* priv_inboxes
  rights,    \* priv_inbox_grants that are not revoked
  messages,  \* priv_messages and the identities of priv_deliveries
  seen,      \* priv_deliveries: read_at is set
  acked,     \* priv_deliveries: acked_at is set
  sent,      \* history: sends answered with success
  req        \* the request each client is working on

tables == <<conns, inboxes, rights, messages, seen, acked>>
vars == <<tables, sent, req>>

Store == INSTANCE HomeStore

-----------------------------------------------------------------------------
Idle == [stage |-> "idle"]

Init == /\ Store!Init
        /\ sent = {}
        /\ req = [c \in Client |-> Idle]

Become(c, r) == req' = [req EXCEPT ![c] = r]
Reply(c) == Become(c, Idle)
At(c, stage) == req[c].stage = stage
Goto(c, stage) == Become(c, [req[c] EXCEPT !.stage = stage])

-----------------------------------------------------------------------------
(* Guards: what the WHERE of a statement, or a trigger, reads as it writes *)

ConnGuard(a) == conns[a].status = "active"
AdminGuard(a) == conns[a].status = "active" /\ conns[a].role = "admin"
ActiveAdmins == {a \in Conn : AdminGuard(a)}

GrantGuard(a, i, cap) ==
  ConnGuard(a) /\ cap \in rights[i][a] /\ inboxes[i] \in {"home", a}

\* Mutant: the last admin is not counted.
RoleUnprotected(op) == AdminGuard(op.by) /\ ConnGuard(op.whom)

RoleAllowed(op) ==
  /\ AdminGuard(op.by) /\ ConnGuard(op.whom)
  /\ op.role # "member" \/ op.whom \notin ActiveAdmins \/ Cardinality(ActiveAdmins) > 1

\* Oneself, or anybody as an admin; never the last admin.
RevokeAllowed(op) ==
  /\ ConnGuard(op.whom)
  /\ IF op.by = op.whom THEN ConnGuard(op.by) ELSE AdminGuard(op.by)
  /\ op.whom \notin ActiveAdmins \/ Cardinality(ActiveAdmins) > 1

GrantAllowed(op) ==
  AdminGuard(op.by) /\ inboxes[op.inbox] = "home" /\ ConnGuard(op.whom)

\* The two BEFORE INSERT triggers, for the sender and for each target.
SendAllowed(op) == \A i \in op.to \cup {op.from} : GrantGuard(op.by, i, "send")

-----------------------------------------------------------------------------
(* Operations, and the reads before the write *)

Request ==
  [kind: {"role"}, by: Conn, whom: Conn, role: {"admin", "member"}]
  \cup [kind: {"revoke"}, by: Conn, whom: Conn]
  \cup [kind: {"create"}, by: Conn, inbox: Inbox, own: BOOLEAN]
  \cup [kind: {"grant", "ungrant"}, by: Conn, inbox: Inbox, whom: Conn]
  \cup [kind: {"send"}, by: Conn, message: Message, from: Inbox, to: SUBSET Inbox \ {{}}, body: Body]
  \cup [kind: {"read"}, by: Conn, inbox: Inbox]
  \cup [kind: {"ack"}, by: Conn, inbox: Inbox, message: Message]

\* Early exits: whoever fails here is refused before anything is written.
Plausible(op) ==
  CASE op.kind = "role" -> AdminGuard(op.by) /\ ConnGuard(op.whom)
    [] op.kind = "revoke" -> ConnGuard(op.whom) /\ (op.by = op.whom \/ AdminGuard(op.by))
    [] op.kind = "create" -> (op.own \/ AdminGuard(op.by)) /\ inboxes[op.inbox] = "none"
    [] op.kind = "grant" -> GrantAllowed(op)
    [] op.kind = "ungrant" -> AdminGuard(op.by) /\ inboxes[op.inbox] = "home"
    [] op.kind = "send" -> SendAllowed(op)
    [] OTHER -> GrantGuard(op.by, op.inbox, op.kind)

Begin(c) ==
  /\ At(c, "idle")
  /\ \E op \in Request : /\ ConnGuard(op.by)
                         /\ Become(c, [stage |-> "check", op |-> op])
  /\ UNCHANGED <<tables, sent>>

BeginEnsure(c) ==
  /\ At(c, "idle")
  /\ \E a \in Conn, wants \in BOOLEAN :
       /\ conns[a].status = "none"
       /\ Become(c, [stage |-> "home", by |-> a, wants |-> wants])
  /\ UNCHANGED <<tables, sent>>

Check(c) ==
  /\ At(c, "check")
  /\ LET op == req[c].op IN
     IF Plausible(op)
     THEN Goto(c, CASE op.kind = "read" -> "fetch" [] op.kind = "send" -> "replay" [] OTHER -> "write")
     ELSE Reply(c)
  /\ UNCHANGED <<tables, sent>>

-----------------------------------------------------------------------------
(* ensureDefaultHome *)

\* Nobody is attached before the home is there: both come in one batch.
FindHome(c) ==
  /\ At(c, "home")
  /\ Become(c, [req[c] EXCEPT !.stage = IF \A a \in Conn : conns[a].status = "none"
                                        THEN "create home" ELSE "attach"])
  /\ UNCHANGED <<tables, sent>>

\* One default home per account, one row per connection: a batch that meets
\* either fails, and the request looks again.
CreateHome(c) ==
  /\ At(c, "create home")
  /\ IF \A a \in Conn : conns[a].status = "none"
     THEN /\ conns' = [conns EXCEPT ![req[c].by] = [status |-> "active", role |-> "admin"]]
          /\ Reply(c)
     ELSE Goto(c, "again") /\ UNCHANGED conns
  /\ UNCHANGED <<inboxes, rights, messages, seen, acked, sent>>

Attach(c) ==
  /\ At(c, "attach")
  /\ IF conns[req[c].by].status = "none"
     THEN /\ conns' = [conns EXCEPT ![req[c].by] =
                         [status |-> "active",
                          role |-> IF req[c].wants /\ ActiveAdmins = {} THEN "admin" ELSE "member"]]
          /\ Reply(c)
     ELSE Goto(c, "again") /\ UNCHANGED conns
  /\ UNCHANGED <<inboxes, rights, messages, seen, acked, sent>>

\* A connection that is attached by now is only authorized.
Again(c) ==
  /\ At(c, "again")
  /\ IF conns[req[c].by].status = "none" THEN Goto(c, "home") ELSE Reply(c)
  /\ UNCHANGED <<tables, sent>>

-----------------------------------------------------------------------------
(* One guarded statement, or one batch *)

Write(c, kind) == At(c, "write") /\ req[c].op.kind = kind /\ UNCHANGED sent

SetRole(c) ==
  /\ Write(c, "role")
  /\ LET op == req[c].op IN
     conns' = IF RoleAllowed(op) THEN [conns EXCEPT ![op.whom].role = op.role] ELSE conns
  /\ Reply(c)
  /\ UNCHANGED <<inboxes, rights, messages, seen, acked>>

Revoke(c) ==
  /\ Write(c, "revoke")
  /\ LET op == req[c].op IN
     IF RevokeAllowed(op)
     THEN /\ conns' = [conns EXCEPT ![op.whom].status = "revoked"]
          /\ rights' = [i \in Inbox |-> [rights[i] EXCEPT ![op.whom] = {}]]
     ELSE UNCHANGED <<conns, rights>>
  /\ Reply(c)
  /\ UNCHANGED <<inboxes, messages, seen, acked>>

\* The creator of an inbox of the home may be granted it in the same batch.
CreateInbox(c) ==
  /\ Write(c, "create")
  /\ LET op == req[c].op IN
     IF /\ IF op.own THEN ConnGuard(op.by) ELSE AdminGuard(op.by)
        /\ inboxes[op.inbox] = "none"
     THEN /\ inboxes' = [inboxes EXCEPT ![op.inbox] = IF op.own THEN op.by ELSE "home"]
          /\ \E granted \in BOOLEAN :
               rights' = IF op.own \/ granted THEN [rights EXCEPT ![op.inbox][op.by] = Store!Cap] ELSE rights
     ELSE UNCHANGED <<inboxes, rights>>
  /\ Reply(c)
  /\ UNCHANGED <<conns, messages, seen, acked>>

\* All of the capabilities, or one.
Grant(c) ==
  /\ Write(c, "grant")
  /\ LET op == req[c].op IN
     IF GrantAllowed(op)
     THEN \E caps \in {Store!Cap, {"read"}} : rights' = [rights EXCEPT ![op.inbox][op.whom] = caps]
     ELSE UNCHANGED rights
  /\ Reply(c)
  /\ UNCHANGED <<conns, inboxes, messages, seen, acked>>

RevokeGrant(c) ==
  /\ Write(c, "ungrant")
  /\ LET op == req[c].op IN
     rights' = IF AdminGuard(op.by) THEN [rights EXCEPT ![op.inbox][op.whom] = {}] ELSE rights
  /\ Reply(c)
  /\ UNCHANGED <<conns, inboxes, messages, seen, acked>>

\* Mutant: the grant is looked at before the write only.
AckUnguarded(c) ==
  /\ Write(c, "ack")
  /\ LET d == <<req[c].op.message, req[c].op.inbox>> IN
     IF Store!Delivered(d[1], d[2])
     THEN seen' = seen \cup {d} /\ acked' = acked \cup {d}
     ELSE UNCHANGED <<seen, acked>>
  /\ Reply(c)
  /\ UNCHANGED <<conns, inboxes, rights, messages>>

\* What is not read is stamped read with the acknowledgement.
Ack(c) ==
  /\ Write(c, "ack")
  /\ LET op == req[c].op
         d == <<op.message, op.inbox>> IN
     IF Store!Delivered(op.message, op.inbox) /\ GrantGuard(op.by, op.inbox, "ack")
     THEN seen' = seen \cup {d} /\ acked' = acked \cup {d}
     ELSE UNCHANGED <<seen, acked>>
  /\ Reply(c)
  /\ UNCHANGED <<conns, inboxes, rights, messages>>

-----------------------------------------------------------------------------
(* send *)

AsSent(op) == [by |-> op.by, from |-> op.from, to |-> op.to, body |-> op.body]

\* A replay is the same in every respect.
IsReplay(op) == messages[op.message] = AsSent(op)

AnswerReplay(c) ==
  /\ sent' = IF IsReplay(req[c].op) THEN sent \cup {req[c].op} ELSE sent
  /\ Reply(c)

\* What is stored under the id decides before anything is written.
LookForReplay(c) ==
  /\ At(c, "replay")
  /\ IF messages[req[c].op.message] = Store!NoMessage
     THEN Goto(c, "insert") /\ UNCHANGED sent
     ELSE AnswerReplay(c)
  /\ UNCHANGED tables

\* The message and its deliveries in one batch, which a taken id or a trigger
\* fails as a whole.
InsertMessage(c) ==
  /\ At(c, "insert")
  /\ LET op == req[c].op IN
     IF messages[op.message] = Store!NoMessage /\ SendAllowed(op)
     THEN /\ messages' = [messages EXCEPT ![op.message] = AsSent(op)]
          /\ sent' = sent \cup {op}
          /\ Reply(c)
     ELSE Goto(c, "why") /\ UNCHANGED <<messages, sent>>
  /\ UNCHANGED <<conns, inboxes, rights, seen, acked>>

\* Authority first, then a replay may have won the race.
Classify(c) ==
  /\ At(c, "why")
  /\ IF SendAllowed(req[c].op) THEN AnswerReplay(c) ELSE Reply(c) /\ UNCHANGED sent
  /\ UNCHANGED tables

-----------------------------------------------------------------------------
(* readInbox *)

\* A body that cannot be had is returned without being stamped.
Fetch(c) ==
  /\ At(c, "fetch")
  /\ LET i == req[c].op.inbox
         unread == {m \in Message : Store!Delivered(m, i) /\ <<m, i>> \notin seen} IN
     \E ms \in SUBSET unread :
       Become(c, [stage |-> IF ms = {} THEN "last look" ELSE "stamp", op |-> req[c].op, marked |-> ms])
  /\ UNCHANGED <<tables, sent>>

Stamp(c) ==
  /\ At(c, "stamp")
  /\ LET op == req[c].op IN
     seen' = IF GrantGuard(op.by, op.inbox, "read")
             THEN seen \cup (req[c].marked \X {op.inbox}) ELSE seen
  /\ Goto(c, "last look")
  /\ UNCHANGED <<conns, inboxes, rights, messages, acked, sent>>

\* The bodies leave only after the authority was checked once more.
LastLook(c) == At(c, "last look") /\ Reply(c) /\ UNCHANGED <<tables, sent>>

Die(c) == ~At(c, "idle") /\ Reply(c) /\ UNCHANGED <<tables, sent>>

Next == \E c \in Client :
  \/ Begin(c) \/ BeginEnsure(c) \/ Check(c)
  \/ FindHome(c) \/ CreateHome(c) \/ Attach(c) \/ Again(c)
  \/ SetRole(c) \/ Revoke(c) \/ CreateInbox(c) \/ Grant(c) \/ RevokeGrant(c) \/ Ack(c)
  \/ LookForReplay(c) \/ InsertMessage(c) \/ Classify(c)
  \/ Fetch(c) \/ Stamp(c) \/ LastLook(c) \/ Die(c)
Spec == Init /\ [][Next]_vars

-----------------------------------------------------------------------------
(* Properties *)

\* Every write of the D1 store is one that the in-memory store could make in a
\* single step: no authority that was lost after it was checked is acted on.
ImplementsHomeStore == [][tables' # tables => Store!Next]_tables

\* A home that has connections has an admin, whatever roles are given and
\* whoever is revoked at the same time: the last one is protected in the write.
SomebodyAdministers ==
  (\E a \in Conn : conns[a].status # "none") => ActiveAdmins # {}

\* A revoked connection holds no grant: not one given to it while it was being
\* revoked, nor one of an inbox it was making.
RevokedHoldsNothing ==
  \A a \in Conn, i \in Inbox : conns[a].status = "revoked" => rights[i][a] = {}

\* A send answered with success, the first time or as a replay, is the one that
\* is stored: the same sender, inboxes and body.
SentIsStored == \A op \in sent : messages[op.message] = AsSent(op)

\* What roles, grants, revocations and sends racing each other leave true.
HomeKept ==
  /\ SomebodyAdministers
  /\ RevokedHoldsNothing
  /\ SentIsStored
=============================================================================
