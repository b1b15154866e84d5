------------------------------ MODULE HomeStore ------------------------------
(***************************************************************************)
(* What a store of private homes promises, as the in-memory store has it:   *)
(* each operation on the home of one account, with every check it makes,    *)
(* happens at once.                                                         *)
(***************************************************************************)
EXTENDS Naturals, FiniteSets

CONSTANTS
  Conn,      \* connections of the account, each with a principal of its own
  Inbox,     \* ids of inboxes
  Message,   \* ids of messages
  Body       \* their bodies

VARIABLES
  conns,     \* connections: their status and role
  inboxes,   \* inboxes: not made, of the home, or of one connection
  rights,    \* what each connection may do with each inbox: its live grant
  messages,  \* messages, with the inboxes each was delivered to
  seen,      \* deliveries read
  acked      \* deliveries acknowledged

vars == <<conns, inboxes, rights, messages, seen, acked>>

Cap == {"read", "send", "ack"}
NoConn == [status |-> "none", role |-> "member"]
NoMessage == [by |-> "none"]

Init == /\ conns = [a \in Conn |-> NoConn]
        /\ inboxes = [i \in Inbox |-> "none"]
        /\ rights = [i \in Inbox |-> [a \in Conn |-> {}]]
        /\ messages = [m \in Message |-> NoMessage]
        /\ seen = {} /\ acked = {}

-----------------------------------------------------------------------------
Active(a) == conns[a].status = "active"
Admins == {a \in Conn : Active(a) /\ conns[a].role = "admin"}

\* An inbox of a connection is reached by nobody else.
Can(a, i, cap) == /\ Active(a)
                  /\ inboxes[i] \in {"home", a}
                  /\ cap \in rights[i][a]

Delivered(m, i) == messages[m] # NoMessage /\ i \in messages[m].to

\* The first connection is an admin, as is one that asks for it while there
\* is none.
EnsureDefaultHome(a) ==
  /\ conns[a] = NoConn
  /\ \E wants \in BOOLEAN :
       LET first == \A b \in Conn : conns[b] = NoConn
           role == IF first \/ (wants /\ Admins = {}) THEN "admin" ELSE "member"
       IN conns' = [conns EXCEPT ![a] = [status |-> "active", role |-> role]]
  /\ UNCHANGED <<inboxes, rights, messages, seen, acked>>

SetConnectionRole(a, b, role) ==
  /\ a \in Admins /\ Active(b)
  /\ ~(role = "member" /\ Admins = {b})
  /\ conns' = [conns EXCEPT ![b].role = role]
  /\ UNCHANGED <<inboxes, rights, messages, seen, acked>>

\* Whoever is revoked loses every grant.
RevokeConnection(a, b) ==
  /\ Active(a) /\ (a = b \/ a \in Admins)
  /\ Active(b)
  /\ conns' = [conns EXCEPT ![b].status = "revoked"]
  /\ rights' = [i \in Inbox |-> [rights[i] EXCEPT ![b] = {}]]
  /\ UNCHANGED <<inboxes, messages, seen, acked>>

CreateInbox(a, i, own, granted) ==
  /\ Active(a) /\ (own \/ a \in Admins)
  /\ inboxes[i] = "none"
  /\ inboxes' = [inboxes EXCEPT ![i] = IF own THEN a ELSE "home"]
  /\ rights' = IF own \/ granted THEN [rights EXCEPT ![i][a] = Cap] ELSE rights
  /\ UNCHANGED <<conns, messages, seen, acked>>

GrantInbox(a, i, b, caps) ==
  /\ a \in Admins /\ Active(b) /\ inboxes[i] = "home"
  /\ rights' = [rights EXCEPT ![i][b] = caps]
  /\ UNCHANGED <<conns, inboxes, messages, seen, acked>>

RevokeGrant(a, i, b) ==
  /\ a \in Admins /\ inboxes[i] = "home"
  /\ rights' = [rights EXCEPT ![i][b] = {}]
  /\ UNCHANGED <<conns, inboxes, messages, seen, acked>>

Send(a, m, from, to, body) ==
  /\ \A i \in to \cup {from} : Can(a, i, "send")
  /\ messages[m] = NoMessage
  /\ messages' = [messages EXCEPT ![m] = [by |-> a, from |-> from, to |-> to, body |-> body]]
  /\ UNCHANGED <<conns, inboxes, rights, seen, acked>>

ReadInbox(a, i, ms) ==
  /\ Can(a, i, "read")
  /\ \A m \in ms : Delivered(m, i)
  /\ seen' = seen \cup (ms \X {i})
  /\ UNCHANGED <<conns, inboxes, rights, messages, acked>>

Ack(a, i, m) ==
  /\ Can(a, i, "ack")
  /\ Delivered(m, i)
  /\ seen' = seen \cup {<<m, i>>}
  /\ acked' = acked \cup {<<m, i>>}
  /\ UNCHANGED <<conns, inboxes, rights, messages>>

Next == \E a \in Conn :
  \/ EnsureDefaultHome(a)
  \/ \E b \in Conn : RevokeConnection(a, b)
  \/ \E b \in Conn, role \in {"admin", "member"} : SetConnectionRole(a, b, role)
  \/ \E i \in Inbox :
       \/ \E own, granted \in BOOLEAN : CreateInbox(a, i, own, granted)
       \/ \E b \in Conn : RevokeGrant(a, i, b) \/ \E caps \in SUBSET Cap : GrantInbox(a, i, b, caps)
       \/ \E m \in Message, to \in SUBSET Inbox, body \in Body : Send(a, m, i, to, body)
       \/ \E ms \in SUBSET Message : ReadInbox(a, i, ms)
       \/ \E m \in Message : Ack(a, i, m)
Spec == Init /\ [][Next]_vars
=============================================================================
