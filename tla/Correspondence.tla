--------------------------- MODULE Correspondence ---------------------------
(***************************************************************************)
(* Correspondence and the worker session above it.  A send looks for rows   *)
(* of its message id, makes a stone and inserts one delivery per recipient  *)
(* in one batch that leaves existing rows alone; a handoff then mirrors the *)
(* message to a repository.  A worker picks a delivered task request from   *)
(* its inbox, reads it, delegates it and sends the result under a message   *)
(* id made from the request's.  Message ids are not shared between senders. *)
(***************************************************************************)
EXTENDS Naturals, Sequences, FiniteSets

CONSTANTS
  Client,      \* concurrent requests: sends, handoffs and worker ticks
  Text,        \* contents of a request
  Handoff,     \* those of a handoff, which is mirrored and is no task request
  Recipients,  \* the sets of recipients a request may name
  MaxStone,    \* bound: stones made
  MaxTick      \* bound: worker ticks, when the next one starts

Worker == "worker"
Requester == "requester"
Outcome == {"ok", "failed"}
Message == {"request", "result", "note"}
Recipient == (UNION Recipients) \cup {Worker, Requester}

VARIABLES
  stones,      \* the message stones, in the order they were made
  delivery,    \* correspondence_deliveries: the row of a message to a recipient
  mirror,      \* the file of a request in each recipient's GitHub inbox: a stone, or 0
  acked,       \* history: the stones' contents whose send was answered ok
  raced,       \* history: messages whose batch met rows of another send
  calls,       \* history: delegations of the request
  again,       \* history: ticks that read the request when it was read already
  mail         \* the request each client is working on

vars == <<stones, delivery, mirror, acked, raced, calls, again, mail>>

-----------------------------------------------------------------------------
\* The fingerprint is that of the contract and the content.
Contract(m, text, to) == [message |-> m, text |-> text, to |-> to]
NoRow == [stone |-> 0, status |-> "none"]
Rows(m) == {r \in Recipient : delivery[<<m, r>>] # NoRow}
Exists(m, r) == delivery[<<m, r>>] # NoRow
StonesOf(m) == {delivery[<<m, r>>].stone : r \in Rows(m)}

Idle == [stage |-> "idle"]

Init == /\ stones = <<>>
        /\ delivery = [k \in Message \X Recipient |-> NoRow]
        /\ mirror = [r \in Recipient |-> 0]
        /\ acked = {} /\ raced = {}
        /\ calls = 0 /\ again = 0
        /\ mail = [c \in Client |-> Idle]

Become(c, r) == mail' = [mail EXCEPT ![c] = r]
Reply(c) == Become(c, Idle)
At(c, stage) == mail[c].stage = stage

-----------------------------------------------------------------------------
(* sendMessage *)

\* Mutant: a replay only compares the content.
ReplaysText(p) ==
  /\ Cardinality(StonesOf(p.message)) = 1
  /\ \A s \in StonesOf(p.message) : stones[s].text = p.text

Replays(p) ==
  /\ Cardinality(StonesOf(p.message)) = 1
  /\ \A s \in StonesOf(p.message) : stones[s] = p
  /\ Rows(p.message) = p.to

\* What a send goes on to once it is answered: nothing, or the mirror.
After(c, p, s) ==
  IF p.text \in Handoff /\ p.message = "request"
  THEN Become(c, [stage |-> "mirror", stone |-> s, left |-> p.to])
  ELSE Reply(c)

Look(c) ==
  /\ At(c, "look")
  /\ LET p == mail[c].print IN
     IF Rows(p.message) = {}
     THEN Become(c, [stage |-> "stone", print |-> p]) /\ UNCHANGED acked
     ELSE IF Replays(p)
     THEN /\ acked' = acked \cup {p}
          /\ \E s \in StonesOf(p.message) : After(c, p, s)
     ELSE Reply(c) /\ UNCHANGED acked
  /\ UNCHANGED <<stones, delivery, mirror, raced, calls, again>>

BeginSend(c) ==
  /\ At(c, "idle")
  /\ \E text \in Text, to \in Recipients :
       Become(c, [stage |-> "look", print |-> Contract("request", text, to)])
  /\ UNCHANGED <<stones, delivery, mirror, acked, raced, calls, again>>

BeginNote(c) ==
  /\ At(c, "idle")
  /\ \E text \in Text :
       Become(c, [stage |-> "look", print |-> Contract("note", text, {Requester})])
  /\ UNCHANGED <<stones, delivery, mirror, acked, raced, calls, again>>

\* A stone's hash covers the time of its making: each is a new one, or the
\* insertion fails.
MakeStone(c) ==
  /\ At(c, "stone")
  /\ \/ /\ Len(stones) < MaxStone
        /\ stones' = Append(stones, mail[c].print)
        /\ Become(c, [stage |-> "deliver", print |-> mail[c].print, stone |-> Len(stones) + 1])
     \/ Reply(c) /\ UNCHANGED stones
  /\ UNCHANGED <<delivery, mirror, acked, raced, calls, again>>

\* One batch; a row that exists is left as it is, and the answer is ok.
Deliver(c) ==
  /\ At(c, "deliver")
  /\ LET p == mail[c].print IN
     /\ delivery' = [k \in DOMAIN delivery |->
          IF k[1] = p.message /\ k[2] \in p.to /\ delivery[k] = NoRow
          THEN [stone |-> mail[c].stone, status |-> "delivered"] ELSE delivery[k]]
     /\ raced' = IF Rows(p.message) = {} THEN raced ELSE raced \cup {p.message}
     /\ acked' = acked \cup {p}
     /\ After(c, p, mail[c].stone)
  /\ UNCHANGED <<stones, mirror, calls, again>>

-----------------------------------------------------------------------------
(* dispatchHandoff: the mirror in a repository, one recipient after another *)

MirrorNext(c, r) ==
  IF mail[c].left = {r} THEN Reply(c)
  ELSE Become(c, [stage |-> "mirror", stone |-> mail[c].stone, left |-> mail[c].left \ {r}])

\* GET of the file: it is there (a replay or a conflict), it is not, or the
\* lookup fails.
MirrorLookup(c) ==
  /\ At(c, "mirror")
  /\ \E r \in mail[c].left :
       \/ MirrorNext(c, r)
       \/ /\ mirror[r] = 0
          /\ Become(c, [stage |-> "put", stone |-> mail[c].stone, left |-> mail[c].left, to |-> r])
  /\ UNCHANGED <<stones, delivery, mirror, acked, raced, calls, again>>

\* PUT without the sha of an existing file: it creates the file or fails.
MirrorPut(c) ==
  /\ At(c, "put")
  /\ \/ mirror[mail[c].to] = 0 /\ mirror' = [mirror EXCEPT ![mail[c].to] = mail[c].stone]
     \/ UNCHANGED mirror
  /\ MirrorNext(c, mail[c].to)
  /\ UNCHANGED <<stones, delivery, acked, raced, calls, again>>

-----------------------------------------------------------------------------
(* readMessage and runTaskRequest *)

MarkRead(r) == IF r.status = "delivered" THEN [r EXCEPT !.status = "read"] ELSE r

ReadMessage ==
  \E k \in DOMAIN delivery :
    /\ delivery[k] # NoRow
    /\ delivery' = [delivery EXCEPT ![k] = MarkRead(@)]
    /\ UNCHANGED <<stones, mirror, acked, raced, calls, again, mail>>

IsTask(m) == Exists(m, Worker) /\ stones[delivery[<<m, Worker>>].stone].text \notin Handoff

\* By name, or the one the inbox lists as delivered.
PickTask(c) ==
  /\ At(c, "idle")
  /\ calls + again < MaxTick
  /\ Exists("request", Worker)
  /\ \E named \in BOOLEAN :
       /\ named \/ (IsTask("request") /\ delivery[<<"request", Worker>>].status = "delivered")
       /\ Become(c, [stage |-> "read"])
  /\ UNCHANGED <<stones, delivery, mirror, acked, raced, calls, again>>

\* The request is marked as read before anything is done about it: before its
\* intent, when it was named, its content and its chain are looked at.
ReadTask(c) ==
  /\ At(c, "read")
  /\ delivery' = [delivery EXCEPT ![<<"request", Worker>>] = MarkRead(@)]
  /\ again' = IF delivery[<<"request", Worker>>].status = "read" THEN again + 1 ELSE again
  /\ Reply(c) \/ (IsTask("request") /\ Become(c, [stage |-> "delegate"]))
  /\ UNCHANGED <<stones, mirror, acked, raced, calls>>

Delegate(c) ==
  /\ At(c, "delegate")
  /\ calls' = calls + 1
  /\ \E o \in Outcome : Become(c, [stage |-> "look", print |-> Contract("result", o, {Requester})])
  /\ UNCHANGED <<stones, delivery, mirror, acked, raced, again>>

-----------------------------------------------------------------------------
Die(c) ==
  /\ ~At(c, "idle")
  /\ Reply(c)
  /\ UNCHANGED <<stones, delivery, mirror, acked, raced, calls, again>>

Next == ReadMessage \/ \E c \in Client :
          \/ BeginSend(c) \/ BeginNote(c) \/ Look(c) \/ MakeStone(c) \/ Deliver(c)
          \/ MirrorLookup(c) \/ MirrorPut(c)
          \/ PickTask(c) \/ ReadTask(c) \/ Delegate(c) \/ Die(c)
Spec == Init /\ [][Next]_vars

-----------------------------------------------------------------------------
(* Properties *)

\* Every recipient of a send that was answered ok has a delivery of its
\* message, whichever of the concurrent sends it came from.
AcknowledgedDelivered ==
  \A p \in acked : \A r \in p.to : Exists(p.message, r)

\* The deliveries of a message are of one stone and go to exactly that stone's
\* recipients, unless two sends of it raced past the look-up.
OneStoneUnlessRaced ==
  \A m \in Message \ raced : \A s \in StonesOf(m) :
    StonesOf(m) = {s} /\ Rows(m) = stones[s].to

\* A file in a repository mirrors the stone its recipient was delivered, unless
\* two sends raced.
MirrorsDelivery ==
  "request" \notin raced =>
    \A r \in Recipient : mirror[r] # 0 => delivery[<<"request", r>>].stone = mirror[r]

\* What was delivered, and that it was read, is never taken back by a retry.
DeliveredStays ==
  [][\A k \in DOMAIN delivery : delivery[k] # NoRow =>
       /\ delivery'[k].stone = delivery[k].stone
       /\ delivery[k].status = "read" => delivery'[k].status = "read"]_vars

\* The task is delegated once, but for the ticks that took the request up when
\* it was read already: those that name it, or raced past the inbox.
DelegatedOnce == calls <= again + 1

\* Stones, deliveries, mirrors and delegations agree, whichever sends and
\* ticks race, die and are retried.
MailKept ==
  /\ [](AcknowledgedDelivered /\ OneStoneUnlessRaced /\ MirrorsDelivery /\ DelegatedOnce)
  /\ DeliveredStays
=============================================================================
