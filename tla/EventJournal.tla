---------------------------- MODULE EventJournal ----------------------------
(***************************************************************************)
(* The event journal: an event takes its time before it is inserted, and    *)
(* readers page backwards over (occurred_at, event_id) with a cursor, each  *)
(* round from the newest event the round before has seen.                   *)
(***************************************************************************)
EXTENDS Naturals, FiniteSets

CONSTANTS
  Event,     \* event ids, numbered in their order
  Limit,     \* events of a page
  MaxTime    \* bound: the clock

VARIABLES
  clock,     \* the time now
  taken,     \* the time each event has taken, before or after its insertion; 0 for none
  journal,   \* event_journal: the ids inserted
  reader,    \* since, the round's pages so far and what they have shown
  late,      \* history: events inserted with a time the reader had passed
  seen       \* history: the events shown in finished rounds

vars == <<clock, taken, journal, reader, late, seen>>

-----------------------------------------------------------------------------
Resting == [at |-> "rest", since |-> 0, shown |-> {}, again |-> FALSE]

Init == /\ clock = 1
        /\ taken = [e \in Event |-> 0]
        /\ journal = {}
        /\ reader = Resting
        /\ late = {}
        /\ seen = {}

\* Newest first.
After(e, f) == taken[e] > taken[f] \/ (taken[e] = taken[f] /\ e > f)
Newest(s) == CHOOSE e \in s : \A f \in s \ {e} : After(e, f)
Oldest(s) == CHOOSE e \in s : \A f \in s \ {e} : After(f, e)

-----------------------------------------------------------------------------
Tick == clock < MaxTime /\ clock' = clock + 1
        /\ UNCHANGED <<taken, journal, reader, late, seen>>

\* Now, or a time the caller gives.
TakeTime(e) ==
  /\ taken[e] = 0
  /\ \E t \in 1..clock : taken' = [taken EXCEPT ![e] = t]
  /\ UNCHANGED <<clock, journal, reader, late, seen>>

Bound == IF reader.shown = {} THEN reader.since ELSE taken[Newest(reader.shown)]

Insert(e) ==
  /\ taken[e] # 0 /\ e \notin journal
  /\ journal' = journal \cup {e}
  /\ late' = IF taken[e] <= Bound THEN late \cup {e} ELSE late
  /\ UNCHANGED <<clock, taken, reader, seen>>

-----------------------------------------------------------------------------
\* Mutant: the cursor is a time only, and its events are left out.
PagedByTime == {e \in journal : taken[e] > reader.since /\
                  (reader.shown # {} => taken[e] < taken[Oldest(reader.shown)])}

\* What a page may show: after since, and behind the cursor.
Paged == {e \in journal : taken[e] > reader.since /\
           (reader.shown # {} => After(Oldest(reader.shown), e))}

Page(s) == {e \in s : Cardinality({f \in s : f # e /\ After(f, e)}) < Limit}

\* A full page has a next cursor, the one after it may be empty.
List ==
  /\ LET page == Page(Paged)
         shown == reader.shown \cup page IN
     IF Cardinality(page) = Limit
     THEN /\ reader' = [reader EXCEPT !.at = "page", !.shown = shown,
                          !.again = @ \/ page \cap reader.shown # {}]
          /\ UNCHANGED seen
     ELSE /\ seen' = seen \cup shown
          /\ reader' = [reader EXCEPT !.at = "rest", !.shown = {},
                          !.again = @ \/ page \cap reader.shown # {},
                          !.since = IF shown = {} THEN @ ELSE taken[Newest(shown)]]
  /\ UNCHANGED <<clock, taken, journal, late>>

Next == Tick \/ List \/ \E e \in Event : TakeTime(e) \/ Insert(e)
Spec == Init /\ [][Next]_vars

-----------------------------------------------------------------------------
(* Properties *)

\* A reader that goes on from the newest event it saw misses only those that
\* were inserted with a time it had passed already.
MissedWereLate ==
  reader.at = "rest" =>
    \A e \in journal \ late : taken[e] <= reader.since => e \in seen

\* No event is shown on two pages of one round, whatever is inserted meanwhile.
NoneTwice == ~reader.again

\* Readers that page while events are inserted see each event once.
PagesKept ==
  /\ MissedWereLate
  /\ NoneTwice
=============================================================================
