------------------------------ MODULE SlotPicker ------------------------------
(***************************************************************************)
(* PublicBookingEnhancer: the part of the booking form in which a customer *)
(* picks a date and one of its slots.  Each new date starts a fetch of the *)
(* slots and aborts the one before it; answers come in any order, those of *)
(* aborted fetches included.  React runs the effect of a new date before   *)
(* it lets the next click in, so both are one step.                        *)
(***************************************************************************)
EXTENDS Naturals, FiniteSets

CONSTANTS
  Customer,
  Date,
  Slot,
  DateOf(_),    \* the date (in Japan) a slot is on
  Picks(_),     \* bound: how often a customer changes the date of one page
  None

ASSUME SlotsOK == \A s \in Slot : DateOf(s) \in Date

VARIABLE picker   \* the component's state, refs and fetches under way

Fetch == [id : Nat, date : Date, aborted : BOOLEAN]
Picker == [date : Date, slots : SUBSET Slot, selected : Slot \cup {None}, seq : Nat,
           loading : BOOLEAN, error : BOOLEAN, fetches : SUBSET Fetch]

SlotsOn(d) == {s \in Slot : DateOf(s) = d}

\* The page as the server renders it, with the slots of date d or an error.
Loaded(d) ==
  {[date |-> d, slots |-> S, selected |-> None, seq |-> 0,
    loading |-> FALSE, error |-> S # SlotsOn(d), fetches |-> {}] : S \in {SlotsOn(d), {}}}

InitPicker == picker \in [Customer -> UNION {Loaded(d) : d \in Date}]

\* requestId is the latest, and the fetch has not been aborted.
AnyFetch(c, f) == f \in picker[c].fetches                                  \* mutant
Current(c, f) == ~f.aborted /\ f.id = picker[c].seq

Change(c, p) == picker' = [picker EXCEPT ![c] = p]

PickDate(c, d) ==
  LET p == picker[c]
      id == p.seq + 1
      old == {[f EXCEPT !.aborted = TRUE] : f \in p.fetches}
  IN
  /\ d # p.date
  /\ p.seq < Picks(c)                                                      \* bound
  /\ Change(c, [p EXCEPT !.date = d, !.seq = id, !.loading = TRUE, !.error = FALSE, !.selected = None,
                         !.fetches = old \cup {[id |-> id, date |-> d, aborted |-> FALSE]}])

\* The slots, or an error, arrive; they are used only if the fetch is current.
Answer(c, f) ==
  LET rest == [picker[c] EXCEPT !.fetches = @ \ {f}] IN
  /\ f \in picker[c].fetches
  /\ \/ Current(c, f) /\ Change(c, [rest EXCEPT !.slots = SlotsOn(f.date), !.loading = FALSE])
     \/ Current(c, f) /\ Change(c, [rest EXCEPT !.slots = {}, !.loading = FALSE, !.error = TRUE])
     \/ ~Current(c, f) /\ Change(c, rest)

\* Slots are shown only when nothing is loading and no error is.
Select(c, s) ==
  /\ ~picker[c].loading /\ ~picker[c].error
  /\ s \in picker[c].slots
  /\ Change(c, [picker[c] EXCEPT !.selected = s])

\* The customer sees and posts slots of the date the form holds, in whatever
\* order the answers to earlier dates come in.
SlotsOfTheDate ==
  \A c \in Customer : LET p == picker[c] IN
    /\ ~p.loading => p.slots \subseteq SlotsOn(p.date)
    /\ p.selected # None => DateOf(p.selected) = p.date /\ p.selected \in p.slots
=============================================================================
