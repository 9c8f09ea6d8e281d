--------------------------- MODULE CalendarRaces ---------------------------
(***************************************************************************)
(* Calendar with a history variable: the bookings that two requests have   *)
(* raced on.  No request tests again what it read of a booking before it   *)
(* calls Graph or the mail sender, so what is said here of calendar, mail  *)
(* and flags is said of all other bookings, whatever the salesperson, the  *)
(* webhook job, Graph and the requests at other bookings do meanwhile.     *)
(***************************************************************************)
EXTENDS Calendar

VARIABLE raced     \* history: a set of bookings; nothing in Calendar reads it

\* Another request takes a step at r, or makes it a new hold, while p is at it.
Raced(r) ==
  \E p \in Proc :
    /\ req[p].row = r /\ req'[p] = req[p]
    /\ \/ \E q \in Proc \ {p} : req'[q] # req[q] /\ r \in {req[q].row, req'[q].row}
       \/ booking[r].status # "open" /\ booking'[r].status = "open"

RInit == Init /\ raced = {}

RNext ==
  /\ Next
  /\ raced' = raced \cup {r \in Row : Raced(r)}

rvars == <<vars, raced>>
RSpec == RInit /\ [][RNext]_rvars

-----------------------------------------------------------------------------
(* Properties.                                                             *)

\* Whatever the salesperson moved and whatever calls failed, once nothing is in flight
\* the event of a confirmed booking is at the time the booking says, or the booking is
\* flagged for a new invitation.
AgreeWhenQuiet ==
  Quiet => \A r \in attached \ (missed \cup halted \cup raced) :
             booking[r].status = "confirmed" /\ InCalendar(r)
               => event[r] = booking[r].start \/ booking[r].reinvite

\* A canceled booking leaves no event behind unless a call to Graph failed or its request
\* broke off, although the event is created, stored, moved and deleted by different
\* requests, and the row booked again in between.
CanceledLeavesNoEvent ==
  Quiet => \A r \in Row \ (failed \cup missed \cup halted \cup raced) :
             booking[r].status = "canceled" => ~InCalendar(r)

\* Whoever has a confirmed booking got the mail about it or the booking is flagged, unless
\* an error in between was only logged or the request broke off: also the customer who
\* took over the row of one who had been told.
ToldOrFlagged ==
  Quiet => \A r \in Row \ (halted \cup unposted \cup raced) :
             booking[r].status = "confirmed" => r \in told \/ booking[r].notify
=============================================================================
