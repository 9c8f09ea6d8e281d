-------------------------- MODULE BookingLifecycle --------------------------
(***************************************************************************)
(* What the booking component promises of each booking, one atomic step    *)
(* per change: the states it goes through, and that a slot promised to a   *)
(* request until some time stays with it until then.  Nothing is promised  *)
(* any more of a booking that two requests have contested.                 *)
(***************************************************************************)
EXTENDS Naturals

CONSTANTS
  Row,
  Holder,     \* the requests that ask for a hold
  None

VARIABLES
  now,
  status,     \* [Row -> the status of the booking]
  holder,     \* [Row -> the request it is held or booked for]
  until       \* [Row -> end of the hold; 0 when the booking is not open]

vars == <<now, status, holder, until>>

Open == {"hold", "pending_verify"}
Promised(r) == status[r] \in Open /\ until[r] > now

Init ==
  /\ now = 1
  /\ status = [r \in Row |-> "none"]
  /\ holder = [r \in Row |-> None]
  /\ until = [r \in Row |-> 0]

Becomes(r, st, h, t) == status'[r] = st /\ holder'[r] = h /\ until'[r] = t

\* A booking is held for a request, unless another has it.
Hold(r, h) ==
  /\ status[r] \notin {"confirmed", "contested"} /\ ~Promised(r)
  /\ until'[r] >= now
  /\ Becomes(r, "hold", h, until'[r])

AskToVerify(r) == status[r] \in Open /\ Becomes(r, "pending_verify", holder[r], until[r])

Confirm(r) == status[r] \in Open /\ Becomes(r, "confirmed", holder[r], 0)

\* By the customer, or by the salesperson deleting the calendar event.
Cancel(r) ==
  /\ status[r] \notin {"none", "contested"}
  /\ Becomes(r, "canceled", holder[r], 0)

\* Only a lapsed hold expires.
Expire(r) == status[r] \in Open /\ ~Promised(r) /\ Becomes(r, "expired", holder[r], 0)

Contest(r) == Becomes(r, "contested", None, 0)

Stay(r) == Becomes(r, status[r], holder[r], until[r])

Move(r) ==
  \/ \E h \in Holder : Hold(r, h)
  \/ AskToVerify(r) \/ Confirm(r) \/ Cancel(r) \/ Expire(r) \/ Contest(r)

\* The cron may settle several bookings at once; the clock moves alone.
Next ==
  \/ now' = now /\ \A r \in Row : Move(r) \/ Stay(r)
  \/ now' = now + 1 /\ \A r \in Row : Stay(r)

Spec == Init /\ [][Next]_vars
=============================================================================
