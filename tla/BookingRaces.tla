---------------------------- MODULE BookingRaces ----------------------------
(***************************************************************************)
(* Bookings with a history variable: the bookings that two requests have   *)
(* raced on, and those a cancel's Idempotency-Key was used for again after *)
(* they had passed to somebody else.  The tests that a handler makes       *)
(* before it writes by id are enough for every other booking, and what is  *)
(* said here of bookings holds whatever races there were.                  *)
(***************************************************************************)
EXTENDS Bookings

VARIABLE raced     \* history: a set of bookings; nothing in Bookings reads it

\* The steps that rest on what the request read of a booking in an earlier one.
Relies == {"holdCommit", "verifyWrite", "expireWrite", "confirmCommit", "byIdCommit", "dropHold",
           "sweepMark", "sweepDelete"}
At(p, r) == req[p].pc \in Relies /\ (req[p].row = r \/ r \in req[p].rows)

\* Somebody else changes the status or the hold of r while p is about to take such a step.
Disturbed(r) ==
  \E p \in Proc :
    /\ At(p, r) /\ req'[p] = req[p]
    /\ booking'[r].status # booking[r].status \/ hold'[r] # hold[r]

\* A cancel that was answered before is sent again and finds r not canceled.
CanceledAgain(r) ==
  \E p \in Proc :
    /\ Begin(p) /\ req'[p].pc = "dropHold" /\ req'[p].row = r
    /\ booking[r].status # "canceled"

RInit == Init /\ raced = {}

RNext ==
  /\ Next
  /\ raced' = raced \cup {r \in Row : Disturbed(r) \/ CanceledAgain(r)}

rvars == <<vars, raced>>
RSpec == RInit /\ [][RNext]_rvars
RFairSpec == RSpec /\ Fairness

-----------------------------------------------------------------------------
(* Properties.                                                             *)

\* Only a race, or a cancel sent again, takes the hold row from a booking that
\* is held or waits for verification: the cron's find and delete, the handlers'
\* deletes and takeovers leave every other such booking with it.
OpenLosesHoldOnlyByRace ==
  \A r \in Row : booking[r].status \in Open => hold[r] # NoHold \/ r \in raced

\* Every open booking is sooner or later confirmed, canceled, or expired by the
\* cron, which finds it by its hold row - or a race has taken that row.
EventuallySettled ==
  \A r \in Row : booking[r].status \in Open ~> booking[r].status \notin Open \/ hold[r] = NoHold

\* Confirm-by-id tests created_at + 15 min and never the hold.  All the same a
\* confirm token that would be accepted now belongs to a hold that lasts until
\* HoldTTL - ConfirmWindow from now at least, or else to one deleted in a race.
ConfirmTokenWithinHold ==
  \A r \in Row : ConfirmTokenUsable(r) =>
    \/ hold[r] + ConfirmWindow >= now + HoldTTL
    \/ hold[r] = NoHold /\ r \in raced

\* A mailed token that would still be accepted outlives the hold of its booking, whoever
\* took that over since, by the wait for a lock at most, unless the hold was deleted in a race.
VerifyTokenWithinHold ==
  \A t \in tokens :
    booking[t.row].status = "pending_verify" /\ booking[t.row].jti =>
      \/ t.exp <= hold[t.row] + 1
      \/ hold[t.row] = NoHold /\ t.row \in raced

\* Every booking goes through the states of BookingLifecycle and its hold stays
\* promised, until two requests race on it.
Lifecycle == INSTANCE BookingLifecycle WITH
  status <- [r \in Row |-> IF r \in raced THEN "contested" ELSE booking[r].status],
  holder <- [r \in Row |-> IF r \in raced THEN None ELSE booking[r].key],
  Holder <- HoldKey,
  until <- [r \in Row |-> IF r \notin raced /\ booking[r].status \in Open THEN hold[r] ELSE 0]
KeepsPromises == Lifecycle!Spec
=============================================================================
