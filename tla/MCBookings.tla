----------------------------- MODULE MCBookings -----------------------------
(* Small instances of Bookings for TLC: one salesperson, at most two slots, *)
(* which overlap (9:00-10:00 and 9:30-10:30).                               *)
EXTENDS Bookings, TLC

CONSTANTS r1, r2, p1, p2, c1, c2, h1, h2, h3, k1, alice, nine, halfPast

MCOwner == [s \in Slot |-> alice]
MCOverlap == Slot \X Slot
MCDeadline == [s \in Slot |-> 2]

\* Identities are only compared, so they may be permuted; so may the slots, which
\* are alike in Owner, Overlap and Deadline.
Symmetry ==
  Permutations(Row) \cup Permutations(Proc) \cup Permutations(Customer) \cup Permutations(HoldKey)
    \cup Permutations(Slot)
=============================================================================
