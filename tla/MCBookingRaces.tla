--------------------------- MODULE MCBookingRaces ---------------------------
(* A small instance of BookingRaces for TLC: one booking, two requests.     *)
EXTENDS BookingRaces, TLC

CONSTANTS r1, p1, p2, c1, h1, h2, k1, alice, nine

MCOwner == [s \in Slot |-> alice]
MCOverlap == Slot \X Slot
MCDeadline == [s \in Slot |-> 2]

Symmetry == Permutations(Proc) \cup Permutations(HoldKey)
=============================================================================
