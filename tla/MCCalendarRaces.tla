----------------------------- MODULE MCCalendarRaces -----------------------------
(* A small instance of CalendarRaces for TLC. *)
EXTENDS CalendarRaces, TLC

CONSTANTS r1, p1, p2, nine, ten, noon

Symmetry == Permutations(Slot) \cup Permutations(Proc)
=============================================================================
