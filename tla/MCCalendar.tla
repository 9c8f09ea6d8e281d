----------------------------- MODULE MCCalendar -----------------------------
(* Small instances of Calendar for TLC. *)
EXTENDS Calendar, TLC

CONSTANTS r1, p1, p2, nine, ten
=============================================================================
