--------------------------- MODULE MCAvailability ---------------------------
(* Two salespersons of one time zone, and a day whose business hours hold   *)
(* one slot; a customer may also ask for a time that ends after them.       *)
EXTENDS Availability, TLC

CONSTANTS ann, bob, p1, p2

MCStaff == <<ann, bob>>
MCIntervals == {<<1, 2>>, <<1, 3>>}
MCOffset == [s \in Scope |-> 0]
MCAsked == {Union}

Symmetry == Permutations(Proc)
=============================================================================
