---------------------------- MODULE MCBookingSite ----------------------------
EXTENDS BookingSite, TLC

MCKind == {"holds", "verify"}
MCMax == [k \in MCKind |-> 2]
MCDateOf(s) == IF s = "s1" THEN "d1" ELSE "d2"
\* One customer changes the date, the other posts the slot of the day shown.
MCPicks(c) == IF c = "ann" THEN 2 ELSE 0

\* The posts under way are alike.
Posts == Permutations(Post)
=============================================================================
