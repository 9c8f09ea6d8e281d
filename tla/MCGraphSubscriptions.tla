------------------------- MODULE MCGraphSubscriptions -------------------------
EXTENDS GraphSubscriptions

\* Every change is to the one event of the first person.
MCOf(c) == "ann"
MCEvent(c) == "visit"
=============================================================================
