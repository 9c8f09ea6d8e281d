------------------------- MODULE MCCompensationJobs -------------------------
(* A small instance of CompensationJobs for TLC. *)
EXTENDS CompensationJobs

CONSTANTS w1, w2
=============================================================================
