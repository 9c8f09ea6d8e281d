--------------------------- MODULE MCWebhookJobs ---------------------------
(* Small instances of WebhookJobs for TLC. *)
EXTENDS WebhookJobs, TLC

CONSTANTS j1, j2, w1, w2

Symmetry == Permutations(Job) \cup Permutations(Worker)
=============================================================================
