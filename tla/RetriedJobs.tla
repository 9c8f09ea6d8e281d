----------------------------- MODULE RetriedJobs -----------------------------
(***************************************************************************)
(* What a table of jobs with retries promises, whoever works on it: a job  *)
(* is run by one worker at a time, a run that fails is counted, MAX failed *)
(* runs give the job up, and a job is done only if a run had its effect.   *)
(* A run may also never end: its worker has died.                          *)
(***************************************************************************)
EXTENDS Naturals

CONSTANTS Job, MAX_ATTEMPTS

VARIABLES state, tries, effect

vars == <<state, tries, effect>>

Init ==
  /\ state = [j \in Job |-> "waiting"]
  /\ tries = [j \in Job |-> 0]
  /\ effect = {}

Run(j) ==
  /\ state[j] = "waiting"
  /\ state' = [state EXCEPT ![j] = "running"]
  /\ UNCHANGED <<tries, effect>>

\* A run may have its effect before it succeeds, or before it fails.
Act(j) ==
  /\ state[j] = "running"
  /\ effect' = effect \cup {j}
  /\ UNCHANGED <<state, tries>>

Succeed(j) ==
  /\ state[j] = "running" /\ j \in effect
  /\ state' = [state EXCEPT ![j] = "done"]
  /\ UNCHANGED <<tries, effect>>

Fail(j) ==
  /\ state[j] = "running"
  /\ tries' = [tries EXCEPT ![j] = @ + 1]
  /\ state' = [state EXCEPT ![j] = IF tries[j] + 1 = MAX_ATTEMPTS THEN "failed" ELSE "waiting"]
  /\ UNCHANGED effect

Next == \E j \in Job : Run(j) \/ Act(j) \/ Succeed(j) \/ Fail(j)

Spec == Init /\ [][Next]_vars
=============================================================================
