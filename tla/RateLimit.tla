------------------------------ MODULE RateLimit ------------------------------
(***************************************************************************)
(* createPublicRateLimiter: a count per kind of write and per client, over *)
(* a window that begins with the first request after the last one ended.   *)
(* The client is the address the API sees.  The web server's proxy routes  *)
(* call the API without x-forwarded-for, so that all customers of the site *)
(* share one bucket for each kind; that bucket is the one modelled.        *)
(***************************************************************************)
EXTENDS Naturals, FiniteSets

CONSTANTS
  Kind,     \* the kinds of write that are limited
  Max,      \* Max[k]: holdsMax, verifyMax, confirmMax
  WINDOW,   \* windowMs
  MaxTime   \* bound on the clock

ASSUME LimitsOK == Max \in [Kind -> Nat \ {0}] /\ WINDOW \in Nat \ {0} /\ MaxTime \in Nat \ {0}

VARIABLES
  now,      \* the clock, from 1
  bucket,   \* the Map; a bucket that was never made is one that has ended
  passed    \* history: the requests let through in the last WINDOW

limits == <<now, bucket, passed>>

InitLimits ==
  /\ now = 1
  /\ bucket = [k \in Kind |-> [count |-> 0, reset |-> 0]]
  /\ passed = [k \in Kind |-> {}]

Over(k) == bucket[k].reset <= now
\* A count above the limit is as good as any other.
Saturated(k, n) == IF n > Max[k] THEN Max[k] + 1 ELSE n

OneOver(k) == Over(k) \/ bucket[k].count <= Max[k]                         \* mutant
Admits(k) == Over(k) \/ bucket[k].count < Max[k]

\* A request let through is known by its time and its place among those of that time.
JustNow(k) == {x \in passed[k] : x.at = now}
NextPass(k) == [at |-> now, nth |-> Cardinality(JustNow(k)) + 1]

\* check(): the request is counted, let through or not.
Check(k) ==
  /\ bucket' = [bucket EXCEPT ![k] =
       IF Over(k) THEN [count |-> 1, reset |-> now + WINDOW]
                  ELSE [bucket[k] EXCEPT !.count = Saturated(k, @ + 1)]]
  /\ passed' = IF Admits(k) THEN [passed EXCEPT ![k] = @ \cup {NextPass(k)}] ELSE passed

PassTime ==
  /\ now < MaxTime                                                         \* bound
  /\ now' = now + 1
  /\ passed' = [k \in Kind |-> {x \in passed[k] : x.at + WINDOW > now'}]
  /\ UNCHANGED bucket

\* Those that the current bucket let through, as it began WINDOW before its reset.
OfBucket(k) == {x \in passed[k] : x.at + WINDOW >= bucket[k].reset}

\* Whatever the order of requests and resets, and however refused requests are
\* counted, a stretch of time as long as the window, beginning anywhere, lets
\* through at most two windows' worth, and one bucket's worth per bucket.
WindowLimit ==
  \A k \in Kind : Cardinality(passed[k]) <= 2 * Max[k] /\ Cardinality(OfBucket(k)) <= Max[k]
=============================================================================
