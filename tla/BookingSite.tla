------------------------------ MODULE BookingSite ------------------------------
(***************************************************************************)
(* Booking from the public pages: a customer picks a slot, the web server  *)
(* (POST /public/[tenantSlug]/book) asks the API for a hold and then for   *)
(* the verification mail, and shows what came of it.  Its Idempotency-Keys *)
(* are made of what is asked for and of the minute, so that a form posted  *)
(* twice is one booking; the older page [tenantSlug]/book uses a key of    *)
(* its own for every request and locks its button instead.                 *)
(*                                                                         *)
(* The API's side is kept to one step per request: a slot has one          *)
(* salesperson and, as a hold that lapsed is taken over, one booking row.  *)
(* Module Bookings has its interleavings.                                  *)
(***************************************************************************)
EXTENDS RateLimit, SlotPicker

CONSTANTS
  Post,         \* bound: requests under way together
  ClientPage,   \* the customers who use the older page
  BUCKET,       \* bucketSeconds
  HOLD_TTL,     \* holdTtlMinutes
  LAG,          \* how long a request to the web server may take
  LastPick,     \* bound: nobody changes the date after this time
  MaxFaults     \* bound on calls of the API that fail or whose answer is lost

ASSUME SiteOK ==
  /\ Kind = {"holds", "verify"}
  /\ BUCKET \in Nat \ {0} /\ LAG \in Nat /\ LastPick \in Nat /\ MaxFaults \in Nat
  /\ HOLD_TTL \in Nat /\ 2 * BUCKET + LAG < HOLD_TTL
  /\ ClientPage \subseteq Customer

VARIABLES
  booking,   \* booking[s]: the booking and hold of slot s
  seen,      \* keys of verify-email in idempotency_keys
  mails,     \* verification mails that left the API
  asked,     \* history: the mails that were to be sent, of the verifications it recorded
  post,      \* what the web server (or the older page) is doing
  page,      \* what each customer is shown, and the post whose answer that will be
  faults

tables == <<booking, seen, mails, asked>>
site == <<post, page>>
vars == <<limits, picker, tables, site, faults>>

Bucket == now \div BUCKET

\* Idempotency keys; None is a key no other request has.
HoldKeys == [who : Customer, slot : Slot, at : Nat]
VerifyKeys == [id : Slot, who : Customer, at : Nat]
HoldKey(c, s) == IF c \in ClientPage THEN None ELSE [who |-> c, slot |-> s, at |-> Bucket]
NoBucket(c, s) == IF c \in ClientPage THEN None ELSE [id |-> s, who |-> c, at |-> 0]    \* mutant
VerifyKey(c, s) == IF c \in ClientPage THEN None ELSE [id |-> s, who |-> c, at |-> Bucket]

Booking == [status : {"none", "hold", "pending_verify", "confirmed"}, customer : Customer \cup {None},
            key : HoldKeys \cup {None}, until : Nat]
Mail == [slot : Slot, to : Customer, exp : Nat]
Outcome == {"form", "verification_sent", "invalid_input", "slot_unavailable", "expired",
            "unknown", "request_failed"}
PostState == [pc : {"idle", "hold", "held", "verify"}, who : Customer \cup {None}, slot : Slot \cup {None},
              key : HoldKeys \cup VerifyKeys \cup {None}, since : Nat, until : Nat]
Page == [shows : Outcome, about : Mail \cup {None}, awaits : Post \cup {None}]
Idle == [pc |-> "idle", who |-> None, slot |-> None, key |-> None, since |-> 0, until |-> 0]

Init ==
  /\ InitLimits /\ InitPicker
  /\ booking = [s \in Slot |-> [status |-> "none", customer |-> None, key |-> None, until |-> 0]]
  /\ seen = {} /\ mails = {} /\ asked = {}
  /\ post = [q \in Post |-> Idle]
  /\ page = [c \in Customer |-> [shows |-> "form", about |-> None, awaits |-> None]]
  /\ faults = 0

Held(s) == booking[s].status \in {"hold", "pending_verify"} /\ booking[s].until > now
Fail == faults < MaxFaults /\ faults' = faults + 1                         \* bound

\* post q ends with outcome o: a redirect to the form, with the date kept, seen
\* only by a customer who has not posted again; the older page stays as it is.
End(q, o) ==
  LET c == post[q].who IN
  /\ post' = [post EXCEPT ![q] = Idle]
  /\ IF page[c].awaits # q THEN UNCHANGED <<page, picker>>
     ELSE /\ page' = [page EXCEPT ![c] =
               [shows |-> o, awaits |-> None,
                about |-> IF o = "verification_sent"
                            THEN [slot |-> post[q].slot, to |-> c, exp |-> post[q].until] ELSE None]]
          /\ IF c \in ClientPage THEN UNCHANGED picker
             ELSE \E p \in Loaded(picker[c].date) : Change(c, p)

-----------------------------------------------------------------------------
(* The form                                                                *)

\* The form may be posted again before the answer; the older page locks its
\* button meanwhile, and is left once the mail has been sent.
Submit(c, q) ==
  /\ post[q].pc = "idle"
  /\ c \in ClientPage => /\ page[c].awaits = None /\ page[c].shows # "verification_sent"
                         /\ picker[c].selected # None
  /\ LET s == picker[c].selected IN
     \/ /\ s = None
        /\ page' = [page EXCEPT ![c] = [shows |-> "invalid_input", about |-> None, awaits |-> None]]
        /\ \E p \in Loaded(picker[c].date) : Change(c, p)
        /\ UNCHANGED post
     \/ /\ s # None
        /\ post' = [post EXCEPT ![q] = [Idle EXCEPT !.pc = "hold", !.who = c, !.slot = s,
                                                    !.key = HoldKey(c, s), !.since = now]]
        /\ page' = [page EXCEPT ![c].awaits = q]
        /\ UNCHANGED picker
  /\ UNCHANGED <<limits, tables, faults>>

-----------------------------------------------------------------------------
(* POST /holds                                                             *)

Known(s, k) == k # None /\ booking[s].key = k
LongHeld(c, s, k) == [status |-> "hold", customer |-> c, key |-> k, until |-> now + HOLD_TTL + 1]   \* mutant
Took(c, s, k) == [status |-> "hold", customer |-> c, key |-> k, until |-> now + HOLD_TTL]

\* A repeated key is answered with its booking; else the slot is taken unless
\* it is held or confirmed.
Hold(q) ==
  LET r == post[q]  s == r.slot
      free == ~Held(s) /\ booking[s].status # "confirmed"
      took == [booking EXCEPT ![s] = Took(r.who, s, r.key)]
      got(b) == post' = [post EXCEPT ![q].pc = "held", ![q].until = b.until]
                /\ UNCHANGED <<page, picker, faults>>
  IN
  /\ r.pc = "hold"
  /\ Check("holds")
  /\ \/ ~Admits("holds") /\ End(q, "unknown") /\ UNCHANGED <<booking, faults>>
     \/ Admits("holds") /\ Known(s, r.key) /\ got(booking[s]) /\ UNCHANGED booking
     \/ Admits("holds") /\ ~Known(s, r.key) /\ free /\ booking' = took /\ got(took[s])
     \/ Admits("holds") /\ ~Known(s, r.key) /\ ~free /\ End(q, "slot_unavailable") /\ UNCHANGED <<booking, faults>>
     \/ /\ Admits("holds") /\ Fail /\ End(q, "request_failed")
        /\ booking' = IF free /\ ~Known(s, r.key) THEN took ELSE booking
     \/ Admits("holds") /\ Fail /\ End(q, "request_failed") /\ UNCHANGED booking
  /\ UNCHANGED <<now, seen, mails, asked>>

\* The answer has come and the next key is made.
MakeKey(q) ==
  /\ post[q].pc = "held"
  /\ post' = [post EXCEPT ![q].pc = "verify", ![q].key = VerifyKey(post[q].who, post[q].slot)]
  /\ UNCHANGED <<limits, picker, tables, page, faults>>

-----------------------------------------------------------------------------
(* POST /auth/verify-email                                                 *)

\* The mail to the customer the row has by then.
MailOf(s) == [slot |-> s, to |-> booking[s].customer, exp |-> booking[s].until]

\* The key is recorded; then the mail is started and not waited for.  There is none
\* without Graph, a Microsoft 365 tenant or a link, if the mail server refuses it, or
\* if the process ends here.
Recorded(q) ==
  LET s == post[q].slot IN
  /\ seen' = IF post[q].key = None THEN seen ELSE seen \cup {post[q].key}
  /\ asked' = asked \cup {MailOf(s)}
  /\ mails' \in {mails, mails \cup {MailOf(s)}}

\* A key seen before is answered as the first time, without a mail.
Verify(q) ==
  LET r == post[q]  s == r.slot
      pending == booking' = [booking EXCEPT ![s].status = "pending_verify"]
  IN
  /\ r.pc = "verify"
  /\ Check("verify")
  /\ \/ ~Admits("verify") /\ End(q, "unknown") /\ UNCHANGED <<tables, faults>>
     \/ Admits("verify") /\ ~Held(s) /\ End(q, "slot_unavailable") /\ UNCHANGED <<tables, faults>>
     \/ /\ Admits("verify") /\ Held(s) /\ r.key \in seen
        /\ End(q, "verification_sent") /\ UNCHANGED <<tables, faults>>
     \/ /\ Admits("verify") /\ Held(s) /\ r.key \notin seen /\ pending /\ Recorded(q)
        /\ End(q, "verification_sent") /\ UNCHANGED faults
     \/ /\ Admits("verify") /\ Fail /\ End(q, "request_failed")
        /\ \/ /\ Held(s) /\ r.key \notin seen /\ pending
              /\ Recorded(q) \/ UNCHANGED <<seen, mails, asked>>
           \/ UNCHANGED tables
  /\ UNCHANGED now

\* The link in a mail; what it opens shows its own page.  (Confirmations have
\* a bucket of their own, in which nothing else is counted: it is left out.)
Confirm(m) ==
  /\ m.exp > now /\ Held(m.slot) /\ booking[m.slot].status = "pending_verify"
  /\ booking' = [booking EXCEPT ![m.slot].status = "confirmed"]
  /\ UNCHANGED <<limits, picker, seen, mails, asked, site, faults>>

-----------------------------------------------------------------------------
\* No request to the web server takes longer than LAG.
Tick ==
  /\ \A q \in Post : post[q].pc # "idle" => now < post[q].since + LAG
  /\ PassTime
  /\ UNCHANGED <<picker, tables, site, faults>>

Pick(c) ==
  /\ \/ now <= LastPick /\ \E d \in Date : PickDate(c, d)                    \* bound
     \/ \E f \in picker[c].fetches : Answer(c, f)
     \/ \E s \in Slot : Select(c, s)
  /\ UNCHANGED <<limits, tables, site, faults>>

Next ==
  \/ Tick
  \/ \E c \in Customer : Pick(c) \/ \E q \in Post : Submit(c, q)
  \/ \E q \in Post : Hold(q) \/ MakeKey(q) \/ Verify(q)
  \/ \E m \in mails : Confirm(m)

Spec == Init /\ [][Next]_vars

-----------------------------------------------------------------------------
\* The state has its types, and a hold lapses at most HOLD_TTL from now.
TypeOK ==
  /\ now \in 1 .. MaxTime /\ picker \in [Customer -> Picker]
  /\ booking \in [Slot -> Booking] /\ \A s \in Slot : booking[s].until <= now + HOLD_TTL
  /\ seen \subseteq VerifyKeys /\ asked \subseteq Mail /\ mails \subseteq asked
  /\ post \in [Post -> PostState] /\ page \in [Customer -> Page]
  /\ \A k \in Kind : bucket[k].count \in 0 .. Max[k] + 1 /\ bucket[k].reset <= now + WINDOW
  /\ faults \in 0 .. MaxFaults

\* A customer who reads that the verification mail was sent has had a verification
\* recorded for the hold this very answer is about: keys seen before, forms posted
\* twice, limits, lost answers and holds taken over never show the "sent" of another
\* customer's hold, or of an earlier one.
SentMeansTakenUp ==
  \A c \in Customer : page[c].shows = "verification_sent" => page[c].about \in asked
=============================================================================
