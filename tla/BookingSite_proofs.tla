-------------------------- MODULE BookingSite_proofs --------------------------
(***************************************************************************)
(* The picker shows the slots of the date it holds, and a customer who     *)
(* reads "verification sent" has had that very hold taken up: for any      *)
(* number of customers, slots and requests, and for any limits.            *)
(*                                                                         *)
(* The second is about time.  A key is made of a minute; a hold outlives   *)
(* the minute in which it was asked for, the time a request may take and   *)
(* one minute more (2 * BUCKET + LAG < HOLD_TTL), so that no key made for  *)
(* one hold of a slot is ever made again for the next one.                 *)
(*                                                                         *)
(* So is the third: the limiter lets at most two windows' worth of         *)
(* requests through in any window, as the passes it remembers are of the   *)
(* bucket that is open or of the one before it.                            *)
(***************************************************************************)
EXTENDS BookingSite, FiniteSetTheorems, TLAPS

\* Two times in one bucket are less than a bucket apart.
LEMMA SameBucket ==
  ASSUME NEW s \in Nat, NEW t \in Nat, s \div BUCKET = t \div BUCKET
  PROVE  t < s + BUCKET
  BY SiteOK

LEMMA BucketNat == ASSUME NEW t \in Nat PROVE t \div BUCKET \in Nat
  BY SiteOK

-----------------------------------------------------------------------------
(* The picker.                                                             *)

\* Only the last fetch is current, and the picker is loading until it is answered.
PickerOK(p) ==
  /\ \A f \in p.fetches : ~f.aborted /\ f.id = p.seq => f.date = p.date /\ p.loading
  /\ \A f, g \in p.fetches : ~f.aborted /\ f.id = p.seq /\ ~g.aborted /\ g.id = p.seq => f = g
  /\ p.loading => p.selected = None
  /\ ~p.loading => p.slots \subseteq SlotsOn(p.date)
  /\ p.selected # None => DateOf(p.selected) = p.date /\ p.selected \in p.slots

PickersOK == \A c \in Customer : picker[c] \in Picker /\ PickerOK(picker[c])
PickerType == picker \in [Customer -> Picker]

LEMMA LoadedOK == ASSUME NEW d \in Date, NEW p \in Loaded(d) PROVE p \in Picker /\ PickerOK(p) /\ p.date = d
<1>1. PICK S \in {SlotsOn(d), {}} :
        p = [date |-> d, slots |-> S, selected |-> None, seq |-> 0,
             loading |-> FALSE, error |-> S # SlotsOn(d), fetches |-> {}]
  BY DEF Loaded
<1>2. S \subseteq SlotsOn(d) /\ SlotsOn(d) \subseteq Slot
  BY DEF SlotsOn
<1>3. p.date = d /\ p.slots = S /\ p.selected = None /\ p.loading = FALSE /\ p.fetches = {}
  BY <1>1
<1>4. p \in Picker
  BY <1>1, <1>2, Zenon DEF Picker, Fetch
<1> QED
  BY <1>2, <1>3, <1>4 DEF PickerOK

\* One picker changes.
LEMMA OneChanges ==
  ASSUME PickerType, PickersOK, NEW c \in Customer, NEW p \in Picker, PickerOK(p), Change(c, p)
  PROVE  PickerType' /\ PickersOK'
<1>1. picker' \in [Customer -> Picker] /\ picker'[c] = p /\ \A e \in Customer \ {c} : picker'[e] = picker[e]
  BY DEF Change, PickerType
<1> QED
  BY <1>1 DEF PickersOK, PickerType, PickerOK

LEMMA InitPickers == ASSUME InitPicker PROVE PickerType /\ PickersOK
<1>1. \A c \in Customer : \E d \in Date : picker[c] \in Loaded(d)
  BY DEF InitPicker
<1>2. \A c \in Customer : picker[c] \in Picker /\ PickerOK(picker[c])
  BY <1>1, LoadedOK
<1>3. picker \in [Customer -> Picker]
  BY <1>2, Zenon DEF InitPicker
<1> QED
  BY <1>2, <1>3 DEF PickerType, PickersOK

LEMMA PickDateOK ==
  ASSUME PickerType, PickersOK, NEW c \in Customer, NEW d \in Date, PickDate(c, d)
  PROVE  PickerType' /\ PickersOK'
<1> DEFINE p == picker[c]
           id == p.seq + 1
           old == {[f EXCEPT !.aborted = TRUE] : f \in p.fetches}
           new == [id |-> id, date |-> d, aborted |-> FALSE]
           q == [p EXCEPT !.date = d, !.seq = id, !.loading = TRUE, !.error = FALSE, !.selected = None,
                          !.fetches = old \cup {new}]
<1>1. Change(c, q)
  BY DEF PickDate
<1>2. p \in Picker
  BY DEF PickerType
<1>3. p.seq \in Nat /\ p.fetches \subseteq Fetch /\ p.slots \subseteq Slot
  BY <1>2 DEF Picker
<1>4. id \in Nat
  BY <1>3
<1>5. new \in Fetch /\ new.id = id /\ new.date = d /\ new.aborted = FALSE
  BY <1>4 DEF Fetch
<1>6. \A f \in old : f \in Fetch /\ f.aborted = TRUE
  BY <1>3 DEF Fetch
<1> HIDE DEF id, new, old
<1>7. /\ q \in Picker /\ q.date = d /\ q.seq = id /\ q.loading = TRUE /\ q.selected = None
      /\ q.fetches = old \cup {new}
  BY <1>2, <1>4, <1>5, <1>6 DEF Picker
<1> HIDE DEF q
<1>8. PickerOK(q)
  BY <1>5, <1>6, <1>7 DEF PickerOK
<1> QED
  BY <1>1, <1>7, <1>8, OneChanges

LEMMA AnswerOK ==
  ASSUME PickerType, PickersOK, NEW c \in Customer, NEW f \in picker[c].fetches, Answer(c, f)
  PROVE  PickerType' /\ PickersOK'
<1> DEFINE p == picker[c]
           rest == [p EXCEPT !.fetches = @ \ {f}]
           slots == [rest EXCEPT !.slots = SlotsOn(f.date), !.loading = FALSE]
           error == [rest EXCEPT !.slots = {}, !.loading = FALSE, !.error = TRUE]
<1>1. p \in Picker /\ PickerOK(p)
  BY DEF PickersOK
<1>2. /\ rest \in Picker /\ rest.date = p.date /\ rest.slots = p.slots /\ rest.selected = p.selected
      /\ rest.seq = p.seq /\ rest.loading = p.loading /\ rest.fetches = p.fetches \ {f}
  BY <1>1 DEF Picker
<1>3. SlotsOn(f.date) \subseteq Slot
  BY DEF SlotsOn
<1> HIDE DEF rest
<1>4. /\ slots \in Picker /\ slots.date = rest.date /\ slots.slots = SlotsOn(f.date) /\ slots.seq = rest.seq
      /\ slots.selected = rest.selected /\ slots.loading = FALSE /\ slots.fetches = rest.fetches
  BY <1>2, <1>3 DEF Picker
<1>5. /\ error \in Picker /\ error.date = rest.date /\ error.slots = {} /\ error.seq = rest.seq
      /\ error.selected = rest.selected /\ error.loading = FALSE /\ error.fetches = rest.fetches
  BY <1>2 DEF Picker
<1>6. \/ Current(c, f) /\ Change(c, slots)
      \/ Current(c, f) /\ Change(c, error)
      \/ ~Current(c, f) /\ Change(c, rest)
  BY DEF Answer, rest
<1>7. Current(c, f) <=> ~f.aborted /\ f.id = p.seq
  BY DEF Current
<1> HIDE DEF slots, error, p
<1>8. PickerOK(rest)
  BY <1>1, <1>2 DEF PickerOK
<1>9. ASSUME Current(c, f) PROVE PickerOK(slots) /\ PickerOK(error)
  <2>1. f \in p.fetches /\ ~f.aborted /\ f.id = p.seq /\ f.date = p.date /\ p.loading /\ p.selected = None
    BY <1>1, <1>7, <1>9 DEF PickerOK, p
  <2>2. \A g \in rest.fetches : ~(~g.aborted /\ g.id = p.seq)
    BY <1>1, <1>2, <2>1 DEF PickerOK
  <2> QED
    BY <1>2, <1>4, <1>5, <2>1, <2>2 DEF PickerOK
<1> QED
  BY <1>2, <1>4, <1>5, <1>6, <1>8, <1>9, OneChanges

LEMMA SelectOK ==
  ASSUME PickerType, PickersOK, NEW c \in Customer, NEW s \in Slot, Select(c, s)
  PROVE  PickerType' /\ PickersOK'
<1> DEFINE p == picker[c]
           q == [p EXCEPT !.selected = s]
<1>1. p \in Picker /\ PickerOK(p) /\ ~p.loading /\ s \in p.slots /\ Change(c, q)
  BY DEF PickersOK, Select
<1>2. /\ q \in Picker /\ q.date = p.date /\ q.slots = p.slots /\ q.selected = s /\ q.seq = p.seq
      /\ q.loading = p.loading /\ q.fetches = p.fetches
  BY <1>1 DEF Picker
<1> HIDE DEF p, q
<1>3. DateOf(s) = p.date
  BY <1>1 DEF PickerOK, SlotsOn
<1>4. PickerOK(q)
  BY <1>1, <1>2, <1>3 DEF PickerOK
<1> QED
  BY <1>1, <1>2, <1>4, OneChanges

LEMMA EndPicker ==
  ASSUME PickerType, PickersOK, NEW q \in Post, post[q].who \in Customer, NEW o, End(q, o)
  PROVE  PickerType' /\ PickersOK'
<1> DEFINE c == post[q].who
<1>1. CASE UNCHANGED picker
  BY <1>1 DEF PickerType, PickersOK, PickerOK
<1>2. CASE \E p \in Loaded(picker[c].date) : Change(c, p)
  <2>1. picker[c].date \in Date
    BY DEF PickerType, Picker
  <2> QED
    BY <1>2, <2>1, LoadedOK, OneChanges
<1> QED
  BY <1>1, <1>2 DEF End

-----------------------------------------------------------------------------
(* The tables and the requests.                                            *)

\* The row of slot s: a key stands for a booking that outlives the minute in
\* which it was asked for.
RowOK(s) ==
  LET b == booking[s] IN
  /\ b.until <= now + HOLD_TTL
  /\ b.status = "none" => b.until = 0
  /\ b.key # None =>
       /\ b.status # "none"
       /\ \E i \in Nat : /\ b.key = [who |-> b.customer, slot |-> s, at |-> i]
                         /\ \A t \in Nat : t \div BUCKET = i => t + BUCKET + LAG < b.until

\* What the web server has of the API while request r is under way.
PostOK(r) ==
  /\ r.pc # "idle" => r.who \in Customer /\ r.slot \in Slot /\ r.since <= now /\ now <= r.since + LAG
  /\ r.pc = "hold" /\ r.key # None => r.key = [who |-> r.who, slot |-> r.slot, at |-> r.since \div BUCKET]
  /\ r.pc \in {"held", "verify"} =>
       /\ r.since + LAG + BUCKET < r.until /\ r.until <= now + HOLD_TTL
       /\ booking[r.slot].status # "none"
       /\ booking[r.slot].customer = r.who /\ booking[r.slot].until = r.until
  /\ r.pc = "verify" /\ r.key # None =>
       \E t \in Nat : /\ r.key = [id |-> r.slot, who |-> r.who, at |-> t \div BUCKET]
                      /\ r.since <= t /\ t <= now /\ r.until <= t + HOLD_TTL

\* A key that was seen stands for a verification of the customer, whose hold outlived
\* the key's minute and is the slot's last one, or was over when that began.
SeenOK(k) ==
  \E m \in asked : /\ m.slot = k.id /\ m.to = k.who
                   /\ \A t \in Nat : t \div BUCKET = k.at => t < m.exp
                   /\ booking[m.slot].until = m.exp \/ m.exp + HOLD_TTL <= booking[m.slot].until

Types ==
  /\ now \in Nat /\ booking \in [Slot -> Booking] /\ post \in [Post -> PostState]
  /\ page \in [Customer -> Page] /\ seen \subseteq VerifyKeys /\ asked \subseteq Mail /\ mails \subseteq asked

RowsOK == \A s \in Slot : RowOK(s)
PostsOK == \A q \in Post : PostOK(post[q])
AllSeenOK == None \notin seen /\ \A k \in seen : SeenOK(k)

IInv == Types /\ PickerType /\ PickersOK /\ RowsOK /\ PostsOK /\ AllSeenOK /\ SentMeansTakenUp

\* A step that takes no slot.
RowsStay ==
  /\ booking' \in [Slot -> Booking]
  /\ \A s \in Slot : /\ booking'[s].until = booking[s].until /\ booking'[s].customer = booking[s].customer
                     /\ booking'[s].key = booking[s].key
                     /\ booking'[s].status = "none" <=> booking[s].status = "none"

LEMMA RowsKept ==
  ASSUME Types, RowsOK, RowsStay, now' \in Nat, now <= now'
  PROVE  RowsOK'
<1> SUFFICES ASSUME NEW s \in Slot PROVE RowOK(s)'
  BY DEF RowsOK
<1>1. RowOK(s) /\ booking[s].until \in Nat /\ now \in Nat /\ HOLD_TTL \in Nat
  BY SiteOK DEF RowsOK, Types, Booking
<1>2. /\ booking'[s].until = booking[s].until /\ booking'[s].customer = booking[s].customer
      /\ booking'[s].key = booking[s].key /\ (booking'[s].status = "none" <=> booking[s].status = "none")
  BY DEF RowsStay
<1>3. booking'[s].until <= now' + HOLD_TTL
  BY <1>1, <1>2 DEF RowOK
<1> QED
  BY <1>1, <1>2, <1>3 DEF RowOK

\* What a request knows stays true as long as its slot is not taken and it is
\* in time.
LEMMA PostKept ==
  ASSUME Types, NEW r \in PostState, PostOK(r), now' \in Nat, now <= now',
         r.pc # "idle" => now' <= r.since + LAG,
         r.pc \in {"held", "verify"} =>
           /\ booking'[r.slot].status # "none"
           /\ booking'[r.slot].customer = r.who /\ booking'[r.slot].until = r.until
  PROVE  PostOK(r)'
<1>1. now \in Nat /\ r.since \in Nat /\ r.until \in Nat /\ HOLD_TTL \in Nat /\ LAG \in Nat
  BY SiteOK DEF Types, PostState
<1>2. r.pc # "idle" => r.since <= now'
  BY <1>1 DEF PostOK
<1>3. r.pc \in {"held", "verify"} => r.since + LAG + BUCKET < r.until /\ r.until <= now' + HOLD_TTL
  BY <1>1 DEF PostOK
<1>4. ASSUME r.pc = "verify", r.key # None
      PROVE  \E t \in Nat : /\ r.key = [id |-> r.slot, who |-> r.who, at |-> t \div BUCKET]
                            /\ r.since <= t /\ t <= now' /\ r.until <= t + HOLD_TTL
  BY <1>1, <1>4 DEF PostOK
<1> QED
  BY <1>2, <1>3, <1>4 DEF PostOK

LEMMA SeenKept ==
  ASSUME Types, RowsStay, AllSeenOK, asked \subseteq asked', seen' = seen
  PROVE  AllSeenOK'
<1> SUFFICES ASSUME NEW k \in seen PROVE SeenOK(k)'
  BY DEF AllSeenOK
<1>1. PICK m \in asked : /\ m.slot = k.id /\ m.to = k.who
                         /\ \A t \in Nat : t \div BUCKET = k.at => t < m.exp
                         /\ booking[m.slot].until = m.exp \/ m.exp + HOLD_TTL <= booking[m.slot].until
  BY DEF AllSeenOK, SeenOK
<1>2. m.slot \in Slot /\ m \in asked'
  BY DEF Types, Mail
<1>3. booking'[m.slot].until = booking[m.slot].until
  BY <1>2 DEF RowsStay
<1> QED
  BY <1>1, <1>2, <1>3 DEF SeenOK

\* One request goes on to r.
LEMMA PostsGoOn ==
  ASSUME post \in [Post -> PostState], NEW q \in Post, NEW r \in PostState, post' = [post EXCEPT ![q] = r],
         PostOK(r)', \A p \in Post \ {q} : \A e \in PostState : e = post[p] => PostOK(e)'
  PROVE  post' \in [Post -> PostState] /\ PostsOK'
<1>1. post' \in [Post -> PostState] /\ post'[q] = r /\ \A p \in Post \ {q} : post'[p] = post[p]
  OBVIOUS
<1>2. ASSUME NEW p \in Post PROVE PostOK(post[p])'
  <2>1. PICK e \in PostState : e = post'[p]
    BY <1>1
  <2>2. PostOK(e)'
    BY <1>1, <2>1
  <2> QED
    BY <2>1, <2>2 DEF PostOK
<1> QED
  BY <1>1, <1>2 DEF PostsOK

\* The requests that a step leaves alone, if it takes no slot and no time passes.
LEMMA OthersKept ==
  ASSUME Types, PostsOK, RowsStay, UNCHANGED now, NEW S \in SUBSET Post
  PROVE  \A p \in S : \A e \in PostState : e = post[p] => PostOK(e)'
<1> SUFFICES ASSUME NEW p \in S, NEW e \in PostState, e = post[p] PROVE PostOK(e)'
  OBVIOUS
<1>1. PostOK(e) /\ now \in Nat
  BY DEF PostsOK, Types
<1>2. e.pc \in {"held", "verify"} =>
        /\ booking'[e.slot].status # "none"
        /\ booking'[e.slot].customer = e.who /\ booking'[e.slot].until = e.until
  BY <1>1 DEF PostOK, RowsStay
<1> QED
  BY <1>1, <1>2, PostKept DEF PostOK

\* The end of a request, seen or not.
LEMMA EndOK ==
  ASSUME Types, NEW q \in Post, post[q].who \in Customer, post[q].slot \in Slot, NEW o \in Outcome, End(q, o),
         SentMeansTakenUp, asked \subseteq asked',
         o = "verification_sent" =>
           [slot |-> post[q].slot, to |-> post[q].who, exp |-> post[q].until] \in asked'
  PROVE  page' \in [Customer -> Page] /\ SentMeansTakenUp'
<1> DEFINE c == post[q].who
           mail == [slot |-> post[q].slot, to |-> c, exp |-> post[q].until]
           shown == [shows |-> o, awaits |-> None, about |-> IF o = "verification_sent" THEN mail ELSE None]
<1>1. CASE UNCHANGED page
  BY <1>1 DEF Types, SentMeansTakenUp
<1>2. CASE page' = [page EXCEPT ![c] = shown]
  <2>1. mail \in Mail
    BY DEF Types, PostState, Mail
  <2> HIDE DEF mail
  <2>2. shown \in Page /\ shown.shows = o /\ (o = "verification_sent" => shown.about = mail)
    BY <2>1 DEF Page
  <2> HIDE DEF shown
  <2>3. page' \in [Customer -> Page] /\ page'[c] = shown /\ \A e \in Customer \ {c} : page'[e] = page[e]
    BY <1>2, <2>2 DEF Types
  <2>4. o = "verification_sent" => mail \in asked'
    BY DEF mail
  <2> QED
    BY <2>2, <2>3, <2>4 DEF SentMeansTakenUp
<1> QED
  BY <1>1, <1>2 DEF End

LEMMA IdleOK == Idle \in PostState /\ PostOK(Idle)' /\ Idle.pc = "idle"
  BY DEF Idle, PostState, PostOK

-----------------------------------------------------------------------------
(* The steps.                                                              *)

LEMMA InitOK == ASSUME Init PROVE IInv
<1>1. PickerType /\ PickersOK
  BY InitPickers DEF Init
<1>2. Idle \in PostState /\ Idle.pc = "idle"
  BY DEF Idle, PostState
<1>3. now = 1 /\ HOLD_TTL \in Nat
  BY SiteOK DEF Init, InitLimits
<1> DEFINE none == [status |-> "none", customer |-> None, key |-> None, until |-> 0]
           form == [shows |-> "form", about |-> None, awaits |-> None]
<1>4. none \in Booking /\ none.status = "none" /\ none.key = None /\ none.until = 0
  BY DEF Booking
<1>5. form \in Page /\ form.shows = "form"
  BY DEF Page, Outcome
<1> HIDE DEF none, form
<1>6. booking = [s \in Slot |-> none] /\ page = [c \in Customer |-> form] /\ post = [q \in Post |-> Idle]
      /\ seen = {} /\ mails = {} /\ asked = {}
  BY DEF Init, none, form
<1>7. Types
  BY <1>2, <1>3, <1>4, <1>5, <1>6 DEF Types
<1>8. RowsOK
  BY <1>3, <1>4, <1>6 DEF RowsOK, RowOK
<1>9. PostsOK
  BY <1>2, <1>6 DEF PostsOK, PostOK
<1>10. AllSeenOK /\ SentMeansTakenUp
  BY <1>5, <1>6 DEF AllSeenOK, SentMeansTakenUp
<1> QED
  BY <1>1, <1>7, <1>8, <1>9, <1>10 DEF IInv

LEMMA TickOK == ASSUME IInv, Tick PROVE IInv'
<1> USE DEF IInv
<1>1. now \in Nat /\ now' = now + 1 /\ UNCHANGED <<picker, booking, seen, mails, asked, post, page>>
  BY DEF Tick, PassTime, tables, site, Types
<1>2. Types' /\ PickerType' /\ PickersOK' /\ SentMeansTakenUp' /\ RowsStay
  BY <1>1 DEF Types, PickerType, PickersOK, PickerOK, SentMeansTakenUp, RowsStay
<1>3. RowsOK'
  BY <1>1, <1>2, RowsKept
<1>4. AllSeenOK'
  BY <1>1, <1>2, SeenKept
<1>5. PostsOK'
  <2> SUFFICES ASSUME NEW q \in Post PROVE PostOK(post[q])'
    BY DEF PostsOK
  <2>1. PICK r \in PostState : r = post[q]
    BY DEF Types
  <2>2. PostOK(r) /\ (r.pc # "idle" => now < r.since + LAG)
    BY <2>1 DEF PostsOK, Tick
  <2>3. r.pc # "idle" => now' <= r.since + LAG
    BY <1>1, <2>2, SiteOK DEF PostState
  <2>4. PostOK(r)'
    BY <1>1, <2>2, <2>3, PostKept DEF PostOK
  <2> QED
    BY <1>1, <2>1, <2>4 DEF PostOK
<1> QED
  BY <1>2, <1>3, <1>4, <1>5

LEMMA PickOK == ASSUME IInv, NEW c \in Customer, Pick(c) PROVE IInv'
<1> USE DEF IInv
<1>1. UNCHANGED <<now, booking, seen, mails, asked, post, page>>
  BY DEF Pick, limits, tables, site
<1>2. PickerType' /\ PickersOK'
  BY PickDateOK, AnswerOK, SelectOK DEF Pick
<1>3. Types' /\ RowsOK' /\ AllSeenOK' /\ SentMeansTakenUp' /\ PostsOK'
  BY <1>1 DEF Types, RowsOK, RowOK, AllSeenOK, SeenOK, SentMeansTakenUp, PostsOK, PostOK
<1> QED
  BY <1>2, <1>3

LEMMA SubmitOK == ASSUME IInv, NEW c \in Customer, NEW q \in Post, Submit(c, q) PROVE IInv'
<1> USE DEF IInv
<1> DEFINE s == picker[c].selected
           r == [Idle EXCEPT !.pc = "hold", !.who = c, !.slot = s, !.key = HoldKey(c, s), !.since = now]
           refused == [shows |-> "invalid_input", about |-> None, awaits |-> None]
           waiting == [page[c] EXCEPT !.awaits = q]
<1>1. UNCHANGED <<now, booking, seen, mails, asked>> /\ now \in Nat /\ RowsStay
  BY DEF Submit, limits, tables, Types, RowsStay
<1>2. RowsOK' /\ AllSeenOK'
  BY <1>1, RowsKept, SeenKept
<1>3. CASE s = None
  <2>1. /\ page' = [page EXCEPT ![c] = refused] /\ UNCHANGED post
        /\ \E p \in Loaded(picker[c].date) : Change(c, p)
    BY <1>3 DEF Submit
  <2>2. PickerType' /\ PickersOK'
    BY <2>1, LoadedOK, OneChanges DEF PickerType, Picker
  <2>3. refused \in Page /\ refused.shows = "invalid_input"
    BY DEF Page, Outcome
  <2> HIDE DEF refused
  <2>4. Types' /\ SentMeansTakenUp'
    BY <1>1, <2>1, <2>3 DEF Types, SentMeansTakenUp
  <2>5. PostsOK'
    BY <1>1, <2>1 DEF PostsOK, PostOK
  <2> QED
    BY <1>2, <2>2, <2>4, <2>5
<1>4. CASE s # None
  <2>1. post' = [post EXCEPT ![q] = r] /\ page' = [page EXCEPT ![c] = waiting] /\ UNCHANGED picker
    BY <1>4 DEF Submit
  <2>2. s \in Slot
    BY <1>4 DEF PickerType, Picker
  <2>3. Bucket \in Nat
    BY <1>1, BucketNat DEF Bucket
  <2>4. HoldKey(c, s) \in HoldKeys \cup {None}
        /\ (HoldKey(c, s) # None => HoldKey(c, s) = [who |-> c, slot |-> s, at |-> now \div BUCKET])
    BY <2>2, <2>3 DEF HoldKey, HoldKeys, Bucket
  <2>5. /\ r.pc = "hold" /\ r.who = c /\ r.slot = s /\ r.key = HoldKey(c, s) /\ r.since = now
    BY DEF Idle
  <2>6. Idle \in PostState
    BY IdleOK
  <2>7. r \in PostState
    BY <1>1, <2>2, <2>4, <2>6, Zenon DEF PostState
  <2>8. PICK e \in PostState : e = r
    BY <2>7
  <2>9. post' \in [Post -> PostState] /\ PostsOK'
    <3>1. /\ e.pc = "hold" /\ e.who = c /\ e.slot \in Slot /\ e.since = now
          /\ e.key # None => e.key = [who |-> e.who, slot |-> e.slot, at |-> e.since \div BUCKET]
      BY <2>2, <2>4, <2>5, <2>8, Zenon
    <3>2. LAG \in Nat
      BY SiteOK
    <3>3. PostOK(e)'
      BY <1>1, <3>1, <3>2 DEF PostOK
    <3>4. post' = [post EXCEPT ![q] = e] /\ post \in [Post -> PostState]
      BY <2>1, <2>8 DEF Types
    <3> QED
      BY <1>1, <3>3, <3>4, OthersKept, PostsGoOn
  <2>10. waiting \in Page /\ waiting.shows = page[c].shows /\ waiting.about = page[c].about
    BY DEF Types, Page
  <2> HIDE DEF waiting
  <2>11. Types' /\ SentMeansTakenUp'
    BY <1>1, <2>1, <2>9, <2>10 DEF Types, SentMeansTakenUp
  <2>12. PickerType' /\ PickersOK'
    BY <2>1 DEF PickerType, PickersOK, PickerOK
  <2> QED
    BY <1>2, <2>9, <2>11, <2>12
<1> QED
  BY <1>3, <1>4

\* A request that ends, whatever the reason, and takes no slot.
LEMMA EndStep ==
  ASSUME IInv, NEW q \in Post, post[q].pc # "idle", NEW o \in Outcome, End(q, o), UNCHANGED now,
         Types', RowsOK', AllSeenOK', asked \subseteq asked',
         \A p \in Post \ {q} : \A e \in PostState : e = post[p] => PostOK(e)',
         o = "verification_sent" =>
           [slot |-> post[q].slot, to |-> post[q].who, exp |-> post[q].until] \in asked'
  PROVE  IInv'
<1> USE DEF IInv
<1>1. post[q].who \in Customer /\ post[q].slot \in Slot
  BY DEF PostsOK, PostOK
<1>2. PickerType' /\ PickersOK'
  BY <1>1, EndPicker
<1>3. SentMeansTakenUp'
  BY <1>1, EndOK
<1>4. PostsOK'
  BY IdleOK, PostsGoOn DEF End, Types
<1> QED
  BY <1>2, <1>3, <1>4

LEMMA MakeKeyOK == ASSUME IInv, NEW q \in Post, MakeKey(q) PROVE IInv'
<1> USE DEF IInv
<1> DEFINE r == post[q]
           k == VerifyKey(r.who, r.slot)
           n == [r EXCEPT !.pc = "verify", !.key = k]
<1>1. /\ UNCHANGED <<now, booking, seen, mails, asked, page, picker>> /\ now \in Nat /\ RowsStay
      /\ post' = [post EXCEPT ![q] = n] /\ r.pc = "held"
  BY DEF MakeKey, limits, tables, Types, RowsStay
<1>2. RowsOK' /\ AllSeenOK'
  BY <1>1, RowsKept, SeenKept
<1>3. r \in PostState /\ PostOK(r)
  BY DEF Types, PostsOK
<1>4. now \div BUCKET \in Nat
  BY <1>1, BucketNat
<1>5. k \in VerifyKeys \cup {None}
      /\ (k # None => k = [id |-> r.slot, who |-> r.who, at |-> now \div BUCKET])
  BY <1>1, <1>3, <1>4 DEF VerifyKey, VerifyKeys, Bucket, PostOK
<1> HIDE DEF k
<1>6. /\ n \in PostState /\ n.pc = "verify" /\ n.key = k /\ n.who = r.who /\ n.slot = r.slot
      /\ n.since = r.since /\ n.until = r.until
  BY <1>3, <1>5 DEF PostState
<1> HIDE DEF n
<1>7. r.since <= now /\ r.until <= now + HOLD_TTL
  BY <1>1, <1>3 DEF PostOK
<1>8. PICK e \in PostState : e = r
  BY <1>3
<1>9. post' \in [Post -> PostState] /\ PostsOK'
  <2>1. PICK f \in PostState : f = n
    BY <1>6
  <2>2. e.pc = "held" /\ PostOK(e)
    BY <1>1, <1>3, <1>8
  <2>3. /\ f.pc = "verify" /\ f.who = e.who /\ f.slot = e.slot /\ f.since = e.since /\ f.until = e.until
    BY <1>6, <1>8, <2>1
  <2>4. f.key # None => f.key = [id |-> f.slot, who |-> f.who, at |-> now \div BUCKET]
    BY <1>5, <1>6, <2>1
  <2>5. f.since <= now /\ f.until <= now + HOLD_TTL
    BY <1>6, <1>7, <2>1
  <2>6. f.key # None => \E t \in Nat : /\ f.key = [id |-> f.slot, who |-> f.who, at |-> t \div BUCKET]
                                       /\ f.since <= t /\ t <= now /\ f.until <= t + HOLD_TTL
    BY <1>1, <2>4, <2>5
  <2>7. PostOK(f)'
    BY <1>1, <2>2, <2>3, <2>6 DEF PostOK
  <2>8. post' = [post EXCEPT ![q] = f] /\ post \in [Post -> PostState]
    BY <1>1, <2>1 DEF Types
  <2> QED
    BY <1>1, <2>7, <2>8, OthersKept, PostsGoOn
<1>10. Types' /\ PickerType' /\ PickersOK' /\ SentMeansTakenUp'
  BY <1>1, <1>9 DEF Types, PickerType, PickersOK, PickerOK, SentMeansTakenUp
<1> QED
  BY <1>2, <1>9, <1>10

LEMMA ConfirmOK == ASSUME IInv, NEW m \in mails, Confirm(m) PROVE IInv'
<1> USE DEF IInv
<1> DEFINE s == m.slot
           b == [booking[s] EXCEPT !.status = "confirmed"]
<1>1. /\ UNCHANGED <<now, seen, mails, asked, post, page, picker>> /\ now \in Nat
      /\ booking' = [booking EXCEPT ![s] = b] /\ booking[s].status = "pending_verify"
  BY DEF Confirm, limits, site, Types
<1>2. s \in Slot
  BY DEF Types, Mail
<1>3. /\ b \in Booking /\ b.status = "confirmed" /\ b.until = booking[s].until
      /\ b.customer = booking[s].customer /\ b.key = booking[s].key
  BY <1>2 DEF Types, Booking
<1> HIDE DEF b
<1>4. RowsStay
  BY <1>1, <1>2, <1>3 DEF RowsStay, Types
<1>5. RowsOK' /\ AllSeenOK'
  BY <1>1, <1>4, RowsKept, SeenKept
<1>6. PostsOK'
  <2> SUFFICES ASSUME NEW q \in Post PROVE PostOK(post[q])'
    BY DEF PostsOK
  <2>1. PICK e \in PostState : e = post[q]
    BY DEF Types
  <2>2. PostOK(e)'
    BY <1>1, <1>4, <2>1, OthersKept
  <2> QED
    BY <1>1, <2>1, <2>2 DEF PostOK
<1>7. Types' /\ PickerType' /\ PickersOK' /\ SentMeansTakenUp'
  BY <1>1, <1>4 DEF Types, PickerType, PickersOK, PickerOK, SentMeansTakenUp, RowsStay
<1> QED
  BY <1>5, <1>6, <1>7

\* A slot that is free has no request waiting for it, and its row is over.
LEMMA TakeOK ==
  ASSUME IInv, NEW q \in Post, NEW r \in PostState, r = post[q], r.pc = "hold",
         ~Held(r.slot), booking[r.slot].status # "confirmed",
         booking' = [booking EXCEPT ![r.slot] = Took(r.who, r.slot, r.key)], UNCHANGED <<now, seen, mails, asked>>
  PROVE  /\ booking' \in [Slot -> Booking] /\ RowsOK' /\ AllSeenOK'
         /\ \A p \in Post \ {q} : \A e \in PostState : e = post[p] => PostOK(e)'
         /\ booking'[r.slot] = Took(r.who, r.slot, r.key)
<1> USE DEF IInv
<1> DEFINE s == r.slot
           b == Took(r.who, s, r.key)
<1>1. PostOK(r) /\ s \in Slot /\ r.who \in Customer /\ r.since <= now /\ now <= r.since + LAG
  BY DEF PostsOK, PostOK
<1>2. now \in Nat /\ r.since \in Nat /\ HOLD_TTL \in Nat /\ LAG \in Nat /\ BUCKET \in Nat
  BY SiteOK DEF Types, PostState
<1>3. r.key \in HoldKeys \cup {None}
        /\ (r.key # None => r.key = [who |-> r.who, slot |-> s, at |-> r.since \div BUCKET])
  <2>1. r.since \div BUCKET \in Nat
    BY <1>2, BucketNat
  <2>2. r.key # None => r.key = [who |-> r.who, slot |-> s, at |-> r.since \div BUCKET]
    BY <1>1 DEF PostOK
  <2>3. [who |-> r.who, slot |-> s, at |-> r.since \div BUCKET] \in HoldKeys
    BY <1>1, <2>1 DEF HoldKeys
  <2> QED
    BY <2>2, <2>3
<1>4. booking[s] \in Booking /\ booking[s].until \in Nat /\ booking[s].until <= now
  <2>1. booking[s] \in Booking
    BY <1>1 DEF Types
  <2>2. booking[s].until \in Nat /\ booking[s].status \in {"none", "hold", "pending_verify", "confirmed"}
    BY <2>1 DEF Booking
  <2>3. booking[s].status = "none" => booking[s].until = 0
    BY <1>1 DEF RowsOK, RowOK
  <2> QED
    BY <1>2, <2>1, <2>2, <2>3 DEF Held
<1>5. now + HOLD_TTL \in Nat
  BY <1>2
<1>6. b \in Booking /\ b.status = "hold" /\ b.customer = r.who /\ b.key = r.key /\ b.until = now + HOLD_TTL
  BY <1>1, <1>3, <1>5 DEF Took, Booking
<1> HIDE DEF b
<1>7. /\ booking' \in [Slot -> Booking] /\ booking'[s] = b
      /\ \A e \in Slot \ {s} : booking'[e] = booking[e]
  BY <1>1, <1>6 DEF Types, b
<1>8. RowsOK'
  <2> SUFFICES ASSUME NEW e \in Slot PROVE RowOK(e)'
    BY DEF RowsOK
  <2>1. CASE e = s
    <3>1. ASSUME NEW t \in Nat, t \div BUCKET = r.since \div BUCKET PROVE t + BUCKET + LAG < now + HOLD_TTL
      <4>1. t < r.since + BUCKET
        BY <1>2, <3>1, SameBucket
      <4>2. 2 * BUCKET + LAG < HOLD_TTL
        BY SiteOK
      <4> QED
        BY <1>1, <1>2, <4>1, <4>2
    <3>2. r.since \div BUCKET \in Nat
      BY <1>2, BucketNat
    <3>3. booking'[e] = b /\ now' = now
      BY <1>7, <2>1
    <3>4. b.until <= now' + HOLD_TTL /\ b.status # "none"
      BY <1>2, <1>6, <3>3
    <3>5. b.key # None =>
            \E i \in Nat : /\ b.key = [who |-> b.customer, slot |-> s, at |-> i]
                          /\ \A t \in Nat : t \div BUCKET = i => t + BUCKET + LAG < b.until
      BY <1>3, <1>6, <3>1, <3>2
    <3> QED
      BY <2>1, <3>3, <3>4, <3>5, Zenon DEF RowOK
  <2>2. CASE e # s
    BY <1>7, <2>2 DEF RowsOK, RowOK
  <2> QED
    BY <2>1, <2>2
<1>9. AllSeenOK'
  <2> SUFFICES ASSUME NEW k \in seen PROVE SeenOK(k)'
    BY DEF AllSeenOK
  <2>1. PICK m \in asked : /\ m.slot = k.id /\ m.to = k.who
                           /\ \A t \in Nat : t \div BUCKET = k.at => t < m.exp
                           /\ booking[m.slot].until = m.exp \/ m.exp + HOLD_TTL <= booking[m.slot].until
    BY DEF AllSeenOK, SeenOK
  <2>2. m.slot \in Slot /\ m.exp \in Nat
    BY DEF Types, Mail
  <2>3. booking'[m.slot].until = m.exp \/ m.exp + HOLD_TTL <= booking'[m.slot].until
    BY <1>2, <1>4, <1>6, <1>7, <2>1, <2>2
  <2> QED
    BY <2>1, <2>3 DEF SeenOK
<1>10. ASSUME NEW p \in Post \ {q}, NEW e \in PostState, e = post[p] PROVE PostOK(e)'
  <2>1. PostOK(e) /\ e.since \in Nat
    BY <1>10 DEF PostsOK, PostState
  <2>2. e.pc \in {"held", "verify"} => e.slot \in Slot /\ e.slot # s
    BY <1>1, <1>2, <1>4, <2>1 DEF PostOK
  <2> QED
    BY <1>2, <1>7, <2>1, <2>2, PostKept DEF PostOK
<1> QED
  BY <1>7, <1>8, <1>9, <1>10 DEF b

\* A request has its hold, an old one or a new one.
LEMMA GotOK ==
  ASSUME IInv, NEW q \in Post, NEW r \in PostState, r = post[q], r.pc = "hold", NEW u \in Nat,
         post' = [post EXCEPT ![q].pc = "held", ![q].until = u],
         booking' \in [Slot -> Booking], RowsOK', AllSeenOK', UNCHANGED <<now, seen, mails, asked, page, picker>>,
         \A p \in Post \ {q} : \A e \in PostState : e = post[p] => PostOK(e)',
         booking'[r.slot].status # "none", booking'[r.slot].customer = r.who, booking'[r.slot].until = u,
         r.since + LAG + BUCKET < u, u <= now + HOLD_TTL
  PROVE  IInv'
<1> USE DEF IInv
<1> DEFINE n == [r EXCEPT !.pc = "held", !.until = u]
<1>1. /\ n \in PostState /\ n.pc = "held" /\ n.who = r.who /\ n.slot = r.slot /\ n.since = r.since
      /\ n.key = r.key /\ n.until = u
  BY DEF PostState
<1>2. post' = [post EXCEPT ![q] = n] /\ post \in [Post -> PostState] /\ PostOK(r)
  BY DEF Types, PostsOK
<1> HIDE DEF n
<1>3. PICK f \in PostState : f = n
  BY <1>1
<1>4. PostOK(f)'
  BY <1>1, <1>2, <1>3 DEF PostOK
<1>5. post' \in [Post -> PostState] /\ PostsOK'
  BY <1>2, <1>3, <1>4, PostsGoOn
<1>6. Types' /\ PickerType' /\ PickersOK' /\ SentMeansTakenUp'
  BY <1>5 DEF Types, PickerType, PickersOK, PickerOK, SentMeansTakenUp
<1> QED
  BY <1>5, <1>6

LEMMA HoldOK == ASSUME IInv, NEW q \in Post, Hold(q) PROVE IInv'
<1> USE DEF IInv
<1>1. PICK r \in PostState : r = post[q]
  BY DEF Types
<1> DEFINE s == r.slot
           free == ~Held(s) /\ booking[s].status # "confirmed"
           took == [booking EXCEPT ![s] = Took(r.who, s, r.key)]
<1>2. r.pc = "hold" /\ PostOK(r) /\ UNCHANGED <<now, seen, mails, asked>>
  BY <1>1 DEF Hold, PostsOK
<1>3. s \in Slot /\ r.who \in Customer /\ r.since <= now /\ now <= r.since + LAG
  BY <1>2 DEF PostOK
<1>4. now \in Nat /\ r.since \in Nat /\ HOLD_TTL \in Nat /\ LAG \in Nat /\ BUCKET \in Nat
  BY SiteOK DEF Types, PostState
<1>5. ASSUME UNCHANGED booking
      PROVE  /\ RowsStay /\ RowsOK' /\ AllSeenOK'
             /\ \A p \in Post \ {q} : \A e \in PostState : e = post[p] => PostOK(e)'
  <2>1. RowsStay
    BY <1>5 DEF RowsStay, Types
  <2> QED
    BY <1>2, <1>4, <2>1, RowsKept, SeenKept, OthersKept
<1>6. ASSUME NEW o \in Outcome, o # "verification_sent", End(q, o), UNCHANGED booking PROVE IInv'
  <2>1. Types'
    BY <1>2, <1>3, <1>1, <1>6, EndOK, IdleOK DEF Types, End
  <2> QED
    BY <1>1, <1>2, <1>5, <1>6, <2>1, EndStep
<1>7. ASSUME free, booking' = took, End(q, "request_failed") PROVE IInv'
  <2>1. /\ booking' \in [Slot -> Booking] /\ RowsOK' /\ AllSeenOK'
        /\ \A p \in Post \ {q} : \A e \in PostState : e = post[p] => PostOK(e)'
    BY <1>1, <1>2, <1>7, TakeOK
  <2>2. "request_failed" \in Outcome
    BY DEF Outcome
  <2>3. Types'
    BY <1>1, <1>2, <1>3, <1>7, <2>1, <2>2, EndOK, IdleOK DEF Types, End
  <2> QED
    BY <1>1, <1>2, <1>7, <2>1, <2>2, <2>3, EndStep
<1>8. CASE \E o \in {"unknown", "slot_unavailable", "request_failed"} : End(q, o) /\ UNCHANGED booking
  BY <1>6, <1>8 DEF Outcome
<1>9. CASE free /\ booking' = took /\ End(q, "request_failed")
  BY <1>7, <1>9
<1>10. CASE /\ Known(s, r.key) /\ UNCHANGED <<booking, page, picker>>
            /\ post' = [post EXCEPT ![q].pc = "held", ![q].until = booking[s].until]
  <2>1. r.key # None /\ booking[s].key = r.key /\ RowOK(s)
    BY <1>3, <1>10 DEF Known, RowsOK
  <2>2. r.key = [who |-> r.who, slot |-> s, at |-> r.since \div BUCKET]
    BY <1>2, <2>1 DEF PostOK
  <2>3. PICK i \in Nat : /\ booking[s].key = [who |-> booking[s].customer, slot |-> s, at |-> i]
                         /\ \A t \in Nat : t \div BUCKET = i => t + BUCKET + LAG < booking[s].until
    BY <2>1 DEF RowOK
  <2>4. booking[s].customer = r.who /\ i = r.since \div BUCKET
    BY <2>1, <2>2, <2>3
  <2>5. r.since + BUCKET + LAG < booking[s].until
    BY <1>4, <2>3, <2>4
  <2>6. booking[s].until \in Nat /\ booking[s].until <= now + HOLD_TTL /\ booking[s].status # "none"
    BY <1>3, <2>1 DEF RowOK, Types, Booking
  <2>7. r.since + LAG + BUCKET < booking[s].until
    BY <1>4, <2>5, <2>6
  <2>8. PICK u \in Nat : u = booking[s].until
    BY <2>6
  <2>9. booking' \in [Slot -> Booking] /\ UNCHANGED <<now, seen, mails, asked, page, picker>>
    BY <1>2, <1>10 DEF Types
  <2>10. booking'[s].status # "none" /\ booking'[s].customer = r.who /\ booking'[s].until = u
    BY <1>10, <2>4, <2>6, <2>8
  <2> QED
    BY <1>1, <1>2, <1>5, <1>10, <2>6, <2>7, <2>8, <2>9, <2>10, GotOK
<1>11. CASE /\ free /\ booking' = took /\ UNCHANGED <<page, picker>>
            /\ post' = [post EXCEPT ![q].pc = "held", ![q].until = took[s].until]
  <2>1. /\ booking' \in [Slot -> Booking] /\ RowsOK' /\ AllSeenOK'
        /\ \A p \in Post \ {q} : \A e \in PostState : e = post[p] => PostOK(e)'
    BY <1>1, <1>2, <1>11, TakeOK
  <2>2. booking'[s].status # "none" /\ booking'[s].customer = r.who /\ booking'[s].until = now + HOLD_TTL
    <3>1. booking'[s] = Took(r.who, s, r.key)
      BY <1>1, <1>2, <1>11, TakeOK
    <3> QED
      BY <3>1 DEF Took
  <2>3. PICK u \in Nat : u = now + HOLD_TTL
    BY <1>4
  <2>4. r.since + LAG + BUCKET < u /\ u <= now + HOLD_TTL
    BY <1>3, <1>4, <2>3, SiteOK
  <2>5. post' = [post EXCEPT ![q].pc = "held", ![q].until = u]
    BY <1>11, <2>2, <2>3
  <2>6. r.pc = "hold" /\ UNCHANGED <<now, seen, mails, asked, page, picker>>
    BY <1>2, <1>11
  <2>7. booking'[r.slot].status # "none" /\ booking'[r.slot].customer = r.who /\ booking'[r.slot].until = u
    BY <2>2, <2>3
  <2> QED
    BY <1>1, <2>1, <2>4, <2>5, <2>6, <2>7, GotOK
<1>12. \/ \E o \in {"unknown", "slot_unavailable", "request_failed"} : End(q, o) /\ UNCHANGED booking
       \/ free /\ booking' = took /\ End(q, "request_failed")
       \/ /\ Known(s, r.key) /\ UNCHANGED <<booking, page, picker>>
          /\ post' = [post EXCEPT ![q].pc = "held", ![q].until = booking[s].until]
       \/ /\ free /\ booking' = took /\ UNCHANGED <<page, picker>>
          /\ post' = [post EXCEPT ![q].pc = "held", ![q].until = took[s].until]
  BY <1>1, Zenon DEF Hold
<1> QED
  BY <1>8, <1>9, <1>10, <1>11, <1>12

\* A key seen before was seen for this very hold.
LEMMA SeenIsTakenUp ==
  ASSUME IInv, NEW q \in Post, NEW r \in PostState, r = post[q], r.pc = "verify", r.key \in seen
  PROVE  [slot |-> r.slot, to |-> r.who, exp |-> r.until] \in asked
<1> USE DEF IInv
<1>1. PostOK(r) /\ r.key # None /\ SeenOK(r.key)
  BY DEF PostsOK, AllSeenOK
<1>2. PICK t \in Nat : /\ r.key = [id |-> r.slot, who |-> r.who, at |-> t \div BUCKET]
                       /\ r.since <= t /\ t <= now /\ r.until <= t + HOLD_TTL
  BY <1>1 DEF PostOK
<1>3. PICK m \in asked : /\ m.slot = r.key.id /\ m.to = r.key.who
                         /\ \A e \in Nat : e \div BUCKET = r.key.at => e < m.exp
                         /\ booking[m.slot].until = m.exp \/ m.exp + HOLD_TTL <= booking[m.slot].until
  BY <1>1 DEF SeenOK
<1>4. r.key.id = r.slot /\ r.key.who = r.who /\ r.key.at = t \div BUCKET
  BY <1>2
<1>5. t < m.exp /\ booking[r.slot].until = r.until
  BY <1>1, <1>3, <1>4 DEF PostOK
<1>6. m \in Mail /\ m.exp \in Nat /\ r.until \in Nat /\ HOLD_TTL \in Nat
  BY SiteOK DEF Types, Mail, PostState
<1>7. m.exp = r.until
  BY <1>2, <1>3, <1>4, <1>5, <1>6
<1>8. m = [slot |-> m.slot, to |-> m.to, exp |-> m.exp]
  BY <1>6 DEF Mail
<1> QED
  BY <1>3, <1>4, <1>7, <1>8

\* A hold that is being verified.
LEMMA PendingOK ==
  ASSUME IInv, NEW s \in Slot, Held(s), UNCHANGED now,
         booking' = [booking EXCEPT ![s].status = "pending_verify"]
  PROVE  RowsStay /\ RowsOK'
<1> USE DEF IInv
<1> DEFINE b == [booking[s] EXCEPT !.status = "pending_verify"]
<1>1. booking[s] \in Booking /\ booking[s].status # "none" /\ now \in Nat
  BY DEF Types, Held
<1>2. /\ b \in Booking /\ b.status # "none" /\ b.until = booking[s].until
      /\ b.customer = booking[s].customer /\ b.key = booking[s].key
  BY <1>1 DEF Booking
<1>3. booking' = [booking EXCEPT ![s] = b]
  OBVIOUS
<1> HIDE DEF b
<1>4. RowsStay
  BY <1>1, <1>2, <1>3 DEF RowsStay, Types
<1> QED
  BY <1>1, <1>4, RowsKept

\* The verification of a new key is recorded.
LEMMA RecordedOK ==
  ASSUME IInv, NEW q \in Post, NEW r \in PostState, r = post[q], r.pc = "verify", Held(r.slot), UNCHANGED now,
         booking' = [booking EXCEPT ![r.slot].status = "pending_verify"], Recorded(q)
  PROVE  /\ RowsStay /\ RowsOK' /\ AllSeenOK'
         /\ [slot |-> r.slot, to |-> r.who, exp |-> r.until] \in asked' /\ asked' \subseteq Mail
         /\ mails' \subseteq asked' /\ asked \subseteq asked' /\ seen' \subseteq VerifyKeys
<1> USE DEF IInv
<1> DEFINE s == r.slot
           mail == [slot |-> s, to |-> r.who, exp |-> r.until]
<1>1. PostOK(r) /\ s \in Slot /\ r.who \in Customer /\ booking[s].customer = r.who /\ booking[s].until = r.until
  BY DEF PostsOK, PostOK
<1>2. now \in Nat /\ r.since \in Nat /\ r.until \in Nat /\ HOLD_TTL \in Nat /\ LAG \in Nat /\ BUCKET \in Nat
  BY SiteOK DEF Types, PostState
<1>3. /\ seen' = IF r.key = None THEN seen ELSE seen \cup {r.key}
      /\ asked' = asked \cup {mail} /\ mails' \in {mails, mails \cup {mail}}
  BY <1>1 DEF Recorded, MailOf
<1>6. RowsStay /\ RowsOK'
  BY <1>1, PendingOK
<1>8. mail \in Mail /\ mail.slot = s /\ mail.to = r.who /\ mail.exp = r.until /\ mail \in asked'
  BY <1>1, <1>2, <1>3 DEF Mail
<1>9. asked \subseteq asked' /\ asked' \subseteq Mail /\ mails' \subseteq asked'
  BY <1>3, <1>8 DEF Types
<1> HIDE DEF mail
<1>10. ASSUME NEW k \in seen PROVE SeenOK(k)'
  <2>1. PICK m \in asked : /\ m.slot = k.id /\ m.to = k.who
                           /\ \A t \in Nat : t \div BUCKET = k.at => t < m.exp
                           /\ booking[m.slot].until = m.exp \/ m.exp + HOLD_TTL <= booking[m.slot].until
    BY DEF AllSeenOK, SeenOK
  <2>2. m.slot \in Slot /\ m \in asked'
    BY <1>9 DEF Types, Mail
  <2>3. booking'[m.slot].until = booking[m.slot].until
    BY <1>6, <2>2 DEF RowsStay
  <2> QED
    BY <2>1, <2>2, <2>3 DEF SeenOK
<1>11. ASSUME r.key # None PROVE SeenOK(r.key)' /\ r.key \in VerifyKeys
  <2>1. PICK t1 \in Nat : /\ r.key = [id |-> s, who |-> r.who, at |-> t1 \div BUCKET]
                          /\ r.since <= t1 /\ t1 <= now /\ r.until <= t1 + HOLD_TTL
    BY <1>1, <1>11 DEF PostOK
  <2>2. PICK k \in VerifyKeys : k = r.key
    BY <1>1, <2>1, BucketNat DEF VerifyKeys
  <2>3. k.id = s /\ k.who = r.who /\ k.at = t1 \div BUCKET
    BY <2>1, <2>2
  <2>4. ASSUME NEW t \in Nat, t \div BUCKET = t1 \div BUCKET PROVE t < r.until
    <3>1. t < t1 + BUCKET
      BY <2>4, SameBucket
    <3>2. t1 <= r.since + LAG /\ r.since + LAG + BUCKET < r.until
      BY <1>1, <1>2, <2>1 DEF PostOK
    <3> QED
      BY <1>2, <3>1, <3>2
  <2>5. booking'[s].until = r.until
    BY <1>1, <1>6 DEF RowsStay
  <2>6. SeenOK(k)'
    BY <1>8, <2>3, <2>4, <2>5 DEF SeenOK
  <2> QED
    BY <2>2, <2>6 DEF SeenOK
<1>12. AllSeenOK' /\ seen' \subseteq VerifyKeys
  BY <1>3, <1>10, <1>11 DEF AllSeenOK, Types
<1> QED
  BY <1>6, <1>8, <1>9, <1>12 DEF mail

LEMMA VerifyOK == ASSUME IInv, NEW q \in Post, Verify(q) PROVE IInv'
<1> USE DEF IInv
<1>1. PICK r \in PostState : r = post[q]
  BY DEF Types
<1> DEFINE s == r.slot
           mail == [slot |-> s, to |-> r.who, exp |-> r.until]
           pending == booking' = [booking EXCEPT ![s].status = "pending_verify"]
<1>2. r.pc = "verify" /\ PostOK(r) /\ UNCHANGED now
  BY <1>1 DEF Verify, PostsOK
<1>3. s \in Slot /\ r.who \in Customer /\ now \in Nat
  BY <1>2 DEF PostOK, Types
<1>4. ASSUME NEW o \in Outcome, End(q, o), UNCHANGED tables, o = "verification_sent" => mail \in asked
      PROVE  IInv'
  <2>1. RowsStay /\ UNCHANGED <<booking, seen, mails, asked>>
    BY <1>4 DEF RowsStay, Types, tables
  <2>2. /\ RowsOK' /\ AllSeenOK'
        /\ \A p \in Post \ {q} : \A e \in PostState : e = post[p] => PostOK(e)'
    BY <1>2, <1>3, <2>1, RowsKept, SeenKept, OthersKept
  <2>3. o = "verification_sent" => [slot |-> post[q].slot, to |-> post[q].who, exp |-> post[q].until] \in asked'
    BY <1>1, <1>4, <2>1
  <2>4. Types'
    BY <1>1, <1>2, <1>3, <1>4, <2>1, <2>3, EndOK, IdleOK DEF Types, End
  <2> QED
    BY <1>1, <1>2, <1>4, <2>1, <2>2, <2>3, <2>4, EndStep
<1>5. ASSUME NEW o \in Outcome, End(q, o), Held(s), pending, Recorded(q) PROVE IInv'
  <2>1. /\ RowsStay /\ RowsOK' /\ AllSeenOK' /\ mail \in asked' /\ asked' \subseteq Mail
        /\ mails' \subseteq asked' /\ asked \subseteq asked' /\ seen' \subseteq VerifyKeys
    BY <1>1, <1>2, <1>5, RecordedOK
  <2>2. \A p \in Post \ {q} : \A e \in PostState : e = post[p] => PostOK(e)'
    BY <1>2, <2>1, OthersKept
  <2>3. [slot |-> post[q].slot, to |-> post[q].who, exp |-> post[q].until] \in asked' /\ asked \subseteq asked'
    BY <1>1, <1>5, <2>1
  <2>4. Types'
    <3>1. page' \in [Customer -> Page]
      BY <1>1, <1>2, <1>3, <1>5, <2>1, <2>3, EndOK
    <3>2. post' \in [Post -> PostState]
      BY <1>5, IdleOK DEF Types, End
    <3> QED
      BY <1>2, <1>5, <2>1, <3>1, <3>2 DEF Types, RowsStay
  <2> QED
    BY <1>1, <1>2, <1>5, <2>1, <2>2, <2>3, <2>4, EndStep
<1>6. \/ \E o \in {"unknown", "slot_unavailable", "request_failed"} : End(q, o) /\ UNCHANGED tables
      \/ r.key \in seen /\ End(q, "verification_sent") /\ UNCHANGED tables
      \/ \E o \in {"verification_sent", "request_failed"} : Held(s) /\ pending /\ Recorded(q) /\ End(q, o)
      \/ Held(s) /\ pending /\ End(q, "request_failed") /\ UNCHANGED <<seen, mails, asked>>
  BY <1>1, Zenon DEF Verify
<1>7. CASE r.key \in seen /\ End(q, "verification_sent") /\ UNCHANGED tables
  BY <1>1, <1>2, <1>4, <1>7, SeenIsTakenUp DEF Outcome
<1>8. {"unknown", "slot_unavailable", "request_failed", "verification_sent"} \subseteq Outcome
  BY DEF Outcome
<1>9. ASSUME Held(s), pending, End(q, "request_failed"), UNCHANGED <<seen, mails, asked>> PROVE IInv'
  <2>1. RowsStay /\ RowsOK'
    BY <1>2, <1>3, <1>9, PendingOK
  <2>2. AllSeenOK' /\ \A p \in Post \ {q} : \A e \in PostState : e = post[p] => PostOK(e)'
    BY <1>2, <1>9, <2>1, SeenKept, OthersKept
  <2>3. Types'
    <3>1. page' \in [Customer -> Page]
      BY <1>1, <1>3, <1>8, <1>9, EndOK
    <3>2. post' \in [Post -> PostState]
      BY <1>9, IdleOK DEF Types, End
    <3> QED
      BY <1>2, <1>9, <2>1, <3>1, <3>2 DEF Types, RowsStay
  <2> QED
    BY <1>1, <1>2, <1>8, <1>9, <2>1, <2>2, <2>3, EndStep
<1> HIDE DEF pending
<1> QED
  BY <1>4, <1>5, <1>6, <1>7, <1>8, <1>9

-----------------------------------------------------------------------------
(* The theorems.                                                           *)

LEMMA NextOK == ASSUME IInv, [Next]_vars PROVE IInv'
<1>1. CASE Next
  BY <1>1, TickOK, PickOK, SubmitOK, HoldOK, MakeKeyOK, VerifyOK, ConfirmOK DEF Next
<1>2. CASE UNCHANGED vars
  <2>1. UNCHANGED <<now, booking, seen, mails, asked, post, page, picker>>
    BY <1>2 DEF vars, limits, tables, site
  <2> QED
    BY <2>1 DEF IInv, Types, PickerType, PickersOK, PickerOK, RowsOK, RowOK, PostsOK, PostOK, AllSeenOK,
                SeenOK, SentMeansTakenUp
<1> QED
  BY <1>1, <1>2

LEMMA Inductive == Spec => []IInv
<1>1. Init => IInv
  BY InitOK
<1>2. IInv /\ [Next]_vars => IInv'
  BY NextOK
<1> QED
  BY <1>1, <1>2, PTL DEF Spec

\* The limiter, the clock and the faults.
LimitsInv ==
  /\ now \in 1 .. MaxTime /\ faults \in 0 .. MaxFaults /\ bucket \in [Kind -> [count : Nat, reset : Nat]]
  /\ \A k \in Kind : bucket[k].count \in 0 .. Max[k] + 1 /\ bucket[k].reset <= now + WINDOW

LEMMA CheckOK == ASSUME LimitsInv, NEW k \in Kind, Check(k), UNCHANGED now, faults' \in 0 .. MaxFaults PROVE LimitsInv'
<1> USE DEF LimitsInv
<1> DEFINE b == bucket[k]
           fresh == [count |-> 1, reset |-> now + WINDOW]
           more == [b EXCEPT !.count = Saturated(k, @ + 1)]
           n == IF Over(k) THEN fresh ELSE more
<1>1. Max[k] \in Nat \ {0} /\ WINDOW \in Nat /\ now \in Nat /\ b.count \in 0 .. Max[k] + 1 /\ b.reset <= now + WINDOW
  BY LimitsOK
<1>2. fresh \in [count : Nat, reset : Nat] /\ fresh.count \in 0 .. Max[k] + 1 /\ fresh.reset <= now + WINDOW
  BY <1>1
<1>3. Saturated(k, b.count + 1) \in 0 .. Max[k] + 1
  BY <1>1 DEF Saturated
<1>4. more \in [count : Nat, reset : Nat] /\ more.count = Saturated(k, b.count + 1) /\ more.reset = b.reset
  BY <1>3
<1>5. n \in [count : Nat, reset : Nat] /\ n.count \in 0 .. Max[k] + 1 /\ n.reset <= now + WINDOW
  BY <1>1, <1>2, <1>3, <1>4
<1>6. bucket' = [bucket EXCEPT ![k] = n]
  BY Zenon DEF Check
<1> HIDE DEF n
<1> QED
  BY <1>5, <1>6

LEMMA LimitsStep == ASSUME LimitsInv, [Next]_vars PROVE LimitsInv'
<1> USE DEF LimitsInv
<1>1. MaxFaults \in Nat /\ MaxTime \in Nat /\ WINDOW \in Nat
  BY LimitsOK, SiteOK
<1>2. CASE UNCHANGED <<now, bucket, faults>>
  BY <1>2
<1>3. CASE Tick
  <2>1. now' = now + 1 /\ now < MaxTime /\ UNCHANGED <<bucket, faults>>
    BY <1>3 DEF Tick, PassTime
  <2> QED
    BY <1>1, <2>1
<1>4. ASSUME NEW q \in Post, Hold(q) \/ Verify(q) PROVE LimitsInv'
  <2>1. UNCHANGED now /\ (UNCHANGED faults \/ Fail)
    BY <1>4, Zenon DEF Hold, Verify
  <2>2. faults' \in 0 .. MaxFaults
    BY <1>1, <2>1 DEF Fail
  <2>3. \E k \in Kind : Check(k)
    BY <1>4, SiteOK DEF Hold, Verify
  <2> QED
    BY <2>1, <2>2, <2>3, CheckOK
<1>5. CASE \/ \E c \in Customer : Pick(c) \/ \E q \in Post : Submit(c, q)
           \/ \E q \in Post : MakeKey(q)
           \/ \E m \in mails : Confirm(m)
  BY <1>2, <1>5 DEF Pick, Submit, MakeKey, Confirm, limits
<1>6. CASE UNCHANGED vars
  BY <1>2, <1>6 DEF vars, limits
<1> QED
  BY <1>3, <1>4, <1>5, <1>6 DEF Next

LEMMA LimitsInvariant == Spec => []LimitsInv
<1>1. ASSUME Init PROVE LimitsInv
  <2>1. now = 1 /\ faults = 0 /\ bucket = [k \in Kind |-> [count |-> 0, reset |-> 0]]
    BY <1>1 DEF Init, InitLimits
  <2>2. MaxTime \in Nat \ {0} /\ MaxFaults \in Nat /\ WINDOW \in Nat /\ \A k \in Kind : Max[k] \in Nat
    BY LimitsOK, SiteOK
  <2> QED
    BY <2>1, <2>2 DEF LimitsInv
<1>2. LimitsInv /\ [Next]_vars => LimitsInv'
  BY LimitsStep
<1> QED
  BY <1>1, <1>2, PTL DEF Spec

\* The types of the site's state, and of the limits it runs under; no hold lasts
\* longer than the time to live from now.
THEOREM TypeInvariant == Spec => []TypeOK
<1>1. IInv => \A s \in Slot : booking[s].until <= now + HOLD_TTL
  BY DEF IInv, RowsOK, RowOK
<1>2. IInv /\ LimitsInv => TypeOK
  BY <1>1, Zenon DEF IInv, LimitsInv, Types, PickerType, TypeOK
<1> QED
  BY <1>2, LimitsInvariant, Inductive, PTL

\* In whatever order the answers to a customer's fetches come in, the slots
\* shown and the slot chosen are of the date the form holds.
THEOREM PickedSlots == Spec => []SlotsOfTheDate
<1>1. IInv => SlotsOfTheDate
  BY DEF IInv, PickersOK, PickerOK, SlotsOfTheDate
<1> QED
  BY <1>1, Inductive, PTL

\* "Verification sent" is shown only for a hold whose verification the API has
\* recorded, whether the key is new or was seen before, and whoever had the slot before.
THEOREM SentIsTakenUp == Spec => []SentMeansTakenUp
<1>1. IInv => SentMeansTakenUp
  BY DEF IInv
<1> QED
  BY <1>1, Inductive, PTL

-----------------------------------------------------------------------------
(* The rate limiter.                                                       *)

LimitTypes ==
  /\ now \in Nat /\ bucket \in [Kind -> [count : Nat, reset : Nat]]
  /\ \A k \in Kind : bucket[k].count \in 0 .. Max[k] + 1 /\ bucket[k].reset <= now + WINDOW

Pass == [at : Nat, nth : Nat]

\* What is remembered of the requests of kind k that were let through: they are of the
\* last WINDOW, of the current bucket or of the one before, and neither exceeds the limit.
PassesOK(k) ==
  /\ IsFiniteSet(passed[k])
  /\ \A x \in passed[k] : x.at <= now /\ now < x.at + WINDOW /\ x.at < bucket[k].reset
  /\ \A x \in JustNow(k) : x.nth <= Cardinality(JustNow(k))
  /\ Cardinality(OfBucket(k)) <= bucket[k].count /\ Cardinality(OfBucket(k)) <= Max[k]
  /\ Cardinality(passed[k] \ OfBucket(k)) <= Max[k]

PassesInv == passed \in [Kind -> SUBSET Pass] /\ \A k \in Kind : PassesOK(k)

LEMMA PartsFinite ==
  ASSUME NEW k \in Kind, IsFiniteSet(passed[k])
  PROVE  /\ IsFiniteSet(JustNow(k)) /\ Cardinality(JustNow(k)) \in Nat
         /\ IsFiniteSet(OfBucket(k)) /\ Cardinality(OfBucket(k)) \in Nat
         /\ IsFiniteSet(passed[k] \ OfBucket(k)) /\ Cardinality(passed[k] \ OfBucket(k)) \in Nat
<1>1. \A T \in SUBSET passed[k] : IsFiniteSet(T) /\ Cardinality(T) \in Nat
  BY FS_Subset, FS_CardinalityType
<1>2. JustNow(k) \in SUBSET passed[k] /\ OfBucket(k) \in SUBSET passed[k]
  BY DEF JustNow, OfBucket
<1>3. passed[k] \ OfBucket(k) \in SUBSET passed[k]
  OBVIOUS
<1> QED
  BY <1>1, <1>2, <1>3

\* The place given to a request is one that no other has.
LEMMA PassIsNew ==
  ASSUME NEW k \in Kind, PassesOK(k)
  PROVE  /\ NextPass(k).at = now /\ NextPass(k).nth = Cardinality(JustNow(k)) + 1
         /\ NextPass(k) \notin passed[k]
<1>1. NextPass(k).at = now /\ NextPass(k).nth = Cardinality(JustNow(k)) + 1
  BY DEF NextPass
<1>2. Cardinality(JustNow(k)) \in Nat
  BY PartsFinite DEF PassesOK
<1>3. NextPass(k) \in passed[k] => NextPass(k) \in JustNow(k)
  BY <1>1 DEF JustNow
<1>4. NextPass(k) \in JustNow(k) => NextPass(k).nth <= Cardinality(JustNow(k))
  BY DEF PassesOK
<1> QED
  BY <1>1, <1>2, <1>3, <1>4

\* One more request let through is one more of this time.
LEMMA OneMorePass ==
  ASSUME LimitTypes, passed \in [Kind -> SUBSET Pass], NEW k \in Kind, PassesOK(k), UNCHANGED now,
         passed'[k] = passed[k] \cup {NextPass(k)}
  PROVE  IsFiniteSet(passed'[k]) /\ \A x \in JustNow(k)' : x.nth <= Cardinality(JustNow(k)')
<1>1. PICK n : n = NextPass(k)
  OBVIOUS
<1>2. n.at = now /\ n.nth = Cardinality(JustNow(k)) + 1 /\ n \notin passed[k]
  BY <1>1, PassIsNew
<1>3. IsFiniteSet(passed'[k])
  BY FS_AddElement DEF PassesOK
<1>4. JustNow(k)' = JustNow(k) \cup {n} /\ n \notin JustNow(k)
  BY <1>1, <1>2 DEF JustNow
<1>5. IsFiniteSet(JustNow(k)) /\ Cardinality(JustNow(k)) \in Nat
  BY PartsFinite DEF PassesOK
<1>6. Cardinality(JustNow(k)') = Cardinality(JustNow(k)) + 1
  BY <1>4, <1>5, FS_AddElement
<1>7. \A x \in JustNow(k) : x.nth \in Nat /\ x.nth <= Cardinality(JustNow(k))
  BY DEF JustNow, PassesOK, Pass
<1>8. \A x \in JustNow(k)' : x.nth <= Cardinality(JustNow(k)')
  BY <1>2, <1>4, <1>5, <1>6, <1>7
<1> QED
  BY <1>3, <1>8

\* The first request of a bucket: all that is remembered is of the bucket before.
LEMMA FirstPass ==
  ASSUME LimitTypes, passed \in [Kind -> SUBSET Pass], NEW k \in Kind, PassesOK(k), Over(k), UNCHANGED now,
         passed'[k] = passed[k] \cup {NextPass(k)}, bucket'[k] = [count |-> 1, reset |-> now + WINDOW]
  PROVE  PassesOK(k)'
<1>0. PICK n : n = NextPass(k)
  OBVIOUS
<1>1. n.at = now /\ n \notin passed[k]
  BY <1>0, PassIsNew
<1>2. /\ Max[k] \in Nat \ {0} /\ WINDOW \in Nat \ {0} /\ now \in Nat /\ bucket[k].reset \in Nat
      /\ bucket'[k].reset = now + WINDOW /\ bucket'[k].count = 1
  BY LimitsOK DEF LimitTypes
<1>3. \A x \in passed[k] : /\ x.at \in Nat /\ x.at <= now /\ now < x.at + WINDOW
                           /\ x.at + WINDOW < now + WINDOW /\ bucket[k].reset <= x.at + WINDOW
  BY <1>2 DEF PassesOK, Over, Pass
<1>4. OfBucket(k)' = {n} /\ passed'[k] \ OfBucket(k)' = passed[k]
  BY <1>0, <1>1, <1>2, <1>3 DEF OfBucket
<1>5. passed[k] = OfBucket(k)
  BY <1>3 DEF OfBucket
<1>6. Cardinality(OfBucket(k)') = 1 /\ Cardinality(passed'[k] \ OfBucket(k)') <= Max[k]
  BY <1>4, <1>5, FS_Singleton DEF PassesOK
<1>7. \A x \in passed'[k] : x.at <= now /\ now < x.at + WINDOW /\ x.at < bucket'[k].reset
  BY <1>0, <1>1, <1>2, <1>3
<1>8. IsFiniteSet(passed'[k]) /\ \A x \in JustNow(k)' : x.nth <= Cardinality(JustNow(k)')
  BY OneMorePass
<1> QED
  BY <1>2, <1>6, <1>7, <1>8 DEF PassesOK

\* A further request of a bucket that is not full.
LEMMA NextOfBucket ==
  ASSUME LimitTypes, passed \in [Kind -> SUBSET Pass], NEW k \in Kind, PassesOK(k), ~Over(k), UNCHANGED now,
         bucket[k].count < Max[k], passed'[k] = passed[k] \cup {NextPass(k)},
         bucket'[k].count = bucket[k].count + 1, bucket'[k].reset = bucket[k].reset
  PROVE  PassesOK(k)'
<1>0. PICK n : n = NextPass(k)
  OBVIOUS
<1>1. n.at = now /\ n \notin passed[k]
  BY <1>0, PassIsNew
<1>2. /\ Max[k] \in Nat \ {0} /\ WINDOW \in Nat \ {0} /\ now \in Nat /\ bucket[k].reset \in Nat
      /\ bucket[k].reset <= now + WINDOW /\ bucket[k].count \in Nat /\ now < bucket[k].reset
  BY LimitsOK DEF LimitTypes, Over
<1>3. OfBucket(k)' = OfBucket(k) \cup {n} /\ passed'[k] \ OfBucket(k)' = passed[k] \ OfBucket(k)
  BY <1>0, <1>1, <1>2 DEF OfBucket
<1>4. n \notin OfBucket(k)
  BY <1>1 DEF OfBucket
<1>5. Cardinality(OfBucket(k)') = Cardinality(OfBucket(k)) + 1 /\ Cardinality(OfBucket(k)) \in Nat
  <2>1. IsFiniteSet(OfBucket(k))
    BY PartsFinite DEF PassesOK
  <2>2. PICK A : A = OfBucket(k)
    OBVIOUS
  <2>3. Cardinality(A \cup {n}) = Cardinality(A) + 1 /\ Cardinality(A) \in Nat
    BY <1>4, <2>1, <2>2, FS_AddElement, FS_CardinalityType
  <2> QED
    BY <1>3, <2>2, <2>3
<1>6. \A x \in passed'[k] : x.at <= now /\ now < x.at + WINDOW /\ x.at < bucket'[k].reset
  BY <1>0, <1>1, <1>2 DEF PassesOK
<1>7. IsFiniteSet(passed'[k]) /\ \A x \in JustNow(k)' : x.nth <= Cardinality(JustNow(k)')
  BY OneMorePass
<1>8. Cardinality(OfBucket(k)') <= bucket'[k].count /\ Cardinality(OfBucket(k)') <= Max[k]
  BY <1>2, <1>5 DEF PassesOK
<1>9. Cardinality(passed'[k] \ OfBucket(k)') <= Max[k]
  BY <1>3 DEF PassesOK
<1> QED
  BY <1>6, <1>7, <1>8, <1>9 DEF PassesOK

LEMMA CheckPasses ==
  ASSUME LimitTypes, PassesInv, NEW k \in Kind, Check(k), UNCHANGED now
  PROVE  PassesInv'
<1> USE DEF PassesInv
<1>1. /\ Max[k] \in Nat \ {0} /\ bucket[k].count \in 0 .. Max[k] + 1 /\ bucket[k].reset \in Nat
      /\ IsFiniteSet(passed[k])
  BY LimitsOK DEF LimitTypes, PassesOK
<1>2. bucket'[k] = IF Over(k) THEN [count |-> 1, reset |-> now + WINDOW]
                   ELSE [bucket[k] EXCEPT !.count = Saturated(k, @ + 1)]
  BY DEF Check, LimitTypes
<1>3. passed'[k] = IF Admits(k) THEN passed[k] \cup {NextPass(k)} ELSE passed[k]
  BY DEF Check
<1>4. ASSUME NEW j \in Kind \ {k} PROVE PassesOK(j)'
  <2>1. bucket'[j] = bucket[j] /\ passed'[j] = passed[j] /\ PassesOK(j)
    BY <1>4 DEF Check, LimitTypes
  <2>2. OfBucket(j)' = OfBucket(j) /\ JustNow(j)' = JustNow(j)
    BY <2>1 DEF OfBucket, JustNow
  <2> QED
    BY <2>1, <2>2 DEF PassesOK
<1>5. ASSUME Over(k) PROVE PassesOK(k)'
  <2>1. passed'[k] = passed[k] \cup {NextPass(k)} /\ bucket'[k] = [count |-> 1, reset |-> now + WINDOW]
    BY <1>2, <1>3, <1>5 DEF Admits
  <2> QED
    BY <1>5, <2>1, FirstPass
<1>6. ASSUME ~Over(k) PROVE PassesOK(k)'
  <2>1. bucket'[k].count = Saturated(k, bucket[k].count + 1) /\ bucket'[k].reset = bucket[k].reset
    BY <1>2, <1>6 DEF LimitTypes
  <2>2. CASE bucket[k].count < Max[k]
    <3>1. passed'[k] = passed[k] \cup {NextPass(k)} /\ bucket'[k].count = bucket[k].count + 1
      BY <1>1, <1>3, <2>1, <2>2 DEF Admits, Saturated
    <3> QED
      BY <1>6, <2>1, <2>2, <3>1, NextOfBucket
  <2>3. CASE ~(bucket[k].count < Max[k])
    <3>1. passed'[k] = passed[k] /\ Cardinality(OfBucket(k)) \in Nat /\ PassesOK(k)
      BY <1>1, <1>3, <1>6, <2>3, PartsFinite DEF Admits
    <3>2. bucket[k].count <= bucket'[k].count /\ bucket'[k].count \in Nat
      BY <1>1, <2>1, <2>3 DEF Saturated
    <3>3. OfBucket(k)' = OfBucket(k) /\ JustNow(k)' = JustNow(k)
      BY <2>1, <3>1 DEF OfBucket, JustNow
    <3> QED
      BY <1>1, <2>1, <3>1, <3>2, <3>3 DEF PassesOK
  <2> QED
    BY <2>2, <2>3
<1>7. passed' \in [Kind -> SUBSET Pass]
  <2>1. Cardinality(JustNow(k)) \in Nat /\ now \in Nat
    BY <1>1, PartsFinite DEF LimitTypes
  <2>2. NextPass(k) \in Pass
    BY <2>1 DEF NextPass, Pass
  <2> QED
    BY <2>2 DEF Check
<1> QED
  BY <1>4, <1>5, <1>6, <1>7

LEMMA TimePasses == ASSUME LimitTypes, PassesInv, PassTime PROVE PassesInv'
<1>1. now' = now + 1 /\ now \in Nat /\ WINDOW \in Nat /\ UNCHANGED bucket
  BY LimitsOK DEF PassTime, LimitTypes
<1>2. passed' \in [Kind -> SUBSET Pass]
      /\ \A k \in Kind : passed'[k] = {x \in passed[k] : x.at + WINDOW > now'}
  BY DEF PassTime, PassesInv
<1>3. ASSUME NEW k \in Kind PROVE PassesOK(k)'
  <2>1. /\ passed'[k] \in SUBSET passed[k] /\ OfBucket(k)' \in SUBSET OfBucket(k)
        /\ (passed'[k] \ OfBucket(k)') \in SUBSET (passed[k] \ OfBucket(k))
    BY <1>1, <1>2 DEF OfBucket
  <2>2. IsFiniteSet(passed[k]) /\ bucket[k].count \in Nat /\ Max[k] \in Nat /\ PassesOK(k)
    BY LimitsOK DEF PassesInv, PassesOK, LimitTypes
  <2>3. IsFiniteSet(passed'[k])
    BY <2>1, <2>2, FS_Subset
  <2>4. /\ Cardinality(OfBucket(k)') <= Cardinality(OfBucket(k))
        /\ Cardinality(passed'[k] \ OfBucket(k)') <= Cardinality(passed[k] \ OfBucket(k))
        /\ Cardinality(OfBucket(k)') \in Nat /\ Cardinality(OfBucket(k)) \in Nat
        /\ Cardinality(passed'[k] \ OfBucket(k)') \in Nat /\ Cardinality(passed[k] \ OfBucket(k)) \in Nat
    BY <2>1, <2>2, PartsFinite, FS_Subset, FS_CardinalityType
  <2>5. \A x \in passed[k] : x.at \in Nat /\ x.at <= now /\ x.at < bucket[k].reset
    BY <2>2 DEF PassesOK, PassesInv, Pass
  <2>6. \A x \in passed'[k] : x.at <= now' /\ now' < x.at + WINDOW /\ x.at < bucket'[k].reset
    BY <1>1, <1>2, <2>5
  <2>7. JustNow(k)' = {}
    BY <1>1, <1>2, <2>5 DEF JustNow
  <2> QED
    BY <1>1, <2>2, <2>3, <2>4, <2>6, <2>7 DEF PassesOK
<1> QED
  BY <1>2, <1>3 DEF PassesInv

LEMMA PassesLimited == ASSUME LimitTypes, PassesInv PROVE WindowLimit
<1> SUFFICES ASSUME NEW k \in Kind
             PROVE  Cardinality(passed[k]) <= 2 * Max[k] /\ Cardinality(OfBucket(k)) <= Max[k]
  BY DEF WindowLimit
<1> DEFINE A == OfBucket(k)
           B == passed[k] \ OfBucket(k)
<1>1. /\ IsFiniteSet(A) /\ IsFiniteSet(B) /\ Cardinality(A) \in Nat /\ Cardinality(B) \in Nat
      /\ Cardinality(A) <= Max[k] /\ Cardinality(B) <= Max[k] /\ Max[k] \in Nat
  BY PartsFinite, LimitsOK DEF PassesInv, PassesOK
<1>2. passed[k] = A \cup B /\ A \cap B = {}
  BY DEF OfBucket
<1> HIDE DEF A, B
<1>3. Cardinality(A \cup B) = Cardinality(A) + Cardinality(B)
  <2>1. Cardinality(A \cup B) = Cardinality(A) + Cardinality(B) - Cardinality(A \cap B)
    BY <1>1, FS_Union
  <2>2. Cardinality(A \cap B) = 0
    BY <1>2, FS_EmptySet
  <2> QED
    BY <1>1, <2>1, <2>2
<1> QED
  BY <1>1, <1>2, <1>3 DEF A

\* The limits are checked at the present moment, or time passes, or they stay.
LEMMA PassesStep == ASSUME LimitsInv, PassesInv, [Next]_vars PROVE PassesInv'
<1>1. LimitTypes
  BY LimitsOK DEF LimitsInv, LimitTypes
<1>2. CASE UNCHANGED limits
  <2>1. UNCHANGED <<now, bucket, passed>>
    BY <1>2 DEF limits
  <2>2. ASSUME NEW k \in Kind PROVE PassesOK(k)'
    <3>1. OfBucket(k)' = OfBucket(k) /\ JustNow(k)' = JustNow(k)
      BY <2>1 DEF OfBucket, JustNow
    <3> QED
      BY <2>1, <3>1 DEF PassesInv, PassesOK
  <2> QED
    BY <2>1, <2>2 DEF PassesInv
<1>3. CASE Tick
  BY <1>1, <1>3, TimePasses DEF Tick
<1>4. ASSUME NEW q \in Post, Hold(q) \/ Verify(q) PROVE PassesInv'
  <2>1. UNCHANGED now
    BY <1>4, Zenon DEF Hold, Verify
  <2>2. PICK k \in Kind : Check(k)
    BY <1>4, SiteOK DEF Hold, Verify
  <2> QED
    BY <1>1, <2>1, <2>2, CheckPasses
<1>5. CASE \/ \E c \in Customer : Pick(c) \/ \E q \in Post : Submit(c, q)
           \/ \E q \in Post : MakeKey(q)
           \/ \E m \in mails : Confirm(m)
  BY <1>2, <1>5 DEF Pick, Submit, MakeKey, Confirm
<1>6. CASE UNCHANGED vars
  BY <1>2, <1>6 DEF vars
<1> QED
  BY <1>3, <1>4, <1>5, <1>6 DEF Next

LEMMA PassesInit == ASSUME Init PROVE PassesInv
<1>1. passed = [k \in Kind |-> {}]
  BY DEF Init, InitLimits
<1>2. ASSUME NEW k \in Kind PROVE PassesOK(k)
  <2>1. passed[k] = {} /\ OfBucket(k) = {} /\ JustNow(k) = {} /\ passed[k] \ OfBucket(k) = {}
    BY <1>1 DEF OfBucket, JustNow
  <2>2. bucket[k].count = 0 /\ Max[k] \in Nat
    BY LimitsOK DEF Init, InitLimits
  <2>3. IsFiniteSet({}) /\ Cardinality({}) = 0
    BY FS_EmptySet
  <2> QED
    BY <2>1, <2>2, <2>3 DEF PassesOK
<1> QED
  BY <1>1, <1>2 DEF PassesInv

\* Wherever a stretch of one window begins, it lets through at most two windows' worth of
\* requests, and no bucket lets through more than its limit, however requests and resets
\* are ordered and however refused requests are counted.
THEOREM LimitPerWindow == Spec => []WindowLimit
<1>1. LimitsInv /\ PassesInv => WindowLimit
  BY PassesLimited, LimitsOK DEF LimitsInv, LimitTypes
<1> QED
  BY <1>1, PassesInit, PassesStep, LimitsInvariant, PTL DEF Spec
=============================================================================
