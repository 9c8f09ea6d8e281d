---------------------------- MODULE Availability ----------------------------
(***************************************************************************)
(* What customers are offered: getAvailability with its cache, the         *)
(* handlers that drop cached answers, and the round robin that picks the   *)
(* salesperson of a hold.                                                  *)
(*                                                                         *)
(* Of the bookings table only the occupancy is kept: what the row of a     *)
(* salesperson and an interval is worth to a reader.  The rest of those    *)
(* handlers is in module Bookings.  A reader reads the database, waits for *)
(* Graph and only then fills the cache; a writer commits and only then     *)
(* drops keys from it; both with other activities in between.  Entries     *)
(* grow old at any moment, so there is no clock.                           *)
(***************************************************************************)
EXTENDS Integers, Sequences, FiniteSets, Functions

CONSTANTS
  Staff,         \* the active salespersons, by display name
  Interval,      \* <<start, end>> of the bookings customers ask for
  Proc,          \* concurrent activities
  Asked,         \* the scopes customers ask availability for
  Offset,        \* time zone of each salesperson, and of the tenant at Union
  DayLength, OpenAt, CloseAt, SlotMinutes, BufferMinutes, Breaks,  \* business hours
  MaxRows,       \* bound on the bookings there can be
  None

Union == "__union__"
Person == {Staff[n] : n \in DOMAIN Staff}
Scope == Person \cup {Union}

ASSUME ConstantsOK ==
  /\ Len(Staff) > 0 /\ \A m, n \in DOMAIN Staff : Staff[m] = Staff[n] => m = n
  /\ Interval \subseteq {i \in Int \X Int : i[1] < i[2]}
  /\ Asked \subseteq Scope
  /\ Offset \in [Scope -> Int]
  /\ DayLength \in Nat \ {0} /\ SlotMinutes \in Nat \ {0} /\ BufferMinutes \in Nat
  /\ OpenAt \in Nat /\ CloseAt \in Nat /\ MaxRows \in Nat
  /\ None \notin Scope

VARIABLES
  taken,      \* what the bookings table says of a salesperson and an interval
  rr_cursor,
  cache,      \* availabilityCache: a partial function on keys <<scope, day>>
  req,        \* what each process is doing
  announced,  \* history: intervals occupied ever since their keys were last dropped
  last        \* history: who got the last hold that named no salesperson

vars == <<taken, rr_cursor, cache, req, announced, last>>

\* free: no row, or a canceled or expired one; lapsed: an open one past expires_at_utc.
Occupancy == {"free", "lapsed", "held", "confirmed"}
Place == Person \X Interval
Busy(x) == taken[x] \in {"held", "confirmed"}

-----------------------------------------------------------------------------
(* Days and slots, in the minutes of the instance                          *)

DayOf(scope, t) == (t + Offset[scope]) \div DayLength
Day == {DayOf(scope, i[1]) : scope \in Scope, i \in Interval}
CacheKey == Scope \X Day

Intersect(i, j) == i[1] < j[2] /\ j[1] < i[2]
\* slotOverlapsBusy
Near(i, j) == Intersect(i, <<j[1] - BufferMinutes, j[2] + BufferMinutes>>)

\* From opening to closing time.
Hours(scope, day) ==
  LET midnight == day * DayLength - Offset[scope] IN <<midnight + OpenAt, midnight + CloseAt>>

\* The slots of an open day that clear the breaks.  (The lead time only hides some.)
Slots(scope, day) ==
  LET local == {m \in {OpenAt + k * SlotMinutes : k \in 0..CloseAt} : m + SlotMinutes <= CloseAt}
      midnight == day * DayLength - Offset[scope]
  IN {<<midnight + m, midnight + m + SlotMinutes>> :
        m \in {n \in local : \A b \in Breaks : ~Intersect(<<n, n + SlotMinutes>>, b)}}

Targets(scope) == IF scope = Union THEN Person ELSE {scope}

\* A booking at j hides slot i of the day (only bookings within its hours are looked at).
Hides(j, i, key) == Intersect(j, Hours(key[1], key[2])) /\ Near(i, j)

\* Who is free in which slot, as the bookings are now.
FreeNow(key) ==
  {x \in Targets(key[1]) \X Slots(key[1], key[2]) :
     \A j \in Interval : Busy(<<x[1], j>>) => ~Hides(j, x[2], key)}

\* The keys of a changed booking: its day in the salesperson's zone, for both scopes.
OwnKeyOnly(x) == {<<x[1], DayOf(x[1], x[2][1])>>}                           \* mutant
Keys(x) == {<<scope, DayOf(x[1], x[2][1])>> : scope \in {x[1], Union}}

Entry == [slots : SUBSET UNION {Slots(k[1], k[2]) : k \in CacheKey}, late : BOOLEAN]

\* late: a key this reader is going to fill was dropped after it had read the bookings.
Request == [pc : {"idle", "read", "graph", "holdCommit", "drop", "clear"},
            key : CacheKey \cup {None},
            free : SUBSET (Person \X UNION {Slots(k[1], k[2]) : k \in CacheKey}),
            late : BOOLEAN,
            place : Place \cup {None}, union : BOOLEAN, skipped : SUBSET Person,
            dropping : SUBSET Place]
Idle == [pc |-> "idle", key |-> None, free |-> {}, late |-> FALSE, place |-> None,
         union |-> FALSE, skipped |-> {}, dropping |-> {}]

Begin(p) == req[p].pc = "idle"
Goto(p, q) == req' = [req EXCEPT ![p] = q]
Done(p) == Goto(p, Idle)
\* The step after a commit that changed the places X.
ThenDrop(p, X) == Goto(p, [Idle EXCEPT !.pc = "drop", !.dropping = X])

\* The row of x changes; it has not been occupied throughout.
Change(f) ==
  /\ taken' = [x \in Place |-> IF x \in DOMAIN f THEN f[x] ELSE taken[x]]
  /\ announced' = announced \ DOMAIN f
To(x, v) == [z \in {x} |-> v]
Move(x, y, v) == [z \in {x, y} |-> IF z = x THEN "free" ELSE v]

Init ==
  /\ taken = [x \in Place |-> "free"]
  /\ rr_cursor = 0
  /\ cache = [k \in {} |-> Idle]
  /\ req = [p \in Proc |-> Idle]
  /\ announced = {}
  /\ last = None

-----------------------------------------------------------------------------
(* getAvailability                                                         *)

\* No entry, or one past its 45 s.  (A fresh one is the answer: no step.)
Ask(p, key) ==
  /\ Begin(p)
  /\ key[1] \in Asked
  /\ key \notin DOMAIN cache
  /\ Goto(p, [Idle EXCEPT !.pc = "read", !.key = key])
  /\ UNCHANGED <<taken, rr_cursor, cache, announced, last>>

ReadBookings(p) ==
  /\ req[p].pc = "read"
  /\ Goto(p, [req[p] EXCEPT !.pc = "graph", !.free = FreeNow(req[p].key)])
  /\ UNCHANGED <<taken, rr_cursor, cache, announced, last>>

\* getGraphBusyMap has answered, for some salespersons perhaps with an error, that is
\* with nothing: what is left is cached, whatever has happened meanwhile.
FillCache(p) ==
  /\ req[p].pc = "graph"
  /\ LET q == req[p]
     IN \E graph \in SUBSET q.free :
          cache' = [k \in DOMAIN cache \cup {q.key} |->
                      IF k = q.key THEN [slots |-> {x[2] : x \in q.free \ graph}, late |-> q.late]
                      ELSE cache[k]]
  /\ Done(p)
  /\ UNCHANGED <<taken, rr_cursor, announced, last>>

\* 45 s have passed.
GrowOld(key) ==
  /\ key \in DOMAIN cache
  /\ cache' = Restrict(cache, DOMAIN cache \ {key})
  /\ UNCHANGED <<taken, rr_cursor, req, announced, last>>

\* invalidateAvailabilityCacheForStart for each changed place.
KeysDropped(K, p) ==
  /\ cache' = Restrict(cache, DOMAIN cache \ K)
  /\ req' = [q \in Proc |->
       IF q = p THEN Idle
       ELSE [req[q] EXCEPT !.late = @ \/ (req[q].pc = "graph" /\ req[q].key \in K)]]

Drop(p) ==
  /\ req[p].pc = "drop"
  /\ KeysDropped(UNION {Keys(x) : x \in req[p].dropping}, p)
  /\ announced' = announced \cup {x \in req[p].dropping : Busy(x)}
  /\ UNCHANGED <<taken, rr_cursor, last>>

-----------------------------------------------------------------------------
(* createHold: the round robin behind the tenant lock                      *)

NoTenantLock == Len(Staff) > 0                                              \* mutant
TenantLockFree == \A p \in Proc : req[p].pc # "holdCommit"

\* tryCreateHoldForSalespersonTx returns null; R are the free places that still have a
\* canceled or expired row, which is taken over without a look at what it intersects.
NotHoldable(x, R) ==
  \/ Busy(x)
  \/ /\ taken[x] = "free" /\ x \notin R
     /\ \E y \in Place : y[1] = x[1] /\ Busy(y) /\ Intersect(x[2], y[2])
  \/ taken[x] = "free" /\ Cardinality({y \in Place : taken[y] # "free"}) >= MaxRows  \* bound

\* The salespersons in the order they are tried, and the first who can be held.
Order(n) == ((rr_cursor + n) % Len(Staff)) + 1
Willing(i, away, R) ==
  {n \in 0..Len(Staff) - 1 :
     Staff[Order(n)] \notin away /\ ~NotHoldable(<<Staff[Order(n)], i>>, R)}

\* away: whom Graph called busy before the lock was taken.
HoldAny(p, i, away, R) ==
  /\ Begin(p)
  /\ TenantLockFree
  /\ \E n \in Willing(i, away, R) :
       /\ \A m \in Willing(i, away, R) : n <= m
       /\ Goto(p, [Idle EXCEPT !.pc = "holdCommit", !.place = <<Staff[Order(n)], i>>, !.union = TRUE,
                               !.skipped = {Staff[Order(m)] : m \in 0..(n - 1)}])
  /\ UNCHANGED <<taken, rr_cursor, cache, announced, last>>

HoldNamed(p, x, R) ==
  /\ Begin(p)
  /\ TenantLockFree
  /\ ~NotHoldable(x, R)
  /\ Goto(p, [Idle EXCEPT !.pc = "holdCommit", !.place = x])
  /\ UNCHANGED <<taken, rr_cursor, cache, announced, last>>

IndexOf(q) == CHOOSE n \in DOMAIN Staff : Staff[n] = q
PastTheEnd(q) == IndexOf(q)                                                  \* mutant
CursorAfter(q) == IndexOf(q) % Len(Staff)

\* If another row became active in the slot meanwhile the unique index may refuse.
HoldCommit(p) ==
  /\ req[p].pc = "holdCommit"
  /\ LET q == req[p] IN
     \/ /\ Change(To(q.place, "held"))
        /\ IF q.union THEN rr_cursor' = CursorAfter(q.place[1]) /\ last' = q.place[1]
           ELSE UNCHANGED <<rr_cursor, last>>
        /\ ThenDrop(p, {q.place})
     \/ /\ Busy(q.place)
        /\ Done(p)
        /\ UNCHANGED <<taken, announced, rr_cursor, last>>
  /\ UNCHANGED cache

\* A hold or a cancel repeated with its Idempotency-Key writes nothing here and drops the
\* keys of the booking again.
Repeated(p, x) ==
  /\ Begin(p)
  /\ ThenDrop(p, {x})
  /\ UNCHANGED <<taken, rr_cursor, cache, announced, last>>

-----------------------------------------------------------------------------
(* The other handlers, as they change the occupancy                        *)

\* confirmBooking, confirmBookingById: no key is dropped.
Confirm(x) ==
  /\ taken[x] \in {"held", "lapsed"}
  /\ taken' = [taken EXCEPT ![x] = "confirmed"]
  /\ UNCHANGED <<rr_cursor, cache, req, announced, last>>

\* cancelBooking: after the update, Graph and Zoom are called; then the keys go.
Cancel(p, x) ==
  /\ Begin(p)
  /\ taken[x] = "confirmed"
  /\ Change(To(x, "free"))
  /\ ThenDrop(p, {x})
  /\ UNCHANGED <<rr_cursor, cache, last>>

\* rescheduleBooking: the keys of the new start and of the start it read at first.
Reschedule(p, x, y, read) ==
  /\ Begin(p)
  /\ x[1] = y[1] /\ read[1] = x[1]
  /\ taken[x] = "confirmed" /\ taken[y] = "free"
  /\ Change(Move(x, y, "confirmed"))
  /\ ThenDrop(p, {read, y})
  /\ UNCHANGED <<rr_cursor, cache, last>>

\* The webhook reconciler: no key is dropped.
WebhookDeleted(x) ==
  /\ taken[x] # "free"
  /\ Change(To(x, "free"))
  /\ UNCHANGED <<rr_cursor, cache, req, last>>

WebhookMoved(x, y) ==
  /\ x # y /\ x[1] = y[1]
  /\ taken[x] # "free" /\ taken[y] = "free"
  /\ Change(Move(x, y, taken[x]))
  /\ UNCHANGED <<rr_cursor, cache, req, last>>

\* expires_at_utc passes.
Lapse(x) ==
  /\ taken[x] = "held"
  /\ Change(To(x, "lapsed"))
  /\ UNCHANGED <<rr_cursor, cache, req, last>>

\* expireHolds, and then the whole cache is cleared.
Sweep(p) ==
  /\ Begin(p)
  /\ LET lapsed == {x \in Place : taken[x] = "lapsed"}
     IN lapsed # {} /\ Change([x \in lapsed |-> "free"])
  /\ Goto(p, [Idle EXCEPT !.pc = "clear"])
  /\ UNCHANGED <<rr_cursor, cache, last>>

Clear(p) ==
  /\ req[p].pc = "clear"
  /\ KeysDropped(CacheKey, p)
  /\ UNCHANGED <<taken, rr_cursor, announced, last>>

-----------------------------------------------------------------------------
Continue(p) ==
  \/ ReadBookings(p) \/ FillCache(p) \/ Drop(p) \/ HoldCommit(p) \/ Clear(p)

Start(p) ==
  \/ \E key \in CacheKey : Ask(p, key)
  \/ \E i \in Interval, away \in SUBSET Person :
       \E R \in SUBSET (Person \X {i}) : HoldAny(p, i, away, R)
  \/ \E x \in Place : \E R \in SUBSET {x} : HoldNamed(p, x, R)
  \/ \E x \in Place : Repeated(p, x) \/ Cancel(p, x)
  \/ \E x, y, read \in Place : Reschedule(p, x, y, read)
  \/ Sweep(p)

Other ==
  \/ \E key \in CacheKey : GrowOld(key)
  \/ \E x \in Place : Confirm(x) \/ WebhookDeleted(x) \/ Lapse(x)
  \/ \E x, y \in Place : WebhookMoved(x, y)

Next == Other \/ \E p \in Proc : Start(p) \/ Continue(p)

Spec == Init /\ [][Next]_vars

-----------------------------------------------------------------------------
(* Properties.                                                             *)

TypeOK ==
  /\ taken \in [Place -> Occupancy]
  /\ rr_cursor \in 0..(Len(Staff) - 1)
  /\ DOMAIN cache \subseteq CacheKey /\ \A k \in DOMAIN cache : cache[k] \in Entry
  /\ req \in [Proc -> Request]
  /\ announced \subseteq {x \in Place : Busy(x)}
  /\ last \in Person \cup {None}

\* A booking of q at j hides slot i of the day on which, where q is, it begins.
HidesThatDay(q, j, i, key) == Hides(j, i, key) /\ key[2] = DayOf(q, j[1])

\* Once the handler that occupied an interval has dropped its keys, and for as
\* long as it stays occupied, no cached answer offers that time on the day the
\* booking begins in the salesperson's zone, unless its reader had read the bookings
\* before and filled the cache after.  (An answer for another day, which a booking
\* may reach past midnight or in the tenant's zone, keeps its entry: invalidation
\* never looks at it.)
OnlyLateReadersOffer ==
  \A k \in DOMAIN cache : ~cache[k].late =>
    \A i \in cache[k].slots : \E q \in Targets(k[1]) :
      \A j \in Interval : HidesThatDay(q, j, i, k) => <<q, j>> \notin announced

\* Two holds in a row that name no salesperson go to the same one only if the
\* second found every other one away or occupied.
RoundRobin ==
  \A p \in Proc : req[p].pc = "holdCommit" /\ req[p].union /\ req[p].place[1] = last
                    => req[p].skipped = Person \ {last}
=============================================================================
