-------------------------- MODULE Availability_proofs --------------------------
(***************************************************************************)
(* The type invariant of Availability; what the cache may offer; and that  *)
(* the round robin takes turns: for any number of salespersons, intervals  *)
(* and activities at once.                                                 *)
(***************************************************************************)
EXTENDS Availability, TLAPS

-----------------------------------------------------------------------------
(* Types.  A request that reads knows its key, one that commits a hold its *)
(* place.                                                                  *)

Aims ==
  \A p \in Proc : /\ req[p].pc \in {"read", "graph"} => req[p].key \in CacheKey
                  /\ req[p].pc = "holdCommit" => req[p].place \in Place

TInv == TypeOK /\ Aims

LEMMA StaffFacts == Len(Staff) \in Nat \ {0} /\ DOMAIN Staff = 1 .. Len(Staff)
  BY ConstantsOK

LEMMA IdleType == Idle \in Request /\ Idle.pc = "idle" /\ Idle.late = FALSE
  BY DEF Idle, Request

\* The records the actions put in req.
LEMMA DropType ==
  ASSUME NEW X \in SUBSET Place
  PROVE  LET r == [Idle EXCEPT !.pc = "drop", !.dropping = X] IN r \in Request /\ r.pc = "drop"
  BY IdleType, Zenon DEF Request

LEMMA AskType ==
  ASSUME NEW k \in CacheKey
  PROVE  LET r == [Idle EXCEPT !.pc = "read", !.key = k] IN r \in Request /\ r.pc = "read" /\ r.key = k
  BY IdleType, Zenon DEF Request

LEMMA GraphType ==
  ASSUME NEW r \in Request, NEW F \in SUBSET (Person \X UNION {Slots(k[1], k[2]) : k \in CacheKey})
  PROVE  LET g == [r EXCEPT !.pc = "graph", !.free = F]
         IN g \in Request /\ g.pc = "graph" /\ g.free = F /\ g.key = r.key /\ g.late = r.late
  BY Zenon DEF Request

LEMMA NamedType ==
  ASSUME NEW x \in Place
  PROVE  LET r == [Idle EXCEPT !.pc = "holdCommit", !.place = x]
         IN r \in Request /\ r.pc = "holdCommit" /\ r.place = x /\ r.union = FALSE
  BY IdleType, Zenon DEF Request, Idle

LEMMA ClearType == LET r == [Idle EXCEPT !.pc = "clear"] IN r \in Request /\ r.pc = "clear"
  BY IdleType, Zenon DEF Request

\* One request goes on.
LEMMA GotoOK ==
  ASSUME req \in [Proc -> Request], Aims, NEW p \in Proc, NEW r \in Request, Goto(p, r),
         r.pc \in {"read", "graph"} => r.key \in CacheKey, r.pc = "holdCommit" => r.place \in Place
  PROVE  req' \in [Proc -> Request] /\ Aims' /\ req'[p] = r /\ \A q \in Proc \ {p} : req'[q] = req[q]
<1>1. req' \in [Proc -> Request] /\ req'[p] = r /\ \A q \in Proc \ {p} : req'[q] = req[q]
  BY DEF Goto
<1> QED
  BY <1>1 DEF Aims

\* The rows of some places change, and what was announced of them is withdrawn.
AnnouncedOK == announced \subseteq {x \in Place : Busy(x)}

LEMMA ChangeOK ==
  ASSUME taken \in [Place -> Occupancy], AnnouncedOK, NEW f, Change(f),
         \A x \in DOMAIN f : f[x] \in Occupancy
  PROVE  taken' \in [Place -> Occupancy] /\ AnnouncedOK' /\ announced' \subseteq announced
  BY DEF Change, AnnouncedOK, Busy

LEMMA ToType == ASSUME NEW x, NEW v \in Occupancy PROVE \A y \in DOMAIN To(x, v) : To(x, v)[y] \in Occupancy
  BY DEF To

LEMMA MoveType ==
  ASSUME NEW x, NEW y, NEW v \in Occupancy PROVE \A z \in DOMAIN Move(x, y, v) : Move(x, y, v)[z] \in Occupancy
  BY DEF Move, Occupancy

CacheOK == DOMAIN cache \subseteq CacheKey /\ \A k \in DOMAIN cache : cache[k] \in Entry
TurnOK == rr_cursor \in 0..(Len(Staff) - 1) /\ last \in Person \cup {None}
RowsOK == taken \in [Place -> Occupancy]
ReqOK == req \in [Proc -> Request]

LEMMA TypeSplit == TypeOK <=> RowsOK /\ TurnOK /\ CacheOK /\ ReqOK /\ AnnouncedOK
  BY DEF TypeOK, RowsOK, TurnOK, CacheOK, ReqOK, AnnouncedOK

LEMMA InitType == Init => TInv
<1> SUFFICES ASSUME Init PROVE TInv
  OBVIOUS
<1>1. RowsOK /\ AnnouncedOK
  BY DEF Init, RowsOK, AnnouncedOK, Occupancy
<1>2. TurnOK
  BY StaffFacts DEF Init, TurnOK
<1>3. CacheOK
  BY DEF Init, CacheOK
<1>4. ReqOK /\ Aims
  BY IdleType DEF Init, ReqOK, Aims
<1> QED
  BY <1>1, <1>2, <1>3, <1>4, TypeSplit DEF TInv

LEMMA FreeNowType ==
  ASSUME NEW k \in CacheKey
  PROVE  FreeNow(k) \in SUBSET (Person \X UNION {Slots(e[1], e[2]) : e \in CacheKey})
<1>1. k[1] \in Scope /\ k[2] \in Day
  BY DEF CacheKey
<1>2. Targets(k[1]) \subseteq Person
  BY <1>1 DEF Targets, Scope
<1>3. Slots(k[1], k[2]) \subseteq UNION {Slots(e[1], e[2]) : e \in CacheKey}
  OBVIOUS
<1> QED
  BY <1>2, <1>3 DEF FreeNow

\* What is left of the cache and of another request when the keys K are dropped.
CacheWithout(K) == DOMAIN cache' = DOMAIN cache \ K /\ \A k \in DOMAIN cache' : cache'[k] = cache[k]
SameBut(q, K) ==
  /\ req'[q].pc = req[q].pc /\ req'[q].key = req[q].key /\ req'[q].free = req[q].free
  /\ req'[q].place = req[q].place /\ req'[q].union = req[q].union /\ req'[q].skipped = req[q].skipped
  /\ ~req'[q].late => ~req[q].late /\ ~(req[q].pc = "graph" /\ req[q].key \in K)

LEMMA DroppedType ==
  ASSUME CacheOK, ReqOK, Aims, NEW p \in Proc, NEW K, KeysDropped(K, p)
  PROVE  /\ CacheOK' /\ ReqOK' /\ Aims' /\ req'[p] = Idle
         /\ CacheWithout(K) /\ \A q \in Proc \ {p} : SameBut(q, K)
<1> DEFINE L(q) == req[q].late \/ (req[q].pc = "graph" /\ req[q].key \in K)
           r(q) == IF q = p THEN Idle ELSE [req[q] EXCEPT !.late = L(q)]
<1>1. \A q \in Proc : L(q) \in BOOLEAN /\ (~L(q) => ~req[q].late /\ ~(req[q].pc = "graph" /\ req[q].key \in K))
  BY DEF ReqOK, Request
<1>2. req' = [q \in Proc |-> r(q)]
  BY Zenon DEF KeysDropped
<1> HIDE DEF L
<1>11. ASSUME NEW q \in Proc
       PROVE  LET e == [req[q] EXCEPT !.late = L(q)] IN
              /\ e \in Request /\ e.pc = req[q].pc /\ e.key = req[q].key /\ e.free = req[q].free
              /\ e.place = req[q].place /\ e.union = req[q].union /\ e.skipped = req[q].skipped /\ e.late = L(q)
  BY <1>1, Zenon DEF ReqOK, Request
<1>3. \A q \in Proc : r(q) \in Request
  BY <1>11, IdleType
<1>4. cache' = Restrict(cache, DOMAIN cache \ K)
  BY DEF KeysDropped
<1>5. DOMAIN cache' = DOMAIN cache \ K /\ \A k \in DOMAIN cache' : cache'[k] = cache[k]
  BY <1>4 DEF Restrict
<1>6. req'[p] = Idle /\ \A q \in Proc \ {p} : req'[q] = [req[q] EXCEPT !.late = L(q)]
  BY <1>2
<1>7. CacheOK'
  BY <1>5 DEF CacheOK
<1>8. ReqOK'
  BY <1>2, <1>3 DEF ReqOK
<1>9. ASSUME NEW q \in Proc \ {p}
      PROVE  /\ req'[q].pc = req[q].pc /\ req'[q].key = req[q].key /\ req'[q].free = req[q].free
             /\ req'[q].place = req[q].place /\ req'[q].union = req[q].union /\ req'[q].skipped = req[q].skipped
             /\ req'[q].late = L(q)
  <2>1. req'[q] = [req[q] EXCEPT !.late = L(q)]
    BY <1>6
  <2>2. q \in Proc
    OBVIOUS
  <2> QED
    BY <1>11, <2>1, <2>2, Zenon
<1>10. Aims'
  BY <1>6, <1>9, IdleType DEF Aims
<1> QED
  BY <1>1, <1>5, <1>6, <1>7, <1>8, <1>9, <1>10 DEF CacheWithout, SameBut

\* A step after which the cache has nothing new, no more is announced, and no
\* other request has just read the bookings.
Quiet ==
  /\ DOMAIN cache' \subseteq DOMAIN cache /\ \A k \in DOMAIN cache' : cache'[k] = cache[k]
  /\ announced' \subseteq announced
  /\ \A p \in Proc : req'[p] = req[p] \/ req'[p].pc # "graph"

LEMMA Parts == TInv <=> RowsOK /\ TurnOK /\ CacheOK /\ ReqOK /\ AnnouncedOK /\ Aims
  BY TypeSplit DEF TInv

\* Steps of no request.
LEMMA OtherQuiet == ASSUME TInv, Other PROVE TInv' /\ Quiet /\ UNCHANGED <<req, rr_cursor, last>>
<1>1. RowsOK /\ TurnOK /\ CacheOK /\ ReqOK /\ AnnouncedOK /\ Aims
  BY Parts
<1>2. UNCHANGED <<req, rr_cursor, last>>
  BY DEF Other, GrowOld, Confirm, WebhookDeleted, Lapse, WebhookMoved
<1>3. TurnOK' /\ ReqOK' /\ Aims' /\ \A p \in Proc : req'[p] = req[p] \/ req'[p].pc # "graph"
  BY <1>1, <1>2 DEF TurnOK, ReqOK, Aims
<1>4. /\ RowsOK' /\ AnnouncedOK' /\ announced' \subseteq announced
  <2>1. ASSUME NEW f, Change(f), \A x \in DOMAIN f : f[x] \in Occupancy
        PROVE  RowsOK' /\ AnnouncedOK' /\ announced' \subseteq announced
    BY <1>1, <2>1, ChangeOK DEF RowsOK
  <2>2. ASSUME NEW x \in Place, Confirm(x) PROVE RowsOK' /\ AnnouncedOK' /\ announced' \subseteq announced
    BY <1>1, <2>2 DEF RowsOK, Occupancy, AnnouncedOK, Busy, Confirm
  <2>3. ASSUME NEW x \in Place, WebhookDeleted(x) \/ Lapse(x)
        PROVE  RowsOK' /\ AnnouncedOK' /\ announced' \subseteq announced
    <3>1. \E v \in Occupancy : Change(To(x, v))
      BY <2>3 DEF WebhookDeleted, Lapse, Occupancy
    <3> QED
      BY <2>1, <3>1, ToType
  <2>4. ASSUME NEW x \in Place, NEW y \in Place, WebhookMoved(x, y)
        PROVE  RowsOK' /\ AnnouncedOK' /\ announced' \subseteq announced
    <3>1. \E v \in Occupancy : Change(Move(x, y, v))
      BY <1>1, <2>4 DEF WebhookMoved, RowsOK
    <3> QED
      BY <2>1, <3>1, MoveType
  <2>5. ASSUME NEW k \in CacheKey, GrowOld(k) PROVE RowsOK' /\ AnnouncedOK' /\ announced' \subseteq announced
    BY <1>1, <2>5 DEF GrowOld, RowsOK, AnnouncedOK, Busy
  <2> QED
    BY <2>2, <2>3, <2>4, <2>5 DEF Other
<1>5. CacheOK' /\ DOMAIN cache' \subseteq DOMAIN cache /\ \A k \in DOMAIN cache' : cache'[k] = cache[k]
  <2>1. UNCHANGED cache \/ \E S \in SUBSET DOMAIN cache : cache' = Restrict(cache, S)
    BY DEF Other, GrowOld, Confirm, WebhookDeleted, Lapse, WebhookMoved
  <2> QED
    BY <1>1, <2>1 DEF Restrict, CacheOK
<1> QED
  BY <1>2, <1>3, <1>4, <1>5, PTL, TypeSplit DEF Quiet, TInv

\* A request that goes on to r, away from the bookings it may have read.
LEMMA GotoQuiet ==
  ASSUME TInv, RowsOK', AnnouncedOK', announced' \subseteq announced, UNCHANGED cache, TurnOK',
         NEW p \in Proc, NEW r \in Request, Goto(p, r), r.pc \notin {"graph"},
         r.pc = "read" => r.key \in CacheKey, r.pc = "holdCommit" => r.place \in Place
  PROVE  TInv' /\ Quiet
<1>1. CacheOK /\ ReqOK /\ Aims
  BY Parts
<1>2. ReqOK' /\ Aims' /\ req'[p] = r /\ \A q \in Proc \ {p} : req'[q] = req[q]
  BY <1>1, GotoOK DEF ReqOK
<1>3. CacheOK'
  BY <1>1 DEF CacheOK
<1>4. Quiet
  BY <1>2 DEF Quiet
<1>5. TInv'
  BY <1>2, <1>3, Parts, PTL
<1> QED
  BY <1>4, <1>5

LEMMA SameRows == ASSUME TInv, UNCHANGED <<taken, announced>> PROVE RowsOK' /\ AnnouncedOK' /\ announced' \subseteq announced
<1>1. RowsOK /\ AnnouncedOK
  BY Parts
<1> QED
  BY <1>1 DEF RowsOK, AnnouncedOK, Busy

LEMMA SameTurn == ASSUME TInv, UNCHANGED <<rr_cursor, last>> PROVE TurnOK'
<1>1. TurnOK
  BY Parts
<1> QED
  BY <1>1 DEF TurnOK

\* A commit that changes the rows of f, and what is then to be done.
LEMMA CommitQuiet ==
  ASSUME TInv, NEW f, Change(f), \A x \in DOMAIN f : f[x] \in Occupancy, UNCHANGED cache, TurnOK',
         NEW p \in Proc, (\E X \in SUBSET Place : ThenDrop(p, X)) \/ Goto(p, [Idle EXCEPT !.pc = "clear"])
  PROVE  TInv' /\ Quiet
<1>1. RowsOK' /\ AnnouncedOK' /\ announced' \subseteq announced
  BY Parts, ChangeOK DEF RowsOK
<1>2. ASSUME NEW X \in SUBSET Place, ThenDrop(p, X) PROVE TInv' /\ Quiet
  <2> DEFINE r == [Idle EXCEPT !.pc = "drop", !.dropping = X]
  <2>1. r \in Request /\ r.pc = "drop" /\ Goto(p, r)
    BY <1>2, DropType DEF ThenDrop
  <2> HIDE DEF r
  <2> QED
    BY <1>1, <2>1, GotoQuiet
<1>3. CASE Goto(p, [Idle EXCEPT !.pc = "clear"])
  <2> DEFINE r == [Idle EXCEPT !.pc = "clear"]
  <2>1. r \in Request /\ r.pc = "clear" /\ Goto(p, r)
    BY <1>3, ClearType
  <2> HIDE DEF r
  <2> QED
    BY <1>1, <2>1, GotoQuiet
<1> QED
  BY <1>2, <1>3

LEMMA ModRange == ASSUME NEW L \in Nat \ {0}, NEW a \in Nat PROVE a % L \in 0 .. (L - 1)
  OBVIOUS

LEMMA OrderOK == ASSUME TInv, NEW n \in 0 .. Len(Staff) - 1 PROVE Order(n) \in 1 .. Len(Staff) /\ Staff[Order(n)] \in Person
<1>1. rr_cursor \in Nat /\ Len(Staff) \in Nat \ {0}
  BY Parts, StaffFacts DEF TurnOK
<1>2. PICK L \in Nat \ {0} : L = Len(Staff)
  BY <1>1
<1>3. PICK a \in Nat : a = rr_cursor + n
  BY <1>1
<1>4. a % L \in 0 .. (L - 1)
  BY ModRange
<1>5. Order(n) \in 1 .. Len(Staff)
  BY <1>2, <1>3, <1>4 DEF Order
<1> QED
  BY <1>5, StaffFacts DEF Person

LEMMA CursorOK == ASSUME NEW q \in Person PROVE CursorAfter(q) \in 0 .. (Len(Staff) - 1) /\ IndexOf(q) \in 1 .. Len(Staff)
<1>1. IndexOf(q) \in 1 .. Len(Staff)
  BY StaffFacts DEF Person, IndexOf
<1>2. PICK L \in Nat \ {0} : L = Len(Staff)
  BY StaffFacts
<1>3. PICK a \in Nat : a = IndexOf(q)
  BY <1>1
<1>4. a % L \in 0 .. (L - 1)
  BY ModRange
<1> QED
  BY <1>1, <1>2, <1>3, <1>4 DEF CursorAfter

\* Whom a hold that names no salesperson has chosen, and whom it has skipped.
Chosen(r) ==
  \E n \in 0 .. Len(Staff) - 1 :
    r.place[1] = Staff[Order(n)] /\ r.skipped = {Staff[Order(m)] : m \in 0..(n - 1)}

LEMMA HoldAnyChooses ==
  ASSUME TInv, NEW p \in Proc, NEW i \in Interval, NEW away, NEW R, HoldAny(p, i, away, R)
  PROVE  \E r \in Request : r.pc = "holdCommit" /\ r.place \in Place /\ Chosen(r) /\ Goto(p, r)
<1>1. PICK n \in 0 .. Len(Staff) - 1 :
        Goto(p, [Idle EXCEPT !.pc = "holdCommit", !.place = <<Staff[Order(n)], i>>, !.union = TRUE,
                             !.skipped = {Staff[Order(m)] : m \in 0..(n - 1)}])
  BY DEF HoldAny, Willing
<1>2. PICK x \in Place : x = <<Staff[Order(n)], i>>
  BY OrderOK DEF Place
<1>3. {Staff[Order(m)] : m \in 0..(n - 1)} \in SUBSET Person
  BY OrderOK, StaffFacts
<1>4. PICK S \in SUBSET Person : S = {Staff[Order(m)] : m \in 0..(n - 1)}
  BY <1>3
<1> DEFINE r == [Idle EXCEPT !.pc = "holdCommit", !.place = x, !.union = TRUE, !.skipped = S]
<1>5. r \in Request /\ r.pc = "holdCommit" /\ r.place = x /\ r.skipped = S
  <2>1. x \in Place /\ S \in SUBSET Person
    OBVIOUS
  <2> QED
    BY <2>1, IdleType, Zenon DEF Request
<1>6. Goto(p, r)
  BY <1>1, <1>2, <1>4
<1> HIDE DEF r
<1>7. Chosen(r)
  BY <1>2, <1>4, <1>5 DEF Chosen
<1> QED
  BY <1>5, <1>6, <1>7

\* What a request begins.
LEMMA StartQuiet == ASSUME TInv, NEW p \in Proc, Start(p) PROVE TInv' /\ Quiet
<1>1. RowsOK /\ TurnOK /\ CacheOK /\ ReqOK /\ AnnouncedOK /\ Aims
  BY Parts
<1>2. ASSUME NEW k \in CacheKey, Ask(p, k) PROVE TInv' /\ Quiet
  <2> DEFINE r == [Idle EXCEPT !.pc = "read", !.key = k]
  <2>1. r \in Request /\ r.pc = "read" /\ r.key = k /\ Goto(p, r)
    BY <1>2, AskType DEF Ask
  <2> HIDE DEF r
  <2>2. UNCHANGED <<taken, rr_cursor, cache, announced, last>>
    BY <1>2 DEF Ask
  <2> QED
    BY <2>1, <2>2, SameRows, SameTurn, GotoQuiet
<1>3. ASSUME NEW i \in Interval, NEW away \in SUBSET Person, NEW R, HoldAny(p, i, away, R) PROVE TInv' /\ Quiet
  <2>1. PICK r \in Request : r.pc = "holdCommit" /\ r.place \in Place /\ Goto(p, r)
    BY <1>3, HoldAnyChooses
  <2>2. UNCHANGED <<taken, rr_cursor, cache, announced, last>>
    BY <1>3 DEF HoldAny
  <2> QED
    BY <2>1, <2>2, SameRows, SameTurn, GotoQuiet
<1>4. ASSUME NEW x \in Place, NEW R, HoldNamed(p, x, R) PROVE TInv' /\ Quiet
  <2> DEFINE r == [Idle EXCEPT !.pc = "holdCommit", !.place = x]
  <2>1. r \in Request /\ r.pc = "holdCommit" /\ r.place = x /\ Goto(p, r)
    BY <1>4, NamedType DEF HoldNamed
  <2> HIDE DEF r
  <2>2. UNCHANGED <<taken, rr_cursor, cache, announced, last>>
    BY <1>4 DEF HoldNamed
  <2> QED
    BY <2>1, <2>2, SameRows, SameTurn, GotoQuiet
<1>5. ASSUME NEW x \in Place, Repeated(p, x) PROVE TInv' /\ Quiet
  <2> DEFINE r == [Idle EXCEPT !.pc = "drop", !.dropping = {x}]
  <2>1. r \in Request /\ r.pc = "drop" /\ Goto(p, r)
    BY <1>5, DropType DEF Repeated, ThenDrop
  <2> HIDE DEF r
  <2>2. UNCHANGED <<taken, rr_cursor, cache, announced, last>>
    BY <1>5 DEF Repeated
  <2> QED
    BY <2>1, <2>2, SameRows, SameTurn, GotoQuiet
<1>6. ASSUME NEW x \in Place, Cancel(p, x) PROVE TInv' /\ Quiet
  <2>1. Change(To(x, "free")) /\ ThenDrop(p, {x}) /\ UNCHANGED <<rr_cursor, cache, last>> /\ {x} \in SUBSET Place
    BY <1>6 DEF Cancel
  <2>2. \A y \in DOMAIN To(x, "free") : To(x, "free")[y] \in Occupancy
    BY ToType DEF Occupancy
  <2> QED
    BY <2>1, <2>2, SameTurn, CommitQuiet
<1>7. ASSUME NEW x \in Place, NEW y \in Place, NEW read \in Place, Reschedule(p, x, y, read) PROVE TInv' /\ Quiet
  <2> DEFINE f == Move(x, y, "confirmed")
  <2>1. Change(f) /\ ThenDrop(p, {read, y}) /\ UNCHANGED <<rr_cursor, cache, last>> /\ {read, y} \in SUBSET Place
    BY <1>7 DEF Reschedule
  <2>2. \A z \in DOMAIN f : f[z] \in Occupancy
    BY MoveType DEF Occupancy
  <2> HIDE DEF f
  <2> QED
    BY <2>1, <2>2, SameTurn, CommitQuiet
<1>8. ASSUME Sweep(p) PROVE TInv' /\ Quiet
  <2> DEFINE lapsed == {x \in Place : taken[x] = "lapsed"}
             f == [x \in lapsed |-> "free"]
  <2>1. Change(f) /\ Goto(p, [Idle EXCEPT !.pc = "clear"]) /\ UNCHANGED <<rr_cursor, cache, last>>
    BY <1>8 DEF Sweep
  <2>2. \A z \in DOMAIN f : f[z] \in Occupancy
    BY DEF Occupancy
  <2> HIDE DEF f
  <2> QED
    BY <2>1, <2>2, SameTurn, CommitQuiet
<1> QED
  BY <1>2, <1>3, <1>4, <1>5, <1>6, <1>7, <1>8 DEF Start

LEMMA HoldCommitQuiet == ASSUME TInv, NEW p \in Proc, HoldCommit(p) PROVE TInv' /\ Quiet
<1> DEFINE q == req[p]
           f == To(q.place, "held")
<1>1. RowsOK /\ TurnOK /\ CacheOK /\ ReqOK /\ AnnouncedOK /\ Aims /\ q.place \in Place /\ UNCHANGED cache
  BY Parts DEF HoldCommit, Aims
<1>2. CASE Done(p) /\ UNCHANGED <<taken, announced, rr_cursor, last>>
  BY <1>1, <1>2, IdleType, SameRows, SameTurn, GotoQuiet DEF Done
<1>3. CASE /\ Change(f) /\ ThenDrop(p, {q.place})
           /\ IF q.union THEN rr_cursor' = CursorAfter(q.place[1]) /\ last' = q.place[1]
              ELSE UNCHANGED <<rr_cursor, last>>
  <2>1. q.place[1] \in Person /\ {q.place} \in SUBSET Place
    BY <1>1 DEF Place
  <2>2. TurnOK'
    BY <1>1, <1>3, <2>1, CursorOK DEF TurnOK
  <2>3. \A y \in DOMAIN f : f[y] \in Occupancy
    BY ToType DEF Occupancy
  <2> HIDE DEF f
  <2> QED
    BY <1>1, <1>3, <2>1, <2>2, <2>3, CommitQuiet
<1> QED
  BY <1>2, <1>3 DEF HoldCommit

-----------------------------------------------------------------------------
(* What the cache offers.  A reader that is not late has seen every booking *)
(* announced by now that could hide a slot of its answer: one announced     *)
(* later would have dropped the reader's key.                               *)

ReadersKnow ==
  \A p \in Proc : req[p].pc = "graph" /\ ~req[p].late =>
    \A x \in req[p].free :
      /\ x[1] \in Targets(req[p].key[1])
      /\ \A j \in Interval : HidesThatDay(x[1], j, x[2], req[p].key) => <<x[1], j>> \notin announced

Offers == ReadersKnow /\ OnlyLateReadersOffer

LEMMA QuietOffers == ASSUME Offers, Quiet PROVE Offers'
<1>1. OnlyLateReadersOffer'
  BY DEF Offers, OnlyLateReadersOffer, Quiet
<1>2. ReadersKnow'
  <2> SUFFICES ASSUME NEW p \in Proc, req'[p].pc = "graph", ~req'[p].late, NEW x \in req'[p].free
               PROVE  /\ x[1] \in Targets(req'[p].key[1])
                      /\ \A j \in Interval : HidesThatDay(x[1], j, x[2], req'[p].key) => <<x[1], j>> \notin announced'
    BY DEF ReadersKnow
  <2>1. req'[p] = req[p]
    BY DEF Quiet
  <2> QED
    BY <2>1 DEF Quiet, Offers, ReadersKnow
<1> QED
  BY <1>1, <1>2 DEF Offers

\* A booking that hides a slot of an answer drops the key of that answer.
LEMMA HiddenKey ==
  ASSUME NEW k \in CacheKey, NEW q \in Targets(k[1]), NEW j \in Interval, NEW i, HidesThatDay(q, j, i, k)
  PROVE  k \in Keys(<<q, j>>)
<1>1. k = <<k[1], k[2]>> /\ k[1] \in {q, Union}
  BY DEF CacheKey, Targets
<1>2. k[2] = DayOf(q, j[1])
  BY DEF HidesThatDay
<1>3. Keys(<<q, j>>) = {<<scope, DayOf(q, j[1])>> : scope \in {q, Union}}
  BY DEF Keys
<1> QED
  BY <1>1, <1>2, <1>3

LEMMA ReadStep == ASSUME TInv, NEW p \in Proc, ReadBookings(p) PROVE TInv' /\ (Offers => Offers')
<1> DEFINE k == req[p].key
           r == [req[p] EXCEPT !.pc = "graph", !.free = FreeNow(k)]
<1>1. RowsOK /\ TurnOK /\ CacheOK /\ ReqOK /\ AnnouncedOK /\ Aims /\ k \in CacheKey /\ req[p] \in Request
  BY Parts DEF ReadBookings, Aims, ReqOK
<1>2. UNCHANGED <<taken, rr_cursor, cache, announced, last>> /\ Goto(p, r)
  BY DEF ReadBookings
<1>3. FreeNow(k) \in SUBSET (Person \X UNION {Slots(e[1], e[2]) : e \in CacheKey})
  BY <1>1, FreeNowType
<1> HIDE DEF k
<1>4. r \in Request /\ r.pc = "graph" /\ r.free = FreeNow(k) /\ r.key = k
  BY <1>1, <1>3, GraphType DEF k
<1> HIDE DEF r
<1>5. ReqOK' /\ Aims' /\ req'[p] = r /\ \A q \in Proc \ {p} : req'[q] = req[q]
  BY <1>1, <1>2, <1>4, GotoOK DEF ReqOK
<1>6. TInv'
  <2>1. RowsOK' /\ AnnouncedOK' /\ TurnOK' /\ CacheOK'
    BY <1>1, <1>2 DEF RowsOK, AnnouncedOK, Busy, TurnOK, CacheOK
  <2> QED
    BY <1>5, <2>1, Parts, PTL
<1>7. ASSUME NEW x \in FreeNow(k)
      PROVE  x[1] \in Targets(k[1]) /\ \A j \in Interval : HidesThatDay(x[1], j, x[2], k) => <<x[1], j>> \notin announced
  BY <1>1, <1>7 DEF FreeNow, AnnouncedOK, HidesThatDay
<1>8. ASSUME Offers PROVE ReadersKnow'
  BY <1>2, <1>4, <1>5, <1>7, <1>8 DEF Offers, ReadersKnow
<1>9. ASSUME Offers PROVE OnlyLateReadersOffer'
  BY <1>2, <1>9 DEF Offers, OnlyLateReadersOffer
<1> QED
  BY <1>6, <1>8, <1>9 DEF Offers

LEMMA FillStep == ASSUME TInv, NEW p \in Proc, FillCache(p) PROVE TInv' /\ (Offers => Offers')
<1> DEFINE q == req[p]
           k == q.key
<1>1. RowsOK /\ TurnOK /\ CacheOK /\ ReqOK /\ AnnouncedOK /\ Aims /\ k \in CacheKey /\ q \in Request /\ q.pc = "graph"
  BY Parts DEF FillCache, Aims, ReqOK
<1>2. PICK graph \in SUBSET q.free :
        cache' = [e \in DOMAIN cache \cup {k} |->
                    IF e = k THEN [slots |-> {x[2] : x \in q.free \ graph}, late |-> q.late] ELSE cache[e]]
  BY DEF FillCache
<1> DEFINE entry == [slots |-> {x[2] : x \in q.free \ graph}, late |-> q.late]
<1>3. UNCHANGED <<taken, rr_cursor, announced, last>> /\ Goto(p, Idle)
  BY DEF FillCache, Done
<1>4. q.free \subseteq Person \X UNION {Slots(e[1], e[2]) : e \in CacheKey} /\ q.late \in BOOLEAN
  BY <1>1 DEF Request
<1>5. entry \in Entry /\ entry.slots = {x[2] : x \in q.free \ graph} /\ entry.late = q.late
  BY <1>4 DEF Entry
<1>6. cache' = [e \in DOMAIN cache \cup {k} |-> IF e = k THEN entry ELSE cache[e]]
  BY <1>2
<1> HIDE DEF entry
<1>7. ReqOK' /\ Aims' /\ req'[p] = Idle /\ \A e \in Proc \ {p} : req'[e] = req[e]
  BY <1>1, <1>3, IdleType, GotoOK DEF ReqOK
<1>8. TInv'
  <2>1. RowsOK' /\ AnnouncedOK' /\ TurnOK'
    BY <1>1, <1>3 DEF RowsOK, AnnouncedOK, Busy, TurnOK
  <2>2. CacheOK'
    BY <1>1, <1>5, <1>6 DEF CacheOK
  <2> QED
    BY <1>7, <2>1, <2>2, Parts, PTL
<1>9. ASSUME Offers PROVE ReadersKnow'
  BY <1>3, <1>7, <1>9, IdleType DEF Offers, ReadersKnow
<1>10. ASSUME Offers PROVE OnlyLateReadersOffer'
  <2> SUFFICES ASSUME NEW e \in DOMAIN cache', ~cache'[e].late, NEW i \in cache'[e].slots
               PROVE  \E s \in Targets(e[1]) : \A j \in Interval : HidesThatDay(s, j, i, e) => <<s, j>> \notin announced'
    BY DEF OnlyLateReadersOffer
  <2>1. CASE e = k
    <3>1. cache'[e] = entry
      BY <1>6, <2>1
    <3>2. PICK x \in q.free : i = x[2]
      BY <1>5, <3>1
    <3>3. ~q.late
      BY <1>5, <3>1
    <3> QED
      BY <1>1, <1>3, <1>10, <2>1, <3>2, <3>3 DEF Offers, ReadersKnow
  <2>2. CASE e # k
    BY <1>3, <1>6, <1>10, <2>2 DEF Offers, OnlyLateReadersOffer
  <2> QED
    BY <2>1, <2>2
<1> QED
  BY <1>8, <1>9, <1>10 DEF Offers

LEMMA DropStep ==
  ASSUME TInv, NEW p \in Proc, Drop(p)
  PROVE  TInv' /\ (Offers => Offers')
<1>1. RowsOK /\ TurnOK /\ CacheOK /\ ReqOK /\ AnnouncedOK /\ Aims /\ req[p].dropping \subseteq Place
  BY Parts DEF ReqOK, Request
<1>0. PICK D \in SUBSET Place : D = req[p].dropping
  BY <1>1
<1> DEFINE K == UNION {Keys(x) : x \in D}
<1>2. KeysDropped(K, p) /\ announced' = announced \cup {x \in D : Busy(x)} /\ UNCHANGED <<taken, rr_cursor, last>>
  BY <1>0 DEF Drop
<1>3. \A k \in CacheKey \ K : \A q \in Targets(k[1]) : \A j \in Interval : \A i :
        HidesThatDay(q, j, i, k) => <<q, j>> \notin D
  BY HiddenKey
<1> HIDE DEF K
<1>4. /\ CacheOK' /\ ReqOK' /\ Aims' /\ req'[p] = Idle
      /\ CacheWithout(K) /\ \A q \in Proc \ {p} : SameBut(q, K)
  BY <1>1, <1>2, DroppedType
<1>5. TInv'
  <2>1. RowsOK' /\ AnnouncedOK' /\ TurnOK'
    BY <1>1, <1>2 DEF RowsOK, AnnouncedOK, Busy, TurnOK
  <2> QED
    BY <1>4, <2>1, Parts, PTL
<1>6. ASSUME Offers PROVE OnlyLateReadersOffer'
  <2> SUFFICES ASSUME NEW k \in DOMAIN cache', ~cache'[k].late, NEW i \in cache'[k].slots
               PROVE  \E s \in Targets(k[1]) : \A j \in Interval : HidesThatDay(s, j, i, k) => <<s, j>> \notin announced'
    BY DEF OnlyLateReadersOffer
  <2>1. k \in DOMAIN cache /\ k \in CacheKey \ K /\ cache'[k] = cache[k]
    BY <1>1, <1>4 DEF CacheOK, CacheWithout
  <2>2. PICK s \in Targets(k[1]) : \A j \in Interval : HidesThatDay(s, j, i, k) => <<s, j>> \notin announced
    BY <1>6, <2>1 DEF Offers, OnlyLateReadersOffer
  <2> QED
    BY <1>2, <1>3, <1>6, <2>1, <2>2
<1>7. ASSUME Offers PROVE ReadersKnow'
  <2> SUFFICES ASSUME NEW q \in Proc, req'[q].pc = "graph", ~req'[q].late, NEW x \in req'[q].free
               PROVE  /\ x[1] \in Targets(req'[q].key[1])
                      /\ \A j \in Interval : HidesThatDay(x[1], j, x[2], req'[q].key) => <<x[1], j>> \notin announced'
    BY DEF ReadersKnow
  <2>1. q # p
    BY <1>4, IdleType
  <2>2. /\ req[q].pc = "graph" /\ req'[q].key = req[q].key /\ x \in req[q].free /\ ~req[q].late
        /\ req[q].key \in CacheKey \ K
    BY <1>1, <1>4, <2>1 DEF Aims, SameBut
  <2>3. /\ x[1] \in Targets(req[q].key[1])
        /\ \A j \in Interval : HidesThatDay(x[1], j, x[2], req[q].key) => <<x[1], j>> \notin announced
    BY <1>7, <2>2 DEF Offers, ReadersKnow
  <2> QED
    BY <1>2, <1>3, <1>7, <2>2, <2>3
<1> QED
  BY <1>5, <1>6, <1>7 DEF Offers

LEMMA ClearStep == ASSUME TInv, NEW p \in Proc, Clear(p) PROVE TInv' /\ (Offers => Offers')
<1>1. RowsOK /\ TurnOK /\ CacheOK /\ ReqOK /\ AnnouncedOK /\ Aims
  BY Parts
<1>2. KeysDropped(CacheKey, p) /\ UNCHANGED <<taken, rr_cursor, announced, last>>
  BY DEF Clear
<1>3. /\ CacheOK' /\ ReqOK' /\ Aims' /\ req'[p] = Idle
      /\ CacheWithout(CacheKey) /\ \A q \in Proc \ {p} : SameBut(q, CacheKey)
  BY <1>1, <1>2, DroppedType
<1>4. TInv'
  <2>1. RowsOK' /\ AnnouncedOK' /\ TurnOK'
    BY <1>1, <1>2 DEF RowsOK, AnnouncedOK, Busy, TurnOK
  <2> QED
    BY <1>3, <2>1, Parts, PTL
<1>5. OnlyLateReadersOffer'
  <2>1. DOMAIN cache' = {}
    BY <1>1, <1>3 DEF CacheOK, CacheWithout
  <2> QED
    BY <2>1 DEF OnlyLateReadersOffer
<1>6. ReadersKnow'
  <2>1. ASSUME NEW q \in Proc, req'[q].pc = "graph" PROVE req'[q].late
    <3>1. q # p
      BY <1>3, <2>1, IdleType
    <3>2. req[q].pc = "graph" /\ req[q].key \in CacheKey
      BY <1>1, <1>3, <2>1, <3>1 DEF Aims, SameBut
    <3> QED
      BY <1>3, <3>1, <3>2 DEF SameBut
  <2> QED
    BY <2>1 DEF ReadersKnow
<1> QED
  BY <1>4, <1>5, <1>6 DEF Offers

\* Every step.
LEMMA NextOffers == ASSUME TInv, [Next]_vars PROVE TInv' /\ (Offers => Offers')
<1>1. ASSUME NEW p \in Proc, Continue(p) PROVE TInv' /\ (Offers => Offers')
  <2>1. CASE HoldCommit(p)
    BY <2>1, HoldCommitQuiet, QuietOffers
  <2>2. CASE ReadBookings(p)
    BY <2>2, ReadStep
  <2>3. CASE FillCache(p)
    BY <2>3, FillStep
  <2>4. CASE Drop(p)
    BY <2>4, DropStep
  <2>5. CASE Clear(p)
    BY <2>5, ClearStep
  <2> QED
    BY <1>1, <2>1, <2>2, <2>3, <2>4, <2>5 DEF Continue
<1>2. ASSUME NEW p \in Proc, Start(p) PROVE TInv' /\ (Offers => Offers')
  BY <1>2, StartQuiet, QuietOffers
<1>3. CASE Other
  BY <1>3, OtherQuiet, QuietOffers
<1>4. CASE UNCHANGED vars
  <2>1. RowsOK' /\ TurnOK' /\ CacheOK' /\ ReqOK' /\ AnnouncedOK' /\ Aims'
    BY <1>4, Parts DEF vars, RowsOK, TurnOK, CacheOK, ReqOK, AnnouncedOK, Busy, Aims
  <2>2. TInv'
    BY <2>1, Parts, PTL
  <2>3. Quiet
    BY <1>4 DEF vars, Quiet
  <2> QED
    BY <2>2, <2>3, QuietOffers
<1> QED
  BY <1>1, <1>2, <1>3, <1>4 DEF Next

LEMMA AlwaysTyped == Spec => []TInv
<1>1. TInv /\ [Next]_vars => TInv'
  BY NextOffers
<1> QED
  BY <1>1, InitType, PTL DEF Spec

\* The variables keep their types, and only occupied places are announced.
THEOREM TypeInvariant == Spec => []TypeOK
<1>1. TInv => TypeOK
  BY DEF TInv
<1> QED
  BY <1>1, AlwaysTyped, PTL

\* Whatever the zones of tenant and salespersons: for the day on which an announced booking
\* begins in its salesperson's zone, no cached answer offers its time, unless the reader
\* read the bookings before the keys were dropped and filled the cache after.
THEOREM OffersKnown == Spec => []OnlyLateReadersOffer
<1>1. Init => Offers
  BY IdleType DEF Init, Offers, ReadersKnow, OnlyLateReadersOffer
<1>2. TInv /\ Offers /\ [Next]_vars => Offers'
  BY NextOffers
<1>3. Offers => OnlyLateReadersOffer
  BY DEF Offers
<1> QED
  BY <1>1, <1>2, <1>3, AlwaysTyped, PTL DEF Spec

-----------------------------------------------------------------------------
(* The round robin.  The cursor stands behind whoever got the last hold, the *)
(* tenant lock admits one hold at a time, and the holder has skipped all     *)
(* between the cursor and the salesperson it chose.                          *)

CursorBehind == last # None => rr_cursor = CursorAfter(last)
OneHolder == \A p, q \in Proc : req[p].pc = "holdCommit" /\ req[q].pc = "holdCommit" => p = q
InTurn == \A p \in Proc : req[p].pc = "holdCommit" /\ req[p].union => Chosen(req[p])
Turns == CursorBehind /\ OneHolder /\ InTurn

\* A step that begins no hold and commits none.
Keep ==
  /\ UNCHANGED <<rr_cursor, last>>
  /\ \A q \in Proc : req'[q].pc = "holdCommit" =>
       /\ req[q].pc = "holdCommit"
       /\ req'[q].place = req[q].place /\ req'[q].union = req[q].union /\ req'[q].skipped = req[q].skipped

LEMMA KeepTurns == ASSUME Turns, Keep PROVE Turns'
<1>1. CursorBehind'
  BY DEF Turns, CursorBehind, Keep, CursorAfter
<1>2. OneHolder'
  BY DEF Turns, OneHolder, Keep
<1>3. InTurn'
  <2> SUFFICES ASSUME NEW p \in Proc, req'[p].pc = "holdCommit", req'[p].union PROVE Chosen(req[p])'
    BY DEF InTurn
  <2>1. /\ req[p].pc = "holdCommit" /\ req[p].union /\ UNCHANGED rr_cursor
        /\ req'[p].place = req[p].place /\ req'[p].skipped = req[p].skipped
    BY DEF Keep
  <2>2. Chosen(req[p])
    BY <2>1 DEF Turns, InTurn
  <2> QED
    BY <2>1, <2>2 DEF Chosen, Order
<1> QED
  BY <1>1, <1>2, <1>3 DEF Turns

LEMMA GotoKeep ==
  ASSUME TInv, NEW p \in Proc, NEW r \in Request, Goto(p, r), r.pc # "holdCommit", UNCHANGED <<rr_cursor, last>>
  PROVE  Keep
<1>1. req'[p] = r /\ \A q \in Proc \ {p} : req'[q] = req[q]
  BY Parts DEF ReqOK, Goto
<1> QED
  BY <1>1 DEF Keep

LEMMA DropKeep ==
  ASSUME TInv, NEW p \in Proc, NEW X \in SUBSET Place, ThenDrop(p, X), UNCHANGED <<rr_cursor, last>>
  PROVE  Keep
<1> DEFINE r == [Idle EXCEPT !.pc = "drop", !.dropping = X]
<1>1. r \in Request /\ r.pc = "drop" /\ Goto(p, r)
  BY DropType DEF ThenDrop
<1> HIDE DEF r
<1> QED
  BY <1>1, GotoKeep

LEMMA HoldTurns ==
  ASSUME TInv, Turns, TenantLockFree, UNCHANGED <<rr_cursor, last>>, NEW p \in Proc, NEW r \in Request, Goto(p, r),
         r.union => Chosen(r)
  PROVE  Turns'
<1>1. req'[p] = r /\ \A q \in Proc \ {p} : req'[q] = req[q] /\ req'[q].pc # "holdCommit"
  BY Parts DEF ReqOK, Goto, TenantLockFree
<1>2. CursorBehind'
  BY DEF Turns, CursorBehind, CursorAfter
<1>3. OneHolder'
  BY <1>1 DEF OneHolder
<1>4. InTurn'
  BY <1>1 DEF InTurn, Chosen, Order
<1> QED
  BY <1>2, <1>3, <1>4 DEF Turns

LEMMA StartTurns == ASSUME TInv, Turns, NEW p \in Proc, Start(p) PROVE Turns'
<1>1. ASSUME NEW k \in CacheKey, Ask(p, k) PROVE Turns'
  <2> DEFINE r == [Idle EXCEPT !.pc = "read", !.key = k]
  <2>1. r \in Request /\ r.pc = "read" /\ Goto(p, r) /\ UNCHANGED <<rr_cursor, last>>
    BY <1>1, AskType DEF Ask
  <2> HIDE DEF r
  <2> QED
    BY <2>1, GotoKeep, KeepTurns
<1>2. ASSUME NEW i \in Interval, NEW away \in SUBSET Person, NEW R, HoldAny(p, i, away, R) PROVE Turns'
  <2>1. PICK r \in Request : r.pc = "holdCommit" /\ Chosen(r) /\ Goto(p, r)
    BY <1>2, HoldAnyChooses
  <2>2. UNCHANGED <<rr_cursor, last>> /\ TenantLockFree
    BY <1>2 DEF HoldAny
  <2> QED
    BY <2>1, <2>2, HoldTurns
<1>3. ASSUME NEW x \in Place, NEW R, HoldNamed(p, x, R) PROVE Turns'
  <2> DEFINE r == [Idle EXCEPT !.pc = "holdCommit", !.place = x]
  <2>1. r \in Request /\ r.union = FALSE /\ Goto(p, r) /\ TenantLockFree /\ UNCHANGED <<rr_cursor, last>>
    BY <1>3, NamedType DEF HoldNamed
  <2> HIDE DEF r
  <2> QED
    BY <2>1, HoldTurns
<1>4. ASSUME NEW x \in Place, Repeated(p, x) \/ Cancel(p, x) PROVE Turns'
  BY <1>4, DropKeep, KeepTurns DEF Repeated, Cancel
<1>5. ASSUME NEW x \in Place, NEW y \in Place, NEW read \in Place, Reschedule(p, x, y, read) PROVE Turns'
  BY <1>5, DropKeep, KeepTurns DEF Reschedule
<1>6. ASSUME Sweep(p) PROVE Turns'
  <2> DEFINE r == [Idle EXCEPT !.pc = "clear"]
  <2>1. r \in Request /\ r.pc = "clear" /\ Goto(p, r) /\ UNCHANGED <<rr_cursor, last>>
    BY <1>6, ClearType DEF Sweep
  <2> HIDE DEF r
  <2> QED
    BY <2>1, GotoKeep, KeepTurns
<1> QED
  BY <1>1, <1>2, <1>3, <1>4, <1>5, <1>6 DEF Start

LEMMA CommitTurns == ASSUME TInv, Turns, NEW p \in Proc, HoldCommit(p) PROVE Turns'
<1> DEFINE q == req[p]
<1>1. req[p].pc = "holdCommit" /\ \A e \in Proc \ {p} : req[e].pc # "holdCommit"
  BY DEF HoldCommit, Turns, OneHolder
<1>2. \E r \in Request : r.pc # "holdCommit" /\ Goto(p, r)
  <2>1. CASE Done(p)
    BY <2>1, IdleType DEF Done
  <2>2. CASE ThenDrop(p, {q.place})
    <3>1. {q.place} \in SUBSET Place
      BY <1>1, Parts DEF Aims
    <3> DEFINE X == {q.place}
    <3> HIDE DEF X
    <3>2. PICK Y \in SUBSET Place : Y = X
      BY <3>1 DEF X
    <3> DEFINE r == [Idle EXCEPT !.pc = "drop", !.dropping = Y]
    <3>3. r \in Request /\ r.pc = "drop" /\ Goto(p, r)
      BY <2>2, <3>2, DropType DEF ThenDrop, X
    <3> HIDE DEF r
    <3> QED
      BY <3>3
  <2> QED
    BY <2>1, <2>2 DEF HoldCommit
<1>3. \A e \in Proc : req'[e].pc # "holdCommit"
  BY <1>1, <1>2, Parts DEF Goto, ReqOK
<1>4. OneHolder' /\ InTurn'
  BY <1>3 DEF OneHolder, InTurn
<1>5. CursorBehind'
  <2>1. (rr_cursor' = CursorAfter(q.place[1]) /\ last' = q.place[1]) \/ UNCHANGED <<rr_cursor, last>>
    BY DEF HoldCommit
  <2> QED
    BY <2>1 DEF Turns, CursorBehind, CursorAfter, IndexOf
<1> QED
  BY <1>4, <1>5 DEF Turns

LEMMA DroppedKeep ==
  ASSUME TInv, NEW p \in Proc, NEW K, KeysDropped(K, p), UNCHANGED <<rr_cursor, last>>
  PROVE  Keep
<1>1. req'[p] = Idle /\ \A q \in Proc \ {p} : SameBut(q, K)
  BY Parts, DroppedType
<1> QED
  BY <1>1, IdleType DEF Keep, SameBut

LEMMA NextTurns == ASSUME TInv, Turns, [Next]_vars PROVE Turns'
<1>1. ASSUME NEW p \in Proc, Continue(p) PROVE Turns'
  <2>1. CASE HoldCommit(p)
    BY <2>1, CommitTurns
  <2>2. CASE ReadBookings(p)
    <3> DEFINE r == [req[p] EXCEPT !.pc = "graph", !.free = FreeNow(req[p].key)]
    <3>1. r.pc = "graph" /\ req'[p] = r /\ (\A q \in Proc \ {p} : req'[q] = req[q]) /\ UNCHANGED <<rr_cursor, last>>
      BY <2>2, Parts, Zenon DEF ReadBookings, Goto, ReqOK, Request
    <3> HIDE DEF r
    <3> QED
      BY <3>1, KeepTurns DEF Keep
  <2>3. CASE FillCache(p)
    BY <2>3, IdleType, GotoKeep, KeepTurns DEF FillCache, Done
  <2>4. CASE Drop(p)
    <3>1. PICK K : K = UNION {Keys(x) : x \in req[p].dropping}
      OBVIOUS
    <3> QED
      BY <2>4, <3>1, DroppedKeep, KeepTurns DEF Drop
  <2>5. CASE Clear(p)
    BY <2>5, DroppedKeep, KeepTurns DEF Clear
  <2> QED
    BY <1>1, <2>1, <2>2, <2>3, <2>4, <2>5 DEF Continue
<1>2. ASSUME NEW p \in Proc, Start(p) PROVE Turns'
  BY <1>2, StartTurns
<1>3. CASE Other
  BY <1>3, OtherQuiet, KeepTurns DEF Keep
<1>4. CASE UNCHANGED vars
  BY <1>4, KeepTurns DEF vars, Keep
<1> QED
  BY <1>1, <1>2, <1>3, <1>4 DEF Next

LEMMA ModSmall ==
  ASSUME NEW L \in Nat \ {0}, NEW a \in Nat, a < L + L
  PROVE  /\ a < L => a % L = a
         /\ a >= L => a % L = a - L
  OBVIOUS

\* One round from the place behind I: only the last step comes back to I, and the
\* others reach all the rest.
Round(L, I, c) ==
  /\ \A n \in 0 .. (L - 1) : ((c + n) % L) + 1 = I => n = L - 1
  /\ \A k \in 1 .. L : k # I => \E m \in 0 .. (L - 2) : ((c + m) % L) + 1 = k

LEMMA OneRound ==
  ASSUME NEW L \in Nat \ {0}, NEW I \in 1 .. L, NEW c \in 0 .. (L - 1), c = I % L
  PROVE  Round(L, I, c)
<1>1. (I < L => c = I) /\ (I = L => c = 0)
  <2>1. PICK a \in Nat : a = I /\ a < L + L
    OBVIOUS
  <2>2. (a < L => a % L = a) /\ (a >= L => a % L = a - L)
    BY <2>1, ModSmall
  <2> QED
    BY <2>1, <2>2
<1>2. ASSUME NEW n \in 0 .. (L - 1)
      PROVE  /\ (c + n) % L \in Nat
             /\ c + n < L => (c + n) % L = c + n
             /\ c + n >= L => (c + n) % L = c + n - L
  <2>1. PICK a \in Nat : a = c + n /\ a < L + L
    OBVIOUS
  <2>2. (a < L => a % L = a) /\ (a >= L => a % L = a - L)
    BY <2>1, ModSmall
  <2> QED
    BY <2>1, <2>2
<1>3. ASSUME NEW n \in 0 .. (L - 1), ((c + n) % L) + 1 = I PROVE n = L - 1
  <2>1. PICK b \in Nat : b = (c + n) % L /\ (c + n < L => b = c + n) /\ (c + n >= L => b = c + n - L)
    BY <1>2
  <2>2. b + 1 = I
    BY <1>3, <2>1
  <2> QED
    BY <1>1, <2>1, <2>2
<1>4. ASSUME NEW k \in 1 .. L, k # I PROVE \E m \in 0 .. (L - 2) : ((c + m) % L) + 1 = k
  <2>1. PICK m \in 0 .. (L - 2) : (c + m < L => c + m + 1 = k) /\ (c + m >= L => c + m - L + 1 = k)
    <3>1. CASE k - 1 >= c
      <4>1. k - 1 - c \in 0 .. (L - 2)
        BY <1>1, <1>4, <3>1
      <4> QED
        BY <4>1, <3>1
    <3>2. CASE k - 1 < c
      <4>1. k - 1 - c + L \in 0 .. (L - 2)
        BY <1>1, <1>4, <3>2
      <4> QED
        BY <4>1, <3>2
    <3> QED
      BY <3>1, <3>2
  <2>2. m \in 0 .. (L - 1)
    OBVIOUS
  <2>3. PICK b \in Nat : b = (c + m) % L /\ (c + m < L => b = c + m) /\ (c + m >= L => b = c + m - L)
    BY <1>2, <2>2
  <2>4. b + 1 = k
    BY <2>1, <2>3
  <2>5. ((c + m) % L) + 1 = k
    BY <2>3, <2>4
  <2> QED
    BY <2>5, Zenon
<1> QED
  BY <1>3, <1>4, Zenon DEF Round

LEMMA TurnsAreTaken == ASSUME TInv, Turns PROVE RoundRobin
<1> SUFFICES ASSUME NEW p \in Proc, req[p].pc = "holdCommit", req[p].union, req[p].place[1] = last
             PROVE  req[p].skipped = Person \ {last}
  BY DEF RoundRobin
<1>1. PICK L \in Nat \ {0} : L = Len(Staff)
  BY StaffFacts
<1>2. last \in Person /\ last # None
  BY ConstantsOK, Parts DEF Aims, Place, Scope
<1>3. PICK I \in 1 .. L : I = IndexOf(last) /\ Staff[I] = last
  BY <1>1, <1>2, StaffFacts DEF IndexOf, Person
<1>4. PICK c \in 0 .. (L - 1) : c = rr_cursor /\ c = I % L
  BY <1>1, <1>2, <1>3, CursorOK DEF Turns, CursorBehind, CursorAfter
<1>5. \A m \in 0 .. (L - 1) : Order(m) = ((c + m) % L) + 1 /\ Order(m) \in 1 .. L
  BY <1>1, <1>4, OrderOK DEF Order
<1>6. PICK n \in 0 .. (L - 1) :
        last = Staff[Order(n)] /\ req[p].skipped = {Staff[Order(m)] : m \in 0..(n - 1)}
  BY <1>1 DEF Turns, InTurn, Chosen
<1>7. \A i, k \in 1 .. L : Staff[i] = Staff[k] => i = k
  BY <1>1, StaffFacts, ConstantsOK
<1>8. /\ \A m \in 0 .. (L - 1) : Order(m) = I => m = L - 1
      /\ \A k \in 1 .. L : k # I => \E m \in 0 .. (L - 2) : Order(m) = k
  <2>1. Round(L, I, c)
    BY <1>4, OneRound
  <2> DEFINE O(m) == ((c + m) % L) + 1
  <2>2. \A m \in 0 .. (L - 1) : Order(m) = O(m)
    BY <1>5
  <2>3. /\ \A m \in 0 .. (L - 1) : O(m) = I => m = L - 1
        /\ \A k \in 1 .. L : k # I => \E m \in 0 .. (L - 2) : O(m) = k
    BY <2>1, Zenon DEF Round
  <2> HIDE DEF O
  <2> QED
    BY <2>2, <2>3
<1>9. n = L - 1
  BY <1>3, <1>5, <1>6, <1>7, <1>8
<1>10. ASSUME NEW m \in 0 .. (L - 2) PROVE Staff[Order(m)] \in Person \ {last}
  <2>1. m \in 0 .. (L - 1) /\ m # L - 1
    OBVIOUS
  <2>2. PICK k \in 1 .. L : k = Order(m)
    BY <1>5, <2>1
  <2>3. k # I
    BY <1>8, <2>1, <2>2
  <2>4. Staff[k] # last
    BY <1>3, <1>7, <2>3
  <2> QED
    BY <1>1, <2>2, <2>4, StaffFacts DEF Person
<1>11. ASSUME NEW s \in Person \ {last} PROVE \E m \in 0 .. (L - 2) : s = Staff[Order(m)]
  <2>1. PICK k \in 1 .. L : s = Staff[k]
    BY <1>1, StaffFacts DEF Person
  <2> QED
    BY <1>3, <1>8, <2>1
<1>12. req[p].skipped = {Staff[Order(m)] : m \in 0..(L - 2)}
  BY <1>6, <1>9
<1> QED
  BY <1>10, <1>11, <1>12

\* Whoever got the last hold that named no salesperson gets the next one only after every
\* other one was found away or occupied.
THEOREM TakesTurns == Spec => []RoundRobin
<1>1. Init => Turns
  BY IdleType DEF Init, Turns, CursorBehind, OneHolder, InTurn
<1>2. TInv /\ Turns /\ [Next]_vars => Turns'
  BY NextTurns
<1>3. TInv /\ Turns => RoundRobin
  BY TurnsAreTaken
<1> QED
  BY <1>1, <1>2, <1>3, AlwaysTyped, PTL DEF Spec
=============================================================================
