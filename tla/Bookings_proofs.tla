-------------------------- MODULE Bookings_proofs --------------------------
(***************************************************************************)
(* The type invariant of Bookings, and what a booking's status says of its *)
(* hold and its token.  TypeOK is inductive as it stands: that a request   *)
(* in flight names a row that exists (RequestOK) is what the steps that    *)
(* write the row need, and no step deletes a booking (Keeps).  The lemmas  *)
(* before the actions say what it takes for a step that only reads, or     *)
(* that writes one row, to keep it; then one lemma per action.  The second *)
(* half is about BookingRaces: the clocks of holds and tokens, which no    *)
(* race disturbs, then what the requests in flight know of a booking that  *)
(* was not raced on, and from it the promises of BookingLifecycle.         *)
(***************************************************************************)
EXTENDS BookingRaces, TLAPS

\* A step deletes no booking.
Keeps == \A r \in Row : Exists(r) => Exists(r)'
BookingOK(b) == b = NoBooking \/ (b.status # "none" /\ b.slot \in Slot /\ b.customer \in Customer)
BookingsOK == booking \in [Row -> Booking] /\ \A r \in Row : BookingOK(booking[r])
RequestsOK == req \in [Proc -> Request] /\ \A p \in Proc : RequestOK(req[p])
RestOK ==
  /\ now \in 1..MaxTime /\ hold \in [Row -> Nat]
  /\ tokens \subseteq VerifyToken /\ idem \subseteq Scope \X Key

LEMMA TypeOKSplit == TypeOK <=> BookingsOK /\ RequestsOK /\ RestOK
  BY DEF TypeOK, BookingsOK, BookingOK, RequestsOK, RestOK, Exists

\* The requests stay well formed when p goes on as a well-formed q, or none moves.
LEMMA GotoOK ==
  ASSUME RequestsOK, Keeps, NEW p \in Proc, NEW q \in Request, RequestOK(q)', Goto(p, q)
  PROVE  RequestsOK'
  BY SMT DEF RequestsOK, Keeps, Goto, RequestOK, Request

LEMMA SameRequestsOK ==
  ASSUME RequestsOK, Keeps, UNCHANGED req
  PROVE  RequestsOK'
  BY SMT DEF RequestsOK, Keeps, RequestOK, Request

\* The bookings stay well formed when one row is written, or none.
LEMMA SetRowOK ==
  ASSUME BookingsOK, NEW r \in Row, NEW b \in Booking, b.status # "none", BookingOK(b),
         booking' = [booking EXCEPT ![r] = b]
  PROVE  BookingsOK' /\ Keeps
  BY SMT DEF BookingsOK, Keeps, Exists

LEMMA SameRowsOK ==
  ASSUME BookingsOK, UNCHANGED booking
  PROVE  BookingsOK' /\ Keeps
  BY SMT DEF BookingsOK, Keeps, Exists

LEMMA RecordOK ==
  ASSUME idem \subseteq Scope \X Key, NEW scope \in Scope, NEW k \in Key \cup {None}, Record(scope, k)
  PROVE  idem' \subseteq Scope \X Key
  BY SMT DEF Record

\* A step that only reads.
LEMMA ReadStep ==
  ASSUME TypeOK, NEW p \in Proc, NEW q \in Request, RequestOK(q), Goto(p, q),
         UNCHANGED <<now, booking, hold, tokens>>, idem' \subseteq Scope \X Key
  PROVE  TypeOK'
<1>1. BookingsOK /\ RequestsOK /\ RestOK
  BY TypeOKSplit
<1>2. BookingsOK' /\ Keeps
  BY <1>1, SameRowsOK
<1>3. RequestOK(q)'
  BY <1>2 DEF RequestOK, Exists
<1>4. RequestsOK'
  BY <1>1, <1>2, <1>3, GotoOK
<1>5. RestOK'
  BY <1>1 DEF RestOK
<1> QED
  BY <1>2, <1>4, <1>5, TypeOKSplit, PTL

\* A step that writes row r and goes on as q.
LEMMA WriteStep ==
  ASSUME TypeOK, NEW p \in Proc, NEW r \in Row, NEW b \in Booking, b.status # "none",
         b.slot \in Slot, b.customer \in Customer, booking' = [booking EXCEPT ![r] = b],
         NEW q \in Request, Exists(r)' => RequestOK(q)', Goto(p, q),
         UNCHANGED now, hold' \in [Row -> Nat], tokens' \subseteq VerifyToken,
         idem' \subseteq Scope \X Key
  PROVE  TypeOK'
<1>1. BookingsOK /\ RequestsOK /\ RestOK
  BY TypeOKSplit
<1>2. BookingOK(b)
  BY DEF BookingOK
<1>3. BookingsOK' /\ Keeps
  BY <1>1, <1>2, SetRowOK
<1>4. Exists(r)'
  BY <1>1 DEF BookingsOK, Exists
<1>5. RequestsOK'
  BY <1>1, <1>3, <1>4, GotoOK
<1>6. RestOK'
  BY <1>1 DEF RestOK
<1> QED
  BY <1>3, <1>5, <1>6, TypeOKSplit, PTL

\* The same when r was there already, as q tells.
LEMMA UpdateStep ==
  ASSUME TypeOK, NEW p \in Proc, NEW r \in Row, NEW b \in Booking, b.status # "none",
         b.slot \in Slot, b.customer \in Customer, booking' = [booking EXCEPT ![r] = b],
         NEW q \in Request, RequestOK(q), Goto(p, q),
         UNCHANGED now, hold' \in [Row -> Nat], tokens' \subseteq VerifyToken,
         idem' \subseteq Scope \X Key
  PROVE  TypeOK'
<1>1. Keeps
  BY DEF TypeOK, Keeps, Exists
<1>2. RequestOK(q)'
  BY <1>1, SMT DEF RequestOK, Keeps, Request
<1> QED
  BY <1>2, WriteStep

LEMMA NoneOK ==
  None \notin Row /\ None \notin Customer /\ None \notin Slot /\ None \notin HoldKey /\ None \notin Key
  BY ConstantsOK

LEMMA IdleOK == Idle \in Request /\ RequestOK(Idle) /\ RequestOK(Idle)'
<1>1. Idle \in Request
  BY Zenon DEF Idle, Request, PC
<1>2. /\ Idle.pc = "idle" /\ Idle.row = None /\ Idle.rows = {} /\ Idle.marked = {}
      /\ Idle.row \notin Row
  BY NoneOK DEF Idle
<1> QED
  BY <1>1, <1>2, SMT DEF RequestOK

\* The row a request in flight is about to write exists.
LEMMA InRow ==
  ASSUME TypeOK, NEW p \in Proc,
         req[p].pc \notin {"idle", "holdTx", "holdCommit", "sweepMark", "sweepDelete"}
  PROVE  req[p].row \in Row /\ Exists(req[p].row)
  BY DEF TypeOK, RequestOK

LEMMA RowOK ==
  ASSUME TypeOK, NEW r \in Row, Exists(r)
  PROVE  booking[r] \in Booking /\ booking[r].slot \in Slot /\ booking[r].customer \in Customer
<1>1. NoBooking.status = "none"
  BY DEF NoBooking
<1> QED
  BY <1>1 DEF TypeOK, Exists

\* A booking with a key or a slot is one that exists.
LEMMA KeyExists ==
  ASSUME TypeOK, NEW r \in Row, booking[r].key \in HoldKey \/ booking[r].slot \in Slot
  PROVE  Exists(r)
<1>1. NoBooking.key = None /\ NoBooking.slot = None
  BY DEF NoBooking
<1> QED
  BY <1>1, NoneOK DEF TypeOK

\* A request that goes on with row r.
LEMMA OnRow ==
  ASSUME NEW r \in Row, NEW pc \in {"readToken", "expireWrite", "postConfirm", "dropHold"}
  PROVE  /\ [Idle EXCEPT !.pc = pc, !.row = r] \in Request
         /\ Exists(r) => RequestOK([Idle EXCEPT !.pc = pc, !.row = r])
         /\ Exists(r)' => RequestOK([Idle EXCEPT !.pc = pc, !.row = r])'
<1> DEFINE q == [Idle EXCEPT !.pc = pc, !.row = r]
<1>1. pc \in PC
  BY DEF PC
<1>2. q \in Request
  BY <1>1, IdleOK, Zenon DEF Request
<1>3. q.pc = pc /\ q.row = r /\ q.key = None /\ q.rows = {} /\ q.marked = {}
  BY Zenon DEF Idle
<1>4. Exists(r) => RequestOK(q)
  BY <1>3, SMT DEF RequestOK
<1>5. Exists(r)' => RequestOK(q)'
  BY <1>3, SMT DEF RequestOK
<1> QED
  BY <1>2, <1>4, <1>5

LEMMA OnRowWithKey ==
  ASSUME NEW r \in Row, NEW k \in Key \cup {None}, NEW pc \in {"confirmTx", "byIdCommit", "cancelWrite"},
         Exists(r)
  PROVE  /\ [Idle EXCEPT !.pc = pc, !.row = r, !.key = k] \in Request
         /\ RequestOK([Idle EXCEPT !.pc = pc, !.row = r, !.key = k])
<1> DEFINE q == [Idle EXCEPT !.pc = pc, !.row = r, !.key = k]
<1>1. pc \in PC
  BY DEF PC
<1>2. q \in Request
  BY <1>1, IdleOK, Zenon DEF Request
<1>3. q.pc = pc /\ q.row = r /\ q.key = k /\ q.rows = {} /\ q.marked = {}
  BY Zenon DEF Idle
<1>4. RequestOK(q)
  BY <1>3, SMT DEF RequestOK
<1> QED
  BY <1>2, <1>4

\* A request that goes on with the row it has.
LEMMA NextPC ==
  ASSUME TypeOK, NEW p \in Proc,
         req[p].pc \notin {"idle", "holdTx", "holdCommit", "sweepMark", "sweepDelete"},
         NEW pc \in {"writeToken", "confirmCommit", "moveCommit", "dropHold"},
         pc = "moveCommit" => req[p].pc = "moveTx",
         NEW q, q = [req[p] EXCEPT !.pc = pc]
  PROVE  q \in Request /\ RequestOK(q)
<1>1. pc \in PC /\ req[p] \in Request /\ RequestOK(req[p])
  BY DEF PC, TypeOK
<1>2. q \in Request
  BY <1>1, Zenon DEF Request
<1>3. /\ q.pc = pc /\ q.row = req[p].row /\ q.key = req[p].key /\ q.slot = req[p].slot
      /\ q.rows = req[p].rows /\ q.marked = req[p].marked
  BY <1>1, Zenon DEF Request
<1>4. /\ req[p].row \in Row /\ Exists(req[p].row) /\ req[p].key \in Key \cup {None}
      /\ pc = "moveCommit" => req[p].slot \in Slot
      /\ req[p].marked \subseteq req[p].rows /\ \A r \in req[p].rows : Exists(r)
  BY <1>1 DEF RequestOK
<1>5. RequestOK(q)
  BY <1>3, <1>4, SMT DEF RequestOK
<1> QED
  BY <1>2, <1>5

-----------------------------------------------------------------------------
(* One lemma per action.                                                   *)

LEMMA HoldStartType ==
  ASSUME TypeOK, NEW p \in Proc, NEW k \in HoldKey, NEW s \in Slot, NEW c \in Customer,
         HoldStart(p, k, s, c)
  PROVE  TypeOK'
<1> DEFINE q == [Idle EXCEPT !.pc = "holdTx", !.slot = s, !.customer = c, !.key = k, !.at = now]
<1>1. UNCHANGED <<now, booking, hold, tokens>> /\ idem' \subseteq Scope \X Key /\ now \in Nat
  BY ConstantsOK DEF HoldStart, TypeOK
<1>2. q \in Request
  BY <1>1, IdleOK, Zenon DEF Request, PC
<1>3. /\ q.pc = "holdTx" /\ q.row = None /\ q.slot = s
      /\ q.customer = c /\ q.key = k /\ q.rows = {} /\ q.marked = {}
  BY Zenon DEF Idle
<1>4. Goto(p, q)
  BY DEF HoldStart
<1> HIDE DEF q
<1>5. RequestOK(q)
  BY <1>3, NoneOK, SMT DEF RequestOK
<1> QED
  BY <1>1, <1>2, <1>4, <1>5, ReadStep

LEMMA HoldReadType ==
  ASSUME TypeOK, NEW p \in Proc, HoldRead(p)
  PROVE  TypeOK'
<1> DEFINE take(r) == [req[p] EXCEPT !.pc = "holdCommit", !.row = r]
<1>1. UNCHANGED <<now, booking, hold, tokens>> /\ idem' \subseteq Scope \X Key
  BY DEF HoldRead, TypeOK
<1>2. /\ req[p] \in Request /\ RequestOK(req[p]) /\ req[p].pc = "holdTx"
      /\ req[p].key \in HoldKey /\ req[p].slot \in Slot
  BY DEF TypeOK, RequestOK, HoldRead
<1>3. ASSUME NEW r \in Row, booking[r].key = req[p].key,
             Goto(p, [Idle EXCEPT !.pc = "readToken", !.row = r])
      PROVE  TypeOK'
  BY <1>1, <1>2, <1>3, KeyExists, OnRow, ReadStep
<1>4. ASSUME NEW r \in Row \cup {None}, r = None \/ booking[r].slot = req[p].slot,
             Goto(p, take(r))
      PROVE  TypeOK'
  <2>1. r \in Row => Exists(r)
    BY <1>2, <1>4, KeyExists, NoneOK
  <2>2. take(r) \in Request
    BY <1>2, Zenon DEF Request, PC
  <2>3. /\ take(r).pc = "holdCommit" /\ take(r).row = r /\ take(r).slot = req[p].slot
        /\ take(r).customer = req[p].customer /\ take(r).key = req[p].key
        /\ take(r).rows = req[p].rows /\ take(r).marked = req[p].marked
    BY <1>2, Zenon DEF Request
  <2> HIDE DEF take
  <2>4. RequestOK(take(r))
    BY <1>2, <2>1, <2>3, SMT DEF RequestOK
  <2> QED
    BY <1>1, <1>4, <2>2, <2>4, ReadStep
<1>5. ASSUME Done(p) PROVE TypeOK'
  BY <1>1, <1>5, IdleOK, ReadStep DEF Done
<1> QED
  BY <1>3, <1>4, <1>5 DEF HoldRead

LEMMA RefusedType ==
  ASSUME TypeOK, NEW p \in Proc, req[p].pc = "holdCommit", Refused(p),
         UNCHANGED <<now, booking, hold, tokens, idem>>
  PROVE  TypeOK'
<1>1. idem' \subseteq Scope \X Key /\ req[p].key \in HoldKey
  BY DEF TypeOK, RequestOK
<1>2. ASSUME NEW r \in Row, booking[r].key = req[p].key,
             Goto(p, [Idle EXCEPT !.pc = "readToken", !.row = r])
      PROVE  TypeOK'
  BY <1>1, <1>2, KeyExists, OnRow, ReadStep
<1> QED
  BY <1>1, <1>2, IdleOK, ReadStep DEF Refused, Done

LEMMA HoldReuseType ==
  ASSUME TypeOK, NEW p \in Proc, HoldReuse(p)
  PROVE  TypeOK'
<1>1. req[p].row \in Row /\ req[p].customer \in Customer /\ req[p].key \in HoldKey
  BY DEF TypeOK, HoldReuse, RequestOK, Request
<1>2. CASE Refused(p) /\ UNCHANGED <<booking, hold>>
  BY <1>2, RefusedType DEF HoldReuse
<1>3. CASE ~(Refused(p) /\ UNCHANGED <<booking, hold>>)
  <2>1. PICK r \in Row : r = req[p].row
    BY <1>1
  <2> DEFINE b == [booking[r] EXCEPT !.status = "hold", !.customer = req[p].customer,
                                     !.key = req[p].key, !.jti = FALSE]
             q == [Idle EXCEPT !.pc = "readToken", !.row = r]
  <2>2. booking' = [booking EXCEPT ![r] = b] /\ Goto(p, q) /\ UNCHANGED <<now, tokens, idem>>
    BY <1>3, <2>1 DEF TypeOK, HoldReuse
  <2>3. booking[r] \in Booking /\ booking[r].slot \in Slot
    BY <2>1, RowOK DEF TypeOK, RequestOK
  <2>4. b \in Booking
    BY <1>1, <2>3, Zenon DEF Booking, Status, Active, Open
  <2>5. b.status = "hold" /\ b.slot = booking[r].slot /\ b.customer = req[p].customer
    BY <2>3, Zenon DEF Booking
  <2>6. hold' \in [Row -> Nat]
    <3>1. ExpiresAt(req[p].at) \in Nat
      BY ConstantsOK, SMT DEF TypeOK, Request, ExpiresAt
    <3> QED
      BY <1>3, <2>1, <3>1 DEF TypeOK, HoldReuse
  <2>7. q \in Request /\ (Exists(r)' => RequestOK(q)')
    BY OnRow
  <2>8. tokens' \subseteq VerifyToken /\ idem' \subseteq Scope \X Key
    BY <2>2 DEF TypeOK
  <2>9. b.status # "none" /\ b.slot \in Slot /\ b.customer \in Customer
    BY <1>1, <2>3, <2>5
  <2> HIDE DEF b, q
  <2> QED
    BY <2>2, <2>4, <2>6, <2>7, <2>8, <2>9, WriteStep
<1> QED
  BY <1>2, <1>3

LEMMA HoldCreateType ==
  ASSUME TypeOK, NEW p \in Proc, HoldCreate(p)
  PROVE  TypeOK'
<1>1. /\ req[p].pc = "holdCommit" /\ req[p].slot \in Slot /\ req[p].customer \in Customer
      /\ req[p].key \in HoldKey /\ UNCHANGED <<now, tokens, idem>>
  BY DEF TypeOK, HoldCreate, RequestOK
<1>2. CASE Refused(p) /\ UNCHANGED <<booking, hold>>
  BY <1>1, <1>2, RefusedType
<1>3. ASSUME NEW r \in Row,
             booking' = [booking EXCEPT ![r] =
               [NoBooking EXCEPT !.status = "hold", !.slot = req[p].slot,
                                 !.customer = req[p].customer, !.key = req[p].key, !.created = now]],
             hold' = [hold EXCEPT ![r] = ExpiresAt(req[p].at)],
             Goto(p, [Idle EXCEPT !.pc = "readToken", !.row = r])
      PROVE  TypeOK'
  <2> DEFINE b == [NoBooking EXCEPT !.status = "hold", !.slot = req[p].slot,
                     !.customer = req[p].customer, !.key = req[p].key, !.created = now]
             q == [Idle EXCEPT !.pc = "readToken", !.row = r]
  <2>1. now \in Nat /\ ExpiresAt(req[p].at) \in Nat
    BY ConstantsOK, SMT DEF TypeOK, Request, ExpiresAt
  <2>2. NoBooking \in Booking
    BY Zenon DEF NoBooking, Booking, Status
  <2>3. b \in Booking
    BY <1>1, <2>1, <2>2, Zenon DEF Booking, Status, Active, Open
  <2>4. b.status = "hold" /\ b.slot \in Slot /\ b.customer \in Customer
    BY <1>1, <2>2, Zenon DEF Booking
  <2>5. hold' \in [Row -> Nat]
    BY <1>3, <2>1 DEF TypeOK
  <2>6. q \in Request /\ (Exists(r)' => RequestOK(q)')
    BY OnRow
  <2>7. tokens' \subseteq VerifyToken /\ idem' \subseteq Scope \X Key
    BY <1>1 DEF TypeOK
  <2> HIDE DEF b, q
  <2> QED
    BY <1>1, <1>3, <2>3, <2>4, <2>5, <2>6, <2>7, WriteStep DEF b, q
<1> QED
  BY <1>2, <1>3 DEF HoldCreate

LEMMA ReadTokenType ==
  ASSUME TypeOK, NEW p \in Proc, ReadToken(p)
  PROVE  TypeOK'
<1>1. PICK q : q = [req[p] EXCEPT !.pc = "writeToken"]
  OBVIOUS
<1>2. q \in Request /\ RequestOK(q)
  BY <1>1, NextPC DEF ReadToken
<1>3. UNCHANGED <<now, booking, hold, tokens>> /\ idem' \subseteq Scope \X Key
  BY DEF ReadToken, TypeOK
<1> QED
  BY <1>1, <1>2, <1>3, IdleOK, ReadStep DEF ReadToken, Done

LEMMA WriteTokenType ==
  ASSUME TypeOK, NEW p \in Proc, WriteToken(p)
  PROVE  TypeOK'
<1>1. PICK r \in Row : r = req[p].row /\ Exists(r)
  BY InRow DEF WriteToken
<1> DEFINE b == [booking[r] EXCEPT !.token = TRUE]
<1>2. booking[r] \in Booking /\ booking[r].slot \in Slot /\ booking[r].customer \in Customer
  BY <1>1, RowOK
<1>3. booking' = [booking EXCEPT ![r] = b] /\ Done(p) /\ UNCHANGED <<now, hold, tokens, idem>>
  BY <1>1 DEF TypeOK, WriteToken
<1>4. b \in Booking
  BY <1>2, Zenon DEF Booking
<1>5. b.status = booking[r].status /\ b.slot = booking[r].slot /\ b.customer = booking[r].customer
  BY <1>2, Zenon DEF Booking
<1>6. hold' \in [Row -> Nat] /\ tokens' \subseteq VerifyToken /\ idem' \subseteq Scope \X Key
  BY <1>3 DEF TypeOK
<1> HIDE DEF b
<1> QED
  BY <1>1, <1>2, <1>3, <1>4, <1>5, <1>6, IdleOK, UpdateStep DEF Done, Exists

LEMMA StayPut ==
  ASSUME TypeOK, NEW p \in Proc, UNCHANGED req
  PROVE  \E q \in Request : RequestOK(q) /\ Goto(p, q)
<1>1. req[p] \in Request /\ RequestOK(req[p]) /\ Goto(p, req[p])
  BY DEF TypeOK, Goto
<1> QED
  BY <1>1

\* A step that sets the status of a row that exists and leaves or deletes a hold.
LEMMA StatusStep ==
  ASSUME TypeOK, NEW p \in Proc, NEW r \in Row, Exists(r), NEW st \in Active \cup {"canceled", "expired"},
         booking' = [booking EXCEPT ![r].status = st],
         NEW q \in Request, RequestOK(q), Goto(p, q), UNCHANGED <<now, hold, tokens, idem>>
  PROVE  TypeOK'
<1> DEFINE b == [booking[r] EXCEPT !.status = st]
<1>1. booking[r] \in Booking /\ booking[r].slot \in Slot /\ booking[r].customer \in Customer
  BY RowOK
<1>2. booking' = [booking EXCEPT ![r] = b]
  BY DEF TypeOK
<1>3. st \in Status /\ st # "none"
  BY DEF Status, Active, Open
<1>4. b \in Booking
  BY <1>1, <1>3, Zenon DEF Booking
<1>5. b.status = st /\ b.slot = booking[r].slot /\ b.customer = booking[r].customer
  BY <1>1, Zenon DEF Booking
<1>6. hold' \in [Row -> Nat] /\ tokens' \subseteq VerifyToken /\ idem' \subseteq Scope \X Key
  BY DEF TypeOK
<1> HIDE DEF b
<1> QED
  BY <1>1, <1>2, <1>3, <1>4, <1>5, <1>6, UpdateStep

LEMMA VerifyReadType ==
  ASSUME TypeOK, NEW p \in Proc, NEW r \in Row, NEW k \in Key \cup {None}, VerifyRead(p, r, k)
  PROVE  TypeOK'
<1>1. Exists(r)
  BY DEF VerifyRead, Open, Exists
<1>2. UNCHANGED <<now, booking, hold, tokens>> /\ idem' \subseteq Scope \X Key
  BY DEF VerifyRead, TypeOK
<1> DEFINE q == [Idle EXCEPT !.pc = "verifyWrite", !.row = r, !.key = k, !.at = VerifyExp(r),
                             !.customer = booking[r].customer]
<1>3. VerifyExp(r) \in Nat /\ booking[r].customer \in Customer
  BY <1>1, RowOK DEF VerifyExp, TypeOK
<1>4. q \in Request
  BY <1>3, IdleOK, Zenon DEF Request, PC
<1>5. /\ q.pc = "verifyWrite" /\ q.row = r /\ q.key = k /\ q.customer = booking[r].customer
      /\ q.rows = {} /\ q.marked = {}
  BY Zenon DEF Idle
<1>6. RequestOK(q)
  BY <1>1, <1>3, <1>5, SMT DEF RequestOK
<1> HIDE DEF q
<1>7. CASE Goto(p, q)
  BY <1>2, <1>4, <1>6, <1>7, ReadStep
<1>8. CASE Goto(p, [Idle EXCEPT !.pc = "expireWrite", !.row = r])
  BY <1>1, <1>2, <1>8, OnRow, ReadStep
<1> QED
  BY <1>7, <1>8 DEF VerifyRead, q

LEMMA VerifyWriteType ==
  ASSUME TypeOK, NEW p \in Proc, VerifyWrite(p)
  PROVE  TypeOK'
<1>1. PICK r \in Row : r = req[p].row /\ Exists(r)
  BY InRow DEF VerifyWrite
<1>2. req[p].key \in Key \cup {None} /\ req[p].customer \in Customer /\ req[p].at \in Nat
  BY DEF VerifyWrite, TypeOK, RequestOK, Request
<1>3. Done(p) /\ UNCHANGED <<now, hold>> /\ idem \subseteq Scope \X Key /\ tokens \subseteq VerifyToken
  BY DEF VerifyWrite, TypeOK
<1>4. CASE UNCHANGED <<booking, tokens, idem>>
  BY <1>3, <1>4, IdleOK, ReadStep DEF Done
<1>5. CASE ~UNCHANGED <<booking, tokens, idem>>
  <2> DEFINE b == [booking[r] EXCEPT !.status = "pending_verify", !.jti = TRUE]
             t == [row |-> r, exp |-> req[p].at, to |-> req[p].customer]
  <2>1. booking[r] \in Booking /\ booking[r].slot \in Slot /\ booking[r].customer \in Customer
    BY <1>1, RowOK
  <2>2. /\ booking' = [booking EXCEPT ![r] = b]
        /\ tokens' = tokens \cup {t}
        /\ Record("verify-email", req[p].key)
    BY <1>1, <1>5 DEF TypeOK, VerifyWrite
  <2>3. b \in Booking
    BY <2>1, Zenon DEF Booking, Status, Active, Open
  <2>4. b.status = "pending_verify" /\ b.slot = booking[r].slot /\ b.customer = booking[r].customer
    BY <2>1, Zenon DEF Booking
  <2>5. t \in VerifyToken
    BY <1>2 DEF VerifyToken
  <2>6. idem' \subseteq Scope \X Key
    BY <1>2, <1>3, <2>2, RecordOK DEF Scope
  <2>7. hold' \in [Row -> Nat] /\ tokens' \subseteq VerifyToken
    BY <1>3, <2>2, <2>5 DEF TypeOK
  <2> HIDE DEF b, t
  <2> QED
    BY <1>3, <2>1, <2>2, <2>3, <2>4, <2>6, <2>7, IdleOK, UpdateStep DEF Done
<1> QED
  BY <1>4, <1>5

LEMMA ExpireWriteType ==
  ASSUME TypeOK, NEW p \in Proc, ExpireWrite(p)
  PROVE  TypeOK'
<1>1. PICK r \in Row : r = req[p].row /\ Exists(r)
  BY InRow DEF ExpireWrite
<1> QED
  BY <1>1, IdleOK, StatusStep DEF ExpireWrite, Done

LEMMA ConfirmCheckType ==
  ASSUME TypeOK, NEW p \in Proc, NEW t \in tokens, NEW k \in Key \cup {None}, ConfirmCheck(p, t, k)
  PROVE  TypeOK'
<1>1. PICK r \in Row : r = t.row
  BY DEF TypeOK, VerifyToken
<1>2. UNCHANGED <<now, booking, hold, tokens>> /\ Exists(r)
  BY <1>1 DEF ConfirmCheck, Exists
<1>3. idem' \subseteq Scope \X Key
  BY RecordOK DEF ConfirmCheck, Scope, TypeOK
<1>4. CASE UNCHANGED req
  BY <1>2, <1>3, <1>4, StayPut, ReadStep
<1>5. CASE Goto(p, [Idle EXCEPT !.pc = "expireWrite", !.row = r])
  BY <1>2, <1>3, <1>5, OnRow, ReadStep
<1>6. CASE Goto(p, [Idle EXCEPT !.pc = "confirmTx", !.row = r, !.key = k])
  BY <1>2, <1>3, <1>6, OnRowWithKey, ReadStep
<1> QED
  BY <1>1, <1>4, <1>5, <1>6 DEF ConfirmCheck

LEMMA ConfirmReadType ==
  ASSUME TypeOK, NEW p \in Proc, ConfirmRead(p)
  PROVE  TypeOK'
<1>1. PICK r \in Row : r = req[p].row /\ Exists(r)
  BY InRow DEF ConfirmRead
<1>2. UNCHANGED <<now, booking, hold, tokens>> /\ req[p].key \in Key \cup {None}
  BY DEF ConfirmRead, TypeOK, RequestOK
<1>3. idem' \subseteq Scope \X Key
  BY <1>2, RecordOK DEF ConfirmRead, Scope, TypeOK
<1>4. CASE Goto(p, [Idle EXCEPT !.pc = "postConfirm", !.row = r])
  BY <1>1, <1>2, <1>3, <1>4, OnRow, ReadStep
<1>5. CASE Goto(p, [req[p] EXCEPT !.pc = "confirmCommit"])
  BY <1>2, <1>3, <1>5, NextPC, ReadStep DEF ConfirmRead
<1>6. CASE Done(p)
  BY <1>2, <1>3, <1>6, IdleOK, ReadStep DEF Done
<1> QED
  BY <1>1, <1>4, <1>5, <1>6 DEF ConfirmRead

LEMMA ConfirmType ==
  ASSUME TypeOK, NEW p \in Proc, req[p].pc \in {"confirmCommit", "byIdCommit"}, NEW scope \in Scope,
         Confirm(p, scope)
  PROVE  TypeOK'
<1>1. PICK r \in Row : r = req[p].row /\ Exists(r)
  BY InRow
<1>2. UNCHANGED <<now, tokens>> /\ req[p].key \in Key \cup {None}
  BY DEF Confirm, TypeOK, RequestOK
<1>3. CASE Done(p) /\ UNCHANGED <<booking, hold, idem>>
  <2>1. idem' \subseteq Scope \X Key
    BY <1>3 DEF TypeOK
  <2> QED
    BY <1>2, <1>3, <2>1, IdleOK, ReadStep DEF Done
<1>4. CASE ~(Done(p) /\ UNCHANGED <<booking, hold, idem>>)
  <2> DEFINE b == Confirmed(booking[r])
             q == [Idle EXCEPT !.pc = "postConfirm", !.row = r]
  <2>1. booking[r] \in Booking /\ booking[r].slot \in Slot /\ booking[r].customer \in Customer
    BY <1>1, RowOK
  <2>2. /\ booking' = [booking EXCEPT ![r] = b] /\ hold' = [hold EXCEPT ![r] = NoHold]
        /\ Record(scope, req[p].key) /\ Goto(p, q)
    BY <1>1, <1>4 DEF Confirm
  <2>3. b \in Booking
    BY <2>1, Zenon DEF Booking, Confirmed, Status, Active
  <2>4. b.status = "confirmed" /\ b.slot = booking[r].slot /\ b.customer = booking[r].customer
    BY <2>1, Zenon DEF Booking, Confirmed
  <2>5. idem' \subseteq Scope \X Key /\ tokens' \subseteq VerifyToken
    BY <1>2, <2>2, RecordOK DEF TypeOK
  <2>6. hold' \in [Row -> Nat]
    BY <2>2 DEF TypeOK, NoHold
  <2>7. q \in Request /\ RequestOK(q)
    BY <1>1, OnRow
  <2> HIDE DEF b, q
  <2> QED
    BY <1>2, <2>1, <2>2, <2>3, <2>4, <2>5, <2>6, <2>7, UpdateStep
<1> QED
  BY <1>3, <1>4

LEMMA ByIdReadType ==
  ASSUME TypeOK, NEW p \in Proc, NEW r \in Row, NEW k \in Key \cup {None}, ByIdRead(p, r, k)
  PROVE  TypeOK'
<1>1. UNCHANGED <<now, booking, hold, tokens>> /\ idem' \subseteq Scope \X Key
  BY DEF ByIdRead, TypeOK
<1>2. Exists(r)
  BY DEF ByIdRead, ConfirmTokenUsable, Exists
<1> QED
  BY <1>1, <1>2, OnRowWithKey, ReadStep DEF ByIdRead

LEMMA PostConfirmType ==
  ASSUME TypeOK, NEW p \in Proc, PostConfirm(p)
  PROVE  TypeOK'
<1>1. PICK r \in Row : r = req[p].row /\ Exists(r)
  BY InRow DEF PostConfirm
<1>2. booking[r] \in Booking /\ booking[r].slot \in Slot /\ booking[r].customer \in Customer
  BY <1>1, RowOK
<1>3. PICK attached \in BOOLEAN : booking' = [booking EXCEPT ![r].event = attached]
  <2>1. booking[r].event \in BOOLEAN
    BY <1>2 DEF Booking
  <2> QED
    BY <1>1, <2>1 DEF PostConfirm
<1> DEFINE b == [booking[r] EXCEPT !.event = attached]
<1>4. booking' = [booking EXCEPT ![r] = b] /\ Done(p) /\ UNCHANGED <<now, hold, tokens, idem>>
  BY <1>3 DEF TypeOK, PostConfirm
<1>5. b \in Booking
  BY <1>2, Zenon DEF Booking
<1>6. b.status = booking[r].status /\ b.slot = booking[r].slot /\ b.customer = booking[r].customer
  BY <1>2, Zenon DEF Booking
<1>7. hold' \in [Row -> Nat] /\ tokens' \subseteq VerifyToken /\ idem' \subseteq Scope \X Key
  BY <1>4 DEF TypeOK
<1> HIDE DEF b
<1> QED
  BY <1>1, <1>2, <1>4, <1>5, <1>6, <1>7, IdleOK, UpdateStep DEF Done, Exists

LEMMA CancelReadType ==
  ASSUME TypeOK, NEW p \in Proc, NEW r \in Row, NEW k \in Key \cup {None}, CancelRead(p, r, k)
  PROVE  TypeOK'
<1>1. UNCHANGED <<now, booking, hold, tokens>> /\ idem' \subseteq Scope \X Key /\ Exists(r)
  BY DEF CancelRead, TypeOK
<1>2. CASE Goto(p, [Idle EXCEPT !.pc = "dropHold", !.row = r])
  BY <1>1, <1>2, OnRow, ReadStep
<1>3. CASE Goto(p, [Idle EXCEPT !.pc = "cancelWrite", !.row = r, !.key = k])
  BY <1>1, <1>3, OnRowWithKey, ReadStep
<1> QED
  BY <1>2, <1>3 DEF CancelRead

LEMMA CancelWriteType ==
  ASSUME TypeOK, NEW p \in Proc, CancelWrite(p)
  PROVE  TypeOK'
<1>1. PICK r \in Row : r = req[p].row /\ Exists(r)
  BY InRow DEF CancelWrite
<1>2. PICK q : q = [req[p] EXCEPT !.pc = "dropHold"]
  OBVIOUS
<1>3. q \in Request /\ RequestOK(q)
  BY <1>2, NextPC DEF CancelWrite
<1> QED
  BY <1>1, <1>2, <1>3, StatusStep DEF CancelWrite

LEMMA DropHoldType ==
  ASSUME TypeOK, NEW p \in Proc, DropHold(p)
  PROVE  TypeOK'
<1>1. PICK r \in Row : r = req[p].row /\ Exists(r)
  BY InRow DEF DropHold
<1>2. booking[r] \in Booking /\ booking[r].slot \in Slot /\ booking[r].customer \in Customer
  BY <1>1, RowOK
<1>3. booking' = [booking EXCEPT ![r] = booking[r]] /\ Done(p) /\ UNCHANGED <<now, tokens>>
  BY DEF TypeOK, DropHold
<1>4. hold' \in [Row -> Nat] /\ tokens' \subseteq VerifyToken
  BY DEF TypeOK, DropHold, NoHold
<1>5. idem' \subseteq Scope \X Key
  BY RecordOK DEF DropHold, TypeOK, RequestOK, Scope
<1> QED
  BY <1>1, <1>2, <1>3, <1>4, <1>5, IdleOK, UpdateStep DEF Done, Exists

LEMMA MoveCheckType ==
  ASSUME TypeOK, NEW p \in Proc, NEW r \in Row, NEW s \in Slot, NEW k \in Key \cup {None},
         MoveCheck(p, r, s, k)
  PROVE  TypeOK'
<1> DEFINE q == [Idle EXCEPT !.pc = "moveTx", !.row = r, !.slot = s, !.key = k, !.at = now]
<1>1. UNCHANGED <<now, booking, hold, tokens>> /\ Exists(r)
  BY DEF MoveCheck, Exists
<1>2. idem' \subseteq Scope \X Key
  BY RecordOK DEF MoveCheck, TypeOK, Scope
<1>3. now \in Nat
  BY ConstantsOK DEF TypeOK
<1>4. q \in Request
  BY <1>3, IdleOK, Zenon DEF Request, PC
<1>5. q.pc = "moveTx" /\ q.row = r /\ q.slot = s /\ q.key = k /\ q.rows = {} /\ q.marked = {}
  BY Zenon DEF Idle
<1>6. RequestOK(q)
  BY <1>1, <1>5, SMT DEF RequestOK
<1> HIDE DEF q
<1>7. CASE UNCHANGED req
  BY <1>1, <1>2, <1>7, StayPut, ReadStep
<1>8. CASE Goto(p, q)
  BY <1>1, <1>2, <1>4, <1>6, <1>8, ReadStep
<1> QED
  BY <1>7, <1>8 DEF MoveCheck, q

LEMMA MoveReadType ==
  ASSUME TypeOK, NEW p \in Proc, MoveRead(p)
  PROVE  TypeOK'
<1>1. UNCHANGED <<now, booking, hold, tokens>> /\ req[p].key \in Key \cup {None}
  BY DEF MoveRead, TypeOK, RequestOK
<1>2. idem' \subseteq Scope \X Key
  BY <1>1, RecordOK DEF MoveRead, TypeOK, Scope
<1>3. CASE Goto(p, [req[p] EXCEPT !.pc = "moveCommit"])
  BY <1>1, <1>2, <1>3, NextPC, ReadStep DEF MoveRead
<1>4. CASE Done(p)
  BY <1>1, <1>2, <1>4, IdleOK, ReadStep DEF Done
<1> QED
  BY <1>3, <1>4 DEF MoveRead

LEMMA SlotStep ==
  ASSUME TypeOK, NEW p \in Proc, NEW r \in Row, Exists(r), NEW s \in Slot,
         booking' = [booking EXCEPT ![r].slot = s],
         NEW q \in Request, RequestOK(q), Goto(p, q),
         UNCHANGED <<now, hold, tokens>>, idem' \subseteq Scope \X Key
  PROVE  TypeOK'
<1> DEFINE b == [booking[r] EXCEPT !.slot = s]
<1>1. booking[r] \in Booking /\ booking[r].customer \in Customer
  BY RowOK
<1>2. booking' = [booking EXCEPT ![r] = b] /\ hold' \in [Row -> Nat] /\ tokens' \subseteq VerifyToken
  BY DEF TypeOK
<1>3. b \in Booking
  BY <1>1, Zenon DEF Booking
<1>4. b.status = booking[r].status /\ b.slot = s /\ b.customer = booking[r].customer
  BY <1>1, Zenon DEF Booking
<1> HIDE DEF b
<1> QED
  BY <1>1, <1>2, <1>3, <1>4, UpdateStep DEF Exists

LEMMA MoveCommitType ==
  ASSUME TypeOK, NEW p \in Proc, MoveCommit(p)
  PROVE  TypeOK'
<1>1. PICK r \in Row : r = req[p].row /\ Exists(r)
  BY InRow DEF MoveCommit
<1>2. /\ req[p].slot \in Slot /\ Done(p) /\ UNCHANGED <<now, hold, tokens>>
      /\ req[p].key \in Key \cup {None}
  BY DEF MoveCommit, TypeOK, RequestOK
<1>3. idem' \subseteq Scope \X Key
  BY <1>2, RecordOK DEF MoveCommit, TypeOK, Scope
<1>4. CASE UNCHANGED booking
  BY <1>2, <1>3, <1>4, IdleOK, ReadStep DEF Done
<1>5. CASE booking' = [booking EXCEPT ![r].slot = req[p].slot]
  BY <1>1, <1>2, <1>3, <1>5, IdleOK, SlotStep DEF Done
<1> QED
  BY <1>1, <1>4, <1>5 DEF MoveCommit

LEMMA SweepFindType ==
  ASSUME TypeOK, NEW p \in Proc, SweepFind(p)
  PROVE  TypeOK'
<1> DEFINE lapsed == {r \in Row : Lapsed(r)}
           q == [Idle EXCEPT !.pc = "sweepMark", !.rows = lapsed]
<1>1. UNCHANGED <<now, booking, hold, tokens>> /\ idem' \subseteq Scope \X Key
  BY DEF SweepFind, TypeOK
<1>2. lapsed \in SUBSET Row /\ \A r \in lapsed : Exists(r)
  BY DEF Lapsed, Open, Exists
<1> HIDE DEF lapsed
<1>3. q \in Request
  BY <1>2, IdleOK, Zenon DEF Request, PC
<1>4. /\ q.pc = "sweepMark" /\ q.row = None /\ q.key = None /\ q.rows = lapsed /\ q.marked = {}
      /\ q.row \notin Row
  BY NoneOK, Zenon DEF Idle
<1>5. RequestOK(q)
  BY <1>2, <1>4, SMT DEF RequestOK
<1> HIDE DEF q
<1>6. CASE UNCHANGED req
  BY <1>1, <1>6, StayPut, ReadStep
<1>7. CASE Goto(p, q)
  BY <1>1, <1>3, <1>5, <1>7, ReadStep
<1> QED
  BY <1>6, <1>7 DEF SweepFind, q, lapsed

LEMMA SweepMarkType ==
  ASSUME TypeOK, NEW p \in Proc, SweepMark(p)
  PROVE  TypeOK'
<1> DEFINE open == StillOpen(req[p].rows)
<1>1. PICK q : q = [req[p] EXCEPT !.pc = "sweepDelete", !.marked = open]
  OBVIOUS
<1>2. req[p] \in Request /\ RequestOK(req[p]) /\ req[p].pc = "sweepMark"
  BY DEF TypeOK, SweepMark
<1>3. open \in SUBSET Row /\ open \subseteq req[p].rows
  BY <1>2 DEF StillOpen, Request
<1> HIDE DEF open
<1>4. q \in Request
  BY <1>1, <1>2, <1>3, Zenon DEF Request, PC
<1>5. /\ q.pc = "sweepDelete" /\ q.row = req[p].row /\ q.key = req[p].key
      /\ q.rows = req[p].rows /\ q.marked = open
  BY <1>1, <1>2, Zenon DEF Request
<1>6. /\ req[p].row \in Row => Exists(req[p].row)
      /\ \A r \in req[p].rows : Exists(r)
      /\ req[p].key \in Key \cup {None}
  BY <1>2 DEF RequestOK
<1>7. RequestOK(q)
  BY <1>3, <1>5, <1>6, SMT DEF RequestOK
<1>8. UNCHANGED <<now, booking, hold, tokens>> /\ idem' \subseteq Scope \X Key /\ Goto(p, q)
  BY <1>1 DEF SweepMark, TypeOK, open
<1> QED
  BY <1>4, <1>7, <1>8, ReadStep

LEMMA SweepDeleteType ==
  ASSUME TypeOK, NEW p \in Proc, SweepDelete(p)
  PROVE  TypeOK'
<1> DEFINE b(r) == [booking[r] EXCEPT !.status = "expired"]
<1>1. BookingsOK /\ RequestsOK /\ RestOK
  BY TypeOKSplit
<1>2. /\ booking' = [r \in Row |-> IF r \in req[p].marked THEN b(r) ELSE booking[r]]
      /\ Done(p) /\ UNCHANGED <<now, tokens, idem>>
  BY DEF SweepDelete
<1>3. \A r \in req[p].marked : Exists(r)
  BY DEF TypeOK, RequestOK
<1>4. ASSUME NEW r \in Row PROVE b(r) \in Booking /\ b(r).status = "expired"
                                 /\ b(r).slot = booking[r].slot /\ b(r).customer = booking[r].customer
  <2>1. booking[r] \in Booking
    BY DEF TypeOK
  <2>2. b(r) \in Booking
    BY <2>1, Zenon DEF Booking, Status
  <2>3. b(r).status = "expired" /\ b(r).slot = booking[r].slot /\ b(r).customer = booking[r].customer
    BY <2>1, Zenon DEF Booking
  <2> QED
    BY <2>2, <2>3
<1>5. ASSUME NEW r \in Row, r \in req[p].marked
      PROVE booking[r].slot \in Slot /\ booking[r].customer \in Customer
  BY <1>3, <1>5, RowOK
<1> HIDE DEF b
<1>6. booking' \in [Row -> Booking]
  BY <1>1, <1>2, <1>4 DEF BookingsOK
<1>7. ASSUME NEW r \in Row PROVE BookingOK(booking'[r]) /\ (Exists(r) => Exists(r)')
  <2>1. CASE r \in req[p].marked
    <3>1. booking'[r] = b(r)
      BY <1>2, <2>1
    <3> QED
      BY <1>4, <1>5, <2>1, <3>1 DEF BookingOK, Exists
  <2>2. CASE r \notin req[p].marked
    <3>1. booking'[r] = booking[r]
      BY <1>2, <2>2
    <3> QED
      BY <1>1, <3>1 DEF BookingsOK, Exists
  <2> QED
    BY <2>1, <2>2
<1>8. BookingsOK' /\ Keeps
  BY <1>6, <1>7 DEF BookingsOK, Keeps
<1>9. RequestsOK'
  BY <1>1, <1>2, <1>8, IdleOK, GotoOK DEF Done
<1>10. RestOK'
  BY <1>1, <1>2 DEF RestOK, SweepDelete, NoHold
<1> QED
  BY <1>8, <1>9, <1>10, TypeOKSplit, PTL

LEMMA WebhookType ==
  ASSUME TypeOK, NEW p \in Proc, NEW r \in Row,
         WebhookDeleted(p, r) \/ \E s \in Slot : WebhookMoved(p, r, s)
  PROVE  TypeOK'
<1>1. booking[r].event /\ UNCHANGED <<now, hold, tokens, idem, req>>
  BY DEF WebhookDeleted, WebhookMoved
<1>2. Exists(r)
  <2>1. ~NoBooking.event
    BY DEF NoBooking
  <2> QED
    BY <1>1, <2>1 DEF TypeOK
<1>3. PICK q \in Request : RequestOK(q) /\ Goto(p, q)
  BY <1>1, StayPut
<1>4. CASE WebhookDeleted(p, r)
  BY <1>1, <1>2, <1>3, <1>4, StatusStep DEF WebhookDeleted
<1>5. ASSUME NEW s \in Slot, WebhookMoved(p, r, s) PROVE TypeOK'
  <2>1. idem' \subseteq Scope \X Key
    BY <1>1 DEF TypeOK
  <2> QED
    BY <1>1, <1>2, <1>3, <1>5, <2>1, SlotStep DEF WebhookMoved
<1> QED
  BY <1>4, <1>5

LEMMA TickType ==
  ASSUME TypeOK, Tick
  PROVE  TypeOK'
<1>1. BookingsOK /\ RequestsOK /\ RestOK
  BY TypeOKSplit
<1>2. BookingsOK' /\ Keeps
  BY <1>1, SameRowsOK DEF Tick
<1>3. RequestsOK'
  BY <1>1, <1>2, SameRequestsOK DEF Tick
<1>4. RestOK'
  <2>1. now' \in 1..MaxTime
    BY <1>1, ConstantsOK DEF RestOK, Tick
  <2> QED
    BY <1>1, <2>1 DEF RestOK, Tick
<1> QED
  BY <1>2, <1>3, <1>4, TypeOKSplit, PTL

-----------------------------------------------------------------------------
LEMMA InitType == Init => TypeOK
<1> SUFFICES ASSUME Init PROVE TypeOK
  OBVIOUS
<1>1. NoBooking \in Booking
  BY Zenon DEF NoBooking, Booking, Status
<1>2. BookingsOK
  BY <1>1 DEF Init, BookingsOK, BookingOK
<1>3. RequestsOK
  BY IdleOK DEF Init, RequestsOK
<1>4. RestOK
  BY ConstantsOK DEF Init, RestOK, NoHold
<1> QED
  BY <1>2, <1>3, <1>4, TypeOKSplit

LEMMA NextType == TypeOK /\ [Next]_vars => TypeOK'
<1> SUFFICES ASSUME TypeOK, [Next]_vars PROVE TypeOK'
  OBVIOUS
<1>1. CASE UNCHANGED vars
  <2>1. BookingsOK /\ RequestsOK /\ RestOK
    BY TypeOKSplit
  <2>2. BookingsOK' /\ Keeps
    BY <1>1, <2>1, SameRowsOK DEF vars
  <2>3. RequestsOK'
    BY <1>1, <2>1, <2>2, SameRequestsOK DEF vars
  <2>4. RestOK'
    BY <1>1, <2>1 DEF RestOK, vars
  <2> QED
    BY <2>2, <2>3, <2>4, TypeOKSplit, PTL
<1>2. CASE Tick
  BY <1>2, TickType
<1>3. ASSUME NEW p \in Proc, Start(p) PROVE TypeOK'
  BY <1>3, HoldStartType, ConfirmCheckType, VerifyReadType, ByIdReadType, CancelReadType,
     MoveCheckType, SweepFindType, WebhookType DEF Start, Keys
<1>4. ASSUME NEW p \in Proc, Continue(p) PROVE TypeOK'
  <2>1. CASE ConfirmCommit(p) \/ ByIdCommit(p)
    BY <2>1, ConfirmType DEF ConfirmCommit, ByIdCommit, Scope
  <2> QED
    BY <1>4, <2>1, HoldReadType, HoldReuseType, HoldCreateType, ReadTokenType, WriteTokenType, VerifyWriteType,
       ExpireWriteType, ConfirmReadType, PostConfirmType, CancelWriteType, DropHoldType,
       MoveReadType, MoveCommitType, SweepMarkType, SweepDeleteType DEF Continue
<1> QED
  BY <1>1, <1>2, <1>3, <1>4 DEF Next

\* The tables and the requests in flight always have their types, and no
\* request in flight names a row that is not there.
THEOREM TypeInvariant == Spec => []TypeOK
  BY InitType, NextType, PTL DEF Spec

-----------------------------------------------------------------------------
(* ConfirmedIsSettled, inductive on top of TypeOK: what a step does to one *)
(* row (its status, its jti, its hold row) is enough to keep it.           *)

\* The three ways a step may treat row r.
RowKept(r) ==
  \/ /\ booking'[r].status = booking[r].status /\ booking'[r].jti = booking[r].jti
     /\ hold'[r] \in {hold[r], NoHold}
  \/ booking'[r].status \in {"hold", "canceled", "expired"}
  \/ booking'[r].status = "pending_verify" /\ booking'[r].jti
  \/ booking'[r].status = "confirmed" /\ ~booking'[r].jti /\ hold'[r] = NoHold

RowsKept == \A r \in Row : RowKept(r)

LEMMA KeptIsSettled ==
  ASSUME ConfirmedIsSettled, RowsKept
  PROVE  ConfirmedIsSettled'
<1> SUFFICES ASSUME NEW r \in Row
             PROVE  /\ booking'[r].status = "confirmed" => hold'[r] = NoHold /\ ~booking'[r].jti
                    /\ booking'[r].status = "pending_verify" => booking'[r].jti
  BY DEF ConfirmedIsSettled, NoHold
<1>1. RowKept(r)
  BY DEF RowsKept
<1>2. /\ booking[r].status = "confirmed" => hold[r] = NoHold /\ ~booking[r].jti
      /\ booking[r].status = "pending_verify" => booking[r].jti
  BY DEF ConfirmedIsSettled
<1> QED
  BY <1>1, <1>2, Zenon DEF RowKept

\* Writing one row and no hold.
LEMMA OneRowKept ==
  ASSUME TypeOK, NEW r \in Row, NEW b, booking' = [booking EXCEPT ![r] = b],
         \A x \in Row : x # r => hold'[x] = hold[x],
         \/ b.status = booking[r].status /\ b.jti = booking[r].jti /\ hold'[r] = hold[r]
         \/ b.status \in {"hold", "canceled", "expired"}
         \/ b.status = "pending_verify" /\ b.jti
         \/ b.status = "confirmed" /\ ~b.jti /\ hold'[r] = NoHold
  PROVE  RowsKept
<1>1. ASSUME NEW x \in Row PROVE RowKept(x)
  <2>1. CASE x = r
    <3>1. booking'[x] = b
      BY <2>1 DEF TypeOK
    <3> QED
      BY <2>1, <3>1, Zenon DEF RowKept
  <2>2. CASE x # r
    <3>1. booking'[x] = booking[x] /\ hold'[x] = hold[x]
      BY <2>2 DEF TypeOK
    <3> QED
      BY <3>1, Zenon DEF RowKept
  <2> QED
    BY <2>1, <2>2
<1> QED
  BY <1>1 DEF RowsKept

\* Changing no booking, and holds only to NoHold.
LEMMA SameKept ==
  ASSUME UNCHANGED booking, \A r \in Row : hold'[r] \in {hold[r], NoHold}
  PROVE  RowsKept
  BY Zenon DEF RowsKept, RowKept

LEMMA StatusKept ==
  ASSUME TypeOK, NEW r \in Row, NEW st \in {"canceled", "expired"},
         booking' = [booking EXCEPT ![r].status = st], UNCHANGED hold
  PROVE  RowsKept
<1>1. PICK b : b = [booking[r] EXCEPT !.status = st]
  OBVIOUS
<1>2. booking[r] \in Booking /\ booking' = [booking EXCEPT ![r] = b]
  BY <1>1 DEF TypeOK
<1>3. b.status = st
  BY <1>1, <1>2, Zenon DEF Booking
<1> QED
  BY <1>2, <1>3, OneRowKept

LEMMA SlotKept ==
  ASSUME TypeOK, NEW r \in Row, NEW s, booking' = [booking EXCEPT ![r].slot = s], UNCHANGED hold
  PROVE  RowsKept
<1>1. PICK b : b = [booking[r] EXCEPT !.slot = s]
  OBVIOUS
<1>2. booking[r] \in Booking /\ booking' = [booking EXCEPT ![r] = b]
  BY <1>1 DEF TypeOK
<1>3. b.status = booking[r].status /\ b.jti = booking[r].jti
  BY <1>1, <1>2, Zenon DEF Booking
<1> QED
  BY <1>2, <1>3, OneRowKept

LEMMA HoldKept ==
  ASSUME TypeOK, NEW p \in Proc, HoldReuse(p) \/ HoldCreate(p)
  PROVE  RowsKept
<1>1. CASE UNCHANGED <<booking, hold>>
  BY <1>1, SameKept
<1>2. CASE HoldReuse(p) /\ ~UNCHANGED <<booking, hold>>
  <2>1. PICK r \in Row : r = req[p].row /\ booking[r] \in Booking
    BY <1>2 DEF HoldReuse, TypeOK, Request
  <2>2. PICK b : b = [booking[r] EXCEPT !.status = "hold", !.customer = req[p].customer,
                                        !.key = req[p].key, !.jti = FALSE]
    OBVIOUS
  <2>3. b.status = "hold"
    BY <2>1, <2>2, Zenon DEF Booking
  <2>4. /\ booking' = [booking EXCEPT ![r] = b]
        /\ hold' = [hold EXCEPT ![r] = ExpiresAt(req[p].at)]
    BY <1>2, <2>1, <2>2 DEF HoldReuse, TypeOK
  <2>5. \A x \in Row : x # r => hold'[x] = hold[x]
    BY <2>4 DEF TypeOK
  <2> QED
    BY <2>3, <2>4, <2>5, OneRowKept
<1>3. CASE HoldCreate(p) /\ ~UNCHANGED <<booking, hold>>
  <2>1. PICK r \in Row :
          /\ booking' = [booking EXCEPT ![r] =
               [NoBooking EXCEPT !.status = "hold", !.slot = req[p].slot,
                  !.customer = req[p].customer, !.key = req[p].key, !.created = now]]
          /\ hold' = [hold EXCEPT ![r] = ExpiresAt(req[p].at)]
    BY <1>3 DEF HoldCreate
  <2>2. PICK b : b = [NoBooking EXCEPT !.status = "hold", !.slot = req[p].slot,
                        !.customer = req[p].customer, !.key = req[p].key, !.created = now]
    OBVIOUS
  <2>3. b.status = "hold"
    BY <2>2, Zenon DEF NoBooking
  <2>4. \A x \in Row : x # r => hold'[x] = hold[x]
    BY <2>1 DEF TypeOK
  <2> QED
    BY <2>1, <2>2, <2>3, <2>4, OneRowKept
<1> QED
  BY <1>1, <1>2, <1>3

LEMMA WriteTokenKept ==
  ASSUME TypeOK, NEW p \in Proc, WriteToken(p)
  PROVE  RowsKept
<1>1. PICK r \in Row : r = req[p].row /\ booking[r] \in Booking
  BY InRow DEF WriteToken, TypeOK
<1>2. PICK b : b = [booking[r] EXCEPT !.token = TRUE]
  OBVIOUS
<1>3. b.status = booking[r].status /\ b.jti = booking[r].jti
  BY <1>1, <1>2, Zenon DEF Booking
<1>4. booking' = [booking EXCEPT ![r] = b] /\ UNCHANGED hold
  BY <1>1, <1>2 DEF WriteToken, TypeOK
<1> QED
  BY <1>3, <1>4, OneRowKept

LEMMA PostConfirmKept ==
  ASSUME TypeOK, NEW p \in Proc, PostConfirm(p)
  PROVE  RowsKept
<1>1. PICK r \in Row : r = req[p].row /\ booking[r] \in Booking
  BY InRow DEF PostConfirm, TypeOK
<1>2. PICK attached : booking' = [booking EXCEPT ![r].event = attached]
  BY <1>1 DEF PostConfirm
<1>3. PICK b : b = [booking[r] EXCEPT !.event = attached]
  OBVIOUS
<1>4. b.status = booking[r].status /\ b.jti = booking[r].jti
  BY <1>1, <1>3, Zenon DEF Booking
<1>5. booking' = [booking EXCEPT ![r] = b] /\ UNCHANGED hold
  BY <1>2, <1>3 DEF PostConfirm, TypeOK
<1> QED
  BY <1>4, <1>5, OneRowKept

LEMMA VerifyWriteKept ==
  ASSUME TypeOK, NEW p \in Proc, VerifyWrite(p)
  PROVE  RowsKept
<1>1. CASE UNCHANGED booking
  BY <1>1, SameKept DEF VerifyWrite
<1>2. CASE ~UNCHANGED booking
  <2>1. PICK r \in Row : r = req[p].row /\ booking[r] \in Booking
    BY InRow DEF VerifyWrite, TypeOK
  <2>2. PICK b : b = [booking[r] EXCEPT !.status = "pending_verify", !.jti = TRUE]
    OBVIOUS
  <2>3. b.status = "pending_verify" /\ b.jti = TRUE
    BY <2>1, <2>2, Zenon DEF Booking
  <2>4. booking' = [booking EXCEPT ![r] = b] /\ UNCHANGED hold
    BY <1>2, <2>1, <2>2 DEF VerifyWrite, TypeOK
  <2> QED
    BY <2>3, <2>4, OneRowKept
<1> QED
  BY <1>1, <1>2

LEMMA ConfirmKept ==
  ASSUME TypeOK, NEW p \in Proc, req[p].pc \in {"confirmCommit", "byIdCommit"}, NEW scope,
         Confirm(p, scope)
  PROVE  RowsKept
<1>1. CASE UNCHANGED <<booking, hold>>
  BY <1>1, SameKept
<1>2. CASE ~UNCHANGED <<booking, hold>>
  <2>1. PICK r \in Row : r = req[p].row /\ booking[r] \in Booking
    BY InRow DEF TypeOK
  <2>2. PICK b : b = Confirmed(booking[r])
    OBVIOUS
  <2>3. b.status = "confirmed" /\ b.jti = FALSE
    BY <2>1, <2>2, Zenon DEF Booking, Confirmed
  <2>4. booking' = [booking EXCEPT ![r] = b] /\ hold' = [hold EXCEPT ![r] = NoHold]
    BY <1>2, <2>1, <2>2 DEF Confirm
  <2>5. hold'[r] = NoHold /\ \A x \in Row : x # r => hold'[x] = hold[x]
    BY <2>1, <2>4 DEF TypeOK
  <2> QED
    BY <2>3, <2>4, <2>5, OneRowKept
<1> QED
  BY <1>1, <1>2

LEMMA SweepDeleteKept ==
  ASSUME TypeOK, NEW p \in Proc, SweepDelete(p)
  PROVE  RowsKept
<1>1. ASSUME NEW r \in Row PROVE RowKept(r)
  <2>1. hold'[r] \in {hold[r], NoHold}
    BY DEF SweepDelete
  <2>2. CASE r \in req[p].marked
    <3>1. PICK b : b = [booking[r] EXCEPT !.status = "expired"]
      OBVIOUS
    <3>2. b.status = "expired"
      BY <3>1, Zenon DEF TypeOK, Booking
    <3>3. booking'[r] = b
      BY <2>2, <3>1 DEF SweepDelete
    <3> QED
      BY <3>2, <3>3 DEF RowKept
  <2>3. CASE r \notin req[p].marked
    <3>1. booking'[r] = booking[r]
      BY <2>3 DEF SweepDelete
    <3> QED
      BY <2>1, <3>1, Zenon DEF RowKept
  <2> QED
    BY <2>2, <2>3
<1> QED
  BY <1>1 DEF RowsKept

LEMMA NextKept ==
  ASSUME TypeOK, [Next]_vars
  PROVE  RowsKept
<1>1. CASE UNCHANGED vars \/ Tick
  BY <1>1, SameKept DEF vars, Tick
<1>2. ASSUME NEW p \in Proc, Start(p) PROVE RowsKept
  <2>1. CASE UNCHANGED <<booking, hold>>
    BY <2>1, SameKept
  <2>2. ASSUME NEW r \in Row, WebhookDeleted(p, r) \/ \E s \in Slot : WebhookMoved(p, r, s)
        PROVE  RowsKept
    BY <2>2, StatusKept, SlotKept DEF WebhookDeleted, WebhookMoved
  <2> QED
    BY <1>2, <2>1, <2>2 DEF Start, Keys, HoldStart, ConfirmCheck, VerifyRead, ByIdRead, CancelRead,
       MoveCheck, SweepFind
<1>3. ASSUME NEW p \in Proc, Continue(p) PROVE RowsKept
  <2>1. CASE UNCHANGED <<booking, hold>>
    BY <2>1, SameKept
  <2>2. CASE ExpireWrite(p) \/ CancelWrite(p)
    <3>1. PICK r \in Row : r = req[p].row
      BY <2>2, InRow DEF ExpireWrite, CancelWrite
    <3> QED
      BY <2>2, <3>1, StatusKept DEF ExpireWrite, CancelWrite
  <2>3. CASE MoveCommit(p)
    <3>1. PICK r \in Row : r = req[p].row
      BY <2>3, InRow DEF MoveCommit
    <3> QED
      BY <2>1, <2>3, <3>1, SlotKept DEF MoveCommit
  <2>4. CASE DropHold(p)
    <3>1. \A r \in Row : hold'[r] \in {hold[r], NoHold}
      BY <2>4 DEF DropHold, TypeOK
    <3> QED
      BY <2>4, <3>1, SameKept DEF DropHold
  <2>5. CASE ConfirmCommit(p) \/ ByIdCommit(p)
    BY <2>5, ConfirmKept DEF ConfirmCommit, ByIdCommit
  <2> QED
    BY <1>3, <2>1, <2>2, <2>3, <2>4, <2>5, HoldKept, WriteTokenKept, PostConfirmKept,
       VerifyWriteKept, SweepDeleteKept
       DEF Continue, HoldRead, ReadToken, ConfirmRead, MoveRead, SweepMark
<1> QED
  BY <1>1, <1>2, <1>3 DEF Next

\* Whatever requests are in flight, a confirmed booking has neither a hold row
\* nor a verify token id left, and one waiting for verification has its id.
THEOREM ConfirmedStaysSettled == Spec => []ConfirmedIsSettled
<1>1. Init => ConfirmedIsSettled
  BY DEF Init, ConfirmedIsSettled, NoBooking
<1>2. TypeOK /\ ConfirmedIsSettled /\ [Next]_vars => ConfirmedIsSettled'
  BY NextKept, KeptIsSettled
<1> QED
  BY <1>1, <1>2, TypeInvariant, PTL DEF Spec
-----------------------------------------------------------------------------
(* What a step does to the booking it names, and how the request goes on.  *)

Here(p, r, S) == req[p].pc \in S /\ req[p].row = r
InSweep(p, r) == req[p].pc \in {"sweepMark", "sweepDelete"} /\ r \in req[p].rows

\* The record of row r, and no other, is written.
RowOnly(r) == \A x \in Row : x # r => booking'[x] = booking[x] /\ hold'[x] = hold[x]
Gets(r, st) ==
  /\ booking'[r].status = st
  /\ booking'[r].created = booking[r].created /\ booking'[r].key = booking[r].key
Went(p, pc, r) == req'[p].pc = pc /\ req'[p].row = r

LEMMA Types ==
  ASSUME TypeOK, NEW p \in Proc
  PROVE  /\ now \in Nat /\ HoldTTL \in Nat /\ HoldTTL > 0 /\ ConfirmWindow \in Nat
         /\ \A r \in Row : hold[r] \in Nat /\ booking[r] \in Booking /\ booking[r].created \in Nat
         /\ \A t \in tokens : t \in VerifyToken /\ t.exp \in Nat /\ t.row \in Row
         /\ req[p].at \in Nat /\ req[p].rows \subseteq Row /\ req[p].marked \subseteq Row
  BY ConstantsOK DEF TypeOK, Booking, VerifyToken, Request

LEMMA StatusRow ==
  ASSUME TypeOK, NEW r \in Row, NEW st, booking' = [booking EXCEPT ![r].status = st]
  PROVE  Gets(r, st) /\ \A x \in Row : x # r => booking'[x] = booking[x]
<1> DEFINE b == [booking[r] EXCEPT !.status = st]
<1>1. booking[r] \in Booking
  BY DEF TypeOK
<1>2. b.status = st /\ b.created = booking[r].created /\ b.key = booking[r].key
  BY <1>1, Zenon DEF Booking
<1>3. booking' = [booking EXCEPT ![r] = b]
  OBVIOUS
<1> HIDE DEF b
<1> QED
  BY <1>2, <1>3 DEF TypeOK, Gets

LEMMA WentIdle ==
  ASSUME TypeOK, NEW p \in Proc, Done(p)
  PROVE  Went(p, "idle", None)
<1>1. Idle.pc = "idle" /\ Idle.row = None
  BY DEF Idle
<1> QED
  BY <1>1 DEF Done, Goto, TypeOK, Went

LEMMA WentOn ==
  ASSUME TypeOK, NEW p \in Proc, NEW r, NEW pc, Goto(p, [Idle EXCEPT !.pc = pc, !.row = r])
  PROVE  Went(p, pc, r)
<1> DEFINE q == [Idle EXCEPT !.pc = pc, !.row = r]
<1>1. q.pc = pc /\ q.row = r
  BY Zenon DEF Idle
<1>2. Goto(p, q)
  OBVIOUS
<1> HIDE DEF q
<1> QED
  BY <1>1, <1>2 DEF Goto, TypeOK, Went

LEMMA WentWithKey ==
  ASSUME TypeOK, NEW p \in Proc, NEW r, NEW pc, NEW k,
         Goto(p, [Idle EXCEPT !.pc = pc, !.row = r, !.key = k])
  PROVE  Went(p, pc, r)
<1> DEFINE q == [Idle EXCEPT !.pc = pc, !.row = r, !.key = k]
<1>1. q.pc = pc /\ q.row = r
  BY Zenon DEF Idle
<1>2. Goto(p, q)
  OBVIOUS
<1> HIDE DEF q
<1> QED
  BY <1>1, <1>2 DEF Goto, TypeOK, Went

LEMMA WentPC ==
  ASSUME TypeOK, NEW p \in Proc, NEW pc, Goto(p, [req[p] EXCEPT !.pc = pc])
  PROVE  Went(p, pc, req[p].row)
<1> DEFINE q == [req[p] EXCEPT !.pc = pc]
<1>1. q.pc = pc /\ q.row = req[p].row
  BY Zenon DEF TypeOK, Request
<1>2. Goto(p, q)
  OBVIOUS
<1> HIDE DEF q
<1> QED
  BY <1>1, <1>2 DEF Goto, TypeOK, Went

LEMMA HoldStartDoes ==
  ASSUME TypeOK, NEW p \in Proc, NEW k, NEW s, NEW c, HoldStart(p, k, s, c)
  PROVE  req'[p].pc = "holdTx" /\ req'[p].at = now
<1> DEFINE q == [Idle EXCEPT !.pc = "holdTx", !.slot = s, !.customer = c, !.key = k, !.at = now]
<1>1. q.pc = "holdTx" /\ q.at = now
  BY Zenon DEF Idle
<1>2. Goto(p, q)
  BY DEF HoldStart
<1> HIDE DEF q
<1> QED
  BY <1>1, <1>2 DEF Goto, TypeOK

LEMMA HoldReadDoes ==
  ASSUME TypeOK, NEW p \in Proc, HoldRead(p)
  PROVE  /\ req[p].pc = "holdTx" /\ UNCHANGED <<now, booking, hold, tokens>>
         /\ \/ req'[p].pc \in {"readToken", "idle"}
            \/ /\ req'[p].pc = "holdCommit" /\ req'[p].at = req[p].at
               /\ req'[p].row \in Row => ~Blocks(req'[p].row, req[p].at)
<1> DEFINE take(r) == [req[p] EXCEPT !.pc = "holdCommit", !.row = r]
<1>1. ASSUME NEW r, Goto(p, take(r))
      PROVE  req'[p].pc = "holdCommit" /\ req'[p].row = r /\ req'[p].at = req[p].at
  <2>1. take(r).pc = "holdCommit" /\ take(r).row = r /\ take(r).at = req[p].at
    BY Zenon DEF TypeOK, Request
  <2> HIDE DEF take
  <2> QED
    BY <1>1, <2>1 DEF Goto, TypeOK
<1>2. ASSUME NEW r, Goto(p, [Idle EXCEPT !.pc = "readToken", !.row = r])
      PROVE  req'[p].pc = "readToken"
  BY <1>2, WentOn DEF Went
<1>3. Done(p) => req'[p].pc = "idle"
  BY WentIdle DEF Went
<1> QED
  BY <1>1, <1>2, <1>3, NoneOK DEF HoldRead

LEMMA RefusedDoes ==
  ASSUME TypeOK, NEW p \in Proc, Refused(p)
  PROVE  req'[p].pc \in {"readToken", "idle"}
  BY WentOn, WentIdle DEF Refused, Went

LEMMA HoldReuseDoes ==
  ASSUME TypeOK, NEW p \in Proc, HoldReuse(p), NEW r, r = req[p].row
  PROVE  /\ r \in Row /\ req[p].pc = "holdCommit"
         /\ \/ /\ booking'[r].status = "hold" /\ booking'[r].created = booking[r].created
               /\ booking'[r].key = req[p].key
               /\ hold'[r] = req[p].at + HoldTTL /\ RowOnly(r) /\ req'[p].pc = "readToken"
            \/ UNCHANGED <<booking, hold>> /\ req'[p].pc \in {"readToken", "idle"}
<1>1. r \in Row
  BY DEF TypeOK, HoldReuse, Request
<1>2. CASE Refused(p) /\ UNCHANGED <<booking, hold>>
  BY <1>1, <1>2, RefusedDoes DEF HoldReuse
<1>3. CASE ~(Refused(p) /\ UNCHANGED <<booking, hold>>)
  <2> DEFINE b == [booking[r] EXCEPT !.status = "hold", !.customer = req[p].customer,
                                     !.key = req[p].key, !.jti = FALSE]
  <2>1. /\ booking' = [booking EXCEPT ![r] = b]
        /\ hold' = [hold EXCEPT ![r] = ExpiresAt(req[p].at)]
        /\ Goto(p, [Idle EXCEPT !.pc = "readToken", !.row = r])
    <3>1. booking' = [booking EXCEPT ![r].status = "hold", ![r].customer = req[p].customer,
                                     ![r].key = req[p].key, ![r].jti = FALSE]
      BY <1>3 DEF HoldReuse
    <3>2. hold' = [hold EXCEPT ![r] = ExpiresAt(req[p].at)]
      BY <1>3 DEF HoldReuse
    <3>3. Goto(p, [Idle EXCEPT !.pc = "readToken", !.row = r])
      BY <1>3 DEF HoldReuse
    <3>4. booking' = [booking EXCEPT ![r] = b]
      BY <1>1, <3>1 DEF TypeOK
    <3> QED
      BY <3>2, <3>3, <3>4
  <2>2. b.status = "hold" /\ b.created = booking[r].created /\ b.key = req[p].key
    <3>1. booking[r] \in Booking
      BY <1>1 DEF TypeOK
    <3> QED
      BY <3>1, Zenon DEF Booking
  <2> HIDE DEF b
  <2>3. req'[p].pc = "readToken"
    BY <2>1, WentOn DEF Went
  <2> QED
    BY <1>1, <2>1, <2>2, <2>3 DEF TypeOK, ExpiresAt, RowOnly, HoldReuse
<1> QED
  BY <1>2, <1>3

LEMMA HoldCreateDoes ==
  ASSUME TypeOK, NEW p \in Proc, HoldCreate(p)
  PROVE  \/ \E r \in Row :
              /\ booking[r].status = "none"
              /\ booking'[r].status = "hold" /\ booking'[r].created = now
              /\ booking'[r].key = req[p].key
              /\ hold'[r] = req[p].at + HoldTTL /\ RowOnly(r) /\ req'[p].pc = "readToken"
         \/ UNCHANGED <<booking, hold>> /\ req'[p].pc \in {"readToken", "idle"}
<1>1. CASE Refused(p) /\ UNCHANGED <<booking, hold>>
  BY <1>1, RefusedDoes
<1>2. ASSUME NEW r \in Row, ~Exists(r),
             booking' = [booking EXCEPT ![r] =
               [NoBooking EXCEPT !.status = "hold", !.slot = req[p].slot,
                                 !.customer = req[p].customer, !.key = req[p].key, !.created = now]],
             hold' = [hold EXCEPT ![r] = ExpiresAt(req[p].at)],
             Goto(p, [Idle EXCEPT !.pc = "readToken", !.row = r])
      PROVE  /\ booking[r].status = "none"
             /\ booking'[r].status = "hold" /\ booking'[r].created = now
             /\ booking'[r].key = req[p].key
             /\ hold'[r] = req[p].at + HoldTTL /\ RowOnly(r) /\ req'[p].pc = "readToken"
  <2> DEFINE b == [NoBooking EXCEPT !.status = "hold", !.slot = req[p].slot,
                     !.customer = req[p].customer, !.key = req[p].key, !.created = now]
  <2>1. b.status = "hold" /\ b.created = now /\ b.key = req[p].key
    BY Zenon DEF NoBooking
  <2>2. booking' = [booking EXCEPT ![r] = b]
    BY <1>2
  <2> HIDE DEF b
  <2>3. req'[p].pc = "readToken"
    BY <1>2, WentOn DEF Went
  <2> QED
    BY <1>2, <2>1, <2>2, <2>3 DEF TypeOK, ExpiresAt, RowOnly, Exists
<1> QED
  BY <1>1, <1>2 DEF HoldCreate

\* No row changes what the properties look at.
Alike ==
  \A x \in Row : /\ booking'[x].status = booking[x].status /\ booking'[x].key = booking[x].key
                 /\ booking'[x].created = booking[x].created

LEMMA AlikeRow ==
  ASSUME TypeOK, NEW r \in Row, NEW b, booking' = [booking EXCEPT ![r] = b],
         b.status = booking[r].status, b.key = booking[r].key, b.created = booking[r].created
  PROVE  Alike
  BY DEF TypeOK, Alike

LEMMA ReadTokenDoes ==
  ASSUME TypeOK, NEW p \in Proc, ReadToken(p)
  PROVE  req'[p].pc \in {"idle", "writeToken"} /\ UNCHANGED <<now, booking, hold, tokens, idem>>
  BY WentIdle, WentPC DEF ReadToken, Went

LEMMA WriteTokenDoes ==
  ASSUME TypeOK, NEW p \in Proc, WriteToken(p)
  PROVE  req'[p].pc = "idle" /\ Alike /\ UNCHANGED <<now, hold, tokens, idem>>
<1>1. PICK r : r = req[p].row
  OBVIOUS
<1>2. r \in Row /\ booking[r] \in Booking
  BY <1>1, InRow DEF WriteToken, TypeOK
<1> DEFINE b == [booking[r] EXCEPT !.token = TRUE]
<1>3. b.status = booking[r].status /\ b.key = booking[r].key /\ b.created = booking[r].created
  BY <1>2, Zenon DEF Booking
<1>4. booking' = [booking EXCEPT ![r] = b]
  BY <1>1 DEF WriteToken
<1> HIDE DEF b
<1> QED
  BY <1>2, <1>3, <1>4, AlikeRow, WentIdle DEF WriteToken, Went

LEMMA VerifyReadDoes ==
  ASSUME TypeOK, NEW p \in Proc, NEW r \in Row, NEW k \in Key \cup {None}, VerifyRead(p, r, k)
  PROVE  \/ Went(p, "expireWrite", r) /\ hold[r] <= now
         \/ Went(p, "verifyWrite", r) /\ req'[p].at = hold[r]
<1>1. CASE hold[r] <= now /\ Goto(p, [Idle EXCEPT !.pc = "expireWrite", !.row = r])
  BY <1>1, WentOn
<1>2. CASE Goto(p, [Idle EXCEPT !.pc = "verifyWrite", !.row = r, !.key = k, !.at = VerifyExp(r),
                                !.customer = booking[r].customer])
  <2> DEFINE q == [Idle EXCEPT !.pc = "verifyWrite", !.row = r, !.key = k, !.at = VerifyExp(r),
                               !.customer = booking[r].customer]
  <2>1. q.pc = "verifyWrite" /\ q.row = r /\ q.at = VerifyExp(r)
    BY Zenon DEF Idle
  <2>2. Goto(p, q)
    BY <1>2
  <2> HIDE DEF q
  <2> QED
    BY <2>1, <2>2 DEF Goto, TypeOK, Went, VerifyExp
<1> QED
  BY <1>1, <1>2 DEF VerifyRead

LEMMA VerifyWriteDoes ==
  ASSUME TypeOK, NEW p \in Proc, VerifyWrite(p), NEW r, r = req[p].row
  PROVE  /\ r \in Row /\ req'[p].pc = "idle" /\ UNCHANGED <<now, hold>>
         /\ \/ /\ Gets(r, "pending_verify") /\ \A x \in Row : x # r => booking'[x] = booking[x]
               /\ tokens' = tokens \cup {[row |-> r, exp |-> req[p].at, to |-> req[p].customer]}
            \/ UNCHANGED <<booking, tokens>>
<1>1. r \in Row /\ booking[r] \in Booking
  BY InRow DEF VerifyWrite, TypeOK
<1> DEFINE b == [booking[r] EXCEPT !.status = "pending_verify", !.jti = TRUE]
<1>2. b.status = "pending_verify" /\ b.key = booking[r].key /\ b.created = booking[r].created
  BY <1>1, Zenon DEF Booking
<1>3. booking' = [booking EXCEPT ![r].status = "pending_verify", ![r].jti = TRUE]
       => booking' = [booking EXCEPT ![r] = b]
  BY <1>1 DEF TypeOK
<1> HIDE DEF b
<1> QED
  BY <1>1, <1>2, <1>3, WentIdle DEF VerifyWrite, TypeOK, Gets, Went

LEMMA ExpireWriteDoes ==
  ASSUME TypeOK, NEW p \in Proc, ExpireWrite(p), NEW r, r = req[p].row
  PROVE  /\ r \in Row /\ req'[p].pc = "idle" /\ Gets(r, "expired")
         /\ \A x \in Row : x # r => booking'[x] = booking[x]
  BY InRow, WentIdle, StatusRow DEF ExpireWrite, Went

LEMMA ConfirmCheckDoes ==
  ASSUME TypeOK, NEW p \in Proc, NEW t \in tokens, NEW k \in Key \cup {None}, ConfirmCheck(p, t, k)
  PROVE  \/ UNCHANGED req
         \/ Went(p, "expireWrite", t.row) /\ booking[t.row].status \in Open /\ hold[t.row] <= now
         \/ req'[p].pc = "confirmTx"
  BY WentOn, WentWithKey DEF ConfirmCheck, Went, Open

LEMMA ConfirmReadDoes ==
  ASSUME TypeOK, NEW p \in Proc, ConfirmRead(p)
  PROVE  \/ req'[p].pc \in {"postConfirm", "idle"}
         \/ Went(p, "confirmCommit", req[p].row) /\ booking[req[p].row].status \in Open
  BY WentOn, WentPC, WentIdle DEF ConfirmRead, Went, Open

LEMMA ConfirmDoes ==
  ASSUME TypeOK, NEW p \in Proc, NEW scope, Confirm(p, scope),
         req[p].pc \in {"confirmCommit", "byIdCommit"}, NEW r, r = req[p].row
  PROVE  /\ r \in Row /\ UNCHANGED <<now, tokens>>
         /\ \/ /\ Gets(r, "confirmed") /\ hold'[r] = NoHold /\ RowOnly(r)
               /\ req'[p].pc = "postConfirm"
            \/ UNCHANGED <<booking, hold>> /\ req'[p].pc = "idle"
<1>1. r \in Row /\ booking[r] \in Booking
  BY InRow DEF TypeOK
<1> DEFINE b == Confirmed(booking[r])
<1>2. b.status = "confirmed" /\ b.key = booking[r].key /\ b.created = booking[r].created
  BY <1>1, Zenon DEF Booking, Confirmed
<1> HIDE DEF b
<1>3. CASE booking' = [booking EXCEPT ![r] = b] /\ hold' = [hold EXCEPT ![r] = NoHold]
           /\ Goto(p, [Idle EXCEPT !.pc = "postConfirm", !.row = r])
  BY <1>1, <1>2, <1>3, WentOn DEF Confirm, TypeOK, Gets, RowOnly, Went
<1>4. CASE Done(p) /\ UNCHANGED <<booking, hold>>
  BY <1>1, <1>4, WentIdle DEF Confirm, Went
<1> QED
  BY <1>3, <1>4 DEF Confirm, b

LEMMA ByIdReadDoes ==
  ASSUME TypeOK, NEW p \in Proc, NEW r \in Row, NEW k \in Key \cup {None}, ByIdRead(p, r, k)
  PROVE  Went(p, "byIdCommit", r) /\ booking[r].status \in Open
  BY WentWithKey DEF ByIdRead, ConfirmTokenUsable, Open

LEMMA PostConfirmDoes ==
  ASSUME TypeOK, NEW p \in Proc, PostConfirm(p)
  PROVE  req'[p].pc = "idle" /\ Alike
<1>1. PICK r : r = req[p].row
  OBVIOUS
<1>2. r \in Row /\ booking[r] \in Booking
  BY <1>1, InRow DEF PostConfirm, TypeOK
<1>3. PICK e : booking' = [booking EXCEPT ![r].event = e]
  BY <1>1 DEF PostConfirm
<1> DEFINE b == [booking[r] EXCEPT !.event = e]
<1>4. b.status = booking[r].status /\ b.key = booking[r].key /\ b.created = booking[r].created
  BY <1>2, Zenon DEF Booking
<1>5. booking' = [booking EXCEPT ![r] = b]
  BY <1>3
<1> HIDE DEF b
<1> QED
  BY <1>2, <1>4, <1>5, AlikeRow, WentIdle DEF PostConfirm, Went

LEMMA CancelReadDoes ==
  ASSUME TypeOK, NEW p \in Proc, NEW r \in Row, NEW k \in Key \cup {None}, CancelRead(p, r, k)
  PROVE  Went(p, "dropHold", r) \/ Went(p, "cancelWrite", r)
  BY WentOn, WentWithKey DEF CancelRead

LEMMA CancelWriteDoes ==
  ASSUME TypeOK, NEW p \in Proc, CancelWrite(p), NEW r, r = req[p].row
  PROVE  /\ r \in Row /\ Exists(r) /\ Went(p, "dropHold", r) /\ Gets(r, "canceled")
         /\ \A x \in Row : x # r => booking'[x] = booking[x]
  BY InRow, WentPC, StatusRow DEF CancelWrite

LEMMA DropHoldDoes ==
  ASSUME TypeOK, NEW p \in Proc, DropHold(p), NEW r, r = req[p].row
  PROVE  /\ r \in Row /\ req'[p].pc = "idle" /\ hold'[r] = NoHold
         /\ \A x \in Row : x # r => hold'[x] = hold[x]
  BY InRow, WentIdle DEF DropHold, Went, TypeOK

LEMMA MoveCheckDoes ==
  ASSUME TypeOK, NEW p \in Proc, NEW r \in Row, NEW s \in Slot, NEW k \in Key \cup {None},
         MoveCheck(p, r, s, k)
  PROVE  req'[p].pc = "moveTx" \/ UNCHANGED req
<1> DEFINE q == [Idle EXCEPT !.pc = "moveTx", !.row = r, !.slot = s, !.key = k, !.at = now]
<1>1. q.pc = "moveTx"
  BY Zenon DEF Idle
<1>2. Goto(p, q) \/ UNCHANGED req
  BY DEF MoveCheck
<1> HIDE DEF q
<1> QED
  BY <1>1, <1>2 DEF Goto, TypeOK

LEMMA MoveReadDoes ==
  ASSUME TypeOK, NEW p \in Proc, MoveRead(p)
  PROVE  req'[p].pc \in {"idle", "moveCommit"}
  BY WentIdle, WentPC DEF MoveRead, Went

LEMMA SlotRow ==
  ASSUME TypeOK, NEW r \in Row, NEW s, booking' = [booking EXCEPT ![r].slot = s]
  PROVE  Alike
<1> DEFINE b == [booking[r] EXCEPT !.slot = s]
<1>1. booking[r] \in Booking
  BY DEF TypeOK
<1>2. b.status = booking[r].status /\ b.key = booking[r].key /\ b.created = booking[r].created
  BY <1>1, Zenon DEF Booking
<1>3. booking' = [booking EXCEPT ![r] = b]
  OBVIOUS
<1> HIDE DEF b
<1> QED
  BY <1>2, <1>3, AlikeRow

LEMMA MoveCommitDoes ==
  ASSUME TypeOK, NEW p \in Proc, MoveCommit(p)
  PROVE  req'[p].pc = "idle" /\ Alike
<1>1. req'[p].pc = "idle"
  BY WentIdle DEF MoveCommit, Went
<1>2. booking' = [booking EXCEPT ![req[p].row].slot = req[p].slot] => Alike
  BY InRow, SlotRow DEF MoveCommit
<1>3. UNCHANGED booking => Alike
  BY DEF Alike
<1> QED
  BY <1>1, <1>2, <1>3 DEF MoveCommit

LEMMA SweepFindDoes ==
  ASSUME TypeOK, NEW p \in Proc, SweepFind(p)
  PROVE  \/ UNCHANGED req
         \/ req'[p].pc = "sweepMark" /\ req'[p].row = None /\ req'[p].rows = {r \in Row : Lapsed(r)}
<1> DEFINE L == {r \in Row : Lapsed(r)}
           q == [Idle EXCEPT !.pc = "sweepMark", !.rows = L]
<1>1. q.pc = "sweepMark" /\ q.row = None /\ q.rows = L
  BY Zenon DEF Idle
<1>2. Goto(p, q) \/ UNCHANGED req
  BY DEF SweepFind
<1> HIDE DEF q
<1> QED
  BY <1>1, <1>2 DEF Goto, TypeOK

LEMMA SweepMarkDoes ==
  ASSUME TypeOK, NEW p \in Proc, SweepMark(p)
  PROVE  /\ req'[p].pc = "sweepDelete" /\ req'[p].row = req[p].row /\ req'[p].rows = req[p].rows
         /\ req'[p].marked = StillOpen(req[p].rows)
<1> DEFINE m == StillOpen(req[p].rows)
           q == [req[p] EXCEPT !.pc = "sweepDelete", !.marked = m]
<1>1. q.pc = "sweepDelete" /\ q.row = req[p].row /\ q.rows = req[p].rows /\ q.marked = m
  BY Zenon DEF TypeOK, Request
<1>2. Goto(p, q)
  BY DEF SweepMark
<1> HIDE DEF q
<1> QED
  BY <1>1, <1>2 DEF Goto, TypeOK

LEMMA SweepDeleteDoes ==
  ASSUME TypeOK, NEW p \in Proc, SweepDelete(p)
  PROVE  /\ req'[p].pc = "idle"
         /\ \A x \in Row : /\ x \in req[p].marked => Gets(x, "expired")
                           /\ x \notin req[p].marked => booking'[x] = booking[x]
                           /\ x \in req[p].rows => hold'[x] = NoHold
                           /\ x \notin req[p].rows => hold'[x] = hold[x]
<1>1. ASSUME NEW x \in Row
      PROVE  /\ [booking[x] EXCEPT !.status = "expired"].status = "expired"
             /\ [booking[x] EXCEPT !.status = "expired"].created = booking[x].created
             /\ [booking[x] EXCEPT !.status = "expired"].key = booking[x].key
  BY Zenon DEF TypeOK, Booking
<1>2. ASSUME NEW x \in Row, x \in req[p].marked
      PROVE  booking'[x] = [booking[x] EXCEPT !.status = "expired"]
  BY <1>2 DEF SweepDelete
<1>3. ASSUME NEW x \in Row, x \in req[p].marked PROVE Gets(x, "expired")
  BY <1>1, <1>2, <1>3 DEF Gets
<1> QED
  BY <1>3, WentIdle DEF SweepDelete, Went

LEMMA WebhookDeletedDoes ==
  ASSUME TypeOK, NEW p \in Proc, NEW r \in Row, WebhookDeleted(p, r)
  PROVE  /\ Exists(r) /\ Gets(r, "canceled") /\ \A x \in Row : x # r => booking'[x] = booking[x]
<1>1. ~NoBooking.event
  BY DEF NoBooking
<1> QED
  BY <1>1, StatusRow DEF TypeOK, WebhookDeleted, Exists

LEMMA WebhookMovedDoes ==
  ASSUME TypeOK, NEW p \in Proc, NEW r \in Row, NEW s \in Slot, WebhookMoved(p, r, s)
  PROVE  Alike
  BY SlotRow DEF WebhookMoved

\* A step of one process leaves the others where they are.
LEMMA OthersGoto ==
  ASSUME TypeOK, NEW p \in Proc, NEW q \in Proc, p # q, NEW x, Goto(q, x)
  PROVE  req'[p] = req[p]
  BY DEF Goto, TypeOK

LEMMA OthersWait ==
  ASSUME TypeOK, NEW p \in Proc, NEW q \in Proc, p # q, Start(q) \/ Continue(q)
  PROVE  req'[p] = req[p] /\ UNCHANGED now
<1>1. Done(q) \/ Refused(q) => req'[p] = req[p]
  BY OthersGoto DEF Done, Refused
<1>2. HoldRead(q) \/ HoldReuse(q) \/ HoldCreate(q) \/ ReadToken(q) \/ WriteToken(q) \/ VerifyWrite(q) \/ ExpireWrite(q)
        => req'[p] = req[p] /\ UNCHANGED now
  BY <1>1, OthersGoto DEF HoldRead, HoldReuse, HoldCreate, ReadToken, WriteToken, VerifyWrite, ExpireWrite
<1>3. ConfirmRead(q) \/ ConfirmCommit(q) \/ ByIdCommit(q) \/ PostConfirm(q)
        => req'[p] = req[p] /\ UNCHANGED now
  BY <1>1, OthersGoto DEF ConfirmRead, ConfirmCommit, ByIdCommit, PostConfirm, Confirm
<1>4. CancelWrite(q) \/ DropHold(q) \/ MoveRead(q) \/ MoveCommit(q) \/ SweepMark(q) \/ SweepDelete(q)
        => req'[p] = req[p] /\ UNCHANGED now
  BY <1>1, OthersGoto DEF CancelWrite, DropHold, MoveRead, MoveCommit, SweepMark, SweepDelete
<1>5. ASSUME NEW k, NEW s, NEW c, HoldStart(q, k, s, c) PROVE req'[p] = req[p] /\ UNCHANGED now
  BY <1>5, OthersGoto DEF HoldStart
<1>6. ASSUME NEW t, NEW k, ConfirmCheck(q, t, k) PROVE req'[p] = req[p] /\ UNCHANGED now
  BY <1>6, OthersGoto DEF ConfirmCheck
<1>7. ASSUME NEW r, NEW k, VerifyRead(q, r, k) \/ ByIdRead(q, r, k) \/ CancelRead(q, r, k)
      PROVE  req'[p] = req[p] /\ UNCHANGED now
  BY <1>7, OthersGoto DEF VerifyRead, ByIdRead, CancelRead
<1>8. ASSUME NEW r, NEW s, NEW k, MoveCheck(q, r, s, k) PROVE req'[p] = req[p] /\ UNCHANGED now
  BY <1>8, OthersGoto DEF MoveCheck
<1>9. SweepFind(q) => req'[p] = req[p] /\ UNCHANGED now
  BY OthersGoto DEF SweepFind
<1>10. ASSUME NEW r, NEW s, WebhookDeleted(q, r) \/ WebhookMoved(q, r, s)
       PROVE  req'[p] = req[p] /\ UNCHANGED now
  BY <1>10 DEF WebhookDeleted, WebhookMoved
<1> QED
  BY <1>2, <1>3, <1>4, <1>5, <1>6, <1>7, <1>8, <1>9, <1>10 DEF Start, Keys, Continue

-----------------------------------------------------------------------------
(* The clocks: a hold is set for HoldTTL from the moment of its request,   *)
(* which is at most one tick before the commit that writes it, so that no  *)
(* hold is much shorter than one made earlier.  No race can change that.   *)

HoldClock(r) ==
  /\ hold[r] <= now + HoldTTL /\ booking[r].created <= now
  /\ hold[r] # NoHold => booking[r].created + HoldTTL <= hold[r] + 1

TokenClock ==
  \A t \in tokens : /\ t.exp <= now + HoldTTL
                    /\ hold[t.row] # NoHold => t.exp <= hold[t.row] + 1

InTime(p) ==
  /\ req[p].pc \in {"holdTx", "holdCommit"} => req[p].at <= now /\ now <= req[p].at + 1
  /\ req[p].pc = "verifyWrite" =>
       /\ req[p].at <= now + HoldTTL
       /\ hold[req[p].row] # NoHold => req[p].at <= hold[req[p].row] + 1

Clocks == (\A r \in Row : HoldClock(r)) /\ TokenClock /\ \A p \in Proc : InTime(p)

\* A step leaves a row its hold, deletes it, or writes a new one.
Renewed ==
  \A r \in Row :
    \/ hold'[r] \in {hold[r], NoHold} /\ booking'[r].created = booking[r].created
    \/ /\ hold'[r] <= now + HoldTTL /\ now + HoldTTL <= hold'[r] + 1
       /\ booking'[r].created <= now

\* A request that goes on is in time.
GoesOn(p) ==
  \/ req'[p].pc \notin {"holdTx", "holdCommit", "verifyWrite"}
  \/ req'[p].pc \in {"holdTx", "holdCommit"} /\ req'[p].at <= now /\ now <= req'[p].at + 1
  \/ /\ req'[p].pc = "verifyWrite" /\ req'[p].at <= now + HoldTTL
     /\ hold[req'[p].row] # NoHold => req'[p].at <= hold[req'[p].row] + 1

\* A token is mailed with the expiry the request has read.
NewTokens(p) ==
  \A t \in tokens' : t \in tokens \/ (req[p].pc = "verifyWrite" /\ t.row = req[p].row /\ t.exp = req[p].at)

LEMMA RowsAlike ==
  ASSUME Alike, UNCHANGED hold
  PROVE  Renewed
  BY DEF Alike, Renewed

LEMMA ReuseRenews ==
  ASSUME TypeOK, NEW p \in Proc, InTime(p), \A r \in Row : HoldClock(r), HoldReuse(p)
  PROVE  Renewed
<1>1. PICK r : r = req[p].row
  OBVIOUS
<1>2. /\ r \in Row /\ req[p].pc = "holdCommit"
      /\ \/ /\ booking'[r].created = booking[r].created
            /\ hold'[r] = req[p].at + HoldTTL /\ RowOnly(r)
         \/ UNCHANGED <<booking, hold>>
  BY <1>1, HoldReuseDoes
<1>3. req[p].at <= now /\ now <= req[p].at + 1 /\ booking[r].created <= now
  BY <1>2 DEF InTime, HoldClock
<1> QED
  BY <1>2, <1>3, Types DEF Renewed, RowOnly

LEMMA CreateRenews ==
  ASSUME TypeOK, NEW p \in Proc, InTime(p), HoldCreate(p)
  PROVE  Renewed
<1>1. CASE UNCHANGED <<booking, hold>>
  BY <1>1 DEF Renewed
<1>2. CASE ~UNCHANGED <<booking, hold>>
  <2>1. PICK r \in Row : /\ booking'[r].created = now /\ hold'[r] = req[p].at + HoldTTL
                         /\ RowOnly(r)
    BY <1>2, HoldCreateDoes
  <2>2. req[p].at <= now /\ now <= req[p].at + 1
    BY DEF InTime, HoldCreate
  <2> QED
    BY <2>1, <2>2, Types DEF Renewed, RowOnly
<1> QED
  BY <1>1, <1>2

LEMMA StatusRenews ==
  ASSUME NEW r \in Row, NEW st, Gets(r, st), \A x \in Row : x # r => booking'[x] = booking[x],
         \A x \in Row : hold'[x] \in {hold[x], NoHold}
  PROVE  Renewed
  BY DEF Renewed, Gets

LEMMA VerifyRenews ==
  ASSUME TypeOK, NEW p \in Proc, VerifyWrite(p)
  PROVE  Renewed
<1>1. PICK r : r = req[p].row
  OBVIOUS
<1>2. /\ r \in Row /\ UNCHANGED hold
      /\ \/ Gets(r, "pending_verify") /\ \A x \in Row : x # r => booking'[x] = booking[x]
         \/ UNCHANGED booking
  BY <1>1, VerifyWriteDoes
<1> QED
  BY <1>2 DEF Renewed, Gets

LEMMA ExpireRenews ==
  ASSUME TypeOK, NEW p \in Proc, ExpireWrite(p)
  PROVE  Renewed
<1>1. PICK r : r = req[p].row
  OBVIOUS
<1> QED
  BY <1>1, ExpireWriteDoes, StatusRenews DEF ExpireWrite

LEMMA ConfirmRenews ==
  ASSUME TypeOK, NEW p \in Proc, ConfirmCommit(p) \/ ByIdCommit(p)
  PROVE  Renewed
<1>1. PICK r : r = req[p].row
  OBVIOUS
<1>2. /\ r \in Row
      /\ \/ Gets(r, "confirmed") /\ hold'[r] = NoHold /\ RowOnly(r)
         \/ UNCHANGED <<booking, hold>>
  BY <1>1, ConfirmDoes DEF ConfirmCommit, ByIdCommit
<1> QED
  BY <1>2 DEF Renewed, Gets, RowOnly

LEMMA CancelRenews ==
  ASSUME TypeOK, NEW p \in Proc, CancelWrite(p)
  PROVE  Renewed
<1>1. PICK r : r = req[p].row
  OBVIOUS
<1> QED
  BY <1>1, CancelWriteDoes, StatusRenews DEF CancelWrite

LEMMA DropRenews ==
  ASSUME TypeOK, NEW p \in Proc, DropHold(p)
  PROVE  Renewed
<1>1. PICK r : r = req[p].row
  OBVIOUS
<1>2. r \in Row /\ hold'[r] = NoHold /\ \A x \in Row : x # r => hold'[x] = hold[x]
  BY <1>1, DropHoldDoes
<1>3. UNCHANGED booking
  BY DEF DropHold
<1> QED
  BY <1>2, <1>3 DEF Renewed

LEMMA SweepRenews ==
  ASSUME TypeOK, NEW p \in Proc, SweepDelete(p)
  PROVE  Renewed
  BY SweepDeleteDoes DEF Renewed, Gets

LEMMA ContinueRenews ==
  ASSUME TypeOK, NEW p \in Proc, Clocks, Continue(p)
  PROVE  Renewed
<1>1. InTime(p) /\ \A r \in Row : HoldClock(r)
  BY DEF Clocks
<1>2. HoldRead(p) \/ ReadToken(p) \/ ConfirmRead(p) \/ MoveRead(p) \/ SweepMark(p) => Renewed
  BY DEF HoldRead, ReadToken, ConfirmRead, MoveRead, SweepMark, Renewed
<1>3. WriteToken(p) => Renewed
  BY WriteTokenDoes, RowsAlike
<1>4. PostConfirm(p) \/ MoveCommit(p) => Renewed
  BY PostConfirmDoes, MoveCommitDoes, RowsAlike DEF PostConfirm, MoveCommit
<1> QED
  BY <1>1, <1>2, <1>3, <1>4, ReuseRenews, CreateRenews, VerifyRenews, ExpireRenews, ConfirmRenews,
     CancelRenews, DropRenews, SweepRenews DEF Continue

LEMMA StartRenews ==
  ASSUME TypeOK, NEW p \in Proc, Start(p)
  PROVE  Renewed /\ UNCHANGED tokens
<1>1. ASSUME NEW r \in Row, WebhookDeleted(p, r) PROVE Renewed /\ UNCHANGED tokens
  BY <1>1, WebhookDeletedDoes, StatusRenews DEF WebhookDeleted
<1>2. ASSUME NEW r \in Row, NEW s \in Slot, WebhookMoved(p, r, s) PROVE Renewed /\ UNCHANGED tokens
  BY <1>2, WebhookMovedDoes, RowsAlike DEF WebhookMoved
<1>3. UNCHANGED <<booking, hold>> => Renewed
  BY DEF Renewed
<1>4. \/ UNCHANGED <<booking, hold, tokens>>
      \/ \E r \in Row : WebhookDeleted(p, r)
      \/ \E r \in Row, s \in Slot : WebhookMoved(p, r, s)
  BY DEF Start, Keys, HoldStart, ConfirmCheck, VerifyRead, ByIdRead, CancelRead, MoveCheck, SweepFind
<1> QED
  BY <1>1, <1>2, <1>3, <1>4

LEMMA StartGoesOn ==
  ASSUME TypeOK, NEW p \in Proc, Clocks, Start(p)
  PROVE  GoesOn(p)
<1>1. InTime(p) /\ \A r \in Row : HoldClock(r)
  BY DEF Clocks
<1>2. req[p].pc = "idle"
  BY DEF Start, Keys, HoldStart, ConfirmCheck, VerifyRead, ByIdRead, CancelRead, MoveCheck, SweepFind,
         WebhookDeleted, WebhookMoved, Begin
<1>3. UNCHANGED req => GoesOn(p)
  BY <1>2 DEF GoesOn
<1>4. ASSUME NEW k \in HoldKey, NEW s \in Slot, NEW c \in Customer, HoldStart(p, k, s, c)
      PROVE  GoesOn(p)
  BY <1>4, HoldStartDoes, Types DEF GoesOn
<1>5. ASSUME NEW t \in tokens, NEW k \in Key \cup {None}, ConfirmCheck(p, t, k) PROVE GoesOn(p)
  BY <1>3, <1>5, ConfirmCheckDoes DEF GoesOn, Went
<1>6. ASSUME NEW r \in Row, NEW k \in Key \cup {None}, VerifyRead(p, r, k) PROVE GoesOn(p)
  BY <1>1, <1>6, VerifyReadDoes, Types DEF GoesOn, Went, HoldClock
<1>7. ASSUME NEW r \in Row, NEW k \in Key \cup {None}, ByIdRead(p, r, k) \/ CancelRead(p, r, k)
      PROVE  GoesOn(p)
  BY <1>7, ByIdReadDoes, CancelReadDoes DEF GoesOn, Went
<1>8. ASSUME NEW r \in Row, NEW s \in Slot, NEW k \in Key \cup {None}, MoveCheck(p, r, s, k)
      PROVE  GoesOn(p)
  BY <1>3, <1>8, MoveCheckDoes DEF GoesOn
<1>9. SweepFind(p) => GoesOn(p)
  BY <1>3, SweepFindDoes DEF GoesOn
<1>10. ASSUME NEW r, NEW s, WebhookDeleted(p, r) \/ WebhookMoved(p, r, s) PROVE GoesOn(p)
  BY <1>3, <1>10 DEF WebhookDeleted, WebhookMoved
<1> QED
  BY <1>4, <1>5, <1>6, <1>7, <1>8, <1>9, <1>10 DEF Start, Keys

LEMMA ContinueGoesOn ==
  ASSUME TypeOK, NEW p \in Proc, Clocks, Continue(p)
  PROVE  GoesOn(p) /\ NewTokens(p)
<1>1. HoldRead(p) => GoesOn(p) /\ NewTokens(p)
  BY HoldReadDoes DEF GoesOn, NewTokens, Clocks, InTime
<1>2. HoldReuse(p) \/ HoldCreate(p) => GoesOn(p) /\ NewTokens(p)
  <2>1. PICK r : r = req[p].row
    OBVIOUS
  <2> QED
    BY <2>1, HoldReuseDoes, HoldCreateDoes DEF HoldReuse, HoldCreate, GoesOn, NewTokens
<1>3. VerifyWrite(p) => GoesOn(p) /\ NewTokens(p)
  <2>1. PICK r : r = req[p].row
    OBVIOUS
  <2> QED
    BY <2>1, VerifyWriteDoes DEF VerifyWrite, GoesOn, NewTokens
<1>4. ReadToken(p) \/ WriteToken(p) => GoesOn(p) /\ NewTokens(p)
  BY ReadTokenDoes, WriteTokenDoes DEF GoesOn, NewTokens
<1>5. ExpireWrite(p) \/ DropHold(p) \/ CancelWrite(p) => GoesOn(p) /\ NewTokens(p)
  <2>1. PICK r : r = req[p].row
    OBVIOUS
  <2> QED
    BY <2>1, ExpireWriteDoes, DropHoldDoes, CancelWriteDoes
       DEF ExpireWrite, DropHold, CancelWrite, GoesOn, NewTokens, Went
<1>6. ConfirmRead(p) \/ PostConfirm(p) => GoesOn(p) /\ NewTokens(p)
  BY ConfirmReadDoes, PostConfirmDoes DEF ConfirmRead, PostConfirm, GoesOn, NewTokens, Went
<1>7. ConfirmCommit(p) \/ ByIdCommit(p) => GoesOn(p) /\ NewTokens(p)
  BY ConfirmDoes DEF ConfirmCommit, ByIdCommit, Confirm, GoesOn, NewTokens
<1>8. MoveRead(p) \/ MoveCommit(p) => GoesOn(p) /\ NewTokens(p)
  BY MoveReadDoes, MoveCommitDoes DEF MoveRead, MoveCommit, GoesOn, NewTokens
<1>9. SweepMark(p) \/ SweepDelete(p) => GoesOn(p) /\ NewTokens(p)
  BY SweepMarkDoes, SweepDeleteDoes DEF SweepMark, SweepDelete, GoesOn, NewTokens
<1> QED
  BY <1>1, <1>2, <1>3, <1>4, <1>5, <1>6, <1>7, <1>8, <1>9 DEF Continue

LEMMA ClocksInit == Init => Clocks
<1> SUFFICES ASSUME Init PROVE Clocks
  OBVIOUS
<1>1. NoBooking.created = 0 /\ Idle.pc = "idle"
  BY DEF NoBooking, Idle
<1>2. /\ now = 1 /\ tokens = {} /\ \A p \in Proc : req[p].pc = "idle"
      /\ \A r \in Row : hold[r] = NoHold /\ booking[r].created = 0
  BY <1>1 DEF Init
<1> QED
  BY <1>2, ConstantsOK DEF Clocks, HoldClock, TokenClock, InTime, NoHold

LEMMA ClocksTick ==
  ASSUME TypeOK, Clocks, Tick
  PROVE  Clocks'
<1>1. now' = now + 1 /\ tokens' \subseteq tokens /\ UNCHANGED <<booking, hold, req>>
  BY DEF Tick
<1>2. now \in Nat /\ HoldTTL \in Nat
  BY ConstantsOK DEF TypeOK
<1>3. ASSUME NEW r \in Row PROVE HoldClock(r)'
  <2>1. hold[r] \in Nat /\ booking[r].created \in Nat
    BY DEF TypeOK, Booking
  <2> QED
    BY <1>1, <1>2, <2>1 DEF Clocks, HoldClock
<1>4. TokenClock'
  BY <1>1, <1>2 DEF Clocks, TokenClock, TypeOK, VerifyToken
<1>5. ASSUME NEW p \in Proc PROVE InTime(p)'
  <2>1. req[p].at \in Nat
    BY DEF TypeOK, Request
  <2>2. req[p].pc \in {"holdTx", "holdCommit"} => req[p].at = now
    BY DEF Tick
  <2>3. InTime(p)
    BY DEF Clocks
  <2> QED
    BY <1>1, <1>2, <2>1, <2>2, <2>3 DEF InTime
<1> QED
  BY <1>3, <1>4, <1>5 DEF Clocks

LEMMA MoversLeaveTime ==
  ASSUME NEW q \in Proc, Start(q) \/ Continue(q)
  PROVE  UNCHANGED now
<1>1. Start(q) => UNCHANGED now
  BY DEF Start, Keys, HoldStart, ConfirmCheck, VerifyRead, ByIdRead, CancelRead, MoveCheck, SweepFind,
         WebhookDeleted, WebhookMoved
<1>2. Continue(q) => UNCHANGED now
  BY DEF Continue, HoldRead, HoldReuse, HoldCreate, ReadToken, WriteToken, VerifyWrite, ExpireWrite,
         ConfirmRead, ConfirmCommit, ByIdCommit, Confirm, PostConfirm, CancelWrite, DropHold,
         MoveRead, MoveCommit, SweepMark, SweepDelete
<1> QED
  BY <1>1, <1>2

LEMMA ClocksStep ==
  ASSUME TypeOK, TypeOK', Clocks, NEW q \in Proc, Start(q) \/ Continue(q)
  PROVE  Clocks'
<1>1. Renewed /\ GoesOn(q) /\ NewTokens(q)
  BY StartRenews, StartGoesOn, ContinueRenews, ContinueGoesOn DEF NewTokens
<1>2. UNCHANGED now
  BY MoversLeaveTime
<1>3. now \in Nat /\ HoldTTL \in Nat /\ \A r \in Row : hold[r] \in Nat /\ hold'[r] \in Nat
  BY ConstantsOK DEF TypeOK
<1>4. ASSUME NEW r \in Row PROVE HoldClock(r)'
  <2>1. booking[r].created \in Nat /\ booking'[r].created \in Nat /\ HoldClock(r)
    BY DEF TypeOK, Booking, Clocks
  <2> QED
    BY <1>1, <1>2, <1>3, <2>1 DEF Renewed, HoldClock, NoHold
<1>5. TokenClock'
  <2> SUFFICES ASSUME NEW t \in tokens'
               PROVE  t.exp <= now + HoldTTL /\ (hold'[t.row] # NoHold => t.exp <= hold'[t.row] + 1)
    BY <1>2 DEF TokenClock
  <2>1. t.row \in Row /\ t.exp \in Nat
    BY DEF TypeOK, VerifyToken
  <2>2. t.exp <= now + HoldTTL /\ (hold[t.row] # NoHold => t.exp <= hold[t.row] + 1)
    BY <1>1 DEF NewTokens, Clocks, TokenClock, InTime
  <2> QED
    BY <1>1, <1>3, <2>1, <2>2 DEF Renewed
<1>6. ASSUME NEW p \in Proc PROVE InTime(p)'
  <2>1. GoesOn(p)
    <3>1. CASE p = q
      BY <1>1, <3>1
    <3>2. CASE p # q
      <4>1. req'[p] = req[p]
        BY <3>2, OthersWait
      <4> QED
        BY <4>1 DEF Clocks, InTime, GoesOn
    <3> QED
      BY <3>1, <3>2
  <2>2. req'[p].at \in Nat /\ (req'[p].pc = "verifyWrite" => req'[p].row \in Row)
    BY DEF TypeOK, Request, RequestOK
  <2>3. CASE req'[p].pc # "verifyWrite"
    BY <1>2, <2>1, <2>3 DEF GoesOn, InTime
  <2>4. CASE req'[p].pc = "verifyWrite"
    <3>1. PICK r \in Row : r = req'[p].row
      BY <2>2, <2>4
    <3>2. req'[p].at <= now + HoldTTL /\ (hold[r] # NoHold => req'[p].at <= hold[r] + 1)
      BY <2>1, <2>4, <3>1 DEF GoesOn
    <3>3. hold'[r] # NoHold => req'[p].at <= hold'[r] + 1
      BY <1>1, <1>3, <2>2, <3>2 DEF Renewed
    <3> QED
      BY <1>2, <2>4, <3>1, <3>2, <3>3 DEF InTime
  <2> QED
    BY <2>3, <2>4
<1> QED
  BY <1>4, <1>5, <1>6 DEF Clocks

\* The clocks of the holds, of the tokens and of the requests in flight, in every state.
LEMMA ClocksHold == Spec => [](TypeOK /\ Clocks)
<1>1. Init => TypeOK /\ Clocks
  BY InitType, ClocksInit
<1>2. TypeOK /\ Clocks /\ [Next]_vars => TypeOK' /\ Clocks'
  <2> SUFFICES ASSUME TypeOK, Clocks, [Next]_vars PROVE TypeOK' /\ Clocks'
    OBVIOUS
  <2>1. TypeOK'
    BY NextType
  <2>2. CASE UNCHANGED vars
    BY <2>1, <2>2 DEF vars, Clocks, HoldClock, TokenClock, InTime
  <2> QED
    BY <2>1, <2>2, ClocksTick, ClocksStep DEF Next
<1> QED
  BY <1>1, <1>2, PTL DEF Spec

-----------------------------------------------------------------------------
(* What the requests in flight know of a booking that was not raced on:    *)
(* what each has read of it still holds.                                   *)

HasHold(r) == booking[r].status \in Open => hold[r] # NoHold

FlightInv(p, r) ==
  /\ Here(p, r, {"holdCommit"}) => ~Blocks(r, now)
  /\ Here(p, r, {"verifyWrite"}) => booking[r].status \in Open
  /\ Here(p, r, {"expireWrite"}) => booking[r].status \in Open /\ hold[r] <= now
  /\ Here(p, r, {"confirmCommit", "byIdCommit"}) => booking[r].status \in Open
  /\ Here(p, r, {"dropHold"}) => booking[r].status \notin Open
  /\ InSweep(p, r) => booking[r].status \in Open /\ hold[r] < now
  /\ InSweep(p, r) /\ req[p].pc = "sweepDelete" => r \in req[p].marked

SeqInv(p, r) == HasHold(r) /\ FlightInv(p, r)

\* A step that leaves row x as it is and takes p to none of the steps that rely on it.
LEMMA Elsewhere ==
  ASSUME NEW p \in Proc, NEW x \in Row, SeqInv(p, x),
         booking'[x].status = booking[x].status, hold'[x] = hold[x],
         req'[p].pc \notin Relies
  PROVE  SeqInv(p, x)'
  BY DEF SeqInv, HasHold, FlightInv, Here, InSweep, Relies

LEMMA HoldReadSeq ==
  ASSUME TypeOK, NEW p \in Proc, NEW x \in Row, SeqInv(p, x), InTime(p), HoldRead(p)
  PROVE  SeqInv(p, x)'
<1>1. /\ req[p].pc = "holdTx" /\ UNCHANGED <<now, booking, hold, tokens>>
      /\ \/ req'[p].pc \in {"readToken", "idle"}
         \/ /\ req'[p].pc = "holdCommit" /\ req'[p].at = req[p].at
            /\ req'[p].row \in Row => ~Blocks(req'[p].row, req[p].at)
  BY HoldReadDoes
<1>2. req[p].at <= now /\ now \in Nat /\ req[p].at \in Nat /\ hold[x] \in Nat
  BY <1>1, Types DEF InTime
<1>3. HasHold(x)'
  BY <1>1 DEF SeqInv, HasHold
<1>4. FlightInv(p, x)'
  BY <1>1, <1>2 DEF FlightInv, Here, InSweep, Blocks, Held
<1> QED
  BY <1>3, <1>4 DEF SeqInv

LEMMA HoldReuseSeq ==
  ASSUME TypeOK, NEW p \in Proc, NEW x \in Row, SeqInv(p, x), HoldReuse(p)
  PROVE  SeqInv(p, x)'
<1>1. PICK r : r = req[p].row
  OBVIOUS
<1>2. /\ r \in Row /\ req'[p].pc \in {"readToken", "idle"}
      /\ \/ hold'[r] = req[p].at + HoldTTL /\ RowOnly(r)
         \/ UNCHANGED <<booking, hold>>
  BY <1>1, HoldReuseDoes
<1>3. HasHold(x)'
  BY <1>2, Types DEF SeqInv, HasHold, RowOnly, NoHold
<1>4. FlightInv(p, x)'
  BY <1>2 DEF FlightInv, Here, InSweep
<1> QED
  BY <1>3, <1>4 DEF SeqInv

LEMMA HoldCreateSeq ==
  ASSUME TypeOK, NEW p \in Proc, NEW x \in Row, SeqInv(p, x), HoldCreate(p)
  PROVE  SeqInv(p, x)'
<1>1. /\ req'[p].pc \in {"readToken", "idle"}
      /\ \/ \E r \in Row : hold'[r] = req[p].at + HoldTTL /\ RowOnly(r)
         \/ UNCHANGED <<booking, hold>>
  BY HoldCreateDoes
<1>2. HasHold(x)'
  BY <1>1, Types DEF SeqInv, HasHold, RowOnly, NoHold
<1>3. FlightInv(p, x)'
  BY <1>1 DEF FlightInv, Here, InSweep
<1> QED
  BY <1>2, <1>3 DEF SeqInv

LEMMA VerifyReadSeq ==
  ASSUME TypeOK, NEW p \in Proc, NEW r \in Row, NEW k \in Key \cup {None}, NEW x \in Row,
         SeqInv(p, x), VerifyRead(p, r, k)
  PROVE  SeqInv(p, x)'
  BY NoneOK, VerifyReadDoes DEF SeqInv, HasHold, FlightInv, Here, InSweep, Went, VerifyRead

LEMMA VerifyWriteSeq ==
  ASSUME TypeOK, NEW p \in Proc, NEW x \in Row, SeqInv(p, x), VerifyWrite(p)
  PROVE  SeqInv(p, x)'
<1>1. PICK r : r = req[p].row
  OBVIOUS
<1>2. /\ r \in Row /\ req'[p].pc = "idle" /\ UNCHANGED <<now, hold>>
      /\ \/ /\ Gets(r, "pending_verify") /\ \A y \in Row : y # r => booking'[y] = booking[y]
         \/ UNCHANGED booking
  BY <1>1, VerifyWriteDoes
<1>3. req[p].pc = "verifyWrite"
  BY DEF VerifyWrite
<1>4. HasHold(x)'
  BY <1>1, <1>2, <1>3 DEF SeqInv, HasHold, FlightInv, Here, Gets
<1>5. FlightInv(p, x)'
  BY <1>2 DEF FlightInv, Here, InSweep
<1> QED
  BY <1>4, <1>5 DEF SeqInv

LEMMA ExpireWriteSeq ==
  ASSUME TypeOK, NEW p \in Proc, NEW x \in Row, SeqInv(p, x), ExpireWrite(p)
  PROVE  SeqInv(p, x)'
<1>0. UNCHANGED hold
  BY DEF ExpireWrite
<1>1. PICK r : r = req[p].row
  OBVIOUS
<1>2. /\ r \in Row /\ req'[p].pc = "idle"
      /\ Gets(r, "expired") /\ \A y \in Row : y # r => booking'[y] = booking[y]
  BY <1>1, ExpireWriteDoes
<1>3. HasHold(x)'
  BY <1>0, <1>2 DEF SeqInv, HasHold, Gets, Open
<1>4. FlightInv(p, x)'
  BY <1>0, <1>2 DEF FlightInv, Here, InSweep
<1> QED
  BY <1>3, <1>4 DEF SeqInv

LEMMA ConfirmCheckSeq ==
  ASSUME TypeOK, NEW p \in Proc, NEW t \in tokens, NEW k \in Key \cup {None}, NEW x \in Row,
         SeqInv(p, x), ConfirmCheck(p, t, k)
  PROVE  SeqInv(p, x)'
  BY NoneOK, ConfirmCheckDoes
     DEF SeqInv, HasHold, FlightInv, Here, InSweep, Went, ConfirmCheck, Begin

LEMMA ConfirmReadSeq ==
  ASSUME TypeOK, NEW p \in Proc, NEW x \in Row, SeqInv(p, x), ConfirmRead(p)
  PROVE  SeqInv(p, x)'
  BY NoneOK, ConfirmReadDoes DEF SeqInv, HasHold, FlightInv, Here, InSweep, Went, ConfirmRead

LEMMA ConfirmSeq ==
  ASSUME TypeOK, NEW p \in Proc, NEW x \in Row, SeqInv(p, x), NEW scope, Confirm(p, scope),
         req[p].pc \in {"confirmCommit", "byIdCommit"}
  PROVE  SeqInv(p, x)'
<1>1. PICK r : r = req[p].row
  OBVIOUS
<1>2. /\ r \in Row /\ req'[p].pc \in {"postConfirm", "idle"}
      /\ \/ Gets(r, "confirmed") /\ RowOnly(r)
         \/ UNCHANGED <<booking, hold>>
  BY <1>1, ConfirmDoes
<1>3. HasHold(x)'
  BY <1>2 DEF SeqInv, HasHold, Gets, RowOnly, Open
<1>4. FlightInv(p, x)'
  BY <1>2 DEF FlightInv, Here, InSweep
<1> QED
  BY <1>3, <1>4 DEF SeqInv

LEMMA ByIdReadSeq ==
  ASSUME TypeOK, NEW p \in Proc, NEW r \in Row, NEW k \in Key \cup {None}, NEW x \in Row,
         SeqInv(p, x), ByIdRead(p, r, k)
  PROVE  SeqInv(p, x)'
  BY NoneOK, ByIdReadDoes DEF SeqInv, HasHold, FlightInv, Here, InSweep, Went, ByIdRead

LEMMA CancelReadSeq ==
  ASSUME TypeOK, NEW p \in Proc, NEW r \in Row, NEW k \in Key \cup {None}, NEW x \in Row,
         SeqInv(p, x), CancelRead(p, r, k), ~CanceledAgain(x)
  PROVE  SeqInv(p, x)'
<1>1. Went(p, "dropHold", r) \/ Went(p, "cancelWrite", r)
  BY CancelReadDoes
<1>2. req[p].pc = "idle" /\ UNCHANGED <<now, booking, hold>>
  BY DEF CancelRead, Begin
<1>3. Went(p, "dropHold", x) => booking[x].status = "canceled"
  BY <1>2 DEF CanceledAgain, Begin, Went
<1>4. HasHold(x)'
  BY <1>2 DEF SeqInv, HasHold
<1>5. FlightInv(p, x)'
  BY <1>1, <1>2, <1>3 DEF FlightInv, Here, InSweep, Went, Open
<1> QED
  BY <1>4, <1>5 DEF SeqInv

LEMMA CancelWriteSeq ==
  ASSUME TypeOK, NEW p \in Proc, NEW x \in Row, SeqInv(p, x), CancelWrite(p)
  PROVE  SeqInv(p, x)'
<1>0. UNCHANGED hold
  BY DEF CancelWrite
<1>1. PICK r : r = req[p].row
  OBVIOUS
<1>2. /\ r \in Row /\ Went(p, "dropHold", r)
      /\ Gets(r, "canceled") /\ \A y \in Row : y # r => booking'[y] = booking[y]
  BY <1>1, CancelWriteDoes
<1>3. HasHold(x)'
  BY <1>0, <1>2 DEF SeqInv, HasHold, Gets, Open
<1>4. FlightInv(p, x)'
  BY <1>0, <1>2 DEF FlightInv, Here, InSweep, Went, Gets, Open
<1> QED
  BY <1>3, <1>4 DEF SeqInv

LEMMA DropHoldSeq ==
  ASSUME TypeOK, NEW p \in Proc, NEW x \in Row, SeqInv(p, x), DropHold(p)
  PROVE  SeqInv(p, x)'
<1>1. PICK r : r = req[p].row
  OBVIOUS
<1>2. /\ r \in Row /\ req'[p].pc = "idle" /\ \A y \in Row : y # r => hold'[y] = hold[y]
  BY <1>1, DropHoldDoes
<1>3. req[p].pc = "dropHold" /\ UNCHANGED booking
  BY DEF DropHold
<1>4. HasHold(x)'
  BY <1>1, <1>2, <1>3 DEF SeqInv, HasHold, FlightInv, Here
<1>5. FlightInv(p, x)'
  BY <1>2 DEF FlightInv, Here, InSweep
<1> QED
  BY <1>4, <1>5 DEF SeqInv

LEMMA SweepFindSeq ==
  ASSUME TypeOK, NEW p \in Proc, NEW x \in Row, SeqInv(p, x), SweepFind(p)
  PROVE  SeqInv(p, x)'
  BY NoneOK, SweepFindDoes
     DEF SeqInv, HasHold, FlightInv, Here, InSweep, SweepFind, Lapsed, Begin

LEMMA SweepMarkSeq ==
  ASSUME TypeOK, NEW p \in Proc, NEW x \in Row, SeqInv(p, x), SweepMark(p)
  PROVE  SeqInv(p, x)'
  BY NoneOK, SweepMarkDoes DEF SeqInv, HasHold, FlightInv, Here, InSweep, SweepMark, StillOpen

LEMMA SweepDeleteSeq ==
  ASSUME TypeOK, NEW p \in Proc, NEW x \in Row, SeqInv(p, x), SweepDelete(p)
  PROVE  SeqInv(p, x)'
<1>1. /\ req[p].pc = "sweepDelete" /\ req'[p].pc = "idle"
      /\ x \in req[p].marked => Gets(x, "expired")
      /\ x \notin req[p].marked => booking'[x] = booking[x]
      /\ x \notin req[p].rows => hold'[x] = hold[x]
  BY SweepDeleteDoes DEF SweepDelete
<1>2. HasHold(x)'
  BY <1>1 DEF SeqInv, HasHold, FlightInv, InSweep, Gets, Open
<1>3. FlightInv(p, x)'
  BY <1>1 DEF FlightInv, Here, InSweep
<1> QED
  BY <1>2, <1>3 DEF SeqInv

LEMMA WebhookDeletedSeq ==
  ASSUME TypeOK, NEW p \in Proc, NEW r \in Row, NEW x \in Row, SeqInv(p, x), WebhookDeleted(p, r)
  PROVE  SeqInv(p, x)'
<1>1. /\ req[p].pc = "idle" /\ UNCHANGED <<hold, req>>
      /\ Gets(r, "canceled") /\ \A y \in Row : y # r => booking'[y] = booking[y]
  BY WebhookDeletedDoes DEF WebhookDeleted, Begin
<1>2. HasHold(x)'
  BY <1>1 DEF SeqInv, HasHold, Gets, Open
<1>3. FlightInv(p, x)'
  BY <1>1 DEF FlightInv, Here, InSweep
<1> QED
  BY <1>2, <1>3 DEF SeqInv

LEMMA SeqContinue ==
  ASSUME TypeOK, NEW p \in Proc, NEW x \in Row, SeqInv(p, x), InTime(p), Continue(p)
  PROVE  SeqInv(p, x)'
<1>1. ConfirmCommit(p) \/ ByIdCommit(p) => SeqInv(p, x)'
  BY ConfirmSeq DEF ConfirmCommit, ByIdCommit
<1>2. ReadToken(p) \/ MoveRead(p) => SeqInv(p, x)'
  BY ReadTokenDoes, MoveReadDoes, Elsewhere DEF MoveRead, Relies
<1>3. WriteToken(p) \/ PostConfirm(p) \/ MoveCommit(p) => SeqInv(p, x)'
  BY WriteTokenDoes, PostConfirmDoes, MoveCommitDoes, Elsewhere
     DEF PostConfirm, MoveCommit, Alike, Relies
<1> QED
  BY <1>1, <1>2, <1>3, HoldReadSeq, HoldReuseSeq, HoldCreateSeq, VerifyWriteSeq, ExpireWriteSeq,
     ConfirmReadSeq, CancelWriteSeq, DropHoldSeq, SweepMarkSeq, SweepDeleteSeq DEF Continue

LEMMA SeqStart ==
  ASSUME TypeOK, NEW p \in Proc, NEW x \in Row, SeqInv(p, x), Start(p), ~CanceledAgain(x)
  PROVE  SeqInv(p, x)'
<1>1. ASSUME NEW k \in HoldKey, NEW s \in Slot, NEW c \in Customer, HoldStart(p, k, s, c)
      PROVE  SeqInv(p, x)'
  BY <1>1, HoldStartDoes, Elsewhere DEF HoldStart, Relies
<1>2. ASSUME NEW r \in Row, NEW s \in Slot, NEW k \in Key \cup {None}, MoveCheck(p, r, s, k)
      PROVE  SeqInv(p, x)'
  BY <1>2, MoveCheckDoes, Elsewhere DEF MoveCheck, Begin, Relies
<1>3. ASSUME NEW r \in Row, NEW s \in Slot, WebhookMoved(p, r, s) PROVE SeqInv(p, x)'
  BY <1>3, WebhookMovedDoes, Elsewhere DEF WebhookMoved, Alike, Begin, Relies
<1> QED
  BY <1>1, <1>2, <1>3, ConfirmCheckSeq, VerifyReadSeq, ByIdReadSeq, CancelReadSeq, SweepFindSeq,
     WebhookDeletedSeq DEF Start, Keys

\* What a process has read of a row stands while the others leave the row alone.
LEMMA FlightStays ==
  ASSUME NEW p \in Proc, NEW x \in Row, FlightInv(p, x), UNCHANGED now, req'[p] = req[p],
         ~Disturbed(x)
  PROVE  FlightInv(p, x)'
<1>1. CASE At(p, x)
  <2>1. booking'[x].status = booking[x].status /\ hold'[x] = hold[x]
    BY <1>1 DEF Disturbed
  <2> QED
    BY <2>1 DEF FlightInv, Here, InSweep, Blocks, Held
<1>2. CASE ~At(p, x)
  BY <1>2 DEF FlightInv, Here, InSweep, At, Relies
<1> QED
  BY <1>1, <1>2

RowsSeq == \A x \in Row \ raced : HasHold(x) /\ \A p \in Proc : FlightInv(p, x)

LEMMA SeqInit == RInit => RowsSeq
<1> SUFFICES ASSUME RInit, NEW x \in Row PROVE HasHold(x) /\ \A p \in Proc : FlightInv(p, x)
  BY DEF RowsSeq
<1>1. NoBooking.status = "none" /\ Idle.pc = "idle"
  BY DEF NoBooking, Idle
<1>2. booking[x].status = "none" /\ \A p \in Proc : req[p].pc = "idle"
  BY <1>1 DEF RInit, Init
<1> QED
  BY <1>2 DEF HasHold, FlightInv, Here, InSweep, Open

LEMMA TickSeq ==
  ASSUME TypeOK, NEW p \in Proc, NEW x \in Row, SeqInv(p, x), Tick
  PROVE  SeqInv(p, x)'
<1>1. now' = now + 1 /\ UNCHANGED <<booking, hold, req>> /\ now \in Nat /\ hold[x] \in Nat
  BY Types DEF Tick
<1> QED
  BY <1>1 DEF SeqInv, HasHold, FlightInv, Here, InSweep, Blocks, Held

\* Every step keeps what holds of each row that is not raced on, and of each process.
LEMMA SeqStep ==
  ASSUME TypeOK, Clocks, RowsSeq, RNext
  PROVE  RowsSeq'
<1> SUFFICES ASSUME NEW x \in Row \ raced' PROVE HasHold(x)' /\ \A p \in Proc : FlightInv(p, x)'
  BY DEF RowsSeq
<1>1. x \in Row \ raced /\ ~Disturbed(x) /\ ~CanceledAgain(x)
  BY DEF RNext
<1>2. HasHold(x) /\ \A p \in Proc : FlightInv(p, x) /\ InTime(p)
  BY <1>1 DEF RowsSeq, Clocks
<1>3. CASE Tick
  <2>1. HasHold(x)'
    BY <1>2, <1>3 DEF HasHold, Tick
  <2>2. ASSUME NEW p \in Proc PROVE FlightInv(p, x)'
    BY <1>2, <1>3, TickSeq DEF SeqInv
  <2> QED
    BY <2>1, <2>2
<1>4. ASSUME NEW q \in Proc, Start(q) \/ Continue(q)
      PROVE  HasHold(x)' /\ \A p \in Proc : FlightInv(p, x)'
  <2>1. HasHold(x)' /\ FlightInv(q, x)'
    <3>1. SeqInv(q, x)
      BY <1>2 DEF SeqInv
    <3>2. SeqInv(q, x)'
      BY <1>1, <1>2, <1>4, <3>1, SeqStart, SeqContinue
    <3> QED
      BY <3>2 DEF SeqInv
  <2>2. ASSUME NEW p \in Proc, p # q PROVE FlightInv(p, x)'
    BY <1>1, <1>2, <1>4, <2>2, OthersWait, FlightStays
  <2> QED
    BY <2>1, <2>2
<1> QED
  BY <1>3, <1>4 DEF RNext, Next

LEMMA RacesInvariant == RSpec => [](TypeOK /\ Clocks /\ RowsSeq)
<1>1. RInit => Init /\ RowsSeq
  BY SeqInit DEF RInit
<1>2. [RNext]_rvars => [Next]_vars
  BY DEF RNext, rvars
<1>3. TypeOK /\ Clocks /\ RowsSeq /\ [RNext]_rvars => RowsSeq'
  <2>1. CASE UNCHANGED rvars
    BY <2>1 DEF rvars, vars, RowsSeq, HasHold, FlightInv, Here, InSweep, Blocks, Held
  <2> QED
    BY <2>1, SeqStep
<1>4. RSpec => Spec
  BY <1>1, <1>2, PTL DEF RSpec, Spec
<1> QED
  BY <1>1, <1>3, <1>4, ClocksHold, PTL DEF RSpec

\* An open booking has its hold row unless a race, or a cancel sent again, took it: the
\* cron, a cancel and a takeover never leave one that the cron could not find again.
THEOREM OnlyRacesLoseHolds == RSpec => []OpenLosesHoldOnlyByRace
<1>1. RowsSeq => OpenLosesHoldOnlyByRace
  BY DEF OpenLosesHoldOnlyByRace, RowsSeq, HasHold
<1> QED
  BY <1>1, RacesInvariant, PTL

\* A public confirm token that is still accepted belongs to a hold that lasts until
\* HoldTTL - ConfirmWindow from now at least, if no race has deleted that hold's row.
THEOREM TokenNeedsHold == RSpec => []ConfirmTokenWithinHold
<1>1. TypeOK /\ Clocks /\ RowsSeq => ConfirmTokenWithinHold
  <2> SUFFICES ASSUME TypeOK, Clocks, RowsSeq, NEW r \in Row, ConfirmTokenUsable(r), hold[r] # NoHold
               PROVE  hold[r] + ConfirmWindow >= now + HoldTTL
    BY DEF ConfirmTokenWithinHold, RowsSeq, HasHold, ConfirmTokenUsable, Open
  <2>1. booking[r].created + ConfirmWindow > now /\ booking[r].created + HoldTTL <= hold[r] + 1
    BY DEF Clocks, HoldClock, ConfirmTokenUsable
  <2>2. /\ booking[r].created \in Nat /\ hold[r] \in Nat /\ now \in Nat
        /\ HoldTTL \in Nat /\ ConfirmWindow \in Nat
    BY ConstantsOK DEF TypeOK, Booking
  <2> QED
    BY <2>1, <2>2
<1> QED
  BY <1>1, RacesInvariant, PTL

\* No mailed token outlasts the hold of the booking it would confirm by more than the wait
\* for a lock, whoever held the slot when it was mailed, if no race has deleted that hold's row.
THEOREM MailWithinHold == RSpec => []VerifyTokenWithinHold
<1>1. TypeOK /\ Clocks /\ RowsSeq => VerifyTokenWithinHold
  BY DEF TypeOK, VerifyToken, VerifyTokenWithinHold, Clocks, TokenClock, RowsSeq, HasHold, Open
<1> QED
  BY <1>1, RacesInvariant, PTL

-----------------------------------------------------------------------------
(* Every commit is one step of BookingLifecycle or none at each booking    *)
(* that is not raced on, as what the request read of it still stands; a    *)
(* race makes the booking a contested one.                                 *)

\* What the step is to row x.
Kept(x) == Lifecycle!Move(x) \/ Lifecycle!Stay(x)

LEMMA Contested == ASSUME NEW x \in Row, x \in raced' PROVE Kept(x)
  BY DEF Kept, Lifecycle!Move, Lifecycle!Contest, Lifecycle!Becomes

LEMMA Stays ==
  ASSUME NEW x \in Row, x \notin raced, x \notin raced',
         booking'[x].status = booking[x].status, booking'[x].key = booking[x].key,
         booking[x].status \in Open => hold'[x] = hold[x]
  PROVE  Lifecycle!Stay(x)
  BY DEF Lifecycle!Stay, Lifecycle!Becomes

LEMMA Reading ==
  ASSUME NEW x \in Row, x \notin raced, x \notin raced', UNCHANGED <<booking, hold>>
  PROVE  Kept(x)
  BY Stays DEF Kept

LEMMA IsHeld ==
  ASSUME NEW x \in Row, x \notin raced, x \notin raced', NEW h \in HoldKey,
         booking[x].status # "confirmed", booking[x].status \in Open => ~(hold[x] > now),
         booking[x].status \in Status,
         booking'[x].status = "hold", booking'[x].key = h, hold'[x] >= now
  PROVE  Kept(x)
<1>1. Lifecycle!Hold(x, h)
  BY DEF Lifecycle!Hold, Lifecycle!Promised, Lifecycle!Becomes, Lifecycle!Open, Open, Status, Active
<1> QED
  BY <1>1 DEF Kept, Lifecycle!Move

LEMMA Asked ==
  ASSUME NEW x \in Row, x \notin raced, x \notin raced', UNCHANGED hold,
         booking[x].status \in Open, Gets(x, "pending_verify")
  PROVE  Kept(x)
<1>1. Lifecycle!AskToVerify(x)
  BY DEF Gets, Lifecycle!AskToVerify, Lifecycle!Becomes, Lifecycle!Open, Open
<1> QED
  BY <1>1 DEF Kept, Lifecycle!Move

LEMMA Confirms ==
  ASSUME NEW x \in Row, x \notin raced, x \notin raced',
         booking[x].status \in Open, Gets(x, "confirmed")
  PROVE  Kept(x)
<1>1. Lifecycle!Confirm(x)
  BY DEF Gets, Lifecycle!Confirm, Lifecycle!Becomes, Lifecycle!Open, Open
<1> QED
  BY <1>1 DEF Kept, Lifecycle!Move

LEMMA Cancels ==
  ASSUME NEW x \in Row, x \notin raced, x \notin raced', Exists(x), booking[x].status \in Status,
         Gets(x, "canceled")
  PROVE  Kept(x)
<1>1. Lifecycle!Cancel(x)
  BY DEF Gets, Exists, Lifecycle!Cancel, Lifecycle!Becomes, Open, Status, Active
<1> QED
  BY <1>1 DEF Kept, Lifecycle!Move

LEMMA Expires ==
  ASSUME NEW x \in Row, x \notin raced, x \notin raced',
         booking[x].status \in Open, ~(hold[x] > now), Gets(x, "expired")
  PROVE  Kept(x)
<1>1. Lifecycle!Expire(x)
  BY DEF Gets, Lifecycle!Expire, Lifecycle!Promised, Lifecycle!Becomes, Lifecycle!Open, Open
<1> QED
  BY <1>1 DEF Kept, Lifecycle!Move

LEMMA HoldReuseKept ==
  ASSUME TypeOK, NEW p \in Proc, NEW x \in Row, x \notin raced, x \notin raced', SeqInv(p, x),
         InTime(p), HoldReuse(p)
  PROVE  Kept(x)
<1>1. PICK r : r = req[p].row
  OBVIOUS
<1>2. CASE UNCHANGED <<booking, hold>>
  BY <1>2, Reading
<1>3. CASE ~UNCHANGED <<booking, hold>>
  <2>1. /\ r \in Row /\ req[p].pc = "holdCommit" /\ booking'[r].status = "hold"
        /\ booking'[r].key = req[p].key /\ hold'[r] = req[p].at + HoldTTL /\ RowOnly(r)
    BY <1>1, <1>3, HoldReuseDoes
  <2>2. CASE x # r
    BY <2>1, <2>2, Stays DEF RowOnly, Kept
  <2>3. CASE x = r
    <3>1. ~Blocks(x, now) /\ req[p].key \in HoldKey /\ booking[x].status \in Status
      BY <1>1, <2>1, <2>3 DEF SeqInv, FlightInv, Here, TypeOK, RequestOK, Booking
    <3>2. hold'[x] >= now
      BY <2>1, <2>3, Types DEF InTime
    <3> QED
      BY <2>1, <2>3, <3>1, <3>2, IsHeld DEF Blocks, Held
  <2> QED
    BY <2>2, <2>3
<1> QED
  BY <1>2, <1>3

LEMMA HoldCreateKept ==
  ASSUME TypeOK, NEW p \in Proc, NEW x \in Row, x \notin raced, x \notin raced', InTime(p),
         HoldCreate(p)
  PROVE  Kept(x)
<1>1. CASE UNCHANGED <<booking, hold>>
  BY <1>1, Reading
<1>2. CASE ~UNCHANGED <<booking, hold>>
  <2>1. PICK r \in Row :
          /\ booking[r].status = "none" /\ booking'[r].status = "hold"
          /\ booking'[r].key = req[p].key /\ hold'[r] = req[p].at + HoldTTL /\ RowOnly(r)
    BY <1>2, HoldCreateDoes
  <2>2. CASE x # r
    BY <2>1, <2>2, Stays DEF RowOnly, Kept
  <2>3. CASE x = r
    <3>1. req[p].pc = "holdCommit" /\ req[p].key \in HoldKey
      BY DEF HoldCreate, TypeOK, RequestOK
    <3>2. hold'[x] >= now
      BY <2>1, <2>3, <3>1, Types DEF InTime
    <3> QED
      BY <2>1, <2>3, <3>1, <3>2, IsHeld DEF Open, Status
  <2> QED
    BY <2>2, <2>3
<1> QED
  BY <1>1, <1>2

LEMMA VerifyKept ==
  ASSUME TypeOK, NEW p \in Proc, NEW x \in Row, x \notin raced, x \notin raced', SeqInv(p, x),
         VerifyWrite(p)
  PROVE  Kept(x)
<1>1. PICK r : r = req[p].row
  OBVIOUS
<1>2. /\ r \in Row /\ UNCHANGED hold
      /\ \/ Gets(r, "pending_verify") /\ \A y \in Row : y # r => booking'[y] = booking[y]
         \/ UNCHANGED booking
  BY <1>1, VerifyWriteDoes
<1>3. x = r => booking[x].status \in Open
  BY <1>1 DEF VerifyWrite, SeqInv, FlightInv, Here
<1> QED
  BY <1>2, <1>3, Asked, Stays DEF Kept

LEMMA ExpireWriteKept ==
  ASSUME TypeOK, NEW p \in Proc, NEW x \in Row, x \notin raced, x \notin raced', SeqInv(p, x),
         ExpireWrite(p)
  PROVE  Kept(x)
<1>0. UNCHANGED hold
  BY DEF ExpireWrite
<1>1. PICK r : r = req[p].row
  OBVIOUS
<1>2. /\ r \in Row /\ Gets(r, "expired")
      /\ \A y \in Row : y # r => booking'[y] = booking[y]
  BY <1>1, ExpireWriteDoes
<1>3. x = r => booking[x].status \in Open /\ ~(hold[x] > now)
  BY <1>1, Types DEF ExpireWrite, SeqInv, FlightInv, Here
<1> QED
  BY <1>0, <1>2, <1>3, Expires, Stays DEF Kept

LEMMA ConfirmsKept ==
  ASSUME TypeOK, NEW p \in Proc, NEW x \in Row, x \notin raced, x \notin raced', SeqInv(p, x),
         ConfirmCommit(p) \/ ByIdCommit(p)
  PROVE  Kept(x)
<1>1. PICK r : r = req[p].row
  OBVIOUS
<1>2. /\ r \in Row
      /\ (Gets(r, "confirmed") /\ RowOnly(r)) \/ UNCHANGED <<booking, hold>>
  BY <1>1, ConfirmDoes DEF ConfirmCommit, ByIdCommit
<1>3. x = r => booking[x].status \in Open
  BY <1>1 DEF ConfirmCommit, ByIdCommit, SeqInv, FlightInv, Here
<1> QED
  BY <1>2, <1>3, Confirms, Stays, Reading DEF Kept, RowOnly

LEMMA CancelWriteKept ==
  ASSUME TypeOK, NEW p \in Proc, NEW x \in Row, x \notin raced, x \notin raced', CancelWrite(p)
  PROVE  Kept(x)
<1>0. UNCHANGED hold
  BY DEF CancelWrite
<1>1. PICK r : r = req[p].row
  OBVIOUS
<1>2. /\ r \in Row /\ Exists(r) /\ Gets(r, "canceled")
      /\ \A y \in Row : y # r => booking'[y] = booking[y]
  BY <1>1, CancelWriteDoes
<1>3. booking[x].status \in Status
  BY DEF TypeOK, Booking
<1> QED
  BY <1>0, <1>2, <1>3, Cancels, Stays DEF Kept

LEMMA DropHoldKept ==
  ASSUME TypeOK, NEW p \in Proc, NEW x \in Row, x \notin raced, x \notin raced', SeqInv(p, x),
         DropHold(p)
  PROVE  Kept(x)
<1>0. UNCHANGED booking
  BY DEF DropHold
<1>1. PICK r : r = req[p].row
  OBVIOUS
<1>2. r \in Row /\ \A y \in Row : y # r => hold'[y] = hold[y]
  BY <1>1, DropHoldDoes
<1>3. x = r => booking[x].status \notin Open
  BY <1>1 DEF DropHold, SeqInv, FlightInv, Here
<1> QED
  BY <1>0, <1>2, <1>3, Stays DEF Kept

LEMMA SweepKept ==
  ASSUME TypeOK, NEW p \in Proc, NEW x \in Row, x \notin raced, x \notin raced', SeqInv(p, x),
         SweepDelete(p)
  PROVE  Kept(x)
<1>1. /\ req[p].pc = "sweepDelete" /\ req[p].marked \subseteq req[p].rows
      /\ x \in req[p].marked => Gets(x, "expired")
      /\ x \notin req[p].marked => booking'[x] = booking[x]
      /\ x \notin req[p].rows => hold'[x] = hold[x]
  BY SweepDeleteDoes DEF SweepDelete, TypeOK, RequestOK
<1>2. x \in req[p].rows => /\ booking[x].status \in Open /\ ~(hold[x] > now)
                           /\ x \in req[p].marked
  BY <1>1, Types DEF SeqInv, FlightInv, InSweep
<1> QED
  BY <1>1, <1>2, Expires, Stays DEF Kept

LEMMA ContinueKept ==
  ASSUME TypeOK, NEW p \in Proc, NEW x \in Row, x \notin raced, x \notin raced', SeqInv(p, x),
         InTime(p), Continue(p)
  PROVE  Kept(x)
<1>1. HoldRead(p) \/ ReadToken(p) \/ ConfirmRead(p) \/ MoveRead(p) \/ SweepMark(p) => Kept(x)
  BY Reading DEF HoldRead, ReadToken, ConfirmRead, MoveRead, SweepMark
<1>2. WriteToken(p) \/ PostConfirm(p) \/ MoveCommit(p) => Kept(x)
  BY WriteTokenDoes, PostConfirmDoes, MoveCommitDoes, Stays DEF PostConfirm, MoveCommit, Alike, Kept
<1> QED
  BY <1>1, <1>2, HoldReuseKept, HoldCreateKept, VerifyKept, ExpireWriteKept, ConfirmsKept,
     CancelWriteKept, DropHoldKept, SweepKept DEF Continue

LEMMA StartKept ==
  ASSUME TypeOK, NEW p \in Proc, NEW x \in Row, x \notin raced, x \notin raced', Start(p)
  PROVE  Kept(x)
<1>1. ASSUME NEW r \in Row, NEW s \in Slot, WebhookMoved(p, r, s) PROVE Kept(x)
  BY <1>1, WebhookMovedDoes, Stays DEF WebhookMoved, Alike, Kept
<1>2. ASSUME NEW r \in Row, WebhookDeleted(p, r) PROVE Kept(x)
  <2>1. /\ Exists(r) /\ Gets(r, "canceled") /\ UNCHANGED hold
        /\ \A y \in Row : y # r => booking'[y] = booking[y]
    BY <1>2, WebhookDeletedDoes DEF WebhookDeleted
  <2>2. booking[x].status \in Status
    BY DEF TypeOK, Booking
  <2> QED
    BY <2>1, <2>2, Cancels, Stays DEF Kept
<1>3. \/ UNCHANGED <<booking, hold>>
      \/ \E r \in Row : WebhookDeleted(p, r)
      \/ \E r \in Row, s \in Slot : WebhookMoved(p, r, s)
  BY DEF Start, Keys, HoldStart, ConfirmCheck, VerifyRead, ByIdRead, CancelRead, MoveCheck, SweepFind
<1> QED
  BY <1>1, <1>2, <1>3, Reading

LEMMA TickKept ==
  ASSUME RNext, Tick
  PROVE  Lifecycle!Next
<1>1. now' = now + 1 /\ UNCHANGED <<booking, hold, req>>
  BY DEF Tick
<1>2. raced' = raced
  BY <1>1 DEF RNext, Disturbed, CanceledAgain, Begin
<1>3. \A x \in Row : Lifecycle!Stay(x)
  BY <1>1, <1>2 DEF Lifecycle!Stay, Lifecycle!Becomes
<1> QED
  BY <1>1, <1>3 DEF Lifecycle!Next

LEMMA InitKept == RInit => Lifecycle!Init
<1>1. NoBooking.status = "none" /\ NoBooking.key = None
  BY DEF NoBooking
<1> QED
  BY <1>1 DEF RInit, Init, Lifecycle!Init, Open

\* Requests, cron and reconciler together keep the promises of BookingLifecycle to every
\* booking until two of them race on it: a slot promised to a request until some time stays
\* with it until then, only open bookings are confirmed, and only lapsed holds expire.
THEOREM ImplementsLifecycle == RSpec => KeepsPromises
<1>1. TypeOK /\ Clocks /\ RowsSeq /\ [RNext]_rvars => [Lifecycle!Next]_(Lifecycle!vars)
  <2> SUFFICES ASSUME TypeOK, Clocks, RowsSeq, [RNext]_rvars
               PROVE  Lifecycle!Next \/ UNCHANGED Lifecycle!vars
    OBVIOUS
  <2>1. CASE UNCHANGED rvars
    BY <2>1 DEF rvars, vars, Lifecycle!vars
  <2>2. CASE RNext /\ Tick
    BY <2>2, TickKept
  <2>3. ASSUME RNext, NEW q \in Proc, Start(q) \/ Continue(q) PROVE Lifecycle!Next
    <3>1. UNCHANGED now
      BY <2>3, MoversLeaveTime
    <3>2. ASSUME NEW x \in Row PROVE Kept(x)
      <4>1. CASE x \in raced'
        BY <4>1, Contested
      <4>2. CASE x \notin raced'
        <5>1. x \notin raced
          BY <2>3, <4>2 DEF RNext
        <5>2. SeqInv(q, x) /\ InTime(q)
          BY <5>1 DEF RowsSeq, SeqInv, Clocks
        <5> QED
          BY <2>3, <4>2, <5>1, <5>2, StartKept, ContinueKept
      <4> QED
        BY <4>1, <4>2
    <3> QED
      BY <3>1, <3>2 DEF Kept, Lifecycle!Next
  <2> QED
    BY <2>1, <2>2, <2>3 DEF RNext, Next
<1> QED
  BY <1>1, RacesInvariant, InitKept, PTL DEF RSpec, KeepsPromises, Lifecycle!Spec
=============================================================================
