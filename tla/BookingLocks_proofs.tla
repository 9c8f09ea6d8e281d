------------------------- MODULE BookingLocks_proofs -------------------------
(***************************************************************************)
(* What the two advisory locks buy, for any number of rows and processes:  *)
(* NoDoubleConfirm, HoldKeyFree and NoHoldStolen.                          *)
(*                                                                         *)
(* None of them is inductive.  IInv adds that a lock has one holder and    *)
(* that what its holder read on taking it still holds when it commits:     *)
(* every step by anybody else stays within Frame (it makes no row          *)
(* confirmed, no hold live, and changes no key), except those that need    *)
(* the same lock.                                                          *)
(***************************************************************************)
EXTENDS Bookings_proofs

LockedPC == {"confirmCommit", "byIdCommit", "moveCommit"}
NotLive(r) == ~UnverifiedHold(r)

\* An advisory lock has one holder: of a booking's, and of the tenant's.
BookingLocksHeld ==
  \A p, q \in Proc : req[p].pc \in LockedPC /\ req[q].pc \in LockedPC /\ req[p].row = req[q].row => p = q
TenantLockHeld ==
  \A p, q \in Proc : req[p].pc = "holdCommit" /\ req[q].pc = "holdCommit" => p = q
\* The row a POST /holds is about to take over is not validly held.
HoldSafe ==
  \A p \in Proc, r \in Row : req[p].pc = "holdCommit" /\ req[p].row = r => NotLive(r)

IInv ==
  /\ TypeOK /\ BookingLocksHeld /\ TenantLockHeld
  /\ NoDoubleConfirm /\ HoldKeyFree /\ HoldSafe

\* What most steps leave alone.
Frame ==
  /\ now' >= now
  /\ \A r \in Row : /\ booking'[r].key = booking[r].key
                    /\ booking'[r].status \in {"hold", "confirmed"} => booking'[r].status = booking[r].status
                    /\ hold'[r] <= hold[r]

\* What a request has to have seen to go on as q.
MayGo(q) ==
  /\ q.pc \in LockedPC => BookingLockFree(q.row)
  /\ q.pc \in {"confirmCommit", "byIdCommit"} => booking[q.row].status # "confirmed"
  /\ q.pc = "holdCommit" => /\ TenantLockFree
                            /\ \A r \in Row : booking[r].key # q.key
                            /\ \A r \in Row : q.row = r => NotLive(r)

\* What is shown of every step: the invariant is kept, no live hold changes hands.
StepOK ==
  /\ IInv'
  /\ \A r \in Row : UnverifiedHold(r) => booking'[r].key = booking[r].key

Numbers == now \in Nat /\ hold \in [Row -> Nat]

\* The two kinds of number in the state, for the arithmetic.
LEMMA TypeNumbers == ASSUME TypeOK PROVE Numbers
  BY ConstantsOK DEF TypeOK, Numbers

\* Within the frame no hold becomes live.
LEMMA NotLiveStays ==
  ASSUME Numbers, Numbers', Frame, NEW r \in Row, NotLive(r)
  PROVE  NotLive(r)'
  BY SMT DEF Numbers, Frame, NotLive, UnverifiedHold

\* A step in which p goes on as q, and which changes no key and makes no row
\* confirmed or a live hold.
LEMMA QuietStep ==
  ASSUME IInv, TypeOK', Frame, NEW p \in Proc, NEW q, Goto(p, q), MayGo(q)
  PROVE  StepOK
<1>1. \A x \in Proc : req'[x] = IF x = p THEN q ELSE req[x]
  BY DEF IInv, TypeOK, Goto
<1>2. BookingLocksHeld'
  BY <1>1 DEF IInv, BookingLocksHeld, MayGo, BookingLockFree, LockedPC
<1>3. TenantLockHeld'
  BY <1>1 DEF IInv, TenantLockHeld, MayGo, TenantLockFree
<1>4. NoDoubleConfirm'
  <2> SUFFICES ASSUME NEW x \in Proc, req'[x].pc \in {"confirmCommit", "byIdCommit"}
               PROVE  booking'[req'[x].row].status # "confirmed"
    BY DEF NoDoubleConfirm
  <2>1. req'[x].row \in Row
    BY DEF TypeOK, RequestOK
  <2>2. booking[req'[x].row].status # "confirmed"
    BY <1>1 DEF IInv, NoDoubleConfirm, MayGo
  <2> QED
    BY <2>1, <2>2 DEF Frame
<1>5. HoldKeyFree'
  BY <1>1 DEF IInv, HoldKeyFree, MayGo, Frame
<1>6. HoldSafe'
  <2> SUFFICES ASSUME NEW x \in Proc, NEW r \in Row, req'[x].pc = "holdCommit", req'[x].row = r
               PROVE  NotLive(r)'
    BY DEF HoldSafe
  <2>1. NotLive(r)
    BY <1>1 DEF IInv, HoldSafe, MayGo
  <2>2. Numbers /\ Numbers'
    BY TypeNumbers, PTL DEF IInv
  <2> QED
    BY <2>1, <2>2, NotLiveStays
<1> QED
  BY <1>2, <1>3, <1>4, <1>5, <1>6 DEF IInv, StepOK, Frame

\* The same for a step that leaves every request where it is.
LEMMA StillStep ==
  ASSUME IInv, TypeOK', Frame, UNCHANGED req
  PROVE  StepOK
<1>1. BookingLocksHeld' /\ TenantLockHeld'
  BY DEF IInv, BookingLocksHeld, TenantLockHeld
<1>2. NoDoubleConfirm'
  <2> SUFFICES ASSUME NEW x \in Proc, req[x].pc \in {"confirmCommit", "byIdCommit"}
               PROVE  booking'[req[x].row].status # "confirmed"
    BY DEF NoDoubleConfirm
  <2>1. req[x].row \in Row /\ booking[req[x].row].status # "confirmed"
    BY DEF IInv, TypeOK, RequestOK, NoDoubleConfirm
  <2> QED
    BY <2>1 DEF Frame
<1>3. HoldKeyFree'
  BY DEF IInv, HoldKeyFree, Frame
<1>4. HoldSafe'
  <2> SUFFICES ASSUME NEW x \in Proc, NEW r \in Row, req[x].pc = "holdCommit", req[x].row = r
               PROVE  NotLive(r)'
    BY DEF HoldSafe
  <2>1. NotLive(r)
    BY DEF IInv, HoldSafe
  <2>2. Numbers /\ Numbers'
    BY TypeNumbers, PTL DEF IInv
  <2> QED
    BY <2>1, <2>2, NotLiveStays
<1> QED
  BY <1>1, <1>2, <1>3, <1>4 DEF IInv, StepOK, Frame

\* A request that holds no lock may go on whatever the others do.
LEMMA FreePC ==
  ASSUME NEW q, q.pc \notin LockedPC \cup {"holdCommit"}
  PROVE  MayGo(q)
  BY DEF MayGo, LockedPC

\* Going idle, or on to a step that needs no lock.
LEMMA FreeIdle == MayGo(Idle)
  BY FreePC DEF Idle, LockedPC

LEMMA FreeOnRow ==
  ASSUME NEW r, NEW k, NEW pc \in PC \ (LockedPC \cup {"holdCommit"})
  PROVE  /\ MayGo([Idle EXCEPT !.pc = pc, !.row = r])
         /\ MayGo([Idle EXCEPT !.pc = pc, !.row = r, !.key = k])
<1>1. /\ [Idle EXCEPT !.pc = pc, !.row = r].pc = pc
      /\ [Idle EXCEPT !.pc = pc, !.row = r, !.key = k].pc = pc
  BY Zenon DEF Idle
<1> QED
  BY <1>1, FreePC DEF LockedPC

\* A step that reads only is within the frame, and so is one that changes
\* the status of a row to one that holds nothing, or any other column than
\* key and status.
LEMMA ReadFrame ==
  ASSUME TypeOK, UNCHANGED <<now, booking, hold>>
  PROVE  Frame
<1>1. Numbers
  BY TypeNumbers
<1> QED
  BY <1>1, SMT DEF Numbers, Frame

LEMMA RowFrame ==
  ASSUME TypeOK, NEW r \in Row, NEW b, booking' = [booking EXCEPT ![r] = b],
         b.key = booking[r].key, b.status \in {"hold", "confirmed"} => b.status = booking[r].status,
         UNCHANGED <<now, hold>>
  PROVE  Frame
<1>1. Numbers
  BY TypeNumbers
<1>2. \A x \in Row : booking'[x] = IF x = r THEN b ELSE booking[x]
  BY DEF TypeOK
<1> QED
  BY <1>1, <1>2, SMT DEF Numbers, Frame

-----------------------------------------------------------------------------
(* One lemma per action.                                                   *)

LEMMA HoldStartStep ==
  ASSUME IInv, TypeOK', NEW p \in Proc, NEW k \in HoldKey, NEW s \in Slot, NEW c \in Customer,
         HoldStart(p, k, s, c)
  PROVE  StepOK
<1>1. Frame
  BY ReadFrame DEF HoldStart, IInv
<1>2. PICK q : q = [Idle EXCEPT !.pc = "holdTx", !.slot = s, !.customer = c, !.key = k, !.at = now]
  OBVIOUS
<1>3. q.pc = "holdTx"
  BY <1>2, Zenon DEF Idle
<1> QED
  BY <1>1, <1>2, <1>3, FreePC, QuietStep DEF HoldStart, LockedPC

\* What did not block the request at the time it took, before the wait for the
\* lock, is no live hold now either.
LEMMA NoBlockNotLive ==
  ASSUME Numbers, NEW t \in Nat, t <= now, NEW r \in Row, ~Blocks(r, t)
  PROVE  NotLive(r)
  BY SMT DEF Numbers, Blocks, Held, NotLive, UnverifiedHold, Open

LEMMA HoldReadStep ==
  ASSUME IInv, TypeOK', Clocks, NEW p \in Proc, HoldRead(p)
  PROVE  StepOK
<1>1. Frame
  BY ReadFrame DEF HoldRead, IInv
<1>2. ASSUME NEW r \in Row, Goto(p, [Idle EXCEPT !.pc = "readToken", !.row = r])
      PROVE  StepOK
  BY <1>1, <1>2, FreeOnRow, QuietStep DEF PC, LockedPC
<1>3. CASE Done(p)
  BY <1>1, <1>3, FreeIdle, QuietStep DEF Done
<1>4. ASSUME NEW r \in Row \cup {None}, r \in Row => ~Blocks(r, req[p].at),
             \A x \in Row : booking[x].key # req[p].key,
             Goto(p, [req[p] EXCEPT !.pc = "holdCommit", !.row = r])
      PROVE  StepOK
  <2>1. PICK q : q = [req[p] EXCEPT !.pc = "holdCommit", !.row = r]
    OBVIOUS
  <2>2. req[p] \in Request /\ req[p].pc = "holdTx"
    BY DEF IInv, TypeOK, HoldRead
  <2>3. q.pc = "holdCommit" /\ q.row = r /\ q.key = req[p].key /\ req[p].at \in Nat
    BY <2>1, <2>2, Zenon DEF Request
  <2>4. Numbers /\ req[p].at <= now
    BY <2>2, TypeNumbers DEF IInv, Clocks, InTime
  <2>5. \A x \in Row : q.row = x => NotLive(x)
    BY <1>4, <2>3, <2>4, NoBlockNotLive
  <2>6. MayGo(q)
    BY <1>4, <2>3, <2>5 DEF MayGo, LockedPC, HoldRead
  <2> QED
    BY <1>1, <1>4, <2>1, <2>6, QuietStep
<1>5. ASSUME NEW r \in Row, ~Blocks(r, req[p].at), \A x \in Row : booking[x].key # req[p].key,
             Goto(p, [req[p] EXCEPT !.pc = "holdCommit", !.row = r])
      PROVE  StepOK
  BY <1>4, <1>5
<1> QED
  BY <1>2, <1>3, <1>4, <1>5, NoneOK DEF HoldRead

LEMMA RefusedStep ==
  ASSUME IInv, TypeOK', NEW p \in Proc, Refused(p), UNCHANGED <<now, booking, hold>>
  PROVE  StepOK
<1>1. Frame
  BY ReadFrame DEF IInv
<1>2. CASE Done(p)
  BY <1>1, <1>2, FreeIdle, QuietStep DEF Done
<1>3. ASSUME NEW r \in Row, Goto(p, [Idle EXCEPT !.pc = "readToken", !.row = r])
      PROVE  StepOK
  BY <1>1, <1>3, FreeOnRow, QuietStep DEF PC, LockedPC
<1> QED
  BY <1>2, <1>3 DEF Refused

\* The transaction behind the tenant lock makes row r a hold: no other request
\* is in that transaction, and r, not confirmed now, is confirmed by none.
LEMMA HeldStep ==
  ASSUME IInv, TypeOK', NEW p \in Proc, req[p].pc = "holdCommit", NEW r \in Row,
         \A x \in Row : x # r => booking'[x] = booking[x],
         booking'[r].status = "hold", NotLive(r),
         Goto(p, [Idle EXCEPT !.pc = "readToken", !.row = r])
  PROVE  StepOK
<1>1. PICK q : q = [Idle EXCEPT !.pc = "readToken", !.row = r]
  OBVIOUS
<1>2. q.pc = "readToken"
  BY <1>1, Zenon DEF Idle
<1>3. \A x \in Proc : req'[x] = IF x = p THEN q ELSE req[x]
  BY <1>1 DEF IInv, TypeOK, Goto
<1>4. \A x \in Proc : req'[x].pc # "holdCommit"
  BY <1>2, <1>3 DEF IInv, TenantLockHeld
<1>5. BookingLocksHeld'
  BY <1>2, <1>3 DEF IInv, BookingLocksHeld, LockedPC
<1>6. TenantLockHeld' /\ HoldKeyFree' /\ HoldSafe'
  BY <1>4 DEF TenantLockHeld, HoldKeyFree, HoldSafe
<1>7. NoDoubleConfirm'
  <2> SUFFICES ASSUME NEW x \in Proc, req'[x].pc \in {"confirmCommit", "byIdCommit"}
               PROVE  booking'[req'[x].row].status # "confirmed"
    BY DEF NoDoubleConfirm
  <2>1. req'[x].row \in Row
    BY DEF TypeOK, RequestOK
  <2>2. booking[req'[x].row].status # "confirmed"
    BY <1>2, <1>3 DEF IInv, NoDoubleConfirm
  <2> QED
    BY <2>1, <2>2
<1> QED
  BY <1>5, <1>6, <1>7 DEF IInv, StepOK, NotLive

LEMMA HoldReuseStep ==
  ASSUME IInv, TypeOK', NEW p \in Proc, HoldReuse(p)
  PROVE  StepOK
<1>1. CASE Refused(p) /\ UNCHANGED <<booking, hold>>
  BY <1>1, RefusedStep DEF HoldReuse
<1>2. CASE ~(Refused(p) /\ UNCHANGED <<booking, hold>>)
  <2>1. PICK r \in Row : r = req[p].row
    BY DEF HoldReuse, IInv, TypeOK, Request
  <2>2. booking[r] \in Booking
    BY DEF IInv, TypeOK
  <2>3. PICK b : b = [booking[r] EXCEPT !.status = "hold", !.customer = req[p].customer,
                                        !.key = req[p].key, !.jti = FALSE]
    OBVIOUS
  <2>4. b.status = "hold"
    BY <2>2, <2>3, Zenon DEF Booking
  <2>5. /\ booking' = [booking EXCEPT ![r] = b]
        /\ Goto(p, [Idle EXCEPT !.pc = "readToken", !.row = r])
    BY <1>2, <2>1, <2>3 DEF HoldReuse, IInv, TypeOK
  <2>6. \A x \in Row : booking'[x] = IF x = r THEN b ELSE booking[x]
    BY <2>5 DEF IInv, TypeOK
  <2>7. (\A x \in Row : x # r => booking'[x] = booking[x]) /\ booking'[r].status = "hold"
    BY <2>4, <2>6
  <2>8. req[p].pc = "holdCommit" /\ NotLive(r)
    BY <2>1 DEF HoldReuse, IInv, HoldSafe
  <2> QED
    BY <2>5, <2>7, <2>8, HeldStep
<1> QED
  BY <1>1, <1>2

LEMMA HoldCreateStep ==
  ASSUME IInv, TypeOK', NEW p \in Proc, HoldCreate(p)
  PROVE  StepOK
<1>1. CASE Refused(p) /\ UNCHANGED <<booking, hold>>
  BY <1>1, RefusedStep DEF HoldCreate
<1>2. CASE ~(Refused(p) /\ UNCHANGED <<booking, hold>>)
  <2>1. PICK r \in Row :
          /\ ~Exists(r)
          /\ booking' = [booking EXCEPT ![r] =
               [NoBooking EXCEPT !.status = "hold", !.slot = req[p].slot,
                  !.customer = req[p].customer, !.key = req[p].key, !.created = now]]
          /\ Goto(p, [Idle EXCEPT !.pc = "readToken", !.row = r])
    BY <1>2 DEF HoldCreate
  <2>2. PICK b : b = [NoBooking EXCEPT !.status = "hold", !.slot = req[p].slot,
                        !.customer = req[p].customer, !.key = req[p].key, !.created = now]
    OBVIOUS
  <2>3. b.status = "hold"
    BY <2>2, Zenon DEF NoBooking
  <2>4. \A x \in Row : booking'[x] = IF x = r THEN b ELSE booking[x]
    BY <2>1, <2>2 DEF IInv, TypeOK
  <2>5. (\A x \in Row : x # r => booking'[x] = booking[x]) /\ booking'[r].status = "hold"
    BY <2>3, <2>4
  <2>6. req[p].pc = "holdCommit" /\ NotLive(r)
    BY <2>1 DEF HoldCreate, NotLive, UnverifiedHold, Exists
  <2> QED
    BY <2>1, <2>5, <2>6, HeldStep
<1> QED
  BY <1>1, <1>2

LEMMA TokenStep ==
  ASSUME IInv, TypeOK', NEW p \in Proc, ReadToken(p) \/ WriteToken(p)
  PROVE  StepOK
<1>1. CASE ReadToken(p)
  <2>1. Frame
    BY <1>1, ReadFrame DEF ReadToken, IInv
  <2>2. CASE Done(p)
    BY <2>1, <2>2, FreeIdle, QuietStep DEF Done
  <2>3. CASE Goto(p, [req[p] EXCEPT !.pc = "writeToken"])
    <3>1. PICK q : q = [req[p] EXCEPT !.pc = "writeToken"]
      OBVIOUS
    <3>2. req[p] \in Request
      BY DEF IInv, TypeOK
    <3>3. q.pc = "writeToken"
      BY <3>1, <3>2, Zenon DEF Request
    <3> QED
      BY <2>1, <2>3, <3>1, <3>3, FreePC, QuietStep DEF LockedPC
  <2> QED
    BY <1>1, <2>2, <2>3 DEF ReadToken
<1>2. CASE WriteToken(p)
  <2>1. PICK r \in Row : r = req[p].row /\ booking[r] \in Booking
    BY <1>2, InRow DEF WriteToken, IInv, TypeOK
  <2>2. PICK b : b = [booking[r] EXCEPT !.token = TRUE]
    OBVIOUS
  <2>3. b.key = booking[r].key /\ b.status = booking[r].status
    BY <2>1, <2>2, Zenon DEF Booking
  <2>4. booking' = [booking EXCEPT ![r] = b] /\ UNCHANGED <<now, hold>> /\ Done(p)
    BY <1>2, <2>1, <2>2 DEF WriteToken, IInv, TypeOK
  <2>5. Frame
    BY <2>3, <2>4, RowFrame DEF IInv
  <2> QED
    BY <2>4, <2>5, FreeIdle, QuietStep DEF Done
<1> QED
  BY <1>1, <1>2

LEMMA StatusFrame ==
  ASSUME TypeOK, NEW r \in Row, NEW st \in {"pending_verify", "canceled", "expired"},
         booking' = [booking EXCEPT ![r].status = st], UNCHANGED <<now, hold>>
  PROVE  Frame
<1>1. booking[r] \in Booking
  BY DEF TypeOK
<1>2. PICK b : b = [booking[r] EXCEPT !.status = st]
  OBVIOUS
<1>3. b.key = booking[r].key /\ b.status = st
  BY <1>1, <1>2, Zenon DEF Booking
<1>4. booking' = [booking EXCEPT ![r] = b]
  BY <1>2 DEF TypeOK
<1> QED
  BY <1>3, <1>4, RowFrame

LEMMA SlotFrame ==
  ASSUME TypeOK, NEW r \in Row, NEW s \in Slot,
         booking' = [booking EXCEPT ![r].slot = s], UNCHANGED <<now, hold>>
  PROVE  Frame
<1>1. booking[r] \in Booking
  BY DEF TypeOK
<1>2. PICK b : b = [booking[r] EXCEPT !.slot = s]
  OBVIOUS
<1>3. b.key = booking[r].key /\ b.status = booking[r].status
  BY <1>1, <1>2, Zenon DEF Booking
<1>4. booking' = [booking EXCEPT ![r] = b]
  BY <1>2 DEF TypeOK
<1> QED
  BY <1>3, <1>4, RowFrame

LEMMA VerifyReadStep ==
  ASSUME IInv, TypeOK', NEW p \in Proc, NEW r \in Row, NEW k \in Key \cup {None}, VerifyRead(p, r, k)
  PROVE  StepOK
<1>1. Frame
  BY ReadFrame DEF VerifyRead, IInv
<1>2. CASE Goto(p, [Idle EXCEPT !.pc = "expireWrite", !.row = r])
  BY <1>1, <1>2, FreeOnRow, QuietStep DEF PC, LockedPC
<1>3. ASSUME NEW q, q = [Idle EXCEPT !.pc = "verifyWrite", !.row = r, !.key = k, !.at = VerifyExp(r),
                                    !.customer = booking[r].customer],
             Goto(p, q)
      PROVE  StepOK
  <2>1. q.pc = "verifyWrite"
    BY <1>3, Zenon DEF Idle
  <2> QED
    BY <1>1, <1>3, <2>1, FreePC, QuietStep DEF LockedPC
<1> QED
  BY <1>2, <1>3 DEF VerifyRead

\* The handlers that set a status and are done.
LEMMA StatusWriteStep ==
  ASSUME IInv, TypeOK', NEW p \in Proc, VerifyWrite(p) \/ ExpireWrite(p)
  PROVE  StepOK
<1>1. CASE VerifyWrite(p) /\ UNCHANGED booking
  <2>1. Frame /\ Done(p)
    BY <1>1, ReadFrame DEF VerifyWrite, IInv
  <2> QED
    BY <2>1, FreeIdle, QuietStep DEF Done
<1>2. CASE VerifyWrite(p) /\ ~UNCHANGED booking
  <2>1. PICK r \in Row : r = req[p].row /\ booking[r] \in Booking
    BY <1>2, InRow DEF VerifyWrite, IInv, TypeOK
  <2>2. PICK b : b = [booking[r] EXCEPT !.status = "pending_verify", !.jti = TRUE]
    OBVIOUS
  <2>3. b.key = booking[r].key /\ b.status = "pending_verify"
    BY <2>1, <2>2, Zenon DEF Booking
  <2>4. booking' = [booking EXCEPT ![r] = b] /\ UNCHANGED <<now, hold>> /\ Done(p)
    BY <1>2, <2>1, <2>2 DEF VerifyWrite, IInv, TypeOK
  <2>5. Frame
    BY <2>3, <2>4, RowFrame DEF IInv
  <2> QED
    BY <2>4, <2>5, FreeIdle, QuietStep DEF Done
<1>3. CASE ExpireWrite(p)
  <2>1. PICK r \in Row : r = req[p].row
    BY <1>3, InRow DEF ExpireWrite, IInv
  <2>2. Frame /\ Done(p)
    BY <1>3, <2>1, StatusFrame DEF ExpireWrite, IInv
  <2> QED
    BY <2>2, FreeIdle, QuietStep DEF Done
<1> QED
  BY <1>1, <1>2, <1>3

LEMMA ConfirmCheckStep ==
  ASSUME IInv, TypeOK', NEW p \in Proc, NEW t \in tokens, NEW k \in Key \cup {None}, ConfirmCheck(p, t, k)
  PROVE  StepOK
<1>1. Frame
  BY ReadFrame DEF ConfirmCheck, IInv
<1>2. CASE UNCHANGED req
  BY <1>1, <1>2, StillStep
<1>3. CASE Goto(p, [Idle EXCEPT !.pc = "expireWrite", !.row = t.row])
  BY <1>1, <1>3, FreeOnRow, QuietStep DEF PC, LockedPC
<1>4. CASE Goto(p, [Idle EXCEPT !.pc = "confirmTx", !.row = t.row, !.key = k])
  BY <1>1, <1>4, FreeOnRow, QuietStep DEF PC, LockedPC
<1> QED
  BY <1>2, <1>3, <1>4 DEF ConfirmCheck

LEMMA ConfirmReadStep ==
  ASSUME IInv, TypeOK', NEW p \in Proc, ConfirmRead(p)
  PROVE  StepOK
<1>1. Frame
  BY ReadFrame DEF ConfirmRead, IInv
<1>2. CASE Goto(p, [Idle EXCEPT !.pc = "postConfirm", !.row = req[p].row])
  BY <1>1, <1>2, FreeOnRow, QuietStep DEF PC, LockedPC
<1>3. CASE Done(p)
  BY <1>1, <1>3, FreeIdle, QuietStep DEF Done
<1>4. ASSUME NEW q, q = [req[p] EXCEPT !.pc = "confirmCommit"], Goto(p, q),
             booking[req[p].row].status = "pending_verify"
      PROVE  StepOK
  <2>1. req[p] \in Request
    BY DEF IInv, TypeOK
  <2>2. q.pc = "confirmCommit" /\ q.row = req[p].row
    BY <1>4, <2>1, Zenon DEF Request
  <2>3. MayGo(q)
    BY <1>4, <2>2 DEF MayGo, ConfirmRead
  <2> QED
    BY <1>1, <1>4, <2>3, QuietStep
<1> QED
  BY <1>2, <1>3, <1>4 DEF ConfirmRead

LEMMA ByIdReadStep ==
  ASSUME IInv, TypeOK', NEW p \in Proc, NEW r \in Row, NEW k \in Key \cup {None}, ByIdRead(p, r, k)
  PROVE  StepOK
<1>1. Frame
  BY ReadFrame DEF ByIdRead, IInv
<1>2. PICK q : q = [Idle EXCEPT !.pc = "byIdCommit", !.row = r, !.key = k]
  OBVIOUS
<1>3. q.pc = "byIdCommit" /\ q.row = r
  BY <1>2, Zenon DEF Idle
<1>4. MayGo(q)
  BY <1>3 DEF MayGo, ByIdRead, ConfirmTokenUsable
<1> QED
  BY <1>1, <1>2, <1>4, QuietStep DEF ByIdRead

\* The one step that makes a booking confirmed.  Whoever else is about to
\* confirm one is, by the advisory lock, about to confirm another one.
LEMMA ConfirmStep ==
  ASSUME IInv, TypeOK', NEW p \in Proc, req[p].pc \in {"confirmCommit", "byIdCommit"},
         NEW scope, Confirm(p, scope)
  PROVE  StepOK
<1>1. PICK r \in Row : r = req[p].row /\ booking[r] \in Booking
  BY InRow DEF IInv, TypeOK
<1>2. CASE Done(p) /\ UNCHANGED <<booking, hold>>
  <2>1. Frame
    BY <1>2, ReadFrame DEF Confirm, IInv
  <2> QED
    BY <1>2, <2>1, FreeIdle, QuietStep DEF Done
<1>3. CASE ~(Done(p) /\ UNCHANGED <<booking, hold>>)
  <2>1. PICK b, q : /\ b = Confirmed(booking[r])
                    /\ q = [Idle EXCEPT !.pc = "postConfirm", !.row = r]
    OBVIOUS
  <2>2. b.key = booking[r].key
    BY <1>1, <2>1, Zenon DEF Booking, Confirmed
  <2>3. q.pc = "postConfirm"
    BY <2>1, Zenon DEF Idle
  <2>4. /\ booking' = [booking EXCEPT ![r] = b] /\ hold' = [hold EXCEPT ![r] = NoHold]
        /\ Goto(p, q) /\ UNCHANGED now
    BY <1>1, <1>3, <2>1 DEF Confirm
  <2>5. \A x \in Row : booking'[x] = IF x = r THEN b ELSE booking[x]
    BY <2>4 DEF IInv, TypeOK
  <2>6. \A x \in Proc : req'[x] = IF x = p THEN q ELSE req[x]
    BY <2>4 DEF IInv, TypeOK, Goto
  <2>7. BookingLocksHeld' /\ TenantLockHeld'
    BY <2>3, <2>6 DEF IInv, BookingLocksHeld, TenantLockHeld, LockedPC
  <2>8. HoldKeyFree'
    BY <2>2, <2>3, <2>5, <2>6 DEF IInv, HoldKeyFree
  <2>9. NoDoubleConfirm'
    <3> SUFFICES ASSUME NEW x \in Proc, req'[x].pc \in {"confirmCommit", "byIdCommit"}
                 PROVE  booking'[req'[x].row].status # "confirmed"
      BY DEF NoDoubleConfirm
    <3>1. x # p /\ req'[x] = req[x]
      BY <2>3, <2>6
    <3>2. req[x].row # r
      BY <1>1, <3>1 DEF IInv, BookingLocksHeld, LockedPC
    <3>3. req[x].row \in Row /\ booking[req[x].row].status # "confirmed"
      BY <3>1 DEF IInv, TypeOK, RequestOK, NoDoubleConfirm
    <3> QED
      BY <2>5, <3>1, <3>2, <3>3
  <2>10. HoldSafe'
    <3> SUFFICES ASSUME NEW x \in Proc, NEW y \in Row, req'[x].pc = "holdCommit", req'[x].row = y
                 PROVE  NotLive(y)'
      BY DEF HoldSafe
    <3>1. NotLive(y)
      BY <2>3, <2>6 DEF IInv, HoldSafe
    <3>2. CASE y = r
      <4>1. Numbers
        BY TypeNumbers DEF IInv
      <4>2. hold'[y] = 0 /\ now' \in Nat
        BY <2>4, <3>2, <4>1 DEF Numbers, NoHold
      <4> QED
        BY <4>2, SMT DEF NotLive, UnverifiedHold
    <3>3. CASE y # r
      BY <2>4, <2>5, <3>1, <3>3 DEF NotLive, UnverifiedHold, IInv, TypeOK
    <3> QED
      BY <3>2, <3>3
  <2> QED
    BY <2>2, <2>5, <2>7, <2>8, <2>9, <2>10 DEF IInv, StepOK
<1> QED
  BY <1>2, <1>3

LEMMA PostConfirmStep ==
  ASSUME IInv, TypeOK', NEW p \in Proc, PostConfirm(p)
  PROVE  StepOK
<1>1. PICK r \in Row : r = req[p].row /\ booking[r] \in Booking
  BY InRow DEF PostConfirm, IInv, TypeOK
<1>2. PICK attached : booking' = [booking EXCEPT ![r].event = attached]
  BY <1>1 DEF PostConfirm
<1>3. PICK b : b = [booking[r] EXCEPT !.event = attached]
  OBVIOUS
<1>4. b.key = booking[r].key /\ b.status = booking[r].status
  BY <1>1, <1>3, Zenon DEF Booking
<1>5. booking' = [booking EXCEPT ![r] = b] /\ UNCHANGED <<now, hold>> /\ Done(p)
  BY <1>2, <1>3 DEF PostConfirm, IInv, TypeOK
<1>6. Frame
  BY <1>4, <1>5, RowFrame DEF IInv
<1> QED
  BY <1>5, <1>6, FreeIdle, QuietStep DEF Done

LEMMA CancelReadStep ==
  ASSUME IInv, TypeOK', NEW p \in Proc, NEW r \in Row, NEW k \in Key \cup {None}, CancelRead(p, r, k)
  PROVE  StepOK
<1>1. Frame
  BY ReadFrame DEF CancelRead, IInv
<1>2. CASE Goto(p, [Idle EXCEPT !.pc = "dropHold", !.row = r])
  BY <1>1, <1>2, FreeOnRow, QuietStep DEF PC, LockedPC
<1>3. CASE Goto(p, [Idle EXCEPT !.pc = "cancelWrite", !.row = r, !.key = k])
  BY <1>1, <1>3, FreeOnRow, QuietStep DEF PC, LockedPC
<1> QED
  BY <1>2, <1>3 DEF CancelRead

LEMMA CancelWriteStep ==
  ASSUME IInv, TypeOK', NEW p \in Proc, CancelWrite(p)
  PROVE  StepOK
<1>1. PICK r \in Row : r = req[p].row
  BY InRow DEF CancelWrite, IInv
<1>2. Frame
  BY <1>1, StatusFrame DEF CancelWrite, IInv
<1>3. PICK q : q = [req[p] EXCEPT !.pc = "dropHold"]
  OBVIOUS
<1>4. req[p] \in Request
  BY DEF IInv, TypeOK
<1>5. q.pc = "dropHold"
  BY <1>3, <1>4, Zenon DEF Request
<1> QED
  BY <1>2, <1>3, <1>5, FreePC, QuietStep DEF CancelWrite, LockedPC

LEMMA DropHoldStep ==
  ASSUME IInv, TypeOK', NEW p \in Proc, DropHold(p)
  PROVE  StepOK
<1>1. Numbers
  BY TypeNumbers DEF IInv
<1>2. \A x \in Row : hold'[x] = IF x = req[p].row THEN 0 ELSE hold[x]
  BY <1>1 DEF DropHold, Numbers, NoHold
<1>3. Frame
  BY <1>1, <1>2, SMT DEF DropHold, Numbers, Frame
<1> QED
  BY <1>3, FreeIdle, QuietStep DEF DropHold, Done

LEMMA MoveCheckStep ==
  ASSUME IInv, TypeOK', NEW p \in Proc, NEW r \in Row, NEW s \in Slot, NEW k \in Key \cup {None},
         MoveCheck(p, r, s, k)
  PROVE  StepOK
<1>1. Frame
  BY ReadFrame DEF MoveCheck, IInv
<1>2. CASE UNCHANGED req
  BY <1>1, <1>2, StillStep
<1>3. ASSUME NEW q, q = [Idle EXCEPT !.pc = "moveTx", !.row = r, !.slot = s, !.key = k, !.at = now],
             Goto(p, q)
      PROVE  StepOK
  <2>1. q.pc = "moveTx"
    BY <1>3, Zenon DEF Idle
  <2> QED
    BY <1>1, <1>3, <2>1, FreePC, QuietStep DEF LockedPC
<1> QED
  BY <1>2, <1>3 DEF MoveCheck

LEMMA MoveReadStep ==
  ASSUME IInv, TypeOK', NEW p \in Proc, MoveRead(p)
  PROVE  StepOK
<1>1. Frame
  BY ReadFrame DEF MoveRead, IInv
<1>2. CASE Done(p)
  BY <1>1, <1>2, FreeIdle, QuietStep DEF Done
<1>3. ASSUME NEW q, q = [req[p] EXCEPT !.pc = "moveCommit"], Goto(p, q)
      PROVE  StepOK
  <2>1. req[p] \in Request
    BY DEF IInv, TypeOK
  <2>2. q.pc = "moveCommit" /\ q.row = req[p].row
    BY <1>3, <2>1, Zenon DEF Request
  <2>3. MayGo(q)
    BY <2>2 DEF MayGo, MoveRead
  <2> QED
    BY <1>1, <1>3, <2>3, QuietStep
<1> QED
  BY <1>2, <1>3 DEF MoveRead

LEMMA MoveCommitStep ==
  ASSUME IInv, TypeOK', NEW p \in Proc, MoveCommit(p)
  PROVE  StepOK
<1>1. PICK r \in Row : r = req[p].row
  BY InRow DEF MoveCommit, IInv
<1>2. req[p].slot \in Slot /\ Done(p) /\ UNCHANGED <<now, hold>>
  BY DEF MoveCommit, IInv, TypeOK, RequestOK
<1>3. Frame
  BY <1>1, <1>2, ReadFrame, SlotFrame DEF MoveCommit, IInv
<1> QED
  BY <1>2, <1>3, FreeIdle, QuietStep DEF Done

LEMMA SweepReadStep ==
  ASSUME IInv, TypeOK', NEW p \in Proc, SweepFind(p) \/ SweepMark(p)
  PROVE  StepOK
<1>1. Frame
  BY ReadFrame DEF SweepFind, SweepMark, IInv
<1>2. CASE UNCHANGED req
  BY <1>1, <1>2, StillStep
<1>3. ASSUME NEW S, NEW q, q = [Idle EXCEPT !.pc = "sweepMark", !.rows = S], Goto(p, q)
      PROVE  StepOK
  <2>1. q.pc = "sweepMark"
    BY <1>3, Zenon DEF Idle
  <2> QED
    BY <1>1, <1>3, <2>1, FreePC, QuietStep DEF LockedPC
<1>4. ASSUME NEW S, NEW q, q = [req[p] EXCEPT !.pc = "sweepDelete", !.marked = S], Goto(p, q)
      PROVE  StepOK
  <2>1. req[p] \in Request
    BY DEF IInv, TypeOK
  <2>2. q.pc = "sweepDelete"
    BY <1>4, <2>1, Zenon DEF Request
  <2> QED
    BY <1>1, <1>4, <2>2, FreePC, QuietStep DEF LockedPC
<1> QED
  BY <1>2, <1>3, <1>4 DEF SweepFind, SweepMark

LEMMA SweepDeleteStep ==
  ASSUME IInv, TypeOK', NEW p \in Proc, SweepDelete(p)
  PROVE  StepOK
<1>1. Numbers
  BY TypeNumbers DEF IInv
<1>2. ASSUME NEW x \in Row
      PROVE  /\ booking'[x].key = booking[x].key
             /\ booking'[x].status \in {"expired", booking[x].status}
  <2>1. booking[x] \in Booking
    BY DEF IInv, TypeOK
  <2>2. PICK b : b = [booking[x] EXCEPT !.status = "expired"]
    OBVIOUS
  <2>3. b.key = booking[x].key /\ b.status = "expired"
    BY <2>1, <2>2, Zenon DEF Booking
  <2>4. booking'[x] = b \/ booking'[x] = booking[x]
    BY <2>2 DEF SweepDelete
  <2> QED
    BY <2>3, <2>4
<1>3. \A x \in Row : hold'[x] <= hold[x]
  BY <1>1, SMT DEF SweepDelete, Numbers, NoHold
<1>4. Frame
  BY <1>1, <1>2, <1>3, SMT DEF SweepDelete, Numbers, Frame
<1> QED
  BY <1>4, FreeIdle, QuietStep DEF SweepDelete, Done

LEMMA WebhookStep ==
  ASSUME IInv, TypeOK', NEW p \in Proc, NEW r \in Row,
         WebhookDeleted(p, r) \/ \E s \in Slot : WebhookMoved(p, r, s)
  PROVE  StepOK
<1>1. Frame
  BY StatusFrame, SlotFrame DEF WebhookDeleted, WebhookMoved, IInv
<1> QED
  BY <1>1, StillStep DEF WebhookDeleted, WebhookMoved

LEMMA StillFrame ==
  ASSUME IInv, TypeOK', UNCHANGED vars \/ Tick
  PROVE  StepOK
<1>1. Numbers
  BY TypeNumbers DEF IInv
<1>2. Frame
  BY <1>1, SMT DEF Numbers, Frame, vars, Tick
<1> QED
  BY <1>2, StillStep DEF vars, Tick

-----------------------------------------------------------------------------
\* The invariant holds at first, and every step keeps it.
LEMMA InitIInv == Init => IInv
<1> SUFFICES ASSUME Init PROVE IInv
  OBVIOUS
<1>1. \A p \in Proc : req[p].pc = "idle"
  BY DEF Init, Idle
<1> QED
  BY <1>1, InitType DEF IInv, BookingLocksHeld, TenantLockHeld, NoDoubleConfirm, HoldKeyFree,
     HoldSafe, LockedPC

LEMMA NextIInv == IInv /\ Clocks /\ [Next]_vars => StepOK
<1> SUFFICES ASSUME IInv, Clocks, [Next]_vars PROVE StepOK
  OBVIOUS
<1>1. TypeOK'
  BY NextType DEF IInv
<1>2. CASE UNCHANGED vars \/ Tick
  BY <1>1, <1>2, StillFrame
<1>3. ASSUME NEW p \in Proc, Start(p) PROVE StepOK
  BY <1>1, <1>3, HoldStartStep, ConfirmCheckStep, VerifyReadStep, ByIdReadStep, CancelReadStep,
     MoveCheckStep, SweepReadStep, WebhookStep DEF Start, Keys
<1>4. ASSUME NEW p \in Proc, Continue(p) PROVE StepOK
  <2>1. CASE ConfirmCommit(p) \/ ByIdCommit(p)
    BY <1>1, <2>1, ConfirmStep DEF ConfirmCommit, ByIdCommit
  <2> QED
    BY <1>1, <1>4, <2>1, HoldReadStep, HoldReuseStep, HoldCreateStep, TokenStep, StatusWriteStep, ConfirmReadStep,
       PostConfirmStep, CancelWriteStep, DropHoldStep, MoveReadStep, MoveCommitStep, SweepReadStep,
       SweepDeleteStep DEF Continue
<1> QED
  BY <1>2, <1>3, <1>4 DEF Next

LEMMA LocksInvariant == Spec => []IInv
<1>1. IInv /\ Clocks /\ [Next]_vars => IInv'
  BY NextIInv DEF StepOK
<1> QED
  BY <1>1, InitIInv, ClocksHold, PTL DEF Spec

\* The per-booking advisory lock does its work: no two confirms of one booking
\* (by mail or by id) both take effect.
THEOREM ConfirmedOnce == Spec => []NoDoubleConfirm
<1>1. IInv => NoDoubleConfirm
  BY DEF IInv
<1> QED
  BY <1>1, LocksInvariant, PTL

\* The per-tenant advisory lock does its work: no POST /holds that is about to
\* write finds its Idempotency-Key taken.
THEOREM OneHoldPerKey == Spec => []HoldKeyFree
<1>1. IInv => HoldKeyFree
  BY DEF IInv
<1> QED
  BY <1>1, LocksInvariant, PTL

\* A valid hold whose verification was not asked for is never handed to another
\* request.  The row HoldReuse writes was read before; the invariant carries to its
\* commit that it held nothing valid then, because no step but this one makes a row
\* a hold, and no time of a request is ahead of the clock.
THEOREM HoldsAreKept == Spec => NoHoldStolen
<1>1. IInv /\ Clocks /\ [Next]_vars
        => [\A r \in Row : UnverifiedHold(r) => booking'[r].key = booking[r].key]_vars
  BY NextIInv DEF StepOK
<1> QED
  BY <1>1, LocksInvariant, ClocksHold, PTL DEF Spec, NoHoldStolen
=============================================================================
