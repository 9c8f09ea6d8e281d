------------------------------ MODULE Bookings ------------------------------
(***************************************************************************)
(* The booking, hold and idempotency tables of the API and every handler   *)
(* of BookingService that changes them: createHold(Public),                *)
(* sendVerification, confirmBooking, confirmBookingById, cancelBooking,    *)
(* rescheduleBooking, expireHolds, and the two branches of the webhook     *)
(* reconciler.                                                             *)
(*                                                                         *)
(* A process of Proc is one activity of the Node server at a time: a       *)
(* request, a run of the expiry cron, or a webhook job.  A handler is cut  *)
(* into one step per point where another activity can get in: what it read *)
(* outside a transaction or before its advisory lock is kept in req[p] and *)
(* may be stale when it writes.  Reads of one transaction are taken at one *)
(* point, its writes at its commit (PostgreSQL READ COMMITTED).            *)
(* A refused request changes nothing and is not a step, unless it has      *)
(* already begun.                                                          *)
(***************************************************************************)
EXTENDS Naturals, FiniteSets

CONSTANTS
  Row,            \* booking ids the database can hand out
  Proc,           \* concurrent activities
  Customer,
  Slot,           \* a slot is a salesperson with a start and an end
  Owner,          \* Owner[s]: the salesperson of slot s
  Overlap,        \* the pairs of slots of one salesperson that intersect
  Deadline,       \* Deadline[s]: last moment slot s may be canceled or moved
  HoldKey,        \* Idempotency-Key values of POST /holds
  Key,            \* Idempotency-Key values a client of another endpoint repeats
  Repeated,       \* bound: the endpoints (of Scope) it repeats them at
  HoldTTL,        \* holdTtlMinutes
  ConfirmWindow,  \* 15 minutes from created_at, for confirm-by-id
  MaxTime,        \* bound on the clock
  LastHold,       \* bound: no hold is asked for after this time
  None            \* null

ASSUME ConstantsOK ==
  /\ Owner \in [Slot -> {Owner[s] : s \in Slot}]
  /\ Deadline \in [Slot -> Nat]
  /\ Overlap \subseteq Slot \X Slot
  /\ \A s \in Slot : <<s, s>> \in Overlap
  /\ \A s, t \in Slot : <<s, t>> \in Overlap => <<t, s>> \in Overlap
  /\ \A s, t \in Slot : <<s, t>> \in Overlap => Owner[s] = Owner[t]
  /\ HoldTTL \in Nat \ {0} /\ ConfirmWindow \in Nat /\ MaxTime \in Nat \ {0} /\ LastHold \in Nat
  /\ None \notin Row \cup Customer \cup Slot \cup HoldKey \cup Key

VARIABLES
  now,       \* the wall clock, from 1
  booking,   \* table bookings (with graph_events reduced to: attached or not)
  hold,      \* table holds: expires_at_utc, or NoHold where there is no row
  tokens,    \* verify tokens mailed and not yet past their exp
  idem,      \* table idempotency_keys
  req        \* what each process is doing

vars == <<now, booking, hold, tokens, idem, req>>

Open == {"hold", "pending_verify"}
Active == Open \cup {"confirmed"}
Status == Active \cup {"none", "canceled", "expired"}
Scope == {"verify-email", "confirm", "confirm-by-id", "cancel", "reschedule"}
NoHold == 0

\* jti: verify_token_jti is set (it is always verify-<id>); token: public_confirm_token is set.
Booking == [status : Status, slot : Slot \cup {None}, customer : Customer \cup {None},
            key : HoldKey \cup {None}, jti : BOOLEAN, token : BOOLEAN,
            created : Nat, event : BOOLEAN]
NoBooking == [status |-> "none", slot |-> None, customer |-> None, key |-> None,
              jti |-> FALSE, token |-> FALSE, created |-> 0, event |-> FALSE]

VerifyToken == [row : Row, exp : Nat, to : Customer]

PC == {"idle", "holdTx", "holdCommit", "readToken", "writeToken", "verifyWrite",
       "expireWrite", "confirmTx", "confirmCommit", "byIdCommit", "postConfirm", "cancelWrite",
       "dropHold", "moveTx", "moveCommit", "sweepMark", "sweepDelete"}
Request == [pc : PC, row : Row \cup {None}, slot : Slot \cup {None},
            customer : Customer \cup {None}, key : HoldKey \cup Key \cup {None},
            at : Nat, rows : SUBSET Row, marked : SUBSET Row]
Idle == [pc |-> "idle", row |-> None, slot |-> None, customer |-> None,
         key |-> None, at |-> 0, rows |-> {}, marked |-> {}]

-----------------------------------------------------------------------------
(* Locks, constraints and the conditions the handlers test.                *)

\* Row r was updated by an expiry transaction that has not committed: writers of r wait.
RowLocked(r) == \E p \in Proc : r \in req[p].marked

\* pg_advisory_xact_lock(hashtext(booking.id)) is free.
NoBookingLock(r) == r \in Row       \* mutant: no lock
BookingLockFree(r) ==
  \A p \in Proc : req[p].pc \in {"confirmCommit", "byIdCommit", "moveCommit"} => req[p].row # r

\* pg_advisory_xact_lock(hashtext('rr:' || tenant.id)) is free.
NoTenantLock == now \in Nat         \* mutant: no lock
TenantLockFree == \A p \in Proc : req[p].pc # "holdCommit"

\* bookings_active_slot_unique admits row r, active, in slot s.
SlotFree(r, s) ==
  \A q \in Row \ {r} : booking[q].slot = s => booking[q].status \notin Active

\* UNIQUE (tenant_id, idempotency_key) admits row r with key k.
KeyFree(r, k) == \A q \in Row \ {r} : booking[q].key # k

Exists(r) == booking[r].status # "none"
VerifiedHeld(r, t) == booking[r].status = "pending_verify" /\ hold[r] > t   \* mutant
Held(r, t) == booking[r].status \in Open /\ hold[r] > t
Blocks(r, t) == booking[r].status = "confirmed" \/ Held(r, t)
Intersecting(r, s) == {q \in Row \ {r} : <<booking[q].slot, s>> \in Overlap}
Conflict(r, s, t) == \E q \in Intersecting(r, s) : Blocks(q, t)

\* calcHoldExpiresAtUtc.
ExpiresAt(t) == t + HoldTTL
\* exp of a verify token: that of the hold, whenever the mail is asked for.
FromExpiry(r) == ExpiresAt(hold[r])      \* mutant
VerifyExp(r) == hold[r]

\* What confirmBookingById accepts (the 15 minutes count from created_at).
UnlimitedConfirmToken(r) == booking[r].status = "hold" /\ booking[r].token   \* mutant
ConfirmTokenUsable(r) ==
  /\ booking[r].status = "hold" /\ booking[r].token
  /\ booking[r].created + ConfirmWindow > now

\* What the expiry cron looks for, and which of those it still updates.
AnyHold(r) == booking[r].status \in Open /\ hold[r] # NoHold                  \* mutant
UnverifiedLapsed(r) == booking[r].status = "hold" /\ hold[r] # NoHold /\ hold[r] < now  \* mutant
Lapsed(r) == booking[r].status \in Open /\ hold[r] # NoHold /\ hold[r] < now
OnlyPending(S) == {r \in S : booking[r].status = "pending_verify"}          \* mutant
StillOpen(S) == {r \in S : booking[r].status \in Open}

\* The row of a confirmed booking.
KeepsJti(b) == [b EXCEPT !.status = "confirmed", !.token = FALSE]            \* mutant
Confirmed(b) == [b EXCEPT !.status = "confirmed", !.jti = FALSE, !.token = FALSE]

\* checkIdempotency; None stands for a key no other request uses.  (The key is
\* recorded a little after the change; a repeat that comes before that acts as
\* one with None does, so both are one step here.)
Seen(scope, k) == <<scope, k>> \in idem
\* recordIdempotency.
RecordAny(scope, k) == idem' = idem \cup {<<scope, k>>}                      \* mutant
Record(scope, k) == idem' = IF k = None THEN idem ELSE idem \cup {<<scope, k>>}

Begin(p) == req[p].pc = "idle"
Goto(p, q) == req' = [req EXCEPT ![p] = q]
Done(p) == Goto(p, Idle)

Init ==
  /\ now = 1
  /\ booking = [r \in Row |-> NoBooking]
  /\ hold = [r \in Row |-> NoHold]
  /\ tokens = {}
  /\ idem = {}
  /\ req = [p \in Proc |-> Idle]

-----------------------------------------------------------------------------
(* POST /holds: createHoldPublic, createHold, tryCreateHoldForSalespersonTx *)

\* The time of the request is taken before the lock is.
HoldStart(p, k, s, c) ==
  /\ Begin(p)
  /\ now <= LastHold                \* bound
  /\ Goto(p, [Idle EXCEPT !.pc = "holdTx", !.slot = s, !.customer = c, !.key = k, !.at = now])
  /\ UNCHANGED <<now, booking, hold, tokens, idem>>

\* The transaction behind the tenant lock reads: a booking with this
\* Idempotency-Key is the answer; else the first booking found in exactly this
\* slot is taken over unless it is confirmed or validly held; else, with no
\* booking in the slot, a new one is made unless an overlapping one blocks it.
\* (A request without a salesperson tries each in turn: a request naming that one.)
HoldRead(p) ==
  /\ req[p].pc = "holdTx"
  /\ TenantLockFree
  /\ LET q == req[p]
         inSlot == {r \in Row : booking[r].slot = q.slot}
         take(r) == [q EXCEPT !.pc = "holdCommit", !.row = r]
     IN \/ \E r \in Row : /\ booking[r].key = q.key
                          /\ Goto(p, [Idle EXCEPT !.pc = "readToken", !.row = r])
        \/ /\ \A r \in Row : booking[r].key # q.key
           /\ \/ \E r \in inSlot : ~Blocks(r, q.at) /\ Goto(p, take(r))
              \/ inSlot = {} /\ ~Conflict(None, q.slot, q.at) /\ Goto(p, take(None))
              \/ /\ \/ \E r \in inSlot : Blocks(r, q.at)
                    \/ inSlot = {} /\ Conflict(None, q.slot, q.at)
                 /\ Done(p)
  /\ UNCHANGED <<now, booking, hold, tokens, idem>>

\* P2002: the booking with this key is the answer, if there is one, else 409.
Refused(p) ==
  IF \E r \in Row : booking[r].key = req[p].key
  THEN \E r \in Row : /\ booking[r].key = req[p].key
                      /\ Goto(p, [Idle EXCEPT !.pc = "readToken", !.row = r])
  ELSE Done(p)

\* The existing row is made a hold of the new customer; its created_at,
\* public_confirm_token, slot and graph event stay.
HoldReuse(p) ==
  /\ req[p].pc = "holdCommit" /\ req[p].row # None
  /\ ~RowLocked(req[p].row)
  /\ LET q == req[p] IN
     IF SlotFree(q.row, booking[q.row].slot) /\ KeyFree(q.row, q.key)
     THEN /\ booking' = [booking EXCEPT ![q.row].status = "hold", ![q.row].customer = q.customer,
                                        ![q.row].key = q.key, ![q.row].jti = FALSE]
          /\ hold' = [hold EXCEPT ![q.row] = ExpiresAt(q.at)]
          /\ Goto(p, [Idle EXCEPT !.pc = "readToken", !.row = q.row])
     ELSE Refused(p) /\ UNCHANGED <<booking, hold>>
  /\ UNCHANGED <<now, tokens, idem>>

HoldCreate(p) ==
  /\ req[p].pc = "holdCommit" /\ req[p].row = None
  /\ LET q == req[p] IN
     \/ \E r \in Row :
          /\ ~Exists(r)
          /\ SlotFree(r, q.slot) /\ KeyFree(r, q.key)
          /\ booking' = [booking EXCEPT ![r] =
               [NoBooking EXCEPT !.status = "hold", !.slot = q.slot, !.customer = q.customer,
                                 !.key = q.key, !.created = now]]
          /\ hold' = [hold EXCEPT ![r] = ExpiresAt(q.at)]
          /\ Goto(p, [Idle EXCEPT !.pc = "readToken", !.row = r])
     \/ /\ \/ ~SlotFree(None, q.slot) \/ ~KeyFree(None, q.key)
           \/ \A r \in Row : Exists(r)                          \* bound: ids run out
        /\ Refused(p)
        /\ UNCHANGED <<booking, hold>>
  /\ UNCHANGED <<now, tokens, idem>>

\* After createHold: read public_confirm_token, and write a new one if null.
ReadToken(p) ==
  /\ req[p].pc = "readToken"
  /\ IF booking[req[p].row].token THEN Done(p) ELSE Goto(p, [req[p] EXCEPT !.pc = "writeToken"])
  /\ UNCHANGED <<now, booking, hold, tokens, idem>>

WriteToken(p) ==
  /\ req[p].pc = "writeToken"
  /\ ~RowLocked(req[p].row)
  /\ booking' = [booking EXCEPT ![req[p].row].token = TRUE]
  /\ Done(p)
  /\ UNCHANGED <<now, hold, tokens, idem>>

-----------------------------------------------------------------------------
(* POST /auth/verify-email: sendVerification                               *)

\* With a key already seen the answer is rebuilt and only a lapsed hold writes.
VerifyRead(p, r, k) ==
  /\ Begin(p)
  /\ booking[r].status \in Open /\ hold[r] # NoHold
  /\ \/ /\ hold[r] <= now
        /\ Goto(p, [Idle EXCEPT !.pc = "expireWrite", !.row = r])
     \/ /\ hold[r] > now
        /\ ~Seen("verify-email", k)
        /\ Goto(p, [Idle EXCEPT !.pc = "verifyWrite", !.row = r, !.key = k, !.at = VerifyExp(r),
                                !.customer = booking[r].customer])
  /\ UNCHANGED <<now, booking, hold, tokens, idem>>

\* The update names only the id: it applies whatever the status is by now.
VerifyWrite(p) ==
  /\ req[p].pc = "verifyWrite"
  /\ ~RowLocked(req[p].row)
  /\ LET q == req[p] IN
     IF SlotFree(q.row, booking[q.row].slot)
     THEN /\ booking' = [booking EXCEPT ![q.row].status = "pending_verify", ![q.row].jti = TRUE]
          /\ tokens' = tokens \cup {[row |-> q.row, exp |-> q.at, to |-> q.customer]}
          /\ Record("verify-email", q.key)
     ELSE UNCHANGED <<booking, tokens, idem>>
  /\ Done(p)
  /\ UNCHANGED <<now, hold>>

\* update({status: expired}) by id, after the hold was found lapsed.
ExpireWrite(p) ==
  /\ req[p].pc = "expireWrite"
  /\ ~RowLocked(req[p].row)
  /\ booking' = [booking EXCEPT ![req[p].row].status = "expired"]
  /\ Done(p)
  /\ UNCHANGED <<now, hold, tokens, idem>>

-----------------------------------------------------------------------------
(* POST /confirm: confirmBooking, and POST /confirm-by-id: confirmBookingById *)

\* The checks before the transaction.  The token's jti matches whenever
\* verify_token_jti is set.
ConfirmCheck(p, t, k) ==
  /\ Begin(p)
  /\ t.exp > now
  /\ ~Seen("confirm", k)
  /\ LET r == t.row IN
     \/ /\ booking[r].status = "confirmed"
        /\ Record("confirm", k)
        /\ UNCHANGED req
     \/ /\ booking[r].status = "pending_verify" /\ booking[r].jti
        /\ hold[r] <= now
        /\ Goto(p, [Idle EXCEPT !.pc = "expireWrite", !.row = r])
        /\ UNCHANGED idem
     \/ /\ booking[r].status = "pending_verify" /\ booking[r].jti
        /\ hold[r] > now
        /\ ~Conflict(r, booking[r].slot, now)
        /\ Goto(p, [Idle EXCEPT !.pc = "confirmTx", !.row = r, !.key = k])
        /\ UNCHANGED idem
  /\ UNCHANGED <<now, booking, hold, tokens>>

\* In the transaction, behind the lock, everything is read and tested again.
\* (A hold lapsed by now is marked expired and the exception rolls that back.)
ConfirmRead(p) ==
  /\ req[p].pc = "confirmTx"
  /\ BookingLockFree(req[p].row)
  /\ LET q == req[p]
         b == booking[q.row]
     IN
     \/ /\ b.status = "confirmed"
        /\ Record("confirm", q.key)
        /\ Goto(p, [Idle EXCEPT !.pc = "postConfirm", !.row = q.row])
     \/ /\ b.status = "pending_verify" /\ b.jti /\ hold[q.row] > now
        /\ ~Conflict(q.row, b.slot, now)
        /\ Goto(p, [q EXCEPT !.pc = "confirmCommit"])
        /\ UNCHANGED idem
     \/ /\ b.status # "confirmed"
        /\ \/ b.status # "pending_verify" \/ ~b.jti \/ hold[q.row] <= now
           \/ Conflict(q.row, b.slot, now)
        /\ Done(p)
        /\ UNCHANGED idem
  /\ UNCHANGED <<now, booking, hold, tokens>>

\* Confirmed, jti and public token cleared, hold row deleted, key recorded.
Confirm(p, scope) ==
  /\ ~RowLocked(req[p].row)
  /\ LET r == req[p].row IN
     IF SlotFree(r, booking[r].slot)
     THEN /\ booking' = [booking EXCEPT ![r] = Confirmed(booking[r])]
          /\ hold' = [hold EXCEPT ![r] = NoHold]
          /\ Record(scope, req[p].key)
          /\ Goto(p, [Idle EXCEPT !.pc = "postConfirm", !.row = r])
     ELSE Done(p) /\ UNCHANGED <<booking, hold, idem>>
  /\ UNCHANGED <<now, tokens>>

ConfirmCommit(p) == req[p].pc = "confirmCommit" /\ Confirm(p, "confirm")

\* The checks, made once before and once inside the transaction: neither the
\* hold's expiry nor the slot is among them.
ByIdRead(p, r, k) ==
  /\ Begin(p)
  /\ ~Seen("confirm-by-id", k)
  /\ BookingLockFree(r)
  /\ ConfirmTokenUsable(r)
  /\ Goto(p, [Idle EXCEPT !.pc = "byIdCommit", !.row = r, !.key = k])
  /\ UNCHANGED <<now, booking, hold, tokens, idem>>

ByIdCommit(p) == req[p].pc = "byIdCommit" /\ Confirm(p, "confirm-by-id")

\* runPostConfirmBestEffort: the Graph event is created and stored, or is not.
PostConfirm(p) ==
  /\ req[p].pc = "postConfirm"
  /\ \E attached \in {booking[req[p].row].event, TRUE} :
       booking' = [booking EXCEPT ![req[p].row].event = attached]
  /\ Done(p)
  /\ UNCHANGED <<now, hold, tokens, idem>>

-----------------------------------------------------------------------------
(* POST /bookings/:id/cancel and /reschedule                               *)

\* A canceled booking or a key already seen only has its hold row deleted.
CancelRead(p, r, k) ==
  /\ Begin(p)
  /\ Exists(r)
  /\ LET b == booking[r] IN
     \/ /\ b.status = "canceled" \/ Seen("cancel", k)
        /\ Goto(p, [Idle EXCEPT !.pc = "dropHold", !.row = r])
     \/ /\ b.status = "confirmed" /\ ~Seen("cancel", k)
        /\ now <= Deadline[b.slot]
        /\ Goto(p, [Idle EXCEPT !.pc = "cancelWrite", !.row = r, !.key = k])
  /\ UNCHANGED <<now, booking, hold, tokens, idem>>

CancelWrite(p) ==
  /\ req[p].pc = "cancelWrite"
  /\ ~RowLocked(req[p].row)
  /\ booking' = [booking EXCEPT ![req[p].row].status = "canceled"]
  /\ Goto(p, [req[p] EXCEPT !.pc = "dropHold"])
  /\ UNCHANGED <<now, hold, tokens, idem>>

\* hold.deleteMany, a statement of its own, then the key is recorded.
DropHold(p) ==
  /\ req[p].pc = "dropHold"
  /\ hold' = [hold EXCEPT ![req[p].row] = NoHold]
  /\ Record("cancel", req[p].key)
  /\ Done(p)
  /\ UNCHANGED <<now, booking, tokens>>

MoveCheck(p, r, s, k) ==
  /\ Begin(p)
  /\ ~Seen("reschedule", k)
  /\ booking[r].status = "confirmed" /\ now <= Deadline[booking[r].slot]
  /\ Owner[s] = Owner[booking[r].slot]
  /\ IF s = booking[r].slot
     THEN Record("reschedule", k) /\ UNCHANGED req
     ELSE /\ Goto(p, [Idle EXCEPT !.pc = "moveTx", !.row = r, !.slot = s, !.key = k, !.at = now])
          /\ UNCHANGED idem
  /\ UNCHANGED <<now, booking, hold, tokens>>

\* findFirst returns one intersecting active booking, whichever; only that one is tested.
MoveRead(p) ==
  /\ req[p].pc = "moveTx"
  /\ BookingLockFree(req[p].row)
  /\ LET q == req[p]
         b == booking[q.row]
         found == {o \in Intersecting(q.row, q.slot) : booking[o].status \in Active}
     IN
     \/ /\ b.status = "confirmed" /\ b.slot = q.slot
        /\ Record("reschedule", q.key)
        /\ Done(p)
     \/ /\ b.status = "confirmed" /\ b.slot # q.slot
        /\ found = {} \/ \E o \in found : ~Blocks(o, q.at)
        /\ Goto(p, [q EXCEPT !.pc = "moveCommit"])
        /\ UNCHANGED idem
     \/ /\ b.status # "confirmed" \/ (b.slot # q.slot /\ \E o \in found : Blocks(o, q.at))
        /\ Done(p)
        /\ UNCHANGED idem
  /\ UNCHANGED <<now, booking, hold, tokens>>

\* Nothing catches P2002 here: the request fails and the key is not recorded.
MoveCommit(p) ==
  /\ req[p].pc = "moveCommit"
  /\ ~RowLocked(req[p].row)
  /\ LET q == req[p] IN
     IF SlotFree(q.row, q.slot) \/ booking[q.row].status \notin Active
     THEN booking' = [booking EXCEPT ![q.row].slot = q.slot] /\ Record("reschedule", q.key)
     ELSE UNCHANGED <<booking, idem>>
  /\ Done(p)
  /\ UNCHANGED <<now, hold, tokens>>

-----------------------------------------------------------------------------
(* The expiry cron (expireHolds) and the webhook reconciler                *)

SweepFind(p) ==
  /\ Begin(p)
  /\ LET lapsed == {r \in Row : Lapsed(r)}
     IN IF lapsed = {} THEN UNCHANGED req
        ELSE Goto(p, [Idle EXCEPT !.pc = "sweepMark", !.rows = lapsed])
  /\ UNCHANGED <<now, booking, hold, tokens, idem>>

\* updateMany: the rows still open are locked, and set to expired at commit.
SweepMark(p) ==
  /\ req[p].pc = "sweepMark"
  /\ LET open == StillOpen(req[p].rows)
     IN /\ \A r \in open : ~RowLocked(r)
        /\ Goto(p, [req[p] EXCEPT !.pc = "sweepDelete", !.marked = open])
  /\ UNCHANGED <<now, booking, hold, tokens, idem>>

\* deleteMany of the holds found at first, and commit.
SweepDelete(p) ==
  /\ req[p].pc = "sweepDelete"
  /\ booking' = [r \in Row |-> IF r \in req[p].marked
                               THEN [booking[r] EXCEPT !.status = "expired"] ELSE booking[r]]
  /\ hold' = [r \in Row |-> IF r \in req[p].rows THEN NoHold ELSE hold[r]]
  /\ Done(p)
  /\ UNCHANGED <<now, tokens, idem>>

\* change_type deleted: canceled, whatever the status; the hold row stays.
WebhookDeleted(p, r) ==
  /\ Begin(p)
  /\ booking[r].event
  /\ ~RowLocked(r)
  /\ booking' = [booking EXCEPT ![r].status = "canceled"]
  /\ UNCHANGED <<now, hold, tokens, idem, req>>

\* change_type updated: the booking follows the event.  P2002 leaves the job to its retries.
WebhookMoved(p, r, s) ==
  /\ Begin(p)
  /\ booking[r].event
  /\ Owner[s] = Owner[booking[r].slot]
  /\ ~RowLocked(r)
  /\ SlotFree(r, s) \/ booking[r].status \notin Active
  /\ booking' = [booking EXCEPT ![r].slot = s]
  /\ UNCHANGED <<now, hold, tokens, idem, req>>

\* A token past its exp is refused by every later request, so it is dropped.
\* Prisma ends a transaction after 5 s, its wait for the lock included: the
\* clock leaves the time a hold request took at most one tick behind.
Tick ==
  /\ now < MaxTime
  /\ \A p \in Proc : req[p].pc \in {"holdTx", "holdCommit"} => req[p].at = now
  /\ now' = now + 1
  /\ tokens' = {t \in tokens : t.exp > now'}
  /\ UNCHANGED <<booking, hold, idem, req>>

-----------------------------------------------------------------------------
Continue(p) ==
  \/ HoldRead(p) \/ HoldReuse(p) \/ HoldCreate(p) \/ ReadToken(p) \/ WriteToken(p)
  \/ VerifyWrite(p) \/ ExpireWrite(p)
  \/ ConfirmRead(p) \/ ConfirmCommit(p) \/ ByIdCommit(p) \/ PostConfirm(p)
  \/ CancelWrite(p) \/ DropHold(p) \/ MoveRead(p) \/ MoveCommit(p)
  \/ SweepMark(p) \/ SweepDelete(p)

Keys(scope) == IF scope \in Repeated THEN Key \cup {None} ELSE {None}     \* bound

Start(p) ==
  \/ \E k \in HoldKey, s \in Slot, c \in Customer : HoldStart(p, k, s, c)
  \/ \E t \in tokens, k \in Keys("confirm") : ConfirmCheck(p, t, k)
  \/ \E r \in Row :
       \/ \E k \in Keys("verify-email") : VerifyRead(p, r, k)
       \/ \E k \in Keys("confirm-by-id") : ByIdRead(p, r, k)
       \/ \E k \in Keys("cancel") : CancelRead(p, r, k)
  \/ \E r \in Row, s \in Slot, k \in Keys("reschedule") : MoveCheck(p, r, s, k)
  \/ SweepFind(p)
  \/ \E r \in Row : WebhookDeleted(p, r)
  \/ \E r \in Row, s \in Slot : WebhookMoved(p, r, s)

Next == Tick \/ \E p \in Proc : Start(p) \/ Continue(p)

Spec == Init /\ [][Next]_vars

\* A request in flight goes on, the clock advances, and the cron, which fires
\* every minute, gets a turn whenever holds have lapsed.
Fairness ==
  /\ WF_vars(Tick)
  /\ \A p \in Proc : WF_vars(Continue(p))
  /\ SF_vars(\E p \in Proc : SweepFind(p))

-----------------------------------------------------------------------------
(* Properties.                                                             *)

\* The tables and the requests in flight have their types, and a step that
\* writes a row knows which and writes one that exists.
RequestOK(q) ==
  /\ q.pc \notin {"idle", "holdTx", "holdCommit", "sweepMark", "sweepDelete"} => q.row \in Row
  /\ q.row \in Row => Exists(q.row)
  /\ q.marked \subseteq q.rows /\ \A r \in q.rows : Exists(r)
  /\ q.pc \in {"holdTx", "holdCommit"} =>
       q.slot \in Slot /\ q.customer \in Customer /\ q.key \in HoldKey
  /\ q.pc = "verifyWrite" => q.customer \in Customer
  /\ q.pc \in {"moveTx", "moveCommit"} => q.slot \in Slot
  /\ q.pc \notin {"idle", "holdTx", "holdCommit"} => q.key \in Key \cup {None}

TypeOK ==
  /\ now \in 1..MaxTime
  /\ booking \in [Row -> Booking]
  /\ \A r \in Row : \/ booking[r] = NoBooking
                   \/ /\ Exists(r)
                      /\ booking[r].slot \in Slot /\ booking[r].customer \in Customer
  /\ hold \in [Row -> Nat]
  /\ tokens \subseteq VerifyToken
  /\ idem \subseteq Scope \X Key
  /\ req \in [Proc -> Request]
  /\ \A p \in Proc : RequestOK(req[p])

\* Whatever the requests in flight, a confirmed booking never has a hold row
\* or a usable verify token left over, and one waiting for verification has
\* its token id stored (status, jti and hold row are written by different
\* handlers, in different transactions).
ConfirmedIsSettled ==
  \A r \in Row :
    /\ booking[r].status = "confirmed" => hold[r] = NoHold /\ ~booking[r].jti
    /\ booking[r].status = "pending_verify" => booking[r].jti

\* Behind the per-booking advisory lock no two confirms of one booking both
\* take effect: a confirm about to commit never finds it already confirmed.
NoDoubleConfirm ==
  \A p \in Proc : req[p].pc \in {"confirmCommit", "byIdCommit"} =>
                    booking[req[p].row].status # "confirmed"

\* Concurrent POST /holds with one Idempotency-Key never make two bookings:
\* when the transaction of one is about to write, no booking carries its key.
HoldKeyFree ==
  \A p \in Proc : req[p].pc = "holdCommit" => \A r \in Row : booking[r].key # req[p].key

\* A valid hold whose verification has not been asked for is never handed to
\* another request.  (Once it has been, a request that read the booking before
\* the verification was written can: see BookingRaces.)
UnverifiedHold(r) == booking[r].status = "hold" /\ hold[r] > now
NoHoldStolen ==
  [][\A r \in Row : UnverifiedHold(r) => booking'[r].key = booking[r].key]_vars

-----------------------------------------------------------------------------
(* What the documents and tests say and the code does not do.              *)

\* No double booking: when a booking is confirmed, no booking of its salesperson
\* at an intersecting time already is.
NoDoubleBooking ==
  [][\A r \in Row : booking[r].status # "confirmed" /\ booking'[r].status = "confirmed"
       => \A q \in Intersecting(r, booking[r].slot) : booking[q].status # "confirmed"]_vars

\* A confirmed booking only becomes canceled.
ConfirmedOnlyCanceled ==
  [][\A r \in Row : booking[r].status = "confirmed"
                      => booking'[r].status \in {"confirmed", "canceled"}]_vars
=============================================================================
