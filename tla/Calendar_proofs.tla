--------------------------- MODULE Calendar_proofs ---------------------------
(***************************************************************************)
(* The type invariant of Calendar, and that calendar and booking agree or  *)
(* the booking is flagged, that no canceled booking leaves an event behind *)
(* and that nobody is left without mail or flag, but where requests raced, *)
(* broke off or failed as the histories record it: for any requests at     *)
(* once, bookings, times, reports, failures, moves by the salesperson.     *)
(***************************************************************************)
EXTENDS CalendarRaces, TLAPS

USE DEF faults

-----------------------------------------------------------------------------
(* Types.  A request knows the row it is about, and the time where it uses *)
(* one; so does the job of the worker.                                     *)

Pcs == {"idle", "confirmTx", "postConfirm", "createEvent", "storeEvent", "sendMail", "mailSent",
        "mailFailed", "cancelWrite", "deleteEvent", "moveWrite", "patchTimes", "patchBody",
        "patched", "patchFailed"}
Timed == {"createEvent", "moveWrite", "patchTimes"}

Aims(a) == (a.pc # "idle" => a.row \in Row) /\ (a.pc \in Timed => a.at \in Slot)
ReqOK == req \in [Proc -> Request] /\ \A p \in Proc : Aims(req[p])
JobOK == job \in Job /\ (job # NoJob => job.row \in Row /\ job.start \in Slot)
TablesOK ==
  /\ booking \in [Row -> Booking] /\ attached \subseteq Row /\ event \in [Row -> EventState]
  /\ notices \subseteq Notice /\ told \subseteq Row /\ failed \subseteq Row /\ missed \subseteq Row
  /\ halted \subseteq Row /\ unposted \subseteq Row

TInv == ReqOK /\ JobOK /\ TablesOK

LEMMA TInvType == TInv => TypeOK
  BY DEF TInv, TypeOK, ReqOK, Aims, JobOK, TablesOK, Begin

LEMMA IdleType == Idle \in Request /\ Aims(Idle) /\ Idle.pc = "idle" /\ Idle.row = None
  BY DEF Idle, Request, Aims, Timed

LEMMA NoJobType == NoJob \in Job /\ NoJob.row = None
  BY DEF NoJob, Job

\* One request goes on to a.
LEMMA PutReq ==
  ASSUME ReqOK, NEW p \in Proc, NEW a \in Request, Aims(a), req' = [req EXCEPT ![p] = a]
  PROVE  ReqOK' /\ req'[p] = a
  BY DEF ReqOK

LEMMA GotoOK ==
  ASSUME ReqOK, NEW p \in Proc, NEW pc \in Pcs, Goto(p, pc), req[p].row \in Row,
         pc \in Timed => req[p].at \in Slot
  PROVE  /\ ReqOK' /\ req'[p].pc = pc /\ req'[p].row = req[p].row
         /\ req'[p].at = req[p].at /\ req'[p].linked = req[p].linked
<1> DEFINE a == [req[p] EXCEPT !.pc = pc]
<1>1. req[p] \in Request
  BY DEF ReqOK
<1>2. /\ a \in Request /\ a.pc = pc /\ a.row = req[p].row
      /\ a.at = req[p].at /\ a.linked = req[p].linked
  BY <1>1, Zenon DEF Request, Pcs
<1>3. req' = [req EXCEPT ![p] = a]
  BY DEF Goto
<1> HIDE DEF a
<1> QED
  BY <1>2, <1>3, PutReq DEF Aims

LEMMA BecomeOK ==
  ASSUME ReqOK, NEW p \in Proc, NEW pc \in Pcs \ Timed, NEW r \in Row, Become(p, pc, r)
  PROVE  ReqOK' /\ req'[p].pc = pc /\ req'[p].row = r
<1> DEFINE a == [Idle EXCEPT !.pc = pc, !.row = r]
<1>1. a \in Request /\ a.pc = pc /\ a.row = r
  BY IdleType, Zenon DEF Request, Pcs
<1>2. req' = [req EXCEPT ![p] = a]
  BY DEF Become
<1> HIDE DEF a
<1> QED
  BY <1>1, <1>2, PutReq DEF Aims

LEMMA DoneOK == ASSUME ReqOK, NEW p \in Proc, Done(p) PROVE ReqOK' /\ req'[p] = Idle
  BY IdleType, PutReq DEF Done

\* One column of a booking.
Others(r) == \A x \in Row : x # r => booking'[x] = booking[x]
BookingsOK == booking \in [Row -> Booking]

LEMMA SetStatus ==
  ASSUME BookingsOK, NEW r \in Row, NEW st \in {"open", "confirmed", "canceled"},
         booking' = [booking EXCEPT ![r].status = st]
  PROVE  /\ BookingsOK' /\ Others(r)
         /\ booking'[r].status = st /\ booking'[r].start = booking[r].start
         /\ booking'[r].reinvite = booking[r].reinvite /\ booking'[r].notify = booking[r].notify
<1> DEFINE b == [booking[r] EXCEPT !.status = st]
<1>1. booking[r] \in Booking
  BY DEF BookingsOK
<1>2. /\ b \in Booking /\ b.status = st /\ b.start = booking[r].start
      /\ b.reinvite = booking[r].reinvite /\ b.notify = booking[r].notify
  BY <1>1, Zenon DEF Booking
<1>3. booking' = [booking EXCEPT ![r] = b]
  OBVIOUS
<1> HIDE DEF b
<1> QED
  BY <1>2, <1>3 DEF BookingsOK, Others

LEMMA SetStart ==
  ASSUME BookingsOK, NEW r \in Row, NEW s \in Slot, booking' = [booking EXCEPT ![r].start = s]
  PROVE  /\ BookingsOK' /\ Others(r)
         /\ booking'[r].status = booking[r].status /\ booking'[r].start = s
         /\ booking'[r].reinvite = booking[r].reinvite /\ booking'[r].notify = booking[r].notify
<1> DEFINE b == [booking[r] EXCEPT !.start = s]
<1>1. booking[r] \in Booking
  BY DEF BookingsOK
<1>2. /\ b \in Booking /\ b.status = booking[r].status /\ b.start = s
      /\ b.reinvite = booking[r].reinvite /\ b.notify = booking[r].notify
  BY <1>1, Zenon DEF Booking
<1>3. booking' = [booking EXCEPT ![r] = b]
  OBVIOUS
<1> HIDE DEF b
<1> QED
  BY <1>2, <1>3 DEF BookingsOK, Others

LEMMA SetNotify ==
  ASSUME BookingsOK, NEW r \in Row, NEW f \in BOOLEAN, booking' = [booking EXCEPT ![r].notify = f]
  PROVE  /\ BookingsOK' /\ Others(r) /\ booking'[r].status = booking[r].status
         /\ booking'[r].start = booking[r].start
         /\ booking'[r].reinvite = booking[r].reinvite /\ booking'[r].notify = f
<1> DEFINE b == [booking[r] EXCEPT !.notify = f]
<1>1. booking[r] \in Booking
  BY DEF BookingsOK
<1>2. /\ b \in Booking /\ b.status = booking[r].status /\ b.start = booking[r].start
      /\ b.reinvite = booking[r].reinvite /\ b.notify = f
  BY <1>1, Zenon DEF Booking
<1>3. booking' = [booking EXCEPT ![r] = b]
  OBVIOUS
<1> HIDE DEF b
<1> QED
  BY <1>2, <1>3 DEF BookingsOK, Others

LEMMA SetReinvite ==
  ASSUME BookingsOK, NEW r \in Row, NEW f \in BOOLEAN, booking' = [booking EXCEPT ![r].reinvite = f]
  PROVE  /\ BookingsOK' /\ Others(r) /\ booking'[r].status = booking[r].status
         /\ booking'[r].start = booking[r].start
         /\ booking'[r].reinvite = f /\ booking'[r].notify = booking[r].notify
<1> DEFINE b == [booking[r] EXCEPT !.reinvite = f]
<1>1. booking[r] \in Booking
  BY DEF BookingsOK
<1>2. /\ b \in Booking /\ b.status = booking[r].status /\ b.start = booking[r].start
      /\ b.reinvite = f /\ b.notify = booking[r].notify
  BY <1>1, Zenon DEF Booking
<1>3. booking' = [booking EXCEPT ![r] = b]
  OBVIOUS
<1> HIDE DEF b
<1> QED
  BY <1>2, <1>3 DEF BookingsOK, Others

LEMMA SetMoved ==
  ASSUME BookingsOK, NEW r \in Row, NEW s \in Slot,
         booking' = [booking EXCEPT ![r].start = s, ![r].reinvite = TRUE]
  PROVE  /\ BookingsOK' /\ Others(r)
         /\ booking'[r].status = booking[r].status /\ booking'[r].start = s
         /\ booking'[r].reinvite = TRUE /\ booking'[r].notify = booking[r].notify
<1> DEFINE b == [booking[r] EXCEPT !.start = s, !.reinvite = TRUE]
<1>1. booking[r] \in Booking
  BY DEF BookingsOK
<1>2. /\ b \in Booking /\ b.status = booking[r].status /\ b.start = s
      /\ b.reinvite = TRUE /\ b.notify = booking[r].notify
  BY <1>1, Zenon DEF Booking
<1>3. booking' = [booking EXCEPT ![r] = b]
  BY <1>1 DEF BookingsOK
<1> HIDE DEF b
<1> QED
  BY <1>2, <1>3 DEF BookingsOK, Others

LEMMA SetCanceled ==
  ASSUME BookingsOK, NEW r \in Row,
         booking' = [booking EXCEPT ![r].status = "canceled", ![r].notify = TRUE]
  PROVE  /\ BookingsOK' /\ Others(r) /\ booking'[r].status = "canceled"
         /\ booking'[r].start = booking[r].start /\ booking'[r].reinvite = booking[r].reinvite
         /\ booking'[r].notify = TRUE
<1> DEFINE b == [booking[r] EXCEPT !.status = "canceled", !.notify = TRUE]
<1>1. booking[r] \in Booking
  BY DEF BookingsOK
<1>2. /\ b \in Booking /\ b.status = "canceled" /\ b.start = booking[r].start
      /\ b.reinvite = booking[r].reinvite /\ b.notify = TRUE
  BY <1>1, Zenon DEF Booking
<1>3. booking' = [booking EXCEPT ![r] = b]
  BY <1>1 DEF BookingsOK
<1> HIDE DEF b
<1> QED
  BY <1>2, <1>3 DEF BookingsOK, Others

\* The event of one booking, and the reports of its changes.
Updated(r) == [row |-> r, change |-> "updated"]
Deleted(r) == [row |-> r, change |-> "deleted"]
EventBecomes(r, v) == event'[r] = v /\ \A x \in Row : x # r => event'[x] = event[x]
ReportsUpdate(r) ==
  \A x : /\ Updated(x) \in notices' <=> (Updated(x) \in notices \/ x = r)
         /\ Deleted(x) \in notices' <=> Deleted(x) \in notices
ReportsDelete(r) ==
  \A x : /\ Updated(x) \in notices' <=> Updated(x) \in notices
         /\ Deleted(x) \in notices' <=> (Deleted(x) \in notices \/ x = r)
Handles(n) ==
  /\ n.change = "updated" <=> n = Updated(n.row)
  /\ n.change = "deleted" <=> n = Deleted(n.row)
  /\ \A x : /\ Updated(x) \in notices' <=> (Updated(x) \in notices /\ n # Updated(x))
           /\ Deleted(x) \in notices' <=> (Deleted(x) \in notices /\ n # Deleted(x))
  /\ \A x : x # n.row => n # Updated(x) /\ n # Deleted(x)
  /\ Updated(n.row) # Deleted(n.row)

LEMMA SetEvent ==
  ASSUME event \in [Row -> EventState], NEW r \in Row, NEW v \in EventState,
         event' = [event EXCEPT ![r] = v]
  PROVE  event' \in [Row -> EventState] /\ EventBecomes(r, v)
  BY DEF EventBecomes

LEMMA ReportUpdated ==
  ASSUME NEW r \in Row, notices' = notices \cup {[row |-> r, change |-> "updated"]}
  PROVE  /\ notices \subseteq Notice => notices' \subseteq Notice
         /\ ReportsUpdate(r)
  BY DEF ReportsUpdate, Updated, Deleted, Notice

LEMMA ReportDeleted ==
  ASSUME NEW r \in Row, notices' = notices \cup {[row |-> r, change |-> "deleted"]}
  PROVE  /\ notices \subseteq Notice => notices' \subseteq Notice
         /\ ReportsDelete(r)
  BY DEF ReportsDelete, Updated, Deleted, Notice

LEMMA HandledNotice ==
  ASSUME NEW n \in notices, n \in Notice, notices' = notices \ {n}
  PROVE  Handles(n)
  BY DEF Handles, Updated, Deleted, Notice

-----------------------------------------------------------------------------
(* What the actions of a request do, and that they keep the types.         *)

\* Request p goes on to pc with what it knows.
Goes(p, pc) ==
  /\ req'[p].pc = pc /\ req'[p].row = req[p].row
  /\ req'[p].at = req[p].at /\ req'[p].linked = req[p].linked
IsIdle(p) == req'[p].pc = "idle" /\ req'[p].row = None
SameTables == UNCHANGED <<booking, attached, event, notices, told, faults>>

LEMMA RowOf ==
  ASSUME TInv, NEW p \in Proc, req[p].pc # "idle"
  PROVE  /\ req[p].row \in Row /\ (req[p].pc \in Timed => req[p].at \in Slot)
         /\ booking[req[p].row] \in Booking
  BY DEF TInv, ReqOK, Aims, TablesOK

LEMMA BecomeDoes ==
  ASSUME TInv, NEW p \in Proc, NEW pc \in Pcs \ Timed, NEW r \in Row, Become(p, pc, r),
         SameTables, job' = job
  PROVE  TInv' /\ req'[p].pc = pc /\ req'[p].row = r
<1>1. ReqOK' /\ req'[p].pc = pc /\ req'[p].row = r
  BY BecomeOK DEF TInv
<1> QED
  BY <1>1 DEF TInv, TablesOK, JobOK, SameTables

LEMMA HasBookings == TInv => BookingsOK
  BY DEF TInv, TablesOK, BookingsOK

LEMMA ConfirmTxDoes ==
  ASSUME TInv, NEW p \in Proc, ConfirmTx(p), NEW r, r = req[p].row
  PROVE  /\ TInv' /\ r \in Row
         /\ \/ /\ booking[r].status \in {"open", "confirmed"}
               /\ Goes(p, "postConfirm") /\ Others(r) /\ booking'[r].status = "confirmed"
               /\ booking'[r].start = booking[r].start /\ booking'[r].reinvite = booking[r].reinvite
               /\ booking'[r].notify = booking[r].notify
            \/ IsIdle(p) /\ UNCHANGED booking
<1>1. r \in Row
  BY RowOf DEF ConfirmTx
<1>2. CASE booking[r].status \in {"open", "confirmed"}
  <2>1. booking' = [booking EXCEPT ![r].status = "confirmed"] /\ Goto(p, "postConfirm")
    BY <1>2 DEF ConfirmTx
  <2>2. /\ BookingsOK' /\ Others(r) /\ booking'[r].status = "confirmed"
        /\ booking'[r].start = booking[r].start /\ booking'[r].reinvite = booking[r].reinvite
        /\ booking'[r].notify = booking[r].notify
    BY <1>1, <2>1, HasBookings, SetStatus
  <2>3. ReqOK' /\ Goes(p, "postConfirm")
    <3>1. ReqOK /\ "postConfirm" \in Pcs \ Timed /\ req[p].row \in Row
      BY <1>1 DEF TInv, Pcs, Timed
    <3> QED
      BY <2>1, <3>1, GotoOK DEF Goes
  <2>4. TInv'
    BY <2>2, <2>3 DEF TInv, TablesOK, JobOK, BookingsOK, ConfirmTx
  <2> QED
    BY <1>1, <1>2, <2>2, <2>3, <2>4
<1>3. CASE booking[r].status \notin {"open", "confirmed"}
  <2>1. Done(p) /\ UNCHANGED booking
    BY <1>3 DEF ConfirmTx
  <2>2. ReqOK' /\ req'[p] = Idle
    BY <2>1, DoneOK DEF TInv
  <2>3. TInv'
    BY <2>1, <2>2 DEF TInv, TablesOK, JobOK, ConfirmTx
  <2> QED
    BY <1>1, <2>1, <2>2, <2>3, IdleType DEF IsIdle
<1> QED
  BY <1>2, <1>3

LEMMA PostConfirmDoes ==
  ASSUME TInv, NEW p \in Proc, PostConfirm(p), NEW r, r = req[p].row
  PROVE  /\ TInv' /\ r \in Row /\ req'[p].row = r /\ req'[p].at = booking[r].start
         /\ r \in attached => req'[p].pc = "sendMail"
         /\ r \notin attached => req'[p].pc = "createEvent"
<1> DEFINE pc == IF r \in attached THEN "sendMail" ELSE "createEvent"
           a == [req[p] EXCEPT !.pc = pc, !.at = booking[r].start]
<1>1. r \in Row /\ booking[r].start \in Slot /\ req[p] \in Request
  BY RowOf DEF PostConfirm, TInv, ReqOK, Booking
<1>2. pc \in {"sendMail", "createEvent"}
  OBVIOUS
<1> HIDE DEF pc
<1>3. a \in Request /\ a.pc = pc /\ a.row = r /\ a.at = booking[r].start
  BY <1>1, <1>2, Zenon DEF Request
<1>4. req' = [req EXCEPT ![p] = a]
  BY <1>1 DEF PostConfirm, pc, TInv, ReqOK
<1> HIDE DEF a
<1>5. ReqOK' /\ req'[p] = a
  BY <1>1, <1>2, <1>3, <1>4, PutReq DEF TInv, Aims
<1>6. TInv'
  BY <1>5 DEF TInv, TablesOK, JobOK, PostConfirm
<1> QED
  BY <1>1, <1>3, <1>5, <1>6 DEF pc

LEMMA CreateEventDoes ==
  ASSUME TInv, NEW p \in Proc, CreateEvent(p), NEW r, r = req[p].row
  PROVE  /\ TInv' /\ r \in Row
         /\ \/ /\ IF InCalendar(r) THEN event' = event ELSE EventBecomes(r, req[p].at)
               /\ Goes(p, "storeEvent") /\ UNCHANGED failed
            \/ failed' = failed \cup {r} /\ Goes(p, "sendMail") /\ UNCHANGED event
<1>1. r \in Row /\ req[p].at \in Slot
  BY RowOf DEF CreateEvent, Timed
<1>2. CASE /\ event' = IF InCalendar(r) THEN event ELSE [event EXCEPT ![r] = req[p].at]
           /\ Goto(p, "storeEvent") /\ UNCHANGED failed
  <2>1. ReqOK' /\ Goes(p, "storeEvent")
    BY <1>1, <1>2, GotoOK DEF TInv, Pcs, Timed, Goes
  <2>2. /\ event' \in [Row -> EventState]
        /\ IF InCalendar(r) THEN event' = event ELSE EventBecomes(r, req[p].at)
    BY <1>1, <1>2 DEF TInv, TablesOK, EventState, EventBecomes
  <2>3. TInv'
    BY <1>2, <2>1, <2>2 DEF TInv, TablesOK, JobOK, CreateEvent
  <2> QED
    BY <1>1, <1>2, <2>1, <2>2, <2>3
<1>3. CASE failed' = failed \cup {r} /\ Goto(p, "sendMail") /\ UNCHANGED event
  <2>1. ReqOK' /\ Goes(p, "sendMail")
    BY <1>1, <1>3, GotoOK DEF TInv, Pcs, Timed, Goes
  <2>2. TInv'
    BY <1>1, <1>3, <2>1 DEF TInv, TablesOK, JobOK, CreateEvent
  <2> QED
    BY <1>1, <1>3, <2>1, <2>2
<1> QED
  BY <1>2, <1>3 DEF CreateEvent

LEMMA StoreEventDoes ==
  ASSUME TInv, NEW p \in Proc, StoreEvent(p), NEW r, r = req[p].row
  PROVE  /\ TInv' /\ r \in Row /\ Goes(p, "sendMail")
         /\ \/ attached' = attached \cup {r} /\ UNCHANGED missed
            \/ missed' = missed \cup {r} /\ UNCHANGED attached
<1>1. r \in Row
  BY RowOf DEF StoreEvent
<1>2. ReqOK' /\ Goes(p, "sendMail")
  BY <1>1, GotoOK DEF TInv, Pcs, Timed, Goes, StoreEvent
<1>3. TInv'
  BY <1>1, <1>2 DEF TInv, TablesOK, JobOK, StoreEvent
<1> QED
  BY <1>1, <1>2, <1>3 DEF StoreEvent

LEMMA SendMailDoes ==
  ASSUME TInv, NEW p \in Proc, SendMail(p), NEW r, r = req[p].row
  PROVE  /\ TInv' /\ r \in Row
         /\ \/ told' = told \cup {r} /\ Goes(p, "mailSent")
            \/ Goes(p, "mailFailed") /\ UNCHANGED told
<1>1. r \in Row
  BY RowOf DEF SendMail
<1>2. Goto(p, "mailSent") => ReqOK' /\ Goes(p, "mailSent")
  BY <1>1, GotoOK DEF TInv, Pcs, Timed, Goes, SendMail
<1>3. Goto(p, "mailFailed") => ReqOK' /\ Goes(p, "mailFailed")
  BY <1>1, GotoOK DEF TInv, Pcs, Timed, Goes, SendMail
<1>4. TInv'
  BY <1>1, <1>2, <1>3 DEF TInv, TablesOK, JobOK, SendMail
<1> QED
  BY <1>1, <1>2, <1>3, <1>4 DEF SendMail

LEMMA FlagMailDoes ==
  ASSUME TInv, NEW p \in Proc, FlagMail(p), NEW r, r = req[p].row
  PROVE  /\ TInv' /\ r \in Row /\ IsIdle(p) /\ Others(r)
         /\ booking'[r].status = booking[r].status /\ booking'[r].start = booking[r].start
         /\ booking'[r].reinvite = booking[r].reinvite
         /\ (booking'[r].notify <=> req[p].pc = "mailFailed")
<1>1. r \in Row
  BY RowOf DEF FlagMail
<1> DEFINE f == req[p].pc = "mailFailed"
<1>2. booking' = [booking EXCEPT ![r].notify = f] /\ f \in BOOLEAN
  BY DEF FlagMail, Owed
<1> HIDE DEF f
<1>3. /\ BookingsOK' /\ Others(r) /\ booking'[r].status = booking[r].status
      /\ booking'[r].start = booking[r].start
      /\ booking'[r].reinvite = booking[r].reinvite /\ booking'[r].notify = f
  BY <1>1, <1>2, HasBookings, SetNotify
<1>4. ReqOK' /\ req'[p] = Idle
  BY DoneOK DEF TInv, FlagMail
<1>5. TInv'
  BY <1>3, <1>4 DEF TInv, TablesOK, JobOK, BookingsOK, FlagMail
<1> QED
  BY <1>1, <1>3, <1>4, <1>5, IdleType DEF IsIdle, f

LEMMA CancelDoes ==
  ASSUME TInv, NEW p \in Proc, NEW r \in Row, Cancel(p, r)
  PROVE  /\ TInv' /\ req'[p].pc = "cancelWrite" /\ req'[p].row = r
         /\ req'[p].linked <=> r \in attached
<1> DEFINE l == r \in attached
           a == [Idle EXCEPT !.pc = "cancelWrite", !.row = r, !.linked = l]
<1>1. l \in BOOLEAN /\ req' = [req EXCEPT ![p] = a]
  BY DEF Cancel
<1> HIDE DEF l
<1>2. a \in Request /\ a.pc = "cancelWrite" /\ a.row = r /\ a.linked = l
  BY <1>1, IdleType, Zenon DEF Request
<1> HIDE DEF a
<1>3. ReqOK' /\ req'[p] = a
  BY <1>1, <1>2, PutReq DEF TInv, Aims, Timed
<1>4. TInv'
  BY <1>3 DEF TInv, TablesOK, JobOK, Cancel
<1> QED
  BY <1>2, <1>3, <1>4 DEF l

LEMMA CancelWriteDoes ==
  ASSUME TInv, NEW p \in Proc, CancelWrite(p), NEW r, r = req[p].row
  PROVE  /\ TInv' /\ r \in Row /\ Others(r)
         /\ booking'[r].status = "canceled" /\ booking'[r].start = booking[r].start
         /\ booking'[r].reinvite = booking[r].reinvite /\ booking'[r].notify = booking[r].notify
         /\ IF req[p].linked THEN Goes(p, "deleteEvent") ELSE IsIdle(p)
<1>1. r \in Row
  BY RowOf DEF CancelWrite
<1>2. booking' = [booking EXCEPT ![r].status = "canceled"]
  BY DEF CancelWrite
<1>3. /\ BookingsOK' /\ Others(r) /\ booking'[r].status = "canceled"
      /\ booking'[r].start = booking[r].start /\ booking'[r].reinvite = booking[r].reinvite
      /\ booking'[r].notify = booking[r].notify
  BY <1>1, <1>2, HasBookings, SetStatus
<1>4. Goto(p, "deleteEvent") => ReqOK' /\ Goes(p, "deleteEvent")
  BY <1>1, GotoOK DEF TInv, Pcs, Timed, Goes, CancelWrite
<1>5. Done(p) => ReqOK' /\ IsIdle(p)
  BY DoneOK, IdleType DEF TInv, IsIdle
<1>6. TInv'
  BY <1>3, <1>4, <1>5 DEF TInv, TablesOK, JobOK, BookingsOK, CancelWrite
<1> QED
  BY <1>1, <1>3, <1>4, <1>5, <1>6 DEF CancelWrite

LEMMA DeleteEventDoes ==
  ASSUME TInv, NEW p \in Proc, DeleteEvent(p), NEW r, r = req[p].row
  PROVE  /\ TInv' /\ r \in Row /\ IsIdle(p)
         /\ \/ /\ InCalendar(r) /\ EventBecomes(r, "deleted") /\ ReportsDelete(r)
               /\ UNCHANGED failed
            \/ ~InCalendar(r) /\ UNCHANGED <<event, notices, failed>>
            \/ failed' = failed \cup {r} /\ UNCHANGED <<event, notices>>
<1>1. r \in Row
  BY RowOf DEF DeleteEvent
<1>2. ReqOK' /\ IsIdle(p)
  BY DoneOK, IdleType DEF TInv, IsIdle, DeleteEvent, TryDelete
<1>3. event' = [event EXCEPT ![r] = "deleted"]
        => event' \in [Row -> EventState] /\ EventBecomes(r, "deleted")
  BY <1>1, SetEvent DEF TInv, TablesOK, EventState
<1>4. notices' = notices \cup {[row |-> r, change |-> "deleted"]}
        => notices' \subseteq Notice /\ ReportsDelete(r)
  BY <1>1, ReportDeleted DEF TInv, TablesOK
<1>5. TInv'
  BY <1>1, <1>2, <1>3, <1>4 DEF TInv, TablesOK, JobOK, DeleteEvent, TryDelete
<1> QED
  BY <1>1, <1>2, <1>3, <1>4, <1>5 DEF DeleteEvent, TryDelete

LEMMA RebookDoes ==
  ASSUME TInv, NEW p \in Proc, NEW r \in Row, Rebook(p, r)
  PROVE  /\ TInv' /\ Others(r)
         /\ booking'[r].status = "open" /\ booking'[r].start = booking[r].start
         /\ booking'[r].reinvite = booking[r].reinvite /\ booking'[r].notify = booking[r].notify
<1>1. /\ BookingsOK' /\ Others(r) /\ booking'[r].status = "open"
      /\ booking'[r].start = booking[r].start /\ booking'[r].reinvite = booking[r].reinvite
      /\ booking'[r].notify = booking[r].notify
  BY HasBookings, SetStatus DEF Rebook
<1>2. TInv'
  BY <1>1 DEF TInv, ReqOK, TablesOK, JobOK, BookingsOK, Rebook
<1> QED
  BY <1>1, <1>2

LEMMA RescheduleDoes ==
  ASSUME TInv, NEW p \in Proc, NEW r \in Row, NEW s \in Slot, Reschedule(p, r, s)
  PROVE  /\ TInv' /\ req'[p].row = r /\ req'[p].at = s /\ (req'[p].linked <=> r \in attached)
         /\ req'[p].pc \in {"moveWrite", "patchTimes"}
<1> DEFINE l == r \in attached
           a(pc) == [pc |-> pc, row |-> r, at |-> s, linked |-> l]
<1>1. PICK pc \in {"moveWrite", "patchTimes"} : req' = [req EXCEPT ![p] = a(pc)]
  BY DEF Reschedule
<1>2. l \in BOOLEAN
  OBVIOUS
<1> HIDE DEF l
<1>3. /\ a(pc) \in Request /\ a(pc).pc = pc /\ a(pc).row = r
      /\ a(pc).at = s /\ a(pc).linked = l
  BY <1>2 DEF Request
<1> HIDE DEF a
<1>4. ReqOK' /\ req'[p] = a(pc)
  BY <1>1, <1>3, PutReq DEF TInv, Aims
<1>5. TInv'
  BY <1>4 DEF TInv, TablesOK, JobOK, Reschedule
<1> QED
  BY <1>3, <1>4, <1>5 DEF l

LEMMA MoveWriteDoes ==
  ASSUME TInv, NEW p \in Proc, MoveWrite(p), NEW r, r = req[p].row
  PROVE  /\ TInv' /\ r \in Row
         /\ \/ /\ Others(r) /\ booking'[r].status = booking[r].status
               /\ booking'[r].start = req[p].at
               /\ booking'[r].reinvite = booking[r].reinvite
               /\ booking'[r].notify = booking[r].notify
               /\ IF req[p].linked THEN Goes(p, "patchTimes") ELSE IsIdle(p)
            \/ IsIdle(p) /\ UNCHANGED booking
<1>1. r \in Row /\ req[p].at \in Slot
  BY RowOf DEF MoveWrite, Timed
<1>2. Goto(p, "patchTimes") => ReqOK' /\ Goes(p, "patchTimes")
  BY <1>1, GotoOK DEF TInv, Pcs, Timed, Goes, MoveWrite
<1>3. Done(p) => ReqOK' /\ IsIdle(p)
  BY DoneOK, IdleType DEF TInv, IsIdle
<1>4. CASE booking[r].status = "confirmed"
  <2>1. /\ BookingsOK' /\ Others(r) /\ booking'[r].status = booking[r].status
        /\ booking'[r].start = req[p].at
        /\ booking'[r].reinvite = booking[r].reinvite /\ booking'[r].notify = booking[r].notify
    <3> DEFINE s == req[p].at
    <3>1. booking' = [booking EXCEPT ![r].start = s]
      BY <1>4 DEF MoveWrite
    <3> HIDE DEF s
    <3> QED
      BY <1>1, <3>1, HasBookings, SetStart DEF s
  <2>2. TInv'
    BY <1>2, <1>3, <1>4, <2>1 DEF TInv, TablesOK, JobOK, BookingsOK, MoveWrite
  <2> QED
    BY <1>1, <1>2, <1>3, <1>4, <2>1, <2>2 DEF MoveWrite
<1>5. CASE booking[r].status # "confirmed"
  BY <1>1, <1>3, <1>5 DEF TInv, TablesOK, JobOK, MoveWrite
<1> QED
  BY <1>4, <1>5

LEMMA PatchTimesDoes ==
  ASSUME TInv, NEW p \in Proc, PatchTimes(p), NEW r, r = req[p].row
  PROVE  /\ TInv' /\ r \in Row
         /\ \/ /\ InCalendar(r) /\ EventBecomes(r, req[p].at) /\ ReportsUpdate(r)
               /\ Goes(p, "patched") \/ Goes(p, "patchFailed")
            \/ Goes(p, "patchFailed") /\ UNCHANGED <<event, notices>>
<1>1. r \in Row /\ req[p].at \in Slot
  BY RowOf DEF PatchTimes, Timed
<1>2. Goto(p, "patched") => ReqOK' /\ Goes(p, "patched")
  BY <1>1, GotoOK DEF TInv, Pcs, Timed, Goes, PatchTimes
<1>3. Goto(p, "patchFailed") => ReqOK' /\ Goes(p, "patchFailed")
  BY <1>1, GotoOK DEF TInv, Pcs, Timed, Goes, PatchTimes
<1>4. event' = [event EXCEPT ![r] = req[p].at]
        => event' \in [Row -> EventState] /\ EventBecomes(r, req[p].at)
  BY <1>1 DEF TInv, TablesOK, EventState, EventBecomes
<1>5. notices' = notices \cup {[row |-> r, change |-> "updated"]}
        => notices' \subseteq Notice /\ ReportsUpdate(r)
  BY <1>1, ReportUpdated DEF TInv, TablesOK
<1>6. TInv'
  BY <1>1, <1>2, <1>3, <1>4, <1>5 DEF TInv, TablesOK, JobOK, PatchTimes
<1> QED
  BY <1>1, <1>2, <1>3, <1>4, <1>5, <1>6 DEF PatchTimes

LEMMA PatchBodyDoes ==
  ASSUME TInv, NEW p \in Proc, PatchBody(p), NEW r, r = req[p].row
  PROVE  /\ TInv' /\ r \in Row
         /\ \/ ReportsUpdate(r) /\ (Goes(p, "patched") \/ Goes(p, "patchFailed"))
            \/ Goes(p, "patchFailed") /\ UNCHANGED notices
<1>1. r \in Row
  BY RowOf DEF PatchBody
<1>2. Goto(p, "patched") => ReqOK' /\ Goes(p, "patched")
  BY <1>1, GotoOK DEF TInv, Pcs, Timed, Goes, PatchBody
<1>3. Goto(p, "patchFailed") => ReqOK' /\ Goes(p, "patchFailed")
  BY <1>1, GotoOK DEF TInv, Pcs, Timed, Goes, PatchBody
<1>4. notices' = notices \cup {[row |-> r, change |-> "updated"]}
        => notices' \subseteq Notice /\ ReportsUpdate(r)
  BY <1>1, ReportUpdated DEF TInv, TablesOK
<1>5. TInv'
  BY <1>1, <1>2, <1>3, <1>4 DEF TInv, TablesOK, JobOK, PatchBody
<1> QED
  BY <1>1, <1>2, <1>3, <1>4, <1>5 DEF PatchBody

LEMMA FlagPatchDoes ==
  ASSUME TInv, NEW p \in Proc, FlagPatch(p), NEW r, r = req[p].row
  PROVE  /\ TInv' /\ r \in Row /\ IsIdle(p) /\ Others(r)
         /\ booking'[r].status = booking[r].status /\ booking'[r].start = booking[r].start
         /\ (booking'[r].reinvite <=> req[p].pc = "patchFailed")
         /\ booking'[r].notify = booking[r].notify
<1>1. r \in Row
  BY RowOf DEF FlagPatch
<1> DEFINE f == req[p].pc = "patchFailed"
<1>2. booking' = [booking EXCEPT ![r].reinvite = f] /\ f \in BOOLEAN
  BY DEF FlagPatch, Unsynced
<1> HIDE DEF f
<1>3. /\ BookingsOK' /\ Others(r) /\ booking'[r].status = booking[r].status
      /\ booking'[r].start = booking[r].start
      /\ booking'[r].reinvite = f /\ booking'[r].notify = booking[r].notify
  BY <1>1, <1>2, HasBookings, SetReinvite
<1>4. ReqOK' /\ req'[p] = Idle
  BY DoneOK DEF TInv, FlagPatch
<1>5. TInv'
  BY <1>3, <1>4 DEF TInv, TablesOK, JobOK, BookingsOK, FlagPatch
<1> QED
  BY <1>1, <1>3, <1>4, <1>5, IdleType DEF IsIdle, f

LEMMA MailLostDoes ==
  ASSUME TInv, NEW p \in Proc, MailLost(p), NEW r, r = req[p].row
  PROVE  TInv' /\ r \in Row /\ IsIdle(p) /\ unposted' = unposted \cup {r}
<1>1. r \in Row
  BY RowOf DEF MailLost
<1>2. ReqOK' /\ IsIdle(p)
  BY DoneOK, IdleType DEF TInv, IsIdle, MailLost
<1>3. TInv'
  BY <1>1, <1>2 DEF TInv, TablesOK, JobOK, MailLost
<1> QED
  BY <1>1, <1>2, <1>3 DEF MailLost

LEMMA StopShortDoes ==
  ASSUME TInv, NEW p \in Proc, StopShort(p), NEW r, r = req[p].row
  PROVE  TInv' /\ r \in Row /\ IsIdle(p) /\ halted' = halted \cup {r}
<1>1. r \in Row
  BY RowOf DEF StopShort, Begin
<1>2. ReqOK' /\ IsIdle(p)
  BY DoneOK, IdleType DEF TInv, IsIdle, StopShort
<1>3. TInv'
  BY <1>1, <1>2 DEF TInv, TablesOK, JobOK, StopShort
<1> QED
  BY <1>1, <1>2, <1>3 DEF StopShort

-----------------------------------------------------------------------------
(* What the salesperson and the reconciler do.                             *)

LEMMA SalesMoveDoes ==
  ASSUME TInv, NEW r \in Row, NEW s \in Slot, SalesMove(r, s)
  PROVE  TInv' /\ EventBecomes(r, s) /\ ReportsUpdate(r)
<1>1. event' \in [Row -> EventState] /\ EventBecomes(r, s)
  BY SetEvent DEF TInv, TablesOK, EventState, SalesMove
<1>2. notices' \subseteq Notice /\ ReportsUpdate(r)
  BY ReportUpdated DEF TInv, TablesOK, SalesMove
<1> QED
  BY <1>1, <1>2 DEF TInv, ReqOK, TablesOK, JobOK, SalesMove

LEMMA SalesDeleteDoes ==
  ASSUME TInv, NEW r \in Row, SalesDelete(r)
  PROVE  TInv' /\ EventBecomes(r, "deleted") /\ ReportsDelete(r)
<1>1. event' \in [Row -> EventState] /\ EventBecomes(r, "deleted")
  BY SetEvent DEF TInv, TablesOK, EventState, SalesDelete
<1>2. notices' \subseteq Notice /\ ReportsDelete(r)
  BY ReportDeleted DEF TInv, TablesOK, SalesDelete
<1> QED
  BY <1>1, <1>2 DEF TInv, ReqOK, TablesOK, JobOK, SalesDelete

LEMMA NoticeRow == ASSUME TInv, NEW n \in notices PROVE n \in Notice /\ n.row \in Row
  BY DEF TInv, TablesOK, Notice

LEMMA HandleUnknownDoes == ASSUME TInv, NEW n \in notices, HandleUnknown(n) PROVE TInv'
  BY NoticeRow DEF TInv, ReqOK, TablesOK, JobOK, HandleUnknown

LEMMA HandleDeletedDoes ==
  ASSUME TInv, NEW n \in notices, HandleDeleted(n), NEW r, r = n.row
  PROVE  /\ TInv' /\ r \in Row /\ Others(r)
         /\ booking'[r].status = "canceled" /\ booking'[r].start = booking[r].start
         /\ booking'[r].reinvite = booking[r].reinvite /\ booking'[r].notify = TRUE
<1>1. r \in Row
  BY NoticeRow
<1>2. /\ BookingsOK' /\ Others(r) /\ booking'[r].status = "canceled"
      /\ booking'[r].start = booking[r].start /\ booking'[r].reinvite = booking[r].reinvite
      /\ booking'[r].notify = TRUE
  BY <1>1, HasBookings, SetCanceled DEF HandleDeleted
<1>3. TInv'
  BY <1>2 DEF TInv, ReqOK, TablesOK, JobOK, BookingsOK, HandleDeleted
<1> QED
  BY <1>1, <1>2, <1>3

LEMMA HandleUpdatedDoes ==
  ASSUME TInv, NEW n \in notices, HandleUpdated(n)
  PROVE  TInv' /\ job'.row = n.row /\ job'.start = event[n.row]
<1>1. n.row \in Row /\ event[n.row] \in Slot
  BY NoticeRow DEF HandleUpdated, InCalendar
<1>2. job' \in Job /\ job'.row = n.row /\ job'.start = event[n.row]
  BY <1>1 DEF HandleUpdated, Job
<1>3. TInv'
  BY <1>1, <1>2 DEF TInv, ReqOK, TablesOK, JobOK, HandleUpdated
<1> QED
  BY <1>2, <1>3

LEMMA GiveUpDoes == ASSUME TInv, NEW n \in notices, GiveUp(n) PROVE TInv'
  BY NoticeRow DEF TInv, ReqOK, TablesOK, JobOK, GiveUp

LEMMA FollowDoes ==
  ASSUME TInv, FollowCalendar, NEW r, r = job.row
  PROVE  /\ TInv' /\ r \in Row /\ Others(r) /\ job'.row = None
         /\ UNCHANGED notices \/ ReportsUpdate(r)
         /\ booking'[r].status = booking[r].status /\ booking'[r].start = job.start
         /\ booking'[r].reinvite = TRUE /\ booking'[r].notify = booking[r].notify
<1> DEFINE s == job.start
<1>1. r \in Row /\ s \in Slot
  BY DEF TInv, JobOK, FollowCalendar
<1>2. booking' = [booking EXCEPT ![r].start = s, ![r].reinvite = TRUE]
  BY DEF FollowCalendar
<1> HIDE DEF s
<1>3. /\ BookingsOK' /\ Others(r) /\ booking'[r].status = booking[r].status
      /\ booking'[r].start = s /\ booking'[r].reinvite = TRUE
      /\ booking'[r].notify = booking[r].notify
  BY <1>1, <1>2, HasBookings, SetMoved
<1>4. job' \in Job /\ job' = NoJob /\ job'.row = None
  BY NoJobType DEF FollowCalendar
<1>5. /\ notices' \subseteq Notice
      /\ UNCHANGED notices \/ ReportsUpdate(r)
  BY <1>1, ReportUpdated DEF TInv, TablesOK, FollowCalendar
<1>6. TInv'
  BY <1>3, <1>4, <1>5 DEF TInv, ReqOK, TablesOK, JobOK, BookingsOK, FollowCalendar
<1> QED
  BY <1>1, <1>3, <1>4, <1>5, <1>6 DEF s

LEMMA JobStopsDoes ==
  ASSUME TInv, JobStops, NEW r, r = job.row
  PROVE  /\ TInv' /\ r \in Row /\ job'.row = None
         /\ \/ ReportsUpdate(r) /\ UNCHANGED missed
            \/ missed' = missed \cup {r} /\ UNCHANGED notices
<1>1. r \in Row
  BY DEF TInv, JobOK, JobStops
<1>2. job' \in Job /\ job' = NoJob /\ job'.row = None
  BY NoJobType DEF JobStops
<1>3. /\ notices' \subseteq Notice
      /\ \/ ReportsUpdate(r) /\ UNCHANGED missed
         \/ missed' = missed \cup {r} /\ UNCHANGED notices
  BY <1>1, ReportUpdated DEF TInv, TablesOK, JobStops
<1>4. TInv'
  BY <1>1, <1>2, <1>3 DEF TInv, ReqOK, TablesOK, JobOK, JobStops
<1> QED
  BY <1>1, <1>2, <1>3, <1>4

-----------------------------------------------------------------------------
(* Types, for any number of requests.                                      *)

LEMMA TypeInit == Init => TInv
<1> SUFFICES ASSUME Init PROVE TInv
  OBVIOUS
<1>1. ReqOK
  BY IdleType DEF Init, ReqOK
<1>2. JobOK
  BY NoJobType DEF Init, JobOK
<1>3. TablesOK
  BY DEF Init, TablesOK, Booking, EventState
<1> QED
  BY <1>1, <1>2, <1>3 DEF TInv

LEMMA StartKeepsTypes ==
  ASSUME TInv, NEW p \in Proc, NEW r \in Row, Start(p, r) PROVE TInv'
<1>1. CASE Confirm(p, r)
  BY <1>1, BecomeDoes DEF Confirm, Pcs, Timed, SameTables
<1>2. CASE Resend(p, r)
  BY <1>2, BecomeDoes DEF Resend, Pcs, Timed, SameTables
<1>3. CASE Reinvite(p, r)
  BY <1>3, BecomeDoes DEF Reinvite, Pcs, Timed, SameTables
<1> QED
  BY <1>1, <1>2, <1>3, CancelDoes, RebookDoes, RescheduleDoes DEF Start

LEMMA ContinueKeepsTypes == ASSUME TInv, NEW p \in Proc, Continue(p) PROVE TInv'
  BY ConfirmTxDoes, PostConfirmDoes, CreateEventDoes, StoreEventDoes, SendMailDoes, FlagMailDoes,
     CancelWriteDoes, DeleteEventDoes, MoveWriteDoes, PatchTimesDoes, PatchBodyDoes, FlagPatchDoes,
     MailLostDoes, StopShortDoes DEF Continue

LEMMA TypeStep == TInv /\ [Next]_vars => TInv'
<1> SUFFICES ASSUME TInv, [Next]_vars PROVE TInv'
  OBVIOUS
<1>1. CASE \E p \in Proc : Continue(p) \/ \E r \in Row : Start(p, r)
  BY <1>1, ContinueKeepsTypes, StartKeepsTypes
<1>2. CASE \E r \in Row : SalesDelete(r) \/ \E s \in Slot : SalesMove(r, s)
  BY <1>2, SalesMoveDoes, SalesDeleteDoes
<1>3. CASE \E n \in notices : HandleUnknown(n) \/ HandleDeleted(n) \/ HandleUpdated(n) \/ GiveUp(n)
  BY <1>3, HandleUnknownDoes, HandleDeletedDoes, HandleUpdatedDoes, GiveUpDoes
<1>4. CASE FollowCalendar \/ JobStops
  BY <1>4, FollowDoes, JobStopsDoes
<1>5. CASE UNCHANGED vars
  BY <1>5 DEF vars, TInv, ReqOK, TablesOK, JobOK
<1> QED
  BY <1>1, <1>2, <1>3, <1>4, <1>5 DEF Next

\* Bookings, events, reports and the steps of every request have their types, and a request
\* or job under way knows its booking.
THEOREM TypeInvariant == Spec => []TypeOK
<1>1. Spec => []TInv
  BY TypeInit, TypeStep, PTL DEF Spec
<1> QED
  BY <1>1, TInvType, PTL

-----------------------------------------------------------------------------
(* What holds of row r when p is the only request that may be at it, and   *)
(* no request at it was ever stopped short or raced with another.          *)

Here(p, r, S) == req[p].pc \in S /\ req[p].row = r

\* The mail is sent, or flagged, or a request is on its way to do either.
Mailing == {"postConfirm", "createEvent", "storeEvent", "sendMail", "mailFailed"}
ToldInv(p, r) ==
  /\ booking[r].status = "confirmed" /\ r \notin unposted
       => r \in told \/ booking[r].notify \/ Here(p, r, Mailing)
  /\ Here(p, r, {"mailSent"}) => r \in told

\* What the request read of the row still holds when it is used.
ReadInv(p, r) ==
  /\ Here(p, r, {"cancelWrite", "moveWrite"}) => (req[p].linked <=> r \in attached)
  /\ Here(p, r, {"createEvent", "storeEvent"}) => r \notin attached
  /\ Here(p, r, {"postConfirm"}) => booking[r].status = "confirmed" \/ r \in attached
  /\ Here(p, r, {"createEvent"}) => booking[r].status = "confirmed" /\ req[p].at = booking[r].start
  /\ job.row = r => r \in attached

\* An event the database knows nothing of is counted as missed, but for the one just
\* created; and an event reported deleted is not created again.
EventInv(p, r) ==
  r \notin missed => /\ event[r] # None => r \in attached \/ Here(p, r, {"storeEvent"})
                     /\ Deleted(r) \in notices => event[r] = "deleted"

GoneInv(p, r) ==
  r \notin failed \cup missed /\ booking[r].status = "canceled"
    => ~InCalendar(r) \/ Here(p, r, {"deleteEvent"})

\* The event is when the booking says, or a report of its change has still to be handled;
\* or the request that moved the one has yet to move the other.
Followed(r) == event[r] = booking[r].start \/ Updated(r) \in notices \/ job.row = r
TimesInv(p, r) ==
  r \notin missed /\ InCalendar(r) =>
    /\ job.row = r => job.start = event[r] \/ Updated(r) \in notices
    /\ Here(p, r, {"storeEvent"}) => event[r] = booking[r].start \/ Updated(r) \in notices
    /\ Here(p, r, {"patched"}) /\ r \in attached => Followed(r)
    /\ r \in attached =>
         Followed(r) \/ booking[r].reinvite \/ Here(p, r, {"patchTimes", "patchFailed"})

OneInv(p, r) ==
  ToldInv(p, r) /\ ReadInv(p, r) /\ EventInv(p, r) /\ GoneInv(p, r) /\ TimesInv(p, r)

\* Nothing about row x changes.
Same(x) ==
  /\ booking'[x] = booking[x] /\ event'[x] = event[x] /\ job' = job
  /\ x \in attached' <=> x \in attached
  /\ Updated(x) \in notices' <=> Updated(x) \in notices
  /\ Deleted(x) \in notices' <=> Deleted(x) \in notices
  /\ x \in told' <=> x \in told
  /\ x \in failed' <=> x \in failed
  /\ x \in missed' <=> x \in missed
  /\ x \in unposted' <=> x \in unposted

LEMMA SameOne ==
  ASSUME NEW p \in Proc, NEW x \in Row, OneInv(p, x), Same(x), req'[p] = req[p]
  PROVE  OneInv(p, x)'
  BY DEF Same, OneInv, ToldInv, ReadInv, EventInv, GoneInv, TimesInv, Here, Mailing, InCalendar,
     Followed

\* A request at another row before and after, or at none, changes as little.
LEMMA ElsewhereOne ==
  ASSUME NEW p \in Proc, NEW x \in Row, OneInv(p, x), Same(x),
         req[p].pc = "idle" \/ req[p].row # x, req'[p].row # x
  PROVE  OneInv(p, x)'
<1>1. \A S \in {Mailing, {"mailSent"}, {"cancelWrite", "moveWrite"}, {"createEvent", "storeEvent"},
               {"postConfirm"}, {"createEvent"}, {"storeEvent"}, {"deleteEvent"}, {"patched"},
               {"patchTimes", "patchFailed"}} : ~Here(p, x, S) /\ ~Here(p, x, S)'
  BY DEF Here, Mailing
<1> QED
  BY <1>1 DEF Same, OneInv, ToldInv, ReadInv, EventInv, GoneInv, TimesInv, InCalendar, Followed

LEMMA ConfirmTxOne ==
  ASSUME TInv, NEW p \in Proc, NEW x \in Row, OneInv(p, x), ConfirmTx(p)
  PROVE  OneInv(p, x)'
  BY ConstantsOK, ConfirmTxDoes
     DEF OneInv, ToldInv, ReadInv, EventInv, GoneInv, TimesInv, Here, Mailing, InCalendar,
         Followed, ConfirmTx, Goes, IsIdle, Others

LEMMA PostConfirmOne ==
  ASSUME TInv, NEW p \in Proc, NEW x \in Row, OneInv(p, x), PostConfirm(p)
  PROVE  OneInv(p, x)'
<1>0. /\ req[p].pc = "postConfirm" /\ req'[p].row = req[p].row
      /\ req'[p].at = booking[req[p].row].start
      /\ req[p].row \in attached => req'[p].pc = "sendMail"
      /\ req[p].row \notin attached => req'[p].pc = "createEvent"
      /\ UNCHANGED <<booking, attached, event, notices, job, told, faults>>
  BY PostConfirmDoes DEF PostConfirm
<1> QED
  BY <1>0, ConstantsOK
     DEF OneInv, ToldInv, ReadInv, EventInv, GoneInv, TimesInv, Here, Mailing, InCalendar,
         Followed, Goes

LEMMA CreateEventOne ==
  ASSUME TInv, NEW p \in Proc, NEW x \in Row, OneInv(p, x), CreateEvent(p)
  PROVE  OneInv(p, x)'
  BY ConstantsOK, CreateEventDoes
     DEF OneInv, ToldInv, ReadInv, EventInv, GoneInv, TimesInv, Here, Mailing, InCalendar,
         Followed, CreateEvent, Goes, EventBecomes

LEMMA StoreEventOne ==
  ASSUME TInv, NEW p \in Proc, NEW x \in Row, OneInv(p, x), StoreEvent(p)
  PROVE  OneInv(p, x)'
  BY ConstantsOK, StoreEventDoes
     DEF OneInv, ToldInv, ReadInv, EventInv, GoneInv, TimesInv, Here, Mailing, InCalendar,
         Followed, StoreEvent, Goes

LEMMA SendMailOne ==
  ASSUME TInv, NEW p \in Proc, NEW x \in Row, OneInv(p, x), SendMail(p)
  PROVE  OneInv(p, x)'
  BY ConstantsOK, SendMailDoes
     DEF OneInv, ToldInv, ReadInv, EventInv, GoneInv, TimesInv, Here, Mailing, InCalendar,
         Followed, SendMail, Goes

LEMMA FlagMailOne ==
  ASSUME TInv, NEW p \in Proc, NEW x \in Row, OneInv(p, x), FlagMail(p)
  PROVE  OneInv(p, x)'
<1>0. /\ req[p].pc \in {"mailSent", "mailFailed"} /\ IsIdle(p) /\ Others(req[p].row)
      /\ booking'[req[p].row].status = booking[req[p].row].status
      /\ booking'[req[p].row].start = booking[req[p].row].start
      /\ booking'[req[p].row].reinvite = booking[req[p].row].reinvite
      /\ booking'[req[p].row].notify <=> req[p].pc = "mailFailed"
      /\ UNCHANGED <<attached, event, notices, job, told, faults>>
  BY FlagMailDoes DEF FlagMail
<1> QED
  BY <1>0, ConstantsOK
     DEF OneInv, ToldInv, ReadInv, EventInv, GoneInv, TimesInv, Here, Mailing, InCalendar,
         Followed, IsIdle, Others

LEMMA CancelWriteOne ==
  ASSUME TInv, NEW p \in Proc, NEW x \in Row, OneInv(p, x), CancelWrite(p)
  PROVE  OneInv(p, x)'
<1>0. /\ req[p].pc = "cancelWrite" /\ Others(req[p].row)
      /\ booking'[req[p].row].status = "canceled"
      /\ booking'[req[p].row].start = booking[req[p].row].start
      /\ booking'[req[p].row].reinvite = booking[req[p].row].reinvite
      /\ booking'[req[p].row].notify = booking[req[p].row].notify
      /\ req[p].linked => Goes(p, "deleteEvent")
      /\ ~req[p].linked => IsIdle(p)
      /\ UNCHANGED <<attached, event, notices, job, told, faults>>
  BY CancelWriteDoes DEF CancelWrite
<1> QED
  BY <1>0, ConstantsOK
     DEF OneInv, ToldInv, ReadInv, EventInv, GoneInv, TimesInv, Here, Mailing, InCalendar,
         Followed, Goes, IsIdle, Others

LEMMA DeleteEventOne ==
  ASSUME TInv, NEW p \in Proc, NEW x \in Row, OneInv(p, x), DeleteEvent(p)
  PROVE  OneInv(p, x)'
  BY ConstantsOK, DeleteEventDoes
     DEF OneInv, ToldInv, ReadInv, EventInv, GoneInv, TimesInv, Here, Mailing, InCalendar,
         Followed, DeleteEvent, IsIdle, EventBecomes, ReportsDelete

LEMMA MoveWriteOne ==
  ASSUME TInv, NEW p \in Proc, NEW x \in Row, OneInv(p, x), MoveWrite(p)
  PROVE  OneInv(p, x)'
  BY ConstantsOK, MoveWriteDoes
     DEF OneInv, ToldInv, ReadInv, EventInv, GoneInv, TimesInv, Here, Mailing, InCalendar,
         Followed, MoveWrite, Goes, IsIdle, Others

LEMMA PatchTimesOne ==
  ASSUME TInv, NEW p \in Proc, NEW x \in Row, OneInv(p, x), PatchTimes(p)
  PROVE  OneInv(p, x)'
  BY ConstantsOK, PatchTimesDoes
     DEF OneInv, ToldInv, ReadInv, EventInv, GoneInv, TimesInv, Here, Mailing, InCalendar,
         Followed, PatchTimes, Goes, EventBecomes, ReportsUpdate

LEMMA PatchBodyOne ==
  ASSUME TInv, NEW p \in Proc, NEW x \in Row, OneInv(p, x), PatchBody(p)
  PROVE  OneInv(p, x)'
  BY ConstantsOK, PatchBodyDoes
     DEF OneInv, ToldInv, ReadInv, EventInv, GoneInv, TimesInv, Here, Mailing, InCalendar,
         Followed, PatchBody, Goes, ReportsUpdate

LEMMA FlagPatchOne ==
  ASSUME TInv, NEW p \in Proc, NEW x \in Row, OneInv(p, x), FlagPatch(p)
  PROVE  OneInv(p, x)'
<1>0. /\ req[p].pc \in {"patched", "patchFailed"} /\ IsIdle(p) /\ Others(req[p].row)
      /\ booking'[req[p].row].status = booking[req[p].row].status
      /\ booking'[req[p].row].start = booking[req[p].row].start
      /\ booking'[req[p].row].reinvite <=> req[p].pc = "patchFailed"
      /\ booking'[req[p].row].notify = booking[req[p].row].notify
      /\ UNCHANGED <<attached, event, notices, job, told, faults>>
  BY FlagPatchDoes DEF FlagPatch
<1> QED
  BY <1>0, ConstantsOK
     DEF OneInv, ToldInv, ReadInv, EventInv, GoneInv, TimesInv, Here, Mailing, InCalendar,
         Followed, IsIdle, Others

LEMMA MailLostOne ==
  ASSUME TInv, NEW p \in Proc, NEW x \in Row, OneInv(p, x), MailLost(p)
  PROVE  OneInv(p, x)'
<1>0. /\ req[p].pc \in {"postConfirm", "sendMail", "mailSent", "mailFailed"}
      /\ IsIdle(p) /\ unposted' = unposted \cup {req[p].row}
      /\ UNCHANGED <<booking, attached, event, notices, job, told, failed, missed>>
  BY MailLostDoes DEF MailLost
<1> QED
  BY <1>0, ConstantsOK
     DEF OneInv, ToldInv, ReadInv, EventInv, GoneInv, TimesInv, Here, Mailing, InCalendar,
         Followed, IsIdle

\* A request that stops short has that recorded of its row.
LEMMA StopShortOne ==
  ASSUME TInv, NEW p \in Proc, NEW x \in Row, OneInv(p, x), StopShort(p), x \notin halted'
  PROVE  OneInv(p, x)'
<1>1. /\ req[p].row # x /\ req'[p].row # x
      /\ UNCHANGED <<booking, attached, event, notices, job, told, failed, missed, unposted>>
  BY StopShortDoes, ConstantsOK DEF StopShort, IsIdle
<1> QED
  BY <1>1, ElsewhereOne DEF Same

LEMMA ConfirmOne ==
  ASSUME TInv, NEW p \in Proc, NEW r \in Row, NEW x \in Row, OneInv(p, x), Confirm(p, r)
  PROVE  OneInv(p, x)'
  BY ConstantsOK, BecomeDoes
     DEF OneInv, ToldInv, ReadInv, EventInv, GoneInv, TimesInv, Here, Mailing, InCalendar,
         Followed, Confirm, Begin, Pcs, Timed, SameTables

LEMMA ResendOne ==
  ASSUME TInv, NEW p \in Proc, NEW r \in Row, NEW x \in Row, OneInv(p, x), Resend(p, r)
  PROVE  OneInv(p, x)'
  BY ConstantsOK, BecomeDoes
     DEF OneInv, ToldInv, ReadInv, EventInv, GoneInv, TimesInv, Here, Mailing, InCalendar,
         Followed, Resend, Begin, Pcs, Timed, SameTables

LEMMA ReinviteOne ==
  ASSUME TInv, NEW p \in Proc, NEW r \in Row, NEW x \in Row, OneInv(p, x), Reinvite(p, r)
  PROVE  OneInv(p, x)'
  BY ConstantsOK, BecomeDoes
     DEF OneInv, ToldInv, ReadInv, EventInv, GoneInv, TimesInv, Here, Mailing, InCalendar,
         Followed, Reinvite, Begin, Pcs, Timed, SameTables

LEMMA CancelOne ==
  ASSUME TInv, NEW p \in Proc, NEW r \in Row, NEW x \in Row, OneInv(p, x), Cancel(p, r)
  PROVE  OneInv(p, x)'
<1>0. /\ req[p].pc = "idle" /\ req'[p].pc = "cancelWrite" /\ req'[p].row = r
      /\ req'[p].linked <=> r \in attached
      /\ UNCHANGED <<booking, attached, event, notices, job, told, faults>>
  BY CancelDoes DEF Cancel, Begin
<1>1. CASE x # r
  BY <1>0, <1>1, ElsewhereOne DEF Same
<1>2. CASE x = r
  BY <1>0, <1>2
     DEF OneInv, ToldInv, ReadInv, EventInv, GoneInv, TimesInv, Here, Mailing, InCalendar, Followed
<1> QED
  BY <1>1, <1>2

LEMMA RebookOne ==
  ASSUME TInv, NEW p \in Proc, NEW r \in Row, NEW x \in Row, OneInv(p, x), Rebook(p, r)
  PROVE  OneInv(p, x)'
  BY ConstantsOK, RebookDoes
     DEF OneInv, ToldInv, ReadInv, EventInv, GoneInv, TimesInv, Here, Mailing, InCalendar,
         Followed, Rebook, Begin, Others

LEMMA RescheduleOne ==
  ASSUME TInv, NEW p \in Proc, NEW r \in Row, NEW s \in Slot, NEW x \in Row,
         OneInv(p, x), Reschedule(p, r, s)
  PROVE  OneInv(p, x)'
<1>0. /\ req[p].pc = "idle" /\ req'[p].pc \in {"moveWrite", "patchTimes"} /\ req'[p].row = r
      /\ req'[p].linked <=> r \in attached
      /\ UNCHANGED <<booking, attached, event, notices, job, told, faults>>
  BY RescheduleDoes DEF Reschedule, Begin
<1>1. CASE x # r
  BY <1>0, <1>1, ElsewhereOne DEF Same
<1>2. CASE x = r
  BY <1>0, <1>2
     DEF OneInv, ToldInv, ReadInv, EventInv, GoneInv, TimesInv, Here, Mailing, InCalendar, Followed
<1> QED
  BY <1>1, <1>2

LEMMA SalesMoveOne ==
  ASSUME TInv, NEW p \in Proc, NEW r \in Row, NEW s \in Slot, NEW x \in Row,
         OneInv(p, x), SalesMove(r, s)
  PROVE  OneInv(p, x)'
<1>0. /\ EventBecomes(r, s) /\ ReportsUpdate(r)
      /\ UNCHANGED <<booking, attached, req, job, told, faults>>
  BY SalesMoveDoes DEF SalesMove
<1>1. CASE x # r
  BY <1>0, <1>1, SameOne DEF Same, EventBecomes, ReportsUpdate
<1>2. CASE x = r
  <2>1. event'[x] = s /\ s \in Slot /\ InCalendar(x) /\ Updated(x) \in notices'
        /\ (Deleted(x) \in notices' <=> Deleted(x) \in notices)
    BY <1>0, <1>2 DEF EventBecomes, ReportsUpdate, SalesMove
  <2>2. ToldInv(p, x)' /\ ReadInv(p, x)'
    BY <1>0 DEF OneInv, ToldInv, ReadInv, Here
  <2>3. EventInv(p, x)' /\ GoneInv(p, x)'
    BY <1>0, <2>1, ConstantsOK DEF OneInv, EventInv, GoneInv, Here, InCalendar
  <2>4. TimesInv(p, x)'
    BY <1>0, <2>1 DEF TimesInv, Here, Followed
  <2> QED
    BY <2>2, <2>3, <2>4 DEF OneInv
<1> QED
  BY <1>1, <1>2

LEMMA SalesDeleteOne ==
  ASSUME TInv, NEW p \in Proc, NEW r \in Row, NEW x \in Row, OneInv(p, x), SalesDelete(r)
  PROVE  OneInv(p, x)'
<1>0. /\ EventBecomes(r, "deleted") /\ ReportsDelete(r)
      /\ UNCHANGED <<booking, attached, req, job, told, faults>>
  BY SalesDeleteDoes DEF SalesDelete
<1>1. CASE x # r
  BY <1>0, <1>1, SameOne DEF Same, EventBecomes, ReportsDelete
<1>2. CASE x = r
  <2>1. event'[x] = "deleted" /\ InCalendar(x) /\ ~InCalendar(x)'
    BY <1>0, <1>2, ConstantsOK DEF EventBecomes, InCalendar, SalesDelete
  <2>2. ToldInv(p, x)' /\ ReadInv(p, x)'
    BY <1>0 DEF OneInv, ToldInv, ReadInv, Here
  <2>3. EventInv(p, x)' /\ GoneInv(p, x)'
    BY <1>0, <2>1, ConstantsOK DEF OneInv, EventInv, GoneInv, Here, InCalendar
  <2>4. TimesInv(p, x)'
    BY <1>0, <2>1 DEF TimesInv, Here, Followed
  <2> QED
    BY <2>2, <2>3, <2>4 DEF OneInv
<1> QED
  BY <1>1, <1>2

LEMMA HandleUnknownOne ==
  ASSUME TInv, NEW p \in Proc, NEW n \in notices, NEW x \in Row, OneInv(p, x), HandleUnknown(n)
  PROVE  OneInv(p, x)'
  BY ConstantsOK, NoticeRow, HandledNotice
     DEF OneInv, ToldInv, ReadInv, EventInv, GoneInv, TimesInv, Here, Mailing, InCalendar,
         Followed, HandleUnknown, Handles

LEMMA HandleDeletedOne ==
  ASSUME TInv, NEW p \in Proc, NEW n \in notices, NEW x \in Row, OneInv(p, x), HandleDeleted(n)
  PROVE  OneInv(p, x)'
<1>0. /\ job = NoJob /\ n.row \in attached /\ n.row \in Row /\ Deleted(n.row) \in notices
      /\ Updated(x) \in notices' <=> Updated(x) \in notices
      /\ Deleted(x) \in notices' => Deleted(x) \in notices
      /\ Others(n.row)
      /\ booking'[n.row].status = "canceled" /\ booking'[n.row].start = booking[n.row].start
      /\ booking'[n.row].reinvite = booking[n.row].reinvite
      /\ UNCHANGED <<attached, event, req, job, told, faults>>
  <2>1. /\ n.row \in Row /\ Others(n.row)
        /\ booking'[n.row].status = "canceled" /\ booking'[n.row].start = booking[n.row].start
        /\ booking'[n.row].reinvite = booking[n.row].reinvite
    BY HandleDeletedDoes
  <2>2. /\ job = NoJob /\ n.row \in attached /\ n.change = "deleted"
        /\ UNCHANGED <<attached, event, req, job, told, faults>>
    BY DEF HandleDeleted
  <2>3. n = Deleted(n.row)
    BY <2>2, NoticeRow DEF Notice, Deleted
  <2>4. n # Updated(x)
    BY <2>2 DEF Updated
  <2>5. Updated(x) \in notices' <=> Updated(x) \in notices
    BY <2>4 DEF HandleDeleted
  <2>6. Deleted(x) \in notices' => Deleted(x) \in notices
    BY DEF HandleDeleted
  <2>7. Deleted(n.row) \in notices
    BY <2>3
  <2> QED
    BY <2>1, <2>2, <2>5, <2>6, <2>7
<1>1. /\ booking'[x].start = booking[x].start /\ booking'[x].reinvite = booking[x].reinvite
      /\ x = n.row => booking'[x].status = "canceled"
      /\ x # n.row => booking'[x] = booking[x]
  BY <1>0 DEF Others
<1>2. ToldInv(p, x)'
  BY <1>0, <1>1 DEF OneInv, ToldInv, Here
<1>3. ReadInv(p, x)'
  BY <1>0, <1>1 DEF OneInv, ReadInv, Here
<1>4. EventInv(p, x)' /\ TimesInv(p, x)'
  BY <1>0, <1>1 DEF OneInv, EventInv, TimesInv, Here, InCalendar, Followed
<1>5. GoneInv(p, x)'
  BY <1>0, <1>1, ConstantsOK DEF OneInv, GoneInv, EventInv, Here, InCalendar
<1> QED
  BY <1>2, <1>3, <1>4, <1>5 DEF OneInv

LEMMA HandleUpdatedOne ==
  ASSUME TInv, NEW p \in Proc, NEW n \in notices, NEW x \in Row, OneInv(p, x), HandleUpdated(n)
  PROVE  OneInv(p, x)'
  BY ConstantsOK, NoticeRow, NoJobType, HandledNotice, HandleUpdatedDoes
     DEF OneInv, ToldInv, ReadInv, EventInv, GoneInv, TimesInv, Here, Mailing, InCalendar,
         Followed, HandleUpdated, Handles

LEMMA GiveUpOne ==
  ASSUME TInv, NEW p \in Proc, NEW n \in notices, NEW x \in Row, OneInv(p, x), GiveUp(n)
  PROVE  OneInv(p, x)'
  BY ConstantsOK, NoticeRow, HandledNotice
     DEF OneInv, ToldInv, ReadInv, EventInv, GoneInv, TimesInv, Here, Mailing, InCalendar,
         Followed, GiveUp, Handles

LEMMA FollowOne ==
  ASSUME TInv, NEW p \in Proc, NEW x \in Row, OneInv(p, x), FollowCalendar
  PROVE  OneInv(p, x)'
<1>0. /\ job.row \in Row /\ Others(job.row) /\ job'.row = None
      /\ booking'[job.row].status = booking[job.row].status
      /\ booking'[job.row].start = job.start /\ booking'[job.row].reinvite
      /\ booking'[job.row].notify = booking[job.row].notify
      /\ Updated(x) \in notices => Updated(x) \in notices'
      /\ Deleted(x) \in notices' <=> Deleted(x) \in notices
      /\ UNCHANGED <<attached, event, req, told, faults>>
  BY FollowDoes DEF FollowCalendar, ReportsUpdate
<1>1. /\ job'.row # x
      /\ booking'[x].status = booking[x].status /\ booking'[x].notify = booking[x].notify
      /\ x # job.row => booking'[x] = booking[x]
  BY <1>0, ConstantsOK DEF Others
<1>2. ToldInv(p, x)' /\ EventInv(p, x)' /\ GoneInv(p, x)'
  BY <1>0, <1>1 DEF OneInv, ToldInv, EventInv, GoneInv, Here, InCalendar
<1>3. ReadInv(p, x)'
  <2>1. CASE x # job.row
    BY <1>0, <1>1, <2>1 DEF OneInv, ReadInv, Here
  <2>2. CASE x = job.row
    BY <1>0, <1>1, <2>2 DEF OneInv, ReadInv, Here
  <2> QED
    BY <2>1, <2>2
<1>4. TimesInv(p, x)'
  <2>1. CASE x # job.row
    BY <1>0, <1>1, <2>1 DEF OneInv, TimesInv, Here, InCalendar, Followed
  <2>2. CASE x = job.row
    BY <1>0, <1>1, <2>2 DEF OneInv, ReadInv, TimesInv, Here, InCalendar, Followed
  <2> QED
    BY <2>1, <2>2
<1> QED
  BY <1>2, <1>3, <1>4 DEF OneInv

LEMMA JobStopsOne ==
  ASSUME TInv, NEW p \in Proc, NEW x \in Row, OneInv(p, x), JobStops
  PROVE  OneInv(p, x)'
<1>0. /\ job.row \in Row /\ job'.row # x
      /\ Updated(x) \in notices => Updated(x) \in notices'
      /\ Deleted(x) \in notices' <=> Deleted(x) \in notices
      /\ missed \subseteq missed'
      /\ job.row = x => Updated(x) \in notices' \/ x \in missed'
      /\ UNCHANGED <<booking, attached, event, req, told, failed, halted, unposted>>
  BY JobStopsDoes, ConstantsOK DEF JobStops, ReportsUpdate
<1>1. ToldInv(p, x)' /\ ReadInv(p, x)' /\ EventInv(p, x)' /\ GoneInv(p, x)'
  BY <1>0 DEF OneInv, ToldInv, ReadInv, EventInv, GoneInv, Here, InCalendar
<1>2. TimesInv(p, x)'
  BY <1>0 DEF OneInv, TimesInv, Here, InCalendar, Followed
<1> QED
  BY <1>1, <1>2 DEF OneInv

LEMMA OneInit == Init /\ TInv => \A p \in Proc, x \in Row : OneInv(p, x)
<1> SUFFICES ASSUME Init, TInv, NEW p \in Proc, NEW x \in Row PROVE OneInv(p, x)
  OBVIOUS
<1>1. /\ req[p].pc = "idle" /\ booking[x].status = "open" /\ event[x] = None
      /\ job.row = None /\ notices = {} /\ attached = {}
  BY IdleType, NoJobType DEF Init
<1> QED
  BY <1>1, ConstantsOK
     DEF OneInv, ToldInv, ReadInv, EventInv, GoneInv, TimesInv, Here, Mailing, InCalendar

LEMMA ContinueOne ==
  ASSUME TInv, NEW p \in Proc, NEW x \in Row, OneInv(p, x), Continue(p), x \notin halted'
  PROVE  OneInv(p, x)'
  BY ConfirmTxOne, PostConfirmOne, CreateEventOne, StoreEventOne, SendMailOne, FlagMailOne,
     CancelWriteOne, DeleteEventOne, MoveWriteOne, PatchTimesOne, PatchBodyOne, FlagPatchOne,
     MailLostOne, StopShortOne DEF Continue

LEMMA StartOne ==
  ASSUME TInv, NEW p \in Proc, NEW r \in Row, NEW x \in Row, OneInv(p, x), Start(p, r)
  PROVE  OneInv(p, x)'
  BY ConfirmOne, ResendOne, CancelOne, ReinviteOne, RebookOne, RescheduleOne DEF Start

-----------------------------------------------------------------------------
(* Any number of requests at once, also at one booking.                    *)

Free(p, r) == \A q \in Proc \ {p} : req[q].row # r
RowsInv ==
  /\ \A p \in Proc : req[p].pc = "idle" => req[p].row = None
  /\ \A p \in Proc, r \in Row : r \notin raced \cup halted /\ Free(p, r) => OneInv(p, r)

LEMMA OthersStay ==
  ASSUME TInv, NEW p \in Proc, Continue(p) \/ \E r \in Row : Start(p, r)
  PROVE  \A q \in Proc \ {p} : req'[q] = req[q]
<1> USE DEF TInv, ReqOK, Goto, Done, Become
<1>1. CASE Continue(p)
  BY <1>1 DEF Continue, ConfirmTx, PostConfirm, CreateEvent, StoreEvent, SendMail, FlagMail,
     CancelWrite, DeleteEvent, TryDelete, MoveWrite, PatchTimes, PatchBody, FlagPatch,
     MailLost, StopShort
<1>2. CASE \E r \in Row : Start(p, r)
  BY <1>2 DEF Start, Confirm, Resend, Cancel, Reinvite, Rebook, Reschedule
<1> QED
  BY <1>1, <1>2

\* A request goes on at its row, or is done and at none.
LEMMA Stays ==
  ASSUME TInv, NEW p \in Proc, Continue(p)
  PROVE  /\ req[p].row \in Row /\ req[p].pc # "idle" /\ req'[p] # req[p]
         /\ req'[p].row = req[p].row \/ req'[p].row = None
         /\ req'[p].pc = "idle" => req'[p].row = None
<1>1. req[p].row \in Row /\ req[p].pc # "idle"
  BY RowOf DEF Continue, ConfirmTx, PostConfirm, CreateEvent, StoreEvent, SendMail, FlagMail,
     CancelWrite, DeleteEvent, MoveWrite, PatchTimes, PatchBody, FlagPatch, MailLost, StopShort,
     Begin
<1>2. CASE PostConfirm(p)
  BY <1>1, <1>2, PostConfirmDoes DEF PostConfirm
<1>3. /\ req'[p].row = req[p].row \/ req'[p].row = None
      /\ req'[p].pc = "idle" => req'[p].row = None
  BY <1>1, <1>2, ConfirmTxDoes, CreateEventDoes, StoreEventDoes, SendMailDoes, FlagMailDoes,
     CancelWriteDoes, DeleteEventDoes, MoveWriteDoes, PatchTimesDoes, PatchBodyDoes, FlagPatchDoes,
     MailLostDoes, StopShortDoes DEF Continue, Goes, IsIdle
<1>4. ~PostConfirm(p) => req'[p].pc # req[p].pc
  <2>1. ConfirmTx(p) \/ CreateEvent(p) \/ StoreEvent(p) \/ SendMail(p) \/ FlagMail(p)
          => req'[p].pc # req[p].pc
    BY <1>1, ConfirmTxDoes, CreateEventDoes, StoreEventDoes, SendMailDoes, FlagMailDoes
       DEF Goes, IsIdle, ConfirmTx, CreateEvent, StoreEvent, SendMail, FlagMail
  <2>2. CancelWrite(p) \/ DeleteEvent(p) \/ MoveWrite(p) => req'[p].pc # req[p].pc
    BY <1>1, CancelWriteDoes, DeleteEventDoes, MoveWriteDoes
       DEF Goes, IsIdle, CancelWrite, DeleteEvent, MoveWrite
  <2>3. PatchTimes(p) \/ PatchBody(p) \/ FlagPatch(p) => req'[p].pc # req[p].pc
    BY <1>1, PatchTimesDoes, PatchBodyDoes, FlagPatchDoes
       DEF Goes, IsIdle, PatchTimes, PatchBody, FlagPatch
  <2>4. MailLost(p) \/ StopShort(p) => req'[p].pc # req[p].pc
    BY <1>1, MailLostDoes, StopShortDoes DEF Goes, IsIdle
  <2> QED
    BY <2>1, <2>2, <2>3, <2>4 DEF Continue
<1>5. PostConfirm(p) => req'[p].pc # req[p].pc
  BY PostConfirmDoes DEF PostConfirm
<1> QED
  BY <1>1, <1>3, <1>4, <1>5

LEMMA StartAt ==
  ASSUME TInv, NEW p \in Proc, NEW r \in Row, Start(p, r)
  PROVE  /\ req[p].pc = "idle"
         /\ \/ req'[p].row = r /\ req'[p].pc # "idle"
            \/ req'[p] = req[p] /\ booking[r].status = "canceled" /\ booking'[r].status = "open"
<1>1. CASE Confirm(p, r)
  BY <1>1, BecomeDoes DEF Confirm, Begin, Pcs, Timed, SameTables
<1>2. CASE Resend(p, r)
  BY <1>2, BecomeDoes DEF Resend, Begin, Pcs, Timed, SameTables
<1>3. CASE Reinvite(p, r)
  BY <1>3, BecomeDoes DEF Reinvite, Begin, Pcs, Timed, SameTables
<1>4. CASE Cancel(p, r)
  BY <1>4, CancelDoes DEF Cancel, Begin
<1>5. CASE Rebook(p, r)
  BY <1>5, RebookDoes DEF Rebook, Begin
<1>6. CASE \E s \in Slot : Reschedule(p, r, s)
  BY <1>6, RescheduleDoes DEF Reschedule, Begin
<1> QED
  BY <1>1, <1>2, <1>3, <1>4, <1>5, <1>6 DEF Start

\* A request changes nothing about the bookings it is not about.
LEMMA ContinueElsewhere ==
  ASSUME TInv, NEW p \in Proc, Continue(p), NEW x \in Row, req[p].row # x
  PROVE  Same(x)
<1>1. CASE ConfirmTx(p)
  <2>1. booking'[x] = booking[x]
    BY <1>1, ConfirmTxDoes DEF Others
  <2> QED
    BY <1>1, <2>1 DEF ConfirmTx, Same
<1>2. CASE PostConfirm(p)
  BY <1>2 DEF PostConfirm, Same
<1>3. CASE CreateEvent(p)
  BY <1>3, CreateEventDoes DEF CreateEvent, EventBecomes, Same
<1>4. CASE StoreEvent(p)
  BY <1>4 DEF StoreEvent, Same
<1>5. CASE SendMail(p)
  BY <1>5 DEF SendMail, Same
<1>6. CASE FlagMail(p)
  <2>1. booking'[x] = booking[x]
    BY <1>6, FlagMailDoes DEF Others
  <2> QED
    BY <1>6, <2>1 DEF FlagMail, Same
<1>7. CASE CancelWrite(p)
  <2>1. booking'[x] = booking[x]
    BY <1>7, CancelWriteDoes DEF Others
  <2> QED
    BY <1>7, <2>1 DEF CancelWrite, Same
<1>8. CASE DeleteEvent(p)
  <2>1. /\ event'[x] = event[x]
        /\ Updated(x) \in notices' <=> Updated(x) \in notices
        /\ Deleted(x) \in notices' <=> Deleted(x) \in notices
    BY <1>8, DeleteEventDoes DEF EventBecomes, ReportsDelete
  <2> QED
    BY <1>8, <2>1 DEF DeleteEvent, TryDelete, Same
<1>9. CASE MoveWrite(p)
  <2>1. booking'[x] = booking[x]
    BY <1>9, MoveWriteDoes DEF Others
  <2> QED
    BY <1>9, <2>1 DEF MoveWrite, Same
<1>10. CASE PatchTimes(p)
  <2>1. /\ event'[x] = event[x]
        /\ Updated(x) \in notices' <=> Updated(x) \in notices
        /\ Deleted(x) \in notices' <=> Deleted(x) \in notices
    BY <1>10, PatchTimesDoes DEF EventBecomes, ReportsUpdate
  <2> QED
    BY <1>10, <2>1 DEF PatchTimes, Same
<1>11. CASE PatchBody(p)
  BY <1>11, PatchBodyDoes DEF PatchBody, ReportsUpdate, Same
<1>12. CASE FlagPatch(p)
  <2>1. booking'[x] = booking[x]
    BY <1>12, FlagPatchDoes DEF Others
  <2> QED
    BY <1>12, <2>1 DEF FlagPatch, Same
<1>13. CASE MailLost(p)
  BY <1>13 DEF MailLost, Same
<1>14. CASE StopShort(p)
  BY <1>14 DEF StopShort, Same
<1> QED
  BY <1>1, <1>2, <1>3, <1>4, <1>5, <1>6, <1>7, <1>8, <1>9, <1>10, <1>11, <1>12, <1>13, <1>14
     DEF Continue

LEMMA StartElsewhere ==
  ASSUME TInv, NEW p \in Proc, NEW r \in Row, Start(p, r), NEW x \in Row, r # x
  PROVE  Same(x)
<1>1. CASE Rebook(p, r)
  BY <1>1, RebookDoes DEF Rebook, Others, Same
<1> QED
  BY <1>1 DEF Start, Confirm, Resend, Cancel, Reinvite, Reschedule, Same

\* Of a row where neither is, the same holds for both.
LEMMA NotHere ==
  ASSUME NEW p \in Proc, NEW q \in Proc, NEW x \in Row,
         OneInv(q, x)', req'[p].row # x, req'[q].row # x
  PROVE  OneInv(p, x)'
  BY DEF OneInv, ToldInv, ReadInv, EventInv, GoneInv, TimesInv, Here, Mailing, InCalendar,
     Followed

\* The histories only grow.
LEMMA HaltedGrows == ASSUME Next PROVE halted \subseteq halted'
<1>1. ASSUME NEW p \in Proc, Continue(p) PROVE halted \subseteq halted'
  BY <1>1 DEF Continue, ConfirmTx, PostConfirm, CreateEvent, StoreEvent, SendMail, FlagMail,
     CancelWrite, DeleteEvent, MoveWrite, PatchTimes, PatchBody, FlagPatch, MailLost, StopShort
<1>2. ASSUME NEW p \in Proc, NEW r \in Row, Start(p, r) PROVE halted \subseteq halted'
  BY <1>2 DEF Start, Confirm, Resend, Cancel, Reinvite, Rebook, Reschedule
<1>3. ASSUME NEW r \in Row, SalesDelete(r) \/ \E s \in Slot : SalesMove(r, s)
      PROVE  halted \subseteq halted'
  BY <1>3 DEF SalesDelete, SalesMove
<1>4. ASSUME NEW n \in notices, HandleUnknown(n) \/ HandleDeleted(n) \/ HandleUpdated(n) \/ GiveUp(n)
      PROVE  halted \subseteq halted'
  BY <1>4 DEF HandleUnknown, HandleDeleted, HandleUpdated, GiveUp
<1> QED
  BY <1>1, <1>2, <1>3, <1>4 DEF Next, FollowCalendar, JobStops

\* Whoever steps at a booking while another request is at it has that recorded of it.
LEMMA AloneOrRaced ==
  ASSUME TInv, NEW q \in Proc, NEW y \in Row, (Continue(q) /\ req[q].row = y) \/ Start(q, y),
         ~Raced(y)
  PROVE  Free(q, y)
<1> SUFFICES ASSUME NEW o \in Proc \ {q}, req[o].row = y PROVE FALSE
  BY DEF Free
<1>1. req'[o] = req[o] /\ o # q
  BY OthersStay
<1>2. CASE Continue(q) /\ req[q].row = y
  <2>1. req'[q] # req[q]
    BY <1>2, Stays
  <2> QED
    BY <1>1, <1>2, <2>1 DEF Raced
<1>3. CASE Start(q, y)
  <2>1. CASE req'[q].row = y /\ req'[q].pc # "idle"
    <3>1. req'[q] # req[q]
      BY <1>3, <2>1, StartAt
    <3> QED
      BY <1>1, <2>1, <3>1 DEF Raced
  <2>2. CASE booking[y].status = "canceled" /\ booking'[y].status = "open"
    BY <1>1, <2>2 DEF Raced
  <2> QED
    BY <1>3, <2>1, <2>2, StartAt
<1> QED
  BY <1>2, <1>3

\* A step of request q at row y: what holds of x goes on to hold for whoever is free to be there.
LEMMA RequestRows ==
  ASSUME TInv, RowsInv, RNext, NEW q \in Proc, NEW y \in Row,
         (Continue(q) /\ req[q].row = y) \/ Start(q, y)
  PROVE  RowsInv'
<1>1. \A p \in Proc \ {q} : req'[p] = req[p]
  BY OthersStay
<1>2. /\ req[q].row = y \/ req[q].row = None
      /\ req'[q].row = y \/ req'[q].row = None
      /\ req'[q].pc = "idle" => req'[q].row = None
  BY Stays, StartAt DEF RowsInv
<1>3. None \notin Row
  BY ConstantsOK
<1>4. ASSUME NEW p \in Proc, NEW x \in Row, x \notin raced' \cup halted', Free(p, x)'
      PROVE  OneInv(p, x)'
  <2>0. x \notin raced \cup halted /\ x \notin halted' /\ ~Raced(x)
    BY <1>4, HaltedGrows DEF RNext
  <2>1. CASE x = y
    <3>1. OneInv(q, x)'
      <4>1. Free(q, x)
        BY <2>0, <2>1, AloneOrRaced
      <4>2. OneInv(q, x)
        BY <2>0, <4>1 DEF RowsInv
      <4> QED
        BY <2>0, <4>2, ContinueOne, StartOne
    <3>2. CASE p # q
      <4>1. req'[p].row # x /\ req'[q].row # x
        <5>1. req[p].row # x
          BY <2>0, <2>1, <3>2, AloneOrRaced DEF Free
        <5> QED
          BY <1>1, <1>4, <3>2, <5>1 DEF Free
      <4> QED
        BY <3>1, <4>1, NotHere
    <3> QED
      BY <3>1, <3>2
  <2>2. CASE x # y
    <3>1. req[q].row # x
      BY <1>2, <1>3, <2>2
    <3>2. Free(p, x)
      BY <1>1, <1>4, <3>1 DEF Free
    <3>3. OneInv(p, x)
      BY <2>0, <3>2 DEF RowsInv
    <3>4. CASE p = q
      BY <2>0, <3>3, <3>4, ContinueOne, StartOne
    <3>5. CASE p # q
      BY <1>1, <2>2, <3>1, <3>3, <3>5, ContinueElsewhere, StartElsewhere, SameOne
    <3> QED
      BY <3>4, <3>5
  <2> QED
    BY <2>1, <2>2
<1>5. \A p \in Proc : req'[p].pc = "idle" => req'[p].row = None
  BY <1>1, <1>2 DEF RowsInv
<1> QED
  BY <1>4, <1>5 DEF RowsInv

\* A step of the worker or the salesperson keeps what holds of each row.
LEMMA OtherRows ==
  ASSUME RowsInv, UNCHANGED req, \A p \in Proc, x \in Row : OneInv(p, x) => OneInv(p, x)',
         halted \subseteq halted', raced \subseteq raced'
  PROVE  RowsInv'
  BY DEF RowsInv, Free

LEMMA RowsStep ==
  ASSUME TInv, RowsInv, [RNext]_rvars
  PROVE  RowsInv'
<1>1. CASE UNCHANGED rvars
  BY <1>1, OtherRows DEF rvars, vars, OneInv, ToldInv, ReadInv, EventInv, GoneInv, TimesInv, Here,
     Mailing, InCalendar, Followed
<1>2. CASE RNext
  <2>0. Next /\ halted \subseteq halted' /\ raced \subseteq raced'
    BY <1>2, HaltedGrows DEF RNext
  <2>1. CASE \E q \in Proc : Continue(q) \/ \E r \in Row : Start(q, r)
    BY <1>2, <2>1, RequestRows, Stays
  <2>2. CASE \E r \in Row : SalesDelete(r) \/ \E s \in Slot : SalesMove(r, s)
    <3>1. UNCHANGED req
      BY <2>2 DEF SalesDelete, SalesMove
    <3> QED
      BY <2>0, <2>2, <3>1, OtherRows, SalesMoveOne, SalesDeleteOne
  <2>3. CASE \E n \in notices : HandleUnknown(n) \/ HandleDeleted(n) \/ HandleUpdated(n) \/ GiveUp(n)
    <3>1. UNCHANGED req
      BY <2>3 DEF HandleUnknown, HandleDeleted, HandleUpdated, GiveUp
    <3> QED
      BY <2>0, <2>3, <3>1, OtherRows, HandleUnknownOne, HandleDeletedOne, HandleUpdatedOne, GiveUpOne
  <2>4. CASE FollowCalendar \/ JobStops
    <3>1. UNCHANGED req
      BY <2>4 DEF FollowCalendar, JobStops
    <3> QED
      BY <2>0, <2>4, <3>1, OtherRows, FollowOne, JobStopsOne
  <2> QED
    BY <2>0, <2>1, <2>2, <2>3, <2>4 DEF Next
<1> QED
  BY <1>1, <1>2

LEMMA RowsInvariant == RSpec => [](TInv /\ RowsInv)
<1>1. RInit => TInv /\ RowsInv
  BY TypeInit, OneInit, IdleType DEF RInit, Init, RowsInv
<1>2. [RNext]_rvars => [Next]_vars
  BY DEF RNext, rvars
<1>3. TInv /\ RowsInv /\ [RNext]_rvars => TInv' /\ RowsInv'
  BY <1>2, TypeStep, RowsStep
<1> QED
  BY <1>1, <1>3, PTL DEF RSpec

\* When all is quiet there is a process free to be at any row.
LEMMA QuietHolds ==
  ASSUME Quiet, RowsInv, NEW x \in Row, x \notin raced \cup halted
  PROVE  \E p \in Proc : OneInv(p, x) /\ req[p].pc = "idle"
<1>1. PICK p \in Proc : TRUE
  BY ConstantsOK
<1>2. Free(p, x) /\ req[p].pc = "idle"
  BY ConstantsOK DEF Quiet, Begin, RowsInv, Free
<1> QED
  BY <1>1, <1>2 DEF RowsInv

LEMMA QuietIsIdle == Quiet => notices = {} /\ job.row = None
  BY NoJobType DEF Quiet

-----------------------------------------------------------------------------
(* The theorems: for bookings that requests overlap on in any way, except  *)
(* those the histories name.                                               *)

\* Once nothing is in flight the event of a confirmed booking is when the booking says, or
\* customer_reinvite_required is set, whatever the salesperson moved and whatever calls
\* failed: unless requests raced on it, one broke off, or its event or a report of it got lost.
THEOREM CalendarAgrees == RSpec => []AgreeWhenQuiet
<1>1. TInv /\ RowsInv => AgreeWhenQuiet
  BY QuietHolds, QuietIsIdle, ConstantsOK
     DEF TInv, TablesOK, AgreeWhenQuiet, OneInv, TimesInv, Followed, Here
<1> QED
  BY <1>1, RowsInvariant, PTL

\* A canceled booking has no event left, also if its row was booked, moved and canceled many
\* times before: unless Graph failed a call, requests raced on it or one broke off.
THEOREM CanceledIsGone == RSpec => []CanceledLeavesNoEvent
<1>1. RowsInv => CanceledLeavesNoEvent
  BY QuietHolds DEF CanceledLeavesNoEvent, OneInv, GoneInv, Here
<1> QED
  BY <1>1, RowsInvariant, PTL

\* Nobody has a confirmed booking without the mail or customer_notify_required, in a row
\* taken over from another customer as well: unless an error in between was only logged,
\* requests raced on it or one broke off.
THEOREM ToldOrOwed == RSpec => []ToldOrFlagged
<1>1. RowsInv => ToldOrFlagged
  BY QuietHolds DEF ToldOrFlagged, OneInv, ToldInv, Here, Mailing
<1> QED
  BY <1>1, RowsInvariant, PTL
=============================================================================
