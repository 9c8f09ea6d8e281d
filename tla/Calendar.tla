------------------------------ MODULE Calendar ------------------------------
(***************************************************************************)
(* What the booking service does outside its database: the event of a      *)
(* booking in the salesperson's Outlook calendar and the confirmation      *)
(* mail; the flags customer_reinvite_required and customer_notify_required *)
(* that record what has not worked; and the webhook reconciler, which lets *)
(* the booking follow the calendar.                                        *)
(*                                                                         *)
(* Requests run step by step (a step ends where the code awaits Graph, the *)
(* mail sender or a commit), and may end after any of them: the server     *)
(* stops, or an error ends the request.  The webhook job runs next to      *)
(* them; the salesperson moves and deletes events at any moment; Graph     *)
(* reports every change of an event, the service's own included, and its   *)
(* reports arrive at any later time, in any order.  When a booking may be  *)
(* confirmed, moved or canceled, holds and slot conflicts are the matter   *)
(* of module Bookings.                                                     *)
(***************************************************************************)
EXTENDS Naturals, FiniteSets

CONSTANTS
  Row,     \* bookings
  Proc,    \* requests handled at once
  Slot,    \* start and end of a booking
  None

ASSUME ConstantsOK ==
  Proc # {} /\ None \notin Row \cup Slot \cup {"deleted"} /\ "deleted" \notin Slot

VARIABLES
  booking,   \* status, times and flags in table bookings
  attached,  \* bookings with a row in table graph_events
  event,     \* the calendar: when the event of a booking is, or that it is no more
  notices,   \* reports of Graph, stored as webhook jobs and not done yet
  req,       \* what each request is doing
  job,       \* what the webhook worker is doing
  told,      \* history: bookings whose present customer got the confirmation mail
  failed,    \* history: bookings whose event Graph did not create or delete when asked
  missed,    \* history: bookings whose event was created but its id not stored, or not
             \* stored yet when Graph reported a change of it, or the job given up
  halted,    \* history: bookings a request of which ended before its last step
  unposted   \* history: bookings for which an error that is only logged or ignored kept
             \* the confirmation mail or its flag from being tried

faults == <<failed, missed, halted, unposted>>
vars == <<booking, attached, event, notices, req, job, told, faults>>

Booking == [status : {"open", "confirmed", "canceled"}, start : Slot,
            reinvite : BOOLEAN, notify : BOOLEAN]
EventState == Slot \cup {None, "deleted"}
Notice == [row : Row, change : {"updated", "deleted"}]
Request == [pc : {"idle", "confirmTx", "postConfirm", "createEvent", "storeEvent", "sendMail",
                  "mailSent", "mailFailed", "cancelWrite", "deleteEvent", "moveWrite",
                  "patchTimes", "patchBody", "patched", "patchFailed"},
            row : Row \cup {None}, at : Slot \cup {None}, linked : BOOLEAN]
Idle == [pc |-> "idle", row |-> None, at |-> None, linked |-> FALSE]
Job == [row : Row \cup {None}, start : Slot \cup {None}]
NoJob == [row |-> None, start |-> None]

Begin(p) == req[p].pc = "idle"
Become(p, pc, r) == req' = [req EXCEPT ![p] = [Idle EXCEPT !.pc = pc, !.row = r]]
Goto(p, pc) == req' = [req EXCEPT ![p].pc = pc]
Done(p) == req' = [req EXCEPT ![p] = Idle]

AnyTime(r) == event[r] # None                                               \* mutant
InCalendar(r) == event[r] \in Slot

Init ==
  /\ booking \in [Row -> [status : {"open"}, start : Slot, reinvite : {FALSE}, notify : {FALSE}]]
  /\ attached = {}
  /\ event = [r \in Row |-> None]
  /\ notices = {}
  /\ req = [p \in Proc |-> Idle]
  /\ job = NoJob
  /\ told = {} /\ failed = {} /\ missed = {} /\ halted = {} /\ unposted = {}

-----------------------------------------------------------------------------
(* Confirming: runPostConfirmBestEffort                                    *)

\* confirmBooking and confirmBookingById: the checks, and the transaction; that of the former
\* goes on as well if another confirm has come between.
Confirm(p, r) ==
  /\ Begin(p)
  /\ booking[r].status = "open"
  /\ Become(p, "confirmTx", r)
  /\ UNCHANGED <<booking, attached, event, notices, job, told, faults>>

ConfirmTx(p) ==
  /\ req[p].pc = "confirmTx"
  /\ IF booking[req[p].row].status \in {"open", "confirmed"}
     THEN booking' = [booking EXCEPT ![req[p].row].status = "confirmed"] /\ Goto(p, "postConfirm")
     ELSE Done(p) /\ UNCHANGED booking
  /\ UNCHANGED <<attached, event, notices, job, told, faults>>

\* The booking is read again; an event is created only if none is attached.
PostConfirm(p) ==
  /\ req[p].pc = "postConfirm"
  /\ LET r == req[p].row
     IN req' = [req EXCEPT ![p].pc = IF r \in attached THEN "sendMail" ELSE "createEvent",
                           ![p].at = booking[r].start]
  /\ UNCHANGED <<booking, attached, event, notices, job, told, faults>>

\* The transactionId makes Graph return the event it has already created, if there is one.
CreateEvent(p) ==
  /\ req[p].pc = "createEvent"
  /\ LET r == req[p].row IN
     \/ /\ event' = IF InCalendar(r) THEN event ELSE [event EXCEPT ![r] = req[p].at]
        /\ Goto(p, "storeEvent")
        /\ UNCHANGED failed
     \/ /\ failed' = failed \cup {r}
        /\ Goto(p, "sendMail")
        /\ UNCHANGED event
  /\ UNCHANGED <<booking, attached, notices, job, told, missed, halted, unposted>>

\* The id is stored, unless the upsert fails or the answer of Graph was lost.
StoreEvent(p) ==
  /\ req[p].pc = "storeEvent"
  /\ \/ attached' = attached \cup {req[p].row} /\ UNCHANGED missed
     \/ missed' = missed \cup {req[p].row} /\ UNCHANGED attached
  /\ Goto(p, "sendMail")
  /\ UNCHANGED <<booking, event, notices, job, told, failed, halted, unposted>>

\* sendConfirmationEmailBestEffort: with Graph switched off nothing is sent, as if it failed.
SendMail(p) ==
  /\ req[p].pc = "sendMail"
  /\ \/ told' = told \cup {req[p].row} /\ Goto(p, "mailSent")
     \/ Goto(p, "mailFailed") /\ UNCHANGED told
  /\ UNCHANGED <<booking, attached, event, notices, job, faults>>

\* customer_notify_required says whether the mail is still owed.
NeverOwed(pc) == FALSE                                                       \* mutant
Owed(pc) == pc = "mailFailed"
FlagMail(p) ==
  /\ req[p].pc \in {"mailSent", "mailFailed"}
  /\ booking' = [booking EXCEPT ![req[p].row].notify = Owed(req[p].pc)]
  /\ Done(p)
  /\ UNCHANGED <<attached, event, notices, job, told, faults>>

\* An error of the reads of runPostConfirmBestEffort or in building the links of the mail
\* goes up to the handler, which logs it; one of writing the flag is ignored.
MailLost(p) ==
  /\ req[p].pc \in {"postConfirm", "sendMail", "mailSent", "mailFailed"}
  /\ unposted' = unposted \cup {req[p].row}
  /\ Done(p)
  /\ UNCHANGED <<booking, attached, event, notices, job, told, failed, missed, halted>>

\* resendConfirmationEmails, for one of the bookings it found.
Resend(p, r) ==
  /\ Begin(p)
  /\ booking[r].status = "confirmed" /\ booking[r].notify
  /\ Become(p, "sendMail", r)
  /\ UNCHANGED <<booking, attached, event, notices, job, told, faults>>

-----------------------------------------------------------------------------
(* cancelBooking, and the slot booked again                                *)

\* linked: the graph_event found when the booking was read, before anything else.
Cancel(p, r) ==
  /\ Begin(p)
  /\ booking[r].status = "confirmed"
  /\ req' = [req EXCEPT ![p] = [Idle EXCEPT !.pc = "cancelWrite", !.row = r,
                                            !.linked = r \in attached]]
  /\ UNCHANGED <<booking, attached, event, notices, job, told, faults>>

CancelWrite(p) ==
  /\ req[p].pc = "cancelWrite"
  /\ booking' = [booking EXCEPT ![req[p].row].status = "canceled"]
  /\ IF req[p].linked THEN Goto(p, "deleteEvent") ELSE Done(p)
  /\ UNCHANGED <<attached, event, notices, job, told, faults>>

\* deleteEvent: an event that is no longer there is as good; any other error is only logged.
KeepEvent(p) == Done(p) /\ UNCHANGED <<event, notices, failed>>              \* mutant
TryDelete(p) ==
  LET r == req[p].row IN
  /\ \/ /\ InCalendar(r)
        /\ event' = [event EXCEPT ![r] = "deleted"]
        /\ notices' = notices \cup {[row |-> r, change |-> "deleted"]}
        /\ UNCHANGED failed
     \/ ~InCalendar(r) /\ UNCHANGED <<event, notices, failed>>
     \/ failed' = failed \cup {r} /\ UNCHANGED <<event, notices>>
  /\ Done(p)
DeleteEvent(p) ==
  /\ req[p].pc = "deleteEvent"
  /\ TryDelete(p)
  /\ UNCHANGED <<booking, attached, job, told, missed, halted, unposted>>

\* createHold takes the row of a canceled booking over: new customer, while the flags
\* and the row in graph_events stay as they are.
Rebook(p, r) ==
  /\ Begin(p)
  /\ booking[r].status = "canceled"
  /\ booking' = [booking EXCEPT ![r].status = "open"]
  /\ told' = told \ {r}
  /\ UNCHANGED <<attached, event, notices, req, job, faults>>

-----------------------------------------------------------------------------
(* rescheduleBooking and reinviteBookingInternal                           *)

\* The present time asked for again patches the event once more if that is still owed.
Reschedule(p, r, s) ==
  /\ Begin(p)
  /\ booking[r].status = "confirmed"
  /\ LET go(pc) ==
           req' = [req EXCEPT ![p] = [pc |-> pc, row |-> r, at |-> s, linked |-> r \in attached]]
     IN \/ s # booking[r].start /\ go("moveWrite")
        \/ s = booking[r].start /\ booking[r].reinvite /\ r \in attached /\ go("patchTimes")
  /\ UNCHANGED <<booking, attached, event, notices, job, told, faults>>

\* The transaction reads the status again.
MoveWrite(p) ==
  /\ req[p].pc = "moveWrite"
  /\ IF booking[req[p].row].status = "confirmed"
     THEN /\ booking' = [booking EXCEPT ![req[p].row].start = req[p].at]
          /\ IF req[p].linked THEN Goto(p, "patchTimes") ELSE Done(p)
     ELSE Done(p) /\ UNCHANGED booking
  /\ UNCHANGED <<attached, event, notices, job, told, faults>>

\* updateEventTimes of what is attached; it may also change the event and then fail.
PatchTimes(p) ==
  /\ req[p].pc = "patchTimes"
  /\ LET r == req[p].row IN
     \/ /\ InCalendar(r)
        /\ event' = [event EXCEPT ![r] = req[p].at]
        /\ notices' = notices \cup {[row |-> r, change |-> "updated"]}
        /\ Goto(p, "patched") \/ Goto(p, "patchFailed")
     \/ Goto(p, "patchFailed") /\ UNCHANGED <<event, notices>>
  /\ UNCHANGED <<booking, attached, job, told, faults>>

Reinvite(p, r) ==
  /\ Begin(p)
  /\ r \in attached
  /\ Become(p, "patchBody", r)
  /\ UNCHANGED <<booking, attached, event, notices, job, told, faults>>

\* updateEventBody: a change of the event like any other, but not of its times.  Storing the
\* etag may fail after it, which counts as if the call had.
PatchBody(p) ==
  /\ req[p].pc = "patchBody"
  /\ LET r == req[p].row IN
     \/ /\ InCalendar(r)
        /\ notices' = notices \cup {[row |-> r, change |-> "updated"]}
        /\ Goto(p, "patched") \/ Goto(p, "patchFailed")
     \/ Goto(p, "patchFailed") /\ UNCHANGED notices
  /\ UNCHANGED <<booking, attached, event, job, told, faults>>

\* customer_reinvite_required, after a patch: whether it failed.
NeverUnsynced(pc) == FALSE                                                   \* mutant
Unsynced(pc) == pc = "patchFailed"
FlagPatch(p) ==
  /\ req[p].pc \in {"patched", "patchFailed"}
  /\ booking' = [booking EXCEPT ![req[p].row].reinvite = Unsynced(req[p].pc)]
  /\ Done(p)
  /\ UNCHANGED <<attached, event, notices, job, told, faults>>

\* The server stops, or the next statement or call fails and nothing catches that.
\* A repeat with the same key or in the new state returns early and makes up for nothing.
StopShort(p) ==
  /\ ~Begin(p)
  /\ halted' = halted \cup {req[p].row}
  /\ Done(p)
  /\ UNCHANGED <<booking, attached, event, notices, job, told, failed, missed, unposted>>

-----------------------------------------------------------------------------
(* The salesperson, and the reconciler: handleWebhookJob                   *)

SalesMove(r, s) ==
  /\ InCalendar(r) /\ event[r] # s
  /\ event' = [event EXCEPT ![r] = s]
  /\ notices' = notices \cup {[row |-> r, change |-> "updated"]}
  /\ UNCHANGED <<booking, attached, req, job, told, faults>>

SalesDelete(r) ==
  /\ InCalendar(r)
  /\ event' = [event EXCEPT ![r] = "deleted"]
  /\ notices' = notices \cup {[row |-> r, change |-> "deleted"]}
  /\ UNCHANGED <<booking, attached, req, job, told, faults>>

\* No booking has this event id: the job is done.
HandleUnknown(n) ==
  /\ job = NoJob
  /\ n \in notices /\ n.row \notin attached
  /\ notices' = notices \ {n}
  /\ missed' = missed \cup {n.row}
  /\ UNCHANGED <<booking, attached, event, req, job, told, failed, halted, unposted>>

\* A job whose mark that it is done is lost is handled again.
HandleDeleted(n) ==
  /\ job = NoJob
  /\ n \in notices /\ n.row \in attached /\ n.change = "deleted"
  /\ booking' = [booking EXCEPT ![n.row].status = "canceled", ![n.row].notify = TRUE]
  /\ notices' \in {notices, notices \ {n}}
  /\ UNCHANGED <<attached, event, req, job, told, faults>>

\* getEvent, and a little later the booking is set to what it returned.
HandleUpdated(n) ==
  /\ job = NoJob
  /\ n \in notices /\ n.row \in attached /\ n.change = "updated"
  /\ InCalendar(n.row)
  /\ job' = [row |-> n.row, start |-> event[n.row]]
  /\ notices' = notices \ {n}
  /\ UNCHANGED <<booking, attached, event, req, told, faults>>

\* getEvent throws, since the event is gone or Graph is down, or the update of the booking
\* does, until the job is given up.
GiveUp(n) ==
  /\ job = NoJob
  /\ n \in notices /\ n.row \in attached
  /\ notices' = notices \ {n}
  /\ missed' = IF InCalendar(n.row) \/ n.change = "deleted" THEN missed \cup {n.row} ELSE missed
  /\ UNCHANGED <<booking, attached, event, req, job, told, failed, halted, unposted>>

FollowCalendar ==
  /\ job # NoJob
  /\ booking' = [booking EXCEPT ![job.row].start = job.start, ![job.row].reinvite = TRUE]
  /\ job' = NoJob
  /\ notices' \in {notices, notices \cup {[row |-> job.row, change |-> "updated"]}}
  /\ UNCHANGED <<attached, event, req, told, faults>>

\* The update of the booking fails or the server stops: the job is tried again, or given up.
JobStops ==
  /\ job # NoJob
  /\ job' = NoJob
  /\ \/ notices' = notices \cup {[row |-> job.row, change |-> "updated"]} /\ UNCHANGED missed
     \/ missed' = missed \cup {job.row} /\ UNCHANGED notices
  /\ UNCHANGED <<booking, attached, event, req, told, failed, halted, unposted>>

-----------------------------------------------------------------------------
Continue(p) ==
  \/ ConfirmTx(p) \/ PostConfirm(p) \/ CreateEvent(p) \/ StoreEvent(p) \/ SendMail(p) \/ FlagMail(p)
  \/ CancelWrite(p) \/ DeleteEvent(p) \/ MoveWrite(p) \/ PatchTimes(p) \/ PatchBody(p) \/ FlagPatch(p)
  \/ MailLost(p) \/ StopShort(p)

Start(p, r) ==
  \/ Confirm(p, r) \/ Resend(p, r) \/ Cancel(p, r) \/ Reinvite(p, r) \/ Rebook(p, r)
  \/ \E s \in Slot : Reschedule(p, r, s)

Next ==
  \/ \E p \in Proc : Continue(p) \/ \E r \in Row : Start(p, r)
  \/ \E r \in Row : SalesDelete(r) \/ \E s \in Slot : SalesMove(r, s)
  \/ \E n \in notices : HandleUnknown(n) \/ HandleDeleted(n) \/ HandleUpdated(n) \/ GiveUp(n)
  \/ FollowCalendar \/ JobStops

Spec == Init /\ [][Next]_vars

-----------------------------------------------------------------------------
(* Properties.                                                             *)

TypeOK ==
  /\ booking \in [Row -> Booking]
  /\ attached \subseteq Row
  /\ event \in [Row -> EventState]
  /\ notices \subseteq Notice
  /\ req \in [Proc -> Request] /\ \A p \in Proc : ~Begin(p) => req[p].row \in Row
  /\ job \in Job
  /\ told \subseteq Row /\ failed \subseteq Row /\ missed \subseteq Row
  /\ halted \subseteq Row /\ unposted \subseteq Row

\* Nothing is in flight.
Quiet == notices = {} /\ job = NoJob /\ \A p \in Proc : Begin(p)

-----------------------------------------------------------------------------
(* What the documents say and the code does not do.                        *)

\* A confirmed booking is in the salesperson's calendar, if every call to Graph worked
\* and no request or job broke off.
ConfirmedInCalendar ==
  Quiet => \A r \in Row \ (failed \cup missed \cup halted \cup unposted) :
             booking[r].status = "confirmed" => InCalendar(r)
=============================================================================
