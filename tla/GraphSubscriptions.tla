--------------------------- MODULE GraphSubscriptions ---------------------------
(***************************************************************************)
(* The change subscriptions at Microsoft Graph.  A timer (and a command    *)
(* line tool) runs GraphSubscriptionWorker.syncSubscriptions, which makes  *)
(* one subscription for every active salesperson and renews it when it     *)
(* nears its end; runs may overlap, as nothing keeps two API processes, or *)
(* one slow run and the next, apart.  The webhook controller accepts a     *)
(* notice only for a subscription that is stored.                          *)
(*                                                                         *)
(* Times are kept as what is left of them, in intervals of the timer: a    *)
(* subscription lives for DURATION intervals and is renewed once fewer     *)
(* than THRESHOLD are left; 0 stands for every time that has passed.  A    *)
(* run compares with the time at which it began, `age' intervals ago.      *)
(* client_state is not modelled: it is stored with the id it was sent for, *)
(* so the controller's test of it never fails for a notice Graph sends.    *)
(***************************************************************************)
EXTENDS Naturals, Sequences, FiniteSets

CONSTANTS
  Person,        \* active salespersons of active tenants
  Sync,          \* runs of syncSubscriptions that may be under way together
  Change,        \* changes to events in the calendars
  Of(_),         \* whose event a change is to
  Event(_),      \* which event (and kind of change)
  Identified,    \* the changes whose notices carry an id of their own
  DURATION,      \* SUBSCRIPTION_DURATION_HOURS, in intervals
  THRESHOLD,     \* RENEWAL_THRESHOLD_MINUTES, in intervals
  LAG,           \* how many intervals a run may outlast
  MaxOpen,       \* bound on the changes whose notices are under way together
  MaxFaults,     \* bound on failures of Graph, the database and the process
  None           \* no row, no person

VARIABLES
  row,       \* table graph_subscriptions, unique per salesperson
  graph,     \* the subscriptions Graph has made; an id is a place in the sequence
  sync,      \* the runs under way
  due,       \* the timer has fired in this interval and no run has begun since
  dead,      \* people whose mailbox Graph calls inactive
  abandoned, \* a run has ended early because of one (history)
  happened,  \* the changes so far
  covered,   \* those made while the stored subscription of the person was live
  notices,   \* notices Graph will deliver, as <<subscription, change>>
  jobs,      \* rows of webhook_jobs, as the notice they were made from
  faults

tables == <<row, jobs>>
mailboxes == <<dead, abandoned>>
calendars == <<happened, covered, notices>>
world == <<mailboxes, calendars>>
vars == <<row, graph, sync, due, dead, abandoned, happened, covered, notices, jobs, faults>>

Ids == 1 .. Len(graph)
Row == [id : Nat, left : 0 .. DURATION]
Subscription == [person : Person, left : 0 .. DURATION]
Run == [pc : {"idle", "next", "create", "store", "renew", "update"}, todo : SUBSET Person,
        person : Person \cup {None}, id : Nat, age : 0 .. LAG]

ASSUME ConstantsOK ==
  /\ DURATION \in Nat /\ THRESHOLD \in Nat /\ LAG \in Nat /\ LAG < DURATION
  /\ THRESHOLD + LAG <= DURATION  \* 30 minutes and 48 hours: a renewal is good for every run under way
  /\ MaxOpen \in Nat /\ MaxFaults \in Nat
  /\ \A c \in Change : Of(c) \in Person
  /\ None \notin Person /\ None \notin Row

Idle == [pc |-> "idle", todo |-> {}, person |-> None, id |-> 0, age |-> 0]

Live(i) == graph[i].left > 0

\* What is left of a subscription asked for by a run that began `age' intervals ago.
OneMore(age) == DURATION - age + 1                                         \* mutant
Asked(age) == DURATION - age

\* The stored subscription of p ends before the renewal cutoff of a run.
Ended(p, age) == row[p] # None /\ row[p].left + age < 1                    \* mutant
NearEnd(p, age) == row[p] # None /\ row[p].left + age < THRESHOLD

\* No subscription is stored for p.
Missing(p) == row[p] = None

Init ==
  /\ row = [p \in Person |-> None]
  /\ graph = <<>>
  /\ sync = [s \in Sync |-> Idle]
  /\ due = TRUE
  /\ dead \in SUBSET Person /\ abandoned = FALSE
  /\ happened = {} /\ covered = {} /\ notices = {} /\ jobs = {}
  /\ faults = 0

Fail == faults < MaxFaults /\ faults' = faults + 1                         \* bound
NextPerson(s) == sync' = [sync EXCEPT ![s].pc = "next", ![s].person = None, ![s].id = 0]
EndRun(s) == sync' = [sync EXCEPT ![s] = Idle]

-----------------------------------------------------------------------------
(* syncSubscriptions                                                       *)

StartSync(s) ==
  /\ sync[s].pc = "idle"
  /\ sync' = [sync EXCEPT ![s] = [Idle EXCEPT !.pc = "next", !.todo = Person]]
  /\ due' = FALSE
  /\ UNCHANGED <<tables, graph, world, faults>>

\* findFirst, for one of the people left, in the order the database gave.
Look(s, p) ==
  /\ sync[s].pc = "next" /\ p \in sync[s].todo
  /\ LET rest == [sync[s] EXCEPT !.todo = @ \ {p}] IN
     \/ /\ Missing(p)
        /\ sync' = [sync EXCEPT ![s] = [rest EXCEPT !.pc = "create", !.person = p]]
     \/ /\ ~Missing(p) /\ NearEnd(p, sync[s].age)
        /\ sync' = [sync EXCEPT ![s] = [rest EXCEPT !.pc = "renew", !.person = p, !.id = row[p].id]]
     \/ /\ ~Missing(p) /\ ~NearEnd(p, sync[s].age)
        /\ sync' = [sync EXCEPT ![s] = rest]
  /\ UNCHANGED <<tables, graph, due, world, faults>>

\* An inactive mailbox ends the run for everybody after it; any other error
\* is the person's own.  The subscription may be made and its answer lost.
Create(s) ==
  LET p == sync[s].person
      made == Append(graph, [person |-> p, left |-> Asked(sync[s].age)]) IN
  /\ sync[s].pc = "create"
  /\ \/ p \in dead /\ EndRun(s) /\ abandoned' = (abandoned \/ sync[s].todo # {}) /\ UNCHANGED <<graph, faults>>
     \/ /\ p \notin dead /\ graph' = made
        /\ sync' = [sync EXCEPT ![s].pc = "store", ![s].id = Len(made)]
        /\ UNCHANGED <<abandoned, faults>>
     \/ p \notin dead /\ graph' \in {made, graph} /\ NextPerson(s) /\ Fail /\ UNCHANGED abandoned
  /\ UNCHANGED <<tables, due, dead, calendars>>

\* The row is refused if a run that overlaps has stored one.
Store(s) ==
  LET p == sync[s].person IN
  /\ sync[s].pc = "store"
  /\ \/ /\ row[p] = None
        /\ row' = [row EXCEPT ![p] = [id |-> sync[s].id, left |-> Asked(sync[s].age)]]
        /\ UNCHANGED faults
     \/ row[p] # None /\ UNCHANGED <<row, faults>>
     \/ Fail /\ UNCHANGED row
  /\ NextPerson(s)
  /\ UNCHANGED <<graph, due, world, jobs>>

\* Graph no longer knows a subscription that has run out.
Renew(s) ==
  LET i == sync[s].id
      renewed == [graph EXCEPT ![i].left = Asked(sync[s].age)] IN
  /\ sync[s].pc = "renew"
  /\ \/ /\ Live(i) /\ graph' = renewed
        /\ sync' = [sync EXCEPT ![s].pc = "update"]
        /\ UNCHANGED faults
     \/ Live(i) /\ graph' \in {renewed, graph} /\ NextPerson(s) /\ Fail
     \/ ~Live(i) /\ NextPerson(s) /\ UNCHANGED <<graph, faults>>
  /\ UNCHANGED <<tables, due, world>>

Update(s) ==
  /\ sync[s].pc = "update"
  /\ \/ /\ row' = [row EXCEPT ![sync[s].person].left = Asked(sync[s].age)]
        /\ UNCHANGED faults
     \/ Fail /\ UNCHANGED row
  /\ NextPerson(s)
  /\ UNCHANGED <<graph, due, world, jobs>>

EndSync(s) ==
  /\ sync[s].pc = "next" /\ sync[s].todo = {}
  /\ EndRun(s)
  /\ UNCHANGED <<tables, graph, due, world, faults>>

\* The process dies, or a read fails and the error leaves the loop.
Crash(s) ==
  /\ sync[s].pc # "idle" /\ Fail
  /\ EndRun(s)
  /\ UNCHANGED <<tables, graph, due, world>>

-----------------------------------------------------------------------------
(* Time and the calendars                                                  *)

Less(n) == IF n = 0 THEN 0 ELSE n - 1

\* One interval passes.  Every interval starts a run, and no run outlasts
\* LAG intervals, unless the API is down.
Tick ==
  /\ \A s \in Sync : sync[s].pc # "idle" => sync[s].age < LAG
  /\ IF due THEN Fail ELSE UNCHANGED faults
  /\ due' = TRUE
  /\ row' = [p \in Person |-> IF row[p] = None THEN None ELSE [row[p] EXCEPT !.left = Less(@)]]
  /\ graph' = [i \in Ids |-> [graph[i] EXCEPT !.left = Less(@)]]
  /\ sync' = [s \in Sync |-> IF sync[s].pc = "idle" THEN Idle ELSE [sync[s] EXCEPT !.age = @ + 1]]
  /\ UNCHANGED <<world, jobs>>

Revive(p) ==
  /\ p \in dead /\ dead' = dead \ {p}
  /\ UNCHANGED <<tables, graph, sync, due, abandoned, calendars, faults>>

\* Graph sends a notice for every subscription to the calendar, stored or not.
MakeChange(c) ==
  LET told == {i \in Ids : graph[i].person = Of(c) /\ Live(i)} IN
  /\ c \notin happened
  /\ Cardinality({n[2] : n \in notices}) < MaxOpen                     \* bound
  /\ happened' = happened \cup {c}
  /\ notices' = notices \cup (told \X {c})
  /\ covered' = IF row[Of(c)] # None /\ row[Of(c)].id \in told THEN covered \cup {c} ELSE covered
  /\ UNCHANGED <<tables, graph, sync, due, mailboxes, faults>>

-----------------------------------------------------------------------------
(* WebhooksController.graphWebhook                                         *)

AnyId(i) == TRUE                                                           \* mutant
Known(i) == \E p \in Person : row[p] # None /\ row[p].id = i

\* Whether the controller takes a notice for a repeat of the one in job j.
ByEvent(j, i, c) == j[1] = i /\ Event(j[2]) = Event(c)                     \* mutant
Repeats(j, i, c) ==
  j[1] = i /\ IF c \in Identified THEN j[2] = c ELSE Event(j[2]) = Event(c)

\* A notice stays until it has been answered, and may come again even then.
Deliver(i, c) ==
  /\ <<i, c>> \in notices
  /\ jobs' = IF Known(i) /\ ~\E j \in jobs : Repeats(j, i, c) THEN jobs \cup {<<i, c>>} ELSE jobs
  /\ notices' \in {notices \ {<<i, c>>}, notices}
  /\ UNCHANGED <<row, graph, sync, due, mailboxes, happened, covered, faults>>

-----------------------------------------------------------------------------
Step(s) ==
  \/ \E p \in Person : Look(s, p)
  \/ Create(s) \/ Store(s) \/ Renew(s) \/ Update(s) \/ EndSync(s)

Next ==
  \/ \E s \in Sync : StartSync(s) \/ Step(s) \/ Crash(s)
  \/ Tick
  \/ \E p \in Person : Revive(p)
  \/ \E c \in Change : MakeChange(c)
  \/ \E i \in Ids, c \in Change : Deliver(i, c)

Spec == Init /\ [][Next]_vars

\* The timer fires in every interval, the loop runs on, and time passes.
FairSpec ==
  /\ Spec
  /\ \A s \in Sync : WF_vars(StartSync(s) \/ Step(s))
  /\ WF_vars(Tick)

-----------------------------------------------------------------------------
\* The state has its types, and a stored or running id is one that Graph made
\* for that very person: overlapping runs never cross their subscriptions.
TypeOK ==
  /\ row \in [Person -> Row \cup {None}]
  /\ graph \in Seq(Subscription)
  /\ sync \in [Sync -> Run]
  /\ due \in BOOLEAN /\ abandoned \in BOOLEAN /\ dead \in SUBSET Person
  /\ happened \in SUBSET Change /\ covered \in SUBSET happened
  /\ notices \in SUBSET (Ids \X happened) /\ jobs \in SUBSET (Ids \X happened)
  /\ faults \in 0 .. MaxFaults
  /\ \A p \in Person : row[p] # None => row[p].id \in Ids /\ graph[row[p].id].person = p
  /\ \A s \in Sync : sync[s].pc \in {"store", "renew", "update"}
                       => sync[s].id \in Ids /\ graph[sync[s].id].person = sync[s].person

\* As long as the failures do not use up the renewal margin, a stored
\* subscription is live at Graph: runs that overlap, answers that are lost and
\* rows that are not updated leave it no worse off than the margin allows.
StoredIsLive ==
  ~abandoned /\ faults + 2 * LAG + 1 < THRESHOLD => \A p \in Person : row[p] # None => Live(row[p].id)

\* A change becomes one job at most, however many subscriptions were made for
\* the calendar (by runs that overlap, or whose answer was lost) and however
\* often each notice is delivered.
StoredOnce == \A j, k \in jobs : j[2] = k[2] => j = k

\* A change made while the stored subscription was live is not lost: its notice
\* is still to come or is stored, except that a notice without an id of its own
\* counts as a repeat of any earlier one about the event.
NoneMissed ==
  \A c \in covered :
    LET i == row[Of(c)].id IN
    \/ <<i, c>> \in notices \cup jobs
    \/ c \notin Identified /\ \E j \in jobs : j[1] = i /\ Event(j[2]) = Event(c)

\* prompts/booking_mvp_codex_prompt_full.txt:231-234: for each active salesperson
\* the job "ensures a valid events subscription exists" and "renews subscription
\* before expiration".  One inactive mailbox keeps the runs from reaching the
\* people after it; a subscription that has run out meanwhile is renewed, in
\* vain, for ever, even once every mailbox works again.
ValidAgain ==
  \A p \in Person : <>[](dead = {}) => []<>(row[p] # None /\ Live(row[p].id))
=============================================================================
