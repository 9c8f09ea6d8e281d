---------------------- MODULE GraphSubscriptions_proofs ----------------------
(***************************************************************************)
(* The type invariant of GraphSubscriptions, that a change becomes one job *)
(* at most, and that no notice for a stored subscription is lost: for any  *)
(* number of people, overlapping runs, changes and failures.  The argument *)
(* is about identity: a subscription's person and a row's id never change  *)
(* (Grows, RowsStay), so a job's subscription is the one its person's row  *)
(* names (FlowOK).                                                         *)
(*                                                                         *)
(* And that a stored subscription is live as long as the failures leave a  *)
(* margin: one run per interval serves everybody, so a row that is left    *)
(* below the threshold is paid for by runs that were lost, which number at *)
(* most the faults (FewMissed), and says at most LAG more than Graph has.  *)
(***************************************************************************)
EXTENDS GraphSubscriptions, SequenceTheorems, FiniteSetTheorems, TLAPS

RowsOK ==
  /\ row \in [Person -> Row \cup {None}]
  /\ \A p \in Person : row[p] # None => row[p].id \in Ids /\ graph[row[p].id].person = p

\* What a run knows of the subscription it works on.
RunOK(r) ==
  /\ r.pc \in {"create", "store", "renew", "update"} => r.person \in Person
  /\ r.pc \in {"store", "renew", "update"} => r.id \in Ids /\ graph[r.id].person = r.person
  /\ r.pc \in {"renew", "update"} => row[r.person] # None
RunsOK == sync \in [Sync -> Run] /\ \A s \in Sync : RunOK(sync[s])

RestOK == due \in BOOLEAN /\ abandoned \in BOOLEAN /\ dead \in SUBSET Person /\ faults \in 0 .. MaxFaults

FlowOK ==
  /\ happened \in SUBSET Change /\ covered \in SUBSET happened
  /\ notices \in SUBSET (Ids \X happened) /\ jobs \in SUBSET (Ids \X happened)
  /\ \A n \in notices : graph[n[1]].person = Of(n[2])
  /\ \A j \in jobs : row[Of(j[2])] # None /\ row[Of(j[2])].id = j[1]
  /\ \A c \in covered : row[Of(c)] # None
  /\ NoneMissed

IInv == graph \in Seq(Subscription) /\ RowsOK /\ RunsOK /\ RestOK /\ FlowOK

\* What a step of the runs, or of time, does to the subscriptions and the rows.
Grows ==
  /\ graph' \in Seq(Subscription) /\ Len(graph') >= Len(graph)
  /\ \A i \in Ids : graph'[i].person = graph[i].person
RowsStay ==
  /\ row' \in [Person -> Row \cup {None}]
  /\ \A p \in Person : row[p] # None => row'[p] # None /\ row'[p].id = row[p].id

LEMMA IdsGrow == ASSUME graph \in Seq(Subscription), Grows PROVE Ids \subseteq Ids'
<1>1. Len(graph) \in Nat /\ Len(graph') \in Nat
  BY LenProperties DEF Grows
<1> QED
  BY <1>1 DEF Ids, Grows

LEMMA FlowStays ==
  ASSUME graph \in Seq(Subscription), RowsOK, FlowOK, Grows, RowsStay, UNCHANGED <<calendars, jobs>>
  PROVE  FlowOK'
<1>1. Ids \subseteq Ids'
  BY IdsGrow
<1>2. UNCHANGED <<happened, covered, notices, jobs>>
  BY DEF calendars
<1>3. \A n \in notices \cup jobs : n[1] \in Ids /\ n[2] \in Change /\ Of(n[2]) \in Person
  BY ConstantsOK DEF FlowOK
<1>4. \A c \in covered : c \in Change /\ Of(c) \in Person /\ row[Of(c)] # None
  BY ConstantsOK DEF FlowOK
<1>5. \A c \in covered : row'[Of(c)] # None /\ row'[Of(c)].id = row[Of(c)].id
  BY <1>4 DEF RowsStay
<1>6. NoneMissed'
  BY <1>2, <1>5 DEF FlowOK, NoneMissed
<1>7. \A n \in notices : graph'[n[1]].person = Of(n[2])
  BY <1>3 DEF FlowOK, Grows
<1>8. \A j \in jobs : row'[Of(j[2])] # None /\ row'[Of(j[2])].id = j[1]
  BY <1>3 DEF FlowOK, RowsStay
<1>9. notices \in SUBSET (Ids' \X happened) /\ jobs \in SUBSET (Ids' \X happened)
  BY <1>1 DEF FlowOK
<1> QED
  BY <1>2, <1>5, <1>6, <1>7, <1>8, <1>9 DEF FlowOK

\* A row keeps its subscription, so it stays right while graph only grows.
LEMMA RowsKept ==
  ASSUME graph \in Seq(Subscription), RowsOK, Grows, RowsStay,
         \A p \in Person : row[p] = None => row'[p] = None
  PROVE  RowsOK'
<1>1. Ids \subseteq Ids'
  BY IdsGrow
<1> QED
  BY <1>1 DEF RowsOK, RowsStay, Grows

\* A run that keeps its subscription knows as much as before.
LEMMA RunKept ==
  ASSUME graph \in Seq(Subscription), RowsOK, Grows, RowsStay,
         NEW r \in Run, RunOK(r), NEW q \in Run, q.pc = r.pc, q.person = r.person, q.id = r.id
  PROVE  RunOK(q)'
<1>1. Ids \subseteq Ids'
  BY IdsGrow
<1> QED
  BY <1>1 DEF RunOK, RowsStay, Grows

\* One run goes on to q.
LEMMA RunsGoOn ==
  ASSUME graph \in Seq(Subscription), RowsOK, RunsOK, Grows, RowsStay,
         NEW s \in Sync, NEW q \in Run, RunOK(q)', sync' = [sync EXCEPT ![s] = q]
  PROVE  RunsOK'
<1>1. sync' \in [Sync -> Run]
  BY DEF RunsOK
<1>2. sync'[s] = q /\ \A t \in Sync \ {s} : sync'[t] = sync[t]
  BY DEF RunsOK
<1>3. \A t \in Sync \ {s} : RunOK(sync[t])'
  <2> TAKE t \in Sync \ {s}
  <2>1. sync[t] \in Run /\ RunOK(sync[t]) /\ sync'[t] = sync[t]
    BY <1>2 DEF RunsOK
  <2> DEFINE q2 == sync'[t]
  <2> HIDE DEF q2
  <2> QED
    BY <2>1, RunKept, <1>1 DEF q2, RunOK
<1> QED
  BY <1>1, <1>2, <1>3 DEF RunsOK, RunOK

LEMMA SameTables ==
  ASSUME graph \in Seq(Subscription), RowsOK, UNCHANGED <<row, graph>>
  PROVE  Grows /\ RowsStay
<1>1. Len(graph) \in Nat
  BY LenProperties
<1> QED
  BY <1>1 DEF Grows, RowsStay, RowsOK

LEMMA FailOK == ASSUME faults \in 0 .. MaxFaults, Fail \/ UNCHANGED faults PROVE faults' \in 0 .. MaxFaults
  BY ConstantsOK DEF Fail

LEMMA IdleOK == Idle \in Run /\ Idle.pc = "idle"
  BY ConstantsOK DEF Idle, Run

LEMMA BegunOK == LET q == [Idle EXCEPT !.pc = "next", !.todo = Person] IN q \in Run /\ q.pc = "next"
<1>1. ASSUME NEW r \in Run
      PROVE  [r EXCEPT !.pc = "next", !.todo = Person] \in Run
             /\ [r EXCEPT !.pc = "next", !.todo = Person].pc = "next"
  BY DEF Run
<1> QED
  BY <1>1, IdleOK

LEMMA AskedOK == ASSUME NEW a \in 0 .. LAG PROVE Asked(a) \in 0 .. DURATION
  BY ConstantsOK DEF Asked

\* The next states of a run that are not about a subscription.
LEMMA NextPersonOK ==
  ASSUME graph \in Seq(Subscription), RowsOK, RunsOK, Grows, RowsStay, NEW s \in Sync, NextPerson(s)
  PROVE  RunsOK'
<1> DEFINE next == [sync[s] EXCEPT !.pc = "next", !.person = None, !.id = 0]
<1>1. sync[s] \in Run
  BY DEF RunsOK
<1>2. next \in Run /\ next.pc = "next"
  BY <1>1 DEF Run
<1>3. PICK q \in Run : q.pc = "next" /\ sync' = [sync EXCEPT ![s] = q]
  BY <1>2 DEF NextPerson
<1>4. RunOK(q)'
  BY <1>3 DEF RunOK
<1> QED
  BY <1>3, <1>4, RunsGoOn

LEMMA EndRunOK ==
  ASSUME graph \in Seq(Subscription), RowsOK, RunsOK, Grows, RowsStay, NEW s \in Sync, EndRun(s)
  PROVE  RunsOK'
<1>1. Idle \in Run /\ RunOK(Idle)'
  BY IdleOK DEF RunOK
<1> QED
  BY <1>1, RunsGoOn DEF EndRun

\* The steps of a run leave the calendars and the jobs alone.
LEMMA SyncStep ==
  ASSUME IInv, Grows, RowsStay, RowsOK', RunsOK', UNCHANGED <<calendars, jobs>>,
         due' \in BOOLEAN, abandoned' \in BOOLEAN, dead' \in SUBSET Person, Fail \/ UNCHANGED faults
  PROVE  IInv'
<1>1. FlowOK'
  BY FlowStays DEF IInv
<1>2. RestOK'
  BY FailOK DEF IInv, RestOK
<1>3. graph' \in Seq(Subscription)
  BY DEF Grows
<1> QED
  BY <1>1, <1>2, <1>3 DEF IInv

-----------------------------------------------------------------------------
LEMMA InitOK == Init => IInv
<1> SUFFICES ASSUME Init PROVE IInv
  OBVIOUS
<1>1. graph \in Seq(Subscription)
  BY EmptySeq DEF Init
<1>2. RowsOK
  BY DEF Init, RowsOK
<1>3. RunsOK
  BY IdleOK DEF Init, RunsOK, RunOK
<1>4. RestOK
  <2>1. faults \in 0 .. MaxFaults
    BY ConstantsOK DEF Init
  <2> QED
    BY <2>1, Zenon DEF Init, RestOK
<1>5. FlowOK
  BY DEF Init, FlowOK, NoneMissed
<1> QED
  BY <1>1, <1>2, <1>3, <1>4, <1>5 DEF IInv

LEMMA StartStep == ASSUME IInv, NEW s \in Sync, StartSync(s) PROVE IInv'
<1>1. graph \in Seq(Subscription) /\ RowsOK /\ RunsOK /\ RestOK
  BY DEF IInv
<1>2. UNCHANGED <<row, graph, jobs, dead, abandoned, happened, covered, notices, faults>> /\ due' = FALSE
  BY DEF StartSync, tables, world, mailboxes, calendars
<1>3. Grows /\ RowsStay
  BY <1>1, <1>2, SameTables
<1> DEFINE q == [Idle EXCEPT !.pc = "next", !.todo = Person]
<1>4. q \in Run /\ q.pc = "next" /\ RunOK(q)'
  BY BegunOK DEF RunOK
<1>5. sync' = [sync EXCEPT ![s] = q]
  BY DEF StartSync
<1> HIDE DEF q
<1>6. RunsOK'
  BY <1>1, <1>3, <1>4, <1>5, RunsGoOn
<1>7. RowsOK'
  BY <1>1, <1>2, <1>3, RowsKept
<1> QED
  BY <1>1, <1>2, <1>3, <1>6, <1>7, SyncStep DEF RestOK, calendars

LEMMA LookStep == ASSUME IInv, NEW s \in Sync, NEW p \in Person, Look(s, p) PROVE IInv'
<1>1. graph \in Seq(Subscription) /\ RowsOK /\ RunsOK /\ RestOK
  BY DEF IInv
<1>2. UNCHANGED <<row, graph, jobs, due, dead, abandoned, happened, covered, notices, faults>>
  BY DEF Look, tables, world, mailboxes, calendars
<1>3. Grows /\ RowsStay
  BY <1>1, <1>2, SameTables
<1>4. sync[s] \in Run /\ sync[s].pc = "next"
  BY <1>1 DEF Look, RunsOK
<1> DEFINE rest == [sync[s] EXCEPT !.todo = @ \ {p}]
<1>5. rest \in Run /\ rest.pc = "next"
  BY <1>4 DEF Run
<1> DEFINE creating == [rest EXCEPT !.pc = "create", !.person = p]
           renewing == [rest EXCEPT !.pc = "renew", !.person = p, !.id = row[p].id]
<1>6. creating \in Run /\ creating.pc = "create" /\ creating.person = p
  BY <1>4 DEF Run
<1>7. ASSUME NearEnd(p, sync[s].age)
      PROVE  renewing \in Run /\ renewing.pc = "renew" /\ renewing.person = p /\ renewing.id = row[p].id
  <2>1. row[p].id \in Nat
    BY <1>1, <1>7 DEF NearEnd, RowsOK, Row
  <2> QED
    BY <1>4, <2>1 DEF Run
<1>8. \/ Missing(p) /\ sync' = [sync EXCEPT ![s] = creating]
      \/ NearEnd(p, sync[s].age) /\ sync' = [sync EXCEPT ![s] = renewing]
      \/ sync' = [sync EXCEPT ![s] = rest]
  BY DEF Look
<1> HIDE DEF rest, creating, renewing
<1>9. RunsOK'
  <2>1. CASE Missing(p) /\ sync' = [sync EXCEPT ![s] = creating]
    <3>1. PICK q \in Run : q = creating
      BY <1>6
    <3>2. RunOK(q)'
      BY <1>6, <3>1 DEF RunOK
    <3> QED
      BY <1>1, <1>3, <2>1, <3>1, <3>2, RunsGoOn
  <2>2. CASE NearEnd(p, sync[s].age) /\ sync' = [sync EXCEPT ![s] = renewing]
    <3>1. PICK q \in Run : q = renewing
      BY <1>7, <2>2
    <3>2. row[p] # None /\ row[p].id \in Ids /\ graph[row[p].id].person = p
      BY <1>1, <2>2 DEF NearEnd, RowsOK
    <3>3. q.pc = "renew" /\ q.person = p /\ q.id = row[p].id
      BY <1>7, <2>2, <3>1
    <3>4. RunOK(q)
      BY <3>2, <3>3 DEF RunOK
    <3>5. RunOK(q)'
      BY <1>1, <1>3, <3>4, RunKept
    <3> QED
      BY <1>1, <1>3, <2>2, <3>1, <3>5, RunsGoOn
  <2>3. CASE sync' = [sync EXCEPT ![s] = rest]
    <3>1. PICK q \in Run : q = rest
      BY <1>5
    <3>2. RunOK(q)'
      BY <1>5, <3>1 DEF RunOK
    <3> QED
      BY <1>1, <1>3, <2>3, <3>1, <3>2, RunsGoOn
  <2> QED
    BY <1>8, <2>1, <2>2, <2>3
<1>10. RowsOK'
  BY <1>1, <1>2, <1>3, RowsKept
<1> QED
  BY <1>1, <1>2, <1>3, <1>9, <1>10, SyncStep DEF RestOK, calendars

LEMMA RunAge == ASSUME IInv, NEW s \in Sync PROVE sync[s] \in Run /\ Asked(sync[s].age) \in 0 .. DURATION
<1>1. sync[s] \in Run /\ sync[s].age \in 0 .. LAG
  BY DEF IInv, RunsOK, Run
<1> QED
  BY <1>1, AskedOK

\* Graph may have made a subscription for p, at the end of the sequence.
LEMMA MadeOK ==
  ASSUME graph \in Seq(Subscription), NEW e \in Subscription, graph' = Append(graph, e)
  PROVE  Grows /\ Len(graph') = Len(graph) + 1 /\ Len(graph') \in Ids' /\ graph'[Len(graph')] = e
<1>1. Len(graph) \in Nat
  BY LenProperties
<1>2. graph' \in Seq(Subscription) /\ Len(graph') = Len(graph) + 1
      /\ \A i \in 1 .. Len(graph) : graph'[i] = graph[i]
  BY AppendProperties
<1>3. graph'[Len(graph) + 1] = e
  BY AppendProperties
<1> QED
  BY <1>1, <1>2, <1>3 DEF Grows, Ids

LEMMA RenewedOK ==
  ASSUME graph \in Seq(Subscription), NEW i \in Ids, NEW n \in 0 .. DURATION,
         graph' = [graph EXCEPT ![i].left = n]
  PROVE  Grows
<1> DEFINE e == [graph[i] EXCEPT !.left = n]
<1>1. graph[i] \in Subscription /\ Len(graph) \in Nat
  BY ElementOfSeq, LenProperties DEF Ids
<1>2. e \in Subscription /\ e.person = graph[i].person
  BY <1>1 DEF Subscription
<1>3. graph' = [graph EXCEPT ![i] = e]
  OBVIOUS
<1> HIDE DEF e
<1>4. graph' \in Seq(Subscription) /\ Len(graph') = Len(graph)
      /\ \A j \in 1 .. Len(graph) : graph'[j] = IF j = i THEN e ELSE graph[j]
  BY <1>2, <1>3, ExceptSeq DEF Ids
<1> QED
  BY <1>1, <1>2, <1>4 DEF Grows, Ids

LEMMA CreateStep == ASSUME IInv, NEW s \in Sync, Create(s) PROVE IInv'
<1>1. graph \in Seq(Subscription) /\ RowsOK /\ RunsOK /\ RestOK
  BY DEF IInv
<1> DEFINE e == [person |-> sync[s].person, left |-> Asked(sync[s].age)]
<1>2. sync[s] \in Run /\ sync[s].pc = "create" /\ sync[s].person \in Person /\ e \in Subscription
      /\ e.person = sync[s].person
  BY <1>1, RunAge DEF RunsOK, RunOK, Create, Subscription
<1>3. UNCHANGED <<row, jobs, due, dead, happened, covered, notices>>
  BY DEF Create, tables, calendars
<1>4. abandoned' \in BOOLEAN
  <2>1. abandoned' = (abandoned \/ sync[s].todo # {}) \/ abandoned' = abandoned
    BY DEF Create
  <2> QED
    BY <1>1, <2>1, Zenon DEF RestOK
<1>5. Fail \/ UNCHANGED faults
  BY DEF Create
<1>6. graph' = Append(graph, e) \/ UNCHANGED graph
  BY DEF Create
<1>7. Grows
  BY <1>1, <1>2, <1>3, <1>6, MadeOK, SameTables
<1>8. RowsStay
  BY <1>1, <1>3 DEF RowsStay, RowsOK
<1>9. RowsOK'
  BY <1>1, <1>3, <1>7, <1>8, RowsKept
<1>10. RunsOK'
  <2>1. CASE EndRun(s) \/ NextPerson(s)
    BY <1>1, <1>7, <1>8, <2>1, EndRunOK, NextPersonOK
  <2>2. CASE graph' = Append(graph, e) /\ sync' = [sync EXCEPT ![s].pc = "store", ![s].id = Len(graph')]
    <3> DEFINE storing == [sync[s] EXCEPT !.pc = "store", !.id = Len(graph')]
    <3>1. Len(graph') \in Nat /\ Len(graph') \in Ids' /\ graph'[Len(graph')] = e
      BY <1>1, <1>2, <2>2, MadeOK, LenProperties DEF Grows
    <3>2. storing \in Run /\ storing.pc = "store" /\ storing.person = sync[s].person /\ storing.id = Len(graph')
      BY <1>2, <3>1 DEF Run
    <3>3. sync' = [sync EXCEPT ![s] = storing]
      BY <2>2
    <3> HIDE DEF storing
    <3>4. PICK q \in Run : q = storing
      BY <3>2
    <3>5. q.pc = "store" /\ q.person \in Person /\ q.id \in Ids' /\ graph'[q.id].person = q.person
      BY <1>2, <3>1, <3>2, <3>4
    <3>6. RunOK(q)'
      BY <3>5 DEF RunOK
    <3> QED
      BY <1>1, <1>7, <1>8, <3>3, <3>4, <3>6, RunsGoOn
  <2> QED
    BY <2>1, <2>2 DEF Create
<1> QED
  BY <1>1, <1>3, <1>4, <1>5, <1>7, <1>8, <1>9, <1>10, SyncStep DEF RestOK, calendars

\* One row is written, for the person's own subscription.
LEMMA WriteRow ==
  ASSUME graph \in Seq(Subscription), RowsOK, UNCHANGED graph, NEW p \in Person, NEW r \in Row,
         row' = [row EXCEPT ![p] = r], r.id \in Ids, graph[r.id].person = p, row[p] # None => row[p].id = r.id
  PROVE  RowsOK' /\ Grows /\ RowsStay
<1>1. Len(graph) \in Nat
  BY LenProperties
<1>2. row' \in [Person -> Row \cup {None}] /\ row'[p] = r /\ \A o \in Person \ {p} : row'[o] = row[o]
  BY DEF RowsOK
<1>3. r # None
  BY ConstantsOK
<1>4. RowsStay
  BY <1>2, <1>3 DEF RowsStay, RowsOK
<1>5. Grows
  BY <1>1 DEF Grows
<1>6. RowsOK'
  BY <1>2, <1>3 DEF RowsOK, Ids
<1> QED
  BY <1>4, <1>5, <1>6

\* Store and Update write the row of the person the run works on, or nothing.
LEMMA RowStep ==
  ASSUME IInv, NEW s \in Sync, Store(s) \/ Update(s)
  PROVE  IInv'
<1>1. graph \in Seq(Subscription) /\ RowsOK /\ RunsOK /\ RestOK
  BY DEF IInv
<1>2. UNCHANGED <<graph, jobs, due, abandoned, dead, happened, covered, notices>>
  BY DEF Store, Update, world, mailboxes, calendars
<1> DEFINE p == sync[s].person
           n == Asked(sync[s].age)
<1>3. n \in 0 .. DURATION /\ p \in Person /\ sync[s].id \in Ids /\ graph[sync[s].id].person = p
  BY <1>1, RunAge DEF RunsOK, RunOK, Store, Update
<1>4. RowsOK' /\ Grows /\ RowsStay
  <2>1. CASE UNCHANGED row
    BY <1>1, <1>2, <2>1, SameTables, RowsKept
  <2>2. CASE Store(s) /\ row[p] = None /\ row' = [row EXCEPT ![p] = [id |-> sync[s].id, left |-> n]]
    <3> DEFINE r == [id |-> sync[s].id, left |-> n]
    <3>1. sync[s].id \in Nat
      BY <1>1, <1>3, LenProperties DEF Ids
    <3>2. r \in Row /\ r.id = sync[s].id
      BY <1>3, <3>1 DEF Row
    <3>3. row' = [row EXCEPT ![p] = r]
      BY <2>2
    <3> HIDE DEF r, p, n
    <3> QED
      BY <1>1, <1>2, <1>3, <2>2, <3>2, <3>3, WriteRow
  <2>3. CASE Update(s) /\ row' = [row EXCEPT ![p].left = n]
    <3> DEFINE r == [row[p] EXCEPT !.left = n]
    <3>1. row[p] # None /\ row[p] \in Row /\ row[p].id \in Ids /\ graph[row[p].id].person = p
      BY <1>1, <1>3, <2>3 DEF RunsOK, RunOK, Update, RowsOK
    <3>2. r \in Row /\ r.id = row[p].id
      BY <1>3, <3>1 DEF Row
    <3>3. row' = [row EXCEPT ![p] = r]
      BY <2>3
    <3> HIDE DEF r, p, n
    <3> QED
      BY <1>1, <1>2, <1>3, <3>1, <3>2, <3>3, WriteRow
  <2> QED
    BY <2>1, <2>2, <2>3 DEF Store, Update
<1>5. RunsOK'
  BY <1>1, <1>4, NextPersonOK DEF Store, Update
<1>6. Fail \/ UNCHANGED faults
  BY DEF Store, Update
<1> QED
  BY <1>1, <1>2, <1>4, <1>5, <1>6, SyncStep DEF RestOK, calendars

LEMMA RenewStep == ASSUME IInv, NEW s \in Sync, Renew(s) PROVE IInv'
<1>1. graph \in Seq(Subscription) /\ RowsOK /\ RunsOK /\ RestOK
  BY DEF IInv
<1>2. UNCHANGED <<row, jobs, due, abandoned, dead, happened, covered, notices>>
  BY DEF Renew, tables, world, mailboxes, calendars
<1>3. sync[s].pc = "renew" /\ sync[s] \in Run /\ sync[s].id \in Ids /\ Asked(sync[s].age) \in 0 .. DURATION
  BY <1>1, RunAge DEF RunsOK, RunOK, Renew
<1>4. UNCHANGED graph \/ graph' = [graph EXCEPT ![sync[s].id].left = Asked(sync[s].age)]
  BY DEF Renew
<1>5. Grows
  BY <1>1, <1>2, <1>3, <1>4, RenewedOK, SameTables
<1>6. RowsStay
  BY <1>1, <1>2 DEF RowsStay, RowsOK
<1>7. RowsOK'
  BY <1>1, <1>2, <1>5, <1>6, RowsKept
<1>8. RunsOK'
  <2>1. CASE NextPerson(s)
    BY <1>1, <1>5, <1>6, <2>1, NextPersonOK
  <2>2. CASE sync' = [sync EXCEPT ![s].pc = "update"]
    <3> DEFINE updating == [sync[s] EXCEPT !.pc = "update"]
    <3>1. updating \in Run /\ updating.pc = "update" /\ updating.person = sync[s].person /\ updating.id = sync[s].id
      BY <1>3 DEF Run
    <3>2. sync' = [sync EXCEPT ![s] = updating]
      BY <2>2
    <3> HIDE DEF updating
    <3>3. PICK q \in Run : q = updating
      BY <3>1
    <3>4. RunOK(q)
      BY <1>1, <1>3, <3>1, <3>3 DEF RunsOK, RunOK
    <3>5. RunOK(q)'
      BY <1>1, <1>5, <1>6, <3>4, RunKept
    <3> QED
      BY <1>1, <1>5, <1>6, <3>2, <3>3, <3>5, RunsGoOn
  <2> QED
    BY <2>1, <2>2 DEF Renew
<1>9. Fail \/ UNCHANGED faults
  BY DEF Renew
<1> QED
  BY <1>1, <1>2, <1>5, <1>6, <1>7, <1>8, <1>9, SyncStep DEF RestOK, calendars

LEMMA EndStep == ASSUME IInv, NEW s \in Sync, EndSync(s) \/ Crash(s) PROVE IInv'
<1>1. graph \in Seq(Subscription) /\ RowsOK /\ RunsOK /\ RestOK
  BY DEF IInv
<1>2. UNCHANGED <<row, graph, jobs, due, abandoned, dead, happened, covered, notices>>
  BY DEF EndSync, Crash, tables, world, mailboxes, calendars
<1>3. Grows /\ RowsStay
  BY <1>1, <1>2, SameTables
<1>4. RunsOK' /\ RowsOK'
  BY <1>1, <1>2, <1>3, EndRunOK, RowsKept DEF EndSync, Crash
<1>5. Fail \/ UNCHANGED faults
  BY DEF EndSync, Crash
<1> QED
  BY <1>1, <1>2, <1>3, <1>4, <1>5, SyncStep DEF RestOK, calendars

-----------------------------------------------------------------------------
LEMMA LessOK == ASSUME NEW n \in 0 .. DURATION PROVE Less(n) \in 0 .. DURATION
  BY ConstantsOK DEF Less

LEMMA TickStep == ASSUME IInv, Tick PROVE IInv'
<1>1. graph \in Seq(Subscription) /\ RowsOK /\ RunsOK /\ RestOK
  BY DEF IInv
<1>2. UNCHANGED <<jobs, abandoned, dead, happened, covered, notices>> /\ due' = TRUE
  BY DEF Tick, world, mailboxes, calendars
<1>3. Grows
  <2>1. Len(graph) \in Nat /\ \A i \in Ids : graph[i] \in Subscription
    BY <1>1, ElementOfSeq, LenProperties DEF Ids
  <2>2. \A e \in Subscription : [e EXCEPT !.left = Less(@)] \in Subscription
                               /\ [e EXCEPT !.left = Less(@)].person = e.person
    BY LessOK DEF Subscription
  <2>3. graph' = [i \in 1 .. Len(graph) |-> [graph[i] EXCEPT !.left = Less(@)]]
    BY DEF Tick, Ids
  <2>4. graph' \in [1 .. Len(graph) -> Subscription]
    BY <2>1, <2>2, <2>3 DEF Ids
  <2>5. graph' \in Seq(Subscription) /\ Len(graph') = Len(graph)
    BY <2>1, <2>4
  <2>6. ASSUME NEW i \in Ids PROVE graph'[i].person = graph[i].person
    <3>1. graph'[i] = [graph[i] EXCEPT !.left = Less(@)]
      BY <2>3 DEF Ids
    <3> QED
      BY <2>1, <2>2, <3>1
  <2> QED
    BY <2>1, <2>5, <2>6 DEF Grows
<1>4. RowsStay /\ \A p \in Person : row[p] = None => row'[p] = None
  <2>1. \A r \in Row : [r EXCEPT !.left = Less(@)] \in Row /\ [r EXCEPT !.left = Less(@)].id = r.id
    BY LessOK DEF Row
  <2>2. row' = [p \in Person |-> IF row[p] = None THEN None ELSE [row[p] EXCEPT !.left = Less(@)]]
    BY DEF Tick
  <2>3. \A p \in Person : row[p] # None => row[p] \in Row
    BY <1>1 DEF RowsOK
  <2>4. \A p \in Person : row[p] # None =>
          row'[p] \in Row /\ row'[p].id = row[p].id /\ row'[p] # None
    <3> TAKE p \in Person
    <3> HAVE row[p] # None
    <3>1. row'[p] = [row[p] EXCEPT !.left = Less(@)]
      BY <2>2
    <3>2. row'[p] \in Row /\ row'[p].id = row[p].id
      BY <2>1, <2>3, <3>1
    <3> QED
      BY <3>2, ConstantsOK
  <2>5. \A p \in Person : row[p] = None => row'[p] = None
    BY <2>2
  <2>6. DOMAIN row' = Person /\ row' = [p \in Person |-> row'[p]]
    BY <2>2
  <2> QED
    BY <2>4, <2>5, <2>6 DEF RowsStay
<1>5. RowsOK'
  BY <1>1, <1>3, <1>4, RowsKept
<1>6. RunsOK'
  <2>1. \A r \in Run : r.age < LAG => /\ [r EXCEPT !.age = @ + 1] \in Run
                                      /\ [r EXCEPT !.age = @ + 1].pc = r.pc
                                      /\ [r EXCEPT !.age = @ + 1].person = r.person
                                      /\ [r EXCEPT !.age = @ + 1].id = r.id
    BY ConstantsOK DEF Run
  <2>2. sync' = [s \in Sync |-> IF sync[s].pc = "idle" THEN Idle ELSE [sync[s] EXCEPT !.age = @ + 1]]
        /\ \A s \in Sync : sync[s].pc # "idle" => sync[s].age < LAG
    BY DEF Tick
  <2>3. \A s \in Sync : sync[s] \in Run /\ RunOK(sync[s])
    BY <1>1 DEF RunsOK
  <2>4. ASSUME NEW s \in Sync PROVE sync'[s] \in Run /\ RunOK(sync[s])' 
    <3>1. CASE sync[s].pc = "idle"
      <4>1. sync'[s] \in Run /\ sync'[s].pc = "idle"
        BY <2>2, <3>1, IdleOK
      <4> QED
        BY <4>1 DEF RunOK
    <3>2. CASE sync[s].pc # "idle"
      <4>1. PICK q \in Run : q = sync'[s]
        BY <2>1, <2>2, <2>3, <3>2
      <4>2. PICK r \in Run : r = sync[s] /\ RunOK(r)
        BY <2>3
      <4>3. q.pc = r.pc /\ q.person = r.person /\ q.id = r.id
        BY <2>1, <2>2, <2>3, <3>2, <4>1, <4>2
      <4>4. RunOK(q)'
        BY <1>1, <1>3, <1>4, <4>2, <4>3, RunKept
      <4> QED
        BY <4>1, <4>4 DEF RunOK
    <3> QED
      BY <3>1, <3>2
  <2>5. sync' \in [Sync -> Run]
    BY <2>2, <2>4
  <2> QED
    BY <2>4, <2>5 DEF RunsOK, RunOK
<1>7. Fail \/ UNCHANGED faults
  BY DEF Tick
<1> QED
  BY <1>1, <1>2, <1>3, <1>4, <1>5, <1>6, <1>7, SyncStep DEF RestOK, calendars

LEMMA ReviveStep == ASSUME IInv, NEW p \in Person, Revive(p) PROVE IInv'
<1>1. graph \in Seq(Subscription) /\ RowsOK /\ RunsOK /\ RestOK
  BY DEF IInv
<1>2. UNCHANGED <<row, graph, sync, jobs, due, abandoned, happened, covered, notices, faults>>
      /\ dead' \in SUBSET Person
  BY <1>1 DEF Revive, tables, calendars, RestOK
<1>3. Grows /\ RowsStay /\ RowsOK'
  BY <1>1, <1>2, SameTables, RowsKept
<1>4. RunsOK'
  BY <1>1, <1>2 DEF RunsOK, RunOK, Ids
<1> QED
  BY <1>1, <1>2, <1>3, <1>4, SyncStep DEF RestOK, calendars

LEMMA ChangeStep == ASSUME IInv, NEW c \in Change, MakeChange(c) PROVE IInv'
<1>1. graph \in Seq(Subscription) /\ RowsOK /\ RunsOK /\ RestOK /\ FlowOK
  BY DEF IInv
<1>2. UNCHANGED <<row, graph, sync, jobs, due, abandoned, dead, faults>>
  BY DEF MakeChange, tables, mailboxes
<1>3. RowsOK' /\ RunsOK' /\ RestOK' /\ graph' \in Seq(Subscription) /\ Ids' = Ids
  BY <1>1, <1>2 DEF RowsOK, RunsOK, RunOK, RestOK, Ids
<1> DEFINE told == {i \in Ids : graph[i].person = Of(c) /\ Live(i)}
<1>4. happened' = happened \cup {c} /\ notices' = notices \cup (told \X {c})
  BY DEF MakeChange
<1>5. covered' = covered \/ (covered' = covered \cup {c} /\ row[Of(c)] # None /\ row[Of(c)].id \in told)
  BY DEF MakeChange
<1>6. \A i \in told : i \in Ids /\ graph[i].person = Of(c)
  OBVIOUS
<1> HIDE DEF told
<1>7. \A n \in notices' : n[1] \in Ids /\ n[2] \in happened' /\ n = <<n[1], n[2]>> /\ graph[n[1]].person = Of(n[2])
  BY <1>1, <1>4, <1>6 DEF FlowOK
<1>8. \A d \in covered' : row[Of(d)] # None
  BY <1>1, <1>5 DEF FlowOK
<1>9. NoneMissed'
  BY <1>1, <1>2, <1>4, <1>5 DEF FlowOK, NoneMissed
<1>10. notices' \in SUBSET (Ids \X happened') /\ jobs \in SUBSET (Ids \X happened')
       /\ happened' \in SUBSET Change /\ covered' \in SUBSET happened'
  BY <1>1, <1>4, <1>5, <1>7 DEF FlowOK
<1>11. FlowOK'
  BY <1>1, <1>2, <1>3, <1>7, <1>8, <1>9, <1>10 DEF FlowOK
<1> QED
  BY <1>3, <1>11 DEF IInv

\* A job is made only for the row of the person whose event it is.
LEMMA DeliverStep == ASSUME IInv, NEW i \in Ids, NEW c \in Change, Deliver(i, c) PROVE IInv'
<1>1. graph \in Seq(Subscription) /\ RowsOK /\ RunsOK /\ RestOK /\ FlowOK
  BY DEF IInv
<1>2. UNCHANGED <<row, graph, sync, due, abandoned, dead, happened, covered, faults>>
  BY DEF Deliver, mailboxes
<1>3. RowsOK' /\ RunsOK' /\ RestOK' /\ graph' \in Seq(Subscription) /\ Ids' = Ids
  BY <1>1, <1>2 DEF RowsOK, RunsOK, RunOK, RestOK, Ids
<1>4. <<i, c>> \in notices /\ notices' \subseteq notices /\ notices \subseteq notices' \cup {<<i, c>>}
  BY DEF Deliver
<1>5. graph[i].person = Of(c) /\ Of(c) \in Person /\ c \in happened
  BY <1>1, <1>4, ConstantsOK DEF FlowOK
<1>6. Known(i) => row[Of(c)] # None /\ row[Of(c)].id = i
  BY <1>1, <1>5 DEF Known, RowsOK
<1>7. jobs' = jobs \/ (jobs' = jobs \cup {<<i, c>>} /\ Known(i))
  BY DEF Deliver
<1>8. Known(i) => <<i, c>> \in jobs' \/ \E j \in jobs : Repeats(j, i, c)
  BY DEF Deliver
<1>9. NoneMissed'
  <2> SUFFICES ASSUME NEW d \in covered
               PROVE  LET k == row[Of(d)].id IN
                      \/ <<k, d>> \in notices' \cup jobs'
                      \/ d \notin Identified /\ \E j \in jobs' : j[1] = k /\ Event(j[2]) = Event(d)
    BY <1>2 DEF NoneMissed
  <2> DEFINE k == row[Of(d)].id
  <2>1. \/ <<k, d>> \in notices \cup jobs
        \/ d \notin Identified /\ \E j \in jobs : j[1] = k /\ Event(j[2]) = Event(d)
    BY <1>1 DEF FlowOK, NoneMissed
  <2>2. CASE <<k, d>> = <<i, c>>
    <3>1. k = i /\ d = c
      BY <2>2
    <3>2. Known(i)
      BY <1>1, <1>5, <3>1 DEF FlowOK, Known
    <3>3. CASE \E j \in jobs : Repeats(j, i, c)
      <4>1. PICK j \in jobs : Repeats(j, i, c)
        BY <3>3
      <4>2. j \in jobs' /\ j = <<j[1], j[2]>>
        BY <1>1, <1>7, <4>1 DEF FlowOK
      <4>3. CASE c \in Identified
        BY <3>1, <4>1, <4>2, <4>3 DEF Repeats
      <4>4. CASE c \notin Identified
        BY <3>1, <4>1, <4>2, <4>4 DEF Repeats
      <4> QED
        BY <4>3, <4>4
    <3> QED
      BY <1>8, <3>1, <3>2, <3>3
  <2>3. CASE <<k, d>> # <<i, c>>
    BY <1>4, <1>7, <2>1, <2>3
  <2> QED
    BY <2>2, <2>3
<1>10. \A j \in jobs' : row[Of(j[2])] # None /\ row[Of(j[2])].id = j[1]
  BY <1>1, <1>6, <1>7 DEF FlowOK
<1>11. notices' \in SUBSET (Ids \X happened) /\ jobs' \in SUBSET (Ids \X happened)
  BY <1>1, <1>4, <1>5, <1>7 DEF FlowOK
<1>12. FlowOK'
  BY <1>1, <1>2, <1>3, <1>4, <1>9, <1>10, <1>11 DEF FlowOK
<1> QED
  BY <1>3, <1>12 DEF IInv

-----------------------------------------------------------------------------
LEMMA NextOK == IInv /\ [Next]_vars => IInv'
<1> SUFFICES ASSUME IInv, [Next]_vars PROVE IInv'
  OBVIOUS
<1>1. CASE UNCHANGED vars
  BY <1>1 DEF vars, IInv, RowsOK, RunsOK, RunOK, RestOK, FlowOK, NoneMissed, Ids
<1>2. CASE Next
  <2>1. ASSUME NEW s \in Sync, StartSync(s) \/ Step(s) \/ Crash(s) PROVE IInv'
    BY <2>1, StartStep, LookStep, CreateStep, RowStep, RenewStep, EndStep DEF Step
  <2> QED
    BY <1>2, <2>1, TickStep, ReviveStep, ChangeStep, DeliverStep DEF Next
<1> QED
  BY <1>1, <1>2

LEMMA Inductive == Spec => []IInv
  BY InitOK, NextOK, PTL DEF Spec

\* Whatever people, runs, changes and failures there are, the state has its
\* types, and stored and running ids are Graph's own for that person.
THEOREM TypeInvariant == Spec => []TypeOK
<1>1. IInv => TypeOK
  BY DEF IInv, RowsOK, RunsOK, RunOK, RestOK, FlowOK, TypeOK
<1> QED
  BY <1>1, Inductive, PTL

\* A change becomes one job at most, with any number of subscriptions.
THEOREM OneJobPerChange == Spec => []StoredOnce
<1>1. IInv => StoredOnce
  BY DEF IInv, FlowOK, StoredOnce
<1> QED
  BY <1>1, Inductive, PTL

\* No notice for a live stored subscription is lost on its way into the table.
THEOREM NoNoticeMissed == Spec => []NoneMissed
<1>1. IInv => NoneMissed
  BY DEF IInv, FlowOK
<1> QED
  BY <1>1, Inductive, PTL

-----------------------------------------------------------------------------
(* The renewal margin                                                      *)

Margin == ~abandoned /\ faults + 2 * LAG + 1 < THRESHOLD

\* No row, and no run about to write one, is more than LAG ahead of Graph.
RunLagOK(r) ==
  /\ r.pc \in {"store", "update"} => Asked(r.age) <= graph[r.id].left + LAG
  /\ r.pc \in {"renew", "update"} => r.id = row[r.person].id
LagOK ==
  /\ \A p \in Person : row[p] # None => row[p].left <= graph[row[p].id].left + LAG
  /\ \A s \in Sync : RunLagOK(sync[s])

\* The run has still to look at p, or to end what it does for p.
Serves(r, p) == r.pc # "idle" /\ (p \in r.todo \/ (r.person = p /\ r.pc \in {"renew", "update"}))

\* One run begins in each interval, and it renews p if p is then near its end.
\* These are the ages of the runs that should have done so by now, or be at it,
\* and do not exist: each was lost to a failure of its own.
Ages == 0 .. THRESHOLD - 1
missed == [p \in Person |->
  {a \in Ages : /\ row[p].left + a < THRESHOLD
                /\ ~(a = 0 /\ due)
                /\ \A s \in Sync : ~(Serves(sync[s], p) /\ sync[s].age = a)}]

FewMissed == \A p \in Person : row[p] # None => Cardinality(missed[p]) <= faults

MarginOK == LagOK /\ (Margin => FewMissed)

LEMMA AgesFinite == ASSUME NEW S \in SUBSET Ages PROVE IsFiniteSet(S) /\ Cardinality(S) \in Nat
<1>1. IsFiniteSet(Ages)
  BY ConstantsOK, FS_Interval DEF Ages
<1>2. IsFiniteSet(S)
  BY <1>1, FS_Subset
<1> QED
  BY <1>2, FS_CardinalityType

LEMMA MissedAges == ASSUME NEW p \in Person PROVE missed[p] \in SUBSET Ages /\ missed'[p] \in SUBSET Ages
  BY DEF missed

LEMMA NotMore == ASSUME NEW S \in SUBSET Ages, NEW R \in SUBSET S PROVE Cardinality(R) <= Cardinality(S)
  BY AgesFinite, FS_Subset

LEMMA OneMoreAge ==
  ASSUME NEW S, IsFiniteSet(S), NEW x, NEW R, R \subseteq S \cup {x}
  PROVE  Cardinality(R) <= Cardinality(S) + 1
<1>1. Cardinality(S) \in Nat
  BY FS_CardinalityType
<1>2. IsFiniteSet(S \cup {x}) /\ Cardinality(S \cup {x}) <= Cardinality(S) + 1
  BY <1>1, FS_AddElement
<1>3. Cardinality(S \cup {x}) \in Nat
  BY <1>2, FS_CardinalityType
<1>4. IsFiniteSet(R) /\ Cardinality(R) <= Cardinality(S \cup {x})
  BY <1>2, FS_Subset
<1>5. Cardinality(R) \in Nat
  BY <1>4, FS_CardinalityType
<1> QED
  BY <1>1, <1>2, <1>3, <1>4, <1>5

\* An interval makes every run, and so every loss, one interval older.
LEMMA OlderAges ==
  ASSUME NEW S \in SUBSET Ages
  PROVE  LET T == {a + 1 : a \in S} IN IsFiniteSet(T) /\ Cardinality(T) <= Cardinality(S)
<1> DEFINE T == {a + 1 : a \in S}
           f == [a \in S |-> a + 1]
<1>1. f \in Surjection(S, T)
  BY DEF Surjection
<1>2. IsFiniteSet(S)
  BY AgesFinite
<1> HIDE DEF f, T
<1>3. IsFiniteSet(T) /\ Cardinality(T) <= Cardinality(S)
  BY <1>1, <1>2, FS_Surjection
<1> QED
  BY <1>3 DEF T

LEMMA LeftOK ==
  ASSUME graph \in Seq(Subscription), NEW i \in Ids
  PROVE  graph[i].left \in 0 .. DURATION
<1>1. graph[i] \in Subscription
  BY ElementOfSeq DEF Ids
<1> QED
  BY <1>1 DEF Subscription

\* What the losses leave of the margin: the stored subscription is live.
LEMMA MarginLive ==
  ASSUME IInv, MarginOK, Margin, NEW p \in Person, row[p] # None
  PROVE  Live(row[p].id)
<1> DEFINE r == row[p].left
           g == graph[row[p].id].left
           late == LAG + 1 .. THRESHOLD - 1 - r
<1>1. r \in Nat /\ faults \in Nat /\ LAG \in Nat /\ THRESHOLD \in Nat
  BY ConstantsOK DEF IInv, RowsOK, RestOK, Row
<1>2. g \in Nat
  <2>1. row[p].id \in Ids /\ graph \in Seq(Subscription)
    BY DEF IInv, RowsOK
  <2> QED
    BY <2>1, LeftOK, ConstantsOK
<1>3. r <= g + LAG
  BY DEF MarginOK, LagOK
<1>4. Cardinality(missed[p]) <= faults
  BY DEF MarginOK, FewMissed
<1>5. late \in SUBSET missed[p]
  <2>1. \A s \in Sync : sync[s].age \in 0 .. LAG
    BY DEF IInv, RunsOK, Run
  <2> QED
    BY <1>1, <2>1 DEF missed, Ages
<1>6. Cardinality(late) <= Cardinality(missed[p]) /\ Cardinality(missed[p]) \in Nat
  BY <1>5, MissedAges, NotMore, AgesFinite
<1>7. Cardinality(late) = IF LAG + 1 > THRESHOLD - 1 - r THEN 0 ELSE THRESHOLD - 1 - r - (LAG + 1) + 1
  <2> DEFINE lo == LAG + 1
             hi == THRESHOLD - 1 - r
  <2>1. lo \in Int /\ hi \in Int
    BY <1>1
  <2> HIDE DEF lo, hi
  <2>2. Cardinality(lo .. hi) = IF lo > hi THEN 0 ELSE hi - lo + 1
    BY <2>1, FS_Interval
  <2> QED
    BY <2>2 DEF lo, hi
<1>8. faults + 2 * LAG + 1 < THRESHOLD
  BY DEF Margin
<1> HIDE DEF r, g, late
<1>9. THRESHOLD - 1 - r - LAG <= faults
  BY <1>1, <1>4, <1>6, <1>7
<1>10. r > LAG
  BY <1>1, <1>8, <1>9
<1>11. g > 0
  BY <1>1, <1>2, <1>3, <1>10
<1> QED
  BY <1>11 DEF g, Live

-----------------------------------------------------------------------------
\* What a step other than Tick may do to what is left of the subscriptions.
Fresher == \A i \in Ids : graph'[i].left >= graph[i].left \/ graph'[i].left >= DURATION - LAG

LEMMA AsksEnough == ASSUME NEW a \in 0 .. LAG PROVE Asked(a) >= DURATION - LAG /\ Asked(a) >= THRESHOLD
  BY ConstantsOK DEF Asked

LEMMA SameFresher == ASSUME graph \in Seq(Subscription), UNCHANGED graph PROVE Fresher
<1>1. \A i \in Ids : graph[i].left \in 0 .. DURATION
  BY LeftOK
<1> QED
  BY <1>1, ConstantsOK DEF Fresher

\* A run that goes on with its subscription is no further ahead of Graph.
LEMMA RunLagKept ==
  ASSUME IInv, Grows, RowsStay, Fresher, NEW r \in Run, RunOK(r), RunLagOK(r)
  PROVE  RunLagOK(r)'
<1>1. ASSUME r.pc \in {"store", "update"} PROVE Asked(r.age) <= graph'[r.id].left + LAG
  <2>1. r.id \in Ids /\ r.age \in 0 .. LAG
    BY <1>1 DEF RunOK, Run
  <2>2. graph[r.id].left \in 0 .. DURATION
    BY <2>1, LeftOK DEF IInv
  <2>3. Asked(r.age) \in 0 .. DURATION /\ Asked(r.age) <= graph[r.id].left + LAG
    BY <1>1, <2>1, AskedOK DEF RunLagOK
  <2>4. r.id \in Ids'
    BY <2>1, IdsGrow DEF IInv
  <2>5. graph'[r.id].left \in 0 .. DURATION
    <3>1. graph' \in Seq(Subscription)
      BY DEF Grows
    <3>2. graph'[r.id] \in Subscription
      BY <2>4, <3>1, ElementOfSeq DEF Ids
    <3> QED
      BY <3>2 DEF Subscription
  <2>6. graph'[r.id].left >= graph[r.id].left \/ graph'[r.id].left >= DURATION - LAG
    BY <2>1 DEF Fresher
  <2> QED
    BY <2>2, <2>3, <2>5, <2>6, ConstantsOK
<1>2. ASSUME r.pc \in {"renew", "update"} PROVE r.id = row'[r.person].id
  <2>1. r.person \in Person /\ row[r.person] # None /\ r.id = row[r.person].id
    BY <1>2 DEF RunOK, RunLagOK
  <2> QED
    BY <2>1 DEF RowsStay
<1> QED
  BY <1>1, <1>2 DEF RunLagOK

\* The rows that are not written are no further ahead of Graph.
LEMMA RowLagKept ==
  ASSUME IInv, LagOK, Grows, Fresher, NEW p \in Person, row[p] # None, row'[p] = row[p]
  PROVE  row'[p].left <= graph'[row'[p].id].left + LAG
<1> DEFINE i == row[p].id
<1>1. i \in Ids /\ row[p].left \in 0 .. DURATION /\ row[p].left <= graph[i].left + LAG
  BY DEF IInv, RowsOK, Row, LagOK
<1>2. graph[i].left \in 0 .. DURATION
  BY <1>1, LeftOK DEF IInv
<1>3. i \in Ids' /\ graph' \in Seq(Subscription)
  BY <1>1, IdsGrow DEF IInv, Grows
<1>4. graph'[i] \in Subscription
  BY <1>3, ElementOfSeq DEF Ids
<1>5. graph'[i].left \in 0 .. DURATION
  BY <1>4 DEF Subscription
<1>6. graph'[i].left >= graph[i].left \/ graph'[i].left >= DURATION - LAG
  BY <1>1 DEF Fresher
<1> HIDE DEF i
<1>7. row[p].left <= graph'[i].left + LAG
  BY <1>1, <1>2, <1>5, <1>6, ConstantsOK
<1> QED
  BY <1>7 DEF i

\* A step of one run, after which each row is as before or no further ahead of Graph.
LEMMA LagStep ==
  ASSUME IInv, LagOK, Grows, RowsStay, Fresher, NEW s \in Sync, NEW q \in Run, RunLagOK(q)',
         sync' = [sync EXCEPT ![s] = q],
         \A p \in Person : \/ row'[p] = row[p]
                           \/ row'[p].left <= graph'[row'[p].id].left + LAG
  PROVE  LagOK'
<1>1. \A p \in Person : row'[p] # None => row'[p].left <= graph'[row'[p].id].left + LAG
  BY RowLagKept
<1>2. sync'[s] = q /\ \A t \in Sync \ {s} : sync'[t] = sync[t]
  BY DEF IInv, RunsOK
<1>3. ASSUME NEW t \in Sync PROVE RunLagOK(sync[t])'
  <2>1. CASE t = s
    BY <1>2, <2>1
  <2>2. CASE t # s
    <3>1. PICK r \in Run : r = sync[t] /\ RunOK(r) /\ RunLagOK(r)
      BY DEF IInv, RunsOK, LagOK
    <3>2. RunLagOK(r)'
      BY <3>1, RunLagKept
    <3> QED
      BY <1>2, <2>2, <3>1, <3>2
  <2> QED
    BY <2>1, <2>2
<1> QED
  BY <1>1, <1>3 DEF LagOK, RunLagOK

\* A step of one run, and who it may fail to serve after it.
LEMMA MissedStep ==
  ASSUME IInv, NEW s \in Sync, NEW q \in Run, sync' = [sync EXCEPT ![s] = q], UNCHANGED due,
         NEW p \in Person, row'[p] = row[p]
  PROVE  /\ missed'[p] \subseteq missed[p] \cup {sync[s].age}
         /\ (Serves(sync[s], p) /\ row[p].left + sync[s].age < THRESHOLD => Serves(q, p) /\ q.age = sync[s].age)
              => missed'[p] \subseteq missed[p]
<1>1. sync'[s] = q /\ \A t \in Sync \ {s} : sync'[t] = sync[t]
  BY DEF IInv, RunsOK
<1>2. missed[p] = {a \in Ages : /\ row[p].left + a < THRESHOLD /\ ~(a = 0 /\ due)
                               /\ \A t \in Sync : ~(Serves(sync[t], p) /\ sync[t].age = a)}
  BY DEF missed
<1>3. missed'[p] = {a \in Ages : /\ row[p].left + a < THRESHOLD /\ ~(a = 0 /\ due)
                                /\ \A t \in Sync : ~(Serves(sync'[t], p) /\ sync'[t].age = a)}
  BY DEF missed, Serves
<1> QED
  BY <1>1, <1>2, <1>3

LEMMA LessMargin ==
  ASSUME NEW m \in Nat, NEW n \in Nat, m <= n, n + 2 * LAG + 1 < THRESHOLD
  PROVE  m + 2 * LAG + 1 < THRESHOLD
<1>1. LAG \in Nat /\ THRESHOLD \in Nat
  BY ConstantsOK
<1> QED
  BY <1>1

LEMMA MarginEarlier == ASSUME IInv, abandoned => abandoned', Fail \/ UNCHANGED faults, Margin' PROVE Margin
<1>1. faults \in Nat /\ faults' \in Nat /\ faults <= faults'
  BY DEF IInv, RestOK, Fail
<1>2. ~abandoned
  BY Zenon DEF Margin
<1>3. faults' + 2 * LAG + 1 < THRESHOLD
  BY DEF Margin
<1> QED
  BY <1>1, <1>2, <1>3, LessMargin DEF Margin

\* The same for everybody: somebody whose row is not renewed is still served,
\* unless the step fails.
LEMMA FewStep ==
  ASSUME IInv, MarginOK, RowsStay, NEW s \in Sync, NEW q \in Run, sync' = [sync EXCEPT ![s] = q], UNCHANGED due,
         abandoned \in BOOLEAN, abandoned => abandoned', Fail \/ UNCHANGED faults, Margin',
         \A p \in Person : row'[p] # None =>
           \/ row'[p].left >= THRESHOLD
           \/ /\ row'[p] = row[p]
              /\ \/ Fail
                 \/ Serves(sync[s], p) /\ row[p].left + sync[s].age < THRESHOLD => Serves(q, p) /\ q.age = sync[s].age
  PROVE  FewMissed'
<1>1. faults \in Nat /\ faults' \in Nat /\ faults' >= faults /\ (Fail => faults' = faults + 1)
  BY DEF IInv, RestOK, Fail
<1>2. Margin
  BY MarginEarlier
<1>3. FewMissed
  BY <1>2 DEF MarginOK
<1>4. ASSUME NEW p \in Person, row'[p] # None PROVE Cardinality(missed'[p]) <= faults'
  <2>1. CASE row'[p].left >= THRESHOLD
    <3>1. missed'[p] = {}
      <4>1. row'[p].left \in Nat
        BY <1>4 DEF RowsStay, Row
      <4> QED
        BY <2>1, <4>1, ConstantsOK DEF missed, Ages
    <3> QED
      BY <1>1, <3>1, FS_EmptySet
  <2>2. CASE row'[p] = row[p] /\ Fail
    <3>1. missed'[p] \subseteq missed[p] \cup {sync[s].age}
      BY <2>2, MissedStep
    <3>2. Cardinality(missed'[p]) <= Cardinality(missed[p]) + 1
      BY <3>1, MissedAges, AgesFinite, OneMoreAge
    <3>3. Cardinality(missed[p]) <= faults /\ Cardinality(missed[p]) \in Nat /\ Cardinality(missed'[p]) \in Nat
      BY <1>3, <1>4, <2>2, MissedAges, AgesFinite DEF FewMissed
    <3> QED
      BY <1>1, <2>2, <3>2, <3>3
  <2>3. CASE row'[p] = row[p] /\ (Serves(sync[s], p) /\ row[p].left + sync[s].age < THRESHOLD
                                    => Serves(q, p) /\ q.age = sync[s].age)
    <3>1. missed'[p] \subseteq missed[p]
      BY <2>3, MissedStep
    <3>2. Cardinality(missed'[p]) <= Cardinality(missed[p])
      BY <3>1, MissedAges, NotMore
    <3>3. Cardinality(missed[p]) <= faults /\ Cardinality(missed[p]) \in Nat /\ Cardinality(missed'[p]) \in Nat
      BY <1>3, <1>4, <2>3, MissedAges, AgesFinite DEF FewMissed
    <3> QED
      BY <1>1, <3>2, <3>3
  <2> QED
    BY <1>4, <2>1, <2>2, <2>3
<1> QED
  BY <1>4 DEF FewMissed

-----------------------------------------------------------------------------
\* Both parts of MarginOK, for a step of one run.
LEMMA RunStep ==
  ASSUME IInv, MarginOK, Grows, RowsStay, Fresher, NEW s \in Sync, NEW q \in Run, RunLagOK(q)',
         sync' = [sync EXCEPT ![s] = q], UNCHANGED due, abandoned => abandoned', Fail \/ UNCHANGED faults,
         \A p \in Person : row'[p] # row[p] =>
           row'[p].left <= graph'[row'[p].id].left + LAG /\ row'[p].left >= THRESHOLD,
         ASSUME Margin', NEW p \in Person, row[p] # None, Serves(sync[s], p), row[p].left + sync[s].age < THRESHOLD
         PROVE  Fail \/ (Serves(q, p) /\ q.age = sync[s].age) \/ row'[p] # row[p]
  PROVE  MarginOK'
<1>1. LagOK'
  BY LagStep DEF MarginOK
<1>2. ASSUME Margin' PROVE FewMissed'
  <2>1. \A p \in Person : row'[p] # None =>
           \/ row'[p].left >= THRESHOLD
           \/ /\ row'[p] = row[p]
              /\ \/ Fail
                 \/ Serves(sync[s], p) /\ row[p].left + sync[s].age < THRESHOLD => Serves(q, p) /\ q.age = sync[s].age
    BY <1>2
  <2>2. abandoned \in BOOLEAN
    BY DEF IInv, RestOK
  <2> QED
    BY <1>2, <2>1, <2>2, FewStep
<1> QED
  BY <1>1, <1>2 DEF MarginOK

LEMMA InitMargin == Init => MarginOK
  BY DEF Init, MarginOK, LagOK, RunLagOK, FewMissed, Idle

\* A run that begins serves everybody, so it makes up for the timer being due.
LEMMA StartMargin == ASSUME IInv, MarginOK, NEW s \in Sync, StartSync(s) PROVE MarginOK'
<1>1. UNCHANGED <<row, graph, abandoned, faults>> /\ sync[s].pc = "idle" /\ sync \in [Sync -> Run]
  BY DEF StartSync, tables, world, mailboxes, IInv, RunsOK
<1> DEFINE q == [Idle EXCEPT !.pc = "next", !.todo = Person]
<1>2. q \in Run /\ q.pc = "next" /\ q.todo = Person /\ q.age = 0
  BY BegunOK DEF Idle
<1>3. sync' = [sync EXCEPT ![s] = q]
  BY DEF StartSync
<1> HIDE DEF q
<1>4. Grows /\ RowsStay /\ Fresher /\ RunLagOK(q)'
  BY <1>1, <1>2, SameTables, SameFresher DEF IInv, RunLagOK
<1>5. LagOK'
  BY <1>1, <1>2, <1>3, <1>4, LagStep DEF MarginOK
<1>6. ASSUME NEW p \in Person PROVE missed'[p] \subseteq missed[p]
  <2>1. missed[p] = {a \in Ages : /\ row[p].left + a < THRESHOLD /\ ~(a = 0 /\ due)
                                  /\ \A t \in Sync : ~(Serves(sync[t], p) /\ sync[t].age = a)}
    BY DEF missed
  <2>2. missed'[p] = {a \in Ages : /\ row[p].left + a < THRESHOLD /\ ~(a = 0 /\ due')
                                   /\ \A t \in Sync : ~(Serves(sync'[t], p) /\ sync'[t].age = a)}
    BY <1>1 DEF missed, Serves
  <2>3. sync'[s] = q /\ \A t \in Sync \ {s} : sync'[t] = sync[t]
    BY <1>1, <1>3
  <2>4. Serves(sync'[s], p) /\ sync'[s].age = 0 /\ ~Serves(sync[s], p)
    BY <1>1, <1>2, <2>3 DEF Serves
  <2> QED
    BY <2>1, <2>2, <2>3, <2>4
<1>7. ASSUME Margin', NEW p \in Person, row'[p] # None PROVE Cardinality(missed'[p]) <= faults'
  <2>1. Cardinality(missed[p]) <= faults
    BY <1>1, <1>7 DEF MarginOK, FewMissed, Margin
  <2>2. Cardinality(missed'[p]) <= Cardinality(missed[p])
    BY <1>6, MissedAges, NotMore
  <2>3. faults \in Nat /\ Cardinality(missed[p]) \in Nat /\ Cardinality(missed'[p]) \in Nat
    BY MissedAges, AgesFinite DEF IInv, RestOK
  <2> QED
    BY <1>1, <2>1, <2>2, <2>3
<1>8. Margin' => FewMissed'
  BY <1>7 DEF FewMissed
<1> QED
  BY <1>5, <1>8 DEF MarginOK

LEMMA LookMargin == ASSUME IInv, MarginOK, NEW s \in Sync, NEW p \in Person, Look(s, p) PROVE MarginOK'
<1>1. UNCHANGED <<row, graph, due, abandoned, faults>>
  BY DEF Look, tables, world, mailboxes
<1>2. Grows /\ RowsStay /\ Fresher
  BY <1>1, SameTables, SameFresher DEF IInv
<1>3. sync[s] \in Run /\ sync[s].pc = "next" /\ p \in sync[s].todo
  BY DEF Look, IInv, RunsOK
<1> DEFINE rest == [sync[s] EXCEPT !.todo = @ \ {p}]
           creating == [rest EXCEPT !.pc = "create", !.person = p]
           renewing == [rest EXCEPT !.pc = "renew", !.person = p, !.id = row[p].id]
<1>4. rest \in Run /\ rest.pc = "next" /\ rest.todo = sync[s].todo \ {p} /\ rest.age = sync[s].age
  BY <1>3 DEF Run
<1>5. /\ creating \in Run /\ creating.pc = "create"
      /\ creating.todo = sync[s].todo \ {p} /\ creating.age = sync[s].age
  BY <1>3 DEF Run
<1>6. ASSUME row[p] # None
      PROVE  /\ renewing \in Run /\ renewing.pc = "renew" /\ renewing.person = p /\ renewing.id = row[p].id
             /\ renewing.todo = sync[s].todo \ {p} /\ renewing.age = sync[s].age
  <2>1. row[p].id \in Nat
    BY <1>6 DEF IInv, RowsOK, Row
  <2> QED
    BY <1>3, <2>1 DEF Run
<1>7. \/ row[p] = None /\ sync' = [sync EXCEPT ![s] = creating]
      \/ row[p] # None /\ sync' = [sync EXCEPT ![s] = renewing]
      \/ row[p] # None /\ ~(row[p].left + sync[s].age < THRESHOLD) /\ sync' = [sync EXCEPT ![s] = rest]
  BY DEF Look, Missing, NearEnd
<1> HIDE DEF rest, creating, renewing
<1>8. PICK q \in Run : /\ sync' = [sync EXCEPT ![s] = q] /\ q.todo = sync[s].todo \ {p} /\ q.age = sync[s].age
                       /\ q.pc \in {"next", "create", "renew"}
                       /\ q.pc = "renew" => q.person = p /\ q.id = row[p].id
                       /\ row[p] # None /\ row[p].left + sync[s].age < THRESHOLD => q.pc = "renew"
  BY <1>4, <1>5, <1>6, <1>7
<1>9. RunLagOK(q)'
  BY <1>1, <1>8 DEF RunLagOK
<1>10. ASSUME NEW o \in Person, row[o] # None, Serves(sync[s], o), row[o].left + sync[s].age < THRESHOLD
       PROVE  Serves(q, o)
  BY <1>3, <1>8, <1>10 DEF Serves
<1> QED
  BY <1>1, <1>2, <1>8, <1>9, <1>10, RunStep

\* What NextPerson and EndRun leave of a run.
LEMMA NextPersonRun ==
  ASSUME IInv, NEW s \in Sync, NextPerson(s)
  PROVE  \E q \in Run : /\ sync' = [sync EXCEPT ![s] = q] /\ q.pc = "next"
                        /\ q.todo = sync[s].todo /\ q.age = sync[s].age
<1> DEFINE next == [sync[s] EXCEPT !.pc = "next", !.person = None, !.id = 0]
<1>1. sync[s] \in Run
  BY DEF IInv, RunsOK
<1>2. next \in Run /\ next.pc = "next" /\ next.todo = sync[s].todo /\ next.age = sync[s].age
  BY <1>1 DEF Run
<1>3. sync' = [sync EXCEPT ![s] = next]
  BY DEF NextPerson
<1> QED
  BY <1>2, <1>3

\* A run that ends serves nobody any more: it had nobody left, failed, or left
\* somebody behind because of an inactive mailbox.
LEMMA EndMargin ==
  ASSUME IInv, MarginOK, NEW s \in Sync, EndRun(s), UNCHANGED <<row, graph, due>>,
         abandoned => abandoned', Fail \/ UNCHANGED faults,
         Margin' => Fail \/ \A p \in Person : ~Serves(sync[s], p)
  PROVE  MarginOK'
<1>1. Grows /\ RowsStay /\ Fresher
  BY SameTables, SameFresher DEF IInv
<1>2. Idle \in Run /\ Idle.pc = "idle"
  BY IdleOK
<1>3. PICK q \in Run : q = Idle /\ q.pc = "idle" /\ sync' = [sync EXCEPT ![s] = q]
  BY <1>2 DEF EndRun
<1>4. RunLagOK(q)'
  BY <1>3 DEF RunLagOK
<1> QED
  BY <1>1, <1>3, <1>4, RunStep

LEMMA CreateMargin == ASSUME IInv, MarginOK, NEW s \in Sync, Create(s) PROVE MarginOK'
<1> DEFINE e == [person |-> sync[s].person, left |-> Asked(sync[s].age)]
<1>1. sync[s] \in Run /\ sync[s].pc = "create" /\ sync[s].person \in Person /\ e \in Subscription
      /\ e.left = Asked(sync[s].age) /\ Asked(sync[s].age) \in 0 .. DURATION
  BY RunAge DEF IInv, RunsOK, RunOK, Create, Subscription
<1>2. UNCHANGED <<row, due>> /\ (abandoned => abandoned') /\ (Fail \/ UNCHANGED faults)
  <2>1. UNCHANGED <<row, due>> /\ (Fail \/ UNCHANGED faults)
    BY DEF Create, tables
  <2>2. abandoned' = (abandoned \/ sync[s].todo # {}) \/ abandoned' = abandoned
    BY DEF Create
  <2>3. abandoned => abandoned'
    BY <2>2, Zenon
  <2> QED
    BY <2>1, <2>3
<1>3. graph \in Seq(Subscription) /\ RowsOK
  BY DEF IInv
<1>4. graph' = Append(graph, e) \/ UNCHANGED graph
  BY DEF Create
<1>5. Grows
  BY <1>1, <1>2, <1>3, <1>4, MadeOK, SameTables
<1>6. RowsStay
  BY <1>2, <1>3 DEF RowsStay, RowsOK
<1>7. Fresher
  <2>1. CASE UNCHANGED graph
    BY <1>3, <2>1, SameFresher
  <2>2. CASE graph' = Append(graph, e)
    <3>1. \A i \in Ids : graph'[i] = graph[i] /\ graph[i].left \in 0 .. DURATION
      BY <1>1, <1>3, <2>2, AppendProperties, LeftOK DEF Ids
    <3> QED
      BY <3>1, ConstantsOK DEF Fresher
  <2> QED
    BY <1>4, <2>1, <2>2
<1>8. CASE EndRun(s) /\ UNCHANGED graph /\ abandoned' = (abandoned \/ sync[s].todo # {})
  <2>1. Margin' => \A p \in Person : ~Serves(sync[s], p)
    BY <1>1, <1>8 DEF Margin, Serves
  <2> QED
    BY <1>2, <1>8, <2>1, EndMargin
<1>9. CASE NextPerson(s)
  <2>1. PICK q \in Run : /\ sync' = [sync EXCEPT ![s] = q] /\ q.pc = "next"
                         /\ q.todo = sync[s].todo /\ q.age = sync[s].age
    BY <1>9, NextPersonRun
  <2>2. RunLagOK(q)'
    BY <2>1 DEF RunLagOK
  <2>3. \A p \in Person : Serves(sync[s], p) => Serves(q, p)
    BY <1>1, <2>1 DEF Serves
  <2> QED
    BY <1>2, <1>5, <1>6, <1>7, <2>1, <2>2, <2>3, RunStep
<1>10. CASE graph' = Append(graph, e) /\ sync' = [sync EXCEPT ![s].pc = "store", ![s].id = Len(graph')]
  <2> DEFINE storing == [sync[s] EXCEPT !.pc = "store", !.id = Len(graph')]
  <2>1. Len(graph') \in Nat /\ graph'[Len(graph')] = e
    BY <1>1, <1>3, <1>5, <1>10, MadeOK, LenProperties DEF Grows
  <2>2. storing \in Run /\ storing.pc = "store" /\ storing.id = Len(graph')
        /\ storing.todo = sync[s].todo /\ storing.age = sync[s].age
    BY <1>1, <2>1 DEF Run
  <2>3. sync' = [sync EXCEPT ![s] = storing]
    BY <1>10
  <2> HIDE DEF storing
  <2>4. PICK q \in Run : q = storing
    BY <2>2
  <2>5. Asked(q.age) <= graph'[q.id].left + LAG
    <3>1. graph'[q.id].left = Asked(q.age) /\ Asked(q.age) \in 0 .. DURATION
      BY <1>1, <2>1, <2>2, <2>4
    <3> QED
      BY <3>1, ConstantsOK
  <2>6. RunLagOK(q)'
    BY <2>2, <2>4, <2>5 DEF RunLagOK
  <2>7. \A p \in Person : Serves(sync[s], p) => Serves(q, p) /\ q.age = sync[s].age
    BY <1>1, <2>2, <2>4 DEF Serves
  <2> QED
    BY <1>2, <1>5, <1>6, <1>7, <2>3, <2>4, <2>6, <2>7, RunStep
<1> QED
  BY <1>8, <1>9, <1>10 DEF Create

\* A row that is written is out of the renewal cutoff.
LEMMA RowMargin == ASSUME IInv, MarginOK, NEW s \in Sync, Store(s) \/ Update(s) PROVE MarginOK'
<1> DEFINE p == sync[s].person
           n == Asked(sync[s].age)
<1>1. graph \in Seq(Subscription) /\ RowsOK /\ UNCHANGED <<graph, due, abandoned>> /\ (Fail \/ UNCHANGED faults)
  BY DEF Store, Update, world, mailboxes, IInv
<1>2. sync[s] \in Run /\ sync[s].age \in 0 .. LAG /\ sync[s].pc \in {"store", "update"} /\ RunOK(sync[s])
      /\ RunLagOK(sync[s])
  BY DEF IInv, RunsOK, Run, Store, Update, MarginOK, LagOK
<1>3. p \in Person /\ sync[s].id \in Ids /\ graph[sync[s].id].person = p /\ n <= graph[sync[s].id].left + LAG
  BY <1>2 DEF RunOK, RunLagOK
<1>4. n \in 0 .. DURATION /\ n >= THRESHOLD
  BY <1>2, AskedOK, AsksEnough
<1>5. NextPerson(s)
  BY DEF Store, Update
<1>6. PICK q \in Run : /\ sync' = [sync EXCEPT ![s] = q] /\ q.pc = "next"
                       /\ q.todo = sync[s].todo /\ q.age = sync[s].age
  BY <1>5, NextPersonRun
<1>7. RunLagOK(q)'
  BY <1>6 DEF RunLagOK
<1>8. Fresher
  BY <1>1, SameFresher
<1>9. \/ UNCHANGED row /\ (Fail \/ sync[s].pc = "store")
      \/ /\ row' = [row EXCEPT ![p] = [id |-> sync[s].id, left |-> n]] /\ row[p] = None
      \/ /\ row' = [row EXCEPT ![p].left = n] /\ sync[s].pc = "update"
  BY DEF Store, Update
<1>10. CASE UNCHANGED row /\ (Fail \/ sync[s].pc = "store")
  <2>1. Grows /\ RowsStay
    BY <1>1, <1>10, SameTables
  <2>2. \A o \in Person : Serves(sync[s], o) => Fail \/ Serves(q, o)
    BY <1>6, <1>10 DEF Serves
  <2> QED
    BY <1>1, <1>6, <1>7, <1>8, <1>10, <2>1, <2>2, RunStep
<1>11. ASSUME NEW r \in Row, r.id = sync[s].id, r.left = n, row' = [row EXCEPT ![p] = r],
              row[p] # None => row[p].id = r.id
       PROVE  MarginOK'
  <2>1. Grows /\ RowsStay
    BY <1>1, <1>3, <1>11, WriteRow
  <2>2. row'[p] = r /\ \A o \in Person \ {p} : row'[o] = row[o]
    BY <1>1, <1>3, <1>11 DEF RowsOK
  <2>3. row'[p].left <= graph'[row'[p].id].left + LAG /\ row'[p].left >= THRESHOLD
    BY <1>1, <1>3, <1>4, <1>11, <2>2
  <2>4. row[p] = None \/ row'[p] # row[p] \/ row[p].left >= THRESHOLD
    BY <1>4, <1>11, <2>2
  <2>5. row[p] # None /\ row[p].left + sync[s].age < THRESHOLD => row'[p] # row[p]
    <3>1. row[p] # None => row[p].left \in Nat
      BY <1>1, <1>3 DEF RowsOK, Row
    <3> QED
      BY <1>2, <2>4, <3>1, ConstantsOK
  <2>6. \A o \in Person \ {p} : Serves(sync[s], o) => Serves(q, o)
    BY <1>6 DEF Serves
  <2>7. ASSUME NEW o \in Person, row[o] # None, Serves(sync[s], o), row[o].left + sync[s].age < THRESHOLD
        PROVE  Serves(q, o) \/ row'[o] # row[o]
    BY <2>5, <2>6, <2>7
  <2>8. \A o \in Person : row'[o] # row[o] =>
          row'[o].left <= graph'[row'[o].id].left + LAG /\ row'[o].left >= THRESHOLD
    BY <2>2, <2>3
  <2> HIDE DEF p, n
  <2> QED
    BY <1>1, <1>6, <1>7, <1>8, <2>1, <2>7, <2>8, RunStep
<1>12. CASE row' = [row EXCEPT ![p] = [id |-> sync[s].id, left |-> n]] /\ row[p] = None
  <2> DEFINE r == [id |-> sync[s].id, left |-> n]
  <2>1. sync[s].id \in Nat
    BY <1>1, <1>3, LenProperties DEF Ids
  <2>2. r \in Row /\ r.id = sync[s].id /\ r.left = n
    BY <1>4, <2>1 DEF Row
  <2>3. row' = [row EXCEPT ![p] = r]
    BY <1>12
  <2> HIDE DEF r, p, n
  <2> QED
    BY <1>11, <1>12, <2>2, <2>3
<1>13. CASE row' = [row EXCEPT ![p].left = n] /\ sync[s].pc = "update"
  <2> DEFINE r == [row[p] EXCEPT !.left = n]
  <2>1. row[p] # None /\ row[p] \in Row /\ row[p].id = sync[s].id
    BY <1>1, <1>2, <1>3, <1>13 DEF RowsOK, RunOK, RunLagOK
  <2>2. r \in Row /\ r.id = sync[s].id /\ r.left = n
    BY <1>4, <2>1 DEF Row
  <2>3. row' = [row EXCEPT ![p] = r]
    BY <1>13
  <2> HIDE DEF r, p, n
  <2> QED
    BY <1>11, <2>1, <2>2, <2>3
<1> QED
  BY <1>9, <1>10, <1>12, <1>13

LEMMA RenewedFresher ==
  ASSUME graph \in Seq(Subscription), NEW i \in Ids, NEW n \in 0 .. DURATION, n >= DURATION - LAG,
         graph' = [graph EXCEPT ![i].left = n]
  PROVE  Fresher /\ graph'[i].left = n
<1>1. graph[i] \in Subscription /\ graph \in [1 .. Len(graph) -> Subscription]
  BY ElementOfSeq DEF Ids
<1>2. graph'[i] = [graph[i] EXCEPT !.left = n] /\ \A j \in Ids \ {i} : graph'[j] = graph[j]
  BY <1>1 DEF Ids
<1>3. graph'[i].left = n
  BY <1>1, <1>2 DEF Subscription
<1>4. \A j \in Ids : graph[j].left \in 0 .. DURATION
  BY LeftOK
<1>5. ASSUME NEW j \in Ids PROVE graph'[j].left >= graph[j].left \/ graph'[j].left >= DURATION - LAG
  <2>1. CASE j = i
    BY <1>3, <2>1
  <2>2. CASE j # i
    BY <1>2, <1>4, <2>2
  <2> QED
    BY <2>1, <2>2
<1> QED
  BY <1>3, <1>5 DEF Fresher

\* While the margin lasts, a run finds the subscription it renews alive, so it
\* gives the renewal up only to a failure.
LEMMA RenewMargin == ASSUME IInv, MarginOK, NEW s \in Sync, Renew(s) PROVE MarginOK'
<1> DEFINE p == sync[s].person
           i == sync[s].id
           n == Asked(sync[s].age)
<1>1. UNCHANGED <<row, due, abandoned>> /\ (Fail \/ UNCHANGED faults)
  BY DEF Renew, tables, world, mailboxes
<1>2. graph \in Seq(Subscription) /\ RowsOK /\ sync[s] \in Run /\ sync[s].age \in 0 .. LAG /\ sync[s].pc = "renew"
  BY DEF IInv, RunsOK, Run, Renew
<1>3. p \in Person /\ i \in Ids /\ row[p] # None /\ i = row[p].id
  BY <1>2 DEF IInv, RunsOK, RunOK, MarginOK, LagOK, RunLagOK
<1>4. n \in 0 .. DURATION /\ n >= DURATION - LAG
  BY <1>2, AskedOK, AsksEnough
<1>5. UNCHANGED graph \/ graph' = [graph EXCEPT ![i].left = n]
  BY DEF Renew
<1>6. Grows /\ Fresher
  <2> HIDE DEF i, n
  <2> QED
    BY <1>1, <1>2, <1>3, <1>4, <1>5, RenewedOK, RenewedFresher, SameTables, SameFresher
<1>7. RowsStay
  BY <1>1, <1>2 DEF RowsStay, RowsOK
<1>8. CASE graph' = [graph EXCEPT ![i].left = n] /\ sync' = [sync EXCEPT ![s].pc = "update"]
  <2> DEFINE updating == [sync[s] EXCEPT !.pc = "update"]
  <2>1. updating \in Run /\ updating.pc = "update" /\ updating.person = p /\ updating.id = i
        /\ updating.todo = sync[s].todo /\ updating.age = sync[s].age
    BY <1>2 DEF Run
  <2>2. sync' = [sync EXCEPT ![s] = updating]
    BY <1>8
  <2> HIDE DEF updating
  <2>3. PICK q \in Run : q = updating
    BY <2>1
  <2>4. graph'[i].left = n
    <3> HIDE DEF i, n
    <3> QED
      BY <1>2, <1>3, <1>4, <1>8, RenewedFresher
  <2>5. Asked(q.age) <= graph'[q.id].left + LAG
    <3>1. q.age = sync[s].age /\ q.id = i
      BY <2>1, <2>3
    <3>2. Asked(q.age) = n /\ graph'[q.id].left = n
      BY <2>4, <3>1
    <3> QED
      BY <1>4, <3>2, ConstantsOK
  <2>6. q.id = row'[q.person].id
    BY <1>1, <1>3, <2>1, <2>3
  <2>7. RunLagOK(q)'
    BY <2>5, <2>6 DEF RunLagOK
  <2>8. \A o \in Person : Serves(sync[s], o) => Serves(q, o) /\ q.age = sync[s].age
    BY <1>2, <2>1, <2>3 DEF Serves
  <2> QED
    BY <1>1, <1>6, <1>7, <2>2, <2>3, <2>7, <2>8, RunStep
<1>9. CASE NextPerson(s) /\ (Fail \/ ~Live(i))
  <2>1. PICK q \in Run : /\ sync' = [sync EXCEPT ![s] = q] /\ q.pc = "next"
                         /\ q.todo = sync[s].todo /\ q.age = sync[s].age
    BY <1>9, NextPersonRun
  <2>2. RunLagOK(q)'
    BY <2>1 DEF RunLagOK
  <2>3. Margin' => Fail
    <3> SUFFICES ASSUME Margin' PROVE Fail
      OBVIOUS
    <3>1. Margin
      BY <1>1, MarginEarlier
    <3>2. Live(row[p].id)
      BY <1>3, <3>1, MarginLive
    <3> QED
      BY <1>3, <1>9, <3>2
  <2> QED
    BY <1>1, <1>6, <1>7, <2>1, <2>2, <2>3, RunStep
<1> QED
  BY <1>8, <1>9 DEF Renew

LEMMA StopMargin == ASSUME IInv, MarginOK, NEW s \in Sync, EndSync(s) \/ Crash(s) PROVE MarginOK'
<1>1. UNCHANGED <<row, graph, due, abandoned>> /\ EndRun(s) /\ (Fail \/ UNCHANGED faults)
  BY DEF EndSync, Crash, tables, world, mailboxes
<1>2. Fail \/ \A p \in Person : ~Serves(sync[s], p)
  BY DEF EndSync, Crash, Serves
<1> QED
  BY <1>1, <1>2, EndMargin

-----------------------------------------------------------------------------
\* What an interval does to a row, a subscription and a run.
LEMMA TickLeft ==
  ASSUME IInv, Tick
  PROVE  /\ \A p \in Person : row'[p] # None =>
              /\ row[p] # None /\ row'[p].id = row[p].id
              /\ row[p].left \in 0 .. DURATION /\ row'[p].left = Less(row[p].left)
         /\ \A i \in Ids : graph[i].left \in 0 .. DURATION /\ graph'[i].left = Less(graph[i].left)
         /\ \A s \in Sync : sync[s].pc # "idle" =>
              /\ sync'[s].pc = sync[s].pc /\ sync'[s].todo = sync[s].todo /\ sync'[s].person = sync[s].person
              /\ sync'[s].id = sync[s].id /\ sync[s].age \in 0 .. LAG /\ sync[s].age < LAG
              /\ sync'[s].age = sync[s].age + 1
         /\ \A s \in Sync : sync[s].pc = "idle" => sync'[s].pc = "idle"
<1>1. ASSUME NEW p \in Person, row'[p] # None
      PROVE  /\ row[p] # None /\ row'[p].id = row[p].id
             /\ row[p].left \in 0 .. DURATION /\ row'[p].left = Less(row[p].left)
  <2>1. row'[p] = IF row[p] = None THEN None ELSE [row[p] EXCEPT !.left = Less(@)]
    BY DEF Tick
  <2>2. row[p] # None /\ row[p] \in Row
    BY <1>1, <2>1 DEF IInv, RowsOK
  <2> QED
    BY <2>1, <2>2 DEF Row
<1>2. ASSUME NEW i \in Ids PROVE graph[i].left \in 0 .. DURATION /\ graph'[i].left = Less(graph[i].left)
  <2>1. graph[i] \in Subscription
    BY ElementOfSeq DEF Ids, IInv
  <2>2. graph'[i] = [graph[i] EXCEPT !.left = Less(@)]
    BY DEF Tick
  <2> QED
    BY <2>1, <2>2 DEF Subscription
<1>3. ASSUME NEW s \in Sync, sync[s].pc # "idle"
      PROVE  /\ sync'[s].pc = sync[s].pc /\ sync'[s].todo = sync[s].todo /\ sync'[s].person = sync[s].person
             /\ sync'[s].id = sync[s].id /\ sync[s].age \in 0 .. LAG /\ sync[s].age < LAG
             /\ sync'[s].age = sync[s].age + 1
  <2>1. sync[s] \in Run /\ sync[s].age < LAG /\ sync'[s] = [sync[s] EXCEPT !.age = @ + 1]
    BY <1>3 DEF Tick, IInv, RunsOK
  <2> QED
    BY <2>1 DEF Run
<1>4. ASSUME NEW s \in Sync, sync[s].pc = "idle" PROVE sync'[s].pc = "idle"
  <2>1. sync'[s] = Idle
    BY <1>4 DEF Tick
  <2> QED
    BY <2>1, IdleOK
<1> QED
  BY <1>1, <1>2, <1>3, <1>4

LEMMA LessLag ==
  ASSUME NEW m \in 0 .. DURATION, NEW n \in 0 .. DURATION, m <= n + LAG
  PROVE  Less(m) <= Less(n) + LAG /\ (m > 0 => m - 1 <= Less(n) + LAG)
  BY ConstantsOK DEF Less

LEMMA TickLag == ASSUME IInv, LagOK, Tick PROVE LagOK'
<1>1. ASSUME NEW p \in Person, row'[p] # None PROVE row'[p].left <= graph'[row'[p].id].left + LAG
  <2> DEFINE i == row[p].id
  <2>1. row[p] # None /\ row'[p].id = i /\ row[p].left \in 0 .. DURATION /\ row'[p].left = Less(row[p].left)
    BY <1>1, TickLeft
  <2>2. i \in Ids /\ row[p].left <= graph[i].left + LAG
    BY <2>1 DEF LagOK, IInv, RowsOK
  <2>3. graph[i].left \in 0 .. DURATION /\ graph'[i].left = Less(graph[i].left)
    BY <2>2, TickLeft
  <2> HIDE DEF i
  <2>4. Less(row[p].left) <= Less(graph[i].left) + LAG
    BY <2>1, <2>2, <2>3, LessLag
  <2> QED
    BY <2>1, <2>3, <2>4
<1>2. ASSUME NEW s \in Sync PROVE RunLagOK(sync[s])'
  <2>1. CASE sync[s].pc = "idle"
    <3>1. sync'[s].pc = "idle"
      BY <2>1, TickLeft
    <3> QED
      BY <3>1 DEF RunLagOK
  <2>2. CASE sync[s].pc # "idle"
    <3>1. PICK r \in Run : r = sync[s] /\ RunOK(r) /\ RunLagOK(r)
      BY DEF IInv, RunsOK, LagOK
    <3>2. sync'[s].pc = r.pc /\ sync'[s].person = r.person /\ sync'[s].id = r.id
          /\ sync'[s].age = r.age + 1 /\ r.age \in 0 .. LAG /\ r.age < LAG
      BY <2>2, <3>1, TickLeft
    <3>3. ASSUME r.pc \in {"store", "update"} PROVE Asked(r.age + 1) <= graph'[r.id].left + LAG
      <4>1. r.id \in Ids /\ Asked(r.age) <= graph[r.id].left + LAG
        BY <3>1, <3>3 DEF RunOK, RunLagOK
      <4>2. graph[r.id].left \in 0 .. DURATION /\ graph'[r.id].left = Less(graph[r.id].left)
        BY <4>1, TickLeft
      <4>3. Asked(r.age) \in 0 .. DURATION /\ Asked(r.age) > 0 /\ Asked(r.age + 1) = Asked(r.age) - 1
        BY <3>2, ConstantsOK DEF Asked
      <4> QED
        BY <4>1, <4>2, <4>3, LessLag
    <3>4. ASSUME r.pc \in {"renew", "update"} PROVE r.id = row'[r.person].id
      <4>1. r.person \in Person /\ row[r.person] # None /\ r.id = row[r.person].id
        BY <3>1, <3>4 DEF RunOK, RunLagOK
      <4>2. row'[r.person] = [row[r.person] EXCEPT !.left = Less(@)] /\ row[r.person] \in Row
        BY <4>1 DEF Tick, IInv, RowsOK
      <4> QED
        BY <4>1, <4>2 DEF Row
    <3> QED
      BY <3>2, <3>3, <3>4 DEF RunLagOK
  <2> QED
    BY <2>1, <2>2
<1> QED
  BY <1>1, <1>2 DEF LagOK

\* The run of the interval that ends has begun, or the interval is a failure.
LEMMA TickMargin == ASSUME IInv, MarginOK, Tick PROVE MarginOK'
<1>1. UNCHANGED abandoned /\ due' = TRUE /\ (due => Fail) /\ (Fail \/ UNCHANGED faults)
  BY DEF Tick, world, mailboxes
<1>2. ASSUME Margin', NEW p \in Person, row'[p] # None PROVE Cardinality(missed'[p]) <= faults'
  <2> DEFINE older == {a + 1 : a \in missed[p]}
  <2>1. row[p] # None /\ row[p].left \in 0 .. DURATION /\ row'[p].left = Less(row[p].left)
    BY <1>2, TickLeft
  <2>2. ASSUME NEW b \in missed'[p], ~(b = 1 /\ due) PROVE b \in older
    <3>1. b \in Ages /\ row'[p].left + b < THRESHOLD /\ ~(b = 0 /\ due')
      BY DEF missed
    <3>2. b - 1 \in Ages /\ row[p].left + (b - 1) < THRESHOLD /\ b = (b - 1) + 1
      BY <1>1, <2>1, <3>1, ConstantsOK DEF Ages, Less
    <3>3. ~(b - 1 = 0 /\ due)
      BY <2>2, <3>1 DEF Ages
    <3>4. ASSUME NEW s \in Sync, Serves(sync[s], p), sync[s].age = b - 1 PROVE FALSE
      <4>1. sync[s].pc # "idle"
        BY <3>4 DEF Serves
      <4>2. /\ sync'[s].pc = sync[s].pc /\ sync'[s].todo = sync[s].todo /\ sync'[s].person = sync[s].person
            /\ sync[s].age \in 0 .. LAG /\ sync'[s].age = sync[s].age + 1
        BY <4>1, TickLeft
      <4>3. Serves(sync'[s], p)
        BY <3>4, <4>2 DEF Serves
      <4>4. sync'[s].age = b
        BY <3>1, <3>4, <4>2 DEF Ages
      <4>5. ~(Serves(sync'[s], p) /\ sync'[s].age = b)
        BY DEF missed, Serves
      <4> QED
        BY <4>3, <4>4, <4>5
    <3>5. b - 1 \in missed[p]
      BY <3>2, <3>3, <3>4 DEF missed
    <3> QED
      BY <3>2, <3>5
  <2>3. IsFiniteSet(older) /\ Cardinality(older) <= Cardinality(missed[p])
    BY MissedAges, OlderAges
  <2>4. Margin
    BY <1>1, <1>2, MarginEarlier
  <2>5. Cardinality(missed[p]) <= faults
    BY <2>1, <2>4 DEF MarginOK, FewMissed
  <2>6. Cardinality(missed[p]) \in Nat /\ Cardinality(older) \in Nat /\ Cardinality(missed'[p]) \in Nat
        /\ faults \in Nat
    BY <2>3, MissedAges, AgesFinite, FS_CardinalityType DEF IInv, RestOK
  <2> HIDE DEF older
  <2>7. CASE due
    <3>1. missed'[p] \subseteq older \cup {1}
      BY <2>2
    <3>2. Cardinality(missed'[p]) <= Cardinality(older) + 1
      BY <2>3, <3>1, OneMoreAge
    <3>3. faults' = faults + 1
      BY <1>1, <2>7 DEF Fail
    <3> QED
      BY <2>3, <2>5, <2>6, <3>2, <3>3
  <2>8. CASE ~due
    <3>1. missed'[p] \subseteq older
      BY <2>2, <2>8
    <3>2. Cardinality(missed'[p]) <= Cardinality(older)
      BY <2>3, <3>1, FS_Subset
    <3>3. faults' \in Nat /\ faults' >= faults
      BY <1>1, <2>6 DEF Fail
    <3> QED
      BY <2>3, <2>5, <2>6, <3>2, <3>3
  <2> QED
    BY <2>7, <2>8
<1>3. LagOK'
  BY TickLag DEF MarginOK
<1> QED
  BY <1>2, <1>3 DEF MarginOK, FewMissed

\* The calendars, the mailboxes and the controller do not touch the margin.
LEMMA SameMargin == ASSUME MarginOK, UNCHANGED <<row, graph, sync, due, abandoned, faults>> PROVE MarginOK'
<1>1. LagOK'
  BY DEF MarginOK, LagOK, RunLagOK
<1>2. Margin' = Margin
  BY DEF Margin
<1>3. missed' = missed
  BY DEF missed, Serves
<1> QED
  BY <1>1, <1>2, <1>3 DEF MarginOK, FewMissed

LEMMA NextMargin == IInv /\ MarginOK /\ [Next]_vars => MarginOK'
<1> SUFFICES ASSUME IInv, MarginOK, [Next]_vars PROVE MarginOK'
  OBVIOUS
<1>1. CASE UNCHANGED vars
  BY <1>1, SameMargin DEF vars
<1>2. ASSUME NEW s \in Sync, StartSync(s) \/ Step(s) \/ Crash(s) PROVE MarginOK'
  BY <1>2, StartMargin, LookMargin, CreateMargin, RowMargin, RenewMargin, StopMargin DEF Step
<1>3. ASSUME NEW p \in Person, Revive(p) PROVE MarginOK'
  BY <1>3, SameMargin DEF Revive, tables
<1>4. ASSUME NEW c \in Change, MakeChange(c) PROVE MarginOK'
  BY <1>4, SameMargin DEF MakeChange, tables, mailboxes
<1>5. ASSUME NEW i \in Ids, NEW c \in Change, Deliver(i, c) PROVE MarginOK'
  BY <1>5, SameMargin DEF Deliver, mailboxes
<1> QED
  BY <1>1, <1>2, <1>3, <1>4, <1>5, TickMargin DEF Next

\* While the failures leave a margin, a stored subscription is live at Graph:
\* with any number of people, and of runs that overlap by up to LAG intervals.
THEOREM LiveWithinMargin == Spec => []StoredIsLive
<1>1. Init => IInv /\ MarginOK
  BY InitOK, InitMargin
<1>2. IInv /\ MarginOK /\ [Next]_vars => (IInv /\ MarginOK)'
  BY NextOK, NextMargin
<1>3. IInv /\ MarginOK => StoredIsLive
  BY MarginLive DEF StoredIsLive, Margin
<1> QED
  BY <1>1, <1>2, <1>3, PTL DEF Spec
=============================================================================
