------------------------- MODULE WebhookJobs_proofs -------------------------
(***************************************************************************)
(* The type invariant of WebhookJobs, and that a job is marked done only   *)
(* after its change: for any number of workers and jobs, both queues, and  *)
(* any crashes.  DoneMeansApplied is inductive together with what a worker *)
(* past its handler knows (SucceededApplied): nothing takes a committed    *)
(* change back.                                                            *)
(*                                                                         *)
(* With one worker at a time at each job, how often a job is tried: what   *)
(* the worker read of the row still stands when it writes, and every try   *)
(* is counted as an attempt or belongs to a fault (Tries); and a job that  *)
(* is done or given up stays so, as no worker is in the middle of one that *)
(* is (Unfinished).                                                        *)
(***************************************************************************)
EXTENDS WebhookJobs, FiniteSetTheorems, TLAPS

RowsOK == job \in [Job -> JobRow]
WorkersOK ==
  worker \in [Worker -> WorkerState] /\ \A w \in Worker : worker[w].pc # "idle" => worker[w].id \in Job
QueuesOK ==
  /\ queue \in [Job -> Nat] /\ posted \subseteq Job /\ found \subseteq Job /\ claimed \subseteq Job
  /\ applied \subseteq Job /\ faults \in 0..MaxFaults

LEMMA TypeOKSplit == TypeOK <=> RowsOK /\ WorkersOK /\ QueuesOK
  BY DEF TypeOK, RowsOK, WorkersOK, QueuesOK

LEMMA IdleType == Idle \in WorkerState /\ Idle.pc = "idle"
  BY DEF Idle, WorkerState

LEMMA SetWorker ==
  ASSUME WorkersOK, NEW w \in Worker, NEW r \in WorkerState, r.pc = "idle" \/ r.id \in Job,
         worker' = [worker EXCEPT ![w] = r]
  PROVE  WorkersOK'
  BY DEF WorkersOK

LEMMA EnqueueOK == ASSUME NEW j \in Job, queue \in [Job -> Nat], Enqueue(j) PROVE queue' \in [Job -> Nat]
  BY DEF Enqueue

\* The rows the actions write.
LEMMA RowFields ==
  ASSUME NEW b \in JobRow
  PROVE  /\ [b EXCEPT !.started = "fresh"] \in JobRow /\ [b EXCEPT !.started = "null"] \in JobRow
         /\ [b EXCEPT !.started = "stale"] \in JobRow /\ [b EXCEPT !.due = TRUE] \in JobRow
         /\ [b EXCEPT !.status = "done", !.started = "null"] \in JobRow
         /\ [b EXCEPT !.started = "fresh"].status = b.status
         /\ [b EXCEPT !.started = "null"].status = b.status
         /\ [b EXCEPT !.started = "stale"].status = b.status
         /\ [b EXCEPT !.due = TRUE].status = b.status
  BY Zenon DEF JobRow, Status

LEMMA StartFields ==
  ASSUME NEW b \in JobRow, NEW n \in Nat
  PROVE  LET c == [b EXCEPT !.status = "processing", !.attempts = n, !.started = "fresh"]
         IN c \in JobRow /\ c.status = "processing"
  BY Zenon DEF JobRow, Status

LEMMA RetryFields ==
  ASSUME NEW b \in JobRow, NEW s \in {"failed", "pending"}, NEW d \in BOOLEAN
  PROVE  LET c == [b EXCEPT !.status = s, !.due = d, !.started = "null"]
         IN c \in JobRow /\ c.status = s
  BY Zenon DEF JobRow, Status

-----------------------------------------------------------------------------
(* What each action leaves of the invariant.  SucceededApplied: a worker   *)
(* past its handler has committed the change.                              *)

SucceededApplied == \A w \in Worker : worker[w].pc = "succeeded" => worker[w].id \in applied
IInv == TypeOK /\ DoneMeansApplied /\ SucceededApplied

\* What is left to show of IInv' for a step that keeps the queues' types.
NewRowsOK == RowsOK' /\ \A j \in Job : job'[j].status = "done" => job[j].status = "done" \/ j \in applied
NewWorkersOK ==
  /\ WorkersOK'
  /\ \A w \in Worker : worker'[w].pc = "succeeded" =>
       worker'[w].id \in applied' \/ (worker[w].pc = "succeeded" /\ worker'[w].id = worker[w].id)

LEMMA Together ==
  ASSUME IInv, NewRowsOK, NewWorkersOK, QueuesOK', applied \subseteq applied'
  PROVE  IInv'
<1>1. TypeOK'
  BY TypeOKSplit, PTL DEF NewRowsOK, NewWorkersOK
<1>2. DoneMeansApplied' /\ SucceededApplied'
  BY DEF IInv, NewRowsOK, NewWorkersOK, DoneMeansApplied, SucceededApplied
<1> QED
  BY <1>1, <1>2 DEF IInv

LEMMA Types == IInv => RowsOK /\ WorkersOK /\ QueuesOK
  BY TypeOKSplit DEF IInv

LEMMA SameRows == ASSUME RowsOK, UNCHANGED job PROVE NewRowsOK
  BY DEF RowsOK, NewRowsOK

LEMMA SameWorkers == ASSUME WorkersOK, UNCHANGED worker PROVE NewWorkersOK
  BY DEF WorkersOK, NewWorkersOK

\* One row is written, to a status it had or one that is not done.
LEMMA WriteRow ==
  ASSUME RowsOK, NEW j \in Job, NEW b \in JobRow, job' = [job EXCEPT ![j] = b],
         b.status = "done" => job[j].status = "done" \/ j \in applied
  PROVE  NewRowsOK
  BY DEF RowsOK, NewRowsOK

\* One worker goes on, to a place that claims nothing.
LEMMA WriteWorker ==
  ASSUME WorkersOK, NEW w \in Worker, NEW r \in WorkerState, r.pc = "idle" \/ r.id \in Job,
         worker' = [worker EXCEPT ![w] = r], r.pc = "succeeded" => r.id \in applied'
  PROVE  NewWorkersOK
<1>1. WorkersOK'
  BY SetWorker
<1>2. worker'[w] = r /\ \A v \in Worker \ {w} : worker'[v] = worker[v]
  BY DEF WorkersOK
<1> QED
  BY <1>1, <1>2 DEF NewWorkersOK

LEMMA ReturnNew == ASSUME WorkersOK, NEW w \in Worker, Return(w) PROVE NewWorkersOK
  BY IdleType, WriteWorker DEF Return

LEMMA BecomeNew ==
  ASSUME WorkersOK, NEW w \in Worker, worker[w].pc # "idle",
         NEW p \in {"release", "auditing", "handling", "succeeded", "errored", "reporting"}, Become(w, p),
         p = "succeeded" => worker[w].id \in applied'
  PROVE  NewWorkersOK
<1> DEFINE r == [worker[w] EXCEPT !.pc = p]
<1>1. worker[w] \in WorkerState /\ worker[w].id \in Job
  BY DEF WorkersOK
<1>2. r \in WorkerState /\ r.id = worker[w].id /\ r.pc = p
  BY <1>1, Zenon DEF WorkerState
<1>3. worker' = [worker EXCEPT ![w] = r]
  BY DEF Become
<1> HIDE DEF r
<1> QED
  BY <1>1, <1>2, <1>3, WriteWorker

LEMMA FaultOK == ASSUME QueuesOK, (faults < MaxFaults /\ faults' = faults + 1) \/ UNCHANGED faults
                 PROVE faults' \in 0..MaxFaults
  BY ConstantsOK DEF QueuesOK

LEMMA InitOK == Init => IInv
  BY ConstantsOK, IdleType DEF Init, IInv, TypeOK, DoneMeansApplied, SucceededApplied, JobRow, Status

\* Intake, the timer and time write one row at most and move no worker.
LEMMA RowStep ==
  ASSUME IInv, NEW j \in Job, Receive(j) \/ Post(j) \/ Timer(j) \/ BecomeDue(j) \/ BecomeStale(j)
  PROVE  IInv'
<1>1. RowsOK /\ WorkersOK /\ QueuesOK /\ job[j] \in JobRow
  BY Types DEF RowsOK
<1>2. UNCHANGED <<worker, applied, faults>>
  BY DEF Receive, Post, Timer, FindDue, Claim, EnqueueClaimed, BecomeDue, BecomeStale
<1>3. QueuesOK'
  BY <1>1, <1>2, EnqueueOK
     DEF QueuesOK, Receive, Post, Timer, FindDue, Claim, EnqueueClaimed, BecomeDue, BecomeStale
<1>4. NewRowsOK
  <2>1. CASE Receive(j)
    <3> DEFINE b == [status |-> "pending", attempts |-> 0, due |-> TRUE, started |-> "null"]
    <3>1. b \in JobRow /\ b.status = "pending"
      BY DEF JobRow, Status
    <3> QED
      BY <1>1, <2>1, <3>1, WriteRow DEF Receive
  <2>2. UNCHANGED job \/ (\E f \in {"fresh", "null", "stale"} : job' = [job EXCEPT ![j].started = f])
        \/ job' = [job EXCEPT ![j].due = TRUE] => NewRowsOK
    <3>1. ASSUME NEW f \in {"fresh", "null", "stale"}, job' = [job EXCEPT ![j].started = f]
          PROVE  NewRowsOK
      BY <1>1, <3>1, RowFields, WriteRow
    <3>2. CASE job' = [job EXCEPT ![j].due = TRUE]
      BY <1>1, <3>2, RowFields, WriteRow
    <3> QED
      BY <1>1, <3>1, <3>2, SameRows
  <2>3. CASE Post(j) \/ Timer(j) \/ BecomeDue(j) \/ BecomeStale(j)
    BY <2>2, <2>3 DEF Post, Timer, FindDue, Claim, EnqueueClaimed, BecomeDue, BecomeStale
  <2> QED
    BY <2>1, <2>3
<1> QED
  BY <1>1, <1>2, <1>3, <1>4, SameWorkers, Together

LEMMA TakeStep == ASSUME IInv, NEW w \in Worker, NEW j \in Job, Take(w, j) PROVE IInv'
<1>1. RowsOK /\ WorkersOK /\ QueuesOK
  BY Types
<1>2. UNCHANGED <<job, posted, found, claimed, applied, faults>>
  BY DEF Take
<1>3. queue' \in [Job -> Nat]
  BY <1>1 DEF Take, QueuesOK
<1> DEFINE r == [Idle EXCEPT !.pc = "loading", !.id = j]
<1>4. r \in WorkerState /\ r.id = j /\ r.pc = "loading"
  BY DEF Idle, WorkerState
<1>5. worker' = [worker EXCEPT ![w] = r]
  BY DEF Take
<1> HIDE DEF r
<1>6. NewWorkersOK
  BY <1>1, <1>4, <1>5, WriteWorker
<1>7. QueuesOK'
  BY <1>1, <1>2, <1>3 DEF QueuesOK
<1> QED
  BY <1>1, <1>2, <1>6, <1>7, SameRows, Together

\* A step of a worker with a job that writes no row.
LEMMA QuietStep ==
  ASSUME IInv, NEW w \in Worker, Load(w) \/ Audit(w) \/ Report(w)
  PROVE  IInv'
<1>1. RowsOK /\ WorkersOK /\ QueuesOK
  BY Types
<1>2. worker[w].pc # "idle" /\ UNCHANGED <<job, queue, posted, found, claimed, applied, faults>>
  BY DEF Load, Audit, Report
<1>3. NewWorkersOK
  <2>1. CASE Return(w) \/ Become(w, "release") \/ Become(w, "handling")
    BY <1>1, <1>2, <2>1, ReturnNew, BecomeNew
  <2>2. CASE worker' = [worker EXCEPT ![w].pc = "starting", ![w].attempts = job[worker[w].id].attempts + 1]
    <3> DEFINE r == [worker[w] EXCEPT !.pc = "starting", !.attempts = job[worker[w].id].attempts + 1]
    <3>1. worker[w] \in WorkerState /\ worker[w].id \in Job
      BY <1>1, <1>2 DEF WorkersOK
    <3>2. job[worker[w].id].attempts + 1 \in Nat
      BY <1>1, <3>1 DEF RowsOK, JobRow
    <3>3. r \in WorkerState /\ r.id = worker[w].id /\ r.pc = "starting"
      BY <3>1, <3>2, Zenon DEF WorkerState
    <3>4. worker' = [worker EXCEPT ![w] = r]
      BY <2>2
    <3> HIDE DEF r
    <3> QED
      BY <1>1, <3>1, <3>3, <3>4, WriteWorker
  <2> QED
    BY <2>1, <2>2 DEF Load, Audit, Report
<1>4. QueuesOK'
  BY <1>1, <1>2 DEF QueuesOK
<1> QED
  BY <1>1, <1>2, <1>3, <1>4, SameRows, Together

LEMMA ReleaseStep == ASSUME IInv, NEW w \in Worker, Release(w) PROVE IInv'
<1>1. RowsOK /\ WorkersOK /\ QueuesOK /\ worker[w].id \in Job
  BY Types DEF WorkersOK, Release
<1>2. job[worker[w].id] \in JobRow
  BY <1>1 DEF RowsOK
<1>3. NewRowsOK
  BY <1>1, <1>2, RowFields, WriteRow DEF Release
<1>4. NewWorkersOK
  BY <1>1, ReturnNew DEF Release
<1>5. QueuesOK' /\ UNCHANGED applied
  BY <1>1 DEF QueuesOK, Release
<1> QED
  BY <1>3, <1>4, <1>5, Together

LEMMA StartStep == ASSUME IInv, NEW w \in Worker, StartJob(w) PROVE IInv'
<1>1. RowsOK /\ WorkersOK /\ QueuesOK /\ worker[w].id \in Job /\ worker[w].attempts \in Nat
      /\ worker[w].pc # "idle"
  BY Types DEF WorkersOK, WorkerState, StartJob
<1> DEFINE c == [job[worker[w].id] EXCEPT !.status = "processing", !.attempts = worker[w].attempts,
                                         !.started = "fresh"]
<1>2. job[worker[w].id] \in JobRow
  BY <1>1 DEF RowsOK
<1>3. c \in JobRow /\ c.status = "processing"
  BY <1>1, <1>2, StartFields
<1>4. job' = [job EXCEPT ![worker[w].id] = c]
  BY DEF StartJob
<1> HIDE DEF c
<1>5. NewRowsOK
  BY <1>1, <1>3, <1>4, WriteRow
<1>6. NewWorkersOK
  BY <1>1, BecomeNew DEF StartJob
<1>7. QueuesOK' /\ UNCHANGED applied
  BY <1>1 DEF QueuesOK, StartJob
<1> QED
  BY <1>5, <1>6, <1>7, Together

\* The handler commits, and only then is the worker past it.
LEMMA HandleStep == ASSUME IInv, NEW w \in Worker, Handle(w) PROVE IInv'
<1>1. RowsOK /\ WorkersOK /\ QueuesOK /\ worker[w].id \in Job /\ worker[w].pc # "idle"
  BY Types DEF WorkersOK, Handle
<1>2. QueuesOK' /\ applied \subseteq applied' /\ UNCHANGED job
  BY <1>1 DEF QueuesOK, Handle
<1>3. \/ Become(w, "succeeded") /\ worker[w].id \in applied'
      \/ Become(w, "errored")
  BY DEF Handle, OnError
<1>4. NewWorkersOK
  BY <1>1, <1>3, BecomeNew
<1> QED
  BY <1>1, <1>2, <1>4, SameRows, Together

LEMMA SucceedStep == ASSUME IInv, NEW w \in Worker, Succeed(w) PROVE IInv'
<1>1. RowsOK /\ WorkersOK /\ QueuesOK /\ worker[w].id \in Job /\ worker[w].pc # "idle"
      /\ worker[w].id \in applied
  BY Types DEF WorkersOK, Succeed, IInv, SucceededApplied
<1> DEFINE c == [job[worker[w].id] EXCEPT !.status = "done", !.started = "null"]
<1>2. job[worker[w].id] \in JobRow
  BY <1>1 DEF RowsOK
<1>3. c \in JobRow
  BY <1>2, RowFields
<1>4. UNCHANGED job \/ job' = [job EXCEPT ![worker[w].id] = c]
  BY DEF Succeed
<1> HIDE DEF c
<1>5. NewRowsOK
  BY <1>1, <1>3, <1>4, WriteRow, SameRows
<1>6. NewWorkersOK
  BY <1>1, ReturnNew, BecomeNew DEF Succeed, OnError
<1>7. faults' \in 0..MaxFaults
  BY <1>1, FaultOK DEF Succeed
<1>8. QueuesOK' /\ UNCHANGED applied
  BY <1>1, <1>7 DEF QueuesOK, Succeed
<1> QED
  BY <1>5, <1>6, <1>8, Together

LEMMA RetryStep == ASSUME IInv, NEW w \in Worker, Retry(w) PROVE IInv'
<1>1. RowsOK /\ WorkersOK /\ QueuesOK /\ worker[w].id \in Job /\ worker[w].pc # "idle"
  BY Types DEF WorkersOK, Retry
<1> DEFINE s == Verdict(worker[w].attempts)
           d == job[worker[w].id].due /\ s = "failed"
           c == [job[worker[w].id] EXCEPT !.status = s, !.due = d, !.started = "null"]
<1>2. job[worker[w].id] \in JobRow /\ s \in {"failed", "pending"}
  BY <1>1 DEF RowsOK, Verdict
<1>3. job' = [job EXCEPT ![worker[w].id] = c]
  BY DEF Retry
<1>4. d \in BOOLEAN
  BY <1>2
<1> HIDE DEF s, d
<1>5. c \in JobRow /\ c.status = s
  BY <1>2, <1>4, RetryFields
<1> HIDE DEF c
<1>6. NewRowsOK
  BY <1>1, <1>2, <1>3, <1>5, WriteRow
<1>7. NewWorkersOK
  BY <1>1, BecomeNew DEF Retry
<1>8. QueuesOK' /\ UNCHANGED applied
  BY <1>1 DEF QueuesOK, Retry
<1> QED
  BY <1>6, <1>7, <1>8, Together

LEMMA FailStep == ASSUME IInv, NEW w \in Worker, Fail(w) PROVE IInv'
<1>1. RowsOK /\ WorkersOK /\ QueuesOK /\ worker[w].id \in Job
  BY Types DEF WorkersOK, Fail
<1>2. NewWorkersOK
  BY <1>1, ReturnNew DEF Fail
<1>3. faults' \in 0..MaxFaults /\ queue' \in [Job -> Nat]
  BY <1>1, FaultOK, EnqueueOK DEF Fail, QueuesOK
<1>4. QueuesOK' /\ UNCHANGED <<applied, job>>
  BY <1>1, <1>3 DEF QueuesOK, Fail
<1> QED
  BY <1>1, <1>2, <1>4, SameRows, Together

LEMMA CrashStep == ASSUME IInv, Crash PROVE IInv'
<1>1. RowsOK /\ WorkersOK /\ QueuesOK
  BY Types
<1>2. worker' = [w \in Worker |-> Idle] /\ UNCHANGED <<job, applied>>
  BY DEF Crash
<1>3. NewWorkersOK
  BY <1>2, IdleType DEF NewWorkersOK, WorkersOK
<1>4. \A j \in Job : Cardinality({w \in Worker : worker[w].id = j}) \in Nat
  BY ConstantsOK, FS_Subset, FS_CardinalityType
<1>5. queue' \in [Job -> Nat]
  BY <1>1, <1>4 DEF Crash, QueuesOK
<1>6. faults' \in 0..MaxFaults
  BY <1>1, FaultOK DEF Crash
<1>7. QueuesOK'
  BY <1>1, <1>2, <1>5, <1>6 DEF QueuesOK, Crash
<1> QED
  BY <1>1, <1>2, <1>3, <1>7, SameRows, Together

LEMMA NextIInv == IInv /\ [Next]_vars => IInv'
<1> SUFFICES ASSUME IInv, [Next]_vars PROVE IInv'
  OBVIOUS
<1>1. CASE UNCHANGED vars
  BY <1>1 DEF vars, IInv, TypeOK, DoneMeansApplied, SucceededApplied
<1>2. ASSUME NEW w \in Worker, Step(w) PROVE IInv'
  BY <1>2, QuietStep, ReleaseStep, StartStep, HandleStep, SucceedStep, RetryStep DEF Step
<1> QED
  BY <1>1, <1>2, RowStep, TakeStep, FailStep, CrashStep DEF Next

LEMMA Invariant == Spec => []IInv
  BY InitOK, NextIInv, PTL DEF Spec

\* The table, the queue and the workers keep their types, and a busy worker
\* names a job.
THEOREM TypeInvariant == Spec => []TypeOK
<1>1. IInv => TypeOK
  BY DEF IInv
<1> QED
  BY <1>1, Invariant, PTL

\* A job is marked done only if its handler has committed, however many workers
\* take it at once and however often it is delivered, put back or interrupted.
THEOREM DoneOnlyIfApplied == Spec => []DoneMeansApplied
<1>1. IInv => DoneMeansApplied
  BY DEF IInv
<1> QED
  BY <1>1, Invariant, PTL

-----------------------------------------------------------------------------
(* One worker at a time at each job, as MemoryQueue has it.  A try that    *)
(* has begun is the row's last one, and every try that was left is paid    *)
(* for by a fault.                                                         *)

\* No two workers are at one job.
Apart ==
  \A v, w \in Worker : v # w /\ worker[v].pc # "idle" /\ worker[w].pc # "idle"
                        => worker[v].id # worker[w].id
OneAtATime == []Apart
OthersStay(w) == \A v \in Worker \ {w} : worker'[v] = worker[v]

AtWork == {"auditing", "handling", "succeeded", "errored"}

RowTries(j) ==
  /\ job[j].status = "failed" => job[j].attempts >= MAX_ATTEMPTS
  /\ job[j].status = "none" => job[j].attempts = 0
  /\ job[j].status = "pending" => job[j].attempts < MAX_ATTEMPTS
  /\ job[j].attempts <= MAX_ATTEMPTS + faults
  /\ job[j].status = "processing" =>
       \/ \E w \in Worker : worker[w].pc \in AtWork /\ worker[w].id = j
       \/ job[j].attempts < MAX_ATTEMPTS + faults

WorkerTries(w) ==
  /\ worker[w].pc = "starting" => worker[w].attempts <= MAX_ATTEMPTS + faults
  /\ worker[w].pc \in AtWork => worker[w].attempts = job[worker[w].id].attempts

Tries == (\A j \in Job : RowTries(j)) /\ \A w \in Worker : WorkerTries(w)

\* A row whose status and attempts stay.
SameCounts == \A j \in Job : job'[j].status = job[j].status /\ job'[j].attempts = job[j].attempts

LEMMA StampKept ==
  ASSUME RowsOK, NEW j \in Job,
         \/ \E f \in {"fresh", "null", "stale"} : job' = [job EXCEPT ![j].started = f]
         \/ job' = [job EXCEPT ![j].due = TRUE]
         \/ UNCHANGED job
  PROVE  SameCounts
<1>1. job[j] \in JobRow
  BY DEF RowsOK
<1>2. ASSUME NEW b, b.status = job[j].status, b.attempts = job[j].attempts, job' = [job EXCEPT ![j] = b]
      PROVE  SameCounts
  BY <1>2 DEF RowsOK, SameCounts
<1>3. ASSUME NEW f \in {"fresh", "null", "stale"}, job' = [job EXCEPT ![j].started = f] PROVE SameCounts
  <2> DEFINE b == [job[j] EXCEPT !.started = f]
  <2>1. b.status = job[j].status /\ b.attempts = job[j].attempts
    BY <1>1, Zenon DEF JobRow
  <2>2. job' = [job EXCEPT ![j] = b]
    BY <1>3
  <2> HIDE DEF b
  <2> QED
    BY <1>2, <2>1, <2>2
<1>4. CASE job' = [job EXCEPT ![j].due = TRUE]
  <2> DEFINE b == [job[j] EXCEPT !.due = TRUE]
  <2>1. b.status = job[j].status /\ b.attempts = job[j].attempts
    BY <1>1, Zenon DEF JobRow
  <2>2. job' = [job EXCEPT ![j] = b]
    BY <1>4
  <2> HIDE DEF b
  <2> QED
    BY <1>2, <2>1, <2>2
<1> QED
  BY <1>3, <1>4 DEF SameCounts

\* A step of w that starts nothing and ends nothing, but for a fault.
LEMMA TriesKept ==
  ASSUME IInv, NEW w \in Worker, Tries, QueuesOK', SameCounts, OthersStay(w),
         \/ worker'[w] = worker[w] /\ UNCHANGED faults
         \/ /\ worker'[w].pc \notin AtWork \cup {"starting"}
            /\ (worker[w].pc \notin AtWork /\ UNCHANGED faults) \/ faults' = faults + 1
         \/ /\ worker'[w].pc \in AtWork /\ worker[w].pc \in AtWork
            /\ worker'[w].id = worker[w].id /\ worker'[w].attempts = worker[w].attempts
            /\ faults' \in {faults, faults + 1}
  PROVE  Tries'
<1>1. MAX_ATTEMPTS \in Nat /\ faults \in Nat /\ \A j \in Job : job[j].attempts \in Nat
  BY Types, ConstantsOK DEF QueuesOK, RowsOK, JobRow
<1>2. \A v \in Worker : worker[v].pc \in AtWork => worker[v].id \in Job
  BY Types DEF WorkersOK, AtWork
<1>3. faults' \in {faults, faults + 1}
  OBVIOUS
<1>4. ASSUME NEW j \in Job PROVE RowTries(j)'
  <2>1. RowTries(j)
    BY DEF Tries
  <2>2. CASE faults' = faults + 1
    BY <1>1, <2>1, <2>2 DEF RowTries, SameCounts
  <2>3. CASE faults' = faults
    <3>1. ASSUME NEW v \in Worker, worker[v].pc \in AtWork
          PROVE  worker'[v].pc \in AtWork /\ worker'[v].id = worker[v].id
      BY <1>1, <2>3, <3>1 DEF OthersStay
    <3> QED
      BY <2>1, <2>3, <3>1 DEF RowTries, SameCounts
  <2> QED
    BY <1>3, <2>2, <2>3
<1>5. ASSUME NEW v \in Worker PROVE WorkerTries(v)'
  <2>1. WorkerTries(v)
    BY DEF Tries
  <2>2. CASE v = w
    BY <1>1, <1>2, <2>1, <2>2 DEF WorkerTries, AtWork, SameCounts
  <2>3. CASE v # w
    <3>1. worker'[v] = worker[v] /\ (worker[v].pc = "starting" => worker[v].attempts \in Nat)
      BY <2>3, Types DEF OthersStay, WorkersOK, WorkerState
    <3> QED
      BY <1>1, <1>2, <1>3, <2>1, <3>1 DEF WorkerTries, SameCounts
  <2> QED
    BY <2>2, <2>3
<1> QED
  BY <1>4, <1>5 DEF Tries

\* Worker w, alone at the job of row i, writes the row as b.
LEMMA TriesWritten ==
  ASSUME IInv, NEW w \in Worker, Tries, NEW i \in Job, NEW b \in JobRow, job' = [job EXCEPT ![i] = b],
         Apart, OthersStay(w), worker[w].pc # "idle", worker[w].id = i,
         faults' \in Nat, faults <= faults',
         b.status = "failed" => b.attempts >= MAX_ATTEMPTS,
         b.status # "none", b.status = "pending" => b.attempts < MAX_ATTEMPTS,
         b.attempts <= MAX_ATTEMPTS + faults',
         b.status = "processing" =>
           (worker'[w].pc \in AtWork /\ worker'[w].id = i) \/ b.attempts < MAX_ATTEMPTS + faults',
         worker'[w].pc # "starting",
         worker'[w].pc \in AtWork => worker'[w].id = i /\ worker'[w].attempts = b.attempts
  PROVE  Tries'
<1>1. MAX_ATTEMPTS \in Nat /\ faults \in Nat /\ \A j \in Job : job[j].attempts \in Nat
  BY Types, ConstantsOK DEF QueuesOK, RowsOK, JobRow
<1>2. job'[i] = b /\ \A j \in Job \ {i} : job'[j] = job[j]
  BY Types DEF RowsOK
<1>3. ASSUME NEW v \in Worker \ {w}, worker[v].pc \in AtWork PROVE worker[v].id \in Job \ {i}
  BY <1>3, Types DEF Apart, WorkersOK, AtWork
<1>4. ASSUME NEW j \in Job PROVE RowTries(j)'
  <2>1. RowTries(j)
    BY DEF Tries
  <2>2. CASE j = i
    BY <1>1, <1>2, <2>2 DEF RowTries
  <2>3. CASE j # i
    <3>1. ASSUME NEW v \in Worker, worker[v].pc \in AtWork, worker[v].id = j
          PROVE  worker'[v].pc \in AtWork /\ worker'[v].id = j
      BY <2>3, <3>1 DEF OthersStay
    <3> QED
      BY <1>1, <1>2, <2>1, <2>3, <3>1 DEF RowTries
  <2> QED
    BY <2>2, <2>3
<1>5. ASSUME NEW v \in Worker PROVE WorkerTries(v)'
  <2>1. WorkerTries(v)
    BY DEF Tries
  <2>2. CASE v = w
    BY <1>2, <2>2 DEF WorkerTries, AtWork
  <2>3. CASE v # w
    <3>1. worker'[v] = worker[v] /\ (worker[v].pc = "starting" => worker[v].attempts \in Nat)
      BY <2>3, Types DEF OthersStay, WorkersOK, WorkerState
    <3> QED
      BY <1>1, <1>2, <1>3, <2>1, <2>3, <3>1 DEF WorkerTries
  <2> QED
    BY <2>2, <2>3
<1> QED
  BY <1>4, <1>5 DEF Tries

LEMMA InitTries == Init => Tries
  BY ConstantsOK DEF Init, Idle, Tries, RowTries, WorkerTries, AtWork

\* Of the steps of a worker no other worker's state is part.
LEMMA WorkerAlone ==
  ASSUME WorkersOK, NEW w \in Worker, (\E j \in Job : Take(w, j)) \/ Step(w) \/ Fail(w)
  PROVE  OthersStay(w)
  BY DEF WorkersOK, OthersStay, Take, Step, Load, Release, StartJob, Audit, Handle, Succeed, Retry, Report,
     Fail, Become, Return

\* Intake, the timer and time.
LEMMA RowStepTries ==
  ASSUME IInv, IInv', Tries, NEW j \in Job,
         Receive(j) \/ Post(j) \/ Timer(j) \/ BecomeDue(j) \/ BecomeStale(j)
  PROVE  Tries'
<1>1. RowsOK /\ QueuesOK' /\ UNCHANGED <<worker, faults>> /\ job[j] \in JobRow /\ faults \in Nat
  <2>1. RowsOK /\ QueuesOK' /\ QueuesOK
    BY Types, TypeOKSplit, PTL DEF IInv
  <2> QED
    BY <2>1, ConstantsOK DEF QueuesOK, RowsOK, Receive, Post, Timer, FindDue, Claim, EnqueueClaimed, BecomeDue,
       BecomeStale
<1>2. CASE Receive(j)
  <2> DEFINE b == [status |-> "pending", attempts |-> 0, due |-> TRUE, started |-> "null"]
  <2>1. b \in JobRow /\ b.status = "pending" /\ b.attempts = 0
    BY DEF JobRow, Status
  <2>2. job' = [job EXCEPT ![j] = b] /\ job[j].status = "none"
    BY <1>2 DEF Receive
  <2> HIDE DEF b
  <2>3. job'[j] = b /\ \A i \in Job \ {j} : job'[i] = job[i]
    BY <1>1, <2>2 DEF RowsOK
  <2>4. MAX_ATTEMPTS \in Nat /\ 0 < MAX_ATTEMPTS
    BY ConstantsOK
  <2>5. ASSUME NEW i \in Job PROVE RowTries(i)'
    BY <1>1, <2>1, <2>3, <2>4 DEF Tries, RowTries
  <2>6. job[j].attempts = 0 /\ \A i \in Job : job'[i].attempts = job[i].attempts
    BY <2>1, <2>2, <2>3 DEF Tries, RowTries
  <2>7. \A w \in Worker : worker[w].pc \in AtWork => worker[w].id \in Job
    BY Types DEF WorkersOK, AtWork
  <2>8. \A w \in Worker : WorkerTries(w)'
    BY <1>1, <2>6, <2>7 DEF Tries, WorkerTries
  <2> QED
    BY <2>5, <2>8 DEF Tries
<1>3. CASE Post(j) \/ Timer(j) \/ BecomeDue(j) \/ BecomeStale(j)
  <2>1. UNCHANGED job \/ (\E f \in {"fresh", "null", "stale"} : job' = [job EXCEPT ![j].started = f])
        \/ job' = [job EXCEPT ![j].due = TRUE]
    BY <1>3 DEF Post, Timer, FindDue, Claim, EnqueueClaimed, BecomeDue, BecomeStale
  <2>2. SameCounts
    BY <1>1, <2>1, StampKept
  <2> QED
    <3>1. \A w \in Worker : worker[w].pc \in AtWork => worker[w].id \in Job
      BY Types DEF WorkersOK, AtWork
    <3> QED
      BY <1>1, <2>2, <3>1 DEF Tries, RowTries, WorkerTries, SameCounts
<1> QED
  BY <1>2, <1>3

\* A crash leaves no worker at work, and is a fault.
LEMMA CrashTries == ASSUME IInv, Tries, Crash PROVE Tries'
<1>1. /\ MAX_ATTEMPTS \in Nat /\ faults \in Nat /\ \A j \in Job : job[j].attempts \in Nat
      /\ UNCHANGED job /\ faults' = faults + 1
  BY Types, ConstantsOK DEF QueuesOK, RowsOK, JobRow, Crash
<1>2. \A w \in Worker : worker'[w].pc = "idle"
  BY IdleType DEF Crash
<1>3. \A j \in Job : RowTries(j)'
  BY <1>1 DEF Tries, RowTries
<1> QED
  BY <1>2, <1>3 DEF Tries, WorkerTries, AtWork

\* Steps of a worker that write no row, but for the claim.
LEMMA QuietTries ==
  ASSUME IInv, IInv', NEW w \in Worker, Apart, Tries,
         \/ Load(w) \/ Audit(w) \/ Report(w) \/ Release(w) \/ Handle(w) \/ Fail(w)
         \/ \E j \in Job : Take(w, j)
  PROVE  Tries'
<1>1. RowsOK /\ WorkersOK /\ QueuesOK' /\ OthersStay(w)
  <2>1. RowsOK /\ WorkersOK /\ QueuesOK'
    BY Types, TypeOKSplit, PTL DEF IInv
  <2> QED
    BY <2>1, WorkerAlone DEF Step
<1>2. worker[w] \in WorkerState /\ (worker[w].pc # "idle" => worker[w].id \in Job)
  BY <1>1 DEF WorkersOK
<1>3. ASSUME NEW p \in {"release", "auditing", "handling", "succeeded", "errored", "reporting"}, Become(w, p)
      PROVE  worker'[w].pc = p /\ worker'[w].id = worker[w].id /\ worker'[w].attempts = worker[w].attempts
  <2> DEFINE r == [worker[w] EXCEPT !.pc = p]
  <2>1. r.pc = p /\ r.id = worker[w].id /\ r.attempts = worker[w].attempts
    BY <1>2, Zenon DEF WorkerState
  <2>2. worker' = [worker EXCEPT ![w] = r]
    BY <1>3 DEF Become
  <2> HIDE DEF r
  <2> QED
    BY <1>1, <2>1, <2>2 DEF WorkersOK
<1>4. Return(w) => worker'[w].pc = "idle"
  BY <1>1, IdleType DEF Return, WorkersOK
<1>5. CASE Load(w) /\ (Return(w) \/ Become(w, "release"))
  <2>1. SameCounts /\ UNCHANGED faults /\ worker[w].pc = "loading"
    BY <1>5 DEF Load, SameCounts
  <2> QED
    BY <1>1, <1>3, <1>4, <1>5, <2>1, TriesKept DEF AtWork
<1>6. CASE /\ Load(w)
           /\ worker' = [worker EXCEPT ![w].pc = "starting", ![w].attempts = job[worker[w].id].attempts + 1]
           /\ ~Skipped(worker[w].id)
  <2> DEFINE i == worker[w].id
             n == job[i].attempts + 1
             r == [worker[w] EXCEPT !.pc = "starting", !.attempts = n]
  <2>1. UNCHANGED <<job, faults>> /\ worker[w].pc = "loading" /\ i \in Job
    BY <1>2, <1>6 DEF Load
  <2>2. job[i].attempts \in Nat /\ job[i].status \in Status /\ MAX_ATTEMPTS \in Nat \ {0} /\ faults \in Nat
    BY <1>1, <2>1, Types, ConstantsOK DEF RowsOK, JobRow, QueuesOK
  <2>3. job[i].status \in {"none", "pending", "processing"}
    BY <1>6, <2>2 DEF Skipped, Finished, Status
  <2>4. RowTries(i) /\ \A v \in Worker : worker[v].pc \in AtWork => worker[v].id # i
    BY <2>1 DEF Tries, Apart, AtWork
  <2>5. n <= MAX_ATTEMPTS + faults
    BY <2>2, <2>3, <2>4 DEF RowTries
  <2>6. r.pc = "starting" /\ r.attempts = n
    BY <1>2, Zenon DEF WorkerState
  <2>7. worker' = [worker EXCEPT ![w] = r]
    BY <1>6
  <2> HIDE DEF r, n
  <2>8. worker'[w].pc = "starting" /\ worker'[w].attempts = n
    BY <1>1, <2>6, <2>7 DEF WorkersOK
  <2>9. \A v \in Worker : worker[v].pc \in AtWork => v # w /\ worker'[v] = worker[v]
    BY <1>1, <2>1, <2>4 DEF OthersStay, AtWork
  <2>10. \A j \in Job : RowTries(j)'
    BY <2>1, <2>9 DEF Tries, RowTries
  <2>11. \A v \in Worker : WorkerTries(v)'
    BY <1>1, <2>1, <2>5, <2>8 DEF Tries, WorkerTries, AtWork, OthersStay
  <2> QED
    BY <2>10, <2>11 DEF Tries
<1>7. CASE Audit(w) \/ Report(w) \/ Handle(w)
  <2>1. SameCounts /\ UNCHANGED faults
    BY <1>7 DEF Audit, Report, Handle, SameCounts
  <2>2. \/ worker[w].pc = "auditing" /\ Become(w, "handling")
        \/ worker[w].pc = "handling" /\ (Become(w, "succeeded") \/ Become(w, "errored"))
        \/ worker[w].pc = "reporting" /\ Return(w)
    BY <1>7 DEF Audit, Report, Handle, OnError
  <2> QED
    BY <1>1, <1>3, <1>4, <2>1, <2>2, TriesKept DEF AtWork
<1>8. CASE Release(w)
  <2>1. SameCounts /\ UNCHANGED faults /\ worker[w].pc = "release" /\ Return(w)
    BY <1>1, <1>2, <1>8, StampKept DEF Release
  <2> QED
    BY <1>1, <1>4, <2>1, TriesKept DEF AtWork
<1>9. CASE Fail(w)
  <2>1. SameCounts /\ faults' = faults + 1
    BY <1>9 DEF Fail, SameCounts
  <2>2. worker'[w].pc = "idle"
    BY <1>4, <1>9 DEF Fail
  <2> QED
    BY <1>1, <2>1, <2>2, TriesKept DEF AtWork
<1>10. ASSUME NEW j \in Job, Take(w, j) PROVE Tries'
  <2> DEFINE r == [Idle EXCEPT !.pc = "loading", !.id = j]
  <2>1. SameCounts /\ UNCHANGED faults /\ worker[w].pc = "idle" /\ worker' = [worker EXCEPT ![w] = r]
    BY <1>10 DEF Take, SameCounts
  <2>2. r.pc = "loading"
    BY DEF Idle
  <2> HIDE DEF r
  <2>3. worker'[w].pc = "loading"
    BY <1>1, <2>1, <2>2 DEF WorkersOK
  <2> QED
    BY <1>1, <2>1, <2>3, TriesKept DEF AtWork
<1>11. Load(w) => \/ Return(w) \/ Become(w, "release")
                  \/ /\ worker' = [worker EXCEPT ![w].pc = "starting",
                                                 ![w].attempts = job[worker[w].id].attempts + 1]
                     /\ ~Skipped(worker[w].id)
  BY DEF Load
<1> QED
  BY <1>5, <1>6, <1>7, <1>8, <1>9, <1>10, <1>11

\* What Become and Return leave in the worker.
LEMMA WorkerAfter ==
  ASSUME WorkersOK, NEW w \in Worker
  PROVE  /\ \A p \in {"auditing", "errored", "reporting"} : Become(w, p) =>
              worker'[w].pc = p /\ worker'[w].id = worker[w].id /\ worker'[w].attempts = worker[w].attempts
         /\ Return(w) => worker'[w].pc = "idle"
<1>1. worker[w] \in WorkerState
  BY DEF WorkersOK
<1>2. ASSUME NEW p \in {"auditing", "errored", "reporting"}, Become(w, p)
      PROVE  worker'[w].pc = p /\ worker'[w].id = worker[w].id /\ worker'[w].attempts = worker[w].attempts
  <2> DEFINE r == [worker[w] EXCEPT !.pc = p]
  <2>1. r.pc = p /\ r.id = worker[w].id /\ r.attempts = worker[w].attempts
    BY <1>1, Zenon DEF WorkerState
  <2>2. worker' = [worker EXCEPT ![w] = r]
    BY <1>2 DEF Become
  <2> HIDE DEF r
  <2> QED
    BY <2>1, <2>2 DEF WorkersOK
<1>3. Return(w) => worker'[w].pc = "idle"
  BY IdleType DEF Return, WorkersOK
<1> QED
  BY <1>2, <1>3

LEMMA StartTries == ASSUME IInv, Apart, NEW w \in Worker, Tries, StartJob(w) PROVE Tries'
<1> DEFINE i == worker[w].id
           n == worker[w].attempts
           b == [job[i] EXCEPT !.status = "processing", !.attempts = n, !.started = "fresh"]
<1>1. RowsOK /\ WorkersOK /\ worker[w].pc = "starting" /\ i \in Job /\ n \in Nat /\ faults \in Nat
  BY Types DEF WorkersOK, WorkerState, StartJob, QueuesOK
<1>2. job[i] \in JobRow /\ job' = [job EXCEPT ![i] = b] /\ Become(w, "auditing") /\ UNCHANGED faults
  BY <1>1 DEF RowsOK, StartJob
<1>3. b \in JobRow /\ b.status = "processing" /\ b.attempts = n
  BY <1>1, <1>2, Zenon DEF JobRow, Status
<1>4. n <= MAX_ATTEMPTS + faults
  BY <1>1 DEF Tries, WorkerTries
<1>5. worker'[w].pc = "auditing" /\ worker'[w].id = i /\ worker'[w].attempts = n
  BY <1>1, <1>2, WorkerAfter
<1>6. MAX_ATTEMPTS \in Nat
  BY ConstantsOK
<1> HIDE DEF b, i, n
<1>7. faults' \in Nat /\ faults <= faults' /\ b.attempts <= MAX_ATTEMPTS + faults'
  BY <1>1, <1>2, <1>3, <1>4, <1>6
<1>9. OthersStay(w)
  BY <1>1, WorkerAlone DEF Step
<1> QED
  BY <1>1, <1>2, <1>3, <1>5, <1>7, <1>9, TriesWritten DEF AtWork, i

LEMMA SucceedTries == ASSUME IInv, IInv', Apart, NEW w \in Worker, Tries, Succeed(w) PROVE Tries'
<1> DEFINE i == worker[w].id
           b == [job[i] EXCEPT !.status = "done", !.started = "null"]
<1>1. RowsOK /\ WorkersOK /\ QueuesOK' /\ worker[w].pc = "succeeded" /\ i \in Job /\ faults \in Nat
  <2>1. RowsOK /\ WorkersOK /\ QueuesOK /\ QueuesOK'
    BY Types, TypeOKSplit, PTL DEF IInv
  <2> QED
    BY <2>1 DEF WorkersOK, Succeed, QueuesOK
<1>2. job[i] \in JobRow
  BY <1>1 DEF RowsOK
<1>3. b \in JobRow /\ b.status = "done" /\ b.attempts = job[i].attempts
  BY <1>2, Zenon DEF JobRow, Status
<1>4. job[i].attempts <= MAX_ATTEMPTS + faults /\ worker[w].attempts = job[i].attempts
  BY <1>1 DEF Tries, RowTries, WorkerTries, AtWork
<1>5. \/ job' = [job EXCEPT ![i] = b] /\ Return(w) /\ UNCHANGED faults
      \/ job' = [job EXCEPT ![i] = b] /\ Become(w, "errored") /\ faults' = faults + 1
      \/ UNCHANGED job /\ Become(w, "errored") /\ faults' = faults + 1
  BY DEF Succeed, OnError
<1>6. MAX_ATTEMPTS \in Nat /\ job[i].attempts \in Nat
  BY <1>2, ConstantsOK DEF JobRow
<1>10. OthersStay(w)
  BY <1>1, WorkerAlone DEF Step
<1> HIDE DEF b, i
<1>7. CASE job' = [job EXCEPT ![i] = b] /\ Return(w) /\ UNCHANGED faults
  <2>1. worker'[w].pc = "idle"
    BY <1>1, <1>7, WorkerAfter
  <2>2. faults' \in Nat /\ faults <= faults' /\ b.attempts <= MAX_ATTEMPTS + faults'
    BY <1>1, <1>3, <1>4, <1>6, <1>7
  <2> QED
    BY <1>1, <1>3, <1>7, <1>10, <2>1, <2>2, TriesWritten DEF AtWork, i
<1>8. CASE job' = [job EXCEPT ![i] = b] /\ Become(w, "errored") /\ faults' = faults + 1
  <2>1. worker'[w].pc = "errored" /\ worker'[w].id = i /\ worker'[w].attempts = worker[w].attempts
    BY <1>1, <1>8, WorkerAfter DEF i
  <2>2. faults' \in Nat /\ faults <= faults' /\ b.attempts <= MAX_ATTEMPTS + faults'
    BY <1>1, <1>3, <1>4, <1>6, <1>8
  <2> QED
    BY <1>1, <1>3, <1>4, <1>8, <1>10, <2>1, <2>2, TriesWritten DEF AtWork, i
<1>9. CASE UNCHANGED job /\ Become(w, "errored") /\ faults' = faults + 1
  <2>1. /\ worker'[w].pc = "errored" /\ worker'[w].id = worker[w].id
        /\ worker'[w].attempts = worker[w].attempts
    BY <1>1, <1>9, WorkerAfter
  <2>2. SameCounts
    BY <1>9 DEF SameCounts
  <2> QED
    BY <1>1, <1>9, <1>10, <2>1, <2>2, TriesKept DEF AtWork
<1> QED
  BY <1>5, <1>7, <1>8, <1>9

LEMMA RetryTries == ASSUME IInv, Apart, NEW w \in Worker, Tries, Retry(w) PROVE Tries'
<1> DEFINE i == worker[w].id
           n == worker[w].attempts
           s == Verdict(n)
           d == job[i].due /\ s = "failed"
           b == [job[i] EXCEPT !.status = s, !.due = d, !.started = "null"]
<1>1. RowsOK /\ WorkersOK /\ worker[w].pc = "errored" /\ i \in Job /\ n \in Nat /\ faults \in Nat
  BY Types DEF WorkersOK, WorkerState, Retry, QueuesOK
<1>2. job[i] \in JobRow /\ job' = [job EXCEPT ![i] = b] /\ Become(w, "reporting") /\ UNCHANGED faults
  BY <1>1 DEF RowsOK, Retry
<1>3. /\ s \in {"failed", "pending"} /\ d \in BOOLEAN
      /\ s = "failed" => n >= MAX_ATTEMPTS
      /\ s = "pending" => n < MAX_ATTEMPTS
  BY <1>1, ConstantsOK DEF Verdict
<1>4. n = job[i].attempts /\ n <= MAX_ATTEMPTS + faults
  BY <1>1 DEF Tries, RowTries, WorkerTries, AtWork
<1> HIDE DEF s, d, n
<1>5. b \in JobRow /\ b.status = s /\ b.attempts = job[i].attempts
  BY <1>2, <1>3, Zenon DEF JobRow, Status
<1>6. worker'[w].pc = "reporting"
  BY <1>1, <1>2, WorkerAfter
<1>7. MAX_ATTEMPTS \in Nat
  BY ConstantsOK
<1> HIDE DEF b, i
<1>8. /\ faults' \in Nat /\ faults <= faults' /\ b.attempts <= MAX_ATTEMPTS + faults'
      /\ s = "failed" => b.attempts >= MAX_ATTEMPTS
      /\ s = "pending" => b.attempts < MAX_ATTEMPTS
  BY <1>1, <1>2, <1>3, <1>4, <1>5, <1>7
<1>9. OthersStay(w)
  BY <1>1, WorkerAlone DEF Step
<1> QED
  BY <1>1, <1>2, <1>3, <1>5, <1>6, <1>8, <1>9, TriesWritten DEF AtWork, i

LEMMA NextTries == ASSUME IInv, IInv', Apart, Tries, [Next]_vars PROVE Tries'
<1>1. CASE UNCHANGED vars
  BY <1>1 DEF vars, Tries, RowTries, WorkerTries
<1>2. CASE \E j \in Job : Receive(j) \/ Post(j) \/ Timer(j) \/ BecomeDue(j) \/ BecomeStale(j)
  BY <1>2, RowStepTries
<1>3. CASE \E w \in Worker : (\E j \in Job : Take(w, j)) \/ Step(w) \/ Fail(w)
  BY <1>3, QuietTries, StartTries, SucceedTries, RetryTries DEF Step
<1>4. CASE Crash
  BY <1>4, CrashTries
<1> QED
  BY <1>1, <1>2, <1>3, <1>4 DEF Next

LEMMA TriesInvariant == Spec /\ OneAtATime => []Tries
<1>1. IInv /\ IInv' /\ Apart /\ Tries /\ [Next]_vars => Tries'
  BY NextTries
<1> QED
  BY <1>1, InitTries, Invariant, PTL DEF Spec, OneAtATime

\* One worker, as the queue in memory has it, is never at a job with another.
LEMMA OneWorker == ASSUME NEW w \in Worker, Worker = {w} PROVE Spec => OneAtATime
<1>1. Apart
  BY DEF Apart
<1> QED
  BY <1>1, PTL DEF OneAtATime

\* A job is given up only after MAX_ATTEMPTS tries, whatever is lost, repeated or
\* interrupted on the way, and however many workers there are, each at a job of its own.
THEOREM FailedOnlyAfterMax == Spec /\ OneAtATime => []FailedAfterMax
<1>1. Tries => FailedAfterMax
  BY DEF Tries, RowTries, FailedAfterMax
<1> QED
  BY <1>1, TriesInvariant, PTL

\* Every try beyond MAX_ATTEMPTS is one that a fault interrupted, if no two workers are at one job.
THEOREM TriesCapped == Spec /\ OneAtATime => []AttemptsCapped
<1>1. Tries => AttemptsCapped
  BY DEF Tries, RowTries, AttemptsCapped
<1> QED
  BY <1>1, TriesInvariant, PTL

-----------------------------------------------------------------------------
(* What a worker alone at its job has taken up is not finished, until a    *)
(* fault.                                                                  *)

TakenUp == {"starting", "auditing", "handling", "succeeded", "errored"}
Unfinished(w) == faults = 0 /\ worker[w].pc \in TakenUp => ~Finished(worker[w].id)

\* What a step may do to the table: nothing to a status, or to one job's that is unfinished.
StatusKept == \A j \in Job : job'[j].status = job[j].status
WritesUnfinished(w) ==
  /\ worker[w].pc \in TakenUp
  /\ \A j \in Job \ {worker[w].id} : job'[j].status = job[j].status

\* A step of a worker does either.
LEMMA WorkerStatus ==
  ASSUME IInv, NEW w \in Worker, (\E j \in Job : Take(w, j)) \/ Step(w) \/ Fail(w)
  PROVE  StatusKept \/ WritesUnfinished(w)
<1>1. RowsOK /\ WorkersOK
  BY Types
<1>2. CASE Release(w)
  <2>1. worker[w].id \in Job /\ job' = [job EXCEPT ![worker[w].id].started = "null"]
    BY <1>1, <1>2 DEF Release, WorkersOK
  <2> QED
    BY <1>1, <2>1, StampKept DEF SameCounts, StatusKept
<1>3. CASE StartJob(w) \/ Succeed(w) \/ Retry(w)
  <2>1. worker[w].pc \in TakenUp
    BY <1>3 DEF StartJob, Succeed, Retry, TakenUp
  <2>2. \E b : job' = [job EXCEPT ![worker[w].id] = b] \/ UNCHANGED job
    BY <1>3 DEF StartJob, Succeed, Retry
  <2> QED
    BY <1>1, <2>1, <2>2 DEF WritesUnfinished, RowsOK
<1>4. CASE (\E j \in Job : Take(w, j)) \/ Load(w) \/ Audit(w) \/ Handle(w) \/ Report(w) \/ Fail(w)
  BY <1>4 DEF Take, Load, Audit, Handle, Report, Fail, StatusKept
<1> QED
  BY <1>2, <1>3, <1>4 DEF Step

\* Every step does, or receives a new job.
LEMMA StatusStep ==
  ASSUME IInv, [Next]_vars
  PROVE  \/ StatusKept
         \/ \E w \in Worker : WritesUnfinished(w)
         \/ \E i \in Job : job[i].status = "none" /\ \A j \in Job \ {i} : job'[j].status = job[j].status
<1>1. RowsOK
  BY Types
<1>2. CASE UNCHANGED vars \/ Crash
  BY <1>2 DEF vars, Crash, StatusKept
<1>3. ASSUME NEW j \in Job, Receive(j)
      PROVE  job[j].status = "none" /\ \A i \in Job \ {j} : job'[i].status = job[i].status
  BY <1>1, <1>3 DEF Receive, RowsOK
<1>4. ASSUME NEW j \in Job, Post(j) \/ Timer(j) \/ BecomeDue(j) \/ BecomeStale(j) PROVE StatusKept
  <2>1. UNCHANGED job \/ (\E f \in {"fresh", "null", "stale"} : job' = [job EXCEPT ![j].started = f])
        \/ job' = [job EXCEPT ![j].due = TRUE]
    BY <1>4 DEF Post, Timer, FindDue, Claim, EnqueueClaimed, BecomeDue, BecomeStale
  <2> QED
    BY <1>1, <2>1, StampKept DEF SameCounts, StatusKept
<1> QED
  BY <1>2, <1>3, <1>4, WorkerStatus DEF Next

\* Unless a fault comes in, what the worker takes up it has just found unfinished, and it
\* lets go of what it finishes.
LEMMA OwnUnfinished ==
  ASSUME IInv, NEW w \in Worker, Unfinished(w),
         \/ UNCHANGED vars \/ Crash \/ (\E j \in Job : Take(w, j)) \/ Step(w) \/ Fail(w)
         \/ \E j \in Job : Receive(j) \/ Post(j) \/ Timer(j) \/ BecomeDue(j) \/ BecomeStale(j)
  PROVE  Unfinished(w)'
<1> SUFFICES ASSUME faults' = 0, worker'[w].pc \in TakenUp PROVE ~Finished(worker[w].id)'
  BY DEF Unfinished
<1>1. RowsOK /\ WorkersOK /\ faults \in Nat /\ worker[w] \in WorkerState
  BY Types, ConstantsOK DEF QueuesOK, WorkersOK
<1>2. CASE worker'[w] = worker[w] /\ UNCHANGED faults /\ (StatusKept \/ \E j \in Job : Receive(j))
  <2>1. worker[w].id \in Job /\ ~Finished(worker[w].id)
    BY <1>1, <1>2 DEF Unfinished, WorkersOK, TakenUp
  <2>2. job'[worker[w].id].status \in {job[worker[w].id].status, "pending"}
    BY <1>1, <1>2, <2>1 DEF StatusKept, Receive, RowsOK
  <2> QED
    BY <1>2, <2>1, <2>2 DEF Finished
<1>3. CASE UNCHANGED vars
  BY <1>2, <1>3 DEF vars, StatusKept
<1>4. ASSUME NEW j \in Job, Receive(j) \/ Post(j) \/ Timer(j) \/ BecomeDue(j) \/ BecomeStale(j)
      PROVE  ~Finished(worker[w].id)'
  <2>1. UNCHANGED <<worker, faults>>
    BY <1>4 DEF Receive, Post, Timer, FindDue, Claim, EnqueueClaimed, BecomeDue, BecomeStale
  <2>2. CASE Receive(j)
    BY <1>2, <2>1, <2>2
  <2>3. CASE ~Receive(j)
    <3>1. UNCHANGED job \/ (\E f \in {"fresh", "null", "stale"} : job' = [job EXCEPT ![j].started = f])
          \/ job' = [job EXCEPT ![j].due = TRUE]
      BY <1>4, <2>3 DEF Post, Timer, FindDue, Claim, EnqueueClaimed, BecomeDue, BecomeStale
    <3>2. StatusKept
      BY <1>1, <3>1, StampKept DEF SameCounts, StatusKept
    <3> QED
      BY <1>2, <2>1, <3>2
  <2> QED
    BY <2>2, <2>3
<1>5. Return(w) => FALSE
  BY <1>1, IdleType DEF Return, WorkersOK, TakenUp
<1>6. ASSUME NEW pc \in {"release", "auditing", "handling", "succeeded", "errored", "reporting"}, Become(w, pc)
      PROVE  worker'[w].pc = pc /\ worker'[w].id = worker[w].id
  <2> DEFINE r == [worker[w] EXCEPT !.pc = pc]
  <2>1. r.pc = pc /\ r.id = worker[w].id
    BY <1>1, Zenon DEF WorkerState
  <2>2. worker' = [worker EXCEPT ![w] = r]
    BY <1>6 DEF Become
  <2> HIDE DEF r
  <2> QED
    BY <1>1, <2>1, <2>2 DEF WorkersOK
<1>7. CASE Load(w)
  <2>1. ~Become(w, "release")
    BY <1>6 DEF TakenUp
  <2>2. ~Finished(worker[w].id) /\ UNCHANGED job
        /\ worker' = [worker EXCEPT ![w].pc = "starting", ![w].attempts = job[worker[w].id].attempts + 1]
    BY <1>5, <1>7, <2>1 DEF Load, Skipped
  <2>3. worker'[w].id = worker[w].id
    <3> DEFINE r == [worker[w] EXCEPT !.pc = "starting", !.attempts = job[worker[w].id].attempts + 1]
    <3>1. r.id = worker[w].id
      BY <1>1, Zenon DEF WorkerState
    <3>2. worker' = [worker EXCEPT ![w] = r]
      BY <2>2
    <3> HIDE DEF r
    <3> QED
      BY <1>1, <3>1, <3>2 DEF WorkersOK
  <2> QED
    BY <2>2, <2>3 DEF Finished
<1>8. CASE StartJob(w)
  <2> DEFINE i == worker[w].id
             b == [job[i] EXCEPT !.status = "processing", !.attempts = worker[w].attempts, !.started = "fresh"]
  <2>1. i \in Job /\ job[i] \in JobRow /\ worker[w].attempts \in Nat
    BY <1>1, <1>8 DEF StartJob, WorkersOK, RowsOK, WorkerState
  <2>2. b.status = "processing"
    BY <2>1, StartFields
  <2>3. job' = [job EXCEPT ![i] = b] /\ worker'[w].id = i
    BY <1>6, <1>8, <2>1 DEF StartJob
  <2> HIDE DEF i, b
  <2>4. job'[i].status = "processing"
    BY <1>1, <2>1, <2>2, <2>3 DEF RowsOK
  <2> QED
    BY <2>3, <2>4 DEF Finished
<1>9. CASE Audit(w) \/ Handle(w)
  <2>1. worker'[w].id = worker[w].id /\ UNCHANGED <<job, faults>> /\ worker[w].pc \in TakenUp
    BY <1>6, <1>9 DEF Audit, Handle, OnError, TakenUp
  <2> QED
    BY <2>1 DEF Unfinished, Finished
<1>10. CASE Succeed(w) \/ Retry(w) \/ Release(w) \/ Report(w) \/ Fail(w) \/ Crash
  <2>1. ~Return(w) /\ ~Become(w, "reporting") /\ ~(faults' = faults + 1)
    BY <1>1, <1>5, <1>6 DEF TakenUp
  <2> QED
    BY <1>10, <2>1 DEF Succeed, Retry, Release, Report, Fail, Crash
<1>11. ASSUME NEW j \in Job, Take(w, j) PROVE FALSE
  <2> DEFINE r == [Idle EXCEPT !.pc = "loading", !.id = j]
  <2>1. worker' = [worker EXCEPT ![w] = r]
    BY <1>11 DEF Take
  <2>2. r.pc = "loading"
    BY DEF Idle
  <2> HIDE DEF r
  <2> QED
    BY <1>1, <2>1, <2>2 DEF WorkersOK, TakenUp
<1> QED
  BY <1>3, <1>4, <1>7, <1>8, <1>9, <1>10, <1>11 DEF Step

\* Another worker, at another job, finishes only its own.
LEMMA OthersUnfinished ==
  ASSUME IInv, NEW w \in Worker, NEW v \in Worker \ {w}, Apart, Unfinished(w),
         (\E j \in Job : Take(v, j)) \/ Step(v) \/ Fail(v)
  PROVE  Unfinished(w)'
<1> SUFFICES ASSUME faults' = 0, worker'[w].pc \in TakenUp PROVE ~Finished(worker[w].id)'
  BY DEF Unfinished
<1>1. RowsOK /\ WorkersOK /\ faults \in Nat
  BY Types, ConstantsOK DEF QueuesOK
<1>2. worker'[w] = worker[w]
  BY <1>1, WorkerAlone DEF OthersStay
<1>3. faults' \in {faults, faults + 1}
  BY DEF Take, Step, Load, Release, StartJob, Audit, Handle, Succeed, Retry, Report, Fail
<1>4. worker[w].id \in Job /\ ~Finished(worker[w].id)
  BY <1>1, <1>2, <1>3 DEF Unfinished, WorkersOK, TakenUp
<1>5. worker[v].pc \in TakenUp => worker[v].id # worker[w].id
  BY <1>2 DEF Apart, TakenUp
<1>6. job'[worker[w].id].status = job[worker[w].id].status
  BY <1>4, <1>5, WorkerStatus DEF StatusKept, WritesUnfinished
<1> QED
  BY <1>2, <1>4, <1>6 DEF Finished

AllUnfinished == \A w \in Worker : Unfinished(w)

LEMMA NextUnfinished ==
  ASSUME IInv, Apart, AllUnfinished, [Next]_vars
  PROVE  AllUnfinished'
<1> SUFFICES ASSUME NEW w \in Worker PROVE Unfinished(w)'
  BY DEF AllUnfinished
<1>1. Unfinished(w)
  BY DEF AllUnfinished
<1>2. ASSUME NEW v \in Worker, (\E j \in Job : Take(v, j)) \/ Step(v) \/ Fail(v) PROVE Unfinished(w)'
  BY <1>1, <1>2, OwnUnfinished, OthersUnfinished
<1> QED
  BY <1>1, <1>2, OwnUnfinished DEF Next

\* A finished job is never started again, nor put back, by a copy of its id in the queue, by
\* the timer or by a claim that has gone stale, if no two workers are at one job.
THEOREM FinishedForGood == Spec /\ OneAtATime => FinishedStays
<1>1. IInv /\ AllUnfinished /\ [Next]_vars
        => [\A j \in Job : Finished(j) /\ faults = 0 => job'[j].status = job[j].status]_vars
  BY StatusStep DEF StatusKept, WritesUnfinished, AllUnfinished, Unfinished, Finished
<1>2. Init => AllUnfinished
  BY DEF Init, AllUnfinished, Unfinished, Idle, TakenUp
<1>3. IInv /\ Apart /\ AllUnfinished /\ [Next]_vars => AllUnfinished'
  BY NextUnfinished
<1> QED
  BY <1>1, <1>2, <1>3, Invariant, PTL DEF Spec, OneAtATime, FinishedStays
=============================================================================
