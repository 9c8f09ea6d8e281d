---------------------- MODULE CompensationJobs_proofs ----------------------
(***************************************************************************)
(* The properties of CompensationJobs for any number of processes, jobs,   *)
(* faults, and any limits.  The strengthening says what a process in the   *)
(* middle of a job knows: the row is still processing (RunOK), it is the   *)
(* only one at it (OneRunner), and the attempts it has read still stand.   *)
(***************************************************************************)
EXTENDS CompensationJobs, TLAPS

RunOK(w) ==
  LET j == worker[w].id IN
  /\ worker[w].pc \in {"handling", "marking", "counting"} => job[j].status = "processing"
  /\ worker[w].pc = "errored" => job[j].status \in {"processing", "done"}
  /\ worker[w].pc = "marking" => j \in deleted
  /\ worker[w].pc = "counting" => worker[w].attempts = job[j].attempts
RunsOK == \A w \in Worker : RunOK(w)

\* A job that may run again has runs left.
RunsLeft == \A j \in Job : job[j].status # "failed" => job[j].attempts < MAX_ATTEMPTS

IInv == TypeOK /\ OneRunner /\ RunsAccounted /\ RunsOK /\ RunsLeft

\* What a step leaves to be shown when TypeOK' is known, and what KeepsPromise adds.
RestInv == OneRunner /\ RunsAccounted /\ RunsOK /\ RunsLeft

LEMMA BecomeType ==
  ASSUME TypeOK, NEW w \in Worker, NEW p \in {"marking", "errored"}, Running(w), Become(w, p)
  PROVE  worker' \in [Worker -> WorkerState] /\ \A v \in Worker : Running(v)' => worker'[v].id \in Job
<1>1. worker[w].id \in Job /\ worker[w] \in WorkerState
  BY DEF TypeOK
<1> DEFINE r == [worker[w] EXCEPT !.pc = p]
<1>2. r \in WorkerState /\ r.id = worker[w].id /\ r.pc = p
  BY <1>1, Zenon DEF WorkerState
<1>3. worker' = [worker EXCEPT ![w] = r]
  BY DEF Become
<1> HIDE DEF r
<1> QED
  BY <1>1, <1>2, <1>3 DEF TypeOK, Running

LEMMA SetType ==
  ASSUME TypeOK, NEW w \in Worker, NEW r \in WorkerState, r.pc \in {"idle", "batch"} \/ r.id \in Job,
         worker' = [worker EXCEPT ![w] = r]
  PROVE  worker' \in [Worker -> WorkerState] /\ \A v \in Worker : Running(v)' => worker'[v].id \in Job
  BY DEF TypeOK, Running

LEMMA IdleType == Idle \in WorkerState /\ Idle.pc = "idle"
  BY DEF Idle, WorkerState

LEMMA InitType == Init => TypeOK
  BY ConstantsOK, IdleType DEF Init, TypeOK, JobRow, Status, Running

\* A step of one worker that touches no row.
LEMMA QuietType ==
  ASSUME TypeOK, NEW w \in Worker, NEW r \in WorkerState, r.pc \in {"idle", "batch"} \/ r.id \in Job,
         worker' = [worker EXCEPT ![w] = r], UNCHANGED job, deleted' \subseteq Job,
         UNCHANGED runs, faults' \in 0..MaxFaults
  PROVE  TypeOK'
  BY SetType DEF TypeOK

LEMMA ReturnType ==
  ASSUME TypeOK, NEW w \in Worker, Return(w) \/ NextJob(w)
  PROVE  worker' \in [Worker -> WorkerState] /\ \A v \in Worker : Running(v)' => worker'[v].id \in Job
<1> DEFINE q == [Idle EXCEPT !.pc = "batch", !.batch = worker[w].batch]
<1>1. worker[w].batch \in SUBSET Job
  BY DEF TypeOK, WorkerState
<1>2. q \in WorkerState /\ q.pc = "batch"
  BY <1>1 DEF Idle, WorkerState
<1>3. worker' = [worker EXCEPT ![w] = Idle] \/ worker' = [worker EXCEPT ![w] = q]
  BY DEF Return, NextJob
<1> HIDE DEF q
<1> QED
  BY <1>2, <1>3, IdleType, SetType

LEMMA FaultType == ASSUME TypeOK, Fault \/ UNCHANGED faults PROVE faults' \in 0..MaxFaults
  BY ConstantsOK DEF TypeOK, Fault

LEMMA TickType == ASSUME TypeOK, NEW w \in Worker, Tick(w) \/ EndTick(w) \/ Abort(w) \/ Crash(w) PROVE TypeOK'
<1>1. CASE Tick(w)
  <2>1. PICK S \in SUBSET Job : worker' = [worker EXCEPT ![w] = [Idle EXCEPT !.pc = "batch", !.batch = S]]
    BY <1>1 DEF Tick
  <2> DEFINE q == [Idle EXCEPT !.pc = "batch", !.batch = S]
  <2>2. q \in WorkerState /\ q.pc = "batch"
    BY DEF Idle, WorkerState
  <2>3. worker' = [worker EXCEPT ![w] = q]
    BY <2>1
  <2> HIDE DEF q
  <2>4. UNCHANGED <<job, deleted, runs, faults>>
    BY <1>1 DEF Tick
  <2> QED
    BY <2>2, <2>3, <2>4, QuietType DEF TypeOK
<1>2. CASE EndTick(w) \/ Abort(w) \/ Crash(w)
  BY <1>2, FaultType, ReturnType DEF TypeOK, EndTick, Abort, Crash
<1> QED
  BY <1>1, <1>2

LEMMA ClaimType == ASSUME TypeOK, NEW w \in Worker, NEW j \in Job, Claim(w, j) PROVE TypeOK'
<1> DEFINE rest == worker[w].batch \ {j}
           q == [Idle EXCEPT !.pc = "handling", !.batch = rest, !.id = j]
           n == [worker[w] EXCEPT !.batch = rest]
           b == [job[j] EXCEPT !.status = "processing"]
<1>1. worker[w] \in WorkerState /\ job[j] \in JobRow /\ rest \in SUBSET Job /\ worker[w].pc = "batch"
  BY DEF TypeOK, WorkerState, Claim
<1>2. q \in WorkerState /\ q.id = j
  BY <1>1, Zenon DEF Idle, WorkerState
<1>3. n \in WorkerState /\ n.pc = "batch"
  BY <1>1, Zenon DEF WorkerState
<1>4. b \in JobRow
  BY <1>1, Zenon DEF JobRow, Status
<1>5. CASE Claimable(j)
  <2>1. worker' = [worker EXCEPT ![w] = q] /\ job' = [job EXCEPT ![j] = b]
        /\ runs' = [runs EXCEPT ![j] = @ + 1] /\ UNCHANGED <<deleted, faults>>
    BY <1>5 DEF Claim
  <2> HIDE DEF q, b, n
  <2>2. job' \in [Job -> JobRow] /\ runs' \in [Job -> Nat]
    BY <1>4, <2>1 DEF TypeOK
  <2>3. worker' \in [Worker -> WorkerState] /\ \A v \in Worker : Running(v)' => worker'[v].id \in Job
    BY <1>2, <2>1, SetType
  <2> QED
    BY <2>1, <2>2, <2>3 DEF TypeOK
<1>6. CASE ~Claimable(j)
  <2>1. worker' = [worker EXCEPT ![w] = n] /\ UNCHANGED <<job, runs, deleted, faults>>
    BY <1>6 DEF Claim
  <2> HIDE DEF q, b, n
  <2> QED
    BY <1>3, <2>1, QuietType DEF TypeOK
<1> QED
  BY <1>5, <1>6

LEMMA HandleType == ASSUME TypeOK, NEW w \in Worker, Handle(w) PROVE TypeOK'
<1>1. Running(w) /\ worker[w].id \in Job
  BY DEF TypeOK, Handle, Running
<1>2. deleted' \subseteq Job /\ UNCHANGED <<job, runs, faults>>
  BY <1>1 DEF TypeOK, Handle
<1>3. Become(w, "marking") \/ Become(w, "errored")
  BY DEF Handle
<1> QED
  BY <1>1, <1>2, <1>3, BecomeType DEF TypeOK

\* The row written by MarkDone.
LEMMA DoneRow ==
  ASSUME TypeOK, NEW w \in Worker, MarkDone(w)
  PROVE  /\ worker[w].pc = "marking" /\ worker[w].id \in Job
         /\ \/ UNCHANGED job
            \/ /\ job[worker[w].id].status = "processing"
               /\ \E b \in JobRow : /\ b.status = "done" /\ b.attempts = job[worker[w].id].attempts
                                    /\ job' = [job EXCEPT ![worker[w].id] = b]
<1> DEFINE j == worker[w].id
           b == [job[j] EXCEPT !.status = "done", !.next = "null"]
<1>1. worker[w].pc = "marking" /\ j \in Job
  BY DEF MarkDone, TypeOK, Running
<1>2. job[j] \in JobRow
  BY <1>1 DEF TypeOK
<1>3. b \in JobRow /\ b.status = "done" /\ b.attempts = job[j].attempts
  BY <1>2, Zenon DEF JobRow, Status
<1>4. job' = job \/ (job[j].status = "processing" /\ job' = [job EXCEPT ![j] = b])
  BY DEF MarkDone, StillRunning
<1> QED
  BY <1>1, <1>3, <1>4

LEMMA MarkDoneType == ASSUME TypeOK, NEW w \in Worker, MarkDone(w) PROVE TypeOK'
<1>1. Running(w) /\ worker[w].id \in Job
  BY DEF TypeOK, MarkDone, Running
<1>2. job' \in [Job -> JobRow]
  BY DoneRow DEF TypeOK
<1>3. NextJob(w) \/ Become(w, "errored")
  BY DEF MarkDone
<1>4. (Fault \/ UNCHANGED faults) /\ UNCHANGED <<deleted, runs>>
  BY DEF MarkDone
<1> QED
  BY <1>1, <1>2, <1>3, <1>4, BecomeType, ReturnType, FaultType DEF TypeOK

LEMMA ReadType == ASSUME TypeOK, NEW w \in Worker, ReadAttempts(w) PROVE TypeOK'
<1> DEFINE q == [worker[w] EXCEPT !.pc = "counting", !.attempts = job[worker[w].id].attempts]
<1>1. worker[w] \in WorkerState /\ worker[w].id \in Job
  BY DEF TypeOK, ReadAttempts, Running
<1>2. job[worker[w].id].attempts \in Nat
  BY <1>1 DEF TypeOK, JobRow
<1>3. q \in WorkerState /\ q.id \in Job
  BY <1>1, <1>2, Zenon DEF WorkerState
<1>4. worker' = [worker EXCEPT ![w] = q] \/ NextJob(w)
  BY DEF ReadAttempts
<1>5. UNCHANGED <<job, deleted, runs, faults>>
  BY DEF ReadAttempts
<1> HIDE DEF q
<1> QED
  BY <1>3, <1>4, <1>5, QuietType, ReturnType DEF TypeOK

LEMMA CountType == ASSUME TypeOK, NEW w \in Worker, Count(w) PROVE TypeOK'
<1>1. worker[w].id \in Job /\ worker[w].attempts \in Nat
  BY DEF TypeOK, Count, Running, WorkerState
<1> DEFINE n == NextAttempts(worker[w].attempts)
           b == [status |-> Verdict(n), attempts |-> n,
                 next |-> IF Verdict(n) = "pending" THEN "ahead" ELSE "null"]
<1>2. b \in JobRow
  BY <1>1 DEF NextAttempts, Verdict, JobRow, Status
<1>3. job' = job \/ job' = [job EXCEPT ![worker[w].id] = b]
  BY DEF Count
<1> HIDE DEF b
<1>4. job' \in [Job -> JobRow]
  BY <1>1, <1>2, <1>3 DEF TypeOK
<1>5. NextJob(w) /\ UNCHANGED <<deleted, runs, faults>>
  BY DEF Count
<1> QED
  BY <1>4, <1>5, ReturnType DEF TypeOK

LEMMA DueType == ASSUME TypeOK, NEW j \in Job, BecomeDue(j) PROVE TypeOK'
<1> DEFINE b == [job[j] EXCEPT !.next = "past"]
<1>1. job[j] \in JobRow
  BY DEF TypeOK
<1>2. b \in JobRow
  BY <1>1, Zenon DEF JobRow
<1>3. job' = [job EXCEPT ![j] = b] /\ UNCHANGED <<worker, deleted, runs, faults>>
  BY DEF BecomeDue
<1> HIDE DEF b
<1> QED
  BY <1>2, <1>3 DEF TypeOK, Running

LEMMA NextType == TypeOK /\ [Next]_vars => TypeOK'
<1> SUFFICES ASSUME TypeOK, [Next]_vars PROVE TypeOK'
  OBVIOUS
<1>1. CASE UNCHANGED vars
  BY <1>1 DEF vars, TypeOK, Running
<1>2. ASSUME NEW w \in Worker, Step(w) \/ Abort(w) \/ Crash(w) PROVE TypeOK'
  BY <1>2, TickType, ClaimType, HandleType, MarkDoneType, ReadType, CountType DEF Step
<1> QED
  BY <1>1, <1>2, DueType DEF Next

\* The rows, the processes and the histories keep their types, and a process
\* that runs a job names one that exists.
THEOREM TypeInvariant == Spec => []TypeOK
  BY InitType, NextType, PTL DEF Spec

-----------------------------------------------------------------------------
(* The strengthening.                                                      *)

\* The claim that row b has taken up without a counted failure.
Taken(b) == IF b.status \in {"processing", "done"} THEN 1 ELSE 0

LEMMA Accounted == RunsAccounted <=> \A j \in Job : runs[j] = job[j].attempts + Taken(job[j])
  BY DEF RunsAccounted, Taken

\* w goes on as r; it stays with its job or gives it up, and writes at most that row.
LEMMA OwnStep ==
  ASSUME IInv, NEW w \in Worker, NEW r, worker' = [worker EXCEPT ![w] = r],
         r.pc \in {"idle", "batch"} \/ (Running(w) /\ r.id = worker[w].id), RunOK(w)',
         deleted \subseteq deleted', UNCHANGED runs,
         \/ UNCHANGED job
         \/ /\ Running(w)
            /\ \E b \in JobRow :
                 /\ job' = [job EXCEPT ![worker[w].id] = b]
                 /\ b.attempts + Taken(b) = job[worker[w].id].attempts + Taken(job[worker[w].id])
                 /\ b.status # "failed" => b.attempts < MAX_ATTEMPTS
  PROVE  RestInv'
<1>1. \A v \in Worker \ {w} : Running(v) /\ Running(w) => worker[v].id # worker[w].id
  BY DEF IInv, OneRunner
<1>2. worker \in [Worker -> WorkerState] /\ job \in [Job -> JobRow]
      /\ \A v \in Worker : Running(v) => worker[v].id \in Job
  BY DEF IInv, TypeOK
<1>3. worker'[w] = r /\ \A v \in Worker \ {w} : worker'[v] = worker[v] /\ (Running(v)' <=> Running(v))
  BY <1>2 DEF Running
<1>4. OneRunner'
  <2> SUFFICES ASSUME NEW u \in Worker, NEW v \in Worker, u # v, Running(u)', Running(v)'
               PROVE  worker'[u].id # worker'[v].id
    BY DEF OneRunner
  <2>1. CASE u # w /\ v # w
    BY <1>3, <2>1 DEF IInv, OneRunner
  <2>2. CASE u = w
    <3>1. r.pc \notin {"idle", "batch"}
      BY <1>3, <2>2 DEF Running
    <3> QED
      BY <1>1, <1>3, <2>2, <3>1
  <2>3. CASE v = w
    <3>1. r.pc \notin {"idle", "batch"}
      BY <1>3, <2>3 DEF Running
    <3> QED
      BY <1>1, <1>3, <2>3, <3>1
  <2> QED
    BY <2>1, <2>2, <2>3
<1>5. ASSUME NEW v \in Worker PROVE RunOK(v)'
  <2>1. CASE v = w
    BY <2>1
  <2>2. CASE v # w /\ ~Running(v)
    BY <1>3, <2>2 DEF RunOK, Running
  <2>3. CASE v # w /\ Running(v)
    <3>1. worker[v].id \in Job /\ job'[worker[v].id] = job[worker[v].id]
      BY <1>1, <1>2, <2>3
    <3>2. RunOK(v)
      BY DEF IInv, RunsOK
    <3> QED
      BY <1>3, <2>3, <3>1, <3>2 DEF RunOK
  <2> QED
    BY <2>1, <2>2, <2>3
<1>6. RunsAccounted' /\ RunsLeft'
  <2>1. CASE UNCHANGED job
    BY <2>1 DEF IInv, RunsAccounted, RunsLeft
  <2>2. CASE Running(w) /\ \E b \in JobRow :
                 /\ job' = [job EXCEPT ![worker[w].id] = b]
                 /\ b.attempts + Taken(b) = job[worker[w].id].attempts + Taken(job[worker[w].id])
                 /\ b.status # "failed" => b.attempts < MAX_ATTEMPTS
    <3>1. PICK b \in JobRow :
                 /\ job' = [job EXCEPT ![worker[w].id] = b]
                 /\ b.attempts + Taken(b) = job[worker[w].id].attempts + Taken(job[worker[w].id])
                 /\ b.status # "failed" => b.attempts < MAX_ATTEMPTS
      BY <2>2
    <3>2. RunsLeft'
      BY <1>2, <2>2, <3>1 DEF IInv, RunsLeft
    <3>3. \A j \in Job : runs[j] = job[j].attempts + Taken(job[j])
      BY Accounted DEF IInv
    <3>4. \A j \in Job : runs'[j] = job'[j].attempts + Taken(job'[j])
      BY <1>2, <2>2, <3>1, <3>3
    <3> QED
      BY <3>2, <3>4 DEF RunsAccounted, Taken
  <2> QED
    BY <2>1, <2>2
<1> QED
  BY <1>4, <1>5, <1>6 DEF RestInv, RunsOK

\* A worker that is not running a job knows nothing that could become stale.
LEMMA OffOK ==
  ASSUME NEW w \in Worker, worker'[w].pc \in {"idle", "batch"}
  PROVE  RunOK(w)'
  BY DEF RunOK

LEMMA ReturnShape ==
  ASSUME TypeOK, NEW w \in Worker, Return(w) \/ NextJob(w)
  PROVE  \E r \in WorkerState : worker' = [worker EXCEPT ![w] = r] /\ r.pc \in {"idle", "batch"}
                                /\ worker'[w].pc \in {"idle", "batch"}
<1> DEFINE q == [Idle EXCEPT !.pc = "batch", !.batch = worker[w].batch]
<1>1. worker[w].batch \in SUBSET Job /\ worker \in [Worker -> WorkerState]
  BY DEF TypeOK, WorkerState
<1>2. q \in WorkerState /\ q.pc = "batch"
  BY <1>1 DEF Idle, WorkerState
<1>3. worker' = [worker EXCEPT ![w] = Idle] \/ worker' = [worker EXCEPT ![w] = q]
  BY DEF Return, NextJob
<1> HIDE DEF q
<1> QED
  BY <1>1, <1>2, <1>3, IdleType

LEMMA InitRest == Init => RestInv
  BY ConstantsOK DEF Init, RestInv, OneRunner, RunsAccounted, RunsOK, RunOK, RunsLeft, Running, Idle

LEMMA ReturnRest ==
  ASSUME IInv, NEW w \in Worker, EndTick(w) \/ Abort(w) \/ Crash(w)
  PROVE  RestInv'
<1>1. TypeOK /\ Return(w) /\ UNCHANGED <<job, runs, deleted>>
  BY DEF IInv, EndTick, Abort, Crash
<1> QED
  BY <1>1, ReturnShape, OffOK, OwnStep

LEMMA TickRest == ASSUME IInv, NEW w \in Worker, Tick(w) PROVE RestInv'
<1>1. PICK S \in SUBSET Job : worker' = [worker EXCEPT ![w] = [Idle EXCEPT !.pc = "batch", !.batch = S]]
  BY DEF Tick
<1> DEFINE q == [Idle EXCEPT !.pc = "batch", !.batch = S]
<1>2. q.pc = "batch" /\ worker' = [worker EXCEPT ![w] = q] /\ worker'[w].pc = "batch"
  BY <1>1 DEF Idle, IInv, TypeOK
<1> HIDE DEF q
<1>3. UNCHANGED <<job, runs, deleted>>
  BY DEF Tick
<1> QED
  BY <1>2, <1>3, OffOK, OwnStep

\* Nobody runs a pending job.
LEMMA PendingIsFree ==
  ASSUME IInv, NEW j \in Job, job[j].status = "pending", NEW v \in Worker, Running(v)
  PROVE  worker[v].id # j
  BY DEF IInv, RunsOK, RunOK, Running

LEMMA ClaimRest == ASSUME IInv, NEW w \in Worker, NEW j \in Job, Claim(w, j) PROVE RestInv'
<1>1. TypeOK /\ ~Running(w)
  BY DEF IInv, Claim, Running
<1> DEFINE rest == worker[w].batch \ {j}
           q == [Idle EXCEPT !.pc = "handling", !.batch = rest, !.id = j]
           n == [worker[w] EXCEPT !.batch = rest]
           b == [job[j] EXCEPT !.status = "processing"]
<1>2. CASE ~Claimable(j)
  <2>1. worker' = [worker EXCEPT ![w] = n] /\ UNCHANGED <<job, runs, deleted>>
    BY <1>2 DEF Claim
  <2>2. worker[w] \in WorkerState /\ worker[w].pc = "batch"
    BY <1>1 DEF TypeOK, Claim
  <2>3. n.pc = "batch"
    BY <2>2, Zenon DEF WorkerState
  <2> HIDE DEF n
  <2>4. worker'[w].pc = "batch"
    BY <1>1, <2>1, <2>3 DEF TypeOK
  <2> QED
    BY <2>1, <2>3, <2>4, OffOK, OwnStep
<1>3. CASE Claimable(j)
  <2>1. worker' = [worker EXCEPT ![w] = q] /\ job' = [job EXCEPT ![j] = b]
        /\ runs' = [runs EXCEPT ![j] = @ + 1] /\ deleted' = deleted
    BY <1>3 DEF Claim
  <2>2. q.pc = "handling" /\ q.id = j
    BY DEF Idle
  <2>3. job[j] \in JobRow /\ job[j].status = "pending" /\ worker[w] \in WorkerState
    BY <1>1, <1>3 DEF TypeOK, Claimable
  <2>4. b.status = "processing" /\ b.attempts = job[j].attempts
    BY <2>3, Zenon DEF JobRow
  <2> HIDE DEF q, b
  <2>5. worker'[w] = q /\ job'[j] = b /\ \A v \in Worker \ {w} : worker'[v] = worker[v]
    BY <1>1, <2>1 DEF TypeOK
  <2>6. \A k \in Job \ {j} : job'[k] = job[k] /\ runs'[k] = runs[k]
    BY <1>1, <2>1 DEF TypeOK
  <2>7. runs'[j] = runs[j] + 1 /\ runs[j] \in Nat /\ job[j].attempts \in Nat
    BY <1>1, <2>1, <2>3 DEF TypeOK, JobRow
  <2>8. \A v \in Worker : Running(v) => v # w /\ worker[v].id \in Job \ {j}
    BY <1>1, <2>3, PendingIsFree DEF TypeOK
  <2>9. OneRunner'
    BY <2>2, <2>5, <2>8 DEF IInv, OneRunner, Running
  <2>10. RunsAccounted'
    BY <2>3, <2>4, <2>5, <2>6, <2>7 DEF IInv, RunsAccounted
  <2>11. RunsLeft'
    BY <2>3, <2>4, <2>5, <2>6 DEF IInv, RunsLeft
  <2>12. ASSUME NEW v \in Worker PROVE RunOK(v)'
    <3>1. CASE v = w
      BY <2>2, <2>4, <2>5, <3>1 DEF RunOK
    <3>2. CASE v # w /\ Running(v)
      <4>1. worker'[v] = worker[v] /\ job'[worker[v].id] = job[worker[v].id]
        BY <2>5, <2>6, <2>8, <3>2
      <4> QED
        BY <2>1, <4>1 DEF IInv, RunsOK, RunOK
    <3>3. CASE v # w /\ ~Running(v)
      BY <2>5, <3>3 DEF RunOK, Running
    <3> QED
      BY <3>1, <3>2, <3>3
  <2> QED
    BY <2>9, <2>10, <2>11, <2>12 DEF RestInv, RunsOK
<1> QED
  BY <1>2, <1>3

\* Going on with the same job.
LEMMA BecomeShape ==
  ASSUME TypeOK, NEW w \in Worker, NEW p \in {"marking", "errored"}, Become(w, p)
  PROVE  \E r \in WorkerState : /\ worker' = [worker EXCEPT ![w] = r] /\ worker'[w] = r
                                /\ r.pc = p /\ r.id = worker[w].id
<1> DEFINE r == [worker[w] EXCEPT !.pc = p]
<1>1. worker[w] \in WorkerState /\ worker \in [Worker -> WorkerState]
  BY DEF TypeOK
<1>2. r \in WorkerState /\ r.id = worker[w].id /\ r.pc = p
  BY <1>1, Zenon DEF WorkerState
<1>3. worker' = [worker EXCEPT ![w] = r]
  BY DEF Become
<1> HIDE DEF r
<1> QED
  BY <1>1, <1>2, <1>3

LEMMA HandleRest == ASSUME IInv, NEW w \in Worker, Handle(w) PROVE RestInv'
<1>1. TypeOK /\ Running(w) /\ job[worker[w].id].status = "processing"
  BY DEF IInv, Handle, RunsOK, RunOK, Running
<1>2. deleted \subseteq deleted' /\ UNCHANGED <<job, runs>>
  BY DEF Handle
<1>3. PICK p \in {"marking", "errored"} : Become(w, p) /\ (p = "marking" => worker[w].id \in deleted')
  BY DEF Handle
<1>4. PICK r \in WorkerState : /\ worker' = [worker EXCEPT ![w] = r] /\ worker'[w] = r
                              /\ r.pc = p /\ r.id = worker[w].id
  BY <1>1, <1>3, BecomeShape
<1>5. RunOK(w)'
  BY <1>1, <1>2, <1>3, <1>4 DEF RunOK
<1> QED
  BY <1>1, <1>2, <1>4, <1>5, OwnStep

LEMMA MarkDoneRest == ASSUME IInv, NEW w \in Worker, MarkDone(w) PROVE RestInv'
<1>1. TypeOK /\ Running(w) /\ job[worker[w].id].status = "processing" /\ worker[w].id \in Job
  BY DEF IInv, MarkDone, RunsOK, RunOK, Running, TypeOK
<1>2. UNCHANGED <<deleted, runs>>
  BY DEF MarkDone
<1>3. \/ UNCHANGED job
      \/ \E b \in JobRow : /\ b.status = "done" /\ b.attempts = job[worker[w].id].attempts
                            /\ job' = [job EXCEPT ![worker[w].id] = b]
  BY <1>1, DoneRow
<1>4. job[worker[w].id].attempts < MAX_ATTEMPTS
  BY <1>1 DEF IInv, RunsLeft
<1>5. \/ UNCHANGED job
      \/ \E b \in JobRow :
           /\ job' = [job EXCEPT ![worker[w].id] = b]
           /\ b.attempts + Taken(b) = job[worker[w].id].attempts + Taken(job[worker[w].id])
           /\ b.status # "failed" => b.attempts < MAX_ATTEMPTS
  BY <1>1, <1>3, <1>4 DEF Taken
<1>6. job'[worker[w].id].status \in {"processing", "done"}
  BY <1>1, <1>3 DEF TypeOK
<1>7. CASE NextJob(w)
  BY <1>1, <1>2, <1>5, <1>7, ReturnShape, OffOK, OwnStep
<1>8. CASE Become(w, "errored")
  <2>1. PICK r \in WorkerState : /\ worker' = [worker EXCEPT ![w] = r] /\ worker'[w] = r
                                /\ r.pc = "errored" /\ r.id = worker[w].id
    BY <1>1, <1>8, BecomeShape
  <2>2. RunOK(w)'
    BY <1>6, <2>1 DEF RunOK
  <2> QED
    BY <1>1, <1>2, <1>5, <2>1, <2>2, OwnStep
<1> QED
  BY <1>7, <1>8 DEF MarkDone

LEMMA ReadRest == ASSUME IInv, NEW w \in Worker, ReadAttempts(w) PROVE RestInv'
<1>1. TypeOK /\ Running(w) /\ worker[w].id \in Job
  BY DEF IInv, ReadAttempts, Running, TypeOK
<1>2. UNCHANGED <<job, deleted, runs>>
  BY DEF ReadAttempts
<1>3. CASE StillRunning(worker[w].id)
  <2> DEFINE q == [worker[w] EXCEPT !.pc = "counting", !.attempts = job[worker[w].id].attempts]
  <2>1. worker[w] \in WorkerState /\ job[worker[w].id].attempts \in Nat
    BY <1>1 DEF TypeOK, JobRow
  <2>2. q.pc = "counting" /\ q.id = worker[w].id /\ q.attempts = job[worker[w].id].attempts
    BY <2>1, Zenon DEF WorkerState
  <2>3. worker' = [worker EXCEPT ![w] = q]
    BY <1>3 DEF ReadAttempts
  <2> HIDE DEF q
  <2>4. worker'[w] = q
    BY <1>1, <2>3 DEF TypeOK
  <2>5. RunOK(w)'
    BY <1>2, <1>3, <2>2, <2>4 DEF RunOK, StillRunning
  <2> QED
    BY <1>1, <1>2, <2>2, <2>3, <2>5, OwnStep
<1>4. CASE ~StillRunning(worker[w].id)
  <2>1. NextJob(w)
    BY <1>4 DEF ReadAttempts
  <2> QED
    BY <1>1, <1>2, <2>1, ReturnShape, OffOK, OwnStep
<1> QED
  BY <1>3, <1>4

\* The row written by Count: what was read still stands, so the update is done.
LEMMA CountRow ==
  ASSUME IInv, NEW w \in Worker, Count(w)
  PROVE  /\ Running(w) /\ worker[w].id \in Job /\ job[worker[w].id].status = "processing"
         /\ \E b \in JobRow :
              /\ job' = [job EXCEPT ![worker[w].id] = b]
              /\ b.attempts = job[worker[w].id].attempts + 1
              /\ b.attempts <= MAX_ATTEMPTS
              /\ b.status = IF b.attempts = MAX_ATTEMPTS THEN "failed" ELSE "pending"
<1>1. Running(w) /\ worker[w].id \in Job /\ job[worker[w].id].status = "processing"
      /\ worker[w].attempts = job[worker[w].id].attempts /\ job[worker[w].id].attempts \in Nat
  BY DEF IInv, Count, RunsOK, RunOK, Running, TypeOK, JobRow
<1>2. job[worker[w].id].attempts < MAX_ATTEMPTS
  BY <1>1 DEF IInv, RunsLeft
<1> DEFINE n == NextAttempts(worker[w].attempts)
           b == [status |-> Verdict(n), attempts |-> n,
                 next |-> IF Verdict(n) = "pending" THEN "ahead" ELSE "null"]
<1>3. n = job[worker[w].id].attempts + 1 /\ n \in Nat /\ n <= MAX_ATTEMPTS
  BY <1>1, <1>2, ConstantsOK DEF NextAttempts
<1>4. Verdict(n) = IF n = MAX_ATTEMPTS THEN "failed" ELSE "pending"
  BY <1>3, ConstantsOK DEF Verdict
<1>5. job' = [job EXCEPT ![worker[w].id] = b]
  BY <1>1 DEF Count, StillRunning
<1> HIDE DEF n
<1>6. b \in JobRow /\ b.attempts = n /\ b.status = Verdict(n)
  BY <1>3, <1>4 DEF JobRow, Status
<1> HIDE DEF b
<1> QED
  BY <1>1, <1>3, <1>4, <1>5, <1>6

LEMMA CountRest == ASSUME IInv, NEW w \in Worker, Count(w) PROVE RestInv'
<1>1. TypeOK /\ NextJob(w) /\ UNCHANGED <<deleted, runs>>
  BY DEF IInv, Count
<1>2. PICK b \in JobRow :
        /\ job' = [job EXCEPT ![worker[w].id] = b]
        /\ b.attempts = job[worker[w].id].attempts + 1
        /\ b.attempts <= MAX_ATTEMPTS
        /\ b.status = IF b.attempts = MAX_ATTEMPTS THEN "failed" ELSE "pending"
  BY CountRow
<1>3. Running(w) /\ worker[w].id \in Job /\ job[worker[w].id].status = "processing"
  BY CountRow
<1>4. b.attempts \in Nat /\ job[worker[w].id].attempts \in Nat
  BY <1>1, <1>3 DEF TypeOK, JobRow
<1>5. b.attempts + Taken(b) = job[worker[w].id].attempts + Taken(job[worker[w].id])
  BY <1>2, <1>3, <1>4 DEF Taken
<1>6. b.status # "failed" => b.attempts < MAX_ATTEMPTS
  BY <1>2, <1>4, ConstantsOK
<1> QED
  BY <1>1, <1>2, <1>3, <1>5, <1>6, ReturnShape, OffOK, OwnStep

\* The row written by BecomeDue.
LEMMA DueRow ==
  ASSUME TypeOK, NEW j \in Job, BecomeDue(j)
  PROVE  /\ UNCHANGED <<worker, deleted, runs>>
         /\ \A k \in Job : job'[k].status = job[k].status /\ job'[k].attempts = job[k].attempts
<1> DEFINE b == [job[j] EXCEPT !.next = "past"]
<1>1. job[j] \in JobRow /\ job \in [Job -> JobRow]
  BY DEF TypeOK
<1>2. b.status = job[j].status /\ b.attempts = job[j].attempts
  BY <1>1, Zenon DEF JobRow
<1>3. job' = [job EXCEPT ![j] = b] /\ UNCHANGED <<worker, deleted, runs>>
  BY DEF BecomeDue
<1> HIDE DEF b
<1> QED
  BY <1>1, <1>2, <1>3

LEMMA DueRest == ASSUME IInv, NEW j \in Job, BecomeDue(j) PROVE RestInv'
<1>1. TypeOK
  BY DEF IInv
<1>2. UNCHANGED <<worker, deleted, runs>>
  BY <1>1, DueRow
<1>3. \A k \in Job : job'[k].status = job[k].status /\ job'[k].attempts = job[k].attempts
  BY <1>1, DueRow
<1>4. OneRunner' /\ RunsAccounted' /\ RunsLeft'
  BY <1>2, <1>3 DEF IInv, OneRunner, Running, RunsAccounted, RunsLeft
<1>5. ASSUME NEW v \in Worker PROVE RunOK(v)'
  <2>1. RunOK(v) /\ (Running(v) => worker[v].id \in Job)
    BY DEF IInv, RunsOK, TypeOK
  <2>2. CASE Running(v)
    BY <1>2, <1>3, <2>1, <2>2 DEF RunOK
  <2>3. CASE ~Running(v)
    BY <1>2, <2>3 DEF RunOK, Running
  <2> QED
    BY <2>2, <2>3
<1> QED
  BY <1>4, <1>5 DEF RestInv, RunsOK

LEMMA NextIInv == IInv /\ [Next]_vars => IInv'
<1> SUFFICES ASSUME IInv, [Next]_vars PROVE IInv'
  OBVIOUS
<1>1. TypeOK'
  BY NextType DEF IInv
<1>2. CASE UNCHANGED vars
  BY <1>2 DEF vars, IInv, TypeOK, OneRunner, RunsAccounted, RunsOK, RunOK, RunsLeft, Running
<1>3. ASSUME NEW w \in Worker, Step(w) \/ Abort(w) \/ Crash(w) PROVE RestInv'
  BY <1>3, TickRest, ReturnRest, ClaimRest, HandleRest, MarkDoneRest, ReadRest, CountRest DEF Step
<1>4. ASSUME NEW j \in Job, BecomeDue(j) PROVE RestInv'
  BY <1>4, DueRest
<1> QED
  BY <1>1, <1>2, <1>3, <1>4 DEF Next, IInv, RestInv

LEMMA Invariant == Spec => []IInv
<1>1. Init => IInv
  BY InitType, InitRest DEF IInv, RestInv
<1> QED
  BY <1>1, NextIInv, PTL DEF Spec

\* The claiming update lets one process in: two processes never run one job,
\* whatever rows they have both selected.
THEOREM ExclusiveRuns == Spec => []OneRunner
<1>1. IInv => OneRunner
  BY DEF IInv
<1> QED
  BY <1>1, Invariant, PTL

\* Each claim is counted once, as a failure, the success or the run in progress.
THEOREM EachRunCounted == Spec => []RunsAccounted
<1>1. IInv => RunsAccounted
  BY DEF IInv
<1> QED
  BY <1>1, Invariant, PTL

-----------------------------------------------------------------------------
(* Every step is a step of RetriedJobs or changes nothing it speaks of.    *)

StateOf(b) == CASE b.status = "pending" -> "waiting"
                [] b.status = "processing" -> "running"
                [] OTHER -> b.status
States == [j \in Job |-> State(j)]
Tries == [j \in Job |-> job[j].attempts]

LEMMA SameRows ==
  ASSUME \A j \in Job : job'[j].status = job[j].status /\ job'[j].attempts = job[j].attempts,
         UNCHANGED deleted
  PROVE  UNCHANGED Promise!vars
<1>1. \A j \in Job : State(j)' = State(j)
  BY DEF State
<1> QED
  BY <1>1 DEF Promise!vars

LEMMA OneRow ==
  ASSUME TypeOK, NEW j \in Job, NEW b \in JobRow, job' = [job EXCEPT ![j] = b]
  PROVE  /\ States' = [States EXCEPT ![j] = StateOf(b)]
         /\ Tries' = [Tries EXCEPT ![j] = b.attempts]
         /\ States[j] = StateOf(job[j]) /\ Tries[j] = job[j].attempts
<1>1. job'[j] = b /\ \A k \in Job \ {j} : job'[k] = job[k]
  BY DEF TypeOK
<1>2. State(j)' = StateOf(b) /\ \A k \in Job \ {j} : State(k)' = State(k)
  BY <1>1 DEF State, StateOf
<1>3. States' = [States EXCEPT ![j] = StateOf(b)]
  BY <1>2 DEF States
<1>4. Tries' = [Tries EXCEPT ![j] = b.attempts]
  <2>1. \A k \in Job : job'[k].attempts = IF k = j THEN b.attempts ELSE job[k].attempts
    BY <1>1
  <2> QED
    BY <2>1, Zenon DEF Tries
<1> QED
  BY <1>3, <1>4 DEF States, Tries, State, StateOf

\* RetriedJobs with States and Tries written out.
LEMMA Actions ==
  ASSUME NEW j \in Job
  PROVE  /\ /\ States[j] = "waiting" /\ States' = [States EXCEPT ![j] = "running"]
            /\ UNCHANGED <<Tries, deleted>>
            => Promise!Run(j)
         /\ States[j] = "running" /\ deleted' = deleted \cup {j} /\ UNCHANGED <<States, Tries>>
            => Promise!Act(j)
         /\ /\ States[j] = "running" /\ j \in deleted
            /\ States' = [States EXCEPT ![j] = "done"] /\ UNCHANGED <<Tries, deleted>>
            => Promise!Succeed(j)
         /\ /\ States[j] = "running" /\ Tries' = [Tries EXCEPT ![j] = Tries[j] + 1]
            /\ States' = [States EXCEPT ![j] = IF Tries[j] + 1 = MAX_ATTEMPTS THEN "failed" ELSE "waiting"]
            /\ UNCHANGED deleted
            => Promise!Fail(j)
  BY DEF States, Tries, Promise!Run, Promise!Act, Promise!Succeed, Promise!Fail

LEMMA NextPromise == IInv /\ [Next]_vars => [Promise!Next]_(Promise!vars)
<1> SUFFICES ASSUME IInv, [Next]_vars PROVE Promise!Next \/ UNCHANGED Promise!vars
  OBVIOUS
<1>1. TypeOK
  BY DEF IInv
<1>2. UNCHANGED <<job, deleted>> => UNCHANGED Promise!vars
  BY SameRows
<1>3. CASE UNCHANGED vars
  BY <1>2, <1>3 DEF vars
<1>4. ASSUME NEW j \in Job, BecomeDue(j) PROVE UNCHANGED Promise!vars
  BY <1>1, <1>4, DueRow, SameRows
<1>5. ASSUME NEW w \in Worker, Tick(w) \/ EndTick(w) \/ ReadAttempts(w) \/ Abort(w) \/ Crash(w)
      PROVE  UNCHANGED Promise!vars
  BY <1>2, <1>5 DEF Tick, EndTick, ReadAttempts, Abort, Crash
<1>6. ASSUME NEW w \in Worker, NEW j \in Job, Claim(w, j)
      PROVE  Promise!Run(j) \/ UNCHANGED Promise!vars
  <2>1. CASE ~Claimable(j)
    BY <1>2, <1>6, <2>1 DEF Claim
  <2>2. CASE Claimable(j)
    <3> DEFINE b == [job[j] EXCEPT !.status = "processing"]
    <3>1. job[j] \in JobRow /\ job[j].status = "pending"
      BY <1>1, <2>2 DEF TypeOK, Claimable
    <3>2. b \in JobRow /\ b.status = "processing" /\ b.attempts = job[j].attempts
      BY <3>1, Zenon DEF JobRow, Status
    <3>3. job' = [job EXCEPT ![j] = b] /\ UNCHANGED deleted
      BY <1>6, <2>2 DEF Claim
    <3> HIDE DEF b
    <3>4. /\ States' = [States EXCEPT ![j] = StateOf(b)] /\ Tries' = [Tries EXCEPT ![j] = b.attempts]
          /\ States[j] = StateOf(job[j]) /\ Tries[j] = job[j].attempts
      BY <1>1, <3>2, <3>3, OneRow
    <3>5. StateOf(b) = "running" /\ StateOf(job[j]) = "waiting"
      BY <3>1, <3>2 DEF StateOf
    <3>6. [Tries EXCEPT ![j] = Tries[j]] = Tries
      BY Zenon DEF Tries
    <3> QED
      BY <3>2, <3>3, <3>4, <3>5, <3>6, Actions
  <2> QED
    BY <2>1, <2>2
<1>7. ASSUME NEW w \in Worker, Handle(w)
      PROVE  Promise!Next \/ UNCHANGED Promise!vars
  <2>1. worker[w].id \in Job /\ job[worker[w].id].status = "processing" /\ UNCHANGED job
    BY <1>7 DEF IInv, TypeOK, RunsOK, RunOK, Running, Handle
  <2>2. deleted' = deleted \cup {worker[w].id} \/ UNCHANGED deleted
    BY <1>7 DEF Handle
  <2>3. States[worker[w].id] = "running" /\ UNCHANGED <<States, Tries>>
    BY <2>1 DEF States, State, Tries
  <2> QED
    BY <1>2, <2>1, <2>2, <2>3, Actions DEF Promise!Next
<1>8. ASSUME NEW w \in Worker, MarkDone(w)
      PROVE  Promise!Next \/ UNCHANGED Promise!vars
  <2>1. UNCHANGED deleted /\ worker[w].id \in deleted /\ worker[w].id \in Job
    BY <1>8 DEF MarkDone, IInv, RunsOK, RunOK, TypeOK, Running
  <2>2. CASE UNCHANGED job
    BY <1>2, <2>1, <2>2
  <2>3. CASE job[worker[w].id].status = "processing"
             /\ \E b \in JobRow : /\ b.status = "done" /\ b.attempts = job[worker[w].id].attempts
                                  /\ job' = [job EXCEPT ![worker[w].id] = b]
    <3> DEFINE j == worker[w].id
    <3>1. PICK b \in JobRow : /\ b.status = "done" /\ b.attempts = job[j].attempts
                             /\ job' = [job EXCEPT ![j] = b]
      BY <2>3
    <3>2. j \in Job /\ j \in deleted /\ job[j].status = "processing"
      BY <2>1, <2>3
    <3> HIDE DEF j
    <3>3. /\ States' = [States EXCEPT ![j] = StateOf(b)] /\ Tries' = [Tries EXCEPT ![j] = b.attempts]
          /\ States[j] = StateOf(job[j]) /\ Tries[j] = job[j].attempts
      BY <1>1, <3>1, <3>2, OneRow
    <3>4. StateOf(b) = "done" /\ StateOf(job[j]) = "running"
      BY <3>1, <3>2 DEF StateOf
    <3>5. [Tries EXCEPT ![j] = Tries[j]] = Tries
      BY Zenon DEF Tries
    <3> QED
      BY <2>1, <3>1, <3>2, <3>3, <3>4, <3>5, Actions DEF Promise!Next
  <2> QED
    BY <1>1, <1>8, <2>2, <2>3, DoneRow
<1>9. ASSUME NEW w \in Worker, Count(w) PROVE Promise!Next
  <2> DEFINE j == worker[w].id
  <2>1. j \in Job /\ job[j].status = "processing" /\ UNCHANGED deleted
    BY <1>9, CountRow DEF Count
  <2>2. PICK b \in JobRow :
          /\ job' = [job EXCEPT ![j] = b]
          /\ b.attempts = job[j].attempts + 1
          /\ b.status = IF b.attempts = MAX_ATTEMPTS THEN "failed" ELSE "pending"
    BY <1>9, CountRow
  <2> HIDE DEF j
  <2>3. /\ States' = [States EXCEPT ![j] = StateOf(b)] /\ Tries' = [Tries EXCEPT ![j] = b.attempts]
        /\ States[j] = StateOf(job[j]) /\ Tries[j] = job[j].attempts
    BY <1>1, <2>1, <2>2, OneRow
  <2>4. StateOf(b) = (IF Tries[j] + 1 = MAX_ATTEMPTS THEN "failed" ELSE "waiting")
        /\ StateOf(job[j]) = "running"
    BY <2>1, <2>2, <2>3 DEF StateOf
  <2>5. b.attempts = Tries[j] + 1
    BY <2>2, <2>3
  <2> QED
    BY <2>1, <2>3, <2>4, <2>5, Actions DEF Promise!Next
<1> QED
  BY <1>3, <1>4, <1>5, <1>6, <1>7, <1>8, <1>9 DEF Next, Step, Promise!Next

LEMMA InitPromise == Init => Promise!Init
  BY DEF Init, Promise!Init, State

\* Any number of processes with any crashes implement RetriedJobs: every step
\* is one of its steps or changes nothing it speaks of.
THEOREM ImplementsRetriedJobs == Spec => KeepsPromise
<1>1. IInv /\ [Next]_vars => [Promise!Next]_(Promise!vars)
  BY NextPromise
<1> QED
  BY <1>1, InitPromise, Invariant, PTL DEF Spec, KeepsPromise, Promise!Spec
=============================================================================
