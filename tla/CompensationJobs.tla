-------------------------- MODULE CompensationJobs --------------------------
(***************************************************************************)
(* CompensationWorker: each API process looks every 10 s for due rows of   *)
(* compensation_jobs, claims them one after the other with an update that  *)
(* tests the status, deletes the Zoom meeting, and marks the row done or   *)
(* counts the failure.                                                     *)
(*                                                                         *)
(* A worker is one process: its flag running lets one tick in at a time.   *)
(* Rows are numbered in the order of created_at.  next_run_at is null,     *)
(* ahead of the clock or past; time moves it from one to the other.        *)
(***************************************************************************)
EXTENDS Naturals, FiniteSets

CONSTANTS
  Job,              \* the rows, as numbers in the order of created_at
  Worker,           \* API processes
  Unsupported,      \* jobs with a reason or a payload that processJob rejects
  MAX_ATTEMPTS,
  MAX_BATCH_SIZE,
  None,
  MaxFaults         \* bound on crashes and on database statements that fail

ASSUME ConstantsOK ==
  /\ Job \subseteq Nat /\ Unsupported \subseteq Job
  /\ MAX_ATTEMPTS \in Nat \ {0} /\ MAX_BATCH_SIZE \in Nat \ {0} /\ MaxFaults \in Nat
  /\ None \notin Job

VARIABLES
  job,       \* table compensation_jobs
  worker,    \* what each process is doing
  deleted,   \* jobs whose meeting is gone at Zoom
  runs,      \* history: how often each job has been claimed
  faults

vars == <<job, worker, deleted, runs, faults>>

Status == {"pending", "processing", "done", "failed"}
JobRow == [status : Status, attempts : Nat, next : {"null", "ahead", "past"}]
WorkerState == [pc : {"idle", "batch", "handling", "marking", "errored", "counting"},
                batch : SUBSET Job, id : Job \cup {None}, attempts : Nat]
Idle == [pc |-> "idle", batch |-> {}, id |-> None, attempts |-> 0]

\* What a tick selects.
NeverTried(j) == job[j].status = "pending" /\ job[j].next = "null"             \* mutant
Due(j) == job[j].status = "pending" /\ job[j].next # "ahead"

\* The test in the claiming update.
Unfinished(j) == job[j].status \in {"pending", "processing"}                   \* mutant
Claimable(j) == job[j].status = "pending"

\* What retryOrFail goes on with.
Always(j) == j \in Job                                                         \* mutant
StillRunning(j) == job[j].status = "processing"

SameAttempts(n) == n                                                           \* mutant
NextAttempts(n) == n + 1
OtherVerdict(n) == IF n >= MAX_ATTEMPTS THEN "dead" ELSE "pending"             \* mutant
Verdict(n) == IF n >= MAX_ATTEMPTS THEN "failed" ELSE "pending"

\* S is the batch of at most MAX_BATCH_SIZE oldest rows of D.
Oldest(S, D) ==
  /\ \A j \in S, k \in D \ S : j < k
  /\ S = D \/ Cardinality(S) = MAX_BATCH_SIZE
  /\ Cardinality(S) <= MAX_BATCH_SIZE

Running(w) == worker[w].pc \in {"handling", "marking", "errored", "counting"}
Become(w, pc) == worker' = [worker EXCEPT ![w].pc = pc]
Return(w) == worker' = [worker EXCEPT ![w] = Idle]
\* processJob returns; the loop of the tick goes on.
NextJob(w) == worker' = [worker EXCEPT ![w] = [Idle EXCEPT !.pc = "batch", !.batch = worker[w].batch]]
Fault == faults < MaxFaults /\ faults' = faults + 1                            \* bound

Init ==
  /\ job = [j \in Job |-> [status |-> "pending", attempts |-> 0, next |-> "null"]]
  /\ worker = [w \in Worker |-> Idle]
  /\ deleted = {}
  /\ runs = [j \in Job |-> 0]
  /\ faults = 0

Tick(w) ==
  /\ worker[w].pc = "idle"
  /\ LET D == {j \in Job : Due(j)} IN
     \E S \in SUBSET D \ {{}} :
       /\ Oldest(S, D)
       /\ worker' = [worker EXCEPT ![w] = [Idle EXCEPT !.pc = "batch", !.batch = S]]
  /\ UNCHANGED <<job, deleted, runs, faults>>

EndTick(w) ==
  /\ worker[w].pc = "batch" /\ worker[w].batch = {}
  /\ Return(w)
  /\ UNCHANGED <<job, deleted, runs, faults>>

\* A row another process has claimed since the select is passed over.
Claim(w, j) ==
  /\ worker[w].pc = "batch" /\ j \in worker[w].batch
  /\ \A k \in worker[w].batch : j <= k
  /\ LET rest == worker[w].batch \ {j} IN
     IF Claimable(j)
     THEN /\ job' = [job EXCEPT ![j].status = "processing"]
          /\ runs' = [runs EXCEPT ![j] = @ + 1]
          /\ worker' = [worker EXCEPT ![w] = [Idle EXCEPT !.pc = "handling", !.batch = rest, !.id = j]]
     ELSE /\ worker' = [worker EXCEPT ![w].batch = rest]
          /\ UNCHANGED <<job, runs>>
  /\ UNCHANGED <<deleted, faults>>

\* deleteMeeting succeeds, or an error is caught: the reason or payload is not
\* supported, Zoom fails, or its answer is lost.
Handle(w) ==
  /\ worker[w].pc = "handling"
  /\ \/ /\ worker[w].id \notin Unsupported
        /\ deleted' = deleted \cup {worker[w].id}
        /\ Become(w, "marking") \/ Become(w, "errored")
     \/ Become(w, "errored") /\ UNCHANGED deleted
  /\ UNCHANGED <<job, runs, faults>>

\* done, if still processing; the statement is inside the try.
MarkDone(w) ==
  /\ worker[w].pc = "marking"
  /\ LET done == IF StillRunning(worker[w].id)
                 THEN [job EXCEPT ![worker[w].id] = [@ EXCEPT !.status = "done", !.next = "null"]]
                 ELSE job
     IN \/ job' = done /\ NextJob(w) /\ UNCHANGED faults
        \/ job' \in {job, done} /\ Become(w, "errored") /\ Fault
  /\ UNCHANGED <<deleted, runs>>

ReadAttempts(w) ==
  /\ worker[w].pc = "errored"
  /\ IF StillRunning(worker[w].id)
     THEN worker' = [worker EXCEPT ![w].pc = "counting", ![w].attempts = job[worker[w].id].attempts]
     ELSE NextJob(w)
  /\ UNCHANGED <<job, deleted, runs, faults>>

\* The update names the status and the number of attempts that were read.
Count(w) ==
  /\ worker[w].pc = "counting"
  /\ LET j == worker[w].id
         n == NextAttempts(worker[w].attempts)
     IN job' = IF StillRunning(j) /\ job[j].attempts = worker[w].attempts
               THEN [job EXCEPT ![j] = [status |-> Verdict(n), attempts |-> n,
                                        next |-> IF Verdict(n) = "pending" THEN "ahead" ELSE "null"]]
               ELSE job
  /\ NextJob(w)
  /\ UNCHANGED <<deleted, runs, faults>>

\* A statement outside the try throws: the catch of the tick drops the batch.
Abort(w) ==
  /\ worker[w].pc \in {"batch", "errored", "counting"}
  /\ Fault
  /\ Return(w)
  /\ UNCHANGED <<job, deleted, runs>>

\* The process ends; what it had claimed stays as it is.
Crash(w) ==
  /\ worker[w].pc # "idle"
  /\ Fault
  /\ Return(w)
  /\ UNCHANGED <<job, deleted, runs>>

BecomeDue(j) ==
  /\ job[j].next = "ahead"
  /\ job' = [job EXCEPT ![j].next = "past"]
  /\ UNCHANGED <<worker, deleted, runs, faults>>

Step(w) ==
  \/ Tick(w) \/ EndTick(w) \/ Handle(w) \/ MarkDone(w) \/ ReadAttempts(w) \/ Count(w)
  \/ \E j \in Job : Claim(w, j)

Next ==
  \/ \E w \in Worker : Step(w) \/ Abort(w) \/ Crash(w)
  \/ \E j \in Job : BecomeDue(j)

Spec == Init /\ [][Next]_vars

\* The interval keeps firing, a tick that has begun goes on, and time passes.
FairSpec ==
  /\ Spec
  /\ \A w \in Worker : WF_vars(Step(w))
  /\ \A j \in Job : WF_vars(BecomeDue(j))

-----------------------------------------------------------------------------
(* Properties.                                                             *)

TypeOK ==
  /\ job \in [Job -> JobRow]
  /\ worker \in [Worker -> WorkerState]
  /\ \A w \in Worker : Running(w) => worker[w].id \in Job
  /\ deleted \subseteq Job
  /\ runs \in [Job -> Nat]
  /\ faults \in 0..MaxFaults

\* No job is being run by two processes, although both select the same rows and
\* a failed one returns to pending while the other still has it in its batch.
OneRunner == \A v, w \in Worker : v # w /\ Running(v) /\ Running(w) => worker[v].id # worker[w].id

\* Every claim of a job is accounted for once: as a counted failure, as the
\* success, or as the run that has not ended.  So a job is given up after
\* MAX_ATTEMPTS runs, and no failure is lost or counted twice.
RunsAccounted ==
  \A j \in Job :
    runs[j] = job[j].attempts + (IF job[j].status \in {"processing", "done"} THEN 1 ELSE 0)

\* The workers together keep the promises of RetriedJobs: a run has one owner,
\* done needs the meeting gone, MAX_ATTEMPTS failures and no fewer give up, and
\* a job that is done or given up stays so.
State(j) == CASE job[j].status = "pending" -> "waiting"
              [] job[j].status = "processing" -> "running"
              [] OTHER -> job[j].status
Promise == INSTANCE RetriedJobs WITH state <- [j \in Job |-> State(j)],
                                     tries <- [j \in Job |-> job[j].attempts],
                                     effect <- deleted
KeepsPromise == Promise!Spec

Stranded(j) == job[j].status = "processing" /\ \A w \in Worker : Running(w) => worker[w].id # j

\* Every job is in the end done or given up, unless a crash or a failing
\* statement has left it in processing with nobody at it.
SettledOrStranded ==
  \A j \in Job : <>(job[j].status \in {"done", "failed"} \/ (Stranded(j) /\ faults > 0))
=============================================================================
