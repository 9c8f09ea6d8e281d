----------------------------- MODULE WebhookJobs -----------------------------
(***************************************************************************)
(* Graph change notifications on their way to the reconciler: the webhook  *)
(* controller stores each as a row of webhook_jobs and queues its id; the  *)
(* enqueue timer queues due rows again; workers take ids from the queue    *)
(* and run the job, with retries.                                          *)
(*                                                                         *)
(* The two time tests of the code are states of a row: next_run_at_utc is  *)
(* past (due) or not, and processing_started_at_utc is null, younger than  *)
(* STALE_MINUTES (fresh) or older (stale); time moves a row from one to    *)
(* the other at any moment.  The queue is the in-memory one, lost in a     *)
(* crash, or Service Bus, which delivers the ids of a dead worker again.   *)
(***************************************************************************)
EXTENDS Naturals, FiniteSets

CONSTANTS
  Job,           \* the notifications, one per dedupe_key
  Worker,        \* queue consumers
  MAX_ATTEMPTS,
  Durable,       \* TRUE: Service Bus; FALSE: MemoryQueue
  MaxCopies,     \* bound on the copies of one id in the queue
  MaxFaults      \* bound on crashes and on database statements that fail

ASSUME ConstantsOK ==
  /\ MAX_ATTEMPTS \in Nat \ {0} /\ MaxCopies \in Nat \ {0} /\ MaxFaults \in Nat
  /\ Durable \in BOOLEAN /\ IsFiniteSet(Worker) /\ "none" \notin Job

VARIABLES
  job,       \* table webhook_jobs
  queue,     \* how many copies of each id are queued
  posted,    \* stored by a request that has not queued the id yet
  found,     \* found due by a run of the timer that has not claimed it yet
  claimed,   \* claimed by a run of the timer that has not queued it yet
  worker,    \* what each worker is doing
  applied,   \* jobs whose handler has committed its change at least once
  faults

vars == <<job, queue, posted, found, claimed, worker, applied, faults>>

Status == {"none", "pending", "processing", "done", "failed"}
JobRow == [status : Status, attempts : Nat, due : BOOLEAN, started : {"null", "fresh", "stale"}]
WorkerState == [pc : {"idle", "loading", "release", "starting", "auditing", "handling", "succeeded",
                      "errored", "reporting"}, id : Job \cup {"none"}, attempts : Nat]
Idle == [pc |-> "idle", id |-> "none", attempts |-> 0]

Finished(j) == job[j].status \in {"done", "failed"}

\* What processItem does not start again.
Done(j) == job[j].status = "done"                                          \* mutant
Skipped(j) == Finished(j)

\* The status of a job whose attempt number n has failed.
EarlyVerdict(n) == IF n + 1 >= MAX_ATTEMPTS THEN "failed" ELSE "pending"   \* mutant
LateVerdict(n) == IF n > MAX_ATTEMPTS THEN "failed" ELSE "pending"         \* mutant
OtherVerdict(n) == IF n >= MAX_ATTEMPTS THEN "failed" ELSE "retrying"      \* mutant
Verdict(n) == IF n >= MAX_ATTEMPTS THEN "failed" ELSE "pending"

\* Where processItem goes when handleWebhookJob throws.
Swallowed == "succeeded"                                                   \* mutant
OnError == "errored"

Init ==
  /\ job = [j \in Job |-> [status |-> "none", attempts |-> 0, due |-> FALSE, started |-> "null"]]
  /\ queue = [j \in Job |-> 0]
  /\ posted = {} /\ found = {} /\ claimed = {}
  /\ worker = [w \in Worker |-> Idle]
  /\ applied = {}
  /\ faults = 0

Enqueue(j) == queue' = [queue EXCEPT ![j] = @ + 1]
Become(w, pc) == worker' = [worker EXCEPT ![w].pc = pc]
Return(w) == worker' = [worker EXCEPT ![w] = Idle]

-----------------------------------------------------------------------------
(* WebhooksController.graphWebhook                                         *)

\* A notification not seen before becomes a pending row; one seen is dropped.
Receive(j) ==
  /\ job[j].status = "none"
  /\ job' = [job EXCEPT ![j] = [status |-> "pending", attempts |-> 0, due |-> TRUE, started |-> "null"]]
  /\ posted' = posted \cup {j}
  /\ UNCHANGED <<queue, found, claimed, worker, applied, faults>>

\* Queueing the id may fail: the request answers 500 and the row stays.
Post(j) ==
  /\ j \in posted
  /\ posted' = posted \ {j}
  /\ Enqueue(j) \/ UNCHANGED queue
  /\ UNCHANGED <<job, found, claimed, worker, applied, faults>>

-----------------------------------------------------------------------------
(* WebhookWorker.enqueueDueJobs                                            *)

Claimable(j) == job[j].status = "pending" /\ job[j].started # "fresh"

FindDue(j) ==
  /\ Claimable(j) /\ job[j].due /\ job[j].attempts < MAX_ATTEMPTS
  /\ j \notin found
  /\ queue[j] < MaxCopies                                            \* bound
  /\ found' = found \cup {j}
  /\ UNCHANGED <<job, queue, posted, claimed, worker, applied, faults>>

\* updateMany tests status and claim once more, but not whether the job is still due.
Claim(j) ==
  /\ j \in found
  /\ found' = found \ {j}
  /\ IF Claimable(j)
     THEN job' = [job EXCEPT ![j].started = "fresh"] /\ claimed' = claimed \cup {j}
     ELSE UNCHANGED <<job, claimed>>
  /\ UNCHANGED <<queue, posted, worker, applied, faults>>

\* If queueing fails the claim is released, whoever holds it by now.
EnqueueClaimed(j) ==
  /\ j \in claimed
  /\ claimed' = claimed \ {j}
  /\ \/ Enqueue(j) /\ UNCHANGED job
     \/ job' = [job EXCEPT ![j].started = "null"] /\ UNCHANGED queue
  /\ UNCHANGED <<posted, found, worker, applied, faults>>

-----------------------------------------------------------------------------
(* WebhookWorker.processItem                                               *)

Take(w, j) ==
  /\ worker[w].pc = "idle" /\ queue[j] > 0
  /\ queue' = [queue EXCEPT ![j] = @ - 1]
  /\ worker' = [worker EXCEPT ![w] = [Idle EXCEPT !.pc = "loading", !.id = j]]
  /\ UNCHANGED <<job, posted, found, claimed, applied, faults>>

\* The row is read and tested: finished, not due yet, being processed, or taken.
Load(w) ==
  /\ worker[w].pc = "loading"
  /\ LET r == job[worker[w].id] IN
     \/ /\ Skipped(worker[w].id) \/ (r.due /\ r.status = "processing" /\ r.started = "fresh")
        /\ Return(w)
     \/ /\ ~Skipped(worker[w].id) /\ ~r.due
        /\ Become(w, "release")
     \/ /\ ~Skipped(worker[w].id) /\ r.due
        /\ r.status = "processing" => r.started # "fresh"
        /\ worker' = [worker EXCEPT ![w].pc = "starting", ![w].attempts = r.attempts + 1]
  /\ UNCHANGED <<job, queue, posted, found, claimed, applied, faults>>

Release(w) ==
  /\ worker[w].pc = "release"
  /\ job' = [job EXCEPT ![worker[w].id].started = "null"]
  /\ Return(w)
  /\ UNCHANGED <<queue, posted, found, claimed, applied, faults>>

\* The update names only the id; attempts is the value read plus one.
StartJob(w) ==
  /\ worker[w].pc = "starting"
  /\ job' = [job EXCEPT ![worker[w].id] =
       [@ EXCEPT !.status = "processing", !.attempts = worker[w].attempts, !.started = "fresh"]]
  /\ Become(w, "auditing")
  /\ UNCHANGED <<queue, posted, found, claimed, applied, faults>>

\* The audit row of "processing".
Audit(w) ==
  /\ worker[w].pc = "auditing"
  /\ Become(w, "handling")
  /\ UNCHANGED <<job, queue, posted, found, claimed, applied, faults>>

\* handleWebhookJob commits its change or throws.
Handle(w) ==
  /\ worker[w].pc = "handling"
  /\ \/ applied' = applied \cup {worker[w].id} /\ Become(w, "succeeded")
     \/ Become(w, OnError) /\ UNCHANGED applied
  /\ UNCHANGED <<job, queue, posted, found, claimed, faults>>

\* done; this update and the audit row that follows are inside the try, so if
\* either fails the job is treated as an error.
Succeed(w) ==
  /\ worker[w].pc = "succeeded"
  /\ LET done == [job EXCEPT ![worker[w].id] = [@ EXCEPT !.status = "done", !.started = "null"]]
     IN \/ job' = done /\ Return(w) /\ UNCHANGED faults
        \/ /\ faults < MaxFaults /\ faults' = faults + 1
           /\ job' \in {done, job}
           /\ Become(w, OnError)
  /\ UNCHANGED <<queue, posted, found, claimed, applied>>

\* failed after MAX_ATTEMPTS, else pending again after a backoff.
Retry(w) ==
  /\ worker[w].pc = "errored"
  /\ LET r == job[worker[w].id]
         next == Verdict(worker[w].attempts)
     IN job' = [job EXCEPT ![worker[w].id] =
          [r EXCEPT !.status = next, !.due = r.due /\ next = "failed", !.started = "null"]]
  /\ Become(w, "reporting")
  /\ UNCHANGED <<queue, posted, found, claimed, applied, faults>>

\* The audit row of the retry or failure.
Report(w) ==
  /\ worker[w].pc = "reporting"
  /\ Return(w)
  /\ UNCHANGED <<job, queue, posted, found, claimed, applied, faults>>

\* A statement outside the try throws: the id is given up (MemoryQueue) or
\* abandoned and delivered again (Service Bus).
Fail(w) ==
  /\ worker[w].pc \in {"loading", "starting", "auditing", "errored", "reporting"}
  /\ faults < MaxFaults /\ faults' = faults + 1
  /\ Return(w)
  /\ IF Durable THEN Enqueue(worker[w].id) ELSE UNCHANGED queue
  /\ UNCHANGED <<job, posted, found, claimed, applied>>

-----------------------------------------------------------------------------
(* Time, and crashes of the API process                                    *)

BecomeDue(j) ==
  /\ ~job[j].due /\ job[j].status # "none"
  /\ job' = [job EXCEPT ![j].due = TRUE]
  /\ UNCHANGED <<queue, posted, found, claimed, worker, applied, faults>>

BecomeStale(j) ==
  /\ job[j].started = "fresh"
  /\ job' = [job EXCEPT ![j].started = "stale"]
  /\ UNCHANGED <<queue, posted, found, claimed, worker, applied, faults>>

\* Everything in memory is lost; Service Bus delivers unfinished ids again.
Crash ==
  /\ faults < MaxFaults
  /\ faults' = faults + 1
  /\ worker' = [w \in Worker |-> Idle]
  /\ posted' = {} /\ found' = {} /\ claimed' = {}
  /\ queue' = [j \in Job |->
       IF Durable THEN queue[j] + Cardinality({w \in Worker : worker[w].id = j}) ELSE 0]
  /\ UNCHANGED <<job, applied>>

-----------------------------------------------------------------------------
Step(w) ==
  \/ Load(w) \/ Release(w) \/ StartJob(w) \/ Audit(w) \/ Handle(w) \/ Succeed(w) \/ Retry(w)
  \/ Report(w)

Timer(j) == FindDue(j) \/ Claim(j) \/ EnqueueClaimed(j)

Next ==
  \/ \E j \in Job : Receive(j) \/ Post(j) \/ Timer(j) \/ BecomeDue(j) \/ BecomeStale(j)
  \/ \E w \in Worker : (\E j \in Job : Take(w, j)) \/ Step(w) \/ Fail(w)
  \/ Crash

Spec == Init /\ [][Next]_vars

\* Workers and the timer keep running, time passes, the queue delivers every id
\* and does not refuse one for ever.
FairSpec ==
  /\ Spec
  /\ \A j \in Job : /\ WF_vars(Post(j)) /\ WF_vars(BecomeDue(j)) /\ WF_vars(BecomeStale(j))
                    /\ WF_vars(Timer(j))
                    /\ SF_vars(EnqueueClaimed(j) /\ Enqueue(j))
                    /\ SF_vars(\E w \in Worker : Take(w, j))
  /\ \A w \in Worker : WF_vars(Step(w))

-----------------------------------------------------------------------------
(* Properties.                                                             *)

TypeOK ==
  /\ job \in [Job -> JobRow]
  /\ queue \in [Job -> Nat]
  /\ posted \subseteq Job /\ found \subseteq Job /\ claimed \subseteq Job /\ applied \subseteq Job
  /\ worker \in [Worker -> WorkerState]
  /\ \A w \in Worker : worker[w].pc # "idle" => worker[w].id \in Job
  /\ faults \in 0..MaxFaults

\* A job is marked done only if its change has been committed, however many
\* workers, stale claims, crashes and retries there were.
DoneMeansApplied == \A j \in Job : job[j].status = "done" => j \in applied

\* A job is given up only after MAX_ATTEMPTS tries.
FailedAfterMax == \A j \in Job : job[j].status = "failed" => job[j].attempts >= MAX_ATTEMPTS

\* A job is tried MAX_ATTEMPTS times, and once more at most for each crash or
\* failing statement that kept a try from being concluded.
AttemptsCapped == \A j \in Job : job[j].attempts <= MAX_ATTEMPTS + faults

\* A finished job is not started again, by a copy of its id or by the timer.
\* (The update to done may commit and the audit row after it fail: then the
\* handler's catch puts the job back, which is why faults come in.)
FinishedStays == [][\A j \in Job : Finished(j) /\ faults = 0 => job'[j].status = job[j].status]_vars

Forgotten(j) ==
  /\ job[j].status = "processing" /\ queue[j] = 0 /\ j \notin posted \cup claimed
  /\ \A w \in Worker : worker[w].id # j

\* Every notification stored is in the end done or given up, unless the worker
\* that had it died or failed after setting processing, when nothing in the
\* process ever looks at it again.
FinishedOrForgotten ==
  \A j \in Job : job[j].status # "none" ~> (Finished(j) \/ (faults > 0 /\ Forgotten(j)))
=============================================================================
