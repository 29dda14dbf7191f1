---------------------------- MODULE StrategyJobs ----------------------------
(***************************************************************************)
(* The durable queue of strategy-generation jobs and everything that        *)
(* writes to it: submission, external workers that claim batches of jobs    *)
(* under a lease, the API's background task, and the operator's manual      *)
(* retry and cancel.                                                        *)
(*                                                                          *)
(*   persistence/strategy_job_store.py   PostgresStrategyJobStore           *)
(*   strategy_job_worker.py              process / execute / record failure *)
(*   strategy_job_submission.py, api.py  submit, retry, cancel              *)
(*                                                                          *)
(* Every store method is one transaction on one row (claim_queued: on one   *)
(* batch of rows), so it is one atomic step here.  What is not atomic is a  *)
(* worker: between the claim and the write of the outcome lies the whole    *)
(* run of the strategy workflow, and the row may change hands meanwhile.    *)
(*                                                                          *)
(* Time is abstract.  A worker chooses lock_seconds per call (30 s to a     *)
(* day) and each process compares with its own clock, so all that matters   *)
(* is whether locked_until and next_attempt_at have passed.                 *)
(***************************************************************************)
EXTENDS Integers, FiniteSets

CONSTANTS
    Jobs,              \* job ids, numbered by (created_at, job_id)
    Workers,           \* calls of process_strategy_jobs, each sequential
    ApiBackground,     \* the worker id of the API's background task
    NoWorker,          \* locked_by is NULL
    Budgets,           \* values STRATEGY_JOB_MAX_ATTEMPTS may have
    BatchLimit,        \* the limit argument of claim_queued
    ExecutionMode,     \* STRATEGY_JOB_EXECUTION_MODE
    MaxManualRetries,  \* bound: manual retries of one job
    LeaseCoversRun     \* TRUE: every lease outlasts the run it protects

ASSUME JobsAssumption == Jobs \subseteq Nat \ {0}
ASSUME BudgetsAssumption == Budgets \subseteq Nat \ {0}
ASSUME WorkersAssumption ==
    /\ ApiBackground \notin Workers
    /\ NoWorker \notin Workers \cup {ApiBackground}
ASSUME ModeAssumption == ExecutionMode \in {"background", "external"}
ASSUME LeaseAssumption == LeaseCoversRun \in BOOLEAN

VARIABLES
    job,      \* the strategy_jobs table, one row per job id
    batch,    \* the claimed jobs a worker has still to execute
    probe,    \* the job whose status a worker is about to read again
    report,   \* the per-job outcomes in a worker's report
    task      \* the API's background task of each job

vars == <<job, batch, probe, report, task>>

-----------------------------------------------------------------------------
(* Rows, claims and reports.                                                *)

Status   == {"absent", "queued", "running", "completed", "failed", "cancelled"}
Terminal == {"completed", "failed", "cancelled"}

\* error_json: an attempt's error carries the worker's retry_scheduled flag.
Error    == {"none", "retry_scheduled", "final", "cancelled"}

Row == [status   : Status,
        attempts : Nat,                            \* attempt_count
        max      : Nat,                            \* max_attempts
        due      : {"none", "due", "later"},       \* next_attempt_at
        owner    : Workers \cup {ApiBackground, NoWorker},   \* locked_by
        lease    : {"none", "live", "expired"},    \* locked_until
        error    : Error,
        retries  : Nat,                            \* metadata.manual_retry_count
        previous : Error,                          \* metadata.previous_error
        closed   : BOOLEAN]                        \* completed_at is not NULL

AbsentRow == [status |-> "absent", attempts |-> 0, max |-> 0, due |-> "none",
              owner |-> NoWorker, lease |-> "none", error |-> "none",
              retries |-> 0, previous |-> "none", closed |-> FALSE]

\* The snapshot of a row that claim_queued returns and its worker works from.
Claim == [job : Jobs, attempt : Nat, max : Nat, live : BOOLEAN]

NoJob   == 0
Outcome == {"none", "completed", "retry_scheduled", "failed", "cancelled"}
NoReport == [j \in Jobs |-> "none"]

-----------------------------------------------------------------------------
(* The store's row updates.                                                 *)

QueuedRow(budget) ==
    [AbsentRow EXCEPT !.status = "queued", !.max = budget, !.due = "due"]

Taken(row, owner) ==
    [row EXCEPT !.status = "running", !.attempts = @ + 1, !.due = "none",
                !.owner = owner, !.lease = "live", !.error = "none",
                !.closed = FALSE]

\* Faulty: the lease outlives the claim.
ReleasedKeepingLease(row, status) ==
    [row EXCEPT !.status = status, !.due = "none", !.owner = NoWorker,
                !.closed = status \in Terminal]

Released(row, status) ==
    [row EXCEPT !.status = status, !.due = "none", !.owner = NoWorker,
                !.lease = "none", !.closed = status \in Terminal]

Completed(row) == [Released(row, "completed") EXCEPT !.error = "none"]

Failed(row) == [Released(row, "failed") EXCEPT !.error = "final"]

\* Faulty: one attempt too many.
HasAttemptsRemainingOrOne(row) == row.attempts <= row.max

HasAttemptsRemaining(row) == row.attempts < row.max

\* Faulty: counts the attempt a second time.
AttemptFailedEarly(row, error, due) ==
    IF row.attempts + 1 < row.max
    THEN [Released(row, "queued") EXCEPT !.error = error, !.due = due]
    ELSE [Released(row, "failed") EXCEPT !.error = error]

AttemptFailed(row, error, due) ==
    IF HasAttemptsRemaining(row)
    THEN [Released(row, "queued") EXCEPT !.error = error, !.due = due]
    ELSE [Released(row, "failed") EXCEPT !.error = error]

Retried(row, budget) ==
    [Released(row, "queued") EXCEPT
        !.error = "none", !.attempts = 0, !.max = budget, !.due = "due",
        !.retries = @ + 1, !.previous = row.error]

\* Faulty: gives an attempt back.
CancelledRefunding(row) ==
    [Released(row, "cancelled") EXCEPT !.error = "cancelled", !.attempts = @ - 1]

Cancelled(row) == [Released(row, "cancelled") EXCEPT !.error = "cancelled"]

-----------------------------------------------------------------------------
(* Who may claim what.                                                      *)

\* Faulty: takes running jobs whose lease still runs,
ClaimableUnderLease(row) ==
    /\ HasAttemptsRemaining(row)
    /\ row.status = "running" \/ (row.status = "queued" /\ row.due # "later")

\* jobs that are out of attempts,
ClaimableExhausted(row) ==
    \/ row.status = "queued" /\ row.due # "later"
    \/ row.status = "running" /\ row.lease = "expired"

\* or never one whose worker died.
ClaimableQueuedOnly(row) ==
    HasAttemptsRemaining(row) /\ row.status = "queued" /\ row.due # "later"

Claimable(row) ==
    /\ HasAttemptsRemaining(row)
    /\ \/ row.status = "queued" /\ row.due # "later"
       \/ row.status = "running" /\ row.lease = "expired"

Candidates == {j \in Jobs : Claimable(job[j])}

\* FOR UPDATE SKIP LOCKED with a limit: the rows that other transactions hold
\* at that moment are skipped, so any few of the candidates may come back.
Claims(S) == {[job |-> j, attempt |-> job[j].attempts + 1, max |-> job[j].max,
               live |-> TRUE] : j \in S}

\* Batches are executed in claim order, one job at a time.
NextClaim(w, c) == c \in batch[w] /\ \A d \in batch[w] : c.job <= d.job

Executing(j) == \/ task[j] = "running"
                \/ \E w \in Workers : \E c \in batch[w] : c.job = j

\* Faulty: announces a retry after the last attempt.
AttemptErrorOptimistic(c) ==
    IF c.attempt <= c.max THEN "retry_scheduled" ELSE "final"

\* What the worker writes into the error: computed from its own snapshot.
AttemptError(c) == IF c.attempt < c.max THEN "retry_scheduled" ELSE "final"

-----------------------------------------------------------------------------
(* Submission.                                                              *)

SubmitJob(j) ==
    /\ job[j].status = "absent"
    /\ \A i \in Jobs : i < j => job[i].status # "absent"
    /\ \E budget \in Budgets : job' = [job EXCEPT ![j] = QueuedRow(budget)]
    /\ task' = [task EXCEPT ![j] =
                  IF ExecutionMode = "background" THEN "scheduled" ELSE "none"]
    /\ UNCHANGED <<batch, probe, report>>

-----------------------------------------------------------------------------
(* External workers.                                                        *)

ClaimQueued(w) ==
    /\ batch[w] = {} /\ probe[w] = NoJob
    /\ \E S \in SUBSET Candidates :
         /\ S # {} /\ Cardinality(S) <= BatchLimit
         /\ job' = [j \in Jobs |-> IF j \in S THEN Taken(job[j], w) ELSE job[j]]
         /\ batch' = [batch EXCEPT ![w] = Claims(S)]
    /\ report' = [report EXCEPT ![w] = NoReport]
    /\ UNCHANGED <<probe, task>>

\* The write of an outcome found the row no longer running: the worker
\* reads the job again to tell a cancellation from a lost lease.
OutcomeRejected(w, j) ==
    /\ job[j].status # "running"
    /\ probe' = [probe EXCEPT ![w] = j]
    /\ UNCHANGED <<job, report>>

\* Faulty: completes whatever it finds.
CompletionForced(w, j) ==
    /\ job' = [job EXCEPT ![j] = Completed(@)]
    /\ report' = [report EXCEPT ![w][j] = "completed"]
    /\ UNCHANGED probe

\* mark_completed: the only condition is status = running.
CompletionRecorded(w, j) ==
    /\ job[j].status = "running"
    /\ job' = [job EXCEPT ![j] = Completed(@)]
    /\ report' = [report EXCEPT ![w][j] = "completed"]
    /\ UNCHANGED probe

\* Faulty: fails whatever it finds.
AttemptFailureForced(w, c) ==
    /\ \E due \in {"due", "later"} :
         job' = [job EXCEPT ![c.job] = AttemptFailed(@, AttemptError(c), due)]
    /\ report' = [report EXCEPT ![w][c.job] =
                    IF job'[c.job].status = "queued" THEN "retry_scheduled"
                                                     ELSE "failed"]
    /\ UNCHANGED probe

\* mark_attempt_failed: likewise, and the row's own counters decide.
AttemptFailureRecorded(w, c) ==
    /\ job[c.job].status = "running"
    /\ \E due \in {"due", "later"} :
         job' = [job EXCEPT ![c.job] = AttemptFailed(@, AttemptError(c), due)]
    /\ report' = [report EXCEPT ![w][c.job] =
                    IF job'[c.job].status = "queued" THEN "retry_scheduled"
                                                     ELSE "failed"]
    /\ UNCHANGED probe

RunSucceeds(w) ==
    /\ probe[w] = NoJob
    /\ \E c \in batch[w] :
         /\ NextClaim(w, c)
         /\ batch' = [batch EXCEPT ![w] = @ \ {c}]
         /\ CompletionRecorded(w, c.job) \/ OutcomeRejected(w, c.job)
    /\ UNCHANGED task

RunFails(w) ==
    /\ probe[w] = NoJob
    /\ \E c \in batch[w] :
         /\ NextClaim(w, c)
         /\ batch' = [batch EXCEPT ![w] = @ \ {c}]
         /\ AttemptFailureRecorded(w, c) \/ OutcomeRejected(w, c.job)
    /\ UNCHANGED task

\* _job_was_cancelled, a read of its own after the rejected write.
ReadJobAgain(w) ==
    /\ probe[w] # NoJob
    /\ report' = [report EXCEPT ![w][probe[w]] =
                    IF job[probe[w]].status = "cancelled" THEN "cancelled"
                                                          ELSE "failed"]
    /\ probe' = [probe EXCEPT ![w] = NoJob]
    /\ UNCHANGED <<job, batch, task>>

\* The process dies, or a store call raises and aborts the batch.
WorkerCrashes(w) ==
    /\ batch[w] # {} \/ probe[w] # NoJob
    /\ batch'  = [batch EXCEPT ![w] = {}]
    /\ probe'  = [probe EXCEPT ![w] = NoJob]
    /\ report' = [report EXCEPT ![w] = NoReport]
    /\ UNCHANGED <<job, task>>

-----------------------------------------------------------------------------
(* The API's background task.                                               *)

\* Faulty: starts a job that a worker has claimed.
BackgroundStartsClaimed(j) ==
    /\ task[j] = "scheduled"
    /\ IF job[j].status \in {"queued", "running"}
       THEN /\ job'  = [job EXCEPT ![j] = Taken(@, ApiBackground)]
            /\ task' = [task EXCEPT ![j] = "running"]
       ELSE /\ task' = [task EXCEPT ![j] = "none"]
            /\ UNCHANGED job
    /\ UNCHANGED <<batch, probe, report>>

\* mark_running takes any queued job, its backoff pending or not.
BackgroundStarts(j) ==
    /\ task[j] = "scheduled"
    /\ IF job[j].status = "queued"
       THEN /\ job'  = [job EXCEPT ![j] = Taken(@, ApiBackground)]
            /\ task' = [task EXCEPT ![j] = "running"]
       ELSE /\ task' = [task EXCEPT ![j] = "none"]
            /\ UNCHANGED job
    /\ UNCHANGED <<batch, probe, report>>

\* One shot: a failure is recorded with mark_failed, never with a retry.
BackgroundFinishes(j) ==
    /\ task[j] = "running"
    /\ task' = [task EXCEPT ![j] = "none"]
    /\ IF job[j].status = "running"
       THEN \E row \in {Completed(job[j]), Failed(job[j])} :
              job' = [job EXCEPT ![j] = row]
       ELSE UNCHANGED job
    /\ UNCHANGED <<batch, probe, report>>

\* Tasks live in the API process only: a restart loses them.
BackgroundLost(j) ==
    /\ task[j] # "none"
    /\ task' = [task EXCEPT ![j] = "none"]
    /\ UNCHANGED <<job, batch, probe, report>>

-----------------------------------------------------------------------------
(* The operator.                                                            *)

RetryFailed(j) ==
    /\ job[j].status = "failed"
    /\ job[j].retries < MaxManualRetries
    /\ \E budget \in Budgets : job' = [job EXCEPT ![j] = Retried(@, budget)]
    /\ UNCHANGED <<batch, probe, report, task>>

CancelJob(j) ==
    /\ job[j].status \in {"queued", "running"}
    /\ job' = [job EXCEPT ![j] = Cancelled(@)]
    /\ UNCHANGED <<batch, probe, report, task>>

-----------------------------------------------------------------------------
(* Time.                                                                    *)

BackoffElapses(j) ==
    /\ job[j].due = "later"
    /\ job' = [job EXCEPT ![j].due = "due"]
    /\ UNCHANGED <<batch, probe, report, task>>

\* locked_until passes: for the row and for the owner's copy of it.
LeaseElapses(j) ==
    /\ job[j].lease = "live"
    /\ LeaseCoversRun => ~Executing(j)
    /\ job' = [job EXCEPT ![j].lease = "expired"]
    /\ batch' = [w \in Workers |->
                   {IF c.job = j /\ job[j].owner = w THEN [c EXCEPT !.live = FALSE]
                                                     ELSE c : c \in batch[w]}]
    /\ UNCHANGED <<probe, report, task>>

\* The lease a worker was given passes after the row has moved on.
StaleLeaseElapses(w) ==
    /\ ~LeaseCoversRun
    /\ \E c \in batch[w] :
         /\ c.live
         /\ job[c.job].owner # w
         /\ batch' = [batch EXCEPT ![w] = (@ \ {c}) \cup {[c EXCEPT !.live = FALSE]}]
    /\ UNCHANGED <<job, probe, report, task>>

-----------------------------------------------------------------------------

Init ==
    /\ job    = [j \in Jobs |-> AbsentRow]
    /\ batch  = [w \in Workers |-> {}]
    /\ probe  = [w \in Workers |-> NoJob]
    /\ report = [w \in Workers |-> NoReport]
    /\ task   = [j \in Jobs |-> "none"]

WorkerStep(w) ==
    \/ ClaimQueued(w) \/ RunSucceeds(w) \/ RunFails(w) \/ ReadJobAgain(w)
    \/ WorkerCrashes(w) \/ StaleLeaseElapses(w)

JobStep(j) ==
    \/ SubmitJob(j) \/ BackgroundStarts(j) \/ BackgroundFinishes(j)
    \/ BackgroundLost(j) \/ RetryFailed(j) \/ CancelJob(j)
    \/ BackoffElapses(j) \/ LeaseElapses(j)

Next == (\E w \in Workers : WorkerStep(w)) \/ (\E j \in Jobs : JobStep(j))

Spec == Init /\ [][Next]_vars

\* Workers are called again and again and every run of the workflow ends;
\* nothing obliges anybody to submit, retry or cancel, or a process to crash.
Fairness ==
    /\ \A w \in Workers : /\ WF_vars(ClaimQueued(w))
                          /\ WF_vars(RunSucceeds(w) \/ RunFails(w))
                          /\ WF_vars(ReadJobAgain(w))
    /\ \A j \in Jobs : /\ WF_vars(BackgroundStarts(j))
                       /\ WF_vars(BackgroundFinishes(j))
                       /\ WF_vars(BackoffElapses(j))
                       /\ WF_vars(LeaseElapses(j))

FairSpec == Spec /\ Fairness

-----------------------------------------------------------------------------
(* Properties.                                                              *)

TypeOK ==
    /\ job    \in [Jobs -> Row]
    /\ batch  \in [Workers -> SUBSET Claim]
    /\ probe  \in [Workers -> Jobs \cup {NoJob}]
    /\ report \in [Workers -> [Jobs -> Outcome]]
    /\ task   \in [Jobs -> {"none", "scheduled", "running"}]

\* No queued job is out of attempts (claim_queued would pass it over for
\* ever), and no job is charged more attempts than its budget.
QueuedKeepsAttempts ==
    \A j \in Jobs : /\ job[j].attempts <= job[j].max
                    /\ job[j].status = "queued" => HasAttemptsRemaining(job[j])

\* The columns tell one story whatever the order of the writes: a lease and an
\* owner exactly while running (claim_queued's reclaim condition reads them),
\* a due time exactly while queued, completed_at exactly when terminal (the
\* table's check constraint would otherwise abort the write).
RowConsistent ==
    \A j \in Jobs : LET row == job[j] IN
        /\ row.status = "running" <=> row.lease # "none"
        /\ row.status = "running" <=> row.owner # NoWorker
        /\ row.status = "queued"  <=> row.due # "none"
        /\ row.status \in Terminal <=> row.closed

\* A cancelled or completed job is never written again: no late outcome of a
\* worker that lost the race, no reclaim, no manual retry.
SettledIsFinal ==
    [][\A j \in Jobs : job[j].status \in {"completed", "cancelled"}
                         => job'[j] = job[j]]_vars

\* What a worker's report says of a job stays true: "completed" and
\* "cancelled" jobs are so in the table, and at most one of several workers
\* that ran the same job reports its completion.
ReportTruthful ==
    \A w \in Workers, j \in Jobs :
        /\ report[w][j] = "completed" =>
             /\ job[j].status = "completed"
             /\ \A v \in Workers \ {w} : report[v][j] # "completed"
        /\ report[w][j] = "cancelled" => job[j].status = "cancelled"

\* Without background tasks a job fails only when its attempts are used up,
\* even if a worker records a failure of an attempt it no longer owns.
FailedMeansExhausted ==
    ExecutionMode = "external" =>
        \A j \in Jobs : job[j].status = "failed" => ~HasAttemptsRemaining(job[j])

\* A job that was retried by hand carries the error of the failed attempt it
\* was retried from, and no other job carries one.
RetryKeepsPreviousError ==
    \A j \in Jobs :
        job[j].retries > 0 <=> job[j].previous \in {"retry_scheduled", "final"}

\* While leases outlast runs, no two executors work on the same job: neither
\* two workers, nor a worker and the background task.
ExclusiveExecution ==
    LeaseCoversRun =>
        /\ \A v, w \in Workers : \A c \in batch[v], d \in batch[w] :
             c.job = d.job => v = w /\ c = d
        /\ \A w \in Workers : \A c \in batch[w] : task[c.job] # "running"

\* While leases outlast runs, whoever works on a job still owns its row and the
\* attempt it was given, so that its outcome is recorded, unless an operator
\* cancelled the job.
HolderOwnsJob ==
    LeaseCoversRun =>
        /\ \A w \in Workers : \A c \in batch[w] : LET row == job[c.job] IN
             \/ row.status = "cancelled"
             \/ /\ row.status = "running" /\ row.owner = w /\ row.lease = "live"
                /\ row.attempts = c.attempt /\ row.max = c.max
        /\ \A j \in Jobs : task[j] = "running" =>
             \/ job[j].status = "cancelled"
             \/ /\ job[j].status = "running" /\ job[j].owner = ApiBackground
                /\ job[j].lease = "live"

\* While leases outlast runs, the retry_scheduled flag an operator reads in the
\* error, computed from the worker's snapshot, agrees with what the store
\* decided from the row.
ErrorAgreesWithStatus ==
    LeaseCoversRun =>
        \A j \in Jobs : CASE job[j].status = "queued" ->
                               job[j].error \in {"none", "retry_scheduled"}
                          [] job[j].status = "failed" -> job[j].error = "final"
                          [] OTHER -> TRUE

\* Only an executor that died on the last attempt leaves a job running
\* for ever: its lease is over and claim_queued passes the row over.
Orphaned(j) ==
    /\ job[j].status = "running"
    /\ job[j].lease = "expired"
    /\ ~HasAttemptsRemaining(job[j])
    /\ ~Executing(j)

\* Every submitted job ends completed, failed, cancelled or orphaned, whatever
\* crashes and lapsed leases it meets on its way.
JobSettles ==
    \A j \in Jobs : job[j].status \in {"queued", "running"}
                      ~> (job[j].status \in Terminal \/ Orphaned(j))

-----------------------------------------------------------------------------
(* The queue implements what it promises to clients.                        *)

Attempts == INSTANCE JobLifecycle WITH
    phase   <- [j \in Jobs |-> job[j].status],
    left    <- [j \in Jobs |-> job[j].max - job[j].attempts],
    OneShot <- ExecutionMode = "background"

\* Whatever workers, background tasks, operators and clocks do, a client sees
\* the life cycle of JobLifecycle: every start of work is paid for, nothing
\* fails early, nothing that ended starts again unless an operator reopens it.
ImplementsLifecycle == Attempts!Spec

-----------------------------------------------------------------------------
(* What the documents say and the code does not do.                         *)

\* README.md:367: "once attempts are exhausted the job becomes terminal failed"
\* (or, of course, completes or is cancelled).
ExhaustedBecomesTerminal ==
    \A j \in Jobs : (job[j].status = "running" /\ ~HasAttemptsRemaining(job[j]))
                      ~> job[j].status \in Terminal
=============================================================================
