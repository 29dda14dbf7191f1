# Verification of the Ads Growth Agent Platform

TLA+ modules, TLC configurations and TLAPS proofs for
`autonomous-ads-growth-agent-platform`, a FastAPI service and command line that
turn an advertiser's brief into a campaign strategy with a LangGraph workflow,
keep the results in PostgreSQL, and learn from performance feedback. All paths
below are relative to the repository; Python files without a directory are in
`src/ads_growth_agent/`, `persistence/` is `src/ads_growth_agent/persistence/`.

The modules translate the PostgreSQL-backed stores, because they are the ones
that several processes share. The in-memory stores behave alike within one
process except where this file says otherwise.

## 1. Inventory

| Component | State it keeps | Operations that change it | Status |
|---|---|---|---|
| Strategy-job queue (`persistence/strategy_job_store.py`) | `strategy_jobs`: status, attempts, owner, lease, due time, error, manual retries | `create_job`, `mark_running`, `claim_queued`, `mark_completed`, `mark_failed`, `mark_attempt_failed`, `retry_failed`, `cancel_job` | `StrategyJobs` |
| Job workers (`strategy_job_worker.py`, `strategy_job_submission.py`) | the claimed batch, the report | claim, execute one by one, write the outcome, read again | `StrategyJobs` |
| Outbox (`persistence/outbox_store.py`, `outbox.py`) | `outbox_events`: status, attempts, lease, payload hash | `enqueue`, `claim_pending`, `mark_completed`, `mark_failed`, `retry_failed` and the loop over a batch | `Outbox` |
| Advertiser memory (`persistence/advertiser_memory_store.py`, `handoff_memory.py`) | `advertiser_memories`, `usage_count` | `record_feedback_memory`, `record_handoff_memory`, `record_retrieval_usage` | `Outbox` |
| Knowledge retrieval (`persistence/knowledge_store.py`) | retrieval events | `retrieve`, with the usage events it enqueues | `Outbox` |
| Idempotency keys (`persistence/idempotency_store.py`) | `idempotency_keys`: status, request hash, response, expiry | `begin`, `mark_completed`, `mark_failed`, and the handler around them in `api.py` | `Idempotency` |
| Strategy runs (`strategy.py`, `run_lifecycle.py`, `persistence/run_store.py`, `persistence/campaign_draft_store.py`) | `agent_runs`, `agent_run_steps`, `campaign_drafts` | start, completion, failure, draft, resume, retry | `StrategyRuns` |
| Performance events (`persistence/performance_event_store.py`, `api.py`) | `campaign_performance_events`, each with its analysis | submission, replay, the upsert, the memory of the event | `PerformanceEvents`, `EventHistory` |
| Feedback analysis (`feedback.py`, `feedback_outcome_report.py`) | none | metrics, health, recommendations, draft; two snapshots compared | `PerformanceAnalysis`, `Money` |
| Feedback loop (`feedback_execution_plan.py`, `feedback_execution_dry_run.py`, `feedback_handoff_*.py`, `persistence/feedback_*_store.py`) | reviews, dry runs, hand-off records | review, review of a revision, dry run, hand-off and its memory | `FeedbackLoop` |
| Feedback views (`feedback_lineage.py`, `feedback_loop_*.py`) | none | lineage, summary, timeline, command center, chain: read only | `FeedbackViews` |
| Workflow graph (`graph.py`, `llm.py`, `tools.py`, `graph_checkpointer.py`) | the state of one execution, and its thread | planner, retriever, tools, critic and bounded revision, finalizer; structured output with fallback and repairs | `GraphWorkflow`; an execution is a few abstract steps in `StrategyRuns` |
| HTTP API and CLI (`api.py`, `cli.py`) | none | the handlers around the components, each with its order of steps | in the modules of the components |
| Brief intake, evaluation, ops summary, health, observability, configuration, `scripts/` | none, or read only | | not modelled, reasons in `PROJECT.json` |

How they interact:

- A **job** is submitted through the API or CLI with a run id. External workers
  (`process-strategy-jobs`) claim batches under a lease; in background mode the
  API starts a task of its own for the job instead. Every attempt executes the
  **run** of that id, and the outcome is written to the run, to the draft, and
  then to the job, each in its own transaction.
- The **run** retrieves knowledge; if learned memories are among the results,
  the retrieval enqueues one **outbox** event per memory, in its own transaction.
- Ingested performance events and handoff records enqueue the write of a
  **memory**. Outbox workers apply both kinds of events, one transaction for the
  effect and one for the mark.
- An **event**'s analysis proposes a draft; a **review** decides over it and, when
  it asks for a revision, becomes the source of the next. An approved review has
  an execution plan, whose **dry run** executes draft tools only, and a hand-off
  package, of which an operator **records** what was done outside the system. The
  views read all these tables and tell operators what to do next; the next
  snapshot of the campaign tells whether it helped.
- A synchronous request may carry an **idempotency key**, claimed before and
  settled after the run.
- Operators cancel jobs, and retry failed jobs, failed events and failed runs;
  interrupted runs can be resumed under their own id.

What is hard in it: nothing holds a transaction across the execution of a
workflow or a handler, so every row may have changed hands when an outcome is
written; leases and TTLs are guesses about durations; the same run is executed
more than once (attempts, resume, stale workers); a process may die between any
two of the transactions that belong together; and most outcome writes look only
at a status, or at nothing. `PROJECT.json` lists these hazards line by line with
the properties that are about them, or why none is.

What makes each component correct:

- queue: under leases that cover the runs, one executor at a time, who still
  owns its row; under leases that do not, attempts are still counted right, a
  settled job is never written again, and no report lies; every job ends;
- outbox and memory: one memory per source, no completed event without its
  effect, at-least-once usage, attempts decide, every event ends;
- idempotency: no caller gets the response to another request; one execution at
  a time and a stable outcome while the TTL covers requests;
- runs: the row, the steps, the draft and the job tell one story however
  executions overlap; every run ends;
- performance events: senders who name one advertiser are given one analysis of
  an event, the one its memory is made from; where first submissions of the event
  did not race, its metrics are final, everybody is given the stored analysis and
  no repetition is refused;
- feedback loop: what is recorded as applied was shown, selected, approved and
  dry-run with success; what operators are told to do is what handlers accept;
- graph: bounded revisions and repairs, one verdict, no strategy that the critic
  rejected, and nothing of an earlier execution in a later one's result.

## 2. Modules

| Module | What it is |
|---|---|
| `JobLifecycle` | What the queue promises a client: phases and a budget of attempts, no workers, leases or time. |
| `StrategyJobs` | The queue with everything that writes to it. |
| `StrategyJobsProofs` | Its invariants, that jobs run out, and the proof that it implements `JobLifecycle`. |
| `Outbox`, `OutboxProofs` | The outbox, the memories and their usage counts. |
| `Idempotency`, `IdempotencyProofs` | One idempotency key and the requests that carry it. |
| `StrategyRuns`, `StrategyRunsProofs` | Runs, steps, drafts and the job whose attempts execute them; composes with `JobLifecycle`. |
| `EventHistory` | What the event table promises: an event is stored once, unless first submissions race. |
| `PerformanceEvents`, `PerformanceEventsProofs` | The handler that ingests events; its invariants, and the proof that it implements `EventHistory`. |
| `Money`, `PerformanceAnalysis` | Rounding, and what the service concludes from one or two snapshots: pure operators. |
| `FeedbackLoop`, `FeedbackLoopProofs` | Reviews, dry runs and hand-offs over the events of `EventHistory`. |
| `FeedbackViews`, `FeedbackViewsProofs` | What operators are shown of `FeedbackLoop`, and that it does not mislead them. |
| `GraphWorkflow`, `GraphWorkflowProofs` | The nodes of the workflow, the calls to a model, and the executions of one run. |
| `MC*` | Definitions for TLC: job numbers, metrics, plans and critiques, symmetry sets, the specification without crashes. |

Definitions introduced by a comment that begins "Faulty" are plausible bugs of the
definition that follows them (a dropped guard, a forgotten reset, a swapped
order). No action uses them. They are the mutants of `PROJECT.json`: put in the
place of the true definition, each makes a property fail, which shows that the
property depends on the code.

### StrategyJobs

`job` is the table, a record of columns per job. `batch[w]` holds the snapshots
that `claim_queued` returned and worker `w` has still to execute; `probe[w]` is
the job a worker is about to read again because its outcome was rejected;
`report` is the worker's report; `task` is the API's background task of a job.
One store method is one transaction on one row (or one batch of rows), hence one
action; a worker is not atomic.

| Code | Action or operator |
|---|---|
| `create_job`, submission | `SubmitJob` |
| `claim_queued` (`FOR UPDATE SKIP LOCKED`, limit) | `ClaimQueued`, `Claimable` |
| `execute_claimed_strategy_job`, success or error | `RunSucceeds`, `RunFails` with `CompletionRecorded`, `AttemptFailureRecorded`, or `OutcomeRejected` |
| `_job_was_cancelled` | `ReadJobAgain` |
| background task | `BackgroundStarts`, `BackgroundFinishes`, `BackgroundLost` |
| retry and cancel | `RetryFailed`, `CancelJob` |
| the clock against `next_attempt_at`, `locked_until` | `BackoffElapses`, `LeaseElapses`, `StaleLeaseElapses` |
| death of a worker | `WorkerCrashes` |

Time is abstract: a lease is live or expired, a due time due or later.
`LeaseCoversRun` states the deployment: TRUE means that no lease lapses while its
job is being executed. Rows that other transactions hold are skipped, so a claim
takes any few of the candidates. A write to a row is a function of the row
(`Taken`, `Released`, `AttemptFailed`, `Retried`, ...), so the proofs can speak
of rows apart from the rest.

### Outbox

`event` is the table by idempotency key: `WriteEvent(s)` writes the memory of a
source, `UsageEvent(s, r)` counts that run `r` used it. `memory[s]` is the number
of rows with that source id, since the schema has no unique constraint on it.
A worker's `phase` follows the handler statement by statement: the upserts of
tenant and advertiser (`UpsertTenant`, whose row locks are `tenantLock` and last
until the commit), the search (`FindMemory`), the insert or update with the
commit (`WriteMemory`), then the mark, in another transaction and without a look
at status or owner. `RecordRetrievalUsage` is one statement. `Retrieve` is the
transaction of a retrieval: the usage events of any cited memories, or a
rollback when one exists with another payload. `HandlerRaises` may happen
anywhere before the commit, `WorkerCrashes` anywhere.

### Idempotency

`row` is the key; `step[r]` follows a request through `begin` (expired row
deleted and new row inserted, or a collision and a second statement that reads
the row, which may be another one by then, or gone: `LosesRace`), the workflow,
and the outcome. `executed` numbers the executions so that a response can be
told from another. `ttlCovers`, chosen initially, tells deployments whose TTL
outlasts every request from others; both are in every run and every proof.

### StrategyRuns

`run[r]` says which execution wrote the row (`by`) and whose strategy and steps
it holds; `draft` is the one draft of the brief; a thread is an API handler or a
worker on its way through `generate_growth_strategy` (`RecordStarted`,
`PlanMade`, `Retrieved` or `RetrievalRaises`, `StrategyMade` or `StrategyFails`,
`RecordCompleted`, `RecordDraft`, `RecordFailed`) and, for a job,
`MarkCompleted` or `MarkAttemptFailed`. The job is `JobLifecycle` itself, which
`StrategyJobs` is proved to implement, with `OneShot` FALSE: external workers.
That a job is claimed again under a running worker needs no lease here: `ClaimJob`
may take a running job. `deployment` chooses whether executions of a run may
overlap (a lapsed lease, a resume beside a living execution) and whether the
usage of memories is tracked. `completions`, `drafts` and `abandoned` are
history: nothing the code does depends on them.

### PerformanceEvents

A handler (`call[c]`) reads the event, answers a repetition with what is stored or
409 another payload, and else analyses, looks again with `FOR UPDATE`
(`LookAgain`), upserts (`Insert`) and enqueues the memory (`EnqueueMemory`), each
step a transaction of its own. The row is keyed by the event, the outbox entry by
the event and the advertiser that the payload names (`MemoryKey`). An analysis is a number, because what tells two
analyses of one payload apart is their `created_at`; the outbox compares it, as
`Outbox` models. A lock on a row that is not there is no lock, so two first
submissions may both reach `Insert`. `EventHistory` is the abstract table: an
event `Arrive`s once, or is `Contest`ed by two submissions while it is new, and then
may be overwritten. `FeedbackLoop` stands on `EventHistory` in place of the handler.

### FeedbackLoop and FeedbackViews

`reviews` and `handoffs` are sequences in the order of `created_at`, `dryRuns` is
one row per review (the id of an execution plan is made from the review's), with
the run that was recorded `first`, whose time the row keeps, and `last`, whose
snapshot it shows. `task[o]` is what an operator's request has computed and not
yet written.

| Code | Action or operator |
|---|---|
| `submit_campaign_feedback_optimization_review` | `Review`, `Draft`, `Record` |
| `submit_feedback_optimization_revision_review` | `ReviewRevision`, `RevisionDraft` |
| `dry_run_feedback_execution_plan_api`, then `record_dry_run` | `DryRun`, `RecordDryRun` |
| `submit_feedback_handoff_record`: package and checks, record, memory | `Handoff`, `RecordHandoff`, `RememberHandoff` |
| death between them | `OperatorCrash` |

A dry run fails only when the registry of the version that runs refuses a tool,
so `Refusals` is the difference between deployed versions. Who computes a dry run
first may record it last. `FeedbackViews` keeps one operator per function of the
views, over the same tables: every list is the newest `n` rows of its table, each
by the column that its query orders by. Titles, counts, texts and ids made from
others are left out. All persistence is enabled, the events are snapshots of one
campaign numbered by `occurred_at`, and a view reads its tables at one moment.

### GraphWorkflow

`state` is `GrowthStrategyState` as the last node left it, `node` the node that
runs, `call` the structured output it is waiting for (`native`, `prompt`,
`repair`, the repairs left, and whether this stage has received any content).
`ReplyInvalid`, `ReplyBroken` (a 200 that is no JSON), `ReplyUnsupported`,
`ReplyError`, `ReplyPlan` and `ReplyCritique` are what a model may answer. A node
that raises leaves the state alone and ends the execution: `failed` with the
results so far (`StrategyGenerationError`), or `escaped` past every handler of the
workflow. `Start` begins an execution with a configuration of its own, on the
state that the last one left when a Postgres checkpointer keeps it. Tools fail
where their amounts are refused (`Splits`, `Result`) and, for a model's plan,
where their parameters are. Texts are left out: that the finalizer may refuse
them is `FinalizeRaises`. Critics' scores are whole numbers.

## 3. Runs

Every run has deadlock checking off: when the bounds are used up and everything
is settled, the system rightly stops. Workers are interchangeable; symmetry is
used in runs without liveness only.

| Run | Question and result |
|---|---|
| `jobs_lease` | Two jobs, two workers and background tasks, leases that cover runs, crashes, cancels, manual retries: one executor at a time (`ExclusiveExecution`), who owns its row unless an operator cancelled (`HolderOwnsJob`), and the error agrees with the decision (`ErrorAgreesWithStatus`). 209,654 states. |
| `jobs_stale` | The same with external workers whose leases may lapse under them: what survives. `QueuedKeepsAttempts`, `RowConsistent`, `SettledIsFinal`, `ReportTruthful`, `FailedMeansExhausted`, the refinement `ImplementsLifecycle`, and liveness: every job ends, or its last permitted attempt died (`JobSettles`). 132,529 states. |
| `jobs_exhausted` | Violation: README.md:367 promises that an exhausted job becomes failed. A worker that dies on the last attempt leaves it running; `claim_queued` passes it over for ever. |
| `outbox_delivery` | Two workers, lapsing leases, failures and deaths anywhere: `OneMemoryPerSource`, `CompletedMeansApplied`, `UsageAtLeastOnce`, `AttemptsDecide`, `EventRowConsistent`, and `EventSettles`. 166,982 states. |
| `outbox_replay_refused` | Violation: `.agent/plans/retrieval-usage-tracking.md`:26 says that the keys make replayed retrievals harmless. The payload holds the moment of the retrieval, so the second retrieval of a run conflicts with the first and fails the attempt. |
| `idempotency_key` | Three requests, two bodies, crashes, failures, expiry at any moment: `ResponsesMatchBodies` always, and a row has a response exactly if it is completed, whoever wrote it late (`TypeOK`); `OneAtATime` and `StoredOutcomeIsFinal` while the TTL covers requests. 1,171,076 states. |
| `runs_outcome` | Requests, resumes, attempts of a job, cancels, manual retries and deaths: `RowTellsOneExecution`, `DraftFollowsCompletion`, `CompletedJobHasResult` always; `JobRunAgree` while executions of a run do not overlap; `RunsEnd`. 276,328 states. |
| `runs_completed_resumed` | Violation: `.agent/plans/run-resume-api.md`:22 says that completed runs are not resumable. The run completes between the check and `record_started`, which sets it back to running and drops its strategy and steps. |
| `performance_events` | Two handlers submit and repeat two events with three payloads, one of which names another advertiser, race and die anywhere: senders who name one advertiser are given one analysis, the one its memory is made from, and the stored one where first submissions did not race (`OneAnswer`); there, row and memories agree and no repetition is refused (`RepetitionsAreAnswered`); the table implements `EventHistory` (`ImplementsHistory`). 328,228 states. |
| `events_overwritten` | Violation: `.agent/plans/performance-event-idempotency.md`:5 says that other metrics under a reused `event_id` must not overwrite historical telemetry. Two first submissions with different payloads find no row to lock, and the second upsert overwrites the first, so that the row tells of another request (`EventIsFinal`). |
| `feedback_loop` | Two operators, reviews and revisions, dry runs of versions that disagree, an event overwritten under its review: only what was approved and passed is applied (`AppliedWasApproved`), every command of the command center and the chain is one its handler accepts (`CommandsAreAccepted`), no entry of a timeline of at most forty reviews, here two, comes before one it stands on (`TimelineIsCausal`), with limits 1 and 50. 444,894 states. |
| `graph_workflow` | Up to three executions of one run on a kept or a fresh thread, planner and critic deterministic or a model that answers anything: `FinishedWasAccepted`, `FailureIsExplained`, and `ExecutionEnds` under fairness. 6,587 states. |

Bounds, and why they suffice:

- two workers are enough for a stale one and its successor; the second call of
  either is the third claimant. Two jobs make batches, and so a lease that covers
  a job not yet begun. Budgets of 1 and 2 give a last attempt, one before it, and
  a row whose budget changes at a manual retry;
- one memory, one run that cites it, and its two events make the write race
  itself and the usage, and a batch of both; one retrieval is enough for
  delivery, two for the refusal. The proofs cover any number;
- three requests are one that runs, one that collides and one that takes over
  when the key expires; two executions of the workflow make a response that is
  not the caller's;
- two threads and three executions let a resume or a stale attempt run beside a
  live one and another follow; the second run shares the draft.
- two handlers make a race of first submissions; three payloads make it one of the
  same request, of two of one advertiser, or of two advertisers; a third analysis
  is that of another event or of a third submission. Two snapshots, one of which is poor and one
  good, give every outcome report and drafts of two changes and of one; two
  reviews are a revision and its source, or two rivals; two dry runs are one that
  passes and one that fails, recorded in either order; a limit of 1 hides what a
  limit of 50 shows. `MaxWork` keeps combinations of all of them small;
- three executions let an execution follow one that failed and one that was lost;
  two revisions and two repairs are one and a last one.

The bounds in guards are `MaxManualRetries` (jobs, events), `MaxRetrievals`
(retrievals of a run), `MaxExecutions` (executions of the workflow),
`MaxAnalyses`, `MaxReviews`, `MaxDryRuns`, `MaxHandoffs` and `MaxWork`. None of
them occurs in the code. `MaxRevisions` and `MaxRepairs` are settings of it.

Fairness. `StrategyJobs` and `Outbox`: the worker commands are called again and
again by a scheduler, a called worker goes on (`WF` on claiming and on what
follows), handlers and workflow runs end, clocks go on, and the database hands a
row lock to a waiting transaction. Nothing obliges anybody to submit, retry,
cancel or crash, and none of these is fair. With leases that may lapse and
workers that may die, weak fairness suffices because attempts are finite.
`StrategyRuns`: a thread that began goes on; nobody is obliged to resume a run
or to claim a job, which is why `RunsEnd` excuses runs with an abandoned
execution. The run about `ExhaustedBecomesTerminal` uses the same fairness, so its
counterexample is not a system that merely stops. `GraphWorkflow`: a node that can
take its step takes it, and a call to a model is answered or given up after the
client's minute; nobody is obliged to start a run. `FeedbackLoop` and
`PerformanceEvents` state no fairness: nothing in them has to happen.

## 4. Proofs

All theorems hold for every value of the constants that the named assumptions
allow: job ids are positive numbers, budgets positive numbers (`StrategyJobs`;
natural numbers in `StrategyRuns`), null values differ from real ones, every
payload names an advertiser, events are numbered from 1, and operators ask with limits from 1 to 100, as `api.py` lets them. The sets
of jobs, workers, sources, requests, threads and runs may be of any size, and the
bounds anything. Snapshots obey what `contracts.py` requires of metrics; plans
and critiques are what its models accept; the graph's limits are natural numbers.

| Theorem | Module | Property |
|---|---|---|
| `TypeCorrect`, `QueuedJobsKeepAttempts`, `RowsConsistent`, `OnlyExhaustedJobsFail`, `RetriedJobsKeepTheirError` | `StrategyJobsProofs` | the type and row invariants of jobs |
| `SettledJobsAreFinal`, `ReportsAreTruthful` | `StrategyJobsProofs` | `SettledIsFinal`, `ReportTruthful` |
| `LeasesExclude`, `HoldersOwnTheirJobs`, `ErrorsAgreeWithStatus` | `StrategyJobsProofs` | `ExclusiveExecution`, `HolderOwnsJob`, `ErrorAgreesWithStatus` |
| `QueueImplementsLifecycle` | `StrategyJobsProofs` | `ImplementsLifecycle` |
| `UnfinishedJobsAreReachable`, `JobsEndOnTheirBudget` | `StrategyJobsProofs` | no job is out of every hand's reach, and each has only so many moves: the safety half of `JobSettles` |
| `OutboxTypeCorrect`, `RowsKeepTheirAttempts`, `RowsAreConsistent` | `OutboxProofs` | `TypeOK`, `AttemptsDecide`, `EventRowConsistent` |
| `WritesAreIdempotent`, `CompletionIsHonest`, `NoUsageIsLost` | `OutboxProofs` | `OneMemoryPerSource`, `CompletedMeansApplied`, `UsageAtLeastOnce` |
| `UnfinishedEventsAreReachable`, `NoAttemptIsRefunded`, `LocksAreReleased` | `OutboxProofs` | no event is out of reach, no outcome gives an attempt back, nobody waits for a lock that nobody will release: the safety half of `EventSettles` |
| `IdempotencyTypeCorrect`, `NobodyGetsAnothersResponse`, `TheKeyIsALock`, `OutcomesAreFinal` | `IdempotencyProofs` | `TypeOK`, `ResponsesMatchBodies`, `OneAtATime`, `StoredOutcomeIsFinal` |
| `RunsTypeCorrect`, `RowsAreNotMixed`, `DraftsAreOfCompletedRuns`, `CompletedJobsHaveResults`, `CompletedJobsKeepTheirRun` | `StrategyRunsProofs` | the invariants of `runs_outcome` |
| `RunsUseLifecycle` | `StrategyRunsProofs` | what runs do to their job is `JobLifecycle` |
| `RunningRunsAreExecuted`, `NoExecutionTurnsBack` | `StrategyRunsProofs` | a running run is being executed or was abandoned, and executions go forward: the safety half of `RunsEnd` |
| `EventsTypeCorrect`, `SendersAgree`, `RepetitionIsSafe` | `PerformanceEventsProofs` | `EventsTypeOK`, `OneAnswer`, `RepetitionsAreAnswered` |
| `EventsImplementHistory` | `PerformanceEventsProofs` | `ImplementsHistory` |
| `TelemetryIsKept` | `PerformanceEventsProofs` | what the plan says of every event (see `events_overwritten`) holds of those whose first submissions did not race |
| `LoopTypeCorrect`, `NothingUnapprovedIsApplied` | `FeedbackLoopProofs` | `TypeOK`, `AppliedWasApproved` |
| `LoopUsesHistory` | `FeedbackLoopProofs` | what the loop does to events is `EventHistory` |
| `OperatorsAreNotMisled` | `FeedbackViewsProofs` | `CommandsAreAccepted` |
| `TimelinesAreCausal` | `FeedbackViewsProofs` | `TimelineIsCausal`: a timeline of at most forty reviews tells nothing before what it stands on |
| `FortyIsTheMost` | `FeedbackViewsProofs` | a dry run of a forty-first review is told before its plan |
| `QuantizedIsNearest` | `FeedbackLoopProofs` | what quantizing keeps is at most half a unit off |
| `ComparisonIsFair` | `FeedbackLoopProofs` | comparing two snapshots the other way round exchanges improved and regressed |
| `GraphTypeCorrect`, `FinishedStrategiesWereAccepted`, `FailuresAreExplained` | `GraphWorkflowProofs` | `TypeOK`, `FinishedWasAccepted`, `FailureIsExplained` |
| `NoExecutionLoops` | `GraphWorkflowProofs` | every step uses up some of what an execution has left: the safety half of `ExecutionEnds` |
| `SplitIsPayable` | `GraphWorkflowProofs` | no budget is split into a negative allocation |

The arguments:

- **Jobs, rows.** The row properties follow from an invariant of one row,
  `RowInv`. `RowChange` lists what any step may do to one row; each listed update
  preserves `RowInv`, and the rest of the proof is that every action only makes
  such changes. This needs no ownership, which is why it survives stale workers.
- **Jobs, ownership.** Exclusive execution is not inductive alone: a reclaim is
  impossible only because the lease of an executing job is live. `OwnershipInv`
  joins it with `HolderOwnsJob`: every snapshot in a batch agrees with its row
  (owner, lease, attempt, budget) unless the job was cancelled. Steps that only
  let go of jobs keep both; the claims are the steps that need the two together.
- **Jobs, refinement.** Under `phase <- status` and `left <- max - attempts`,
  `RowMove` says which step of `JobLifecycle` each row update is; a step that
  writes one row is one step or a stutter, a claimed batch is `Start` of its jobs.
- **Outbox.** `OneMemoryPerSource` rests on the row locks: `LockInv` says that a
  worker between upserts and commit holds them, so what `FindMemory` saw is still
  so at the commit (`MemoryInv`). `UsageInv` counts `Delivered(s)`, the usage
  events whose effect has happened whether or not they are marked: a counting
  step adds at most one to it and one to the counter.
- **Idempotency.** `Carried` says where a response comes from: a successful
  request carries its own execution and a completed row that of its body.
  `Claimed` says that an executing request holds a live row in progress while the
  TTL covers it, so that the row is neither free nor settled.
- **Runs.** `Placed`: who stores a draft has recorded its run completed, who
  reports to the job has stored its draft. `Alone`: where executions of a run do
  not overlap, nobody else touches the run between those steps, and nobody
  executes the run of a completed job.
- **Events.** Where an event is not contested the row, the memories and every
  answer hold one analysis. Where it is, only the outbox decides: it refuses a
  second analysis under the key of one advertiser before the handler answers
  (`MemoryTold`), and knows nothing of other advertisers. The invariant joins the
  two with what each handler that is under way has read.
- **Feedback loop.** An applied record was accepted against the dry run it
  carries; that the run is still the row of its review follows because a row,
  once made, keeps `first` and its review keeps its decision. The chain of
  revisions is an invariant of each review and its source, which are never
  written again.
- **Graph.** `Placed` says, for the node that runs, which path was walked and what
  results are there: it begins with the planner's reset, which is why nothing of an
  earlier execution survives. `Counted` ties the revisions to the notes, the path
  and the limit.

- **Feedback views.** Commands name rows, so they are accepted because of what is
  known of rows: `RunsInv` says that a row of dry runs belongs to an approved
  review and passed or failed, whichever of two operators recorded it last. The rest is which row each view chooses. That the
  newest, the last and the earliest exist is the least-number principle, from the
  library's well-foundedness of `<` on the natural numbers (`LeastNumber`,
  `GreatestNumber`); which command comes first is membership in a sequence.
- **Timeline.** An entry's group is a number, 100 + 10 k for the k-th review of
  the list and 500 for its dry run, so the order of groups is that of causes
  exactly as long as k stays below 40 (`ShortTimelineIsCausal`). A revision is
  recorded after its source, so its index is greater. The API accepts limits up
  to 100 and takes 50 by default. The property is about lists of at most forty;
  `FortyIsTheMost` proves that it ends there. The run, whose reviews are two,
  cannot show it: a counterexample has forty-one reviews, more than TLC can
  search.
- **Composition.** `LoopUsesHistory` and `EventsImplementHistory` meet in
  `EventHistory`, `RunsUseLifecycle` and `QueueImplementsLifecycle` in
  `JobLifecycle`: the one component uses no more than the other is proved to
  promise.
- **Ends.** Liveness itself needs ENABLED. What it stands on is safety, and is
  proved: a rank that every step lowers (moves left of a job, steps left of an
  execution of a run, nodes and then attempts left of an execution of the graph),
  attempts that nobody gives back, and, wherever something has to wait, somebody
  or some clock that it waits for. `NoJobIsStuck` and `NoEventIsStuck` are where a
  stale worker's outcome could do harm: a row put back without an attempt left
  would be claimed by nobody. `JobsRunOut` and `AttemptsAreNotRefunded` except
  what an operator pays for, a submission and a manual retry.

The definitions that these theorems add (`NoJobIsStuck`, `JobsRunOut`,
`NoEventIsStuck`, `AttemptsAreNotRefunded`, `NoLockIsLeaked`, `RunningIsExecuted`,
`Advances`, `FinalUnlessRaced`) were checked by TLC on the instances of the
component's passing run before they were proved.

Only model-checked: that `JobSettles`, `EventSettles`, `RunsEnd` and
`ExecutionEnds` follow under fairness, which is beyond the prover (ENABLED); for
`EventSettles` there is no rank of the row alone either, because a late failure
may move a completed event back to pending; and the violations, which are counterexamples. What a recursive
definition computes for every input would need induction over data, which the
prover cannot instantiate; the least-number principle above, which it can, was
enough here.

## 5. What the code does besides

Seen while modelling; none of these is a run of its own.

- Two workers can hold live claims of one job (README.md:365 says that they do
  not): `mark_attempt_failed` does not ask whose claim it is, so a worker whose
  lease lapsed requeues the job under its successor. `SettledIsFinal` and the
  refinement say what survives.
- A stale failure moves a completed outbox event back to pending: a repeated
  performance event is then answered `queued` after it had been answered
  `recorded` (README.md:532). `OneMemoryPerSource` still holds.
- A usage event whose mark is lost is counted again
  (`.agent/plans/outbox-event-processing.md`:27 calls processing idempotent);
  `UsageAtLeastOnce` is what holds.
- A run whose second attempt is refused by the outbox stays running although
  nobody died (README.md:438); `RunsEnd` excuses such abandoned executions. A
  finalizer or a retriever that raises leaves a run alike.
- First submissions of one payload that race make analyses with two `created_at`,
  the second of which replaces the first in the row: later repetitions may be
  refused by the outbox for ever, with 409.
- First submissions that race and name different advertisers are both answered,
  with different analyses, because the outbox key holds the advertiser
  (`outbox.py`:271): two memories are left, one of an event that the table says
  is the other advertiser's. A repetition by the one who lost is then refused.
- A hand-off request that is repeated makes a second record; a record whose
  request died before its memory never gets one.
- The timeline is not chronological (`.agent/plans/feedback-loop-timeline.md`:4)
  but by groups, and with the default limit of 50 the plan of an event's forty-first
  review is listed after its dry run (`FortyIsTheMost`). Latest dry run and next snapshot depend on the limit asked
  with: the list of dry runs is the newest by the row's first recording.
- A rejection after an approval leaves the loop `execution_ready`; an earlier
  approval is what the command center executes. The stage `event_analyzed` is
  never shown, since every analysed event has a draft to review.
- The chain falls back to the most urgent command when none has a name that its
  focus looks for. An id that an event lacks lifts its
  filter: a snapshot of a run only is compared with any later one of that run. The template for the next snapshot
  proposes the id `<event_id>_followup`, which is a conflict the second time.
- The budget and the days of a model's plan are not compared with the brief's.
- A critique may pass below the configured minimum and name no issue: the revision
  that follows then has nothing to go by.
- A 200 reply that is no JSON raises before the content to repair is bound
  (`llm.py`:225): the repair then works on an earlier reply, or the exception
  escapes the workflow.
- A budget of a few cents has a daily budget of 0.00 and fails as
  `TOOL_FAILURE`, marked retryable.

## 6. What is not modelled, and why

- **In-memory and no-op stores.** One process, no shared rows. The in-memory job
  store keeps the error of an earlier attempt on a completed job; the database
  store does not.
- **Background tasks in `StrategyRuns`.** A one-shot failure of the API's task is
  in `StrategyJobs` only. The CLI's submit schedules no task, and a job retried
  by hand in background mode gets none: such a job waits for an external worker.
- **`OUTBOX_BACKEND=none`**, where memories are written in the request itself, and
  ad-hoc retrievals without a run id, whose event keys are random.
- **`last_used_at`** of a memory, scores, ranking, wording, the seed.
- **The commands of `cli.py`**, which call the same functions and stores in the
  same order as the handlers that are modelled; only exit codes differ. Its
  `analyze-performance` and `demo` store no event.
- **Views with persistence switched off**, their counts, texts and the truncation
  of a timeline, which is a prefix.
- **What LangGraph does inside a step**: a node's update is atomic, and an
  execution of a kept thread begins at the planner.
- **Amounts of more than 28 digits**, which `Decimal` cannot quantize and which
  no brief is kept from having.
- **Brief intake, evaluation, ops summary, health, tracing, configuration,
  request parsing and authentication, and `scripts/`.** Stateless, read only,
  formatting, or calling the service from outside.

## 7. Plan

Done: `StrategyJobs` with `JobLifecycle`, `Outbox`, `Idempotency`, `StrategyRuns`,
`PerformanceEvents` with `EventHistory`, `FeedbackLoop` with its views and
analysis, `GraphWorkflow`, with proofs of each. What would add most next:

1. `StrategyRuns` over `GraphWorkflow`'s outcomes: a run whose workflow escaped
   composed with resume on a kept thread.
2. A lease that is renewed or checked: what `mark_completed` and
   `mark_attempt_failed` would have to ask for one live claim at a time.
3. A rank for `EventSettles` that counts the outcomes still to come; proofs that
   requests with an idempotency key come to an end.
4. The in-memory stores as further implementations of `JobLifecycle`.
