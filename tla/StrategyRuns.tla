----------------------------- MODULE StrategyRuns -----------------------------
(***************************************************************************)
(* Executions of the growth-strategy workflow and what they leave behind:   *)
(* the row of a run in agent_runs with its steps, the campaign draft, and   *)
(* the job, when a worker executes it.                                      *)
(*                                                                          *)
(*   strategy.py                     generate_growth_strategy               *)
(*   persistence/run_store.py        PostgresAgentRunStore                  *)
(*   persistence/campaign_draft_store.py                                    *)
(*   run_lifecycle.py, api.py        resume and retry                       *)
(*   strategy_job_worker.py          execute_claimed_strategy_job           *)
(*                                                                          *)
(* Several executions may write the same run: the attempts of a job all     *)
(* carry the job's run id, and a resume reuses the run's.  All runs here    *)
(* have the same brief, so they share one draft.  The job is the client     *)
(* view of JobLifecycle, which StrategyJobs implements.                     *)
(***************************************************************************)
EXTENDS Integers

CONSTANTS
    Threads,        \* API handlers and workers, each one execution at a time
    Runs,
    JobRun,         \* the run id the job was submitted with
    NoRun,
    Job,
    Budgets,        \* values of STRATEGY_JOB_MAX_ATTEMPTS
    MaxExecutions   \* bound: executions of the workflow

ASSUME RunsAssumption == JobRun \in Runs /\ NoRun \notin Runs
ASSUME BudgetsAssumption == Budgets \subseteq Nat

VARIABLES
    run,         \* agent_runs, with agent_run_steps
    draft,       \* campaign_drafts: the row of the brief
    thread,      \* what each thread is doing
    executions,  \* executions begun so far: they are numbered
    used,        \* runs whose usage events are in the outbox
    completions, \* runs recorded completed, with the execution that did
    drafts,      \* drafts stored, with the execution that did
    abandoned,   \* runs some execution of which ended without an outcome
    phase, left, \* the job: JobLifecycle
    deployment   \* may executions of a run overlap, is usage of memories tracked

jobVars == <<phase, left>>
history == <<completions, drafts, abandoned>>
vars == <<run, draft, thread, executions, used, completions, drafts, abandoned,
          phase, left, deployment>>

Queue == INSTANCE JobLifecycle WITH Jobs <- {Job}, OneShot <- FALSE

-----------------------------------------------------------------------------
(* Rows: by is the execution that wrote it, strategy and steps the          *)
(* executions whose final strategy and steps it holds, 0 if none.           *)

NoRow == [status |-> "none", by |-> 0, strategy |-> 0, steps |-> 0]

Started(e) == [status |-> "running", by |-> e, strategy |-> 0, steps |-> 0]

Completed(e) == [status |-> "completed", by |-> e, strategy |-> e, steps |-> e]

\* Faulty: a status that the check constraint of the table rejects.
FailedAsCancelled(e) == [status |-> "cancelled", by |-> e, strategy |-> 0, steps |-> e]

Failed(e) == [status |-> "failed", by |-> e, strategy |-> 0, steps |-> e]

-----------------------------------------------------------------------------
(* Threads.                                                                 *)

Idle == [step |-> "idle", run |-> NoRun, exec |-> 0, forJob |-> FALSE]

At(t, s) == thread[t].step = s

Work(t) == [run |-> thread[t].run, by |-> thread[t].exec]

Goto(t, s) == thread' = [thread EXCEPT ![t].step = s]

Ends(t) == thread' = [thread EXCEPT ![t] = Idle]

Executing(r) == \E t \in Threads : thread[t].run = r

\* An execution is about to be recorded as started.
Begin(t, r, forJob) ==
    /\ At(t, "idle") /\ executions < MaxExecutions
    /\ ~deployment.overlap => ~Executing(r)
    /\ executions' = executions + 1
    /\ thread' = [thread EXCEPT ![t] =
          [step |-> "start", run |-> r, exec |-> executions', forJob |-> forJob]]

\* POST /growth-strategies; the retry of a failed run is the same under a new
\* run id.
Generate(t, r) ==
    /\ r # JobRun /\ run[r].status = "none" /\ ~Executing(r)
    /\ Begin(t, r, FALSE)
    /\ UNCHANGED <<run, draft, used, history, jobVars, deployment>>

\* Faulty: completed runs are resumed too.
ResumableWhateverStatus(r) == run[r].status # "none"

Resumable(r) == run[r].status \in {"running", "failed"}

\* POST /runs/{run_id}/resume: the check is a read of its own.
Resume(t, r) ==
    /\ Resumable(r)
    /\ Begin(t, r, FALSE)
    /\ UNCHANGED <<run, draft, used, history, jobVars, deployment>>

\* A worker claims the job, or claims it again.
ClaimJob(t) ==
    /\ Queue!Start({Job})
    /\ Begin(t, JobRun, TRUE)
    /\ UNCHANGED <<run, draft, used, history, deployment>>

\* Faulty: the upsert sets the status only.
RecordStartedOverOldRow(t) ==
    /\ At(t, "start")
    /\ run' = [run EXCEPT ![thread[t].run].status = "running",
                          ![thread[t].run].by = thread[t].exec]
    /\ Goto(t, "planner")
    /\ UNCHANGED <<draft, executions, used, history, jobVars, deployment>>

RecordStarted(t) ==
    /\ At(t, "start")
    /\ run' = [run EXCEPT ![thread[t].run] = Started(thread[t].exec)]
    /\ Goto(t, "planner")
    /\ UNCHANGED <<draft, executions, used, history, jobVars, deployment>>

PlanMade(t) ==
    /\ At(t, "planner") /\ Goto(t, "retriever")
    /\ UNCHANGED <<run, draft, executions, used, history, jobVars, deployment>>

\* The retriever enqueues the usage events of the run.
Retrieved(t) ==
    /\ At(t, "retriever")
    /\ ~(deployment.usageTracked /\ thread[t].run \in used)
    /\ used' = IF deployment.usageTracked THEN used \cup {thread[t].run} ELSE used
    /\ Goto(t, "tools")
    /\ UNCHANGED <<run, draft, executions, history, jobVars, deployment>>

\* They are there already, with another payload: OutboxConflictError, which is
\* no StrategyGenerationError.  Nothing is recorded on the run.
RetrievalRaises(t) ==
    /\ At(t, "retriever")
    /\ deployment.usageTracked /\ thread[t].run \in used
    /\ abandoned' = abandoned \cup {thread[t].run}
    /\ IF thread[t].forJob THEN Goto(t, "failed") ELSE Ends(t)
    /\ UNCHANGED <<run, draft, executions, used, completions, drafts, jobVars, deployment>>

\* Tools, critic, revisions and finalizer.
StrategyMade(t) ==
    /\ At(t, "tools") /\ Goto(t, "recording")
    /\ UNCHANGED <<run, draft, executions, used, history, jobVars, deployment>>

\* StrategyGenerationError
StrategyFails(t) ==
    /\ At(t, "planner") \/ At(t, "tools")
    /\ Goto(t, "failing")
    /\ UNCHANGED <<run, draft, executions, used, history, jobVars, deployment>>

\* Faulty: a failure is told, not recorded.
RecordFailedNowhere(t) ==
    /\ At(t, "failing")
    /\ IF thread[t].forJob THEN Goto(t, "failed") ELSE Ends(t)
    /\ UNCHANGED <<run, draft, executions, used, history, jobVars, deployment>>

RecordFailed(t) ==
    /\ At(t, "failing")
    /\ run' = [run EXCEPT ![thread[t].run] = Failed(thread[t].exec)]
    /\ IF thread[t].forJob THEN Goto(t, "failed") ELSE Ends(t)
    /\ UNCHANGED <<draft, executions, used, history, jobVars, deployment>>

RecordCompleted(t) ==
    /\ At(t, "recording")
    /\ run' = [run EXCEPT ![thread[t].run] = Completed(thread[t].exec)]
    /\ completions' = completions \cup {Work(t)}
    /\ Goto(t, "drafting")
    /\ UNCHANGED <<draft, executions, used, drafts, abandoned, jobVars, deployment>>

StoreDraft(t) ==
    /\ draft' = Work(t)
    /\ drafts' = drafts \cup {Work(t)}
    /\ IF thread[t].forJob THEN Goto(t, "succeeded") ELSE Ends(t)
    /\ UNCHANGED <<run, executions, used, completions, abandoned, jobVars, deployment>>

\* Faulty: the draft is stored as soon as there is one.
RecordDraftFirst(t) == (At(t, "recording") \/ At(t, "drafting")) /\ StoreDraft(t)

RecordDraft(t) == At(t, "drafting") /\ StoreDraft(t)

\* Faulty: the job is completed whatever became of the execution.
MarkCompletedAnyway(t) ==
    /\ At(t, "succeeded") \/ At(t, "failed")
    /\ Ends(t)
    /\ IF phase[Job] = "running" THEN Queue!Complete(Job) ELSE UNCHANGED jobVars
    /\ UNCHANGED <<run, draft, executions, used, history, deployment>>

\* mark_completed and mark_attempt_failed change a running job only.
MarkCompleted(t) ==
    /\ At(t, "succeeded")
    /\ Ends(t)
    /\ IF phase[Job] = "running" THEN Queue!Complete(Job) ELSE UNCHANGED jobVars
    /\ UNCHANGED <<run, draft, executions, used, history, deployment>>

MarkAttemptFailed(t) ==
    /\ At(t, "failed")
    /\ Ends(t)
    /\ IF phase[Job] = "running"
       THEN IF left[Job] > 0 THEN Queue!Requeue(Job) ELSE Queue!Fail(Job)
       ELSE UNCHANGED jobVars
    /\ UNCHANGED <<run, draft, executions, used, history, deployment>>

\* The process dies.
Crashes(t) ==
    /\ ~At(t, "idle")
    /\ abandoned' = abandoned \cup {thread[t].run}
    /\ Ends(t)
    /\ UNCHANGED <<run, draft, executions, used, completions, drafts, jobVars, deployment>>

-----------------------------------------------------------------------------
(* Clients and operators of the job.  None of them stops an execution.      *)

ManageJob ==
    /\ Queue!Submit(Job) \/ Queue!Cancel(Job) \/ Queue!Reopen(Job)
    /\ UNCHANGED <<run, draft, thread, executions, used, history, deployment>>

-----------------------------------------------------------------------------

Init ==
    /\ run = [r \in Runs |-> NoRow]
    /\ draft = [run |-> NoRun, by |-> 0]
    /\ thread = [t \in Threads |-> Idle]
    /\ executions = 0
    /\ used = {} /\ completions = {} /\ drafts = {} /\ abandoned = {}
    /\ Queue!Init
    /\ deployment \in [overlap : BOOLEAN, usageTracked : BOOLEAN]

\* What a thread does once it has begun.
Proceed(t) ==
    \/ RecordStarted(t) \/ PlanMade(t) \/ Retrieved(t) \/ RetrievalRaises(t)
    \/ StrategyMade(t) \/ StrategyFails(t) \/ RecordFailed(t) \/ RecordCompleted(t)
    \/ RecordDraft(t) \/ MarkCompleted(t) \/ MarkAttemptFailed(t)

Next ==
    \/ ManageJob
    \/ \E t \in Threads :
          \/ \E r \in Runs : Generate(t, r) \/ Resume(t, r)
          \/ ClaimJob(t) \/ Proceed(t) \/ Crashes(t)

Spec == Init /\ [][Next]_vars

\* Handlers and workers run; nobody is obliged to resume or to claim.
FairSpec == Spec /\ \A t \in Threads : WF_vars(Proceed(t))

-----------------------------------------------------------------------------
(* Properties.                                                              *)

Step == {"idle", "start", "planner", "retriever", "tools", "recording", "failing",
         "drafting", "succeeded", "failed"}

Numbers == 0 .. executions

TypeOK ==
    /\ run \in [Runs -> [status : {"none", "running", "completed", "failed"},
                         by : Numbers, strategy : Numbers, steps : Numbers]]
    /\ draft \in [run : Runs \cup {NoRun}, by : Numbers]
    /\ thread \in [Threads -> [step : Step, run : Runs \cup {NoRun}, exec : Numbers,
                               forJob : BOOLEAN]]
    /\ executions \in Nat
    /\ used \subseteq Runs /\ abandoned \subseteq Runs
    /\ completions \subseteq [run : Runs, by : Numbers]
    /\ drafts \subseteq [run : Runs, by : Numbers]
    /\ phase \in [{Job} -> {"absent", "queued", "running", "completed", "failed", "cancelled"}]
    /\ left \in [{Job} -> Nat]
    /\ deployment \in [overlap : BOOLEAN, usageTracked : BOOLEAN]

\* However executions of a run overlap, its row never mixes two of them: the
\* strategy and the steps are the ones of the execution that wrote the status.
RowTellsOneExecution ==
    \A r \in Runs : LET row == run[r] IN
        /\ row.status \in {"none", "running"} => row.strategy = 0 /\ row.steps = 0
        /\ row.status = "failed" => row.strategy = 0 /\ row.steps = row.by
        /\ row.status = "completed" =>
              /\ row.strategy = row.by /\ row.steps = row.by
              /\ [run |-> r, by |-> row.by] \in completions

\* The stored draft was made by an execution that had recorded its run as
\* completed: no draft of a failed or unfinished execution.
DraftFollowsCompletion ==
    /\ draft.run # NoRun => draft \in drafts
    /\ drafts \subseteq completions

\* A job is completed only when an execution of its run recorded its strategy
\* and stored its draft, whatever other attempts or resumes did meanwhile.
CompletedJobHasResult ==
    phase[Job] = "completed" => \E made \in drafts : made.run = JobRun

\* While executions of a run do not overlap, a completed job has a completed
\* run with its draft: neither an attempt nor a resume takes it back.
JobRunAgree ==
    ~deployment.overlap /\ phase[Job] = "completed" =>
        /\ run[JobRun].status = "completed"
        /\ [run |-> JobRun, by |-> run[JobRun].by] \in drafts

\* A run that was started ends, unless an execution of it was abandoned.
RunsEnd ==
    \A r \in Runs :
        run[r].status = "running" ~> run[r].status # "running" \/ r \in abandoned

\* .agent/plans/run-resume-api.md:22: completed runs are not resumable.
ResumesOnlyUnfinished ==
    [][\A t \in Threads :
         At(t, "start") /\ thread'[t].step = "planner" /\ ~thread[t].forJob
            => run[thread[t].run].status # "completed"]_vars
=============================================================================
