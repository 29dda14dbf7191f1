-------------------------- MODULE StrategyRunsProofs --------------------------
(***************************************************************************)
(* Proofs of the safety properties of StrategyRuns, for any threads, runs,  *)
(* budgets and bound on executions.                                         *)
(*                                                                          *)
(* Two facts carry the argument.  Placed: a thread that stores a draft has  *)
(* recorded its run completed, and one that reports to the job has stored   *)
(* its draft, and only executions of the job report to it.  Alone: where    *)
(* executions of a run do not overlap, nobody else touches the run between  *)
(* those steps, and once the job is completed nobody executes its run.      *)
(***************************************************************************)
EXTENDS StrategyRuns, TLAPS

PlacedAt(t) ==
    /\ thread[t].step = "idle" => thread[t] = Idle
    /\ thread[t].step # "idle" => thread[t].run \in Runs
    /\ thread[t].forJob => thread[t].run = JobRun
    /\ thread[t].step \in {"succeeded", "failed"} => thread[t].forJob
    /\ thread[t].step = "drafting" => Work(t) \in completions
    /\ thread[t].step = "succeeded" => Work(t) \in drafts

Placed == \A t \in Threads : PlacedAt(t)

Solo ==
    \A t, u \in Threads :
        thread[t].run = thread[u].run /\ thread[t].run \in Runs => t = u

Kept ==
    \A t \in Threads : thread[t].step \in {"drafting", "succeeded"} =>
        run[thread[t].run].status = "completed" /\ run[thread[t].run].by = thread[t].exec

Alone ==
    ~deployment.overlap =>
        Solo /\ Kept /\ (phase[Job] = "completed" => ~Executing(JobRun))

Inv ==
    /\ TypeOK /\ RowTellsOneExecution /\ DraftFollowsCompletion
    /\ CompletedJobHasResult /\ JobRunAgree /\ Placed /\ Alone

JobType ==
    /\ phase \in [{Job} -> {"absent", "queued", "running", "completed", "failed", "cancelled"}]
    /\ left \in [{Job} -> Nat]

ThreadType ==
    [step : Step, run : Runs \cup {NoRun}, exec : Numbers, forJob : BOOLEAN]

-----------------------------------------------------------------------------

\* Goto moves one thread and keeps what it works on.
LEMMA GotoEffect ==
    ASSUME TypeOK, NEW t \in Threads, NEW s \in Step, Goto(t, s)
    PROVE  /\ thread' \in [Threads -> ThreadType]
           /\ thread'[t].step = s /\ thread'[t].run = thread[t].run
           /\ thread'[t].exec = thread[t].exec /\ thread'[t].forJob = thread[t].forJob
           /\ \A u \in Threads \ {t} : thread'[u] = thread[u]
  BY DEF TypeOK, Goto, ThreadType

\* Ends makes one thread idle.
LEMMA EndsEffect ==
    ASSUME TypeOK, NEW t \in Threads, Ends(t)
    PROVE  /\ thread' \in [Threads -> ThreadType]
           /\ thread'[t] = Idle
           /\ \A u \in Threads \ {t} : thread'[u] = thread[u]
  <1>1. Idle \in ThreadType
    BY DEF TypeOK, Idle, ThreadType, Step, Numbers
  <1> QED
    BY <1>1 DEF TypeOK, Ends, ThreadType

\* What the job's own steps may do: none but its completion completes it.
LEMMA JobEffect ==
    ASSUME TypeOK,
           \/ Queue!Start({Job}) \/ Queue!Submit(Job) \/ Queue!Cancel(Job)
           \/ Queue!Reopen(Job) \/ Queue!Requeue(Job) \/ Queue!Fail(Job)
           \/ UNCHANGED jobVars
    PROVE  JobType' /\ (phase'[Job] = "completed" => phase[Job] = "completed")
  BY BudgetsAssumption
     DEF TypeOK, JobType, jobVars, Queue!Start, Queue!Submit, Queue!Cancel, Queue!Reopen,
         Queue!Requeue, Queue!Fail, Queue!Enter

\* A thread moves on or ends; the rows, the drafts and the results are as
\* before, and the job is not completed.
LEMMA ThreadMoves ==
    ASSUME Inv, NEW t \in Threads, thread[t].step # "idle",
           \/ Ends(t)
           \/ thread[t].forJob /\ Goto(t, "failed")
           \/ \E s \in {"planner", "retriever", "tools", "recording", "failing"} : Goto(t, s),
           used' \subseteq Runs, abandoned' \subseteq Runs,
           JobType', phase'[Job] = "completed" => phase[Job] = "completed",
           UNCHANGED <<run, draft, executions, completions, drafts, deployment>>
    PROVE  Inv'
  <1>1. TypeOK
    BY DEF Inv
  <1>2. /\ thread' \in [Threads -> ThreadType]
        /\ \A u \in Threads \ {t} : thread'[u] = thread[u]
        /\ \/ thread'[t] = Idle
           \/ /\ thread'[t].run = thread[t].run /\ thread'[t].forJob = thread[t].forJob
              /\ thread'[t].step \in {"planner", "retriever", "tools", "recording",
                                      "failing", "failed"}
              /\ thread'[t].step = "failed" => thread[t].forJob
    BY <1>1, GotoEffect, EndsEffect DEF Step
  <1>3. TypeOK'
    BY <1>1, <1>2 DEF TypeOK, JobType, ThreadType, Numbers
  <1>4. RowTellsOneExecution'
    BY DEF Inv, RowTellsOneExecution
  <1>5. DraftFollowsCompletion' /\ CompletedJobHasResult' /\ JobRunAgree'
    BY DEF Inv, DraftFollowsCompletion, CompletedJobHasResult, JobRunAgree
  <1>6. Placed'
    <2>1. PlacedAt(t)'
      BY <1>2 DEF Inv, Placed, PlacedAt, Idle
    <2>2. ASSUME NEW u \in Threads \ {t} PROVE PlacedAt(u)'
      BY <1>2, <2>2 DEF Inv, Placed, PlacedAt, Work
    <2> QED
      BY <2>1, <2>2 DEF Placed
  <1>7. Alone'
    <2> SUFFICES ASSUME ~deployment.overlap PROVE Alone'
      BY DEF Alone
    <2>1. Solo /\ Kept /\ (phase[Job] = "completed" => ~Executing(JobRun))
      BY DEF Inv, Alone
    <2>2. Solo'
      BY <1>2, <2>1, RunsAssumption DEF Solo, Idle
    <2>3. Kept'
      BY <1>2, <2>1 DEF Kept, Idle
    <2>4. phase'[Job] = "completed" => ~Executing(JobRun)'
      BY <1>2, <2>1, RunsAssumption DEF Executing, Idle
    <2> QED
      BY <2>2, <2>3, <2>4 DEF Alone
  <1> QED
    BY <1>3, <1>4, <1>5, <1>6, <1>7 DEF Inv

-----------------------------------------------------------------------------

\* An execution begins: where executions do not overlap, on a run that nobody
\* executes, and on the job's run only while the job is not completed.
LEMMA BeginInv ==
    ASSUME Inv, NEW t \in Threads, NEW r \in Runs, NEW forJob \in BOOLEAN,
           Begin(t, r, forJob),
           forJob => r = JobRun,
           ~deployment.overlap /\ r = JobRun => phase'[Job] # "completed",
           JobType', phase'[Job] = "completed" => phase[Job] = "completed",
           UNCHANGED <<run, draft, used, history, deployment>>
    PROVE  Inv'
  <1> DEFINE new == [step |-> "start", run |-> r, exec |-> executions + 1, forJob |-> forJob]
  <1>1. /\ executions' = executions + 1 /\ executions \in Nat
        /\ thread' = [thread EXCEPT ![t] = new]
        /\ ~deployment.overlap => ~Executing(r)
    BY DEF Begin, Inv, TypeOK
  <1>2. \A n \in Numbers : n \in Numbers'
    BY <1>1 DEF Numbers
  <1>3. new \in ThreadType'
    BY <1>1 DEF ThreadType, Step, Numbers
  <1>4. TypeOK'
    <2>1. thread' \in [Threads -> ThreadType']
      BY <1>1, <1>2, <1>3 DEF Inv, TypeOK, ThreadType
    <2>2. /\ run' \in [Runs -> [status : {"none", "running", "completed", "failed"},
                                by : Numbers', strategy : Numbers', steps : Numbers']]
          /\ draft' \in [run : Runs \cup {NoRun}, by : Numbers']
          /\ completions' \subseteq [run : Runs, by : Numbers']
          /\ drafts' \subseteq [run : Runs, by : Numbers']
      <3>1. Numbers \subseteq Numbers'
        BY <1>2
      <3>2. /\ run' = run /\ draft' = draft
            /\ completions' = completions /\ drafts' = drafts
        BY DEF history
      <3> HIDE DEF new
      <3> QED
        BY <3>1, <3>2 DEF Inv, TypeOK
    <2> QED
      BY <1>1, <2>1, <2>2 DEF Inv, TypeOK, JobType, ThreadType, history
  <1>5. RowTellsOneExecution'
    BY DEF Inv, RowTellsOneExecution, history
  <1>6. DraftFollowsCompletion' /\ CompletedJobHasResult' /\ JobRunAgree'
    BY DEF Inv, DraftFollowsCompletion, CompletedJobHasResult, JobRunAgree, history
  <1>7. /\ thread'[t] = new
        /\ \A u \in Threads \ {t} : thread'[u] = thread[u]
    BY <1>1 DEF Inv, TypeOK
  <1>8. Placed'
    <2>1. PlacedAt(t)'
      BY <1>7 DEF PlacedAt
    <2>2. ASSUME NEW u \in Threads \ {t} PROVE PlacedAt(u)'
      BY <1>7, <2>2 DEF Inv, Placed, PlacedAt, Work, history
    <2> QED
      BY <2>1, <2>2 DEF Placed
  <1>9. Alone'
    <2> SUFFICES ASSUME ~deployment.overlap PROVE Alone'
      BY DEF Alone
    <2>1. Solo /\ Kept /\ (phase[Job] = "completed" => ~Executing(JobRun))
      BY DEF Inv, Alone
    <2>2. Solo'
      BY <1>1, <1>7, <2>1 DEF Solo, Executing
    <2>3. Kept'
      BY <1>7, <2>1 DEF Kept
    <2>4. phase'[Job] = "completed" => ~Executing(JobRun)'
      BY <1>7, <2>1 DEF Executing
    <2> QED
      BY <2>2, <2>3, <2>4 DEF Alone
  <1> QED
    BY <1>4, <1>5, <1>6, <1>8, <1>9 DEF Inv

\* A row is written for the execution of thread t, which then goes on or ends.
\* Where executions do not overlap, the row is nobody else's, and the job is
\* not completed.
LEMMA RowWritten ==
    ASSUME Inv, NEW t \in Threads, thread[t].step # "idle",
           NEW row \in [status : {"running", "completed", "failed"},
                        by : Numbers, strategy : Numbers, steps : Numbers],
           run' = [run EXCEPT ![thread[t].run] = row],
           NEW s \in {"planner", "drafting", "failed", "idle"},
           s = "idle" => Ends(t), s # "idle" => Goto(t, s),
           s = "failed" => thread[t].forJob,
           s = "drafting" => row.status = "completed" /\ row.by = thread[t].exec,
           row.status = "running" => row.strategy = 0 /\ row.steps = 0,
           row.status = "failed" => row.strategy = 0 /\ row.steps = row.by,
           row.status = "completed" =>
              /\ row.strategy = row.by /\ row.steps = row.by
              /\ [run |-> thread[t].run, by |-> row.by] \in completions',
           completions' = completions \/ completions' = completions \cup {Work(t)},
           s = "drafting" => Work(t) \in completions',
           UNCHANGED <<draft, executions, used, drafts, abandoned, jobVars, deployment>>
    PROVE  Inv'
  <1>1. TypeOK /\ thread[t].run \in Runs /\ Work(t) \in [run : Runs, by : Numbers]
    BY DEF Inv, Placed, PlacedAt, TypeOK, Work
  <1>2. /\ thread' \in [Threads -> ThreadType]
        /\ \A u \in Threads \ {t} : thread'[u] = thread[u]
        /\ \/ thread'[t] = Idle
           \/ /\ thread'[t].run = thread[t].run /\ thread'[t].forJob = thread[t].forJob
              /\ thread'[t].exec = thread[t].exec
              /\ thread'[t].step = s /\ s # "idle"
    BY <1>1, GotoEffect, EndsEffect DEF Step
  <1>3. /\ completions' \subseteq [run : Runs, by : Numbers]
        /\ completions \subseteq completions'
    BY <1>1 DEF TypeOK
  <1>4. /\ run'[thread[t].run] = row
        /\ \A r \in Runs \ {thread[t].run} : run'[r] = run[r]
        /\ run' \in [Runs -> [status : {"none", "running", "completed", "failed"},
                               by : Numbers, strategy : Numbers, steps : Numbers]]
    BY <1>1 DEF TypeOK
  <1>5. TypeOK'
    BY <1>1, <1>2, <1>3, <1>4 DEF TypeOK, ThreadType, Numbers, jobVars
  <1>6. RowTellsOneExecution'
    <2>1. \A r \in Runs \ {thread[t].run} : run[r].status = "completed" =>
              [run |-> r, by |-> run[r].by] \in completions
      BY DEF Inv, RowTellsOneExecution
    <2> QED
      BY <1>3, <1>4, <2>1 DEF Inv, RowTellsOneExecution
  <1>7. DraftFollowsCompletion' /\ CompletedJobHasResult'
    BY <1>3 DEF Inv, DraftFollowsCompletion, CompletedJobHasResult, jobVars
  <1>8. Placed'
    <2>1. PlacedAt(t)'
      BY <1>2 DEF Inv, Placed, PlacedAt, Idle, Work
    <2>2. ASSUME NEW u \in Threads \ {t} PROVE PlacedAt(u)'
      BY <1>2, <1>3, <2>2 DEF Inv, Placed, PlacedAt, Work
    <2> QED
      BY <2>1, <2>2 DEF Placed
  <1>9. ASSUME ~deployment.overlap PROVE JobRunAgree' /\ Alone'
    <2>1. Solo /\ Kept /\ (phase[Job] = "completed" => ~Executing(JobRun))
      BY <1>9 DEF Inv, Alone
    <2>2. thread[t].run = JobRun => phase[Job] # "completed"
      BY <2>1 DEF Executing
    <2>3. JobRunAgree'
      BY <1>4, <2>2, RunsAssumption DEF Inv, JobRunAgree, jobVars
    <2>4. Solo'
      BY <1>2, <2>1, RunsAssumption DEF Solo, Idle
    <2>5. Kept'
      <3>1. ASSUME NEW u \in Threads \ {t}, thread'[u].step \in {"drafting", "succeeded"}
            PROVE  run'[thread'[u].run].status = "completed"
                   /\ run'[thread'[u].run].by = thread'[u].exec
        <4>1. thread[u].run \in Runs /\ thread[u].run # thread[t].run
          BY <1>1, <1>2, <2>1, <3>1 DEF Solo, Inv, Placed, PlacedAt
        <4> QED
          BY <1>2, <1>4, <2>1, <3>1, <4>1 DEF Kept
      <3>2. thread'[t].step \in {"drafting", "succeeded"} =>
               run'[thread'[t].run].status = "completed"
               /\ run'[thread'[t].run].by = thread'[t].exec
        BY <1>2, <1>4 DEF Idle
      <3> QED
        BY <3>1, <3>2 DEF Kept
    <2>6. phase'[Job] = "completed" => ~Executing(JobRun)'
      BY <1>2, <2>1, RunsAssumption DEF Executing, Idle, jobVars
    <2> QED
      BY <2>3, <2>4, <2>5, <2>6 DEF Alone
  <1>10. JobRunAgree' /\ Alone'
    BY <1>9 DEF JobRunAgree, Alone
  <1> QED
    BY <1>5, <1>6, <1>7, <1>8, <1>10 DEF Inv
\* A draft is stored by a thread that has recorded its run completed.
LEMMA RecordDraftInv ==
    ASSUME Inv, NEW t \in Threads, RecordDraft(t)
    PROVE  Inv'
  <1>1. TypeOK /\ thread[t].run \in Runs /\ Work(t) \in completions
    BY DEF RecordDraft, At, Inv, Placed, PlacedAt
  <1>2. /\ draft' = Work(t) /\ drafts' = drafts \cup {Work(t)}
        /\ UNCHANGED <<run, executions, used, completions, abandoned, jobVars, deployment>>
    BY DEF RecordDraft, StoreDraft
  <1>3. Work(t) \in [run : Runs, by : Numbers]
    BY <1>1 DEF TypeOK
  <1>4. /\ thread' \in [Threads -> ThreadType]
        /\ \A u \in Threads \ {t} : thread'[u] = thread[u]
        /\ \/ thread'[t] = Idle
           \/ /\ thread'[t].run = thread[t].run /\ thread'[t].exec = thread[t].exec
              /\ thread'[t].step = "succeeded"
              /\ thread[t].forJob /\ thread'[t].forJob
    <2>1. (thread[t].forJob /\ Goto(t, "succeeded")) \/ Ends(t)
      BY DEF RecordDraft, StoreDraft
    <2> QED
      BY <1>1, <2>1, GotoEffect, EndsEffect DEF Step
  <1>5. TypeOK'
    BY <1>1, <1>2, <1>3, <1>4 DEF TypeOK, ThreadType, Numbers, jobVars
  <1>6. RowTellsOneExecution'
    BY <1>2 DEF Inv, RowTellsOneExecution
  <1>7. DraftFollowsCompletion' /\ CompletedJobHasResult' /\ JobRunAgree'
    BY <1>1, <1>2 DEF Inv, DraftFollowsCompletion, CompletedJobHasResult, JobRunAgree,
                      jobVars
  <1>8. Placed'
    <2>1. PlacedAt(t)'
      BY <1>2, <1>4 DEF Inv, Placed, PlacedAt, Idle, Work
    <2>2. ASSUME NEW u \in Threads \ {t} PROVE PlacedAt(u)'
      BY <1>2, <1>4, <2>2 DEF Inv, Placed, PlacedAt, Work
    <2> QED
      BY <2>1, <2>2 DEF Placed
  <1>9. Alone'
    <2> SUFFICES ASSUME ~deployment.overlap PROVE Alone'
      BY <1>2 DEF Alone
    <2>1. Solo /\ Kept /\ (phase[Job] = "completed" => ~Executing(JobRun))
      BY DEF Inv, Alone
    <2>2. Solo'
      BY <1>4, <2>1, RunsAssumption DEF Solo, Idle
    <2>3. Kept'
      BY <1>2, <1>4, <2>1 DEF Kept, Idle, RecordDraft, At
    <2>4. phase'[Job] = "completed" => ~Executing(JobRun)'
      BY <1>2, <1>4, <2>1, RunsAssumption DEF Executing, Idle, jobVars
    <2> QED
      BY <2>2, <2>3, <2>4 DEF Alone
  <1> QED
    BY <1>5, <1>6, <1>7, <1>8, <1>9 DEF Inv

\* The job is completed by an execution of its run that has stored its draft;
\* where executions do not overlap, that run is still completed, and nobody
\* executes it any more.
LEMMA MarkCompletedInv ==
    ASSUME Inv, NEW t \in Threads, MarkCompleted(t)
    PROVE  Inv'
  <1>1. /\ TypeOK /\ Work(t) \in drafts /\ thread[t].run = JobRun
        /\ thread[t].step = "succeeded"
    BY DEF MarkCompleted, At, Inv, Placed, PlacedAt
  <1>2. UNCHANGED <<run, draft, executions, used, completions, drafts, abandoned, deployment>>
    BY DEF MarkCompleted, history
  <1>3. /\ thread' \in [Threads -> ThreadType]
        /\ thread'[t] = Idle
        /\ \A u \in Threads \ {t} : thread'[u] = thread[u]
    BY <1>1, EndsEffect DEF MarkCompleted
  <1>4. JobType'
    BY <1>1 DEF MarkCompleted, TypeOK, JobType, jobVars, Queue!Complete, Queue!Enter
  <1>5. TypeOK'
    BY <1>1, <1>2, <1>3, <1>4 DEF TypeOK, JobType, ThreadType, Numbers
  <1>6. RowTellsOneExecution' /\ DraftFollowsCompletion'
    BY <1>2 DEF Inv, RowTellsOneExecution, DraftFollowsCompletion
  <1>7. CompletedJobHasResult'
    BY <1>1, <1>2 DEF CompletedJobHasResult, Work
  <1>8. Placed'
    <2>1. PlacedAt(t)'
      BY <1>3 DEF PlacedAt, Idle
    <2>2. ASSUME NEW u \in Threads \ {t} PROVE PlacedAt(u)'
      BY <1>2, <1>3, <2>2 DEF Inv, Placed, PlacedAt, Work
    <2> QED
      BY <2>1, <2>2 DEF Placed
  <1>9. ASSUME ~deployment.overlap PROVE JobRunAgree' /\ Alone'
    <2>1. Solo /\ Kept
      BY <1>9 DEF Inv, Alone
    <2>2. /\ run[JobRun].status = "completed"
          /\ [run |-> JobRun, by |-> run[JobRun].by] \in drafts
      BY <1>1, <2>1 DEF Kept, Work
    <2>3. JobRunAgree'
      BY <1>2, <2>2 DEF JobRunAgree
    <2>4. ~Executing(JobRun)'
      BY <1>1, <1>3, <2>1, RunsAssumption DEF Executing, Solo, Idle
    <2>5. Solo'
      BY <1>3, <2>1, RunsAssumption DEF Solo, Idle
    <2>6. Kept'
      BY <1>2, <1>3, <2>1 DEF Kept, Idle
    <2> QED
      BY <2>3, <2>4, <2>5, <2>6 DEF Alone
  <1>10. JobRunAgree' /\ Alone'
    BY <1>2, <1>9 DEF JobRunAgree, Alone
  <1> QED
    BY <1>5, <1>6, <1>7, <1>8, <1>10 DEF Inv

\* What clients and operators do to the job completes nothing and touches no
\* thread.
LEMMA ManageJobInv ==
    ASSUME Inv, ManageJob
    PROVE  Inv'
  <1>1. UNCHANGED <<run, draft, thread, executions, used, completions, drafts, abandoned,
                    deployment>>
    BY DEF ManageJob, history
  <1>2. TypeOK
    BY DEF Inv
  <1>3. JobType' /\ (phase'[Job] = "completed" => phase[Job] = "completed")
    BY <1>2, JobEffect DEF ManageJob
  <1>4. TypeOK'
    BY <1>1, <1>2, <1>3 DEF TypeOK, JobType, Numbers
  <1>5. RowTellsOneExecution' /\ DraftFollowsCompletion' /\ Placed'
    BY <1>1 DEF Inv, RowTellsOneExecution, DraftFollowsCompletion, Placed, PlacedAt, Work
  <1>6. CompletedJobHasResult' /\ JobRunAgree' /\ Alone'
    BY <1>1, <1>3 DEF Inv, CompletedJobHasResult, JobRunAgree, Alone, Solo, Kept, Executing
  <1> QED
    BY <1>4, <1>5, <1>6 DEF Inv

-----------------------------------------------------------------------------

\* The empty tables, an absent job and idle threads.
LEMMA InitInv == Init => Inv
  <1> SUFFICES ASSUME Init PROVE Inv
    OBVIOUS
  <1>1. TypeOK
    BY DEF Init, TypeOK, NoRow, Idle, Step, Numbers, Queue!Init
  <1>2. RowTellsOneExecution /\ DraftFollowsCompletion
    BY RunsAssumption DEF Init, RowTellsOneExecution, DraftFollowsCompletion, NoRow
  <1>3. phase[Job] = "absent"
    BY DEF Init, Queue!Init
  <1>4. CompletedJobHasResult /\ JobRunAgree
    BY <1>3 DEF CompletedJobHasResult, JobRunAgree
  <1>5. Placed /\ Alone
    BY <1>3, RunsAssumption DEF Init, Placed, PlacedAt, Alone, Solo, Kept, Executing, Idle
  <1> QED
    BY <1>1, <1>2, <1>4, <1>5 DEF Inv

\* The steps that begin an execution.
LEMMA BeginningsInv ==
    ASSUME Inv, NEW t \in Threads,
           ClaimJob(t) \/ \E r \in Runs : Generate(t, r) \/ Resume(t, r)
    PROVE  Inv'
  <1>1. ASSUME NEW r \in Runs, Generate(t, r) PROVE Inv'
    <2>1. JobType' /\ UNCHANGED <<phase, left>>
      BY <1>1 DEF Generate, jobVars, Inv, TypeOK, JobType
    <2> QED
      BY <1>1, <2>1, BeginInv DEF Generate
  <1>2. ASSUME NEW r \in Runs, Resume(t, r) PROVE Inv'
    <2>1. JobType' /\ UNCHANGED <<phase, left>>
      BY <1>2 DEF Resume, jobVars, Inv, TypeOK, JobType
    <2>2. ~deployment.overlap /\ r = JobRun => phase[Job] # "completed"
      BY <1>2 DEF Resume, Resumable, Inv, JobRunAgree
    <2> QED
      BY <1>2, <2>1, <2>2, BeginInv DEF Resume
  <1>3. CASE ClaimJob(t)
    <2>1. TypeOK
      BY DEF Inv
    <2>2. JobType' /\ (phase'[Job] = "completed" => phase[Job] = "completed")
      BY <1>3, <2>1, JobEffect DEF ClaimJob
    <2>3. phase'[Job] # "completed"
      BY <1>3 DEF ClaimJob, Queue!Start
    <2>4. /\ Begin(t, JobRun, TRUE)
          /\ UNCHANGED <<run, draft, used, history, deployment>>
      BY <1>3 DEF ClaimJob
    <2> QED
      BY <2>2, <2>3, <2>4, BeginInv, RunsAssumption
  <1> QED
    BY <1>1, <1>2, <1>3

\* The steps of an execution, up to its report.
LEMMA ProceedInv ==
    ASSUME Inv, NEW t \in Threads, Proceed(t) \/ Crashes(t)
    PROVE  Inv'
  <1>1. /\ TypeOK /\ JobType
        /\ used \subseteq Runs /\ abandoned \subseteq Runs
        /\ UNCHANGED jobVars => JobType' /\ phase' = phase
    BY DEF Inv, TypeOK, JobType, jobVars
  <1>2. thread[t].step # "idle" => thread[t].run \in Runs /\ thread[t].exec \in Numbers
    BY DEF Inv, Placed, PlacedAt, TypeOK
  <1>3. 0 \in Numbers
    BY DEF Inv, TypeOK, Numbers
  <1>4. CASE RecordStarted(t)
    <2> DEFINE row == Started(thread[t].exec)
    <2>1. /\ thread[t].step = "start"
          /\ run' = [run EXCEPT ![thread[t].run] = row]
          /\ Goto(t, "planner")
          /\ UNCHANGED <<draft, executions, used, history, jobVars, deployment>>
      BY <1>4 DEF RecordStarted, At
    <2>2. /\ row \in [status : {"running", "completed", "failed"},
                      by : Numbers, strategy : Numbers, steps : Numbers]
          /\ row.status = "running" /\ row.strategy = 0 /\ row.steps = 0
      BY <1>2, <1>3, <2>1 DEF Started
    <2> HIDE DEF row
    <2> QED
      BY <2>1, <2>2, RowWritten DEF history
  <1>5. CASE RecordFailed(t)
    <2> DEFINE row == Failed(thread[t].exec)
    <2>1. /\ thread[t].step = "failing"
          /\ run' = [run EXCEPT ![thread[t].run] = row]
          /\ (thread[t].forJob /\ Goto(t, "failed")) \/ Ends(t)
          /\ UNCHANGED <<draft, executions, used, history, jobVars, deployment>>
      BY <1>5 DEF RecordFailed, At
    <2>2. /\ row \in [status : {"running", "completed", "failed"},
                      by : Numbers, strategy : Numbers, steps : Numbers]
          /\ row.status = "failed" /\ row.strategy = 0 /\ row.steps = row.by
      BY <1>2, <1>3, <2>1 DEF Failed
    <2> HIDE DEF row
    <2>3. CASE thread[t].forJob /\ Goto(t, "failed")
      BY <2>1, <2>2, <2>3, RowWritten DEF history
    <2>4. CASE Ends(t)
      BY <2>1, <2>2, <2>4, RowWritten DEF history
    <2> QED
      BY <2>1, <2>3, <2>4
  <1>6. CASE RecordCompleted(t)
    <2> DEFINE row == Completed(thread[t].exec)
    <2>1. /\ thread[t].step = "recording"
          /\ run' = [run EXCEPT ![thread[t].run] = row]
          /\ completions' = completions \cup {Work(t)}
          /\ Goto(t, "drafting")
          /\ UNCHANGED <<draft, executions, used, drafts, abandoned, jobVars, deployment>>
      BY <1>6 DEF RecordCompleted, At
    <2>2. /\ row \in [status : {"running", "completed", "failed"},
                      by : Numbers, strategy : Numbers, steps : Numbers]
          /\ row.status = "completed" /\ row.by = thread[t].exec
          /\ row.strategy = row.by /\ row.steps = row.by
          /\ [run |-> thread[t].run, by |-> row.by] = Work(t)
      BY <1>2, <1>3, <2>1 DEF Completed, Work
    <2> HIDE DEF row
    <2> QED
      BY <2>1, <2>2, RowWritten
  <1>7. CASE PlanMade(t) \/ StrategyMade(t) \/ StrategyFails(t)
    BY <1>1, <1>7, ThreadMoves DEF PlanMade, StrategyMade, StrategyFails, At, history, jobVars
  <1>8. CASE Retrieved(t)
    <2>1. thread[t].step = "retriever" /\ used' \subseteq Runs
      BY <1>1, <1>2, <1>8 DEF Retrieved, At
    <2> QED
      BY <1>1, <1>8, <2>1, ThreadMoves DEF Retrieved, history, jobVars
  <1>9. CASE RetrievalRaises(t)
    <2>1. thread[t].step = "retriever" /\ abandoned' \subseteq Runs
      BY <1>1, <1>2, <1>9 DEF RetrievalRaises, At
    <2> QED
      BY <1>1, <1>9, <2>1, ThreadMoves DEF RetrievalRaises, jobVars
  <1>10. CASE Crashes(t)
    <2>1. thread[t].step # "idle" /\ abandoned' \subseteq Runs
      BY <1>1, <1>2, <1>10 DEF Crashes, At
    <2> QED
      BY <1>1, <1>10, <2>1, ThreadMoves DEF Crashes, jobVars
  <1>11. CASE MarkAttemptFailed(t)
    <2>1. JobType' /\ (phase'[Job] = "completed" => phase[Job] = "completed")
      BY <1>1, <1>11, JobEffect DEF MarkAttemptFailed
    <2> QED
      BY <1>1, <1>11, <2>1, ThreadMoves DEF MarkAttemptFailed, At, history
  <1> QED
    BY <1>4, <1>5, <1>6, <1>7, <1>8, <1>9, <1>10, <1>11, RecordDraftInv, MarkCompletedInv
       DEF Proceed

\* Every step preserves the invariant.
LEMMA NextInv == Inv /\ [Next]_vars => Inv'
  <1> SUFFICES ASSUME Inv, [Next]_vars PROVE Inv'
    OBVIOUS
  <1>1. CASE UNCHANGED vars
    BY <1>1 DEF vars, Inv, TypeOK, RowTellsOneExecution, DraftFollowsCompletion,
                CompletedJobHasResult, JobRunAgree, Placed, PlacedAt, Alone, Solo, Kept,
                Executing, Work, Numbers
  <1> QED
    BY <1>1, ManageJobInv, BeginningsInv, ProceedInv DEF Next

\* The invariant holds in every reachable state.
THEOREM RunsInvariant == Spec => []Inv
  BY InitInv, NextInv, PTL DEF Spec

\* Type correctness of rows, drafts, threads and the job.
THEOREM RunsTypeCorrect == Spec => []TypeOK
  <1>1. Inv => TypeOK
    BY DEF Inv
  <1> QED
    BY <1>1, RunsInvariant, PTL

\* A row of agent_runs never mixes two executions.
THEOREM RowsAreNotMixed == Spec => []RowTellsOneExecution
  <1>1. Inv => RowTellsOneExecution
    BY DEF Inv
  <1> QED
    BY <1>1, RunsInvariant, PTL

\* Only executions that recorded their run completed have stored a draft.
THEOREM DraftsAreOfCompletedRuns == Spec => []DraftFollowsCompletion
  <1>1. Inv => DraftFollowsCompletion
    BY DEF Inv
  <1> QED
    BY <1>1, RunsInvariant, PTL

\* A completed job has had a result, whatever overlaps.
THEOREM CompletedJobsHaveResults == Spec => []CompletedJobHasResult
  <1>1. Inv => CompletedJobHasResult
    BY DEF Inv
  <1> QED
    BY <1>1, RunsInvariant, PTL

\* Where executions of a run do not overlap, a completed job keeps its run.
THEOREM CompletedJobsKeepTheirRun == Spec => []JobRunAgree
  <1>1. Inv => JobRunAgree
    BY DEF Inv
  <1> QED
    BY <1>1, RunsInvariant, PTL

-----------------------------------------------------------------------------
(* The composition with the queue.                                          *)

\* Executions move their job as JobLifecycle allows: what is proved of them
\* holds with StrategyJobs, which implements it.
THEOREM RunsUseLifecycle == Spec => Queue!Spec
  <1>1. Init => Queue!Init
    BY DEF Init
  <1>2. [Next]_vars => [Queue!Next]_(Queue!vars)
    <2>1. Queue!Start({Job}) => Queue!Next
      BY DEF Queue!Next
    <2>2. Queue!Submit(Job) \/ Queue!Cancel(Job) \/ Queue!Reopen(Job) \/ Queue!Requeue(Job)
             \/ Queue!Fail(Job) \/ Queue!Complete(Job) => Queue!Next
      BY DEF Queue!Next
    <2>3. UNCHANGED jobVars => UNCHANGED Queue!vars
      BY DEF jobVars, Queue!vars
    <2>4. UNCHANGED vars => UNCHANGED Queue!vars
      BY DEF vars, Queue!vars
    <2> QED
      BY <2>1, <2>2, <2>3, <2>4
         DEF Next, ManageJob, Generate, Resume, ClaimJob, Proceed, RecordStarted, PlanMade,
             Retrieved, RetrievalRaises, StrategyMade, StrategyFails, RecordFailed,
             RecordCompleted, RecordDraft, StoreDraft, MarkCompleted, MarkAttemptFailed, Crashes
  <1> QED
    BY <1>1, <1>2, PTL DEF Spec, Queue!Spec

-----------------------------------------------------------------------------
(* What RunsEnd stands on: while a row says running, an execution is at     *)
(* work that will write it, or one was lost, and every execution is on its  *)
(* way to its end.                                                          *)

Writes(t, r) ==
    /\ thread[t].run = r /\ thread[t].exec = run[r].by
    /\ thread[t].step \in {"planner", "retriever", "tools", "recording", "failing"}

\* A row that says running was written by an execution that still runs and has
\* yet to write how it ended, unless an execution of the run was abandoned:
\* however executions overlap, none leaves a row running behind.
RunningIsExecuted ==
    \A r \in Runs : run[r].status = "running" =>
        r \in abandoned \/ \E t \in Threads : Writes(t, r)

\* A row that a step leaves alone keeps its execution, unless the step is that
\* execution's and abandons it.
LEMMA WriterStays ==
    ASSUME RunningIsExecuted, NEW t \in Threads, NEW r \in Runs,
           run'[r] = run[r], abandoned \subseteq abandoned',
           \A u \in Threads \ {t} : thread'[u] = thread[u],
           Writes(t, r) => r \in abandoned' \/ Writes(t, r)'
    PROVE  run'[r].status = "running" =>
              r \in abandoned' \/ \E u \in Threads : Writes(u, r)'
  <1> SUFFICES ASSUME run[r].status = "running", r \notin abandoned'
               PROVE  \E u \in Threads : Writes(u, r)'
    OBVIOUS
  <1>1. PICK u \in Threads : Writes(u, r)
    BY DEF RunningIsExecuted
  <1>2. CASE u = t
    BY <1>1, <1>2
  <1>3. CASE u # t
    BY <1>1, <1>3 DEF Writes
  <1> QED
    BY <1>2, <1>3

LEMMA WritersStay ==
    ASSUME Inv, RunningIsExecuted, [Next]_vars
    PROVE  RunningIsExecuted'
  <1> USE DEF Inv, TypeOK
  <1>1. ASSUME NEW t \in Threads, RecordStarted(t) \/ RecordFailed(t) \/ RecordCompleted(t)
        PROVE  RunningIsExecuted'
    <2>1. thread[t].run \in Runs /\ thread[t].exec \in Numbers
      BY <1>1 DEF RecordStarted, RecordFailed, RecordCompleted, At, Placed, PlacedAt
    <2>2. abandoned' = abandoned /\ \A u \in Threads \ {t} : thread'[u] = thread[u]
      BY <1>1 DEF RecordStarted, RecordFailed, RecordCompleted, Goto, Ends, history
    <2>3. ASSUME NEW r \in Runs, r # thread[t].run
          PROVE  run'[r].status = "running" =>
                    r \in abandoned' \/ \E u \in Threads : Writes(u, r)'
      <3>1. run'[r] = run[r] /\ ~Writes(t, r)
        BY <1>1, <2>3 DEF RecordStarted, RecordFailed, RecordCompleted, Writes
      <3> QED
        BY <2>2, <3>1, WriterStays
    <2>4. CASE RecordStarted(t)
      <3>1. Writes(t, thread[t].run)'
        BY <2>1, <2>4 DEF RecordStarted, At, Goto, Started, Writes
      <3>2. thread'[t].run = thread[t].run
        BY <2>4 DEF RecordStarted, Goto
      <3> QED
        BY <2>3, <3>1, <3>2 DEF RunningIsExecuted
    <2>5. CASE RecordFailed(t) \/ RecordCompleted(t)
      <3>1. run'[thread[t].run].status # "running"
        BY <2>1, <2>5 DEF RecordFailed, RecordCompleted, Failed, Completed
      <3> QED
        BY <2>3, <3>1 DEF RunningIsExecuted
    <2> QED
      BY <1>1, <2>4, <2>5
  <1>2. ASSUME NEW t \in Threads,
               PlanMade(t) \/ Retrieved(t) \/ StrategyMade(t) \/ StrategyFails(t)
        PROVE  RunningIsExecuted'
    <2>1. run' = run /\ abandoned' = abandoned
      BY <1>2 DEF PlanMade, Retrieved, StrategyMade, StrategyFails, history
    <2>2. \A u \in Threads \ {t} : thread'[u] = thread[u]
      BY <1>2 DEF PlanMade, Retrieved, StrategyMade, StrategyFails, Goto
    <2>3. \A r \in Runs : Writes(t, r) => Writes(t, r)'
      BY <1>2, <2>1 DEF PlanMade, Retrieved, StrategyMade, StrategyFails, Goto, Writes
    <2> QED
      BY <2>1, <2>2, <2>3, WriterStays DEF RunningIsExecuted
  <1>3. ASSUME NEW t \in Threads, RetrievalRaises(t) \/ Crashes(t)
        PROVE  RunningIsExecuted'
    <2>1. run' = run /\ abandoned' = abandoned \cup {thread[t].run}
      BY <1>3 DEF RetrievalRaises, Crashes
    <2>2. \A u \in Threads \ {t} : thread'[u] = thread[u]
      BY <1>3 DEF RetrievalRaises, Crashes, Goto, Ends
    <2>3. \A r \in Runs : Writes(t, r) => r \in abandoned'
      BY <2>1 DEF Writes
    <2> QED
      BY <2>1, <2>2, <2>3, WriterStays DEF RunningIsExecuted
  <1>4. ASSUME NEW t \in Threads,
               \/ RecordDraft(t) \/ MarkCompleted(t) \/ MarkAttemptFailed(t)
               \/ ClaimJob(t) \/ \E r \in Runs : Generate(t, r) \/ Resume(t, r)
        PROVE  RunningIsExecuted'
    <2>1. run' = run /\ abandoned' = abandoned
      BY <1>4 DEF RecordDraft, StoreDraft, MarkCompleted, MarkAttemptFailed, ClaimJob,
                  Generate, Resume, history
    <2>2. \A u \in Threads \ {t} : thread'[u] = thread[u]
      BY <1>4 DEF RecordDraft, StoreDraft, MarkCompleted, MarkAttemptFailed, ClaimJob,
                  Generate, Resume, Begin, Goto, Ends
    <2>3. \A r \in Runs : ~Writes(t, r)
      BY <1>4 DEF RecordDraft, MarkCompleted, MarkAttemptFailed, ClaimJob, Generate, Resume,
                  Begin, At, Writes
    <2> QED
      BY <2>1, <2>2, <2>3, WriterStays DEF RunningIsExecuted
  <1>5. CASE ManageJob \/ UNCHANGED vars
    BY <1>5 DEF ManageJob, history, vars, RunningIsExecuted, Writes
  <1> QED
    BY <1>1, <1>2, <1>3, <1>4, <1>5 DEF Next, Proceed

\* record_started, record_completed and record_failed leave no run shown as running
\* that nobody executes, unless an execution was abandoned.
THEOREM RunningRunsAreExecuted == Spec => []RunningIsExecuted
  <1>1. Init => RunningIsExecuted
    BY DEF Init, RunningIsExecuted, NoRow
  <1>2. Inv /\ RunningIsExecuted /\ [Next]_vars => RunningIsExecuted'
    BY WritersStay
  <1> QED
    BY <1>1, <1>2, RunsInvariant, PTL DEF Spec

\* How many steps an execution has before it at most.
Distance ==
    [idle |-> 0, failed |-> 1, succeeded |-> 1, failing |-> 2, drafting |-> 2, recording |-> 3,
     tools |-> 4, retriever |-> 5, planner |-> 6, start |-> 7]

\* An execution never turns back, whatever its run, its job and the other
\* executions do: every step of its thread brings it nearer to its end.
ExecutionsAdvance ==
    [][\A t \in Threads : ~At(t, "idle") /\ thread'[t] # thread[t] =>
          Distance[thread'[t].step] < Distance[thread[t].step]]_vars

\* generate_growth_strategy and the job's attempt around it are straight: an
\* execution takes each of its steps once.
THEOREM NoExecutionTurnsBack == Spec => ExecutionsAdvance
  <1> DEFINE Advances(t) == ~At(t, "idle") /\ thread'[t] # thread[t] =>
                               Distance[thread'[t].step] < Distance[thread[t].step]
  <1>1. ASSUME Inv, Next, NEW t \in Threads, thread[t].step # "idle", thread'[t] # thread[t]
        PROVE  Distance[thread'[t].step] < Distance[thread[t].step]
    <2>1. TypeOK
      BY <1>1 DEF Inv
    <2>2. \A u \in Threads \ {t} : ~Ends(u) /\ \A s \in Step : ~Goto(u, s)
      BY <1>1, <2>1, GotoEffect, EndsEffect
    <2>3. \A u \in Threads \ {t} : ~Proceed(u) /\ ~Crashes(u)
      BY <2>2
         DEF Proceed, RecordStarted, PlanMade, Retrieved, RetrievalRaises, StrategyMade,
             StrategyFails, RecordFailed, RecordCompleted, RecordDraft, StoreDraft,
             MarkCompleted, MarkAttemptFailed, Crashes, Step
    <2>4. \A u \in Threads : ~ClaimJob(u) /\ \A r \in Runs : ~Generate(u, r) /\ ~Resume(u, r)
      <3>1. ASSUME NEW u \in Threads, NEW r, NEW j, Begin(u, r, j) PROVE FALSE
        <4>1. u # t
          BY <1>1, <3>1 DEF Begin, At
        <4> QED
          BY <1>1, <3>1, <4>1 DEF Begin
      <3> QED
        BY <3>1 DEF ClaimJob, Generate, Resume
    <2>5. ~ManageJob
      BY <1>1 DEF ManageJob
    <2>6. Proceed(t) \/ Crashes(t)
      BY <1>1, <2>3, <2>4, <2>5 DEF Next
    <2>7. thread[t].step \in Step
      BY <2>1 DEF TypeOK
    <2>8. CASE Ends(t)
      <3>1. thread'[t].step = "idle"
        BY <2>1, <2>8, EndsEffect DEF Idle
      <3> QED
        BY <1>1, <2>7, <3>1 DEF Step, Distance
    <2>9. CASE ~Ends(t)
      <3> DEFINE Moves(x, y) == thread[t].step = x /\ thread'[t].step = y
      <3>1. \A s \in Step : Goto(t, s) => thread'[t].step = s
        BY <2>1, GotoEffect
      <3>2. \/ Moves("start", "planner") \/ Moves("planner", "retriever")
            \/ Moves("retriever", "tools") \/ Moves("retriever", "failed")
            \/ Moves("tools", "recording") \/ Moves("planner", "failing")
            \/ Moves("tools", "failing") \/ Moves("failing", "failed")
            \/ Moves("recording", "drafting") \/ Moves("drafting", "succeeded")
        BY <2>6, <2>9, <3>1
           DEF Proceed, RecordStarted, PlanMade, Retrieved, RetrievalRaises, StrategyMade,
               StrategyFails, RecordFailed, RecordCompleted, RecordDraft, StoreDraft,
               MarkCompleted, MarkAttemptFailed, Crashes, Step, At
      <3> QED
        BY <3>2 DEF Distance
    <2> QED
      BY <2>8, <2>9
  <1>2. Inv /\ [Next]_vars => [\A t \in Threads : Advances(t)]_vars
    BY <1>1 DEF At
  <1> QED
    BY <1>2, RunsInvariant, PTL DEF Spec, ExecutionsAdvance
=============================================================================
