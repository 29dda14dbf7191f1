SPECIFICATION FairSpec
CONSTANTS
    Threads = {t1, t2}
    Runs = {run_job, run_new}
    JobRun = run_job
    NoRun = NoRun
    Job = job
    Budgets = {2}
    MaxExecutions = 3
INVARIANTS TypeOK RowTellsOneExecution DraftFollowsCompletion CompletedJobHasResult JobRunAgree
PROPERTIES RunsEnd
CHECK_DEADLOCK FALSE
