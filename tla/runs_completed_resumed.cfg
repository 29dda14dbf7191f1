SPECIFICATION Spec
CONSTANTS
    Threads = {t1, t2}
    Runs = {run_job, run_new}
    JobRun = run_job
    NoRun = NoRun
    Job = job
    Budgets = {2}
    MaxExecutions = 2
PROPERTIES ResumesOnlyUnfinished
CHECK_DEADLOCK FALSE
