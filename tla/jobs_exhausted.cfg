SPECIFICATION FairSpec
CONSTANTS
    NumJobs = 1
    Jobs <- MCJobs
    Workers = {w1, w2}
    ApiBackground = ApiBackground
    NoWorker = NoWorker
    Budgets = {2}
    BatchLimit = 1
    ExecutionMode = "external"
    MaxManualRetries = 0
    LeaseCoversRun = FALSE
PROPERTIES
    ExhaustedBecomesTerminal
CHECK_DEADLOCK FALSE
