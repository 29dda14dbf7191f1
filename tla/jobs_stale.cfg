SPECIFICATION FairSpec
CONSTANTS
    NumJobs = 2
    Jobs <- MCJobs
    Workers = {w1, w2}
    ApiBackground = ApiBackground
    NoWorker = NoWorker
    Budgets = {2}
    BatchLimit = 1
    ExecutionMode = "external"
    MaxManualRetries = 1
    LeaseCoversRun = FALSE
INVARIANTS
    QueuedKeepsAttempts
    RowConsistent
    ReportTruthful
    FailedMeansExhausted
PROPERTIES
    ImplementsLifecycle
    SettledIsFinal
    JobSettles
CHECK_DEADLOCK FALSE
