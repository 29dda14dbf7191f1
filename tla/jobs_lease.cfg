SPECIFICATION Spec
CONSTANTS
    NumJobs = 2
    Jobs <- MCJobs
    Workers = {w1, w2}
    ApiBackground = ApiBackground
    NoWorker = NoWorker
    Budgets = {1, 2}
    BatchLimit = 2
    ExecutionMode = "background"
    MaxManualRetries = 1
    LeaseCoversRun = TRUE
SYMMETRY MCSymmetry
INVARIANTS
    TypeOK
    ExclusiveExecution
    HolderOwnsJob
    ErrorAgreesWithStatus
CHECK_DEADLOCK FALSE
