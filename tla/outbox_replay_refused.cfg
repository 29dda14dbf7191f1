SPECIFICATION Spec
CONSTANTS
    Sources = {s1}
    Runs = {r1}
    NoRun = NoRun
    Workers = {w1}
    NoWorker = NoWorker
    NoEvent = NoEvent
    Budget = 2
    BatchLimit = 2
    MaxRetrievals = 2
    MaxManualRetries = 0
INVARIANT ReplaysAreAccepted
CHECK_DEADLOCK FALSE
