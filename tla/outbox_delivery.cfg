SPECIFICATION FairSpec
CONSTANTS
    Sources = {s1}
    Runs = {r1}
    NoRun = NoRun
    Workers = {w1, w2}
    NoWorker = NoWorker
    NoEvent = NoEvent
    Budget = 2
    BatchLimit = 2
    MaxRetrievals = 1
    MaxManualRetries = 1
INVARIANTS TypeOK OneMemoryPerSource CompletedMeansApplied UsageAtLeastOnce
           AttemptsDecide EventRowConsistent
PROPERTIES EventSettles
CHECK_DEADLOCK FALSE
