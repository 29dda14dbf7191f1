SPECIFICATION EventsSpec
CONSTANTS
    Reporters = {c1, c2}
    EventIds = {1, 2}
    p1 = p1
    p2 = p2
    p3 = p3
    a1 = a1
    a2 = a2
    Payloads <- Requests
    NoPayload = NoPayload
    Advertisers = {a1, a2}
    AdvertiserOf <- Named
    MaxAnalyses = 3
SYMMETRY Sym
INVARIANTS EventsTypeOK OneAnswer RepetitionsAreAnswered
PROPERTIES ImplementsHistory
CHECK_DEADLOCK FALSE
