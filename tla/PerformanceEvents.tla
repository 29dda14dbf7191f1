--------------------------- MODULE PerformanceEvents ---------------------------
(***************************************************************************)
(* Submissions of campaign performance events, which their senders repeat   *)
(* under one event_id until they are answered.                              *)
(*                                                                          *)
(*   api.py                                  ingest_campaign_performance_event *)
(*   persistence/performance_event_store.py  record_analyzed                *)
(*                                                                          *)
(* A submission reads the event, analyses it, stores it in one transaction  *)
(* and enqueues its advertiser memory in another.  An analysis is named by  *)
(* its number, which stands for its created_at: the memory's payload holds  *)
(* it, so two analyses of one request are two payloads.  Outbox models what *)
(* becomes of the memory.  The row is keyed by the event, its memory by the *)
(* event and the advertiser that the request names.                         *)
(***************************************************************************)
EXTENDS Integers, FiniteSets

CONSTANTS
    Reporters,     \* the API's request handlers, each one submission at a time
    EventIds,
    Payloads,      \* requests that hash differently
    NoPayload,
    Advertisers,
    AdvertiserOf,  \* the advertiser a request names
    MaxAnalyses    \* bound: analyses made

ASSUME PayloadsAssumption    == NoPayload \notin Payloads
ASSUME AdvertisersAssumption == AdvertiserOf \in [Payloads -> Advertisers]

VARIABLES
    row,        \* an event's row: its request and analysis
    memory,     \* the outbox entry of an event's and an advertiser's memory: the same two
    call,       \* a submission on its way
    analyses,   \* analyses made so far
    told,       \* history: the analyses that senders were given
    denied,     \* history: the requests that were refused with a 409
    raced       \* history: events that two submissions found missing at once

eventVars == <<row, memory, call, analyses, told, denied, raced>>

None == [payload |-> NoPayload, by |-> 0]

Idle == [step |-> "idle"]

-----------------------------------------------------------------------------
(* A submission.                                                            *)

Goes(c, s, e, p, n) ==
    call' = [call EXCEPT ![c] = [step |-> s, id |-> e, payload |-> p, by |-> n]]

Analysis(c) == [payload |-> call[c].payload, by |-> call[c].by]

\* _memory_idempotency_key
MemoryKey(e, p) == <<e, AdvertiserOf[p]>>

Tell(c) ==
    /\ told' = [told EXCEPT ![call[c].id] = @ \cup {Analysis(c)}]
    /\ call' = [call EXCEPT ![c] = Idle]
    /\ UNCHANGED denied

Deny(e, p) ==
    /\ denied' = [denied EXCEPT ![e] = @ \cup {p}]
    /\ UNCHANGED told

\* get_event finds nothing: the request is analysed.
SubmitFirst(c, e, p) ==
    /\ call[c] = Idle /\ row[e] = None /\ analyses < MaxAnalyses
    /\ analyses' = analyses + 1
    /\ Goes(c, "analysed", e, p, analyses')
    /\ raced' = IF \E d \in Reporters : call[d].step \in {"analysed", "missed"} /\ call[d].id = e
                THEN raced \cup {e} ELSE raced
    /\ UNCHANGED <<row, memory, told, denied>>

\* Faulty: a replay goes on with an analysis of its own.
SubmitAgainReanalysed(c, e, p) ==
    /\ call[c] = Idle /\ row[e] # None /\ row[e].payload = p /\ analyses < MaxAnalyses
    /\ analyses' = analyses + 1
    /\ Goes(c, "stored", e, p, analyses')
    /\ UNCHANGED <<row, memory, told, denied, raced>>

\* A replay goes on with the stored analysis.
SubmitAgain(c, e, p) ==
    /\ call[c] = Idle /\ row[e] # None /\ row[e].payload = p
    /\ Goes(c, "stored", e, p, row[e].by)
    /\ UNCHANGED <<row, memory, analyses, told, denied, raced>>

\* Faulty: another request under the same event_id is taken for a correction.
SubmitOtherOver(c, e, p) ==
    /\ call[c] = Idle /\ row[e] # None /\ row[e].payload # p /\ analyses < MaxAnalyses
    /\ analyses' = analyses + 1
    /\ Goes(c, "missed", e, p, analyses')
    /\ UNCHANGED <<row, memory, told, denied, raced>>

\* PERFORMANCE_EVENT_ID_CONFLICT
SubmitOther(c, e, p) ==
    /\ call[c] = Idle /\ row[e] # None /\ row[e].payload # p
    /\ Deny(e, p)
    /\ UNCHANGED <<row, memory, call, analyses, raced>>

\* record_analyzed: the second look.  The FOR UPDATE of a row that does not
\* exist locks nothing.  A row of the same request is kept, but the submission
\* goes on with its own analysis.
LookAgain(c) ==
    /\ call[c].step = "analysed"
    /\ LET e == call[c].id
       IN \/ /\ row[e].payload \in {NoPayload, call[c].payload}
             /\ call' = [call EXCEPT ![c].step = IF row[e] = None THEN "missed" ELSE "stored"]
             /\ UNCHANGED <<told, denied>>
          \/ /\ row[e].payload \notin {NoPayload, call[c].payload}
             /\ call' = [call EXCEPT ![c] = Idle]
             /\ Deny(e, call[c].payload)
    /\ UNCHANGED <<row, memory, analyses, raced>>

\* Faulty: the row is stored without its analysis.
InsertUnanalysed(c) ==
    /\ call[c].step = "missed"
    /\ row' = [row EXCEPT ![call[c].id] = [payload |-> call[c].payload, by |-> 0]]
    /\ call' = [call EXCEPT ![c].step = "stored"]
    /\ UNCHANGED <<memory, analyses, told, denied, raced>>

\* The upsert and the commit.  The tenant's row is upserted first and locked
\* until the commit, so inserts come one at a time.
Insert(c) ==
    /\ call[c].step = "missed"
    /\ row' = [row EXCEPT ![call[c].id] = Analysis(c)]
    /\ call' = [call EXCEPT ![c].step = "stored"]
    /\ UNCHANGED <<memory, analyses, told, denied, raced>>

\* Faulty: the last memory wins.
EnqueueMemoryOver(c) ==
    /\ call[c].step = "stored"
    /\ memory' = [memory EXCEPT ![MemoryKey(call[c].id, call[c].payload)] = Analysis(c)]
    /\ Tell(c)
    /\ UNCHANGED <<row, analyses, raced>>

\* The memory's entry is inserted, found the same, or found different.
EnqueueMemory(c) ==
    /\ call[c].step = "stored"
    /\ LET k == MemoryKey(call[c].id, call[c].payload)
       IN \/ /\ memory[k] \in {None, Analysis(c)}
             /\ memory' = [memory EXCEPT ![k] = Analysis(c)]
             /\ Tell(c)
          \/ /\ memory[k] \notin {None, Analysis(c)}
             /\ call' = [call EXCEPT ![c] = Idle]
             /\ Deny(call[c].id, call[c].payload)
             /\ UNCHANGED memory
    /\ UNCHANGED <<row, analyses, raced>>

\* The process dies, or its connection to the database does.
Crash(c) ==
    /\ call[c] # Idle
    /\ call' = [call EXCEPT ![c] = Idle]
    /\ UNCHANGED <<row, memory, analyses, told, denied, raced>>

-----------------------------------------------------------------------------

EventsInit ==
    /\ row      = [e \in EventIds |-> None]
    /\ memory   = [k \in EventIds \X Advertisers |-> None]
    /\ call     = [c \in Reporters |-> Idle]
    /\ analyses = 0
    /\ told     = [e \in EventIds |-> {}]
    /\ denied   = [e \in EventIds |-> {}]
    /\ raced    = {}

Submission(c) ==
    \/ \E e \in EventIds, p \in Payloads :
          SubmitFirst(c, e, p) \/ SubmitAgain(c, e, p) \/ SubmitOther(c, e, p)
    \/ LookAgain(c) \/ Insert(c) \/ EnqueueMemory(c) \/ Crash(c)

EventsNext == \E c \in Reporters : Submission(c)

EventsSpec == EventsInit /\ [][EventsNext]_eventVars

-----------------------------------------------------------------------------
(* Properties.                                                              *)

Analysed == [payload : Payloads, by : Nat \ {0}]

EventsTypeOK ==
    /\ row      \in [EventIds -> Analysed \cup {None}]
    /\ memory   \in [EventIds \X Advertisers -> Analysed \cup {None}]
    /\ call     \in [Reporters -> {Idle} \cup
                     [step : {"analysed", "missed", "stored"},
                      id : EventIds, payload : Payloads, by : Nat \ {0}]]
    /\ analyses \in Nat
    /\ told     \in [EventIds -> SUBSET Analysed]
    /\ denied   \in [EventIds -> SUBSET Payloads]
    /\ raced    \subseteq EventIds

\* Whoever is answered for an event is given the analysis that the memory of
\* the advertiser they named is made from: senders who name one advertiser are
\* given one analysis, even when submissions race, crash and repeat.  Where no
\* two first submissions raced, it is the stored one, for everybody.
OneAnswer ==
    \A e \in EventIds :
        /\ \A a \in told[e] : memory[MemoryKey(e, a.payload)] = a
        /\ e \notin raced => told[e] \subseteq {row[e]}

\* Where no two first submissions raced, the row and every memory tell of one
\* analysis, and a repetition of the stored request is never refused, whatever
\* crashed in between.
RepetitionsAreAnswered ==
    \A e \in EventIds \ raced :
        /\ \A x \in Advertisers : memory[<<e, x>>] \in {None, row[e]}
        /\ \A p \in denied[e] : row[e].payload \notin {NoPayload, p}

\* The table changes the way EventHistory says: an event is overwritten only if
\* its first submissions raced, and never becomes contested once it is stored.
History == INSTANCE EventHistory WITH
    stored      <- [e \in EventIds |-> row[e].payload],
    contested   <- raced,
    Contestable <- EventIds

ImplementsHistory == History!HistorySpec

\* .agent/plans/performance-event-idempotency.md says it of every event: other
\* metrics under the same event_id must not overwrite historical telemetry.
EventIsFinal ==
    [][\A e \in EventIds : row[e] # None => row'[e].payload = row[e].payload]_eventVars
=============================================================================
