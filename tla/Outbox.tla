-------------------------------- MODULE Outbox --------------------------------
(***************************************************************************)
(* The transactional outbox through which learned memories and their usage  *)
(* counts are written: the API enqueues the write of a memory, the          *)
(* retrieval of a strategy run enqueues one usage event per memory it cites,*)
(* and workers claim events in batches and apply them to the memory table.  *)
(*                                                                          *)
(*   persistence/outbox_store.py             PostgresOutboxStore            *)
(*   outbox.py                               enqueue and process            *)
(*   persistence/advertiser_memory_store.py  the handlers' writes           *)
(*   persistence/knowledge_store.py          retrieve                       *)
(*                                                                          *)
(* Each store call is a transaction.  An event is applied in one            *)
(* transaction and marked in another, so a worker can die, or its 60 s      *)
(* lease can lapse, between the two.  The write of a memory is itself shown *)
(* statement by statement: nothing in the schema keeps a second row with    *)
(* the same source id out, only the order of the statements does.           *)
(***************************************************************************)
EXTENDS Integers, FiniteSets

CONSTANTS
    Sources,           \* source ids of the memories to be written
    Runs,              \* run ids of the strategy runs that retrieve
    NoRun,             \* the run of an event that writes a memory
    Workers,           \* calls of process_outbox_events, each sequential
    NoWorker,          \* locked_by is NULL, the tenants row is free
    NoEvent,           \* a worker has no event in hand
    Budget,            \* max_attempts
    BatchLimit,        \* the limit argument of claim_pending
    MaxRetrievals,     \* bound: retrievals of one run, its retries included
    MaxManualRetries   \* bound: manual retries of one event

ASSUME RunsAssumption == NoRun \notin Runs
ASSUME WorkersAssumption == NoWorker \notin Workers
ASSUME BudgetAssumption == Budget \in Nat \ {0}

VARIABLES
    event,       \* the outbox_events table, by idempotency key
    memory,      \* advertiser_memories: how many rows a source id has
    usage,       \* usage_count of the memory
    tenantLock,  \* who holds the row locks of the tenant and advertiser upserts
    batch,       \* the claimed events a worker has still to mark
    current,     \* the one it has in hand
    phase,       \* where it is with that one
    retrievals,  \* how often a run has retrieved
    refused      \* the runs of which a retrieval was rolled back

vars == <<event, memory, usage, tenantLock, batch, current, phase,
          retrievals, refused>>
delivery == <<tenantLock, batch, current, phase>>

-----------------------------------------------------------------------------
(* Events.                                                                  *)

\* The idempotency key of a write names the source, that of a usage event the
\* source and the run.
WriteEvent(s)    == [source |-> s, run |-> NoRun]
UsageEvent(s, r) == [source |-> s, run |-> r]
WriteEvents == {WriteEvent(s) : s \in Sources}
UsageEvents == {UsageEvent(s, r) : s \in Sources, r \in Runs}
Events      == WriteEvents \cup UsageEvents

Status   == {"absent", "pending", "processing", "completed", "failed"}
Terminal == {"completed", "failed"}

Row == [status   : Status,
        attempts : Nat,                           \* attempt_count
        due      : BOOLEAN,                       \* next_attempt_at is NULL or over
        owner    : Workers \cup {NoWorker},       \* locked_by
        lease    : {"none", "live", "expired"},   \* locked_until
        error    : BOOLEAN,                       \* error_json is not NULL
        closed   : BOOLEAN,                       \* completed_at is not NULL
        retries  : Nat,                           \* metadata.manual_retry_count
        payload  : Nat]                           \* what payload_hash tells apart

AbsentRow == [status |-> "absent", attempts |-> 0, due |-> TRUE,
              owner |-> NoWorker, lease |-> "none", error |-> FALSE,
              closed |-> FALSE, retries |-> 0, payload |-> 0]

-----------------------------------------------------------------------------
(* The store's row updates.                                                 *)

PendingRow(payload) ==
    [AbsentRow EXCEPT !.status = "pending", !.payload = payload]

Claimed(row, w) ==
    [row EXCEPT !.status = "processing", !.attempts = @ + 1,
                !.owner = w, !.lease = "live"]

\* Faulty: the lease outlives the claim.
CompletedUnderLease(row) ==
    [row EXCEPT !.status = "completed", !.error = FALSE, !.closed = TRUE]

Completed(row) ==
    [row EXCEPT !.status = "completed", !.owner = NoWorker, !.lease = "none",
                !.error = FALSE, !.closed = TRUE]

\* Faulty: one attempt too many.
HasAttemptsRemainingOrOne(row) == row.attempts <= Budget

HasAttemptsRemaining(row) == row.attempts < Budget

\* Faulty: an attempt that raised is given back.
AttemptFailedRefunding(row) ==
    IF HasAttemptsRemaining(row)
    THEN [row EXCEPT !.status = "pending", !.owner = NoWorker, !.lease = "none",
                     !.error = TRUE, !.closed = FALSE, !.due = FALSE,
                     !.attempts = @ - 1]
    ELSE [row EXCEPT !.status = "failed", !.owner = NoWorker, !.lease = "none",
                     !.error = TRUE, !.closed = TRUE, !.due = TRUE]

AttemptFailed(row) ==
    IF HasAttemptsRemaining(row)
    THEN [row EXCEPT !.status = "pending", !.owner = NoWorker, !.lease = "none",
                     !.error = TRUE, !.closed = FALSE, !.due = FALSE]
    ELSE [row EXCEPT !.status = "failed", !.owner = NoWorker, !.lease = "none",
                     !.error = TRUE, !.closed = TRUE, !.due = TRUE]

Retried(row) ==
    [row EXCEPT !.status = "pending", !.attempts = 0, !.owner = NoWorker,
                !.lease = "none", !.error = FALSE, !.closed = FALSE,
                !.due = TRUE, !.retries = @ + 1]

-----------------------------------------------------------------------------
(* Enqueueing.                                                              *)

\* An event that exists is accepted again only with the same payload.
Accepts(e, payload) ==
    event[e].status = "absent" \/ event[e].payload = payload

Enqueued(E, payload) ==
    [e \in Events |-> IF e \in E /\ event[e].status = "absent"
                      THEN PendingRow(payload) ELSE event[e]]

\* The API was given a performance event or a handoff record.  Its replay
\* enqueues the analysis that was stored with it: the same payload.
EnqueueMemoryWrite(s) ==
    /\ Accepts(WriteEvent(s), 0)
    /\ event' = Enqueued({WriteEvent(s)}, 0)
    /\ UNCHANGED <<memory, usage, delivery, retrievals, refused>>

\* One transaction: the memories found, a retrieval event, and a usage event
\* for each memory among the ranked results.  The payload holds the moment of
\* this retrieval, so no two retrievals enqueue the same one.  An
\* OutboxConflictError rolls everything back and fails the run's attempt.
Retrieve(r) ==
    /\ retrievals[r] < MaxRetrievals
    /\ retrievals' = [retrievals EXCEPT ![r] = @ + 1]
    /\ \E cited \in SUBSET {s \in Sources : memory[s] > 0} :
         LET E == {UsageEvent(s, r) : s \in cited} IN
         IF \A e \in E : Accepts(e, retrievals'[r])
         THEN /\ event' = Enqueued(E, retrievals'[r])
              /\ UNCHANGED refused
         ELSE /\ refused' = refused \cup {r}
              /\ UNCHANGED event
    /\ UNCHANGED <<memory, usage, delivery>>

-----------------------------------------------------------------------------
(* Workers: the claim.                                                      *)

Goto(w, step) == phase' = [phase EXCEPT ![w] = step]
SourceOf(w)   == current[w].source

\* Faulty: never an event whose worker died.
ClaimablePendingOnly(row) ==
    HasAttemptsRemaining(row) /\ row.status = "pending" /\ row.due

Claimable(row) ==
    /\ HasAttemptsRemaining(row)
    /\ \/ row.status = "pending" /\ row.due
       \/ row.status = "processing" /\ row.lease = "expired"

\* FOR UPDATE SKIP LOCKED with a limit, as in StrategyJobs.
ClaimPending(w) ==
    /\ batch[w] = {}
    /\ \E E \in SUBSET {e \in Events : Claimable(event[e])} :
         /\ E # {} /\ Cardinality(E) <= BatchLimit
         /\ event' = [e \in Events |-> IF e \in E THEN Claimed(event[e], w)
                                                  ELSE event[e]]
         /\ batch' = [batch EXCEPT ![w] = E]
    /\ UNCHANGED <<memory, usage, tenantLock, current, phase, retrievals, refused>>

\* The batch is a list; which of its events comes next is left open.
TakeNext(w) ==
    /\ phase[w] = "idle"
    /\ \E e \in batch[w] : current' = [current EXCEPT ![w] = e]
    /\ Goto(w, "handle")
    /\ UNCHANGED <<event, memory, usage, tenantLock, batch, retrievals, refused>>

-----------------------------------------------------------------------------
(* Workers: the handlers.                                                   *)

\* record_feedback_memory, record_handoff_memory: first the upserts of the
\* tenant and the advertiser, whose row locks last until the commit;

\* (faulty: the lock is not waited for)
UpsertTenantWithoutLock(w) ==
    /\ phase[w] = "handle" /\ current[w] \in WriteEvents
    /\ Goto(w, "locked")
    /\ UNCHANGED <<event, memory, usage, tenantLock, batch, current, retrievals, refused>>

UpsertTenant(w) ==
    /\ phase[w] = "handle" /\ current[w] \in WriteEvents
    /\ tenantLock = NoWorker
    /\ tenantLock' = w
    /\ Goto(w, "locked")
    /\ UNCHANGED <<event, memory, usage, batch, current, retrievals, refused>>

\* then the search, which expects one row at most;
FindMemory(w) ==
    /\ phase[w] = "locked"
    /\ memory[SourceOf(w)] \in {0, 1}
    /\ Goto(w, IF memory[SourceOf(w)] = 0 THEN "insert" ELSE "update")
    /\ UNCHANGED <<event, memory, usage, tenantLock, batch, current, retrievals, refused>>

\* and the insert or the update, with the commit.
WriteMemory(w) ==
    /\ phase[w] = "insert" \/ phase[w] = "update"
    /\ memory' = IF phase[w] = "insert"
                 THEN [memory EXCEPT ![SourceOf(w)] = @ + 1] ELSE memory
    /\ tenantLock' = NoWorker
    /\ Goto(w, "applied")
    /\ UNCHANGED <<event, usage, batch, current, retrievals, refused>>

\* record_retrieval_usage, one statement: a memory that is not there is no
\* error, two of them are.
RecordRetrievalUsage(w) ==
    /\ phase[w] = "handle" /\ current[w] \in UsageEvents
    /\ memory[SourceOf(w)] \in {0, 1}
    /\ usage' = [usage EXCEPT ![SourceOf(w)] = @ + memory[SourceOf(w)]]
    /\ Goto(w, "applied")
    /\ UNCHANGED <<event, memory, tenantLock, batch, current, retrievals, refused>>

LockReleasedBy(w) == IF tenantLock = w THEN NoWorker ELSE tenantLock

\* Faulty: the exception is swallowed.
HandlerSwallows(w) ==
    /\ phase[w] \in {"handle", "locked", "insert", "update"}
    /\ tenantLock' = LockReleasedBy(w)
    /\ Goto(w, "applied")
    /\ UNCHANGED <<event, memory, usage, batch, current, retrievals, refused>>

\* Any exception before the commit rolls the transaction back.
HandlerRaises(w) ==
    /\ phase[w] \in {"handle", "locked", "insert", "update"}
    /\ tenantLock' = LockReleasedBy(w)
    /\ Goto(w, "raised")
    /\ UNCHANGED <<event, memory, usage, batch, current, retrievals, refused>>

-----------------------------------------------------------------------------
(* Workers: the outcome.                                                    *)

Marked(w, row) ==
    /\ event' = [event EXCEPT ![current[w]] = row]
    /\ batch' = [batch EXCEPT ![w] = @ \ {current[w]}]
    /\ current' = [current EXCEPT ![w] = NoEvent]
    /\ Goto(w, "idle")
    /\ UNCHANGED <<memory, usage, tenantLock, retrievals, refused>>

\* Neither write looks at the status, nor at whose claim the event is.
MarkCompleted(w) ==
    phase[w] = "applied" /\ Marked(w, Completed(event[current[w]]))

\* Faulty: a failed handler counts as an application.
MarkFailedAsCompleted(w) ==
    phase[w] = "raised" /\ Marked(w, Completed(event[current[w]]))

MarkFailed(w) ==
    phase[w] = "raised" /\ Marked(w, AttemptFailed(event[current[w]]))

\* The process dies, or a store call raises and aborts the batch.
WorkerCrashes(w) ==
    /\ batch[w] # {}
    /\ batch' = [batch EXCEPT ![w] = {}]
    /\ tenantLock' = LockReleasedBy(w)
    /\ current' = [current EXCEPT ![w] = NoEvent]
    /\ Goto(w, "idle")
    /\ UNCHANGED <<event, memory, usage, retrievals, refused>>

-----------------------------------------------------------------------------
(* The operator, and time.                                                  *)

RetryFailed(e) ==
    /\ event[e].status = "failed"
    /\ event[e].retries < MaxManualRetries
    /\ event' = [event EXCEPT ![e] = Retried(@)]
    /\ UNCHANGED <<memory, usage, delivery, retrievals, refused>>

DelayElapses(e) ==
    /\ ~event[e].due
    /\ event' = [event EXCEPT ![e].due = TRUE]
    /\ UNCHANGED <<memory, usage, delivery, retrievals, refused>>

LeaseElapses(e) ==
    /\ event[e].lease = "live"
    /\ event' = [event EXCEPT ![e].lease = "expired"]
    /\ UNCHANGED <<memory, usage, delivery, retrievals, refused>>

-----------------------------------------------------------------------------

Init ==
    /\ event      = [e \in Events |-> AbsentRow]
    /\ memory     = [s \in Sources |-> 0]
    /\ usage      = [s \in Sources |-> 0]
    /\ tenantLock = NoWorker
    /\ batch      = [w \in Workers |-> {}]
    /\ current    = [w \in Workers |-> NoEvent]
    /\ phase      = [w \in Workers |-> "idle"]
    /\ retrievals = [r \in Runs |-> 0]
    /\ refused    = {}

\* What a worker with a batch does, short of crashing.
Progress(w) ==
    \/ TakeNext(w) \/ UpsertTenant(w) \/ FindMemory(w) \/ WriteMemory(w)
    \/ RecordRetrievalUsage(w) \/ HandlerRaises(w)
    \/ MarkCompleted(w) \/ MarkFailed(w)

WorkerStep(w) == ClaimPending(w) \/ Progress(w) \/ WorkerCrashes(w)

EventStep(e) == RetryFailed(e) \/ DelayElapses(e) \/ LeaseElapses(e)

Next ==
    \/ \E w \in Workers : WorkerStep(w)
    \/ \E e \in Events : EventStep(e)
    \/ \E s \in Sources : EnqueueMemoryWrite(s)
    \/ \E r \in Runs : Retrieve(r)

Spec == Init /\ [][Next]_vars

\* process-outbox is called again and again, handlers end, and the database
\* hands the row lock to a waiting worker.  Nothing else need ever happen.
Fairness ==
    /\ \A w \in Workers : WF_vars(ClaimPending(w)) /\ WF_vars(Progress(w))
    /\ \A e \in Events : WF_vars(DelayElapses(e)) /\ WF_vars(LeaseElapses(e))

FairSpec == Spec /\ Fairness

-----------------------------------------------------------------------------
(* Properties.                                                              *)

Phase == {"idle", "handle", "locked", "insert", "update", "applied", "raised"}

TypeOK ==
    /\ event      \in [Events -> Row]
    /\ memory     \in [Sources -> Nat]
    /\ usage      \in [Sources -> Nat]
    /\ tenantLock \in Workers \cup {NoWorker}
    /\ batch      \in [Workers -> SUBSET Events]
    /\ current    \in [Workers -> Events \cup {NoEvent}]
    /\ phase      \in [Workers -> Phase]
    /\ retrievals \in [Runs -> Nat]
    /\ refused    \in SUBSET Runs

\* Two workers that apply the same event, one of them after its lease lapsed,
\* still write one memory: with a second row every later write and every
\* usage count of that memory would fail.
OneMemoryPerSource == \A s \in Sources : memory[s] <= 1

\* An event reported as completed has had its effect: README.md:532, a replay
\* answers "recorded" and later runs can retrieve the memory.
CompletedMeansApplied ==
    \A s \in Sources :
        event[WriteEvent(s)].status = "completed" => memory[s] > 0

\* Usage events are delivered at least once, whatever crashes, late outcomes
\* and repeated writes of the memory come between.
UsageAtLeastOnce ==
    \A s \in Sources :
        Cardinality({e \in UsageEvents : e.source = s
                                        /\ event[e].status = "completed"})
          <= usage[s]

\* A pending event can be claimed, and none fails before its attempts are used
\* up, though outcomes are written without a look at the row.
AttemptsDecide ==
    \A e \in Events :
        /\ event[e].attempts <= Budget
        /\ event[e].status = "pending" => HasAttemptsRemaining(event[e])
        /\ event[e].status = "failed" => ~HasAttemptsRemaining(event[e])

\* The columns tell one story: lease and owner exactly while processing (the
\* reclaim condition reads the lease), completed_at exactly when the event is
\* over, an error on a failed event and none on a completed one.
EventRowConsistent ==
    \A e \in Events : LET row == event[e] IN
        /\ row.status = "processing" <=> row.lease # "none"
        /\ row.status = "processing" <=> row.owner # NoWorker
        /\ row.status \in Terminal <=> row.closed
        /\ row.status = "failed" => row.error
        /\ row.status = "completed" => ~row.error

\* A worker that died on the last attempt leaves an event that no claim and
\* no manual retry will ever take.
Orphaned(e) ==
    /\ event[e].status = "processing"
    /\ event[e].lease = "expired"
    /\ ~HasAttemptsRemaining(event[e])
    /\ \A w \in Workers : e \notin batch[w]

\* Every event ends completed, failed or orphaned.
EventSettles ==
    \A e \in Events : event[e].status \in {"pending", "processing"}
                        ~> (event[e].status \in Terminal \/ Orphaned(e))

-----------------------------------------------------------------------------
(* What the documents say and the code does not do.                         *)

\* .agent/plans/retrieval-usage-tracking.md:26: keys per run and source, "so
\* retries or replayed retrievals do not create duplicate usage work for the
\* same run", that is, a repeated retrieval is no error.
ReplaysAreAccepted == refused = {}
=============================================================================
