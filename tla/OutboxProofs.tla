---------------------------- MODULE OutboxProofs ----------------------------
(***************************************************************************)
(* Proofs about Outbox, for every set of sources, runs and workers and      *)
(* every bound.                                                             *)
(***************************************************************************)
EXTENDS Outbox, FiniteSetTheorems, TLAPS

-----------------------------------------------------------------------------
(* The inductive invariant.                                                 *)

\* What one row of outbox_events satisfies on its own.
RowInv(row) ==
    /\ row.attempts <= Budget
    /\ row.status = "pending" => HasAttemptsRemaining(row)
    /\ row.status = "failed" => ~HasAttemptsRemaining(row)
    /\ row.status = "processing" <=> row.lease # "none"
    /\ row.status = "processing" <=> row.owner # NoWorker
    /\ row.status \in Terminal <=> row.closed
    /\ row.status = "failed" => row.error
    /\ row.status = "completed" => ~row.error

RowsInv == \A e \in Events : RowInv(event[e])

\* A worker has in hand an event of its batch, and events are never deleted.
HandInv ==
    \A w \in Workers :
        /\ \A e \in batch[w] : event[e].status # "absent"
        /\ phase[w] # "idle" => current[w] \in batch[w]

\* Whoever is between the upserts and the commit holds their locks.
LockInv ==
    \A w \in Workers : phase[w] \in {"locked", "insert", "update"} =>
        tenantLock = w /\ current[w] \in WriteEvents

\* What the search found is still so at the commit, what was applied stays.
MemoryInv ==
    /\ \A s \in Sources : memory[s] \in {0, 1}
    /\ \A w \in Workers : phase[w] = "insert" => memory[SourceOf(w)] = 0
    /\ \A w \in Workers : phase[w] = "update" => memory[SourceOf(w)] = 1
    /\ \A w \in Workers : phase[w] = "applied" /\ current[w] \in WriteEvents
                            => memory[SourceOf(w)] = 1
    /\ \A s \in Sources :
         event[WriteEvent(s)].status = "completed" => memory[s] = 1
    /\ \A e \in UsageEvents : event[e].status # "absent" => memory[e.source] = 1

\* The usage events whose effect has happened, marked or about to be.
Delivered(s) ==
    {e \in UsageEvents :
        /\ e.source = s
        /\ \/ event[e].status = "completed"
           \/ \E w \in Workers : phase[w] = "applied" /\ current[w] = e}

UsageInv ==
    \A s \in Sources : /\ IsFiniteSet(Delivered(s))
                       /\ Cardinality(Delivered(s)) <= usage[s]

IInv == TypeOK /\ RowsInv /\ HandInv /\ LockInv /\ MemoryInv /\ UsageInv

-----------------------------------------------------------------------------
(* Events and rows.                                                         *)

\* A write event names no run, so it is no usage event.
LEMMA EventKinds ==
  /\ WriteEvents \cap UsageEvents = {}
  /\ \A e \in Events : e.source \in Sources
  /\ \A s \in Sources : WriteEvent(s) \in WriteEvents /\ WriteEvent(s).source = s
  /\ \A e \in WriteEvents : e = WriteEvent(e.source)
  /\ \A s \in Sources, r \in Runs :
       UsageEvent(s, r) \in UsageEvents /\ UsageEvent(s, r).source = s
BY RunsAssumption DEF Events, WriteEvents, UsageEvents, WriteEvent, UsageEvent

\* New rows are typed and satisfy the row invariant.
LEMMA NewRows ==
  /\ AbsentRow \in Row /\ RowInv(AbsentRow) /\ AbsentRow.status = "absent"
  /\ \A p \in Nat : /\ PendingRow(p) \in Row
                    /\ PendingRow(p).status = "pending"
                    /\ RowInv(PendingRow(p))
<1>1. AbsentRow \in Row /\ AbsentRow.status = "absent"
  BY DEF AbsentRow, Row, Status
<1>2. RowInv(AbsentRow)
  BY BudgetAssumption DEF AbsentRow, RowInv, Terminal
<1>3. ASSUME NEW p \in Nat
      PROVE  /\ PendingRow(p) \in Row
             /\ PendingRow(p).status = "pending"
             /\ RowInv(PendingRow(p))
  <2> DEFINE new == PendingRow(p)
  <2>1. new \in Row
    BY <1>1 DEF PendingRow, Row, Status
  <2>2. /\ new.status = "pending" /\ new.attempts = 0 /\ new.owner = NoWorker
        /\ new.lease = "none" /\ new.closed = FALSE
    BY DEF PendingRow, AbsentRow
  <2> HIDE DEF new
  <2>3. 0 <= Budget /\ 0 < Budget
    BY BudgetAssumption
  <2>4. RowInv(new)
    BY <2>2, <2>3 DEF RowInv, Terminal, HasAttemptsRemaining
  <2>5. QED
    BY <2>1, <2>2, <2>4 DEF new
<1>4. QED
  BY <1>1, <1>2, <1>3

\* A claim charges an attempt that the row still has.
LEMMA ClaimedRow ==
  ASSUME NEW row \in Row, RowInv(row), Claimable(row), NEW w \in Workers
  PROVE  /\ Claimed(row, w) \in Row
         /\ Claimed(row, w).status = "processing"
         /\ RowInv(Claimed(row, w))
         /\ row.status # "absent"
<1> DEFINE new == Claimed(row, w)
<1>1. row.attempts + 1 \in Nat /\ "processing" \in Status
  BY DEF Row, Status
<1>2. new \in Row
  BY <1>1 DEF Row, Claimed
<1>3. /\ new.status = "processing" /\ new.attempts = row.attempts + 1
      /\ new.owner = w /\ new.lease = "live" /\ new.closed = row.closed
  BY DEF Row, Claimed
<1>4. ~row.closed
  BY DEF RowInv, Claimable, Terminal
<1>5. row.attempts + 1 <= Budget
  BY BudgetAssumption DEF Claimable, HasAttemptsRemaining, Row
<1> HIDE DEF new
<1>6. RowInv(new)
  BY <1>3, <1>4, <1>5, WorkersAssumption DEF RowInv, Terminal
<1>7. QED
  BY <1>2, <1>3, <1>6 DEF new, Claimable

\* A completion is consistent whatever the row was.
LEMMA CompletedRow ==
  ASSUME NEW row \in Row, RowInv(row)
  PROVE  /\ Completed(row) \in Row
         /\ Completed(row).status = "completed"
         /\ RowInv(Completed(row))
<1> DEFINE new == Completed(row)
<1>1. new \in Row
  BY DEF Row, Completed, Status
<1>2. /\ new.status = "completed" /\ new.attempts = row.attempts
      /\ new.owner = NoWorker /\ new.lease = "none" /\ new.closed = TRUE
      /\ new.error = FALSE
  BY DEF Row, Completed
<1> HIDE DEF new
<1>3. RowInv(new)
  BY <1>2 DEF RowInv, Terminal
<1>4. QED
  BY <1>1, <1>2, <1>3 DEF new

\* So is a failure, because the row's own counter decides.
LEMMA FailedRow ==
  ASSUME NEW row \in Row, RowInv(row)
  PROVE  /\ AttemptFailed(row) \in Row
         /\ AttemptFailed(row).status \in {"pending", "failed"}
         /\ RowInv(AttemptFailed(row))
<1> DEFINE again == [row EXCEPT !.status = "pending", !.owner = NoWorker,
                       !.lease = "none", !.error = TRUE, !.closed = FALSE, !.due = FALSE]
           over  == [row EXCEPT !.status = "failed", !.owner = NoWorker,
                       !.lease = "none", !.error = TRUE, !.closed = TRUE, !.due = TRUE]
<1>1. again \in Row /\ over \in Row
  BY DEF Row, Status
<1>2. /\ again.status = "pending" /\ again.attempts = row.attempts
      /\ again.owner = NoWorker /\ again.lease = "none" /\ again.closed = FALSE
  BY DEF Row
<1>3. /\ over.status = "failed" /\ over.attempts = row.attempts
      /\ over.owner = NoWorker /\ over.lease = "none" /\ over.closed = TRUE
      /\ over.error = TRUE
  BY DEF Row
<1>4. AttemptFailed(row) = IF HasAttemptsRemaining(row) THEN again ELSE over
  BY DEF AttemptFailed
<1> HIDE DEF again, over
<1>5. CASE HasAttemptsRemaining(row)
  BY <1>1, <1>2, <1>4, <1>5 DEF RowInv, Terminal, HasAttemptsRemaining
<1>6. CASE ~HasAttemptsRemaining(row)
  BY <1>1, <1>3, <1>4, <1>6 DEF RowInv, Terminal, HasAttemptsRemaining
<1>7. QED
  BY <1>5, <1>6

\* And a manual retry.
LEMMA RetriedRow ==
  ASSUME NEW row \in Row
  PROVE  /\ Retried(row) \in Row
         /\ Retried(row).status = "pending"
         /\ RowInv(Retried(row))
<1> DEFINE new == Retried(row)
<1>0. row.retries + 1 \in Nat
  BY DEF Row
<1>1. new \in Row
  BY <1>0 DEF Row, Retried, Status
<1>2. /\ new.status = "pending" /\ new.attempts = 0 /\ new.owner = NoWorker
      /\ new.lease = "none" /\ new.closed = FALSE
  BY DEF Row, Retried
<1> HIDE DEF new
<1>3. 0 <= Budget /\ 0 < Budget
  BY BudgetAssumption
<1>4. RowInv(new)
  BY <1>2, <1>3 DEF RowInv, Terminal, HasAttemptsRemaining
<1>5. QED
  BY <1>1, <1>2, <1>4 DEF new

\* Time moves only the due and lease columns.
LEMMA ElapsedRows ==
  ASSUME NEW row \in Row, RowInv(row)
  PROVE  /\ [row EXCEPT !.due = TRUE] \in Row
         /\ [row EXCEPT !.due = TRUE].status = row.status
         /\ RowInv([row EXCEPT !.due = TRUE])
         /\ row.lease = "live" =>
              /\ [row EXCEPT !.lease = "expired"] \in Row
              /\ [row EXCEPT !.lease = "expired"].status = row.status
              /\ RowInv([row EXCEPT !.lease = "expired"])
BY DEF Row, RowInv, HasAttemptsRemaining

-----------------------------------------------------------------------------
(* One step and one row.                                                    *)

\* The write of an outcome changes the row of the event in hand only.
LEMMA OutcomeWritten ==
  ASSUME TypeOK, HandInv, NEW w \in Workers, phase[w] # "idle", NEW row,
         Marked(w, row)
  PROVE  /\ current[w] \in Events /\ event[current[w]].status # "absent"
         /\ event' = [event EXCEPT ![current[w]] = row]
         /\ event'[current[w]] = row
BY DEF TypeOK, HandInv, Marked

\* Every step leaves a row a row, keeps its invariant and deletes nothing.
LEMMA RowStep ==
  ASSUME TypeOK, RowsInv, HandInv, [Next]_vars, NEW e \in Events
  PROVE  /\ event'[e] \in Row
         /\ RowInv(event'[e])
         /\ event[e].status # "absent" => event'[e].status # "absent"
<1>0. /\ event[e] \in Row /\ RowInv(event[e])
      /\ event \in [Events -> Row]
      /\ retrievals \in [Runs -> Nat]
  BY DEF TypeOK, RowsInv
<1>1. CASE UNCHANGED event
  BY <1>0, <1>1
<1>2. ASSUME NEW E, NEW p \in Nat, event' = Enqueued(E, p)
      PROVE  /\ event'[e] \in Row
             /\ RowInv(event'[e])
             /\ event[e].status # "absent" => event'[e].status # "absent"
  BY <1>0, <1>2, NewRows DEF Enqueued
<1>3. ASSUME NEW s \in Sources, EnqueueMemoryWrite(s)
      PROVE  event' = Enqueued({WriteEvent(s)}, 0)
  BY <1>3 DEF EnqueueMemoryWrite
<1>4. ASSUME NEW r \in Runs, Retrieve(r)
      PROVE  \/ UNCHANGED event
             \/ \E E : \E p \in Nat : event' = Enqueued(E, p)
  <2>1. retrievals'[r] \in Nat
    BY <1>0, <1>4 DEF Retrieve
  <2>2. PICK cited \in SUBSET {s \in Sources : memory[s] > 0} :
          LET E == {UsageEvent(s, r) : s \in cited} IN
          IF \A d \in E : Accepts(d, retrievals'[r])
          THEN /\ event' = Enqueued(E, retrievals'[r])
               /\ UNCHANGED refused
          ELSE /\ refused' = refused \cup {r}
               /\ UNCHANGED event
    BY <1>4, Zenon DEF Retrieve
  <2> DEFINE E == {UsageEvent(s, r) : s \in cited}
  <2>3. CASE \A d \in E : Accepts(d, retrievals'[r])
    <3>1. event' = Enqueued(E, retrievals'[r])
      BY <2>2, <2>3
    <3> HIDE DEF E
    <3>2. QED
      BY <2>1, <3>1, Zenon
  <2>4. CASE ~ \A d \in E : Accepts(d, retrievals'[r])
    BY <2>2, <2>4, Zenon
  <2>5. QED
    BY <2>3, <2>4
<1>5. ASSUME NEW w \in Workers, ClaimPending(w)
      PROVE  event'[e] = event[e]
             \/ (event'[e] = Claimed(event[e], w) /\ Claimable(event[e]))
  BY <1>0, <1>5 DEF ClaimPending
<1>6. ASSUME NEW w \in Workers, MarkCompleted(w)
      PROVE  event'[e] = event[e]
             \/ (event'[e] = Completed(event[e]) /\ event[e].status # "absent")
  <2>1. phase[w] # "idle" /\ Marked(w, Completed(event[current[w]]))
    BY <1>6 DEF MarkCompleted
  <2>2. QED
    BY <1>0, <2>1, OutcomeWritten
<1>7. ASSUME NEW w \in Workers, MarkFailed(w)
      PROVE  event'[e] = event[e]
             \/ (event'[e] = AttemptFailed(event[e]) /\ event[e].status # "absent")
  <2>1. phase[w] # "idle" /\ Marked(w, AttemptFailed(event[current[w]]))
    BY <1>7 DEF MarkFailed
  <2>2. QED
    BY <1>0, <2>1, OutcomeWritten
<1>8. ASSUME NEW w \in Workers, WorkerStep(w)
      PROVE  \/ UNCHANGED event
             \/ ClaimPending(w) \/ MarkCompleted(w) \/ MarkFailed(w)
  BY <1>8 DEF WorkerStep, Progress, TakeNext, UpsertTenant, FindMemory,
              WriteMemory, RecordRetrievalUsage, HandlerRaises, WorkerCrashes
<1>9. ASSUME NEW d \in Events, EventStep(d)
      PROVE  \/ event'[e] = event[e]
             \/ event'[e] = Retried(event[e])
             \/ event'[e] = [event[e] EXCEPT !.due = TRUE]
             \/ (event'[e] = [event[e] EXCEPT !.lease = "expired"]
                 /\ event[e].lease = "live")
  BY <1>0, <1>9 DEF EventStep, RetryFailed, DelayElapses, LeaseElapses
<1>10. \A w \in Workers : WorkerStep(w) =>
         /\ event'[e] \in Row /\ RowInv(event'[e])
         /\ event[e].status # "absent" => event'[e].status # "absent"
  BY <1>0, <1>1, <1>5, <1>6, <1>7, <1>8, ClaimedRow, CompletedRow, FailedRow
<1>11. \A d \in Events : EventStep(d) =>
         /\ event'[e] \in Row /\ RowInv(event'[e])
         /\ event[e].status # "absent" => event'[e].status # "absent"
  BY <1>0, <1>9, RetriedRow, ElapsedRows
<1>12. CASE UNCHANGED vars
  BY <1>1, <1>12 DEF vars
<1>13. QED
  BY <1>1, <1>2, <1>3, <1>4, <1>10, <1>11, <1>12 DEF Next

-----------------------------------------------------------------------------
(* Types.                                                                   *)

\* The empty tables are typed and their rows consistent.
LEMMA InitTyped == Init => TypeOK /\ RowsInv
<1> SUFFICES ASSUME Init PROVE TypeOK /\ RowsInv
  OBVIOUS
<1>1. event \in [Events -> Row] /\ RowsInv
  BY NewRows DEF Init, RowsInv
<1>2. QED
  BY <1>1 DEF Init, TypeOK, Phase

\* The table stays a table: every step rewrites rows of the events it has.
LEMMA EventFunction ==
  ASSUME event \in [Events -> Row], [Next]_vars
  PROVE  event' = [e \in Events |-> event'[e]]
<1>1. ASSUME NEW w \in Workers, WorkerStep(w)
      PROVE  event' = [e \in Events |-> event'[e]]
  BY <1>1 DEF WorkerStep, ClaimPending, Progress, TakeNext, UpsertTenant,
              FindMemory, WriteMemory, RecordRetrievalUsage, HandlerRaises,
              WorkerCrashes, MarkCompleted, MarkFailed, Marked
<1>2. ASSUME NEW e \in Events, EventStep(e)
      PROVE  event' = [d \in Events |-> event'[d]]
  BY <1>2 DEF EventStep, RetryFailed, DelayElapses, LeaseElapses
<1>3. ASSUME NEW E, NEW p, event' = Enqueued(E, p)
      PROVE  event' = [e \in Events |-> event'[e]]
  BY <1>3 DEF Enqueued
<1>4. ASSUME NEW s \in Sources, EnqueueMemoryWrite(s)
      PROVE  event' = [e \in Events |-> event'[e]]
  BY <1>3, <1>4 DEF EnqueueMemoryWrite
<1>5. ASSUME NEW r \in Runs, Retrieve(r)
      PROVE  event' = [e \in Events |-> event'[e]]
  <2>1. \/ UNCHANGED event
        \/ \E E, p : event' = Enqueued(E, p)
    BY <1>5, Zenon DEF Retrieve
  <2>2. QED
    BY <1>3, <2>1
<1>6. CASE UNCHANGED vars
  BY <1>6 DEF vars
<1>7. QED
  BY <1>1, <1>2, <1>4, <1>5, <1>6 DEF Next

\* Every step keeps the types.
LEMMA TypeStep ==
  ASSUME TypeOK, RowsInv, HandInv, [Next]_vars
  PROVE  TypeOK'
<1>0. /\ event \in [Events -> Row] /\ memory \in [Sources -> Nat]
      /\ usage \in [Sources -> Nat] /\ tenantLock \in Workers \cup {NoWorker}
      /\ batch \in [Workers -> SUBSET Events]
      /\ current \in [Workers -> Events \cup {NoEvent}]
      /\ phase \in [Workers -> Phase] /\ retrievals \in [Runs -> Nat]
      /\ refused \in SUBSET Runs
  BY DEF TypeOK
<1>1. event' \in [Events -> Row]
  <2>1. event' = [e \in Events |-> event'[e]]
    BY <1>0, EventFunction
  <2>2. QED
    BY <2>1, RowStep
<1>2. ASSUME NEW w \in Workers, ClaimPending(w)
      PROVE  TypeOK'
  BY <1>0, <1>1, <1>2 DEF ClaimPending, TypeOK
<1>3. ASSUME NEW w \in Workers, Progress(w)
      PROVE  TypeOK'
  <2>1. ASSUME phase[w] # "idle"
        PROVE  current[w] \in Events /\ SourceOf(w) \in Sources
    BY <1>0, <2>1, EventKinds DEF HandInv, SourceOf
  <2>2. CASE TakeNext(w)
    BY <1>0, <1>1, <2>2 DEF TakeNext, Goto, Phase, TypeOK
  <2>3. CASE UpsertTenant(w)
    BY <1>0, <1>1, <2>3 DEF UpsertTenant, Goto, Phase, TypeOK
  <2>4. CASE FindMemory(w)
    BY <1>0, <1>1, <2>4 DEF FindMemory, Goto, Phase, TypeOK
  <2>5. CASE WriteMemory(w)
    <3>1. memory' \in [Sources -> Nat]
      BY <1>0, <2>1, <2>5 DEF WriteMemory
    <3>2. QED
      BY <1>0, <1>1, <2>5, <3>1 DEF WriteMemory, Goto, Phase, TypeOK
  <2>6. CASE RecordRetrievalUsage(w)
    <3>1. usage' \in [Sources -> Nat]
      BY <1>0, <2>1, <2>6 DEF RecordRetrievalUsage
    <3>2. QED
      BY <1>0, <1>1, <2>6, <3>1 DEF RecordRetrievalUsage, Goto, Phase, TypeOK
  <2>7. CASE HandlerRaises(w)
    BY <1>0, <1>1, <2>7 DEF HandlerRaises, LockReleasedBy, Goto, Phase, TypeOK
  <2>8. CASE MarkCompleted(w) \/ MarkFailed(w)
    BY <1>0, <1>1, <2>8 DEF MarkCompleted, MarkFailed, Marked, Goto, Phase, TypeOK
  <2>9. QED
    BY <1>3, <2>2, <2>3, <2>4, <2>5, <2>6, <2>7, <2>8 DEF Progress
<1>4. ASSUME NEW w \in Workers, WorkerCrashes(w)
      PROVE  TypeOK'
  BY <1>0, <1>1, <1>4 DEF WorkerCrashes, LockReleasedBy, Goto, Phase, TypeOK
<1>5. ASSUME NEW e \in Events, EventStep(e)
      PROVE  TypeOK'
  BY <1>0, <1>1, <1>5 DEF EventStep, RetryFailed, DelayElapses, LeaseElapses,
                          delivery, TypeOK
<1>6. ASSUME NEW s \in Sources, EnqueueMemoryWrite(s)
      PROVE  TypeOK'
  BY <1>0, <1>1, <1>6 DEF EnqueueMemoryWrite, delivery, TypeOK
<1>7. ASSUME NEW r \in Runs, Retrieve(r)
      PROVE  TypeOK'
  <2>1. retrievals' \in [Runs -> Nat]
    BY <1>0, <1>7 DEF Retrieve
  <2>2. refused' \in SUBSET Runs
    BY <1>0, <1>7 DEF Retrieve
  <2>3. QED
    BY <1>0, <1>1, <1>7, <2>1, <2>2 DEF Retrieve, delivery, TypeOK
<1>8. CASE UNCHANGED vars
  BY <1>0, <1>8 DEF vars, TypeOK
<1>9. QED
  BY <1>2, <1>3, <1>4, <1>5, <1>6, <1>7, <1>8 DEF Next, WorkerStep

-----------------------------------------------------------------------------
(* Events in hand, and locks.                                               *)

\* Everybody but the workers leaves the workers alone.
LEMMA OthersKeepDelivery ==
  ASSUME [Next]_vars
  PROVE  (\E w \in Workers : WorkerStep(w)) \/ UNCHANGED delivery
BY DEF Next, vars, delivery, EventStep, RetryFailed, DelayElapses, LeaseElapses,
       EnqueueMemoryWrite, Retrieve

\* Batches hold events that exist, and the event in hand is one of the batch.
LEMMA HandStep ==
  ASSUME TypeOK, RowsInv, HandInv, [Next]_vars
  PROVE  HandInv'
<1>0. /\ batch \in [Workers -> SUBSET Events] /\ phase \in [Workers -> Phase]
      /\ current \in [Workers -> Events \cup {NoEvent}]
      /\ event \in [Events -> Row]
  BY DEF TypeOK
<1> SUFFICES ASSUME NEW v \in Workers
             PROVE  /\ \A e \in batch'[v] : event'[e].status # "absent"
                    /\ phase'[v] # "idle" => current'[v] \in batch'[v]
  BY DEF HandInv
<1>1. \A e \in batch[v] : event'[e].status # "absent"
  BY <1>0, RowStep DEF HandInv
<1>2. phase[v] # "idle" => current[v] \in batch[v]
  BY DEF HandInv
<1>3. CASE UNCHANGED delivery
  BY <1>1, <1>2, <1>3 DEF delivery
<1>4. ASSUME NEW w \in Workers, ClaimPending(w)
      PROVE  /\ \A e \in batch'[v] : event'[e].status # "absent"
             /\ phase'[v] # "idle" => current'[v] \in batch'[v]
  <2>1. PICK E \in SUBSET {e \in Events : Claimable(event[e])} :
          /\ event' = [e \in Events |-> IF e \in E THEN Claimed(event[e], w) ELSE event[e]]
          /\ batch' = [batch EXCEPT ![w] = E]
    BY <1>4 DEF ClaimPending
  <2>2. \A e \in E : event'[e].status # "absent"
    <3>1. ASSUME NEW e \in E
          PROVE  event'[e].status # "absent"
      <4>1. e \in Events /\ Claimable(event[e]) /\ event[e] \in Row /\ RowInv(event[e])
        BY <1>0 DEF RowsInv
      <4>2. event'[e] = Claimed(event[e], w)
        BY <2>1, <4>1
      <4>3. QED
        BY <4>1, <4>2, ClaimedRow
    <3>2. QED
      BY <3>1
  <2>3. batch[w] = {} /\ UNCHANGED <<phase, current>>
    BY <1>4 DEF ClaimPending
  <2>4. QED
    BY <1>0, <1>1, <1>2, <2>1, <2>2, <2>3
<1>5. ASSUME NEW w \in Workers, Progress(w) \/ WorkerCrashes(w)
      PROVE  /\ batch'[v] \subseteq batch[v]
             /\ phase'[v] # "idle" => current'[v] \in batch'[v]
  <2>1. CASE TakeNext(w)
    BY <1>0, <1>2, <2>1 DEF TakeNext, Goto
  <2>2. CASE UpsertTenant(w) \/ FindMemory(w) \/ WriteMemory(w)
             \/ RecordRetrievalUsage(w) \/ HandlerRaises(w)
    BY <1>0, <1>2, <2>2 DEF UpsertTenant, FindMemory, WriteMemory,
       RecordRetrievalUsage, HandlerRaises, Goto
  <2>3. CASE MarkCompleted(w) \/ MarkFailed(w)
    BY <1>0, <1>2, <2>3 DEF MarkCompleted, MarkFailed, Marked, Goto
  <2>4. CASE WorkerCrashes(w)
    BY <1>0, <1>2, <2>4 DEF WorkerCrashes, Goto
  <2>5. QED
    BY <1>5, <2>1, <2>2, <2>3, <2>4 DEF Progress
<1>6. QED
  BY <1>1, <1>3, <1>4, <1>5, OthersKeepDelivery DEF WorkerStep

\* Only the upserts take the lock, only the commit or a rollback gives it back.
LEMMA LockStep ==
  ASSUME TypeOK, HandInv, LockInv, [Next]_vars
  PROVE  LockInv'
<1>0. /\ batch \in [Workers -> SUBSET Events] /\ phase \in [Workers -> Phase]
      /\ current \in [Workers -> Events \cup {NoEvent}]
  BY DEF TypeOK
<1>1. CASE UNCHANGED delivery
  BY <1>1 DEF delivery, LockInv
<1>2. ASSUME NEW w \in Workers, WorkerStep(w)
      PROVE  LockInv'
  <2>1. CASE ClaimPending(w)
    BY <2>1 DEF ClaimPending, LockInv
  <2>2. CASE TakeNext(w)
    BY <1>0, <2>2 DEF TakeNext, Goto, LockInv
  <2>3. CASE UpsertTenant(w)
    BY <1>0, <2>3, WorkersAssumption DEF UpsertTenant, Goto, LockInv
  <2>4. CASE FindMemory(w)
    BY <1>0, <2>4 DEF FindMemory, Goto, LockInv
  <2>5. CASE WriteMemory(w)
    BY <1>0, <2>5 DEF WriteMemory, Goto, LockInv
  <2>6. CASE RecordRetrievalUsage(w)
    BY <1>0, <2>6 DEF RecordRetrievalUsage, Goto, LockInv
  <2>7. CASE HandlerRaises(w)
    BY <1>0, <2>7 DEF HandlerRaises, LockReleasedBy, Goto, LockInv
  <2>8. CASE MarkCompleted(w) \/ MarkFailed(w)
    BY <1>0, <2>8 DEF MarkCompleted, MarkFailed, Marked, Goto, LockInv
  <2>9. CASE WorkerCrashes(w)
    BY <1>0, <2>9 DEF WorkerCrashes, LockReleasedBy, Goto, LockInv
  <2>10. QED
    BY <1>2, <2>1, <2>2, <2>3, <2>4, <2>5, <2>6, <2>7, <2>8, <2>9
       DEF WorkerStep, Progress
<1>3. QED
  BY <1>1, <1>2, OthersKeepDelivery

-----------------------------------------------------------------------------
(* Memories.                                                                *)

\* Where completed and new events come from: a worker completes only what it
\* applied, a retrieval enqueues usage of memories it found.
LEMMA EventOrigin ==
  ASSUME TypeOK, RowsInv, HandInv, [Next]_vars, NEW e \in Events
  PROVE  /\ event'[e].status = "completed" =>
              \/ event[e].status = "completed"
              \/ \E w \in Workers : phase[w] = "applied" /\ current[w] = e
         /\ event[e].status = "absent" /\ event'[e].status # "absent" =>
              e \in WriteEvents \/ memory[e.source] > 0
<1>0. event \in [Events -> Row] /\ event[e] \in Row /\ RowInv(event[e])
  BY DEF TypeOK, RowsInv
<1> DEFINE Origin ==
      /\ event'[e].status = "completed" =>
           \/ event[e].status = "completed"
           \/ \E w \in Workers : phase[w] = "applied" /\ current[w] = e
      /\ event[e].status = "absent" /\ event'[e].status # "absent" =>
           e \in WriteEvents \/ memory[e.source] > 0
<1>1. CASE event'[e] = event[e]
  BY <1>1
<1>2. ASSUME NEW s \in Sources, EnqueueMemoryWrite(s)
      PROVE  Origin
  <2>1. event'[e] = event[e] \/ (e = WriteEvent(s) /\ event'[e] = PendingRow(0))
    BY <1>2 DEF EnqueueMemoryWrite, Enqueued
  <2>2. QED
    BY <1>1, <2>1, NewRows, EventKinds
<1>3. ASSUME NEW r \in Runs, Retrieve(r)
      PROVE  Origin
  <2>1. retrievals'[r] \in Nat
    BY <1>3 DEF Retrieve, TypeOK
  <2>2. PICK cited \in SUBSET {s \in Sources : memory[s] > 0} :
          LET E == {UsageEvent(s, r) : s \in cited} IN
          IF \A d \in E : Accepts(d, retrievals'[r])
          THEN /\ event' = Enqueued(E, retrievals'[r])
               /\ UNCHANGED refused
          ELSE /\ refused' = refused \cup {r}
               /\ UNCHANGED event
    BY <1>3, Zenon DEF Retrieve
  <2>3. \/ event'[e] = event[e]
        \/ (e \in {UsageEvent(s, r) : s \in cited} /\ event'[e] = PendingRow(retrievals'[r]))
    BY <2>2 DEF Enqueued
  <2>4. ASSUME e \in {UsageEvent(s, r) : s \in cited}
        PROVE  memory[e.source] > 0
    BY <2>4, EventKinds
  <2>5. QED
    BY <1>1, <2>1, <2>3, <2>4, NewRows
<1>4. ASSUME NEW w \in Workers, WorkerStep(w)
      PROVE  Origin
  <2>1. CASE ClaimPending(w)
    <3>1. event'[e] = event[e]
            \/ (event'[e] = Claimed(event[e], w) /\ Claimable(event[e]))
      BY <1>0, <2>1 DEF ClaimPending
    <3>2. QED
      BY <1>0, <1>1, <3>1, ClaimedRow
  <2>2. CASE MarkCompleted(w)
    <3>1. phase[w] = "applied" /\ Marked(w, Completed(event[current[w]]))
      BY <2>2 DEF MarkCompleted
    <3>2. /\ event' = [event EXCEPT ![current[w]] = Completed(event[current[w]])]
          /\ event[current[w]].status # "absent"
      BY <3>1, OutcomeWritten
    <3>3. QED
      BY <1>0, <1>1, <3>1, <3>2
  <2>3. CASE MarkFailed(w)
    <3>1. phase[w] # "idle" /\ Marked(w, AttemptFailed(event[current[w]]))
      BY <2>3 DEF MarkFailed
    <3>2. /\ event' = [event EXCEPT ![current[w]] = AttemptFailed(event[current[w]])]
          /\ event[current[w]].status # "absent"
      BY <3>1, OutcomeWritten
    <3>3. QED
      BY <1>0, <1>1, <3>2, FailedRow
  <2>4. CASE UNCHANGED event
    BY <1>1, <2>4
  <2>5. QED
    BY <1>4, <2>1, <2>2, <2>3, <2>4 DEF WorkerStep, Progress, TakeNext,
       UpsertTenant, FindMemory, WriteMemory, RecordRetrievalUsage,
       HandlerRaises, WorkerCrashes
<1>5. ASSUME NEW d \in Events, EventStep(d)
      PROVE  Origin
  <2>1. \/ event'[e] = event[e]
        \/ event'[e] = Retried(event[e]) /\ event[e].status = "failed"
        \/ event'[e] = [event[e] EXCEPT !.due = TRUE]
        \/ (event'[e] = [event[e] EXCEPT !.lease = "expired"]
            /\ event[e].lease = "live")
    BY <1>0, <1>5 DEF EventStep, RetryFailed, DelayElapses, LeaseElapses
  <2>2. QED
    BY <1>0, <1>1, <2>1, RetriedRow, ElapsedRows
<1>6. CASE UNCHANGED vars
  BY <1>1, <1>6 DEF vars
<1>7. QED
  BY <1>2, <1>3, <1>4, <1>5, <1>6 DEF Next

\* Memories are inserted once, by whoever holds the lock, and never deleted.
LEMMA MemoryGrows ==
  ASSUME TypeOK, HandInv, MemoryInv, [Next]_vars, NEW s \in Sources
  PROVE  /\ memory'[s] \in {0, 1}
         /\ memory[s] = 1 => memory'[s] = 1
         /\ memory'[s] # memory[s] =>
              \E w \in Workers : phase[w] = "insert" /\ WriteMemory(w)
<1>1. memory[s] \in {0, 1} /\ memory \in [Sources -> Nat]
  BY DEF MemoryInv, TypeOK
<1>2. CASE UNCHANGED memory
  BY <1>1, <1>2
<1>3. ASSUME NEW w \in Workers, WriteMemory(w)
      PROVE  /\ memory'[s] \in {0, 1}
             /\ memory[s] = 1 => memory'[s] = 1
             /\ memory'[s] # memory[s] => phase[w] = "insert"
  <2>1. phase[w] = "insert" => memory[SourceOf(w)] = 0
    BY DEF MemoryInv
  <2>2. memory' = IF phase[w] = "insert"
                  THEN [memory EXCEPT ![SourceOf(w)] = @ + 1] ELSE memory
    BY <1>3 DEF WriteMemory
  <2>3. QED
    BY <1>1, <2>1, <2>2
<1>4. UNCHANGED memory \/ \E w \in Workers : WriteMemory(w)
  BY DEF Next, vars, EventStep, RetryFailed, DelayElapses, LeaseElapses,
         EnqueueMemoryWrite, Retrieve, WorkerStep, ClaimPending, Progress,
         TakeNext, UpsertTenant, FindMemory, RecordRetrievalUsage,
         HandlerRaises, WorkerCrashes, MarkCompleted, MarkFailed, Marked
<1>5. QED
  BY <1>2, <1>3, <1>4

\* What the workers between search and commit, or past it, know stays true.
LEMMA MemoryStep ==
  ASSUME TypeOK, TypeOK', RowsInv, HandInv, LockInv, MemoryInv, [Next]_vars
  PROVE  MemoryInv'
<1>0. /\ phase \in [Workers -> Phase] /\ memory \in [Sources -> Nat]
      /\ current \in [Workers -> Events \cup {NoEvent}]
      /\ event \in [Events -> Row]
  BY DEF TypeOK
<1>1. \A s \in Sources : /\ memory'[s] \in {0, 1}
                         /\ memory[s] = 1 => memory'[s] = 1
  BY MemoryGrows
<1>2. \A v \in Workers : phase[v] # "idle" => SourceOf(v) \in Sources
  BY EventKinds DEF HandInv, SourceOf, TypeOK
<1>3. ASSUME NEW v \in Workers
      PROVE  /\ phase'[v] = "insert" => memory'[SourceOf(v)'] = 0
             /\ phase'[v] = "update" => memory'[SourceOf(v)'] = 1
             /\ phase'[v] = "applied" /\ current'[v] \in WriteEvents
                  => memory'[SourceOf(v)'] = 1
  <2> DEFINE Known ==
        /\ phase'[v] = "insert" => memory'[SourceOf(v)'] = 0
        /\ phase'[v] = "update" => memory'[SourceOf(v)'] = 1
        /\ phase'[v] = "applied" /\ current'[v] \in WriteEvents
             => memory'[SourceOf(v)'] = 1
  <2>1. /\ phase[v] = "insert" => memory[SourceOf(v)] = 0
        /\ phase[v] = "update" => memory[SourceOf(v)] = 1
        /\ phase[v] = "applied" /\ current[v] \in WriteEvents
             => memory[SourceOf(v)] = 1
    BY DEF MemoryInv
  <2>2. ASSUME NEW w \in Workers, WriteMemory(w)
        PROVE  Known
    <3>1. CASE v = w
      <4>1. phase'[v] = "applied" /\ SourceOf(v)' = SourceOf(v)
        BY <1>0, <2>2, <3>1 DEF WriteMemory, Goto, SourceOf
      <4>2. memory'[SourceOf(v)] = 1
        BY <1>0, <1>2, <2>1, <2>2, <3>1 DEF WriteMemory
      <4>3. QED
        BY <4>1, <4>2
    <3>2. CASE v # w
      <4>1. phase'[v] = phase[v] /\ UNCHANGED current
        BY <1>0, <2>2, <3>2 DEF WriteMemory, Goto
      <4>2. phase[v] # "insert"
        BY <2>2, <3>2 DEF LockInv, WriteMemory
      <4>3. QED
        BY <1>1, <1>2, <2>1, <4>1, <4>2 DEF SourceOf
    <3>3. QED
      BY <3>1, <3>2
  <2>3. CASE \A w \in Workers : ~WriteMemory(w)
    <3>1. memory'[SourceOf(v)] = memory[SourceOf(v)] \/ phase[v] = "idle"
      BY <1>2, <2>3, MemoryGrows
    <3>2. CASE UNCHANGED delivery
      BY <1>2, <2>1, <3>1, <3>2 DEF delivery, SourceOf
    <3>3. ASSUME NEW w \in Workers, WorkerStep(w)
          PROVE  Known
      <4>1. CASE /\ phase'[v] = phase[v] /\ current'[v] = current[v]
        BY <1>2, <2>1, <3>1, <4>1 DEF SourceOf
      <4>2. CASE ClaimPending(w)
        BY <4>1, <4>2 DEF ClaimPending
      <4>3. CASE TakeNext(w) \/ UpsertTenant(w) \/ HandlerRaises(w)
                 \/ MarkCompleted(w) \/ MarkFailed(w) \/ WorkerCrashes(w)
        <5>1. v = w => phase'[v] \in {"idle", "handle", "locked", "raised"}
          BY <1>0, <4>3 DEF TakeNext, UpsertTenant, HandlerRaises, MarkCompleted,
             MarkFailed, Marked, WorkerCrashes, Goto
        <5>2. v # w => phase'[v] = phase[v] /\ current'[v] = current[v]
          BY <1>0, <4>3 DEF TakeNext, UpsertTenant, HandlerRaises, MarkCompleted,
             MarkFailed, Marked, WorkerCrashes, Goto
        <5>3. QED
          BY <4>1, <5>1, <5>2
      <4>4. CASE FindMemory(w)
        <5>1. UNCHANGED <<memory, current>>
          BY <4>4 DEF FindMemory
        <5>2. CASE v = w
          BY <1>0, <4>4, <5>1, <5>2 DEF FindMemory, Goto, SourceOf
        <5>3. CASE v # w
          BY <1>0, <4>1, <4>4, <5>1, <5>3 DEF FindMemory, Goto
        <5>4. QED
          BY <5>2, <5>3
      <4>5. CASE RecordRetrievalUsage(w)
        <5>1. UNCHANGED current
          BY <4>5 DEF RecordRetrievalUsage
        <5>2. CASE v = w
          BY <1>0, <4>5, <5>1, <5>2, EventKinds DEF RecordRetrievalUsage, Goto
        <5>3. CASE v # w
          BY <1>0, <4>1, <4>5, <5>1, <5>3 DEF RecordRetrievalUsage, Goto
        <5>4. QED
          BY <5>2, <5>3
      <4>6. QED
        BY <2>3, <3>3, <4>2, <4>3, <4>4, <4>5 DEF WorkerStep, Progress
    <3>4. QED
      BY <3>2, <3>3, OthersKeepDelivery
  <2>4. QED
    BY <2>2, <2>3
<1>4. ASSUME NEW s \in Sources, event'[WriteEvent(s)].status = "completed"
      PROVE  memory'[s] = 1
  <2>1. WriteEvent(s) \in Events /\ WriteEvent(s) \in WriteEvents
        /\ WriteEvent(s).source = s
    BY EventKinds DEF Events
  <2>2. CASE event[WriteEvent(s)].status = "completed"
    BY <1>1, <2>2 DEF MemoryInv
  <2>3. CASE \E w \in Workers : phase[w] = "applied" /\ current[w] = WriteEvent(s)
    <3>1. memory[s] = 1
      BY <2>1, <2>3 DEF MemoryInv, SourceOf
    <3>2. QED
      BY <1>1, <3>1
  <2>4. QED
    BY <1>4, <2>1, <2>2, <2>3, EventOrigin
<1>5. ASSUME NEW e \in UsageEvents, event'[e].status # "absent"
      PROVE  memory'[e.source] = 1
  <2>1. e \in Events /\ e \notin WriteEvents /\ e.source \in Sources
    BY EventKinds DEF Events
  <2>2. CASE event[e].status # "absent"
    BY <1>1, <2>1, <2>2 DEF MemoryInv
  <2>3. CASE event[e].status = "absent"
    <3>1. memory[e.source] > 0
      BY <1>5, <2>1, <2>3, EventOrigin
    <3>2. memory[e.source] = 1
      BY <2>1, <3>1 DEF MemoryInv
    <3>3. QED
      BY <1>1, <2>1, <3>2
  <2>4. QED
    BY <2>2, <2>3
<1>6. QED
  BY <1>1, <1>3, <1>4, <1>5 DEF MemoryInv

-----------------------------------------------------------------------------
(* Usage counts.                                                            *)

\* A step that counts nothing delivers nothing new.
LEMMA DeliveredOnlyByCounting ==
  ASSUME TypeOK, RowsInv, HandInv, LockInv, [Next]_vars,
         NEW s \in Sources, NEW e \in Delivered(s)', e \notin Delivered(s)
  PROVE  \E w \in Workers : RecordRetrievalUsage(w) /\ current[w] = e
<1>0. /\ phase \in [Workers -> Phase]
      /\ current \in [Workers -> Events \cup {NoEvent}]
  BY DEF TypeOK
<1>1. /\ e \in UsageEvents /\ e.source = s /\ e \in Events
      /\ \/ event'[e].status = "completed"
         \/ \E w \in Workers : phase'[w] = "applied" /\ current'[w] = e
  BY DEF Delivered, Events
<1>2. event[e].status # "completed"
      /\ \A w \in Workers : ~(phase[w] = "applied" /\ current[w] = e)
  BY <1>1 DEF Delivered
<1>3. event'[e].status # "completed"
  BY <1>1, <1>2, EventOrigin
<1>4. PICK v \in Workers : phase'[v] = "applied" /\ current'[v] = e
  BY <1>1, <1>3
<1>5. CASE UNCHANGED delivery
  BY <1>2, <1>4, <1>5 DEF delivery
<1>6. ASSUME NEW w \in Workers, WorkerStep(w)
      PROVE  RecordRetrievalUsage(w) /\ current[w] = e
  <2>1. CASE WriteMemory(w)
    <3>1. phase[w] \in {"insert", "update"}
      BY <2>1 DEF WriteMemory
    <3>2. current[w] # e
      BY <1>1, <3>1, EventKinds DEF LockInv
    <3>3. QED
      BY <1>0, <1>2, <1>4, <2>1, <3>2 DEF WriteMemory, Goto
  <2>2. CASE RecordRetrievalUsage(w)
    BY <1>0, <1>2, <1>4, <2>2 DEF RecordRetrievalUsage, Goto
  <2>3. CASE ClaimPending(w)
    BY <1>2, <1>4, <2>3 DEF ClaimPending
  <2>4. CASE TakeNext(w) \/ UpsertTenant(w) \/ FindMemory(w) \/ HandlerRaises(w)
             \/ MarkCompleted(w) \/ MarkFailed(w) \/ WorkerCrashes(w)
    BY <1>0, <1>2, <1>4, <2>4 DEF TakeNext, UpsertTenant, FindMemory, HandlerRaises,
       MarkCompleted, MarkFailed, Marked, WorkerCrashes, Goto
  <2>5. QED
    BY <1>6, <2>1, <2>2, <2>3, <2>4 DEF WorkerStep, Progress
<1>7. QED
  BY <1>5, <1>6, OthersKeepDelivery

\* Counting delivers one event and counts one use, for the memory is there.
LEMMA CountingCounts ==
  ASSUME TypeOK, HandInv, MemoryInv, NEW w \in Workers, RecordRetrievalUsage(w)
  PROVE  /\ SourceOf(w) \in Sources
         /\ usage' = [usage EXCEPT ![SourceOf(w)] = @ + 1]
         /\ \A v \in Workers : RecordRetrievalUsage(v) => v = w
<1>0. /\ phase \in [Workers -> Phase] /\ usage \in [Sources -> Nat]
      /\ batch \in [Workers -> SUBSET Events]
  BY DEF TypeOK
<1>1. /\ current[w] \in UsageEvents /\ current[w] \in batch[w]
      /\ phase[w] = "handle"
  BY DEF RecordRetrievalUsage, HandInv
<1>2. SourceOf(w) \in Sources /\ memory[SourceOf(w)] = 1
  BY <1>0, <1>1, EventKinds DEF HandInv, MemoryInv, SourceOf, Events
<1>3. usage' = [usage EXCEPT ![SourceOf(w)] = @ + 1]
  BY <1>2 DEF RecordRetrievalUsage
<1>4. ASSUME NEW v \in Workers, RecordRetrievalUsage(v), v # w
      PROVE  FALSE
  BY <1>0, <1>1, <1>4 DEF RecordRetrievalUsage, Goto
<1>5. QED
  BY <1>2, <1>3, <1>4

\* Counts keep up with deliveries.
LEMMA UsageStep ==
  ASSUME TypeOK, RowsInv, HandInv, LockInv, MemoryInv, UsageInv, [Next]_vars
  PROVE  UsageInv'
<1> SUFFICES ASSUME NEW s \in Sources
             PROVE  /\ IsFiniteSet(Delivered(s)')
                    /\ Cardinality(Delivered(s)') <= usage'[s]
  BY DEF UsageInv
<1>1. /\ usage \in [Sources -> Nat]
      /\ IsFiniteSet(Delivered(s)) /\ Cardinality(Delivered(s)) <= usage[s]
  BY DEF TypeOK, UsageInv
<1>2. Cardinality(Delivered(s)) \in Nat
  BY <1>1, FS_CardinalityType
<1>3. usage'[s] \in Nat /\ usage[s] <= usage'[s]
  <2>1. CASE UNCHANGED usage
    BY <1>1, <2>1
  <2>2. ASSUME NEW w \in Workers, RecordRetrievalUsage(w)
        PROVE  usage'[s] \in Nat /\ usage[s] <= usage'[s]
    BY <1>1, <2>2, CountingCounts
  <2>3. UNCHANGED usage \/ \E w \in Workers : RecordRetrievalUsage(w)
    BY DEF Next, vars, EventStep, RetryFailed, DelayElapses, LeaseElapses,
       EnqueueMemoryWrite, Retrieve, WorkerStep, ClaimPending, Progress,
       TakeNext, UpsertTenant, FindMemory, WriteMemory, HandlerRaises,
       WorkerCrashes, MarkCompleted, MarkFailed, Marked
  <2>4. QED
    BY <2>1, <2>2, <2>3
<1>4. CASE Delivered(s)' \subseteq Delivered(s)
  <2>1. /\ IsFiniteSet(Delivered(s)')
        /\ Cardinality(Delivered(s)') <= Cardinality(Delivered(s))
    BY <1>1, <1>4, FS_Subset
  <2>2. Cardinality(Delivered(s)') \in Nat
    BY <2>1, FS_CardinalityType
  <2>3. QED
    BY <1>1, <1>2, <1>3, <2>1, <2>2
<1>5. CASE ~(Delivered(s)' \subseteq Delivered(s))
  <2>1. PICK e \in Delivered(s)' : e \notin Delivered(s)
    BY <1>5
  <2>2. PICK w \in Workers : RecordRetrievalUsage(w) /\ current[w] = e
    BY <2>1, DeliveredOnlyByCounting
  <2>3. Delivered(s)' \subseteq Delivered(s) \cup {e}
    BY <2>2, DeliveredOnlyByCounting, CountingCounts
  <2>4. /\ IsFiniteSet(Delivered(s) \cup {e})
        /\ Cardinality(Delivered(s) \cup {e}) = Cardinality(Delivered(s)) + 1
    BY <1>1, <2>1, FS_AddElement
  <2>5. /\ IsFiniteSet(Delivered(s)')
        /\ Cardinality(Delivered(s)') <= Cardinality(Delivered(s)) + 1
    BY <2>3, <2>4, FS_Subset
  <2>6. Cardinality(Delivered(s)') \in Nat
    BY <2>5, FS_CardinalityType
  <2>7. e.source = s
    BY <2>1 DEF Delivered
  <2>8. usage'[s] = usage[s] + 1
    BY <1>1, <2>2, <2>7, CountingCounts DEF SourceOf
  <2>9. QED
    BY <1>1, <1>2, <2>5, <2>6, <2>8
<1>6. QED
  BY <1>4, <1>5

-----------------------------------------------------------------------------
(* The theorems.                                                            *)

\* Nothing is enqueued, claimed or written at first.
LEMMA InitInductive == Init => IInv
<1> SUFFICES ASSUME Init PROVE IInv
  OBVIOUS
<1>1. TypeOK /\ RowsInv
  BY InitTyped
<1>2. HandInv /\ LockInv
  BY DEF Init, HandInv, LockInv
<1>3. \A e \in Events : event[e].status = "absent"
  BY NewRows DEF Init
<1>4. MemoryInv
  BY <1>3, EventKinds DEF Init, MemoryInv, Events
<1>5. \A s \in Sources : Delivered(s) = {}
  BY <1>3 DEF Init, Delivered, Events
<1>6. UsageInv
  <2>1. IsFiniteSet({}) /\ Cardinality({}) = 0
    BY FS_EmptySet
  <2>2. \A s \in Sources : usage[s] = 0
    BY DEF Init
  <2>3. QED
    BY <1>5, <2>1, <2>2 DEF UsageInv
<1>7. QED
  BY <1>1, <1>2, <1>4, <1>6 DEF IInv

\* Each part of the invariant is kept by every step.
LEMMA StepInductive == IInv /\ [Next]_vars => IInv'
<1> SUFFICES ASSUME IInv, [Next]_vars PROVE IInv'
  OBVIOUS
<1>1. TypeOK /\ RowsInv /\ HandInv /\ LockInv /\ MemoryInv /\ UsageInv
  BY DEF IInv
<1>2. TypeOK'
  BY <1>1, TypeStep
<1>3. RowsInv'
  BY <1>1, RowStep DEF RowsInv
<1>4. HandInv' /\ LockInv'
  BY <1>1, HandStep, LockStep
<1>5. MemoryInv' /\ UsageInv'
  BY <1>1, <1>2, MemoryStep, UsageStep
<1>6. QED
  BY <1>2, <1>3, <1>4, <1>5 DEF IInv

\* The inductive invariant holds in every reachable state.
THEOREM OutboxInvariant == Spec => []IInv
<1>1. QED
  BY InitInductive, StepInductive, PTL DEF Spec

\* Every row, batch, lock and counter of the outbox keeps its type.
THEOREM OutboxTypeCorrect == Spec => []TypeOK
<1>1. IInv => TypeOK
  BY DEF IInv
<1>2. QED
  BY <1>1, OutboxInvariant, PTL

\* However many workers apply a write event, and however often, its memory is
\* one row of advertiser_memories.
THEOREM WritesAreIdempotent == Spec => []OneMemoryPerSource
<1>1. IInv => OneMemoryPerSource
  BY DEF IInv, MemoryInv, OneMemoryPerSource
<1>2. QED
  BY <1>1, OutboxInvariant, PTL

\* A write event that is marked completed has written its memory.
THEOREM CompletionIsHonest == Spec => []CompletedMeansApplied
<1>1. IInv => CompletedMeansApplied
  BY DEF IInv, MemoryInv, CompletedMeansApplied
<1>2. QED
  BY <1>1, OutboxInvariant, PTL

\* The usage count of a memory is at least the number of its completed usage
\* events: none is lost.
THEOREM NoUsageIsLost == Spec => []UsageAtLeastOnce
<1>1. IInv => UsageAtLeastOnce
  <2> SUFFICES ASSUME IInv, NEW s \in Sources
               PROVE  Cardinality({e \in UsageEvents : e.source = s
                                    /\ event[e].status = "completed"}) <= usage[s]
    BY DEF UsageAtLeastOnce
  <2> DEFINE Counted == {e \in UsageEvents : e.source = s
                                    /\ event[e].status = "completed"}
  <2>1. Counted \subseteq Delivered(s)
    BY DEF Delivered
  <2>2. /\ IsFiniteSet(Delivered(s)) /\ Cardinality(Delivered(s)) <= usage[s]
        /\ usage[s] \in Nat
    BY DEF IInv, UsageInv, TypeOK
  <2> HIDE DEF Counted
  <2>3. IsFiniteSet(Counted) /\ Cardinality(Counted) <= Cardinality(Delivered(s))
    BY <2>1, <2>2, FS_Subset
  <2>4. Cardinality(Counted) \in Nat /\ Cardinality(Delivered(s)) \in Nat
    BY <2>2, <2>3, FS_CardinalityType
  <2>5. Cardinality(Counted) <= usage[s]
    BY <2>2, <2>3, <2>4
  <2>6. QED
    BY <2>5 DEF Counted
<1>2. QED
  BY <1>1, OutboxInvariant, PTL

\* Pending events keep an attempt and only exhausted ones fail, with any
\* number of late outcomes.
THEOREM RowsKeepTheirAttempts == Spec => []AttemptsDecide
<1>1. IInv => AttemptsDecide
  BY DEF IInv, RowsInv, RowInv, AttemptsDecide
<1>2. QED
  BY <1>1, OutboxInvariant, PTL

\* Lease, owner, completion time and error always agree with the status.
THEOREM RowsAreConsistent == Spec => []EventRowConsistent
<1>1. IInv => EventRowConsistent
  BY DEF IInv, RowsInv, RowInv, EventRowConsistent
<1>2. QED
  BY <1>1, OutboxInvariant, PTL

-----------------------------------------------------------------------------
(* What EventSettles stands on: no event is out of every hand's reach, none *)
(* is claimed more often than its budget allows, and no worker waits for a  *)
(* lock that nobody will release.                                           *)

\* An event that is not over is one that claim_pending takes, or will take when
\* its delay or its lease is over, or it is in somebody's batch, or orphaned:
\* late outcomes, which look neither at the status nor at the claim, leave no
\* other event behind.
NoEventIsStuck ==
  \A e \in Events : event[e].status \in {"pending", "processing"} =>
    \/ Claimable(event[e]) \/ ~event[e].due \/ event[e].lease = "live"
    \/ (\E w \in Workers : e \in batch[w]) \/ Orphaned(e)

\* claim_pending and its lease reach every event that is not over, except those
\* whose worker died on the last attempt.
THEOREM UnfinishedEventsAreReachable == Spec => []NoEventIsStuck
<1>1. IInv => NoEventIsStuck
  <2> SUFFICES ASSUME IInv, NEW e \in Events,
                      event[e].status \in {"pending", "processing"}
               PROVE  \/ Claimable(event[e]) \/ ~event[e].due
                      \/ event[e].lease = "live"
                      \/ (\E w \in Workers : e \in batch[w]) \/ Orphaned(e)
    BY DEF NoEventIsStuck
  <2>1. RowInv(event[e]) /\ event[e].lease \in {"none", "live", "expired"}
    BY DEF IInv, RowsInv, TypeOK, Row
  <2>2. CASE event[e].status = "pending"
    BY <2>1, <2>2 DEF RowInv, Claimable
  <2>3. CASE event[e].status = "processing"
    BY <2>1, <2>3 DEF RowInv, Claimable, Orphaned
  <2>4. QED
    BY <2>2, <2>3
<1>2. QED
  BY <1>1, OutboxInvariant, PTL

\* Whatever is written late, a stored event is given no attempt back, except all
\* of them by a manual retry of a failed event: with AttemptsDecide, it is claimed
\* at most Budget times between two of those.
AttemptsAreNotRefunded ==
  [][\A e \in Events :
       \/ event[e].status = "absent"
       \/ event'[e].attempts >= event[e].attempts
       \/ event[e].status = "failed" /\ event'[e].status = "pending"]_vars

\* So with one row.
LEMMA RowKeepsAttempts ==
  ASSUME NEW row \in Row, NEW w \in Workers
  PROVE  /\ Claimed(row, w).attempts >= row.attempts
         /\ Completed(row).attempts >= row.attempts
         /\ AttemptFailed(row).attempts >= row.attempts
<1>1. row.attempts \in Nat
  BY DEF Row
<1>2. Claimed(row, w).attempts = row.attempts + 1
  BY DEF Claimed, Row
<1>3. Completed(row).attempts = row.attempts
  BY DEF Completed, Row
<1>4. AttemptFailed(row).attempts = row.attempts
  BY DEF AttemptFailed, Row
<1>5. QED
  BY <1>1, <1>2, <1>3, <1>4

\* mark_completed, mark_failed and a claim keep or raise attempts, whoever calls them
\* and when.
THEOREM NoAttemptIsRefunded == Spec => AttemptsAreNotRefunded
<1> DEFINE Kept(e) == \/ event[e].status = "absent"
                      \/ event'[e].attempts >= event[e].attempts
                      \/ event[e].status = "failed" /\ event'[e].status = "pending"
<1>1. ASSUME IInv, Next, NEW e \in Events PROVE Kept(e)
  <2>0. event[e] \in Row /\ event[e].attempts \in Nat /\ event \in [Events -> Row]
    BY <1>1 DEF IInv, TypeOK, Row
  <2>1. CASE event'[e] = event[e]
    BY <2>0, <2>1
  <2>2. ASSUME NEW E, NEW p, event' = Enqueued(E, p) PROVE Kept(e)
    <3>1. event'[e] = event[e] \/ event[e].status = "absent"
      BY <1>1, <2>0, <2>2 DEF Enqueued
    <3>2. QED
      BY <2>1, <3>1
  <2>3. ASSUME NEW w \in Workers, WorkerStep(w) PROVE Kept(e)
    <3>1. CASE ClaimPending(w)
      <4>1. event'[e] = event[e] \/ event'[e] = Claimed(event[e], w)
        BY <2>0, <3>1 DEF ClaimPending
      <4>2. QED
        BY <2>0, <2>1, <4>1, RowKeepsAttempts
    <3>2. ASSUME NEW row, phase[w] # "idle", Marked(w, row),
                 row = Completed(event[current[w]]) \/ row = AttemptFailed(event[current[w]])
          PROVE  Kept(e)
      <4>1. event' = [event EXCEPT ![current[w]] = row] /\ current[w] \in Events
        BY <1>1, <3>2, OutcomeWritten DEF IInv
      <4>2. event'[e] = event[e] \/ event'[e] = Completed(event[e])
               \/ event'[e] = AttemptFailed(event[e])
        BY <2>0, <3>2, <4>1
      <4>3. QED
        BY <2>0, <2>1, <4>2, RowKeepsAttempts
    <3>3. CASE MarkCompleted(w) \/ MarkFailed(w)
      BY <3>2, <3>3 DEF MarkCompleted, MarkFailed
    <3>4. CASE UNCHANGED event
      BY <2>1, <3>4
    <3>5. QED
      BY <2>3, <3>1, <3>3, <3>4
         DEF WorkerStep, Progress, TakeNext, UpsertTenant, FindMemory, WriteMemory,
             RecordRetrievalUsage, HandlerRaises, WorkerCrashes
  <2>4. ASSUME NEW d \in Events, EventStep(d) PROVE Kept(e)
    <3>1. CASE d # e
      BY <2>0, <2>1, <2>4, <3>1 DEF EventStep, RetryFailed, DelayElapses, LeaseElapses
    <3>2. CASE d = e /\ RetryFailed(e)
      <4>1. event[e].status = "failed" /\ event'[e] = Retried(event[e])
        BY <2>0, <3>2 DEF RetryFailed
      <4>2. QED
        BY <2>0, <4>1, RetriedRow
    <3>3. CASE d = e /\ (DelayElapses(e) \/ LeaseElapses(e))
      <4>1. event'[e].attempts = event[e].attempts
        BY <2>0, <3>3 DEF DelayElapses, LeaseElapses, Row
      <4>2. QED
        BY <2>0, <4>1
    <3>4. QED
      BY <2>4, <3>1, <3>2, <3>3 DEF EventStep
  <2>5. ASSUME NEW s \in Sources, EnqueueMemoryWrite(s) PROVE Kept(e)
    BY <2>2, <2>5 DEF EnqueueMemoryWrite
  <2>6. ASSUME NEW r \in Runs, Retrieve(r) PROVE Kept(e)
    <3>1. UNCHANGED event \/ \E E : event' = Enqueued(E, retrievals'[r])
      BY <2>6, Zenon DEF Retrieve
    <3>2. QED
      BY <2>1, <2>2, <3>1
  <2>7. QED
    BY <1>1, <2>3, <2>4, <2>5, <2>6 DEF Next
<1>2. IInv /\ [Next]_vars => [\A e \in Events : Kept(e)]_vars
  BY <1>1
<1>3. QED
  BY <1>2, OutboxInvariant, PTL DEF Spec, AttemptsAreNotRefunded

\* The row lock of the upserts is held only by a worker that is between them and
\* its commit or rollback: whoever waits for it, waits for a step that can be
\* taken, and a crash leaves no lock behind.
NoLockIsLeaked ==
  tenantLock # NoWorker => phase[tenantLock] \in {"locked", "insert", "update"}

\* The upserts of record_feedback_memory and record_retrieval_usage leave no lock
\* behind.
THEOREM LocksAreReleased == Spec => []NoLockIsLeaked
<1>1. Init => NoLockIsLeaked
  BY DEF Init, NoLockIsLeaked
<1>2. ASSUME TypeOK, NoLockIsLeaked, LockInv, [Next]_vars
      PROVE  NoLockIsLeaked'
  <2> USE <1>2
  <2>0. phase \in [Workers -> Phase] /\ tenantLock \in Workers \cup {NoWorker}
    BY DEF TypeOK
  <2>1. CASE UNCHANGED <<tenantLock, phase>>
    BY <2>1 DEF NoLockIsLeaked
  <2>2. ASSUME NEW w \in Workers, NEW step, Goto(w, step), UNCHANGED tenantLock,
               \/ step \in {"locked", "insert", "update"}
               \/ phase[w] \notin {"locked", "insert", "update"}
        PROVE  NoLockIsLeaked'
    BY <2>0, <2>2 DEF Goto, NoLockIsLeaked
  <2>3. ASSUME NEW w \in Workers, NEW step, Goto(w, step),
               tenantLock' = LockReleasedBy(w)
        PROVE  NoLockIsLeaked'
    BY <2>0, <2>3 DEF Goto, LockReleasedBy, NoLockIsLeaked
  <2>4. ASSUME NEW w \in Workers, UpsertTenant(w) PROVE NoLockIsLeaked'
    BY <2>0, <2>4 DEF UpsertTenant, Goto, NoLockIsLeaked
  <2>5. ASSUME NEW w \in Workers, WriteMemory(w) PROVE NoLockIsLeaked'
    BY <2>5 DEF WriteMemory, NoLockIsLeaked
  <2>6. ASSUME NEW w \in Workers,
               TakeNext(w) \/ FindMemory(w) \/ RecordRetrievalUsage(w)
                 \/ MarkCompleted(w) \/ MarkFailed(w)
        PROVE  NoLockIsLeaked'
    BY <2>2, <2>6 DEF TakeNext, FindMemory, RecordRetrievalUsage, MarkCompleted, MarkFailed,
                      Marked
  <2>7. ASSUME NEW w \in Workers, HandlerRaises(w) \/ WorkerCrashes(w) PROVE NoLockIsLeaked'
    BY <2>3, <2>7 DEF HandlerRaises, WorkerCrashes
  <2>8. QED
    BY <2>1, <2>4, <2>5, <2>6, <2>7
       DEF Next, WorkerStep, Progress, ClaimPending, EventStep, RetryFailed, DelayElapses,
           LeaseElapses, EnqueueMemoryWrite, Retrieve, delivery, vars
<1>3. QED
  BY <1>1, <1>2, OutboxInvariant, PTL DEF Spec, IInv
=============================================================================
