------------------------- MODULE StrategyJobsProofs -------------------------
(***************************************************************************)
(* Proofs about StrategyJobs, for every set of jobs and workers, every      *)
(* budget, batch limit and execution mode: its invariants, and that it      *)
(* implements JobLifecycle.                                                 *)
(***************************************************************************)
EXTENDS StrategyJobs, TLAPS

-----------------------------------------------------------------------------
(* The store's row updates keep a row a row.                                *)

\* Membership of the names that the updates use, so that the proofs below can
\* leave the enumerations themselves folded.
LEMMA Names ==
  /\ {"queued", "running"} \cup Terminal \subseteq Status
  /\ "absent" \in Status
  /\ {"none", "retry_scheduled", "final", "cancelled"} \subseteq Error
  /\ "queued" \notin Terminal /\ "running" \notin Terminal
BY DEF Status, Terminal, Error

\* Every row that the updates of the store return has the columns' types.
LEMMA RowUpdatesTyped ==
  ASSUME NEW row \in Row
  PROVE  /\ \A o \in Workers \cup {ApiBackground} : Taken(row, o) \in Row
         /\ \A s \in Status : Released(row, s) \in Row
         /\ Completed(row) \in Row
         /\ Failed(row) \in Row
         /\ \A e \in Error, d \in {"due", "later"} : AttemptFailed(row, e, d) \in Row
         /\ \A b \in Nat : Retried(row, b) \in Row
         /\ Cancelled(row) \in Row
<1>1. ASSUME NEW o \in Workers \cup {ApiBackground}
      PROVE  Taken(row, o) \in Row
  <2>1. row.attempts + 1 \in Nat /\ "running" \in Status /\ "none" \in Error
    BY Names DEF Row
  <2>2. QED
    BY <2>1 DEF Row, Taken
<1>2. ASSUME NEW s \in Status
      PROVE  Released(row, s) \in Row
  <2>1. (s \in Terminal) \in BOOLEAN
    OBVIOUS
  <2>2. QED
    BY <2>1 DEF Row, Released
<1>3. /\ Released(row, "queued") \in Row
      /\ Released(row, "completed") \in Row
      /\ Released(row, "failed") \in Row
      /\ Released(row, "cancelled") \in Row
  BY <1>2, Names DEF Terminal
<1>4. Completed(row) \in Row /\ Failed(row) \in Row /\ Cancelled(row) \in Row
  BY <1>3, Names DEF Row, Completed, Failed, Cancelled
<1>5. \A e \in Error, d \in {"due", "later"} : AttemptFailed(row, e, d) \in Row
  BY <1>3 DEF Row, AttemptFailed
<1>6. ASSUME NEW b \in Nat
      PROVE  Retried(row, b) \in Row
  <2> DEFINE r == Released(row, "queued")
  <2>1. r \in Row /\ r.retries + 1 \in Nat
    BY <1>3 DEF Row
  <2>2. row.error \in Error /\ "none" \in Error
    BY Names DEF Row
  <2> HIDE DEF r
  <2>3. [r EXCEPT !.error = "none", !.attempts = 0, !.max = b, !.due = "due",
                  !.retries = @ + 1, !.previous = row.error] \in Row
    BY <2>1, <2>2 DEF Row
  <2>4. QED
    BY <2>3 DEF r, Retried
<1>7. QED
  BY <1>1, <1>2, <1>4, <1>5, <1>6

\* The row of a job that was not submitted, and of one just submitted.
LEMMA NewRowsTyped ==
  /\ AbsentRow \in Row
  /\ \A b \in Nat : QueuedRow(b) \in Row
BY Names DEF Row, AbsentRow, QueuedRow

-----------------------------------------------------------------------------
(* Type correctness.                                                        *)

LEMMA InitTyped == Init => TypeOK
BY NewRowsTyped DEF Init, TypeOK, NoReport, Outcome, NoJob

\* What claim_queued hands to a worker: typed snapshots, one per job.
LEMMA ClaimsTyped ==
  ASSUME TypeOK, NEW S \in SUBSET Jobs
  PROVE  Claims(S) \in SUBSET Claim
<1>1. ASSUME NEW j \in S
      PROVE  [job |-> j, attempt |-> job[j].attempts + 1, max |-> job[j].max,
              live |-> TRUE] \in Claim
  <2>1. job[j] \in Row
    BY DEF TypeOK
  <2>2. job[j].attempts + 1 \in Nat /\ job[j].max \in Nat
    BY <2>1 DEF Row
  <2>3. QED
    BY <2>2 DEF Claim
<1>2. QED
  BY <1>1 DEF Claims

\* Every step of a worker keeps the types.
LEMMA WorkerStepTyped ==
  ASSUME TypeOK, NEW w \in Workers, WorkerStep(w)
  PROVE  TypeOK'
<1>0. /\ job \in [Jobs -> Row]
      /\ batch \in [Workers -> SUBSET Claim]
      /\ probe \in [Workers -> Jobs \cup {NoJob}]
      /\ report \in [Workers -> [Jobs -> Outcome]]
      /\ task \in [Jobs -> {"none", "scheduled", "running"}]
  BY DEF TypeOK
<1>1. CASE ClaimQueued(w)
  <2>1. PICK S \in SUBSET Candidates :
          /\ job' = [j \in Jobs |-> IF j \in S THEN Taken(job[j], w) ELSE job[j]]
          /\ batch' = [batch EXCEPT ![w] = Claims(S)]
    BY <1>1 DEF ClaimQueued
  <2>2. S \in SUBSET Jobs
    BY DEF Candidates
  <2>3. job' \in [Jobs -> Row]
    BY <1>0, <2>1, RowUpdatesTyped
  <2>4. batch' \in [Workers -> SUBSET Claim]
    BY <1>0, <2>1, <2>2, ClaimsTyped
  <2>5. report' \in [Workers -> [Jobs -> Outcome]]
    BY <1>0, <1>1 DEF ClaimQueued, NoReport, Outcome
  <2>6. QED
    BY <1>0, <1>1, <2>3, <2>4, <2>5 DEF ClaimQueued, TypeOK
<1>2. ASSUME NEW c \in batch[w], OutcomeRejected(w, c.job)
      PROVE  /\ job' \in [Jobs -> Row]
             /\ probe' \in [Workers -> Jobs \cup {NoJob}]
             /\ report' \in [Workers -> [Jobs -> Outcome]]
  BY <1>0, <1>2 DEF OutcomeRejected, Claim
<1>3. CASE RunSucceeds(w)
  <2>1. PICK c \in batch[w] :
          /\ batch' = [batch EXCEPT ![w] = @ \ {c}]
          /\ CompletionRecorded(w, c.job) \/ OutcomeRejected(w, c.job)
    BY <1>3 DEF RunSucceeds
  <2>2. c.job \in Jobs
    BY <1>0 DEF Claim
  <2>3. batch' \in [Workers -> SUBSET Claim]
    BY <1>0, <2>1
  <2>4. ASSUME CompletionRecorded(w, c.job)
        PROVE  /\ job' \in [Jobs -> Row]
               /\ probe' \in [Workers -> Jobs \cup {NoJob}]
               /\ report' \in [Workers -> [Jobs -> Outcome]]
    BY <1>0, <2>2, <2>4, RowUpdatesTyped DEF CompletionRecorded, Outcome
  <2>5. QED
    BY <1>0, <1>2, <1>3, <2>1, <2>3, <2>4 DEF RunSucceeds, TypeOK
<1>4. CASE RunFails(w)
  <2>1. PICK c \in batch[w] :
          /\ batch' = [batch EXCEPT ![w] = @ \ {c}]
          /\ AttemptFailureRecorded(w, c) \/ OutcomeRejected(w, c.job)
    BY <1>4 DEF RunFails
  <2>2. c.job \in Jobs /\ AttemptError(c) \in Error
    BY <1>0, Names DEF Claim, AttemptError
  <2>3. batch' \in [Workers -> SUBSET Claim]
    BY <1>0, <2>1
  <2>4. ASSUME AttemptFailureRecorded(w, c)
        PROVE  /\ job' \in [Jobs -> Row]
               /\ probe' \in [Workers -> Jobs \cup {NoJob}]
               /\ report' \in [Workers -> [Jobs -> Outcome]]
    <3>1. PICK d \in {"due", "later"} :
            job' = [job EXCEPT ![c.job] = AttemptFailed(@, AttemptError(c), d)]
      BY <2>4 DEF AttemptFailureRecorded
    <3>2. job' \in [Jobs -> Row]
      BY <1>0, <2>2, <3>1, RowUpdatesTyped
    <3>3. report' \in [Workers -> [Jobs -> Outcome]]
      BY <1>0, <2>2, <2>4 DEF AttemptFailureRecorded, Outcome
    <3>4. QED
      BY <1>0, <2>4, <3>2, <3>3 DEF AttemptFailureRecorded
  <2>5. QED
    BY <1>0, <1>2, <1>4, <2>1, <2>3, <2>4 DEF RunFails, TypeOK
<1>5. CASE ReadJobAgain(w)
  <2>1. report' \in [Workers -> [Jobs -> Outcome]]
    BY <1>0, <1>5 DEF ReadJobAgain, Outcome
  <2>2. QED
    BY <1>0, <1>5, <2>1 DEF ReadJobAgain, TypeOK
<1>6. CASE WorkerCrashes(w)
  BY <1>0, <1>6 DEF WorkerCrashes, TypeOK, NoReport, Outcome
<1>7. CASE StaleLeaseElapses(w)
  <2>1. PICK c \in batch[w] :
          batch' = [batch EXCEPT ![w] = (@ \ {c}) \cup {[c EXCEPT !.live = FALSE]}]
    BY <1>7 DEF StaleLeaseElapses
  <2>2. [c EXCEPT !.live = FALSE] \in Claim
    <3>1. c \in Claim
      BY <1>0
    <3>2. QED
      BY <3>1 DEF Claim
  <2>3. QED
    BY <1>0, <1>7, <2>1, <2>2 DEF StaleLeaseElapses, TypeOK
<1>8. QED
  BY <1>1, <1>3, <1>4, <1>5, <1>6, <1>7 DEF WorkerStep

\* Every step about one job (operator, background task, clock) keeps the types.
LEMMA JobStepTyped ==
  ASSUME TypeOK, NEW j \in Jobs, JobStep(j)
  PROVE  TypeOK'
<1>0. /\ job \in [Jobs -> Row]
      /\ batch \in [Workers -> SUBSET Claim]
      /\ task \in [Jobs -> {"none", "scheduled", "running"}]
  BY DEF TypeOK
<1>1. job[j] \in Row
  BY <1>0
<1>2. CASE SubmitJob(j)
  <2>1. job' \in [Jobs -> Row]
    <3>1. PICK budget \in Budgets : job' = [job EXCEPT ![j] = QueuedRow(budget)]
      BY <1>2 DEF SubmitJob
    <3>2. QueuedRow(budget) \in Row
      BY NewRowsTyped, BudgetsAssumption
    <3>3. QED
      BY <1>0, <3>1, <3>2
  <2>2. QED
    BY <1>0, <1>2, <2>1 DEF SubmitJob, TypeOK
<1>3. CASE BackgroundStarts(j)
  <2>1. Taken(job[j], ApiBackground) \in Row
    BY <1>1, RowUpdatesTyped
  <2>2. job' \in [Jobs -> Row]
    BY <1>0, <1>3, <2>1 DEF BackgroundStarts
  <2>3. QED
    BY <1>0, <1>3, <2>2 DEF BackgroundStarts, TypeOK
<1>4. CASE BackgroundFinishes(j)
  <2>1. job' \in [Jobs -> Row]
    BY <1>0, <1>4, RowUpdatesTyped DEF BackgroundFinishes
  <2>2. QED
    BY <1>0, <1>4, <2>1 DEF BackgroundFinishes, TypeOK
<1>5. CASE BackgroundLost(j)
  BY <1>0, <1>5 DEF BackgroundLost, TypeOK
<1>6. CASE RetryFailed(j)
  <2>1. job' \in [Jobs -> Row]
    BY <1>0, <1>6, RowUpdatesTyped, BudgetsAssumption DEF RetryFailed
  <2>2. QED
    BY <1>6, <2>1 DEF RetryFailed, TypeOK
<1>7. CASE CancelJob(j)
  <2>1. job' \in [Jobs -> Row]
    BY <1>0, <1>7, RowUpdatesTyped DEF CancelJob
  <2>2. QED
    BY <1>7, <2>1 DEF CancelJob, TypeOK
<1>8. CASE BackoffElapses(j)
  <2>1. [job[j] EXCEPT !.due = "due"] \in Row
    BY <1>1 DEF Row
  <2>2. job' \in [Jobs -> Row]
    BY <1>0, <1>8, <2>1 DEF BackoffElapses
  <2>3. QED
    BY <1>8, <2>2 DEF BackoffElapses, TypeOK
<1>9. CASE LeaseElapses(j)
  <2>1. [job[j] EXCEPT !.lease = "expired"] \in Row
    BY <1>1 DEF Row
  <2>2. job' \in [Jobs -> Row]
    BY <1>0, <1>9, <2>1 DEF LeaseElapses
  <2>3. \A c \in Claim : [c EXCEPT !.live = FALSE] \in Claim
    BY DEF Claim
  <2>4. batch' \in [Workers -> SUBSET Claim]
    BY <1>0, <1>9, <2>3 DEF LeaseElapses
  <2>5. QED
    BY <1>9, <2>2, <2>4 DEF LeaseElapses, TypeOK
<1>10. QED
  BY <1>2, <1>3, <1>4, <1>5, <1>6, <1>7, <1>8, <1>9 DEF JobStep

\* Every step keeps the types.
LEMMA NextTyped == TypeOK /\ [Next]_vars => TypeOK'
<1>1. CASE UNCHANGED vars
  BY <1>1 DEF vars, TypeOK
<1>2. QED
  BY <1>1, WorkerStepTyped, JobStepTyped DEF Next

\* Rows, claims, reports and tasks keep their types for ever.
THEOREM TypeCorrect == Spec => []TypeOK
<1>1. QED
  BY InitTyped, NextTyped, PTL DEF Spec

-----------------------------------------------------------------------------
(* What a step may do to one row.                                           *)

\* The row updates of the store with the conditions it puts on them.
PlainChange(row, new) ==
  \/ new = row
  \/ row.status = "absent" /\ \E b \in Budgets : new = QueuedRow(b)
  \/ /\ Claimable(row) \/ row.status = "queued"
     /\ \E o \in Workers \cup {ApiBackground} : new = Taken(row, o)
  \/ row.status = "running" /\ new = Completed(row)
  \/ row.status = "running" /\ ExecutionMode = "background" /\ new = Failed(row)
  \/ row.status = "failed" /\ \E b \in Budgets : new = Retried(row, b)
  \/ row.status \in {"queued", "running"} /\ new = Cancelled(row)
  \/ row.due = "later" /\ new = [row EXCEPT !.due = "due"]
  \/ row.lease = "live" /\ new = [row EXCEPT !.lease = "expired"]

\* The failure write carries an error that its worker computed.
FailureChange(row, error, new) ==
  /\ row.status = "running"
  /\ \E d \in {"due", "later"} : new = AttemptFailed(row, error, d)

RowChange(row, new) ==
  \/ PlainChange(row, new)
  \/ \E e \in {"retry_scheduled", "final"} : FailureChange(row, e, new)

\* Background tasks exist only in background mode.
TasksInBackgroundMode ==
  \A j \in Jobs : task[j] # "none" => ExecutionMode = "background"

\* No background task exists in the external execution mode.
LEMMA TasksOnlyInBackgroundMode == Spec => []TasksInBackgroundMode
<1>1. Init => TasksInBackgroundMode
  BY DEF Init, TasksInBackgroundMode
<1>2. TypeOK /\ TasksInBackgroundMode /\ [Next]_vars => TasksInBackgroundMode'
  <2> SUFFICES ASSUME TypeOK, TasksInBackgroundMode, [Next]_vars
               PROVE  TasksInBackgroundMode'
    OBVIOUS
  <2>1. CASE UNCHANGED vars
    BY <2>1 DEF vars, TasksInBackgroundMode
  <2>2. ASSUME NEW w \in Workers, WorkerStep(w)
        PROVE  TasksInBackgroundMode'
    BY <2>2 DEF TasksInBackgroundMode, WorkerStep, ClaimQueued, RunSucceeds,
        RunFails, ReadJobAgain, WorkerCrashes, StaleLeaseElapses
  <2>3. ASSUME NEW j \in Jobs, JobStep(j)
        PROVE  TasksInBackgroundMode'
    BY <2>3 DEF TypeOK, TasksInBackgroundMode, JobStep, SubmitJob,
        BackgroundStarts, BackgroundFinishes, BackgroundLost, RetryFailed,
        CancelJob, BackoffElapses, LeaseElapses
  <2>4. QED
    BY <2>1, <2>2, <2>3 DEF Next
<1>3. QED
  BY <1>1, <1>2, TypeCorrect, PTL DEF Spec

\* A step of a worker changes each row plainly, or fails an attempt of its own.
LEMMA WorkerStepRows ==
  ASSUME TypeOK, NEW w \in Workers, WorkerStep(w), NEW j \in Jobs
  PROVE  \/ PlainChange(job[j], job'[j])
         \/ \E c \in batch[w] :
              c.job = j /\ FailureChange(job[j], AttemptError(c), job'[j])
<1>0. /\ job \in [Jobs -> Row]
      /\ batch \in [Workers -> SUBSET Claim]
  BY DEF TypeOK
<1>1. CASE ClaimQueued(w)
  <2>1. PICK S \in SUBSET Candidates :
          job' = [i \in Jobs |-> IF i \in S THEN Taken(job[i], w) ELSE job[i]]
    BY <1>1 DEF ClaimQueued
  <2>2. CASE j \in S
    BY <2>1, <2>2 DEF Candidates, PlainChange
  <2>3. CASE j \notin S
    BY <2>1, <2>3 DEF PlainChange
  <2>4. QED
    BY <2>2, <2>3
<1>2. CASE RunSucceeds(w)
  <2>1. PICK c \in batch[w] :
          CompletionRecorded(w, c.job) \/ OutcomeRejected(w, c.job)
    BY <1>2 DEF RunSucceeds
  <2>2. CASE CompletionRecorded(w, c.job)
    BY <1>0, <2>2 DEF CompletionRecorded, PlainChange
  <2>3. CASE OutcomeRejected(w, c.job)
    BY <2>3 DEF OutcomeRejected, PlainChange
  <2>4. QED
    BY <2>1, <2>2, <2>3
<1>3. CASE RunFails(w)
  <2>1. PICK c \in batch[w] :
          AttemptFailureRecorded(w, c) \/ OutcomeRejected(w, c.job)
    BY <1>3 DEF RunFails
  <2>2. CASE AttemptFailureRecorded(w, c)
    <3>1. PICK d \in {"due", "later"} :
            job' = [job EXCEPT ![c.job] = AttemptFailed(@, AttemptError(c), d)]
      BY <2>2 DEF AttemptFailureRecorded
    <3>2. job[c.job].status = "running"
      BY <2>2 DEF AttemptFailureRecorded
    <3>3. c.job \in Jobs
      BY <1>0 DEF Claim
    <3>4. CASE j = c.job
      BY <1>0, <3>1, <3>2, <3>4 DEF FailureChange
    <3>5. CASE j # c.job
      BY <1>0, <3>1, <3>5 DEF PlainChange
    <3>6. QED
      BY <3>4, <3>5
  <2>3. CASE OutcomeRejected(w, c.job)
    BY <2>3 DEF OutcomeRejected, PlainChange
  <2>4. QED
    BY <2>1, <2>2, <2>3
<1>4. CASE ReadJobAgain(w) \/ WorkerCrashes(w) \/ StaleLeaseElapses(w)
  BY <1>4 DEF ReadJobAgain, WorkerCrashes, StaleLeaseElapses, PlainChange
<1>5. QED
  BY <1>1, <1>2, <1>3, <1>4 DEF WorkerStep

\* A step of an operator, a background task or a clock is always plain.
LEMMA JobStepRows ==
  ASSUME TypeOK, TasksInBackgroundMode,
         NEW i \in Jobs, JobStep(i), NEW j \in Jobs
  PROVE  PlainChange(job[j], job'[j])
<1>0. job \in [Jobs -> Row]
  BY DEF TypeOK
<1>1. CASE j # i
  BY <1>0, <1>1 DEF JobStep, SubmitJob, BackgroundStarts, BackgroundFinishes,
     BackgroundLost, RetryFailed, CancelJob, BackoffElapses, LeaseElapses, PlainChange
<1>2. CASE j = i
  <2>1. CASE SubmitJob(i)
    BY <1>0, <1>2, <2>1 DEF SubmitJob, PlainChange
  <2>2. CASE BackgroundStarts(i)
    BY <1>0, <1>2, <2>2 DEF BackgroundStarts, PlainChange
  <2>3. CASE BackgroundFinishes(i)
    <3>1. ExecutionMode = "background"
      BY <2>3 DEF BackgroundFinishes, TasksInBackgroundMode
    <3>2. QED
      BY <1>0, <1>2, <2>3, <3>1 DEF BackgroundFinishes, PlainChange
  <2>4. CASE BackgroundLost(i)
    BY <2>4 DEF BackgroundLost, PlainChange
  <2>5. CASE RetryFailed(i)
    BY <1>0, <1>2, <2>5 DEF RetryFailed, PlainChange
  <2>6. CASE CancelJob(i)
    BY <1>0, <1>2, <2>6 DEF CancelJob, PlainChange
  <2>7. CASE BackoffElapses(i)
    BY <1>0, <1>2, <2>7 DEF BackoffElapses, PlainChange
  <2>8. CASE LeaseElapses(i)
    BY <1>0, <1>2, <2>8 DEF LeaseElapses, PlainChange
  <2>9. QED
    BY <2>1, <2>2, <2>3, <2>4, <2>5, <2>6, <2>7, <2>8 DEF JobStep
<1>3. QED
  BY <1>1, <1>2

\* What a step does to one row: nothing, or one of the store's updates.
LEMMA NextRows ==
  ASSUME TypeOK, TasksInBackgroundMode, [Next]_vars, NEW j \in Jobs
  PROVE  RowChange(job[j], job'[j])
<1>1. CASE UNCHANGED vars
  BY <1>1 DEF vars, RowChange, PlainChange
<1>2. ASSUME NEW w \in Workers, WorkerStep(w)
      PROVE  RowChange(job[j], job'[j])
  <2>1. \A c : AttemptError(c) \in {"retry_scheduled", "final"}
    BY DEF AttemptError
  <2>2. QED
    BY <1>2, <2>1, WorkerStepRows DEF RowChange
<1>3. QED
  BY <1>1, <1>2, JobStepRows DEF Next, RowChange

-----------------------------------------------------------------------------
(* Invariants of single rows, for every order of the writes.                *)

RowInv(row) ==
  /\ row.attempts <= row.max
  /\ row.status = "queued" => HasAttemptsRemaining(row)
  /\ row.status = "running" <=> row.lease # "none"
  /\ row.status = "running" <=> row.owner # NoWorker
  /\ row.status = "queued"  <=> row.due # "none"
  /\ row.status \in Terminal <=> row.closed
  /\ row.status = "failed" /\ ExecutionMode = "external"
       => ~HasAttemptsRemaining(row)
  /\ row.status = "failed" => row.error \in {"retry_scheduled", "final"}
  /\ row.status = "absent" => row = AbsentRow
  /\ row.retries > 0 <=> row.previous \in {"retry_scheduled", "final"}

\* RowInv holds of a row that was never written and survives every update.
LEMMA RowInvInitially == RowInv(AbsentRow)
BY DEF RowInv, AbsentRow, HasAttemptsRemaining, Terminal

\* Each of those updates keeps the invariant of a row.
LEMMA RowInvKept ==
  ASSUME NEW row \in Row, RowInv(row), NEW new, RowChange(row, new)
  PROVE  RowInv(new)
<1> USE WorkersAssumption DEF RowInv, HasAttemptsRemaining, Terminal
<1>0. /\ row.attempts \in Nat /\ row.max \in Nat /\ row.retries \in Nat
      /\ row.closed \in BOOLEAN
  BY DEF Row
<1>1. CASE new = row
  BY <1>1
<1>2. ASSUME NEW b \in Budgets, new = QueuedRow(b)
      PROVE  RowInv(new)
  BY <1>2, BudgetsAssumption DEF QueuedRow, AbsentRow
<1>3. ASSUME NEW o \in Workers \cup {ApiBackground}, new = Taken(row, o),
             Claimable(row) \/ row.status = "queued"
      PROVE  RowInv(new)
  BY <1>0, <1>3 DEF Taken, Row, Claimable
<1>4. CASE row.status = "running" /\ new = Completed(row)
  BY <1>0, <1>4 DEF Completed, Released, Row
<1>5. CASE row.status = "running" /\ ExecutionMode = "background" /\ new = Failed(row)
  BY <1>0, <1>5 DEF Failed, Released, Row
<1>6. ASSUME NEW e \in {"retry_scheduled", "final"}, NEW d \in {"due", "later"},
             row.status = "running", new = AttemptFailed(row, e, d)
      PROVE  RowInv(new)
  BY <1>0, <1>6 DEF AttemptFailed, Released, Row
<1>7. ASSUME NEW b \in Budgets, row.status = "failed", new = Retried(row, b)
      PROVE  RowInv(new)
  <2>1. /\ new.status = "queued" /\ new.due = "due" /\ new.owner = NoWorker
        /\ new.lease = "none" /\ new.attempts = 0 /\ new.max = b
        /\ new.retries = row.retries + 1 /\ new.previous = row.error
        /\ ~new.closed
    <3> DEFINE r == Released(row, "queued")
    <3>1. /\ r.status = "queued" /\ r.owner = NoWorker /\ r.lease = "none"
          /\ r.retries = row.retries /\ ~r.closed
      BY DEF Released, Row
    <3>2. r \in Row
      BY RowUpdatesTyped, Names
    <3>3. new = [r EXCEPT !.error = "none", !.attempts = 0, !.max = b,
                          !.due = "due", !.retries = @ + 1,
                          !.previous = row.error]
      BY <1>7 DEF Retried
    <3> HIDE DEF r
    <3>4. QED
      BY <3>1, <3>2, <3>3 DEF Row
  <2>2. b \in Nat \ {0} /\ row.error \in {"retry_scheduled", "final"}
    BY <1>7, BudgetsAssumption
  <2>3. QED
    BY <1>0, <2>1, <2>2
<1>8. CASE row.status \in {"queued", "running"} /\ new = Cancelled(row)
  BY <1>0, <1>8 DEF Cancelled, Released, Row
<1>9. CASE row.due = "later" /\ new = [row EXCEPT !.due = "due"]
  BY <1>0, <1>9 DEF Row
<1>10. CASE row.lease = "live" /\ new = [row EXCEPT !.lease = "expired"]
  BY <1>0, <1>10 DEF Row
<1>11. QED
  BY <1>1, <1>2, <1>3, <1>4, <1>5, <1>6, <1>7, <1>8, <1>9, <1>10
     DEF RowChange, PlainChange, FailureChange

RowsInv == \A j \in Jobs : RowInv(job[j])

\* Every row satisfies its invariant in every reachable state.
LEMMA RowsInvariant == Spec => []RowsInv
<1>1. Init => RowsInv
  BY RowInvInitially DEF Init, RowsInv
<1>2. TypeOK /\ TasksInBackgroundMode /\ RowsInv /\ [Next]_vars => RowsInv'
  <2> SUFFICES ASSUME TypeOK, TasksInBackgroundMode, RowsInv, [Next]_vars,
                      NEW j \in Jobs
               PROVE  RowInv(job'[j])
    BY DEF RowsInv
  <2>1. job[j] \in Row /\ RowInv(job[j])
    BY DEF TypeOK, RowsInv
  <2>2. QED
    BY <2>1, NextRows, RowInvKept
<1>3. QED
  BY <1>1, <1>2, TypeCorrect, TasksOnlyInBackgroundMode, PTL DEF Spec

\* No queued job is out of attempts, so none is passed over for ever, and
\* no job is charged more than its budget: whatever stale workers write.
THEOREM QueuedJobsKeepAttempts == Spec => []QueuedKeepsAttempts
<1>1. RowsInv => QueuedKeepsAttempts
  BY DEF RowsInv, RowInv, QueuedKeepsAttempts
<1>2. QED
  BY <1>1, RowsInvariant, PTL

\* Lease, owner, due time and completion time always agree with the status.
THEOREM RowsConsistent == Spec => []RowConsistent
<1>1. RowsInv => RowConsistent
  BY DEF RowsInv, RowInv, RowConsistent
<1>2. QED
  BY <1>1, RowsInvariant, PTL

\* With external workers only, a job fails only when its attempts are used up.
THEOREM OnlyExhaustedJobsFail == Spec => []FailedMeansExhausted
<1>1. RowsInv => FailedMeansExhausted
  BY DEF RowsInv, RowInv, FailedMeansExhausted
<1>2. QED
  BY <1>1, RowsInvariant, PTL

\* A manually retried job carries the error of the failure it came from.
THEOREM RetriedJobsKeepTheirError == Spec => []RetryKeepsPreviousError
<1>1. RowsInv => RetryKeepsPreviousError
  BY DEF RowsInv, RowInv, RetryKeepsPreviousError
<1>2. QED
  BY <1>1, RowsInvariant, PTL

\* No step writes a completed or cancelled row.
LEMMA SettledRowsStay ==
  ASSUME TypeOK, TasksInBackgroundMode, RowsInv, [Next]_vars, NEW j \in Jobs,
         job[j].status \in {"completed", "cancelled"}
  PROVE  job'[j] = job[j]
<1>1. RowChange(job[j], job'[j])
  BY NextRows
<1>2. job[j].due = "none" /\ job[j].lease = "none"
  BY DEF RowsInv, RowInv, TypeOK, Row
<1>3. QED
  BY <1>1, <1>2 DEF RowChange, PlainChange, FailureChange, Claimable

\* Completed and cancelled jobs are never written again, by anybody.
THEOREM SettledJobsAreFinal == Spec => SettledIsFinal
<1>1. TypeOK /\ TasksInBackgroundMode /\ RowsInv /\ [Next]_vars
        => [\A j \in Jobs : job[j].status \in {"completed", "cancelled"}
                              => job'[j] = job[j]]_vars
  BY SettledRowsStay
<1>2. QED
  BY <1>1, TypeCorrect, TasksOnlyInBackgroundMode, RowsInvariant, PTL
     DEF Spec, SettledIsFinal

-----------------------------------------------------------------------------
(* Reports.                                                                 *)

\* A step that adds at most one outcome to the reports, true of the row after
\* the step, keeps them truthful; a new completion comes from a running row.
LEMMA TrueOutcomesKeepReports ==
  ASSUME TypeOK, ReportTruthful, NEW w \in Workers, NEW i \in Jobs,
         \A j \in Jobs : job[j].status \in {"completed", "cancelled"}
                           => job'[j] = job[j],
         \A v \in Workers, j \in Jobs :
           report'[v][j] = report[v][j] \/ (v = w /\ j = i),
         report'[w][i] = "completed" => /\ job[i].status = "running"
                                        /\ job'[i].status = "completed",
         report'[w][i] = "cancelled" => job'[i].status = "cancelled"
  PROVE  ReportTruthful'
<1>1. ASSUME NEW v \in Workers, NEW j \in Jobs, report'[v][j] = "completed"
      PROVE  /\ job'[j].status = "completed"
             /\ \A u \in Workers \ {v} : report'[u][j] # "completed"
  <2>1. CASE v = w /\ j = i
    <3>1. \A u \in Workers : report[u][j] # "completed"
      BY <1>1, <2>1 DEF ReportTruthful
    <3>2. QED
      BY <1>1, <2>1, <3>1
  <2>2. CASE ~(v = w /\ j = i)
    <3>1. report[v][j] = "completed" /\ job[j].status = "completed"
      BY <1>1, <2>2 DEF ReportTruthful
    <3>2. \A u \in Workers \ {v} : report[u][j] # "completed"
      BY <3>1 DEF ReportTruthful
    <3>3. QED
      BY <3>1, <3>2
  <2>3. QED
    BY <2>1, <2>2
<1>2. ASSUME NEW v \in Workers, NEW j \in Jobs, report'[v][j] = "cancelled"
      PROVE  job'[j].status = "cancelled"
  BY <1>2 DEF ReportTruthful
<1>3. QED
  BY <1>1, <1>2 DEF ReportTruthful

\* So does a step that only forgets reports.
LEMMA ForgettingKeepsReports ==
  ASSUME ReportTruthful,
         \A j \in Jobs : job[j].status \in {"completed", "cancelled"}
                           => job'[j] = job[j],
         \A v \in Workers, j \in Jobs :
           report'[v][j] = report[v][j] \/ report'[v][j] = "none"
  PROVE  ReportTruthful'
BY DEF ReportTruthful

\* A worker's step keeps the reports true.
LEMMA WorkerStepKeepsReports ==
  ASSUME TypeOK, ReportTruthful, NEW w \in Workers, WorkerStep(w),
         \A j \in Jobs : job[j].status \in {"completed", "cancelled"}
                           => job'[j] = job[j]
  PROVE  ReportTruthful'
<1>0. /\ job \in [Jobs -> Row] /\ report \in [Workers -> [Jobs -> Outcome]]
      /\ batch \in [Workers -> SUBSET Claim]
      /\ probe \in [Workers -> Jobs \cup {NoJob}]
  BY DEF TypeOK
<1>1. CASE ClaimQueued(w) \/ WorkerCrashes(w) \/ StaleLeaseElapses(w)
  <2>1. report' = [report EXCEPT ![w] = NoReport] \/ report' = report
    BY <1>1 DEF ClaimQueued, WorkerCrashes, StaleLeaseElapses
  <2>2. \A v \in Workers, j \in Jobs :
          report'[v][j] = report[v][j] \/ report'[v][j] = "none"
    BY <1>0, <2>1 DEF NoReport
  <2>3. QED
    BY <2>2, ForgettingKeepsReports
<1>2. CASE RunSucceeds(w) \/ RunFails(w)
  <2>1. PICK c \in batch[w] :
          \/ CompletionRecorded(w, c.job) \/ AttemptFailureRecorded(w, c)
          \/ OutcomeRejected(w, c.job)
    BY <1>2 DEF RunSucceeds, RunFails
  <2>2. c.job \in Jobs
    BY <1>0 DEF Claim
  <2>3. CASE CompletionRecorded(w, c.job)
    <3>1. job[c.job].status = "running" /\ job'[c.job].status = "completed"
      BY <1>0, <2>2, <2>3 DEF CompletionRecorded, Completed, Released, Row
    <3>2. report' = [report EXCEPT ![w][c.job] = "completed"]
      BY <2>3 DEF CompletionRecorded
    <3>3. QED
      BY <1>0, <2>2, <3>1, <3>2, TrueOutcomesKeepReports
  <2>4. CASE AttemptFailureRecorded(w, c)
    <3>1. PICK o \in {"retry_scheduled", "failed"} :
            report' = [report EXCEPT ![w][c.job] = o]
      BY <2>4 DEF AttemptFailureRecorded
    <3>2. report'[w][c.job] = o
      BY <1>0, <2>2, <3>1
    <3>3. QED
      BY <1>0, <2>2, <3>1, <3>2, TrueOutcomesKeepReports
  <2>5. CASE OutcomeRejected(w, c.job)
    BY <2>5, ForgettingKeepsReports DEF OutcomeRejected
  <2>6. QED
    BY <2>1, <2>3, <2>4, <2>5
<1>3. CASE ReadJobAgain(w)
  <2>1. probe[w] \in Jobs /\ job' = job
    BY <1>0, <1>3 DEF ReadJobAgain
  <2>2. report' = [report EXCEPT ![w][probe[w]] =
                     IF job[probe[w]].status = "cancelled" THEN "cancelled"
                                                           ELSE "failed"]
    BY <1>3 DEF ReadJobAgain
  <2>3. report'[w][probe[w]] \in {"cancelled", "failed"}
        /\ (report'[w][probe[w]] = "cancelled"
              => job[probe[w]].status = "cancelled")
    BY <1>0, <2>1, <2>2
  <2>4. QED
    BY <1>0, <2>1, <2>2, <2>3, TrueOutcomesKeepReports
<1>4. QED
  BY <1>1, <1>2, <1>3 DEF WorkerStep

\* A reported completion or cancellation stays true of the table, and at most
\* one worker reports the completion of a job.
THEOREM ReportsAreTruthful == Spec => []ReportTruthful
<1>1. Init => ReportTruthful
  BY DEF Init, NoReport, ReportTruthful
<1>2. ASSUME TypeOK, TasksInBackgroundMode, RowsInv, ReportTruthful, [Next]_vars
      PROVE  ReportTruthful'
  <2>1. \A j \in Jobs : job[j].status \in {"completed", "cancelled"}
                          => job'[j] = job[j]
    BY <1>2, SettledRowsStay
  <2>2. CASE UNCHANGED vars \/ \E i \in Jobs : JobStep(i)
    <3>1. report' = report
      BY <2>2 DEF vars, JobStep, SubmitJob, BackgroundStarts, BackgroundFinishes,
         BackgroundLost, RetryFailed, CancelJob, BackoffElapses, LeaseElapses
    <3>2. QED
      BY <1>2, <2>1, <3>1, ForgettingKeepsReports
  <2>3. QED
    BY <1>2, <2>1, <2>2, WorkerStepKeepsReports DEF Next
<1>3. QED
  BY <1>1, <1>2, TypeCorrect, TasksOnlyInBackgroundMode, RowsInvariant, PTL
     DEF Spec

-----------------------------------------------------------------------------
(* Leases that outlast runs give exclusive execution.                       *)

OwnershipInv == ExclusiveExecution /\ HolderOwnsJob

\* Steps that let go of jobs, and write only rows nobody works on (or cancel),
\* keep ownership.
LEMMA ReleasingKeepsOwnership ==
  ASSUME TypeOK, OwnershipInv,
         \A w \in Workers : batch'[w] \subseteq batch[w],
         \A j \in Jobs : task'[j] = "running" => task[j] = "running",
         \A w \in Workers : \A c \in batch'[w] :
           job'[c.job] = job[c.job] \/ job'[c.job].status = "cancelled",
         \A j \in Jobs : task'[j] = "running" =>
           job'[j] = job[j] \/ job'[j].status = "cancelled"
  PROVE  OwnershipInv'
<1>1. ASSUME LeaseCoversRun
      PROVE  ExclusiveExecution'
  <2>1. ASSUME NEW w \in Workers, NEW c \in batch'[w]
        PROVE  task'[c.job] # "running"
    BY <1>1, <2>1 DEF TypeOK, Claim, OwnershipInv, ExclusiveExecution
  <2>2. QED
    BY <1>1, <2>1 DEF OwnershipInv, ExclusiveExecution
<1>2. ASSUME LeaseCoversRun
      PROVE  HolderOwnsJob'
  BY <1>2 DEF OwnershipInv, HolderOwnsJob
<1>3. QED
  BY <1>1, <1>2 DEF OwnershipInv, ExclusiveExecution, HolderOwnsJob

\* Nobody works on a job that is not running or cancelled, or whose lease is
\* not live.
LEMMA UnownedJobsAreFree ==
  ASSUME TypeOK, OwnershipInv, LeaseCoversRun, NEW j \in Jobs,
         job[j].status # "cancelled",
         job[j].status # "running" \/ job[j].lease # "live"
  PROVE  /\ \A w \in Workers : \A c \in batch[w] : c.job # j
         /\ task[j] # "running"
BY DEF OwnershipInv, HolderOwnsJob

\* A claim takes only free jobs and makes the worker their owner.
LEMMA ClaimKeepsOwnership ==
  ASSUME TypeOK, RowsInv, OwnershipInv, LeaseCoversRun,
         NEW w \in Workers, ClaimQueued(w)
  PROVE  OwnershipInv'
<1>1. PICK S \in SUBSET Candidates :
        /\ job' = [j \in Jobs |-> IF j \in S THEN Taken(job[j], w) ELSE job[j]]
        /\ batch' = [batch EXCEPT ![w] = Claims(S)]
  BY DEF ClaimQueued
<1>2. task' = task /\ batch[w] = {}
  BY DEF ClaimQueued
<1>3. ASSUME NEW j \in S
      PROVE  /\ j \in Jobs /\ job[j] \in Row
             /\ \A v \in Workers : \A c \in batch[v] : c.job # j
             /\ task[j] # "running"
  <2>1. j \in Jobs /\ job[j] \in Row
    BY DEF Candidates, TypeOK
  <2>2. /\ job[j].status # "cancelled"
        /\ job[j].status # "running" \/ job[j].lease # "live"
    BY DEF Candidates, Claimable
  <2>3. QED
    BY <2>1, <2>2, UnownedJobsAreFree
<1>4. /\ \A v \in Workers : v # w => batch'[v] = batch[v]
      /\ batch'[w] = Claims(S)
  BY <1>1 DEF TypeOK
<1>5. \A c \in Claims(S) : c.job \in S
  BY DEF Claims
<1>6. ASSUME NEW c \in Claims(S), NEW d \in Claims(S), c.job = d.job
      PROVE  c = d
  <2>1. PICK i \in S : c = [job |-> i, attempt |-> job[i].attempts + 1,
                            max |-> job[i].max, live |-> TRUE]
    BY DEF Claims
  <2>2. PICK j \in S : d = [job |-> j, attempt |-> job[j].attempts + 1,
                            max |-> job[j].max, live |-> TRUE]
    BY DEF Claims
  <2>3. c.job = i /\ d.job = j
    BY <2>1, <2>2
  <2>4. QED
    BY <1>6, <2>1, <2>2, <2>3
<1>7. \A v \in Workers : \A c \in batch[v] : c.job \in Jobs /\ c.job \notin S
  BY <1>3 DEF TypeOK, Claim
<1>8. ExclusiveExecution'
  <2>1. \A u, v \in Workers : \A c \in batch'[u], d \in batch'[v] :
          c.job = d.job => u = v /\ c = d
    BY <1>4, <1>5, <1>6, <1>7 DEF OwnershipInv, ExclusiveExecution
  <2>2. \A v \in Workers : \A c \in batch'[v] : task'[c.job] # "running"
    BY <1>2, <1>3, <1>4, <1>5 DEF OwnershipInv, ExclusiveExecution
  <2>3. QED
    BY <2>1, <2>2 DEF ExclusiveExecution
<1>9. ASSUME NEW v \in Workers, NEW c \in batch'[v]
      PROVE  \/ job'[c.job].status = "cancelled"
             \/ /\ job'[c.job].status = "running" /\ job'[c.job].owner = v
                /\ job'[c.job].lease = "live"
                /\ job'[c.job].attempts = c.attempt /\ job'[c.job].max = c.max
  <2>1. CASE v = w
    <3>1. PICK j \in S : c = [job |-> j, attempt |-> job[j].attempts + 1,
                              max |-> job[j].max, live |-> TRUE]
      BY <1>4, <2>1 DEF Claims
    <3>2. job'[c.job] = Taken(job[j], w)
      BY <1>1, <1>3, <3>1
    <3>3. job[j] \in Row
      BY <1>3
    <3>4. QED
      BY <2>1, <3>1, <3>2, <3>3 DEF Taken, Row
  <2>2. CASE v # w
    <3>1. c \in batch[v] /\ job'[c.job] = job[c.job]
      BY <1>1, <1>4, <1>7, <2>2
    <3>2. QED
      BY <3>1 DEF OwnershipInv, HolderOwnsJob
  <2>3. QED
    BY <2>1, <2>2
<1>10. ASSUME NEW j \in Jobs, task'[j] = "running"
       PROVE  job'[j] = job[j]
  BY <1>1, <1>2, <1>3, <1>10
<1>11. HolderOwnsJob'
  BY <1>2, <1>9, <1>10 DEF OwnershipInv, HolderOwnsJob
<1>12. QED
  BY <1>8, <1>11 DEF OwnershipInv

\* A worker that ends a run writes the row it alone works on.
LEMMA RunEndKeepsOwnership ==
  ASSUME TypeOK, OwnershipInv, LeaseCoversRun,
         NEW w \in Workers, RunSucceeds(w) \/ RunFails(w)
  PROVE  OwnershipInv'
<1>1. PICK c \in batch[w] :
        /\ batch' = [batch EXCEPT ![w] = @ \ {c}]
        /\ \/ CompletionRecorded(w, c.job)
           \/ AttemptFailureRecorded(w, c)
           \/ OutcomeRejected(w, c.job)
  BY DEF RunSucceeds, RunFails
<1>2. task' = task
  BY DEF RunSucceeds, RunFails
<1>3. \A j \in Jobs : j # c.job => job'[j] = job[j]
  BY <1>1 DEF TypeOK, CompletionRecorded, AttemptFailureRecorded, OutcomeRejected
<1>4. ASSUME NEW v \in Workers, NEW d \in batch'[v]
      PROVE  d \in batch[v] /\ d.job \in Jobs /\ d.job # c.job
  <2>1. d \in batch[v] /\ (v = w => d # c)
    BY <1>1, <1>4 DEF TypeOK
  <2>2. QED
    BY <2>1 DEF TypeOK, Claim, OwnershipInv, ExclusiveExecution
<1>5. task[c.job] # "running"
  BY DEF OwnershipInv, ExclusiveExecution
<1>6. \A v \in Workers : batch'[v] \subseteq batch[v]
  BY <1>4
<1>7. \A v \in Workers : \A d \in batch'[v] : job'[d.job] = job[d.job]
  BY <1>3, <1>4
<1>8. \A j \in Jobs : task'[j] = "running" => job'[j] = job[j]
  BY <1>2, <1>3, <1>5
<1>9. QED
  BY <1>2, <1>6, <1>7, <1>8, ReleasingKeepsOwnership

\* A worker's step keeps executors in possession of their rows.
LEMMA WorkerStepKeepsOwnership ==
  ASSUME TypeOK, RowsInv, OwnershipInv, LeaseCoversRun,
         NEW w \in Workers, WorkerStep(w)
  PROVE  OwnershipInv'
<1>1. CASE ReadJobAgain(w)
  BY <1>1 DEF ReadJobAgain, OwnershipInv, ExclusiveExecution, HolderOwnsJob
<1>2. CASE WorkerCrashes(w)
  <2>1. \A v \in Workers : batch'[v] \subseteq batch[v]
    BY <1>2 DEF WorkerCrashes, TypeOK
  <2>2. job' = job /\ task' = task
    BY <1>2 DEF WorkerCrashes
  <2>3. QED
    BY <2>1, <2>2, ReleasingKeepsOwnership
<1>3. CASE StaleLeaseElapses(w)
  BY <1>3 DEF StaleLeaseElapses
<1>4. QED
  BY <1>1, <1>2, <1>3, ClaimKeepsOwnership, RunEndKeepsOwnership DEF WorkerStep

\* A step that writes the row of a free job only keeps ownership.
LEMMA FreeRowKeepsOwnership ==
  ASSUME TypeOK, OwnershipInv, NEW i \in Jobs,
         batch' = batch,
         \A j \in Jobs : j # i => job'[j] = job[j] /\ task'[j] = task[j],
         \A w \in Workers : \A c \in batch[w] : c.job # i,
         task'[i] # "running"
  PROVE  OwnershipInv'
<1>1. \A w \in Workers : \A c \in batch'[w] : c.job \in Jobs /\ c.job # i
  BY DEF TypeOK, Claim
<1>2. \A w \in Workers : \A c \in batch'[w] : job'[c.job] = job[c.job]
  BY <1>1
<1>3. \A j \in Jobs : task'[j] = "running" => task[j] = "running" /\ job'[j] = job[j]
  OBVIOUS
<1>4. QED
  BY <1>2, <1>3, ReleasingKeepsOwnership

\* So does a step of the API, an operator or the clock.
LEMMA JobStepKeepsOwnership ==
  ASSUME TypeOK, RowsInv, OwnershipInv, LeaseCoversRun,
         NEW i \in Jobs, JobStep(i)
  PROVE  OwnershipInv'
<1>0. /\ job \in [Jobs -> Row]
      /\ task \in [Jobs -> {"none", "scheduled", "running"}]
      /\ RowInv(job[i])
  BY DEF TypeOK, RowsInv
<1>1. CASE SubmitJob(i)
  <2>1. \A w \in Workers : \A c \in batch[w] : c.job # i
    BY <1>1, UnownedJobsAreFree DEF SubmitJob
  <2>2. /\ batch' = batch /\ task'[i] # "running"
        /\ \A j \in Jobs : j # i => job'[j] = job[j] /\ task'[j] = task[j]
    BY <1>0, <1>1 DEF SubmitJob
  <2>3. QED
    BY <2>1, <2>2, FreeRowKeepsOwnership
<1>2. CASE BackgroundStarts(i)
  <2>1. CASE job[i].status = "queued"
    <3>1. \A w \in Workers : \A c \in batch[w] : c.job \in Jobs /\ c.job # i
      BY <2>1, UnownedJobsAreFree DEF TypeOK, Claim
    <3>2. /\ batch' = batch /\ task'[i] = "running"
          /\ job'[i] = Taken(job[i], ApiBackground)
          /\ \A j \in Jobs : j # i => job'[j] = job[j] /\ task'[j] = task[j]
      BY <1>0, <1>2, <2>1 DEF BackgroundStarts
    <3>3. /\ job'[i].status = "running" /\ job'[i].owner = ApiBackground
          /\ job'[i].lease = "live"
      BY <1>0, <3>2 DEF Taken, Row
    <3>4. \A w \in Workers : \A c \in batch'[w] :
            job'[c.job] = job[c.job] /\ task'[c.job] = task[c.job]
      BY <3>1, <3>2
    <3>5. ExclusiveExecution'
      BY <3>2, <3>4 DEF OwnershipInv, ExclusiveExecution
    <3>6. HolderOwnsJob'
      BY <3>2, <3>3, <3>4 DEF OwnershipInv, HolderOwnsJob
    <3>7. QED
      BY <3>5, <3>6 DEF OwnershipInv
  <2>2. CASE job[i].status # "queued"
    <3>1. job' = job /\ batch' = batch /\ task' = [task EXCEPT ![i] = "none"]
      BY <1>2, <2>2 DEF BackgroundStarts
    <3>2. QED
      BY <1>0, <3>1, ReleasingKeepsOwnership
  <2>3. QED
    BY <2>1, <2>2
<1>3. CASE BackgroundFinishes(i)
  <2>1. \A w \in Workers : \A c \in batch[w] : c.job # i
    BY <1>3 DEF BackgroundFinishes, OwnershipInv, ExclusiveExecution
  <2>2. /\ batch' = batch /\ task'[i] # "running"
        /\ \A j \in Jobs : j # i => job'[j] = job[j] /\ task'[j] = task[j]
    BY <1>0, <1>3 DEF BackgroundFinishes
  <2>3. QED
    BY <2>1, <2>2, FreeRowKeepsOwnership
<1>4. CASE BackgroundLost(i)
  <2>1. job' = job /\ batch' = batch /\ task' = [task EXCEPT ![i] = "none"]
    BY <1>4 DEF BackgroundLost
  <2>2. QED
    BY <1>0, <2>1, ReleasingKeepsOwnership
<1>5. CASE RetryFailed(i) \/ BackoffElapses(i)
  <2>1. job[i].status \in {"failed", "queued"}
    BY <1>0, <1>5 DEF RetryFailed, BackoffElapses, RowInv
  <2>2. (\A w \in Workers : \A c \in batch[w] : c.job # i) /\ task[i] # "running"
    BY <2>1, UnownedJobsAreFree
  <2>3. /\ batch' = batch /\ task' = task
        /\ \A j \in Jobs : j # i => job'[j] = job[j]
    BY <1>0, <1>5 DEF RetryFailed, BackoffElapses
  <2>4. QED
    BY <2>2, <2>3, FreeRowKeepsOwnership
<1>6. CASE CancelJob(i)
  <2>1. /\ batch' = batch /\ task' = task
        /\ \A j \in Jobs : j # i => job'[j] = job[j]
        /\ job'[i] = Cancelled(job[i])
    BY <1>0, <1>6 DEF CancelJob
  <2>2. job'[i].status = "cancelled"
    BY <1>0, <2>1 DEF Cancelled, Released, Row
  <2>3. \A j \in Jobs : job'[j] = job[j] \/ job'[j].status = "cancelled"
    BY <2>1, <2>2
  <2>4. \A w \in Workers : \A c \in batch'[w] : c.job \in Jobs
    BY <2>1 DEF TypeOK, Claim
  <2>5. QED
    BY <2>1, <2>3, <2>4, ReleasingKeepsOwnership
<1>7. CASE LeaseElapses(i)
  <2>1. (\A w \in Workers : \A c \in batch[w] : c.job # i) /\ task[i] # "running"
    BY <1>7 DEF LeaseElapses, Executing
  <2>2. batch' = batch
    BY <1>7, <2>1 DEF LeaseElapses, TypeOK
  <2>3. /\ task' = task
        /\ \A j \in Jobs : j # i => job'[j] = job[j]
    BY <1>0, <1>7 DEF LeaseElapses
  <2>4. QED
    BY <2>1, <2>2, <2>3, FreeRowKeepsOwnership
<1>8. QED
  BY <1>1, <1>2, <1>3, <1>4, <1>5, <1>6, <1>7 DEF JobStep

\* While leases outlast runs, executors possess their rows.
LEMMA OwnershipInvariant == Spec => [](LeaseCoversRun => OwnershipInv)
<1>1. Init => OwnershipInv
  BY DEF Init, OwnershipInv, ExclusiveExecution, HolderOwnsJob
<1>2. ASSUME TypeOK, RowsInv, LeaseCoversRun => OwnershipInv, [Next]_vars
      PROVE  (LeaseCoversRun => OwnershipInv)'
  <2>1. CASE UNCHANGED vars
    BY <1>2, <2>1 DEF vars, OwnershipInv, ExclusiveExecution, HolderOwnsJob
  <2>2. CASE Next
    BY <1>2, <2>2, WorkerStepKeepsOwnership, JobStepKeepsOwnership DEF Next
  <2>3. QED
    BY <1>2, <2>1, <2>2
<1>3. QED
  BY <1>1, <1>2, TypeCorrect, RowsInvariant, PTL DEF Spec

\* While leases outlast runs, no two executors ever work on the same job.
THEOREM LeasesExclude == Spec => []ExclusiveExecution
<1>1. (LeaseCoversRun => OwnershipInv) => ExclusiveExecution
  BY DEF OwnershipInv, ExclusiveExecution
<1>2. QED
  BY <1>1, OwnershipInvariant, PTL

\* While leases outlast runs, whoever works on a job owns its row, so that its
\* outcome is recorded unless an operator cancelled the job.
THEOREM HoldersOwnTheirJobs == Spec => []HolderOwnsJob
<1>1. (LeaseCoversRun => OwnershipInv) => HolderOwnsJob
  BY DEF OwnershipInv, HolderOwnsJob
<1>2. QED
  BY <1>1, OwnershipInvariant, PTL

-----------------------------------------------------------------------------
(* The error an operator reads.                                             *)

ErrorAgrees(row) ==
  /\ row.status = "queued" => row.error \in {"none", "retry_scheduled"}
  /\ row.status = "failed" => row.error = "final"

\* Every update but the worker's own failure write keeps the error in line.
LEMMA PlainChangesKeepErrors ==
  ASSUME NEW row \in Row, ErrorAgrees(row), NEW new, PlainChange(row, new)
  PROVE  ErrorAgrees(new)
<1> USE DEF ErrorAgrees
<1>1. ASSUME NEW b \in Budgets, new = QueuedRow(b)
      PROVE  ErrorAgrees(new)
  BY <1>1 DEF QueuedRow, AbsentRow
<1>2. ASSUME NEW o \in Workers \cup {ApiBackground}, new = Taken(row, o)
      PROVE  ErrorAgrees(new)
  BY <1>2 DEF Taken, Row
<1>3. CASE new = Completed(row) \/ new = Cancelled(row)
  <2>1. new.status \in {"completed", "cancelled"}
    BY <1>3 DEF Completed, Cancelled, Released, Row
  <2>2. QED
    BY <2>1
<1>4. CASE new = Failed(row)
  <2>1. new.status = "failed" /\ new.error = "final"
    BY <1>4 DEF Failed, Released, Row
  <2>2. QED
    BY <2>1
<1>5. ASSUME NEW b \in Budgets, new = Retried(row, b)
      PROVE  ErrorAgrees(new)
  <2> DEFINE r == Released(row, "queued")
  <2>1. r \in Row /\ r.status = "queued"
    BY RowUpdatesTyped, Names DEF Released, Row
  <2>2. new = [r EXCEPT !.error = "none", !.attempts = 0, !.max = b, !.due = "due",
                        !.retries = @ + 1, !.previous = row.error]
    BY <1>5 DEF Retried
  <2> HIDE DEF r
  <2>3. QED
    BY <2>1, <2>2 DEF Row
<1>6. CASE new = row \/ new = [row EXCEPT !.due = "due"]
             \/ new = [row EXCEPT !.lease = "expired"]
  BY <1>6 DEF Row
<1>7. QED
  BY <1>1, <1>2, <1>3, <1>4, <1>5, <1>6 DEF PlainChange

\* A failure write keeps it in line when the worker's snapshot still agrees
\* with the row.
LEMMA OwnFailuresKeepErrors ==
  ASSUME NEW row \in Row, NEW c, c.attempt = row.attempts, c.max = row.max,
         NEW new, FailureChange(row, AttemptError(c), new)
  PROVE  ErrorAgrees(new)
<1>1. PICK d \in {"due", "later"} : new = AttemptFailed(row, AttemptError(c), d)
  BY DEF FailureChange
<1>2. CASE HasAttemptsRemaining(row)
  <2>1. AttemptError(c) = "retry_scheduled"
    BY <1>2 DEF AttemptError, HasAttemptsRemaining
  <2>2. new = [Released(row, "queued") EXCEPT !.error = "retry_scheduled", !.due = d]
    BY <1>1, <1>2, <2>1 DEF AttemptFailed
  <2>3. new.status = "queued" /\ new.error = "retry_scheduled"
    BY <2>2 DEF Released, Row
  <2>4. QED
    BY <2>3 DEF ErrorAgrees
<1>3. CASE ~HasAttemptsRemaining(row)
  <2>1. AttemptError(c) = "final"
    BY <1>3 DEF AttemptError, HasAttemptsRemaining
  <2>2. new = [Released(row, "failed") EXCEPT !.error = "final"]
    BY <1>1, <1>3, <2>1 DEF AttemptFailed
  <2>3. new.status = "failed" /\ new.error = "final"
    BY <2>2 DEF Released, Row
  <2>4. QED
    BY <2>3 DEF ErrorAgrees
<1>4. QED
  BY <1>2, <1>3

\* While leases outlast runs, the retry_scheduled flag a worker computes from
\* its snapshot agrees with the store's decision from the row.
THEOREM ErrorsAgreeWithStatus == Spec => []ErrorAgreesWithStatus
<1> DEFINE Agree == LeaseCoversRun => \A j \in Jobs : ErrorAgrees(job[j])
<1>1. Init => Agree
  BY DEF Init, AbsentRow, ErrorAgrees
<1>2. ASSUME TypeOK, TasksInBackgroundMode,
             LeaseCoversRun => OwnershipInv, Agree, [Next]_vars
      PROVE  Agree'
  <2> SUFFICES ASSUME LeaseCoversRun, NEW j \in Jobs
               PROVE  ErrorAgrees(job'[j])
    OBVIOUS
  <2>0. job[j] \in Row /\ ErrorAgrees(job[j])
    BY <1>2 DEF TypeOK
  <2>1. CASE UNCHANGED vars
    BY <2>0, <2>1 DEF vars
  <2>2. ASSUME NEW i \in Jobs, JobStep(i)
        PROVE  ErrorAgrees(job'[j])
    BY <1>2, <2>0, <2>2, JobStepRows, PlainChangesKeepErrors
  <2>3. ASSUME NEW w \in Workers, WorkerStep(w)
        PROVE  ErrorAgrees(job'[j])
    <3>1. CASE PlainChange(job[j], job'[j])
      BY <2>0, <3>1, PlainChangesKeepErrors
    <3>2. ASSUME NEW c \in batch[w], c.job = j,
                 FailureChange(job[j], AttemptError(c), job'[j])
          PROVE  ErrorAgrees(job'[j])
      <4>1. c.attempt = job[j].attempts /\ c.max = job[j].max
        BY <1>2, <3>2 DEF OwnershipInv, HolderOwnsJob, FailureChange
      <4>2. QED
        BY <2>0, <3>2, <4>1, OwnFailuresKeepErrors
    <3>3. QED
      BY <1>2, <2>3, <3>1, <3>2, WorkerStepRows
  <2>4. QED
    BY <1>2, <2>1, <2>2, <2>3 DEF Next
<1>3. Agree => ErrorAgreesWithStatus
  BY DEF ErrorAgrees, ErrorAgreesWithStatus
<1>4. QED
  BY <1>1, <1>2, <1>3, TypeCorrect, TasksOnlyInBackgroundMode,
     OwnershipInvariant, PTL DEF Spec

-----------------------------------------------------------------------------
(* The queue implements JobLifecycle.  RowMove says what the updates of a   *)
(* row mean to a client, who sees its status and the attempts it has left;  *)
(* a step that writes one row is then a step or a stutter of the life       *)
(* cycle, and a claimed batch is a Start of its jobs.                       *)

Left(row) == row.max - row.attempts

\* What a client may see happen to one job.
RowMove(row, new) ==
  \/ new.status = row.status /\ Left(new) = Left(row)
  \/ /\ row.status \in {"absent", "failed"} /\ new.status = "queued"
     /\ Left(new) \in Budgets
  \/ /\ row.status \in {"queued", "running"} /\ Left(row) > 0
     /\ new.status = "running" /\ Left(new) = Left(row) - 1
  \/ /\ row.status = "running" /\ Left(row) > 0
     /\ new.status = "queued" /\ Left(new) = Left(row)
  \/ /\ row.status = "running" /\ Left(new) = Left(row)
     /\ \/ new.status = "completed"
        \/ /\ new.status = "failed"
           /\ ExecutionMode = "background" \/ Left(row) = 0
  \/ /\ row.status \in {"queued", "running"} /\ new.status = "cancelled"
     /\ Left(new) = Left(row)

\* Taking a row starts its job and pays one attempt.
LEMMA TakenStarts ==
  ASSUME NEW row \in Row, RowInv(row), NEW o \in Workers \cup {ApiBackground},
         Claimable(row) \/ row.status = "queued"
  PROVE  /\ row.status \in {"queued", "running"} /\ Left(row) > 0
         /\ Taken(row, o).status = "running"
         /\ Left(Taken(row, o)) = Left(row) - 1
<1>1. row.attempts \in Nat /\ row.max \in Nat
  BY DEF Row
<1>2. row.status \in {"queued", "running"} /\ row.attempts < row.max
  BY DEF Claimable, HasAttemptsRemaining, RowInv
<1>3. /\ Taken(row, o).status = "running" /\ Taken(row, o).max = row.max
      /\ Taken(row, o).attempts = row.attempts + 1
  BY DEF Taken, Row
<1>4. QED
  BY <1>1, <1>2, <1>3 DEF Left

\* Releasing a row neither pays nor refunds an attempt.
LEMMA ReleasedKeepsLeft ==
  ASSUME NEW row \in Row, NEW s \in Status
  PROVE  /\ Released(row, s) \in Row /\ Released(row, s).status = s
         /\ Left(Released(row, s)) = Left(row)
<1>1. Released(row, s) \in Row
  BY RowUpdatesTyped
<1>2. QED
  BY <1>1 DEF Released, Row, Left

\* Every update of a row is a move a client may see.
LEMMA RowsMove ==
  ASSUME NEW row \in Row, RowInv(row), NEW new, RowChange(row, new)
  PROVE  RowMove(row, new)
<1>0. row.attempts \in Nat /\ row.max \in Nat /\ row.attempts <= row.max
  BY DEF Row, RowInv
<1>1. ASSUME NEW b \in Budgets, row.status = "absent", new = QueuedRow(b)
      PROVE  RowMove(row, new)
  BY <1>1, BudgetsAssumption DEF QueuedRow, AbsentRow, RowMove, Left
<1>2. ASSUME NEW o \in Workers \cup {ApiBackground}, new = Taken(row, o),
             Claimable(row) \/ row.status = "queued"
      PROVE  RowMove(row, new)
  BY <1>2, TakenStarts DEF RowMove
<1>3. CASE row.status = "running" /\ new = Completed(row)
  <2>1. new.status = "completed" /\ Left(new) = Left(row)
    BY <1>3 DEF Completed, Released, Row, Left
  <2>2. QED
    BY <1>3, <2>1 DEF RowMove
<1>4. CASE row.status = "running" /\ ExecutionMode = "background" /\ new = Failed(row)
  <2>1. new.status = "failed" /\ Left(new) = Left(row)
    BY <1>4 DEF Failed, Released, Row, Left
  <2>2. QED
    BY <1>4, <2>1 DEF RowMove
<1>5. ASSUME NEW e \in {"retry_scheduled", "final"}, FailureChange(row, e, new)
      PROVE  RowMove(row, new)
  <2>1. PICK d \in {"due", "later"} : new = AttemptFailed(row, e, d)
    BY <1>5 DEF FailureChange
  <2>2. CASE HasAttemptsRemaining(row)
    <3>1. new = [Released(row, "queued") EXCEPT !.error = e, !.due = d]
      BY <2>1, <2>2 DEF AttemptFailed
    <3>2. new.status = "queued" /\ Left(new) = Left(row)
      BY <3>1 DEF Released, Row, Left
    <3>3. Left(row) > 0
      BY <1>0, <2>2 DEF HasAttemptsRemaining, Left
    <3>4. QED
      BY <1>5, <3>2, <3>3 DEF RowMove, FailureChange
  <2>3. CASE ~HasAttemptsRemaining(row)
    <3>1. new = [Released(row, "failed") EXCEPT !.error = e]
      BY <2>1, <2>3 DEF AttemptFailed
    <3>2. new.status = "failed" /\ Left(new) = Left(row)
      BY <3>1 DEF Released, Row, Left
    <3>3. Left(row) = 0
      BY <1>0, <2>3 DEF HasAttemptsRemaining, Left
    <3>4. QED
      BY <1>5, <3>2, <3>3 DEF RowMove, FailureChange
  <2>4. QED
    BY <2>2, <2>3
<1>6. ASSUME NEW b \in Budgets, row.status = "failed", new = Retried(row, b)
      PROVE  RowMove(row, new)
  <2> DEFINE r == Released(row, "queued")
  <2>1. r \in Row
    BY RowUpdatesTyped, Names
  <2>2. r.status = "queued"
    BY DEF Released, Row
  <2>3. new = [r EXCEPT !.error = "none", !.attempts = 0, !.max = b, !.due = "due",
                        !.retries = @ + 1, !.previous = row.error]
    BY <1>6 DEF Retried
  <2> HIDE DEF r
  <2>4. new.status = "queued" /\ new.max = b /\ new.attempts = 0
    BY <2>1, <2>2, <2>3 DEF Row
  <2>5. QED
    BY <1>6, <2>4, BudgetsAssumption DEF RowMove, Left
<1>7. CASE row.status \in {"queued", "running"} /\ new = Cancelled(row)
  <2>1. new.status = "cancelled" /\ Left(new) = Left(row)
    BY <1>7 DEF Cancelled, Released, Row, Left
  <2>2. QED
    BY <1>7, <2>1 DEF RowMove
<1>8. CASE new = row \/ new = [row EXCEPT !.due = "due"]
             \/ new = [row EXCEPT !.lease = "expired"]
  BY <1>8 DEF RowMove, Row, Left
<1>9. QED
  BY <1>1, <1>2, <1>3, <1>4, <1>5, <1>6, <1>7, <1>8 DEF RowChange, PlainChange

\* A step that writes at most one row is a step of the life cycle.
LEMMA OneRowSteps ==
  ASSUME TypeOK, RowsInv, NEW i \in Jobs, job' \in [Jobs -> Row],
         RowChange(job[i], job'[i]),
         \A j \in Jobs : j # i => job'[j] = job[j]
  PROVE  [Attempts!Next]_(Attempts!vars)
<1> DEFINE phase == [j \in Jobs |-> job[j].status]
           left  == [j \in Jobs |-> job[j].max - job[j].attempts]
           new   == job'[i]
<1>1. RowMove(job[i], new)
  BY RowsMove DEF TypeOK, RowsInv
<1>2. /\ phase' = [phase EXCEPT ![i] = new.status]
      /\ left' = [left EXCEPT ![i] = Left(new)]
      /\ phase[i] = job[i].status /\ left[i] = Left(job[i])
  BY DEF Left
<1>3. Left(new) = Left(job[i]) => left' = left
  BY <1>2
<1> USE <1>2, <1>3 DEF Attempts!Enter
<1>4. CASE new.status = job[i].status /\ Left(new) = Left(job[i])
  <2>1. phase' = phase
    BY <1>4
  <2>2. QED
    BY <1>4, <2>1 DEF Attempts!vars
<1>5. CASE /\ job[i].status \in {"absent", "failed"} /\ new.status = "queued"
           /\ Left(new) \in Budgets
  <2>1. Attempts!Submit(i) \/ Attempts!Reopen(i)
    BY <1>5 DEF Attempts!Submit, Attempts!Reopen
  <2>2. QED
    BY <2>1 DEF Attempts!Next
<1>6. CASE /\ job[i].status \in {"queued", "running"} /\ Left(job[i]) > 0
           /\ new.status = "running" /\ Left(new) = Left(job[i]) - 1
  <2>1. Attempts!Start({i})
    BY <1>6 DEF Attempts!Start, Left
  <2>2. QED
    BY <2>1 DEF Attempts!Next
<1>7. CASE /\ job[i].status = "running" /\ Left(job[i]) > 0
           /\ new.status = "queued" /\ Left(new) = Left(job[i])
  <2>1. Attempts!Requeue(i)
    BY <1>7 DEF Attempts!Requeue
  <2>2. QED
    BY <2>1 DEF Attempts!Next
<1>8. CASE /\ job[i].status = "running" /\ Left(new) = Left(job[i])
           /\ \/ new.status = "completed"
              \/ /\ new.status = "failed"
                 /\ ExecutionMode = "background" \/ Left(job[i]) = 0
  <2>1. Attempts!Complete(i) \/ Attempts!Fail(i)
    BY <1>8 DEF Attempts!Complete, Attempts!Fail
  <2>2. QED
    BY <2>1 DEF Attempts!Next
<1>9. CASE /\ job[i].status \in {"queued", "running"} /\ new.status = "cancelled"
           /\ Left(new) = Left(job[i])
  <2>1. Attempts!Cancel(i)
    BY <1>9 DEF Attempts!Cancel
  <2>2. QED
    BY <2>1 DEF Attempts!Next
<1>10. QED
  BY <1>1, <1>4, <1>5, <1>6, <1>7, <1>8, <1>9 DEF RowMove

\* A claimed batch starts all of its jobs at once.
LEMMA ClaimStarts ==
  ASSUME TypeOK, RowsInv, NEW w \in Workers, ClaimQueued(w)
  PROVE  Attempts!Next
<1>1. PICK S \in SUBSET Candidates :
        job' = [j \in Jobs |-> IF j \in S THEN Taken(job[j], w) ELSE job[j]]
  BY DEF ClaimQueued
<1>2. ASSUME NEW j \in S
      PROVE  /\ job[j].status \in {"queued", "running"} /\ Left(job[j]) > 0
             /\ job'[j].status = "running" /\ Left(job'[j]) = Left(job[j]) - 1
  BY <1>1, TakenStarts DEF Candidates, TypeOK, RowsInv
<1>3. ASSUME NEW j \in Jobs, j \notin S
      PROVE  job'[j] = job[j]
  BY <1>1, <1>3
<1>4. Attempts!Start(S)
  BY <1>1, <1>2, <1>3 DEF Attempts!Start, Left, Candidates
<1>5. QED
  BY <1>4 DEF Attempts!Next, Candidates

\* Every step of a worker is a step of the life cycles or a stutter.
LEMMA WorkerStepImplements ==
  ASSUME TypeOK, TypeOK', RowsInv, TasksInBackgroundMode, [Next]_vars,
         NEW w \in Workers, WorkerStep(w)
  PROVE  [Attempts!Next]_(Attempts!vars)
<1>0. /\ job \in [Jobs -> Row] /\ job' \in [Jobs -> Row]
      /\ batch \in [Workers -> SUBSET Claim]
  BY DEF TypeOK
<1>1. CASE ClaimQueued(w)
  BY <1>1, ClaimStarts
<1>2. CASE RunSucceeds(w) \/ RunFails(w)
  <2>1. PICK c \in batch[w] :
          \/ CompletionRecorded(w, c.job) \/ AttemptFailureRecorded(w, c)
          \/ OutcomeRejected(w, c.job)
    BY <1>2 DEF RunSucceeds, RunFails
  <2>2. c.job \in Jobs
    BY <1>0 DEF Claim
  <2>3. \A j \in Jobs : j # c.job => job'[j] = job[j]
    BY <1>0, <2>1, <2>2 DEF CompletionRecorded, AttemptFailureRecorded,
                            OutcomeRejected
  <2>4. QED
    BY <1>0, <2>2, <2>3, NextRows, OneRowSteps
<1>3. CASE ReadJobAgain(w) \/ WorkerCrashes(w) \/ StaleLeaseElapses(w)
  BY <1>3 DEF ReadJobAgain, WorkerCrashes, StaleLeaseElapses, Attempts!vars
<1>4. QED
  BY <1>1, <1>2, <1>3 DEF WorkerStep

\* So is every step of the API, an operator or the clock.
LEMMA JobStepImplements ==
  ASSUME TypeOK, TypeOK', RowsInv, TasksInBackgroundMode, [Next]_vars,
         NEW i \in Jobs, JobStep(i)
  PROVE  [Attempts!Next]_(Attempts!vars)
<1>0. job \in [Jobs -> Row] /\ job' \in [Jobs -> Row]
  BY DEF TypeOK
<1>1. \A j \in Jobs : j # i => job'[j] = job[j]
  BY <1>0 DEF JobStep, SubmitJob, BackgroundStarts, BackgroundFinishes,
     BackgroundLost, RetryFailed, CancelJob, BackoffElapses, LeaseElapses
<1>2. QED
  BY <1>0, <1>1, NextRows, OneRowSteps

\* Whatever workers, background tasks, operators and clocks do, a client sees
\* the life cycle: work is paid for from the budget, nothing fails early, and
\* nothing that ended starts again unless an operator reopens it.
THEOREM QueueImplementsLifecycle == Spec => ImplementsLifecycle
<1>1. Init => Attempts!Init
  BY DEF Init, AbsentRow, Attempts!Init
<1>2. TypeOK /\ TypeOK' /\ RowsInv /\ TasksInBackgroundMode /\ [Next]_vars
        => [Attempts!Next]_(Attempts!vars)
  <2>1. CASE UNCHANGED vars
    BY <2>1 DEF vars, Attempts!vars
  <2>2. QED
    BY <2>1, WorkerStepImplements, JobStepImplements DEF Next
<1>3. QED
  BY <1>1, <1>2, TypeCorrect, RowsInvariant, TasksOnlyInBackgroundMode, PTL
     DEF Spec, ImplementsLifecycle, Attempts!Spec

-----------------------------------------------------------------------------
(* What JobSettles stands on: a job that has not ended is never out of      *)
(* every hand's reach, and it has only so many moves before it ends.        *)

\* A job that has not ended is one that claim_queued takes, or will take when
\* its delay or its lease is over, or somebody works on it, or it was orphaned
\* by an executor that died on its last attempt: no order of claims, failures,
\* late outcomes and lapsed leases leaves any other job behind.
NoJobIsStuck ==
  \A j \in Jobs : job[j].status \in {"queued", "running"} =>
    \/ Claimable(job[j]) \/ job[j].due = "later" \/ job[j].lease = "live"
    \/ Executing(j) \/ Orphaned(j)

\* claim_queued and its lease reach every job that has not ended, except those whose
\* executor died on the last attempt.
THEOREM UnfinishedJobsAreReachable == Spec => []NoJobIsStuck
<1>1. TypeOK /\ RowsInv => NoJobIsStuck
  <2> SUFFICES ASSUME TypeOK, RowsInv, NEW j \in Jobs,
                      job[j].status \in {"queued", "running"}
               PROVE  \/ Claimable(job[j]) \/ job[j].due = "later"
                      \/ job[j].lease = "live" \/ Executing(j) \/ Orphaned(j)
    BY DEF NoJobIsStuck
  <2>1. RowInv(job[j]) /\ job[j].lease \in {"none", "live", "expired"}
    BY DEF RowsInv, TypeOK, Row
  <2>2. CASE job[j].status = "queued"
    BY <2>1, <2>2 DEF RowInv, Claimable
  <2>3. CASE job[j].status = "running"
    BY <2>1, <2>3 DEF RowInv, Claimable, Orphaned
  <2>4. QED
    BY <2>2, <2>3
<1>2. QED
  BY <1>1, TypeCorrect, RowsInvariant, PTL

\* How many moves a job has left at most, unless an operator reopens it.
MovesLeft(row) ==
  CASE row.status = "running" -> 2 * Left(row) + 2
    [] row.status = "queued"  -> 2 * Left(row) + 1
    [] OTHER                  -> 0

\* Every move that a client may see takes a job nearer to its end, except its
\* submission and its manual retry: crashes, reclaims and retries cannot go on
\* for ever, because each is paid from the budget.
JobsRunOut ==
  [][\A j \in Jobs :
       \/ <<job'[j].status, Left(job'[j])>> = <<job[j].status, Left(job[j])>>
       \/ job[j].status \in {"absent", "failed"} /\ job'[j].status = "queued"
       \/ MovesLeft(job'[j]) < MovesLeft(job[j])]_vars

\* So does one row.
LEMMA MovesRunOut ==
  ASSUME NEW row \in Row, RowInv(row), NEW new, RowMove(row, new)
  PROVE  \/ <<new.status, Left(new)>> = <<row.status, Left(row)>>
         \/ row.status \in {"absent", "failed"} /\ new.status = "queued"
         \/ MovesLeft(new) < MovesLeft(row)
<1>1. Left(row) \in Nat
  BY DEF Row, RowInv, Left
<1>2. QED
  BY <1>1 DEF RowMove, MovesLeft

\* Claims, failures, reclaims and late outcomes can move a job only so often before
\* it ends or an operator reopens it.
THEOREM JobsEndOnTheirBudget == Spec => JobsRunOut
<1> DEFINE RunsOut(j) ==
      \/ <<job'[j].status, Left(job'[j])>> = <<job[j].status, Left(job[j])>>
      \/ job[j].status \in {"absent", "failed"} /\ job'[j].status = "queued"
      \/ MovesLeft(job'[j]) < MovesLeft(job[j])
<1>1. ASSUME TypeOK, RowsInv, TasksInBackgroundMode, [Next]_vars, NEW j \in Jobs
      PROVE  RunsOut(j)
  <2>1. job[j] \in Row /\ RowInv(job[j]) /\ RowChange(job[j], job'[j])
    BY <1>1, NextRows DEF TypeOK, RowsInv
  <2>2. RowMove(job[j], job'[j])
    BY <2>1, RowsMove
  <2>3. QED
    BY <2>1, <2>2, MovesRunOut
<1>2. TypeOK /\ RowsInv /\ TasksInBackgroundMode /\ [Next]_vars
        => [\A j \in Jobs : RunsOut(j)]_vars
  BY <1>1
<1>3. QED
  BY <1>2, TypeCorrect, RowsInvariant, TasksOnlyInBackgroundMode, PTL
     DEF Spec, JobsRunOut
=============================================================================
