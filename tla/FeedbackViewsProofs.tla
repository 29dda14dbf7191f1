--------------------------- MODULE FeedbackViewsProofs ---------------------------
(***************************************************************************)
(* Proofs of the properties of FeedbackViews, for any number of events,     *)
(* reviews, dry runs and hand-offs, and every limit the API accepts.        *)
(*                                                                          *)
(* The views choose rows, the newest, the last, the earliest, so the proofs *)
(* begin with the facts that a choice among numbers exists: the least       *)
(* number of a set, from the well-foundedness of < on Nat, and the greatest *)
(* one of a bounded set.  What the commands stand on is RunsInv: a row of   *)
(* dry runs belongs to an approved review, whoever recorded it and when.    *)
(***************************************************************************)
EXTENDS FeedbackViews, FeedbackLoopProofs, SequenceTheorems, WellFoundedInduction

-----------------------------------------------------------------------------
(* Choices.                                                                 *)

LEMMA LeastNumber ==
    ASSUME NEW S \in SUBSET Nat, S # {}
    PROVE  \E m \in S : \A j \in S : m <= j
  <1> DEFINE R == {p \in Nat \X Nat : p[1] < p[2]}
  <1>1. R = OpToRel(<, Nat)
    BY DEF OpToRel
  <1>2. IsWellFoundedOn(R, Nat)
    BY <1>1, NatLessThanWellFounded
  <1>3. PICK m \in S : \A j \in S : <<j, m>> \notin R
    <2> HIDE DEF R
    <2> QED
      BY <1>2, WFMin
  <1>4. ASSUME NEW j \in S PROVE m <= j
    <2>1. m \in Nat /\ j \in Nat /\ <<j, m>> \in Nat \X Nat
      OBVIOUS
    <2>2. ~(j < m)
      BY <1>3, <2>1
    <2> QED
      BY <2>1, <2>2
  <1> QED
    BY <1>4

LEMMA EarliestIs ==
    ASSUME NEW S \in SUBSET Nat, S # {}
    PROVE  Earliest(S) \in S /\ \A j \in S : Earliest(S) <= j
  BY LeastNumber DEF Earliest

LEMMA GreatestNumber ==
    ASSUME NEW S \in SUBSET Nat, S # {}, NEW b \in Nat, \A j \in S : j <= b
    PROVE  \E m \in S : \A j \in S : j <= m
  <1> DEFINE T == {b - j : j \in S}
  <1>1. T \in SUBSET Nat /\ T # {}
    <2>1. ASSUME NEW j \in S PROVE b - j \in Nat
      OBVIOUS
    <2>2. PICK j \in S : TRUE
      OBVIOUS
    <2>3. b - j \in T
      OBVIOUS
    <2> QED
      BY <2>1, <2>3
  <1>2. PICK t \in T : \A u \in T : t <= u
    <2> HIDE DEF T
    <2> QED
      BY <1>1, LeastNumber
  <1>3. PICK m \in S : t = b - m
    OBVIOUS
  <1>4. \A j \in S : b - m <= b - j
    BY <1>2, <1>3
  <1> QED
    BY <1>4

LEMMA LatestIs ==
    ASSUME NEW S \in SUBSET Nat, S # {}, NEW b \in Nat, \A j \in S : j <= b
    PROVE  Latest(S) \in S /\ \A j \in S : j <= Latest(S)
  BY GreatestNumber DEF Latest

\* A list is part of its table.
LEMMA NewestOf == \A S, n : Newest(S, n) \subseteq S
  BY DEF Newest

-----------------------------------------------------------------------------
(* Rows of dry runs.                                                        *)

Passing == {"passed", "failed"}

\* A row of dry runs is of an approved review, as reviews are when their plan
\* is run, and its last run is one that was computed.
RunRow(r) ==
    dryRuns[r] # NoRun =>
        /\ r \in DOMAIN reviews /\ reviews[r].decision = "approved"
        /\ dryRuns[r].status \in Passing /\ dryRuns[r].last <= computed

RunTask(o) ==
    task[o].step = "dry_run" =>
        reviews[task[o].write.review].decision = "approved" /\ task[o].write.at <= computed

RunsInv == (\A r \in 1 .. MaxReviews : RunRow(r)) /\ (\A o \in Operators : RunTask(o))

LEMMA RecordKeepsRuns ==
    ASSUME Inv, RunsInv, NEW e, NEW source, NEW draft, Record(e, source, draft)
    PROVE  RunsInv'
  <1>1. PICK v : reviews' = Append(reviews, v)
    BY DEF Record
  <1>2. UNCHANGED <<dryRuns, computed, task>>
    BY DEF Record
  <1>3. reviews \in Seq(ReviewRecord) /\ Len(reviews) \in Nat
    BY DEF Inv, TypeOK, LoopTypeOK
  <1>4. /\ \A q \in 1 .. Len(reviews) : reviews'[q] = reviews[q]
        /\ DOMAIN reviews = 1 .. Len(reviews) /\ DOMAIN reviews \subseteq DOMAIN reviews'
    BY <1>1, <1>3
  <1>5. ASSUME NEW r \in 1 .. MaxReviews PROVE RunRow(r)'
    BY <1>2, <1>4 DEF RunsInv, RunRow, NoRun
  <1>6. ASSUME NEW o \in Operators PROVE RunTask(o)'
    <2>1. task[o].step = "dry_run" => task[o].write.review \in 1 .. Len(reviews)
      BY TaskWrites DEF Inv, TypeOK, DryRunWrite
    <2> QED
      BY <1>2, <1>4, <2>1 DEF RunsInv, RunTask
  <1> QED
    BY <1>5, <1>6 DEF RunsInv

LEMMA DryRunKeepsRuns ==
    ASSUME Inv, RunsInv, NEW o \in Operators, NEW r \in DOMAIN reviews, NEW refused,
           DryRun(o, r, refused)
    PROVE  RunsInv'
  <1>1. computed \in Nat /\ computed' = computed + 1 /\ UNCHANGED <<reviews, dryRuns>>
    BY DEF DryRun, Inv, TypeOK, LoopTypeOK
  <1>2. DOMAIN task = Operators
    BY DEF Inv, TypeOK, LoopTypeOK
  <1>3. /\ task'[o].write.review = r /\ task'[o].write.at = computed'
        /\ \A q \in Operators \ {o} : task'[q] = task[q]
    BY <1>2 DEF DryRun, Begin
  <1>4. reviews[r].decision = "approved"
    BY DEF DryRun
  <1>5. \A q \in 1 .. MaxReviews : dryRuns[q].last \in Nat
    BY DEF Inv, TypeOK, LoopTypeOK, Run
  <1>6. ASSUME NEW q \in 1 .. MaxReviews PROVE RunRow(q)'
    BY <1>1, <1>5 DEF RunsInv, RunRow
  <1>7. ASSUME NEW q \in Operators PROVE RunTask(q)'
    <2>1. CASE q = o
      BY <1>1, <1>3, <1>4, <2>1 DEF RunTask
    <2>2. CASE q # o
      <3>1. task[q].step = "dry_run" => task[q].write.at \in Nat
        BY TaskWrites DEF Inv, TypeOK, DryRunWrite
      <3> QED
        BY <1>1, <1>3, <2>2, <3>1 DEF RunsInv, RunTask
    <2> QED
      BY <2>1, <2>2
  <1> QED
    BY <1>6, <1>7 DEF RunsInv

LEMMA RecordDryRunKeepsRuns ==
    ASSUME Inv, RunsInv, NEW o \in Operators, RecordDryRun(o)
    PROVE  RunsInv'
  <1>1. PICK run \in DryRunWrite : run = task[o].write
    BY TaskWrites DEF RecordDryRun, Inv, TypeOK
  <1>2. UNCHANGED <<reviews, computed>> /\ DOMAIN task = Operators
    BY DEF RecordDryRun, Inv, TypeOK, LoopTypeOK
  <1>3. reviews[run.review].decision = "approved" /\ run.at <= computed
    BY <1>1 DEF RunsInv, RunTask, RecordDryRun
  <1>4. run.review \in DOMAIN reviews /\ run.status \in Passing
    BY <1>1 DEF DryRunWrite, Passing, Inv, TypeOK, LoopTypeOK
  <1>5. DOMAIN dryRuns = 1 .. MaxReviews
    BY DEF Inv, TypeOK, LoopTypeOK
  <1>6. \A r \in 1 .. MaxReviews :
           IF r = run.review THEN dryRuns'[r].last = run.at /\ dryRuns'[r].status = run.status
                             ELSE dryRuns'[r] = dryRuns[r]
    BY <1>1, <1>5 DEF RecordDryRun
  <1>7. ASSUME NEW r \in 1 .. MaxReviews PROVE RunRow(r)'
    <2>1. CASE r = run.review
      BY <1>2, <1>3, <1>4, <1>6, <2>1 DEF RunRow
    <2>2. CASE r # run.review
      BY <1>2, <1>6, <2>2 DEF RunsInv, RunRow, NoRun
    <2> QED
      BY <2>1, <2>2
  <1>8. ASSUME NEW q \in Operators PROVE RunTask(q)'
    <2>1. task'[o].step = "idle" /\ \A p \in Operators \ {o} : task'[p] = task[p]
      BY <1>2 DEF RecordDryRun, Ended
    <2> QED
      BY <1>2, <2>1 DEF RunsInv, RunTask
  <1> QED
    BY <1>7, <1>8 DEF RunsInv

\* The other requests touch neither the table nor the runs on their way to it.
LEMMA OthersKeepRuns ==
    ASSUME Inv, RunsInv, NEW o \in Operators, UNCHANGED <<reviews, dryRuns, computed>>,
           task'[o].step # "dry_run", \A q \in Operators \ {o} : task'[q] = task[q]
    PROVE  RunsInv'
  <1>1. \A r \in 1 .. MaxReviews : RunRow(r)'
    BY DEF RunsInv, RunRow
  <1>2. \A q \in Operators : RunTask(q)'
    BY DEF RunsInv, RunTask
  <1> QED
    BY <1>1, <1>2 DEF RunsInv

LEMMA OperationKeepsRuns ==
    ASSUME Inv, RunsInv, NEW o \in Operators, Operation(o)
    PROVE  RunsInv'
  <1>0. DOMAIN task = Operators
    BY DEF Inv, TypeOK, LoopTypeOK
  <1>1. ASSUME NEW r \in DOMAIN reviews, NEW refused, DryRun(o, r, refused) PROVE RunsInv'
    BY <1>1, DryRunKeepsRuns
  <1>2. ASSUME NEW r \in DOMAIN reviews, NEW h, NEW s, Handoff(o, r, h, s) PROVE RunsInv'
    <2>1. task'[o].step = "handoff" /\ \A q \in Operators \ {o} : task'[q] = task[q]
      BY <1>0, <1>2 DEF Handoff, Begin
    <2> QED
      BY <1>2, <2>1, OthersKeepRuns DEF Handoff
  <1>3. ASSUME RecordHandoff(o) PROVE RunsInv'
    <2>1. task'[o].step = "memory" /\ \A q \in Operators \ {o} : task'[q] = task[q]
      BY <1>0, <1>3 DEF RecordHandoff
    <2> QED
      BY <1>3, <2>1, OthersKeepRuns DEF RecordHandoff
  <1>4. ASSUME RememberHandoff(o) \/ OperatorCrash(o) PROVE RunsInv'
    <2>1. task'[o].step = "idle" /\ \A q \in Operators \ {o} : task'[q] = task[q]
      BY <1>0, <1>4 DEF RememberHandoff, OperatorCrash, Ended
    <2> QED
      BY <1>4, <2>1, OthersKeepRuns DEF RememberHandoff, OperatorCrash
  <1> QED
    BY <1>1, <1>2, <1>3, <1>4, RecordDryRunKeepsRuns DEF Operation

LEMMA RunsInvHolds == Spec => [](Inv /\ RunsInv)
  <1>1. Init => RunsInv
    BY DEF Init, LoopInit, RunsInv, RunRow, RunTask
  <1>2. Inv /\ RunsInv /\ [Next]_vars => RunsInv'
    <2> SUFFICES ASSUME Inv, RunsInv, [Next]_vars PROVE RunsInv'
      OBVIOUS
    <2>1. CASE UNCHANGED loopVars
      BY <2>1 DEF loopVars, RunsInv, RunRow, RunTask
    <2>2. ASSUME NEW e \in EventIds, Review(e) PROVE RunsInv'
      BY <2>2, RecordKeepsRuns DEF Review
    <2>3. ASSUME NEW r \in DOMAIN reviews, ReviewRevision(r) PROVE RunsInv'
      BY <2>3, RecordKeepsRuns DEF ReviewRevision
    <2> QED
      BY <2>1, <2>2, <2>3, OperationKeepsRuns DEF Next, vars
  <1> QED
    BY <1>1, <1>2, InitInv, NextInv, PTL DEF Spec

-----------------------------------------------------------------------------
(* The rows a summary points to.                                            *)

LEMMA ReviewRows ==
    ASSUME Inv, NEW e, NEW n
    PROVE  /\ ReviewsOf(e) \subseteq 1 .. Len(reviews) /\ Len(reviews) \in Nat
           /\ ReviewsOf(e) \in SUBSET Nat /\ IsFiniteSet(ReviewsOf(e))
           /\ HandoffsOf(e) \subseteq 1 .. Len(handoffs) /\ Len(handoffs) \in Nat
           /\ RunsOf(e, n) \subseteq {r \in ReviewsOf(e) : dryRuns[r] # NoRun}
  <1>1. DOMAIN reviews = 1 .. Len(reviews) /\ Len(reviews) \in Nat
    BY DEF Inv, TypeOK, LoopTypeOK
  <1>2. DOMAIN handoffs = 1 .. Len(handoffs) /\ Len(handoffs) \in Nat
    BY DEF Inv, TypeOK, LoopTypeOK
  <1>3. ReviewsOf(e) \subseteq 1 .. Len(reviews) /\ HandoffsOf(e) \subseteq 1 .. Len(handoffs)
    BY <1>1, <1>2 DEF ReviewsOf, HandoffsOf
  <1>4. IsFiniteSet(ReviewsOf(e))
    <2>1. IsFiniteSet(1 .. Len(reviews))
      BY <1>1, FS_Interval
    <2> QED
      BY <1>3, <2>1, FS_Subset
  <1> QED
    BY <1>1, <1>2, <1>3, <1>4 DEF RunsOf

LEMMA LatestReview ==
    ASSUME Inv, NEW e, Latest(ReviewsOf(e)) # 0
    PROVE  Latest(ReviewsOf(e)) \in 1 .. Len(reviews)
  <1>1. ReviewsOf(e) # {}
    BY DEF Latest
  <1>2. ReviewsOf(e) \in SUBSET Nat /\ \A r \in ReviewsOf(e) : r <= Len(reviews)
    BY ReviewRows
  <1> QED
    BY <1>1, <1>2, ReviewRows, LatestIs

LEMMA LatestHandoff ==
    ASSUME Inv, NEW e, Latest(HandoffsOf(e)) # 0
    PROVE  Latest(HandoffsOf(e)) \in 1 .. Len(handoffs)
  <1>1. HandoffsOf(e) # {}
    BY DEF Latest
  <1>2. HandoffsOf(e) \in SUBSET Nat /\ \A h \in HandoffsOf(e) : h <= Len(handoffs)
    BY ReviewRows
  <1> QED
    BY <1>1, <1>2, ReviewRows, LatestIs

\* The last run's row is there, and of an approved review.
LEMMA LatestRunRow ==
    ASSUME Inv, RunsInv, NEW e, NEW n, LatestRun(e, n) # 0
    PROVE  LET r == LatestRun(e, n)
           IN /\ r \in 1 .. Len(reviews) /\ Approved(r)
              /\ dryRuns[r] # NoRun /\ dryRuns[r].status \in Passing
  <1> DEFINE R == RunsOf(e, n)
             L == {dryRuns[r].last : r \in R}
  <1>1. R # {}
    BY DEF LatestRun
  <1>2. ASSUME NEW r \in R
        PROVE  /\ r \in 1 .. Len(reviews) /\ Approved(r) /\ dryRuns[r] # NoRun
               /\ dryRuns[r].status \in Passing /\ dryRuns[r].last \in Nat
               /\ dryRuns[r].last <= computed
    <2>1. r \in 1 .. Len(reviews) /\ dryRuns[r] # NoRun
      BY ReviewRows
    <2>2. r \in 1 .. MaxReviews
      BY <2>1, ReviewRows, BoundsAssumption DEF Inv
    <2>3. dryRuns[r] \in Run
      BY <2>2 DEF Inv, TypeOK, LoopTypeOK
    <2> QED
      BY <2>1, <2>2, <2>3 DEF RunsInv, RunRow, Run, Approved
  <1>3. computed \in Nat /\ L \in SUBSET Nat /\ L # {} /\ \A l \in L : l <= computed
    <2>1. computed \in Nat
      BY DEF Inv, TypeOK, LoopTypeOK
    <2> QED
      BY <1>1, <1>2, <2>1
  <1>4. PICK m \in L : \A l \in L : l <= m
    <2> HIDE DEF L
    <2> QED
      BY <1>3, GreatestNumber
  <1>5. \E r \in R : \A q \in R : dryRuns[q].last <= dryRuns[r].last
    BY <1>4
  <1>6. LatestRun(e, n) \in R
    BY <1>1, <1>5 DEF LatestRun
  <1> HIDE DEF R
  <1> QED
    BY <1>2, <1>6

\* The last review that is ready is one of those that are.
LEMMA LastReadyIsReady ==
    ASSUME Inv, NEW e, NEW n, LastReady(e, n) # 0
    PROVE  LastReady(e, n) \in ReadyIds(e, n) /\ LastReady(e, n) \in DOMAIN reviews
  <1> DEFINE ready   == ReadyIds(e, n)
             newest  == Newest(ReviewsOf(e), n)
             With(q) == Latest({r \in newest : q \in Lineage(r)})
             withs   == {With(q) : q \in ready}
             review  == Earliest(withs)
             added   == {q \in ready : With(q) = review}
  <1>1. LastReady(e, n) = CASE ready = {} -> 0
                            [] ready # {} /\ added = {Source(review)} -> Source(review)
                            [] OTHER -> Earliest(added \ {Source(review)})
    BY DEF LastReady
  <1>2. ready # {}
    BY <1>1
  <1>3. newest \in SUBSET Nat /\ \A r \in newest : r <= Len(reviews)
    BY ReviewRows, NewestOf
  <1>4. withs \in SUBSET Nat /\ withs # {}
    <2>1. ASSUME NEW q \in ready PROVE With(q) \in Nat
      <3> DEFINE with == {r \in newest : q \in Lineage(r)}
      <3>1. with \in SUBSET Nat /\ \A r \in with : r <= Len(reviews)
        BY <1>3
      <3>2. CASE with = {}
        BY <3>2 DEF Latest
      <3>3. CASE with # {}
        <4> HIDE DEF with
        <4>1. Latest(with) \in with
          BY <3>1, <3>3, ReviewRows, LatestIs
        <4> QED
          BY <3>1, <4>1 DEF with
      <3> QED
        BY <3>2, <3>3
    <2> HIDE DEF With
    <2> QED
      BY <1>2, <2>1
  <1>5. review \in withs
    <2> HIDE DEF withs
    <2> QED
      BY <1>4, EarliestIs
  <1>6. added # {} /\ added \subseteq ready
    <2> HIDE DEF With
    <2> QED
      BY <1>5
  <1>7. ready \subseteq DOMAIN reviews /\ ready \in SUBSET Nat
    <2>1. DOMAIN reviews = 1 .. Len(reviews) /\ Len(reviews) \in Nat
      BY DEF Inv, TypeOK, LoopTypeOK
    <2>2. ASSUME NEW r \in newest PROVE Lineage(r) \subseteq DOMAIN reviews
      <3>1. r \in DOMAIN reviews
        BY <2>1, ReviewRows, NewestOf
      <3>2. Source(r) \in DOMAIN reviews
        BY <2>1, <3>1 DEF Source, Inv, Lawful, FromSource
      <3> QED
        BY <3>2 DEF Lineage, Newest
    <2> QED
      BY <2>1, <2>2 DEF ReadyIds
  <1>8. CASE added = {Source(review)}
    <2>1. LastReady(e, n) = Source(review)
      BY <1>1, <1>2, <1>8
    <2> QED
      BY <1>6, <1>7, <1>8, <2>1
  <1>9. CASE added # {Source(review)}
    <2> DEFINE rest == added \ {Source(review)}
    <2>1. LastReady(e, n) = Earliest(rest)
      BY <1>1, <1>2, <1>9
    <2>2. rest \in SUBSET Nat /\ rest # {}
      BY <1>6, <1>7, <1>9
    <2>3. Earliest(rest) \in rest
      <3> HIDE DEF rest
      <3> QED
        BY <2>2, EarliestIs
    <2> QED
      BY <1>6, <1>7, <2>1, <2>3
  <1> QED
    BY <1>8, <1>9

LEMMA LastReadyRow ==
    ASSUME Inv, NEW e, NEW n, LastReady(e, n) # 0
    PROVE  LastReady(e, n) \in DOMAIN reviews /\ Approved(LastReady(e, n))
  BY LastReadyIsReady DEF ReadyIds

-----------------------------------------------------------------------------
(* Stages, and what the rows of each are.                                   *)

\* What a handler needs of the rows of the stage that a summary is in.
Grounded(s) ==
    /\ s.event \in Stored
    /\ s.stage = "revision_requested" => GetRevisionDraft(s.review)
    /\ s.stage = "execution_ready" => GetExecutionPlan(ExecutionReview(s))
    /\ s.stage = "dry_run_passed" =>
          GetExecutionPlan(s.run) /\ s.run \in DOMAIN dryRuns /\ dryRuns[s.run].status = "passed"
    /\ s.stage = "dry_run_failed" =>
          s.run \in DOMAIN dryRuns /\ dryRuns[s.run].status = "failed"
    /\ s.stage \in {"handoff_applied", "handoff_blocked", "handoff_skipped"} =>
          GetHandoffRecord(s.handoff)

Stages == {"review_pending", "revision_requested", "rejected", "execution_ready",
           "dry_run_passed", "dry_run_failed",
           "handoff_applied", "handoff_blocked", "handoff_skipped"}

LEMMA SummaryIsGrounded ==
    ASSUME Inv, RunsInv, NEW e \in Stored, NEW n
    PROVE  LoopSummary(e, n).stage \in Stages /\ Grounded(LoopSummary(e, n))
  <1> DEFINE review  == Latest(ReviewsOf(e))
             ready   == LastReady(e, n)
             run     == LatestRun(e, n)
             handoff == Latest(HandoffsOf(e))
             stage   == CurrentStage(review, ready, run, handoff)
  <1>1. LoopSummary(e, n) = [event |-> e, review |-> review, ready |-> ready, run |-> run,
                             handoff |-> handoff, stage |-> stage]
    BY DEF LoopSummary
  <1>2. DOMAIN reviews = 1 .. Len(reviews) /\ DOMAIN handoffs = 1 .. Len(handoffs)
    BY DEF Inv, TypeOK, LoopTypeOK
  <1>3. /\ review # 0 => review \in DOMAIN reviews
        /\ ready # 0 => ready \in DOMAIN reviews /\ Approved(ready)
        /\ handoff # 0 => handoff \in DOMAIN handoffs
    BY <1>2, LatestReview, LastReadyRow, LatestHandoff
  <1>4. run # 0 => /\ run \in DOMAIN reviews /\ Approved(run) /\ run \in DOMAIN dryRuns
                   /\ dryRuns[run].status \in Passing
    <2>1. run # 0 => run \in DOMAIN reviews /\ Approved(run) /\ dryRuns[run].status \in Passing
      BY <1>2, LatestRunRow
    <2>2. DOMAIN reviews \subseteq DOMAIN dryRuns
      BY <1>2, BoundsAssumption, ReviewRows DEF Inv, TypeOK, LoopTypeOK
    <2> QED
      BY <2>1, <2>2
  <1> HIDE DEF review, ready, run, handoff
  <1>5. CASE handoff # 0
    <2>1. handoffs[handoff].outcome \in HandoffOutcome
      <3>1. handoffs[handoff] \in HandoffRecord
        BY <1>3, <1>5 DEF Inv, TypeOK, LoopTypeOK
      <3> QED
        BY <3>1 DEF HandoffRecord
    <2>2. stage \in {"handoff_applied", "handoff_blocked", "handoff_skipped"}
      BY <1>5, <2>1 DEF CurrentStage, HandoffStage, HandoffOutcome
    <2> QED
      BY <1>1, <1>3, <1>5, <2>2 DEF Stages, Grounded, GetHandoffRecord
  <1>6. CASE handoff = 0 /\ run # 0
    <2>1. \/ stage = "dry_run_passed" /\ dryRuns[run].status = "passed"
          \/ stage = "dry_run_failed" /\ dryRuns[run].status = "failed"
      BY <1>4, <1>6 DEF CurrentStage, DryRunStage, Passing
    <2> QED
      BY <1>1, <1>4, <1>6, <2>1 DEF Stages, Grounded, GetExecutionPlan
  <1>7. CASE handoff = 0 /\ run = 0 /\ ready # 0
    <2>1. stage = "execution_ready"
      BY <1>7 DEF CurrentStage
    <2>2. ExecutionReview(LoopSummary(e, n)) = ready
      BY <1>1, <1>7 DEF ExecutionReview
    <2> QED
      BY <1>1, <1>3, <1>7, <2>1, <2>2 DEF Stages, Grounded, GetExecutionPlan
  <1>8. CASE handoff = 0 /\ run = 0 /\ ready = 0 /\ review # 0
    <2>1. \/ stage = "revision_requested" /\ reviews[review].decision = "needs_revision"
          \/ stage = "rejected"
      BY <1>8 DEF CurrentStage
    <2> QED
      BY <1>1, <1>3, <1>8, <2>1 DEF Stages, Grounded, GetRevisionDraft
  <1>9. CASE handoff = 0 /\ run = 0 /\ ready = 0 /\ review = 0
    <2>1. stage = "review_pending"
      BY <1>9 DEF CurrentStage
    <2> QED
      BY <1>1, <2>1 DEF Stages, Grounded
  <1> QED
    BY <1>5, <1>6, <1>7, <1>8, <1>9

Statuses == {"no_followup_event", "improved", "regressed", "insufficient_data", "mixed"}

\* A report that compares has a follow-up, which is stored.
LEMMA ReportIsGrounded ==
    ASSUME Inv, NEW e \in Stored, NEW n
    PROVE  LET report == OutcomeReport(e, n)
           IN /\ report.status \in Statuses
              /\ report.status # "no_followup_event" => report.followup \in Stored
              /\ report.followup # 0 => report.followup \in Stored
  <1> DEFINE events == {f \in EventIds : stored[f] # NoPayload}
             later  == {f \in Newest(events, n) : f > e}
             next   == FollowupEvent(e, n)
  <1>1. later \subseteq Stored /\ later \in SUBSET Nat
    BY NewestOf, EventIdsAssumption DEF Stored
  <1>2. next = IF later = {} THEN 0 ELSE Earliest(later)
    BY DEF FollowupEvent
  <1>3. next # 0 => next \in Stored
    <2> HIDE DEF later
    <2> QED
      BY <1>1, <1>2, EarliestIs
  <1>4. OutcomeReport(e, n) =
           [followup |-> next,
            status |-> IF next = 0 THEN "no_followup_event" ELSE Between[stored[e]][stored[next]]]
    BY DEF OutcomeReport
  <1>5. next # 0 => Between[stored[e]][stored[next]] \in Statuses \ {"no_followup_event"}
    <2>1. \A f \in Stored : stored[f] \in Payloads
      BY DEF Stored, Inv, TypeOK, HistoryTypeOK
    <2>2. \A p, q \in Payloads : Between[p][q] = Outcome(Snapshot[p], Snapshot[q])
      BY DEF Between
    <2>3. \A s, t : Outcome(s, t) \in Statuses \ {"no_followup_event"}
      BY DEF Outcome, Statuses
    <2> QED
      BY <1>3, <2>1, <2>2, <2>3
  <1> HIDE DEF next
  <1>6. OutcomeReport(e, n).followup = next /\ OutcomeReport(e, n).status \in Statuses
    BY <1>4, <1>5 DEF Statuses
  <1>7. OutcomeReport(e, n).status # "no_followup_event" => next # 0
    BY <1>4
  <1> QED
    BY <1>3, <1>6, <1>7

-----------------------------------------------------------------------------
(* Commands.                                                                *)

\* The reading commands of an event.
Readings == {"inspect_optimization_draft", "review_optimization_draft",
             "record_next_performance_event", "inspect_feedback_outcome_report",
             "inspect_followup_action_plan", "inspect_followup_optimization_draft",
             "review_followup_optimization_draft", "inspect_feedback_loop_summary",
             "inspect_feedback_loop_timeline"}

Names == Readings \cup {"generate_revision_draft", "submit_revision_review",
                        "inspect_execution_plan", "run_execution_dry_run",
                        "get_handoff_package", "submit_handoff_record",
                        "inspect_failed_dry_run", "inspect_handoff_record"}

\* Commands whose handlers accept them.
Accepted == {c \in [what : Names, target : Nat] : Accepts(c)}

\* Which handler a command is for.
LEMMA HandlerOf ==
    ASSUME NEW t
    PROVE  /\ GetRevisionDraft(t) => Accepts(Do("generate_revision_draft", t))
           /\ GetRevisionDraft(t) => Accepts(Do("submit_revision_review", t))
           /\ GetExecutionPlan(t) => Accepts(Do("inspect_execution_plan", t))
           /\ GetExecutionPlan(t) => Accepts(Do("run_execution_dry_run", t))
           /\ GetHandoffPackage(t) => Accepts(Do("get_handoff_package", t))
           /\ GetHandoffPackage(t) /\ Acceptable(t, dryRuns[t], "applied", Steps(t)) =>
                 Accepts(Do("submit_handoff_record", t))
           /\ GetDryRun(t) /\ dryRuns[t].status = "failed" =>
                 Accepts(Do("inspect_failed_dry_run", t))
           /\ GetHandoffRecord(t) => Accepts(Do("inspect_handoff_record", t))
           /\ \A what \in Readings : t \in Stored => Accepts(Do(what, t))
  BY DEF Do, Accepts, Readings

LEMMA AcceptedCommand ==
    ASSUME NEW what \in Names, NEW t \in Nat, Accepts(Do(what, t))
    PROVE  Do(what, t) \in Accepted
  <1>1. Do(what, t) \in [what : Names, target : Nat]
    BY DEF Do
  <1> QED
    BY <1>1 DEF Accepted

LEMMA ReadingsAccepted ==
    ASSUME NEW e \in Stored, NEW what \in Readings
    PROVE  Do(what, e) \in Accepted
  <1>1. e \in Nat /\ what \in Names
    BY EventIdsAssumption DEF Names, Stored
  <1> QED
    BY <1>1, HandlerOf, AcceptedCommand

LEMMA ReviewCommandsAccepted ==
    ASSUME Inv, NEW r
    PROVE  /\ GetRevisionDraft(r) =>
                 /\ Do("generate_revision_draft", r) \in Accepted
                 /\ Do("submit_revision_review", r) \in Accepted
           /\ GetExecutionPlan(r) =>
                 /\ Do("inspect_execution_plan", r) \in Accepted
                 /\ Do("run_execution_dry_run", r) \in Accepted
                 /\ Do("get_handoff_package", r) \in Accepted
  <1>1. DOMAIN reviews \subseteq Nat
    BY DEF Inv, TypeOK, LoopTypeOK
  <1>2. GetRevisionDraft(r) \/ GetExecutionPlan(r) => r \in Nat
    BY <1>1 DEF GetRevisionDraft, GetExecutionPlan
  <1>3. GetExecutionPlan(r) => GetHandoffPackage(r)
    BY DEF GetHandoffPackage
  <1> QED
    BY <1>2, <1>3, HandlerOf, AcceptedCommand DEF Names

LEMMA RunCommandsAccepted ==
    ASSUME Inv, NEW r \in DOMAIN dryRuns
    PROVE  /\ GetExecutionPlan(r) /\ dryRuns[r].status = "passed" =>
                 Do("submit_handoff_record", r) \in Accepted
           /\ dryRuns[r].status = "failed" => Do("inspect_failed_dry_run", r) \in Accepted
  <1>1. r \in Nat
    BY DEF Inv, TypeOK, LoopTypeOK
  <1>2. dryRuns[r].status = "passed" => Acceptable(r, dryRuns[r], "applied", Steps(r))
    BY DEF Acceptable, PackageStatus
  <1>3. GetExecutionPlan(r) => GetHandoffPackage(r)
    BY DEF GetHandoffPackage
  <1>4. dryRuns[r].status = "failed" => GetDryRun(r)
    BY DEF GetDryRun, NoRun
  <1> QED
    BY <1>1, <1>2, <1>3, <1>4, HandlerOf, AcceptedCommand DEF Names

LEMMA HandoffCommandsAccepted ==
    ASSUME Inv, NEW h, GetHandoffRecord(h)
    PROVE  Do("inspect_handoff_record", h) \in Accepted
  <1>1. h \in Nat
    BY DEF GetHandoffRecord, Inv, TypeOK, LoopTypeOK
  <1> QED
    BY <1>1, HandlerOf, AcceptedCommand DEF Names

LEMMA Listed ==
    ASSUME NEW S
    PROVE  /\ <<>> \in Seq(S)
           /\ \A a \in S : <<a>> \in Seq(S) \ {<<>>}
           /\ \A a, b \in S : <<a, b>> \in Seq(S) \ {<<>>}
           /\ \A a, b, c, d \in S : <<a, b, c, d>> \in Seq(S) \ {<<>>}
  OBVIOUS

LEMMA StageCommandsAccepted ==
    ASSUME Inv, NEW s, s.stage \in Stages, Grounded(s), NEW report,
           report.status \in Statuses,
           report.status # "no_followup_event" => report.followup \in Stored
    PROVE  StageCommands(s, report) \in Seq(Accepted) \ {<<>>}
  <1> DEFINE stage == CommandCenterStage(s, report)
  <1>1. s.event \in Stored
    BY DEF Grounded
  <1>2. /\ InspectDraft(s) \in Accepted /\ NextEvent(s) \in Accepted
        /\ InspectOutcome(s) \in Accepted
        /\ Do("review_optimization_draft", s.event) \in Accepted
    BY <1>1, ReadingsAccepted DEF InspectDraft, NextEvent, InspectOutcome, Readings
  <1>3. CASE stage = "outcome"
    <2>1. report.followup \in Stored
      BY <1>3 DEF CommandCenterStage, Stages
    <2>2. /\ FollowupActionPlan(report) \in Accepted /\ FollowupDraft(report) \in Accepted
          /\ ReviewFollowupDraft(report) \in Accepted
      BY <2>1, ReadingsAccepted
      DEF FollowupActionPlan, FollowupDraft, ReviewFollowupDraft, Readings
    <2>3. OutcomeCommands(s, report) \in Seq(Accepted) \ {<<>>}
      BY <1>2, <2>2, Listed DEF OutcomeCommands
    <2> QED
      BY <1>3, <2>3 DEF StageCommands
  <1>4. stage # "outcome" => stage = s.stage
    BY DEF CommandCenterStage
  <1>5. CASE stage = "review_pending"
    <2>1. ReviewPending(s) \in Seq(Accepted) \ {<<>>}
      BY <1>2, Listed DEF ReviewPending
    <2> QED
      BY <1>5, <2>1 DEF StageCommands
  <1>6. CASE stage = "revision_requested"
    <2>1. RevisionRequested(s) \in Seq(Accepted) \ {<<>>}
      BY <1>4, <1>6, ReviewCommandsAccepted, Listed DEF RevisionRequested, Grounded
    <2> QED
      BY <1>6, <2>1 DEF StageCommands
  <1>7. CASE stage = "rejected"
    <2>1. Rejected(s) \in Seq(Accepted) \ {<<>>}
      BY <1>2, Listed DEF Rejected
    <2> QED
      BY <1>7, <2>1 DEF StageCommands
  <1>8. CASE stage = "execution_ready"
    <2>1. ExecutionReady(s) \in Seq(Accepted) \ {<<>>}
      BY <1>4, <1>8, ReviewCommandsAccepted, Listed DEF ExecutionReady, Grounded
    <2> QED
      BY <1>8, <2>1 DEF StageCommands
  <1>9. CASE stage = "dry_run_passed"
    <2>1. DryRunPassed(s) \in Seq(Accepted) \ {<<>>}
      BY <1>4, <1>9, ReviewCommandsAccepted, RunCommandsAccepted, Listed
      DEF DryRunPassed, Grounded
    <2> QED
      BY <1>9, <2>1 DEF StageCommands
  <1>10. CASE stage = "dry_run_failed"
    <2>1. DryRunFailed(s) \in Seq(Accepted) \ {<<>>}
      BY <1>4, <1>10, RunCommandsAccepted, Listed DEF DryRunFailed, Grounded
    <2> QED
      BY <1>10, <2>1 DEF StageCommands
  <1>11. CASE stage = "handoff_applied"
    <2>1. <<NextEvent(s)>> \in Seq(Accepted) \ {<<>>}
      BY <1>2, Listed
    <2> QED
      BY <1>11, <2>1 DEF StageCommands
  <1>12. CASE stage \in {"handoff_blocked", "handoff_skipped"}
    <2>1. InspectHandoff(s) \in Accepted
      BY <1>4, <1>12, HandoffCommandsAccepted DEF InspectHandoff, Grounded
    <2>2. HandoffBlocked(s) \in Seq(Accepted) \ {<<>>}
      BY <1>2, <2>1, Listed DEF HandoffBlocked
    <2>3. HandoffSkipped(s) \in Seq(Accepted) \ {<<>>}
      BY <1>2, <2>1, Listed DEF HandoffSkipped
    <2> QED
      BY <1>12, <2>2, <2>3 DEF StageCommands
  <1> QED
    BY <1>3, <1>4, <1>5, <1>6, <1>7, <1>8, <1>9, <1>10, <1>11, <1>12 DEF Stages

\* The command center.
LEMMA CommandsAccepted ==
    ASSUME Inv, RunsInv, NEW e \in Stored, NEW n
    PROVE  Commands(e, n) \in Seq(Accepted) \ {<<>>}
  <1> DEFINE s        == LoopSummary(e, n)
             report   == OutcomeReport(e, n)
             commands == StageCommands(s, report)
             others   == Inspections(s)
             outcome  == InspectionOfOutcome(s, commands)
  <1>1. s.stage \in Stages /\ Grounded(s)
    BY SummaryIsGrounded
  <1>2. /\ report.status \in Statuses
        /\ report.status # "no_followup_event" => report.followup \in Stored
    BY ReportIsGrounded
  <1>3. commands \in Seq(Accepted) \ {<<>>}
    <2> HIDE DEF s, report
    <2> QED
      BY <1>1, <1>2, StageCommandsAccepted
  <1>4. s.event \in Stored
    BY <1>1 DEF Grounded
  <1>5. others \in Seq(Accepted)
    <2> HIDE DEF s
    <2>1. /\ Do("inspect_feedback_loop_summary", s.event) \in Accepted
          /\ Do("inspect_feedback_loop_timeline", s.event) \in Accepted
      BY <1>4, ReadingsAccepted DEF Readings
    <2> QED
      BY <2>1, Listed DEF Inspections
  <1>6. outcome \in Seq(Accepted)
    <2> HIDE DEF s, commands
    <2>1. InspectOutcome(s) \in Accepted
      BY <1>4, ReadingsAccepted DEF InspectOutcome, Readings
    <2> QED
      BY <2>1, Listed DEF InspectionOfOutcome
  <1>7. Commands(e, n) = commands \o others \o outcome
    BY DEF Commands
  <1> HIDE DEF commands, others, outcome
  <1>8. commands \o others \in Seq(Accepted) \ {<<>>}
    BY <1>3, <1>5, ConcatProperties, ConcatEqualIffEmpty
  <1> QED
    BY <1>6, <1>7, <1>8, ConcatProperties, ConcatEqualIffEmpty

\* A command that matches is one of those it is chosen from.
LEMMA MatchingChooses ==
    ASSUME NEW S, NEW commands \in Seq(S), NEW T, NEW ids \in Seq(T)
    PROVE  Matching(commands, ids) \in Seq(S)
  <1> DEFINE named == {i \in DOMAIN ids : \E k \in DOMAIN commands : commands[k].what = ids[i]}
             name  == ids[Earliest(named)]
             which == {k \in DOMAIN commands : commands[k].what = name}
  <1>1. Matching(commands, ids) =
           IF named = {} THEN <<>> ELSE <<commands[Earliest(which)]>>
    BY DEF Matching
  <1>2. CASE named = {}
    BY <1>1, <1>2, Listed
  <1>3. CASE named # {}
    <2>1. named \in SUBSET Nat /\ DOMAIN commands \subseteq Nat
      OBVIOUS
    <2>2. Earliest(named) \in named
      <3> HIDE DEF named
      <3> QED
        BY <1>3, <2>1, EarliestIs
    <2>3. which \in SUBSET Nat /\ which # {}
      BY <2>1, <2>2
    <2>4. Earliest(which) \in which
      <3> HIDE DEF which
      <3> QED
        BY <2>3, EarliestIs
    <2>5. commands[Earliest(which)] \in S
      BY <2>4
    <2> QED
      BY <1>1, <1>3, <2>5, Listed
  <1> QED
    BY <1>2, <1>3

\* The chain recommends a command of the loop or of the follow-up's.
LEMMA RecommendedChooses ==
    ASSUME NEW S, NEW commands \in Seq(S) \ {<<>>}, NEW later \in Seq(S), NEW focus
    PROVE  RecommendedCommand(focus, commands, later) \in S
  <1> DEFINE a == Matching(commands, BaselineCommandIds(focus))
             b == Matching(later, FollowupCommandIds(focus))
  <1>1. a \in Seq(S)
    <2>1. BaselineCommandIds(focus) \in Seq(Names)
      <3>1. BaselineCommandIds(focus) \in {<<>>, <<"record_next_performance_event">>,
                                          <<"review_followup_optimization_draft">>}
        BY DEF BaselineCommandIds
      <3>2. {"record_next_performance_event", "review_followup_optimization_draft"} \subseteq Names
        BY DEF Names, Readings
      <3> QED
        BY <3>1, <3>2, Listed
    <2> QED
      BY <2>1, MatchingChooses
  <1>2. b \in Seq(S)
    <2>1. FollowupCommandIds(focus) \in Seq(Names)
      <3>1. FollowupCommandIds(focus) \in
               {<<>>, <<"review_optimization_draft", "inspect_optimization_draft">>,
                <<"generate_revision_draft">>, <<"run_execution_dry_run">>,
                <<"inspect_failed_dry_run">>, <<"get_handoff_package">>,
                <<"record_next_performance_event", "inspect_handoff_record">>}
        BY DEF FollowupCommandIds
      <3>2. {"review_optimization_draft", "inspect_optimization_draft", "generate_revision_draft",
             "run_execution_dry_run", "inspect_failed_dry_run", "get_handoff_package",
             "record_next_performance_event", "inspect_handoff_record"} \subseteq Names
        BY DEF Names, Readings
      <3>3. /\ <<>> \in Seq(Names) /\ <<"generate_revision_draft">> \in Seq(Names)
            /\ <<"run_execution_dry_run">> \in Seq(Names)
            /\ <<"inspect_failed_dry_run">> \in Seq(Names)
            /\ <<"get_handoff_package">> \in Seq(Names)
        BY <3>2, Listed
      <3>4. /\ <<"review_optimization_draft", "inspect_optimization_draft">> \in Seq(Names)
            /\ <<"record_next_performance_event", "inspect_handoff_record">> \in Seq(Names)
        BY <3>2, Listed
      <3> QED
        BY <3>1, <3>3, <3>4
    <2> QED
      BY <2>1, MatchingChooses
  <1>3. RecommendedCommand(focus, commands, later) = (a \o b \o later \o commands)[1]
    BY DEF RecommendedCommand
  <1> HIDE DEF a, b
  <1>4. a \o b \o later \in Seq(S)
    BY <1>1, <1>2, ConcatProperties
  <1>5. a \o b \o later \o commands \in Seq(S) \ {<<>>}
    BY <1>4, ConcatProperties, ConcatEqualIffEmpty
  <1> QED
    BY <1>3, <1>5

LEMMA LoopChainAccepted ==
    ASSUME Inv, RunsInv, NEW e \in Stored, NEW n
    PROVE  LoopChain(e, n, Commands(e, n)) \in Accepted
  <1> DEFINE report   == OutcomeReport(e, n)
             followup == report.followup
             stage    == IF followup = 0 THEN "none" ELSE LoopSummary(followup, n).stage
             later    == IF followup = 0 THEN <<>> ELSE Commands(followup, n)
  <1>1. followup # 0 => followup \in Stored
    BY ReportIsGrounded
  <1>2. later \in Seq(Accepted)
    <2> HIDE DEF followup
    <2> QED
      BY <1>1, CommandsAccepted, Listed
  <1>3. LoopChain(e, n, Commands(e, n))
           = RecommendedCommand(Focus(report, stage), Commands(e, n), later)
    BY DEF LoopChain
  <1> HIDE DEF report, stage, later
  <1> QED
    BY <1>2, <1>3, CommandsAccepted, RecommendedChooses

\* Whatever reviewers, dry runs, versions and operators did, in whatever order
\* they were recorded, and with every limit: the handler of every command that
\* the command center gives, or the chain recommends, accepts it.
THEOREM OperatorsAreNotMisled == Spec => []CommandsAreAccepted
  <1>1. Inv /\ RunsInv => CommandsAreAccepted
    <2> SUFFICES ASSUME Inv, RunsInv, NEW e \in EventIds, NEW n \in Limits,
                        NEW c \in Range(GetCommandCenter(e, n))
                                   \cup GetLoopChain(e, n, GetCommandCenter(e, n))
                 PROVE  Accepts(c)
      BY DEF CommandsAreAccepted
    <2>1. CASE e \in Stored
      <3>1. /\ GetCommandCenter(e, n) = Commands(e, n)
            /\ GetLoopChain(e, n, GetCommandCenter(e, n)) = {LoopChain(e, n, Commands(e, n))}
        BY <2>1 DEF GetCommandCenter, GetLoopChain
      <3>2. Commands(e, n) \in Seq(Accepted) /\ LoopChain(e, n, Commands(e, n)) \in Accepted
        BY <2>1, CommandsAccepted, LoopChainAccepted
      <3>3. Range(Commands(e, n)) \subseteq Accepted
        BY <3>2 DEF Range
      <3> QED
        BY <3>1, <3>2, <3>3 DEF Accepted
    <2>2. CASE e \notin Stored
      <3>1. GetCommandCenter(e, n) = <<>> /\ GetLoopChain(e, n, GetCommandCenter(e, n)) = {}
        BY <2>2 DEF GetCommandCenter, GetLoopChain
      <3> QED
        BY <3>1 DEF Range
    <2> QED
      BY <2>1, <2>2
  <1> QED
    BY <1>1, RunsInvHolds, PTL

-----------------------------------------------------------------------------
(* The timeline.                                                            *)

\* The place of a review in a list grows with its number, and ends with the list.
LEMMA IndexGrows ==
    ASSUME NEW N \in SUBSET Nat, IsFiniteSet(N), NEW r \in N
    PROVE  /\ ReviewIndex(r, N) \in Nat /\ ReviewIndex(r, N) < Cardinality(N)
           /\ \A s \in N : s < r => ReviewIndex(s, N) < ReviewIndex(r, N)
  <1> DEFINE Before(q) == {p \in N : p < q}
  <1>1. ASSUME NEW q \in N
        PROVE  /\ IsFiniteSet(Before(q)) /\ Cardinality(Before(q)) \in Nat
               /\ IsFiniteSet(Before(q) \cup {q})
               /\ Cardinality(Before(q) \cup {q}) = Cardinality(Before(q)) + 1
    <2>1. Before(q) \subseteq N /\ q \notin Before(q)
      OBVIOUS
    <2> HIDE DEF Before
    <2>2. IsFiniteSet(Before(q))
      BY <2>1, FS_Subset
    <2> QED
      BY <2>1, <2>2, FS_CardinalityType, FS_AddElement
  <1>2. Cardinality(Before(r)) < Cardinality(N)
    <2>1. Before(r) \cup {r} \subseteq N
      OBVIOUS
    <2> HIDE DEF Before
    <2>2. Cardinality(Before(r) \cup {r}) <= Cardinality(N) /\ Cardinality(N) \in Nat
      BY <2>1, FS_Subset, FS_CardinalityType
    <2> QED
      BY <1>1, <2>2
  <1>3. ASSUME NEW s \in N, s < r PROVE Cardinality(Before(s)) < Cardinality(Before(r))
    <2>1. Before(s) \cup {s} \subseteq Before(r)
      <3>1. \A p \in N : p \in Nat
        OBVIOUS
      <3>2. ASSUME NEW p \in N, p < s PROVE p < r
        BY <1>3, <3>1, <3>2
      <3> QED
        BY <1>3, <3>2
    <2> HIDE DEF Before
    <2>2. /\ IsFiniteSet(Before(r)) /\ Cardinality(Before(r)) \in Nat
          /\ Cardinality(Before(s)) \in Nat
          /\ Cardinality(Before(s) \cup {s}) = Cardinality(Before(s)) + 1
      BY <1>1
    <2>3. Cardinality(Before(s) \cup {s}) <= Cardinality(Before(r))
      BY <2>1, <2>2, FS_Subset
    <2> QED
      BY <2>2, <2>3
  <1>4. \A q : ReviewIndex(q, N) = Cardinality(Before(q))
    BY DEF ReviewIndex
  <1> HIDE DEF Before
  <1> QED
    BY <1>1, <1>2, <1>3, <1>4

\* What entries there are: the group of each, by its stage and its review.
Placed(x, newest) ==
    LET k == ReviewIndex(x.of, newest)
    IN \/ x.stage = "performance_event_analyzed" /\ x.group = 0
       \/ x.stage = "feedback_action_plan_created" /\ x.group = 1
       \/ x.stage = "optimization_draft_created" /\ x.group = 2
       \/ x.stage = "reviewed" /\ x.of \in newest /\ x.group = 100 + 10 * k
       \/ x.stage = "revision_draft_created" /\ x.of \in newest /\ x.group = 101 + 10 * k
       \/ x.stage = "execution_plan_ready" /\ x.of \in newest /\ x.group = 102 + 10 * k
       \/ x.stage = "dry_run" /\ x.group = 500
       \/ x.stage = "handoff_package" /\ x.of \in newest /\ x.group = 600 + k
       \/ x.stage = "handoff_record" /\ x.group = 700

LEMMA EntriesArePlaced ==
    ASSUME NEW e, NEW n, NEW x \in TimelineEntries(e, n)
    PROVE  Placed(x, Newest(ReviewsOf(e), n))
  <1> DEFINE newest == Newest(ReviewsOf(e), n)
  <1>1. ASSUME NEW r \in newest, x \in ReviewEntries(r, ReviewIndex(r, newest))
        PROVE  Placed(x, newest)
    <2> DEFINE k == ReviewIndex(r, newest)
    <2>1. \/ x = ReviewEntry(r, k) \/ x = RevisionDraftEntry(r, k)
          \/ x = ExecutionPlanEntry(r, k) \/ x = HandoffPackageEntry(r, k)
      BY <1>1 DEF ReviewEntries
    <2>2. x = ReviewEntry(r, k) => Placed(x, newest)
      BY DEF Placed, Entry, ReviewEntry
    <2>3. x = RevisionDraftEntry(r, k) => Placed(x, newest)
      BY DEF Placed, Entry, RevisionDraftEntry
    <2>4. x = ExecutionPlanEntry(r, k) => Placed(x, newest)
      BY DEF Placed, Entry, ExecutionPlanEntry
    <2>5. x = HandoffPackageEntry(r, k) => Placed(x, newest)
      BY DEF Placed, Entry, HandoffPackageEntry
    <2> QED
      BY <2>1, <2>2, <2>3, <2>4, <2>5
  <1>2. ASSUME NEW r, x = DryRunEntry(r) PROVE Placed(x, newest)
    BY <1>2 DEF Placed, Entry, DryRunEntry
  <1>3. ASSUME NEW h, x = HandoffRecordEntry(h) PROVE Placed(x, newest)
    BY <1>3 DEF Placed, Entry, HandoffRecordEntry
  <1>4. ASSUME x \in {Entry("performance_event_analyzed", e, 0, 0),
                      Entry("feedback_action_plan_created", e, 1, 0),
                      Entry("optimization_draft_created", e, 2, 0)}
        PROVE  Placed(x, newest)
    BY <1>4 DEF Placed, Entry
  <1> QED
    BY <1>1, <1>2, <1>3, <1>4 DEF TimelineEntries

\* Lists of forty reviews keep the groups of reviews below those of dry runs.
LEMMA ShortTimelineIsCausal ==
    ASSUME Inv, NEW e, NEW n, Cardinality(Newest(ReviewsOf(e), n)) <= 40
    PROVE  IsCausal(TimelineEntries(e, n))
  <1> DEFINE newest  == Newest(ReviewsOf(e), n)
             entries == TimelineEntries(e, n)
  <1>1. newest \in SUBSET Nat /\ IsFiniteSet(newest) /\ newest \subseteq DOMAIN reviews
    <2>1. newest \subseteq ReviewsOf(e)
      BY NewestOf
    <2>2. ReviewsOf(e) \in SUBSET Nat /\ IsFiniteSet(ReviewsOf(e))
      BY ReviewRows
    <2> QED
      BY <2>1, <2>2, FS_Subset DEF ReviewsOf
  <1>2. Cardinality(newest) \in Nat
    BY <1>1, FS_CardinalityType
  <1>3. ASSUME NEW r \in newest
        PROVE  /\ ReviewIndex(r, newest) \in 0 .. 39
               /\ \A s \in newest : s < r => ReviewIndex(s, newest) < ReviewIndex(r, newest)
    <2> HIDE DEF newest
    <2> QED
      BY <1>1, <1>2, IndexGrows DEF newest
  <1> SUFFICES ASSUME NEW x \in entries, NEW y \in Causes(x, entries)
               PROVE  y.group < x.group
    BY DEF IsCausal, Precedes
  <1>4. Placed(x, newest) /\ Placed(y, newest)
    BY EntriesArePlaced DEF Causes
  <1> HIDE DEF newest, entries
  <1>5. CASE x.stage = "reviewed"
    <2>1. \/ y.stage = "optimization_draft_created"
          \/ y.stage = "revision_draft_created" /\ y.of = reviews[x.of].source
      BY <1>5 DEF Causes
    <2>2. x.of \in newest /\ x.group = 100 + 10 * ReviewIndex(x.of, newest)
      BY <1>4, <1>5 DEF Placed
    <2>3. CASE y.stage = "optimization_draft_created"
      <3>1. y.group = 2
        BY <1>4, <2>3 DEF Placed
      <3> QED
        BY <1>3, <2>2, <3>1
    <2>4. CASE y.stage = "revision_draft_created" /\ y.of = reviews[x.of].source
      <3>1. y.of \in newest /\ y.group = 101 + 10 * ReviewIndex(y.of, newest)
        BY <1>4, <2>4 DEF Placed
      <3>2. y.of # 0 /\ x.of \in DOMAIN reviews /\ x.of \in Nat /\ y.of \in Nat
        <4>1. DOMAIN reviews = 1 .. Len(reviews) /\ Len(reviews) \in Nat
          BY DEF Inv, TypeOK, LoopTypeOK
        <4>2. x.of \in DOMAIN reviews /\ y.of \in DOMAIN reviews
          BY <1>1, <2>2, <3>1
        <4> QED
          BY <4>1, <4>2
      <3>3. y.of \in 1 .. x.of - 1
        BY <2>4, <3>2 DEF Inv, Lawful, FromSource
      <3>4. y.of < x.of
        BY <3>2, <3>3
      <3>5. ReviewIndex(y.of, newest) < ReviewIndex(x.of, newest)
        BY <1>3, <2>2, <3>1, <3>4
      <3> QED
        BY <1>3, <2>2, <3>1, <3>5
    <2> QED
      BY <2>1, <2>3, <2>4
  <1>6. CASE x.stage \in {"revision_draft_created", "execution_plan_ready"}
    <2>1. y.stage = "reviewed" /\ y.of = x.of
      BY <1>6 DEF Causes
    <2>2. /\ x.of \in newest /\ y.group = 100 + 10 * ReviewIndex(x.of, newest)
          /\ x.group \in {101 + 10 * ReviewIndex(x.of, newest),
                          102 + 10 * ReviewIndex(x.of, newest)}
      BY <1>4, <1>6, <2>1 DEF Placed
    <2> QED
      BY <1>3, <2>2
  <1>7. CASE x.stage = "dry_run"
    <2>1. y.stage = "execution_plan_ready"
      BY <1>7 DEF Causes
    <2>2. /\ x.group = 500 /\ y.of \in newest
          /\ y.group = 102 + 10 * ReviewIndex(y.of, newest)
      BY <1>4, <1>7, <2>1 DEF Placed
    <2> QED
      BY <1>3, <2>2
  <1>8. CASE x.stage = "handoff_package"
    <2>1. y.stage = "dry_run"
      BY <1>8 DEF Causes
    <2>2. /\ y.group = 500 /\ x.of \in newest
          /\ x.group = 600 + ReviewIndex(x.of, newest)
      BY <1>4, <1>8, <2>1 DEF Placed
    <2> QED
      BY <1>3, <2>2
  <1>9. CASE x.stage = "handoff_record"
    <2>1. y.stage = "handoff_package"
      BY <1>9 DEF Causes
    <2>2. /\ x.group = 700 /\ y.of \in newest
          /\ y.group = 600 + ReviewIndex(y.of, newest)
      BY <1>4, <1>9, <2>1 DEF Placed
    <2> QED
      BY <1>3, <2>2
  <1>10. x.stage \in {"reviewed", "revision_draft_created", "execution_plan_ready", "dry_run",
                      "handoff_package", "handoff_record"}
    BY DEF Causes
  <1> QED
    BY <1>5, <1>6, <1>7, <1>8, <1>9, <1>10

\* Whatever was reviewed, revised, run and handed off, and in whatever order it
\* was recorded: the timeline of at most forty reviews tells no entry before one
\* that it stands on.
THEOREM TimelinesAreCausal == Spec => []TimelineIsCausal
  <1>1. Inv => TimelineIsCausal
    <2> SUFFICES ASSUME Inv, NEW e \in EventIds, NEW n \in Limits, ShortList(e, n)
                 PROVE  IsCausal(GetTimeline(e, n))
      BY DEF TimelineIsCausal
    <2>1. CASE e \in Stored
      <3>1. IsCausal(TimelineEntries(e, n))
        BY ShortTimelineIsCausal DEF ShortList
      <3> QED
        BY <2>1, <3>1 DEF GetTimeline
    <2>2. CASE e \notin Stored
      BY <2>2 DEF GetTimeline, IsCausal
    <2> QED
      BY <2>1, <2>2
  <1> QED
    BY <1>1, RunsInvHolds, PTL

\* Forty is the most: once a list holds an approved review that forty others of
\* the list came before, and its dry run, the run is told before its plan.
FortiethIsLate ==
    \A e \in Stored, n \in Limits :
        \A r \in Newest(ReviewsOf(e), n) \cap RunsOf(e, n) :
            ReviewIndex(r, Newest(ReviewsOf(e), n)) >= 40 => ~IsCausal(GetTimeline(e, n))

\* The bound of TimelinesAreCausal is the best one: the timeline numbers the plan of
\* such a review after the group of all dry runs.
THEOREM FortyIsTheMost == Spec => []FortiethIsLate
  <1>1. Inv /\ RunsInv => FortiethIsLate
    <2> SUFFICES ASSUME Inv, RunsInv, NEW e \in Stored, NEW n \in Limits,
                        NEW r \in Newest(ReviewsOf(e), n) \cap RunsOf(e, n),
                        ReviewIndex(r, Newest(ReviewsOf(e), n)) >= 40,
                        IsCausal(TimelineEntries(e, n))
                 PROVE  FALSE
      BY DEF FortiethIsLate, GetTimeline
    <2> DEFINE k    == ReviewIndex(r, Newest(ReviewsOf(e), n))
               plan == ExecutionPlanEntry(r, k)
    <2>1. k \in Nat
      <3>1. /\ Newest(ReviewsOf(e), n) \in SUBSET Nat
            /\ IsFiniteSet(Newest(ReviewsOf(e), n))
        BY ReviewRows, NewestOf, FS_Subset
      <3> QED
        BY <3>1, IndexGrows
    <2>2. reviews[r].decision = "approved"
      <3>1. r \in 1 .. Len(reviews) /\ dryRuns[r] # NoRun
        BY ReviewRows
      <3>2. r \in 1 .. MaxReviews
        BY <3>1, ReviewRows, BoundsAssumption DEF Inv
      <3> QED
        BY <3>1, <3>2 DEF RunsInv, RunRow
    <2>3. plan \in TimelineEntries(e, n)
      <3>1. plan \in ReviewEntries(r, k)
        BY <2>2 DEF ReviewEntries, Approved
      <3> QED
        BY <3>1 DEF TimelineEntries
    <2>4. DryRunEntry(r) \in TimelineEntries(e, n)
      BY DEF TimelineEntries
    <2>5. plan \in Causes(DryRunEntry(r), TimelineEntries(e, n))
      BY <2>3 DEF Causes, DryRunEntry, ExecutionPlanEntry, Entry
    <2>6. Precedes(plan, DryRunEntry(r))
      BY <2>4, <2>5 DEF IsCausal
    <2>7. 102 + 10 * k <= 500
      <3> HIDE DEF k
      <3> QED
        BY <2>1, <2>6 DEF Precedes, DryRunEntry, ExecutionPlanEntry, Entry
    <2> HIDE DEF k
    <2> QED
      BY <2>1, <2>7 DEF k
  <1> QED
    BY <1>1, RunsInvHolds, PTL
=============================================================================
