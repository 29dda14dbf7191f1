--------------------------- MODULE FeedbackLoopProofs ---------------------------
(***************************************************************************)
(* Proofs of the properties of FeedbackLoop, for any events, payloads,      *)
(* metrics, operators and versions of the service.                          *)
(*                                                                          *)
(* AppliedWasApproved needs two facts that each operation keeps.            *)
(* FromSource: a review selects from the draft it was shown, which is its   *)
(* source's selection; reviews only grow, so it holds of every review for   *)
(* ever. Validated: what an applied hand-off says of its dry run holds from *)
(* the moment the package is read, through the wait for the insert, and for *)
(* ever after, because a row of dry runs keeps its created_at.              *)
(***************************************************************************)
EXTENDS FeedbackLoop, FiniteSetTheorems, TLAPS

DryRunWrite == [review : 1 .. Len(reviews), at : Nat, status : {"passed", "failed"}]

Tasks ==
    [step : {"idle"}]
    \cup [step : {"dry_run"}, write : DryRunWrite]
    \cup [step : {"handoff"}, write : HandoffRecord]
    \cup [step : {"memory"},  write : 1 .. Len(handoffs)]

\* What review q shows, given the reviews before it.
FromSource(q) ==
    /\ reviews[q].selected \subseteq reviews[q].draft
    /\ LET s == reviews[q].source
       IN s # 0 => /\ s \in 1 .. q - 1
                   /\ reviews[s].decision = "needs_revision"
                   /\ reviews[s].event = reviews[q].event
                   /\ reviews[q].draft = reviews[s].selected

\* A hand-off that was applied, or is about to be recorded as applied.
Validated(w) ==
    w.outcome = "applied" =>
        /\ reviews[w.review].decision = "approved"
        /\ w.complete
        /\ w.run.status = "passed"
        /\ dryRuns[w.review].status # "none"
        /\ w.run.first = dryRuns[w.review].first

Lawful ==
    /\ \A q \in DOMAIN reviews : FromSource(q)
    /\ \A h \in DOMAIN handoffs : Validated(handoffs[h])
    /\ \A o \in Operators : task[o].step = "handoff" => Validated(task[o].write)

Inv == TypeOK /\ Len(reviews) <= MaxReviews /\ Lawful

-----------------------------------------------------------------------------

\* A draft proposes actions (RecommendedAction).
LEMMA ProposedActions == \A s : Proposed(s) \subseteq Actions
  BY DEF Proposed, Recommendations, Actions

LEMMA DraftActions == \A p \in Payloads : Draft[p] \subseteq Actions
  BY ProposedActions DEF Draft

\* A request that is on its way has something to write.
LEMMA TaskWrites ==
    ASSUME LoopTypeOK, NEW o \in Operators
    PROVE  /\ task[o].step = "dry_run" => task[o].write \in DryRunWrite
           /\ task[o].step = "handoff" => task[o].write \in HandoffRecord
           /\ task[o].step = "memory"  => task[o].write \in 1 .. Len(handoffs)
  BY DEF LoopTypeOK, DryRunWrite

\* Types do not depend on the events but through their requests.
LEMMA HistoryType ==
    ASSUME HistoryTypeOK, HistoryNext
    PROVE  HistoryTypeOK'
  BY DEF HistoryTypeOK, HistoryNext, Contest, Arrive

-----------------------------------------------------------------------------

\* A review is appended: everything that was said of the others still holds.
LEMMA RecordInv ==
    ASSUME Inv, NEW e \in EventIds, NEW source \in Nat,
           NEW draft \in SUBSET Actions, Record(e, source, draft),
           UNCHANGED historyVars,
           source # 0 => /\ source \in DOMAIN reviews
                         /\ reviews[source].decision = "needs_revision"
                         /\ reviews[source].event = e
                         /\ reviews[source].selected = draft
    PROVE  Inv'
  <1>1. PICK d \in Decision, s \in Selections(draft) :
           reviews' = Append(reviews, [event |-> e, source |-> source, decision |-> d,
                                       draft |-> draft, selected |-> s])
    BY DEF Record, Reviewed
  <1> DEFINE v == [event |-> e, source |-> source, decision |-> d,
                   draft |-> draft, selected |-> s]
  <1>2. v \in ReviewRecord /\ s \subseteq draft
    BY DEF ReviewRecord, Selections
  <1>3. reviews \in Seq(ReviewRecord) /\ Len(reviews) \in Nat
    BY DEF Inv, TypeOK, LoopTypeOK
  <1>4. /\ reviews' \in Seq(ReviewRecord) /\ Len(reviews') = Len(reviews) + 1
        /\ reviews'[Len(reviews) + 1] = v
        /\ \A q \in 1 .. Len(reviews) : reviews'[q] = reviews[q]
        /\ DOMAIN reviews' = 1 .. Len(reviews) + 1 /\ DOMAIN reviews = 1 .. Len(reviews)
    BY <1>1, <1>2, <1>3
  <1>5. UNCHANGED <<dryRuns, computed, handoffs, remembered, task>>
    BY DEF Record
  <1>6. DryRunWrite \subseteq DryRunWrite' /\ HandoffRecord \subseteq HandoffRecord'
    BY <1>3, <1>4 DEF DryRunWrite, HandoffRecord
  <1>7. handoffs' \in Seq(HandoffRecord')
    <2>1. handoffs \in Seq(HandoffRecord)
      BY DEF Inv, TypeOK, LoopTypeOK
    <2> QED
      BY <1>5, <1>6, <2>1
  <1>8. task' \in [Operators -> Tasks']
    <2>1. task \in [Operators -> Tasks]
      BY DEF Inv, TypeOK, LoopTypeOK, Tasks, DryRunWrite
    <2>2. Tasks \subseteq Tasks'
      BY <1>5, <1>6 DEF Tasks
    <2> QED
      BY <1>5, <2>1, <2>2
  <1>9. TypeOK'
    BY <1>4, <1>5, <1>7, <1>8 DEF Inv, TypeOK, LoopTypeOK, HistoryTypeOK, historyVars, Tasks, DryRunWrite, Run
  <1>10. Len(reviews') <= MaxReviews'
    BY <1>3, <1>4, BoundsAssumption DEF Record
  <1>11. ASSUME NEW q \in DOMAIN reviews' PROVE FromSource(q)'
    <2>1. CASE q \in 1 .. Len(reviews)
      <3>1. FromSource(q)
        BY <1>4, <2>1 DEF Inv, Lawful
      <3> QED
        BY <1>3, <1>4, <2>1, <3>1 DEF FromSource
    <2>2. CASE q = Len(reviews) + 1
      BY <1>2, <1>3, <1>4, <2>2 DEF FromSource
    <2> QED
      BY <1>3, <1>4, <2>1, <2>2
  <1>12. ASSUME NEW w \in HandoffRecord, Validated(w) PROVE Validated(w)'
    BY <1>3, <1>4, <1>5, <1>12 DEF Validated, HandoffRecord
  <1>13. Lawful'
    <2>1. ASSUME NEW h \in DOMAIN handoffs PROVE handoffs[h] \in HandoffRecord
      BY DEF Inv, TypeOK, LoopTypeOK
    <2>2. \A o \in Operators : task[o].step = "handoff" => task[o].write \in HandoffRecord
      BY TaskWrites DEF Inv, TypeOK
    <2> QED
      BY <1>5, <1>11, <1>12, <2>1, <2>2 DEF Inv, Lawful
  <1> QED
    BY <1>9, <1>10, <1>13 DEF Inv

LEMMA ReviewInv ==
    ASSUME Inv, NEW e \in EventIds, Review(e), UNCHANGED historyVars
    PROVE  Inv'
  <1>1. stored[e] \in Payloads
    BY DEF Review, Inv, TypeOK, HistoryTypeOK
  <1>2. PICK draft \in SUBSET Actions : draft = Draft[stored[e]]
    BY <1>1, DraftActions
  <1>3. Record(e, 0, draft)
    BY <1>2 DEF Review, Record
  <1> QED
    BY <1>2, <1>3, RecordInv

LEMMA ReviewRevisionInv ==
    ASSUME Inv, NEW r \in DOMAIN reviews, ReviewRevision(r), UNCHANGED historyVars
    PROVE  Inv'
  <1>0. reviews[r] \in ReviewRecord /\ r \in Nat
    BY DEF Inv, TypeOK, LoopTypeOK
  <1>1. reviews[r].event \in EventIds /\ reviews[r].selected \in SUBSET Actions
    BY <1>0 DEF ReviewRecord, Selections
  <1>2. PICK e \in EventIds, draft \in SUBSET Actions :
            e = reviews[r].event /\ draft = reviews[r].selected
    BY <1>1
  <1>3. Record(e, r, draft) /\ reviews[r].decision = "needs_revision"
    BY <1>2 DEF ReviewRevision, Record, RevisionDraft
  <1> QED
    BY <1>0, <1>2, <1>3, RecordInv

-----------------------------------------------------------------------------

\* A request begins, or one ends, with no write of its own: the tables that an
\* invariant speaks of stay as they are.
LEMMA OnlyATask ==
    ASSUME Inv, NEW o \in Operators, NEW t \in Tasks,
           task' = [task EXCEPT ![o] = t], computed' \in Nat,
           UNCHANGED <<reviews, dryRuns, handoffs, historyVars>>,
           remembered' \subseteq 1 .. Len(handoffs),
           t.step = "handoff" => Validated(t.write)
    PROVE  Inv'
  <1>1. task \in [Operators -> Tasks]
    BY DEF Inv, TypeOK, LoopTypeOK, Tasks, DryRunWrite
  <1>2. /\ task' \in [Operators -> Tasks] /\ task'[o] = t
        /\ \A q \in Operators \ {o} : task'[q] = task[q]
    BY <1>1
  <1>3. Tasks' = Tasks /\ HandoffRecord' = HandoffRecord
    BY DEF Tasks, DryRunWrite, HandoffRecord
  <1>4. LoopTypeOK'
    <2>1. task' \in [Operators -> Tasks']
      BY <1>2, <1>3
    <2> QED
      BY <1>3, <2>1 DEF Inv, TypeOK, LoopTypeOK, Tasks, DryRunWrite
  <1>5. HistoryTypeOK'
    BY DEF Inv, TypeOK, HistoryTypeOK, historyVars
  <1>6. Lawful'
    BY <1>2 DEF Inv, Lawful, FromSource, Validated
  <1> QED
    BY <1>4, <1>5, <1>6 DEF Inv, TypeOK

LEMMA DryRunInv ==
    ASSUME Inv, NEW o \in Operators, NEW r \in DOMAIN reviews, NEW refused,
           DryRun(o, r, refused), UNCHANGED historyVars
    PROVE  Inv'
  <1> DEFINE t == [step |-> "dry_run",
                   write |-> [review |-> r, at |-> computed + 1,
                              status |-> IF Tools(r) \cap refused = {} THEN "passed" ELSE "failed"]]
  <1>1. computed + 1 \in Nat /\ r \in 1 .. Len(reviews)
    BY DEF Inv, TypeOK, LoopTypeOK
  <1>2. t \in Tasks /\ t.step # "handoff"
    BY <1>1 DEF Tasks, DryRunWrite
  <1>3. task' = [task EXCEPT ![o] = t] /\ computed' = computed + 1
    BY DEF DryRun, Verdict, Begin
  <1>4. UNCHANGED <<reviews, dryRuns, handoffs>> /\ remembered' \subseteq 1 .. Len(handoffs)
    BY DEF DryRun, Inv, TypeOK, LoopTypeOK
  <1> HIDE DEF t
  <1> QED
    BY <1>1, <1>2, <1>3, <1>4, OnlyATask

\* The row keeps its created_at, so what was validated stays.
LEMMA RecordDryRunInv ==
    ASSUME Inv, NEW o \in Operators, RecordDryRun(o), UNCHANGED historyVars
    PROVE  Inv'
  <1>1. PICK run \in DryRunWrite : run = task[o].write
    BY TaskWrites DEF RecordDryRun, Inv, TypeOK
  <1>2. /\ dryRuns \in [1 .. MaxReviews -> Run] /\ run.review \in 1 .. MaxReviews
        /\ run.review \in 1 .. Len(reviews) /\ run.at \in Nat
        /\ run.status \in {"passed", "failed"}
    BY <1>1, BoundsAssumption DEF Inv, TypeOK, LoopTypeOK, DryRunWrite
  <1> DEFINE new == [first |-> IF dryRuns[run.review] = NoRun THEN run.at
                               ELSE dryRuns[run.review].first,
                     last |-> run.at, status |-> run.status]
  <1>3. new \in Run
    BY <1>2 DEF Run
  <1>4. dryRuns' = [dryRuns EXCEPT ![run.review] = new]
    BY <1>1 DEF RecordDryRun
  <1>5. /\ dryRuns' \in [1 .. MaxReviews -> Run] /\ dryRuns'[run.review] = new
        /\ \A r \in 1 .. MaxReviews \ {run.review} : dryRuns'[r] = dryRuns[r]
    BY <1>2, <1>3, <1>4
  <1>6. task' = [task EXCEPT ![o] = [step |-> "idle"]]
    BY DEF RecordDryRun, Ended
  <1>7. task \in [Operators -> Tasks]
    BY DEF Inv, TypeOK, LoopTypeOK, Tasks, DryRunWrite
  <1>8. /\ task' \in [Operators -> Tasks] /\ task'[o].step = "idle"
        /\ \A q \in Operators \ {o} : task'[q] = task[q]
    BY <1>6, <1>7 DEF Tasks
  <1>9. UNCHANGED <<reviews, computed, handoffs, remembered>>
    BY DEF RecordDryRun
  <1>10. TypeOK'
    <2>1. Tasks' = Tasks /\ HandoffRecord' = HandoffRecord
      BY <1>9 DEF Tasks, DryRunWrite, HandoffRecord
    <2>2. task' \in [Operators -> Tasks']
      BY <1>8, <2>1
    <2> QED
      BY <1>5, <1>9, <2>1, <2>2 DEF Inv, TypeOK, LoopTypeOK, HistoryTypeOK, historyVars, Tasks, DryRunWrite
  <1>11. ASSUME NEW w \in HandoffRecord, Validated(w) PROVE Validated(w)'
    <2>1. w.review \in 1 .. MaxReviews
      BY BoundsAssumption DEF HandoffRecord, Inv, TypeOK, LoopTypeOK
    <2>2. CASE w.review = run.review
      BY <1>2, <1>5, <1>9, <1>11, <2>2 DEF Validated, NoRun
    <2>3. CASE w.review # run.review
      BY <1>5, <1>9, <1>11, <2>1, <2>3 DEF Validated
    <2> QED
      BY <2>2, <2>3
  <1>12. Lawful'
    <2>1. \A h \in DOMAIN handoffs : handoffs[h] \in HandoffRecord
      BY DEF Inv, TypeOK, LoopTypeOK
    <2>2. \A q \in Operators : task[q].step = "handoff" => task[q].write \in HandoffRecord
      BY TaskWrites DEF Inv, TypeOK
    <2> QED
      BY <1>8, <1>9, <1>11, <2>1, <2>2 DEF Inv, Lawful, FromSource
  <1> QED
    BY <1>9, <1>10, <1>12 DEF Inv

-----------------------------------------------------------------------------

\* A package is ready only when its row holds a dry run that passed.
LEMMA ReadyPackage ==
    ASSUME NEW run \in Run, PackageStatus(run) = "ready_for_manual_handoff"
    PROVE  run.status = "passed"
  BY DEF PackageStatus, Run

LEMMA HandoffInv ==
    ASSUME Inv, NEW o \in Operators, NEW r \in DOMAIN reviews,
           NEW outcome \in HandoffOutcome, NEW completed \in SUBSET Steps(r),
           Handoff(o, r, outcome, completed), UNCHANGED historyVars
    PROVE  Inv'
  <1> DEFINE w == [review |-> r, run |-> dryRuns[r], outcome |-> outcome,
                   complete |-> completed = Steps(r)]
  <1> DEFINE t == [step |-> "handoff", write |-> w]
  <1>1. r \in 1 .. Len(reviews) /\ dryRuns[r] \in Run
    BY BoundsAssumption DEF Inv, TypeOK, LoopTypeOK
  <1>2. w \in HandoffRecord
    BY <1>1 DEF HandoffRecord
  <1>3. t \in Tasks
    BY <1>2 DEF Tasks
  <1>4. Validated(w)
    BY <1>1, ReadyPackage DEF Handoff, HandoffOf, Acceptable, Validated
  <1>5. task' = [task EXCEPT ![o] = t] /\ computed' \in Nat
    BY DEF Handoff, HandoffOf, Begin, Inv, TypeOK, LoopTypeOK
  <1>6. UNCHANGED <<reviews, dryRuns, handoffs>> /\ remembered' \subseteq 1 .. Len(handoffs)
    BY DEF Handoff, Inv, TypeOK, LoopTypeOK
  <1>7. t.step = "handoff" => Validated(t.write)
    BY <1>4
  <1> HIDE DEF t
  <1> QED
    BY <1>3, <1>5, <1>6, <1>7, OnlyATask

LEMMA RecordHandoffInv ==
    ASSUME Inv, NEW o \in Operators, RecordHandoff(o), UNCHANGED historyVars
    PROVE  Inv'
  <1>1. PICK w \in HandoffRecord : w = task[o].write
    BY TaskWrites DEF RecordHandoff, Inv, TypeOK
  <1>2. Validated(w)
    BY <1>1 DEF RecordHandoff, Inv, Lawful
  <1>3. handoffs \in Seq(HandoffRecord) /\ Len(handoffs) \in Nat
    BY DEF Inv, TypeOK, LoopTypeOK
  <1>4. /\ handoffs' \in Seq(HandoffRecord) /\ Len(handoffs') = Len(handoffs) + 1
        /\ handoffs'[Len(handoffs) + 1] = w
        /\ \A h \in 1 .. Len(handoffs) : handoffs'[h] = handoffs[h]
        /\ DOMAIN handoffs' = 1 .. Len(handoffs) + 1 /\ DOMAIN handoffs = 1 .. Len(handoffs)
    BY <1>1, <1>3 DEF RecordHandoff
  <1>5. UNCHANGED <<reviews, dryRuns, computed, remembered>>
    BY DEF RecordHandoff
  <1>6. HandoffRecord' = HandoffRecord /\ DryRunWrite' = DryRunWrite
    BY <1>5 DEF HandoffRecord, DryRunWrite
  <1>7. task \in [Operators -> Tasks]
    BY DEF Inv, TypeOK, LoopTypeOK, Tasks, DryRunWrite
  <1>8. Tasks \subseteq Tasks'
    BY <1>3, <1>4, <1>6 DEF Tasks
  <1>9. [step |-> "memory", write |-> Len(handoffs')] \in Tasks'
    BY <1>3, <1>4 DEF Tasks
  <1>10. /\ task' \in [Operators -> Tasks'] /\ task'[o].step = "memory"
         /\ \A q \in Operators \ {o} : task'[q] = task[q]
    BY <1>7, <1>8, <1>9 DEF RecordHandoff
  <1>11. TypeOK'
    <2>1. remembered' \subseteq 1 .. Len(handoffs')
      BY <1>3, <1>4, <1>5 DEF Inv, TypeOK, LoopTypeOK
    <2> QED
      BY <1>4, <1>5, <1>6, <1>10, <2>1
      DEF Inv, TypeOK, LoopTypeOK, HistoryTypeOK, historyVars, Tasks, DryRunWrite
  <1>12. Lawful'
    <2>1. \A v : Validated(v) => Validated(v)'
      BY <1>5 DEF Validated
    <2>2. ASSUME NEW h \in DOMAIN handoffs' PROVE Validated(handoffs'[h])
      BY <1>2, <1>3, <1>4 DEF Inv, Lawful
    <2>3. \A q \in Operators : task'[q].step = "handoff" => Validated(task'[q].write)
      BY <1>10 DEF Inv, Lawful
    <2>4. \A h \in DOMAIN handoffs' : Validated(handoffs[h])'
      BY <1>5, <2>2 DEF Validated
    <2>5. \A q \in Operators : (task[q].step = "handoff" => Validated(task[q].write))'
      BY <1>5, <2>3 DEF Validated
    <2> QED
      BY <1>5, <2>4, <2>5 DEF Inv, Lawful, FromSource
  <1> QED
    BY <1>5, <1>11, <1>12 DEF Inv

LEMMA RememberHandoffInv ==
    ASSUME Inv, NEW o \in Operators, RememberHandoff(o), UNCHANGED historyVars
    PROVE  Inv'
  <1> DEFINE t == [step |-> "idle"]
  <1>1. task[o].write \in 1 .. Len(handoffs)
    BY TaskWrites DEF RememberHandoff, Inv, TypeOK
  <1>2. t \in Tasks /\ t.step # "handoff" /\ task' = [task EXCEPT ![o] = t]
    BY DEF RememberHandoff, Ended, Tasks
  <1>3. /\ UNCHANGED <<reviews, dryRuns, handoffs>> /\ computed' \in Nat
        /\ remembered' \subseteq 1 .. Len(handoffs)
    BY <1>1 DEF RememberHandoff, Inv, TypeOK, LoopTypeOK
  <1> HIDE DEF t
  <1> QED
    BY <1>2, <1>3, OnlyATask

LEMMA OperatorCrashInv ==
    ASSUME Inv, NEW o \in Operators, OperatorCrash(o), UNCHANGED historyVars
    PROVE  Inv'
  <1> DEFINE t == [step |-> "idle"]
  <1>1. t \in Tasks /\ t.step # "handoff" /\ task' = [task EXCEPT ![o] = t]
    BY DEF OperatorCrash, Ended, Tasks
  <1>2. /\ UNCHANGED <<reviews, dryRuns, handoffs>> /\ computed' \in Nat
        /\ remembered' \subseteq 1 .. Len(handoffs)
    BY DEF OperatorCrash, Inv, TypeOK, LoopTypeOK
  <1> HIDE DEF t
  <1> QED
    BY <1>1, <1>2, OnlyATask

-----------------------------------------------------------------------------

LEMMA InitInv == Init => Inv
  <1> SUFFICES ASSUME Init PROVE Inv
    OBVIOUS
  <1>1. HistoryTypeOK
    BY DEF Init, HistoryInit, HistoryTypeOK
  <1>2. LoopTypeOK
    BY DEF Init, LoopInit, LoopTypeOK, Run, NoRun
  <1>3. Len(reviews) <= MaxReviews
    BY BoundsAssumption DEF Init, LoopInit
  <1>4. Lawful
    BY DEF Init, LoopInit, Lawful
  <1> QED
    BY <1>1, <1>2, <1>3, <1>4 DEF Inv, TypeOK

LEMMA NextInv == Inv /\ [Next]_vars => Inv'
  <1> SUFFICES ASSUME Inv, [Next]_vars PROVE Inv'
    OBVIOUS
  <1>1. CASE HistoryNext /\ UNCHANGED loopVars
    <2>1. HistoryTypeOK'
      BY <1>1, HistoryType DEF Inv, TypeOK
    <2>2. LoopTypeOK'
      BY <1>1 DEF loopVars, Inv, TypeOK, LoopTypeOK, ReviewRecord, HandoffRecord
    <2>3. Lawful' /\ Len(reviews') <= MaxReviews'
      BY <1>1 DEF loopVars, Inv, Lawful, FromSource, Validated
    <2> QED
      BY <2>1, <2>2, <2>3 DEF Inv, TypeOK
  <1>2. ASSUME NEW e \in EventIds, Review(e), UNCHANGED historyVars PROVE Inv'
    BY <1>2, ReviewInv
  <1>3. ASSUME NEW r \in DOMAIN reviews, ReviewRevision(r), UNCHANGED historyVars PROVE Inv'
    BY <1>3, ReviewRevisionInv
  <1>4. ASSUME NEW o \in Operators, Operation(o), UNCHANGED historyVars PROVE Inv'
    BY <1>4, DryRunInv, HandoffInv, RecordDryRunInv, RecordHandoffInv, RememberHandoffInv,
       OperatorCrashInv DEF Operation
  <1>5. CASE UNCHANGED vars
    BY <1>5 DEF vars, historyVars, loopVars, Inv, TypeOK, HistoryTypeOK, LoopTypeOK, Lawful,
                FromSource, Validated, ReviewRecord, HandoffRecord
  <1> QED
    BY <1>1, <1>2, <1>3, <1>4, <1>5 DEF Next

LEMMA InvHolds == Spec => []Inv
  BY InitInv, NextInv, PTL DEF Spec

\* Every row and every request keeps its type, and refers to rows that exist.
THEOREM LoopTypeCorrect == Spec => []TypeOK
  <1>1. Inv => TypeOK
    BY DEF Inv
  <1> QED
    BY <1>1, InvHolds, PTL

\* An operator applies only what was drafted, shown, selected along the whole
\* chain of revisions, approved, and validated by a dry run that is still the
\* review's row.
THEOREM NothingUnapprovedIsApplied == Spec => []AppliedWasApproved
  <1>1. Inv => AppliedWasApproved
    <2> SUFFICES ASSUME Inv PROVE AppliedWasApproved
      OBVIOUS
    <2>1. ASSUME NEW h \in DOMAIN handoffs, handoffs[h].outcome = "applied"
          PROVE  /\ reviews[handoffs[h].review].decision = "approved"
                 /\ handoffs[h].complete
                 /\ handoffs[h].run.status = "passed"
                 /\ handoffs[h].run.first = dryRuns[handoffs[h].review].first
                 /\ \A q \in 1 .. handoffs[h].review : FromSource(q)
      <3>0. handoffs[h] \in HandoffRecord
        BY DEF Inv, TypeOK, LoopTypeOK
      <3>1. handoffs[h].review \in 1 .. Len(reviews)
        BY <3>0 DEF HandoffRecord
      <3>2. \A q \in 1 .. handoffs[h].review : q \in DOMAIN reviews
        BY <3>1 DEF Inv, TypeOK, LoopTypeOK
      <3> QED
        BY <2>1, <3>2 DEF Inv, Lawful, Validated
    <2> QED
      BY <2>1 DEF AppliedWasApproved, FromSource
  <1> QED
    BY <1>1, InvHolds, PTL

-----------------------------------------------------------------------------
(* The composition.                                                         *)

\* The loop sees and changes the events as EventHistory allows: what is proved
\* of it holds with the service's store, which implements EventHistory, too.
THEOREM LoopUsesHistory == Spec => HistorySpec
  <1>1. Init => HistoryInit
    BY DEF Init
  <1>2. [Next]_vars => [HistoryNext]_historyVars
    BY DEF Next, vars
  <1> QED
    BY <1>1, <1>2, PTL DEF Spec, HistorySpec

-----------------------------------------------------------------------------
(* The comparison of two snapshots.                                         *)

\* Amounts and ratios are never negative.
LEMMA QuantizedType ==
    ASSUME NEW n \in Nat, NEW d \in Nat \ {0}
    PROVE  Quantized(n, d) \in Nat
  <1>1. n \div d \in Nat
    OBVIOUS
  <1> QED
    BY <1>1 DEF Quantized

\* What quantize keeps is at most half a cent, or half a ten-thousandth, off:
\* neither costs nor budgets drift from what was recorded.
THEOREM QuantizedIsNearest ==
    ASSUME NEW n \in Nat, NEW d \in Nat \ {0}
    PROVE  /\ 2 * (d * Quantized(n, d) - n) <= d
           /\ 2 * (n - d * Quantized(n, d)) <= d
  <1> DEFINE q == n \div d
             r == n % d
  <1>1. q \in Nat /\ r \in 0 .. d - 1 /\ n = d * q + r
    OBVIOUS
  <1>2. Quantized(n, d) = IF 2 * r > d \/ (2 * r = d /\ q % 2 = 1) THEN q + 1 ELSE q
    BY DEF Quantized
  <1> HIDE DEF q, r
  <1>3. d * q \in Nat /\ d * (q + 1) = d * q + d
    BY <1>1
  <1>4. CASE Quantized(n, d) = q
    <2>1. 2 * r <= d
      BY <1>1, <1>2, <1>4
    <2>2. d * q - n = 0 - r /\ n - d * q = r
      BY <1>1, <1>3
    <2> QED
      BY <1>1, <1>4, <2>1, <2>2
  <1>5. CASE Quantized(n, d) = q + 1
    <2>1. 2 * r >= d
      BY <1>1, <1>2, <1>5
    <2>2. d * (q + 1) - n = d - r /\ n - d * (q + 1) = r - d
      BY <1>1, <1>3
    <2> QED
      BY <1>1, <1>5, <2>1, <2>2
  <1> QED
    BY <1>2, <1>4, <1>5

LEMMA SummaryType ==
    ASSUME NEW s, IsSnapshot(s), NEW m \in Compared
    PROVE  Summary(s)[m] \in Nat \cup {Unknown}
  <1>1. /\ s.impressions \in Nat /\ s.clicks \in Nat /\ s.conversions \in Nat /\ s.spend \in Nat
        /\ s.revenue \in Nat \cup {Unknown}
    BY DEF IsSnapshot
  <1>2. \A n, d \in Nat : Ratio(n, d) \in Nat
    BY QuantizedType DEF Ratio
  <1>3. {Cpa(s), Roas(s)} \subseteq Nat \cup {Unknown}
    BY <1>1, QuantizedType DEF Cpa, Roas, Unknown
  <1>4. /\ Summary(s)["conversions"] = s.conversions /\ Summary(s)["cpa"] = Cpa(s)
        /\ Summary(s)["cvr"] = Ratio(s.conversions, s.clicks)
        /\ Summary(s)["ctr"] = Ratio(s.clicks, s.impressions) /\ Summary(s)["roas"] = Roas(s)
    BY DEF Summary
  <1>5. m \in {"conversions", "cpa", "cvr", "ctr", "roas"}
    BY DEF Compared, HigherIsBetter
  <1> QED
    BY <1>1, <1>2, <1>3, <1>4, <1>5

\* One metric, seen from both ends (_delta_direction).
LEMMA DirectionTurns ==
    ASSUME NEW m, NEW a \in Nat \cup {Unknown}, NEW b \in Nat \cup {Unknown}
    PROVE  Direction(m, a, b) = "improved" <=> Direction(m, b, a) = "regressed"
  BY DEF Direction, Unknown

LEMMA MovedType == \A d, s, t : Moved(d, s, t) \in Nat
  <1> SUFFICES ASSUME NEW d, NEW s, NEW t PROVE Moved(d, s, t) \in Nat
    OBVIOUS
  <1>1. IsFiniteSet(Compared)
    <2>1. IsFiniteSet({"cvr"} \cup {"conversions"}) /\ IsFiniteSet({"cpa"} \cup {"ctr"})
      BY FS_Singleton, FS_AddElement
    <2>2. IsFiniteSet((({"cvr"} \cup {"conversions"}) \cup ({"cpa"} \cup {"ctr"})) \cup {"roas"})
      BY <2>1, FS_Union, FS_AddElement
    <2>3. Compared = (({"cvr"} \cup {"conversions"}) \cup ({"cpa"} \cup {"ctr"})) \cup {"roas"}
      BY DEF Compared, HigherIsBetter
    <2> QED
      BY <2>2, <2>3
  <1>2. \A S \in SUBSET Compared : Cardinality(S) \in Nat
    BY <1>1, FS_Subset, FS_CardinalityType
  <1> QED
    BY <1>2 DEF Moved

\* The outcome report favours neither snapshot: the two compared the other way
\* round turn an improvement into a regression.
THEOREM ComparisonIsFair ==
    \A s, t : IsSnapshot(s) /\ IsSnapshot(t) =>
        (Outcome(s, t) = "improved" <=> Outcome(t, s) = "regressed")
  <1> SUFFICES ASSUME NEW s, NEW t, IsSnapshot(s), IsSnapshot(t)
               PROVE  Outcome(s, t) = "improved" <=> Outcome(t, s) = "regressed"
    OBVIOUS
  <1> DEFINE up(x, y) == {m \in Compared : Direction(m, Summary(x)[m], Summary(y)[m]) = "improved"}
  <1> DEFINE down(x, y) == {m \in Compared : Direction(m, Summary(x)[m], Summary(y)[m]) = "regressed"}
  <1>1. up(s, t) = down(t, s) /\ up(t, s) = down(s, t)
    BY SummaryType, DirectionTurns
  <1>2. /\ Moved("improved", s, t) = Moved("regressed", t, s)
        /\ Moved("improved", t, s) = Moved("regressed", s, t)
    BY <1>1 DEF Moved
  <1> QED
    BY <1>2, MovedType DEF Outcome
=============================================================================
