------------------------------ MODULE FeedbackLoop ------------------------------
(***************************************************************************)
(* From an analysed performance event to changes an operator made: review   *)
(* of the optimization draft, revision, dry run, hand-off.                  *)
(*                                                                          *)
(*   api.py                                   the handlers                  *)
(*   feedback.py, feedback_execution_plan.py, feedback_execution_dry_run.py, *)
(*   feedback_handoff_package.py, feedback_handoff_record.py                *)
(*   persistence/feedback_review_store.py, feedback_execution_store.py,     *)
(*   feedback_handoff_store.py                                              *)
(*                                                                          *)
(* EventHistory brings the events, PerformanceAnalysis what a draft    *)
(* proposes.  Reviews and hand-offs are numbered in the order of their      *)
(* created_at, dry runs in the order they were computed.  An execution plan *)
(* belongs to its review and has one row of dry runs.  A change is named by *)
(* its action: its id is made from the event's id, or the source review's,  *)
(* and the action.  All three stores are Postgres.                          *)
(***************************************************************************)
EXTENDS EventHistory, PerformanceAnalysis

CONSTANTS
    Snapshot,      \* the metrics of a request
    Operators,     \* the API's request handlers for operators
    Refusals,      \* the sets of draft tools a running version may refuse
    MaxReviews,    \* bounds: reviews,
    MaxDryRuns,    \* dry runs computed,
    MaxHandoffs,   \* hand-off records,
    MaxWork        \* and all of these, the events and their races together

ASSUME SnapshotAssumption == \A p \in Payloads : IsSnapshot(Snapshot[p])

ASSUME BoundsAssumption == MaxReviews \in Nat

VARIABLES
    reviews,       \* feedback_optimization_reviews
    dryRuns,       \* feedback_execution_dry_runs, by review
    computed,      \* dry runs computed so far
    handoffs,      \* feedback_handoff_records
    remembered,    \* the hand-offs in the outbox as advertiser memories
    task           \* what an operator's request is about to write

loopVars == <<reviews, dryRuns, computed, handoffs, remembered, task>>

vars == <<historyVars, loopVars>>

-----------------------------------------------------------------------------
(* Reviews.                                                                 *)

Decision == {"approved", "rejected", "needs_revision"}

HandoffOutcome == {"applied", "blocked", "skipped"}

Draft == [p \in Payloads |-> Proposed(Snapshot[p])]

Selections(draft) == SUBSET draft \ {{}}    \* none selected means all

Reviewed(e, source, draft, d, s) ==
    [event |-> e, source |-> source, decision |-> d, draft |-> draft, selected |-> s]

Record(e, source, draft) ==
    /\ Len(reviews) < MaxReviews
    /\ \E d \in Decision, s \in Selections(draft) :
          reviews' = Append(reviews, Reviewed(e, source, draft, d, s))
    /\ UNCHANGED <<dryRuns, computed, handoffs, remembered, task>>

\* The event is read, and the review inserted with the draft it proposes: an
\* event that is overwritten in between is overwritten after.
Review(e) == stored[e] # NoPayload /\ Record(e, 0, Draft[stored[e]])

\* The changes its source selected.
RevisionDraft(r) == reviews[r].selected

ReviewRevision(r) ==
    reviews[r].decision = "needs_revision" /\ Record(reviews[r].event, r, RevisionDraft(r))

-----------------------------------------------------------------------------
(* Dry runs.                                                                *)

Begin(o, s, w) ==
    /\ task[o] = [step |-> "idle"]
    /\ task' = [task EXCEPT ![o] = [step |-> s, write |-> w]]

Ended(o) == task' = [task EXCEPT ![o] = [step |-> "idle"]]

NoRun == [first |-> 0, last |-> 0, status |-> "none"]

Steps(r) == reviews[r].selected

Tools(r) == {DraftTool(ChangeType(a)) : a \in Steps(r)}

\* One step that is blocked fails the run.
Verdict(r, refused) == IF Tools(r) \cap refused = {} THEN "passed" ELSE "failed"

\* The verdict of the version that runs, under the number of the run.
DryRun(o, r, refused) ==
    /\ computed < MaxDryRuns
    /\ reviews[r].decision = "approved"
    /\ computed' = computed + 1
    /\ Begin(o, "dry_run", [review |-> r, at |-> computed',
                            status |-> Verdict(r, refused)])
    /\ UNCHANGED <<reviews, dryRuns, handoffs, remembered>>

\* The upsert: the row's created_at stays, the snapshot is the last recorded,
\* which need not be the last computed.
RecordDryRun(o) ==
    /\ task[o].step = "dry_run"
    /\ LET run == task[o].write
       IN dryRuns' = [dryRuns EXCEPT ![run.review] =
              [first |-> IF @ = NoRun THEN run.at ELSE @.first,
               last  |-> run.at, status |-> run.status]]
    /\ Ended(o)
    /\ UNCHANGED <<reviews, computed, handoffs, remembered>>

-----------------------------------------------------------------------------
(* Hand-offs.                                                               *)

PackageStatus(run) ==
    CASE run.status = "none"   -> "validation_missing"
      [] run.status = "failed" -> "validation_failed"
      [] OTHER                 -> "ready_for_manual_handoff"

\* Faulty: a package that was never validated may be applied.
AcceptableUnlessFailed(r, run, outcome, completed) ==
    /\ completed \subseteq Steps(r)
    /\ outcome = "applied" => run.status # "failed" /\ completed = Steps(r)

\* Any outcome may be recorded, applied only of a ready package and every step.
Acceptable(r, run, outcome, completed) ==
    /\ completed \subseteq Steps(r)
    /\ outcome = "applied" =>
          PackageStatus(run) = "ready_for_manual_handoff" /\ completed = Steps(r)

HandoffOf(r, run, outcome, completed) ==
    [review |-> r, run |-> run, outcome |-> outcome, complete |-> completed = Steps(r)]

\* The package is built from the dry run of that moment, and the record checked
\* against it.
Handoff(o, r, outcome, completed) ==
    /\ Len(handoffs) < MaxHandoffs
    /\ reviews[r].decision = "approved"
    /\ Acceptable(r, dryRuns[r], outcome, completed)
    /\ Begin(o, "handoff", HandoffOf(r, dryRuns[r], outcome, completed))
    /\ UNCHANGED <<reviews, dryRuns, computed, handoffs, remembered>>

\* Faulty: the memory comes first.
RecordHandoffAfterMemory(o) ==
    /\ task[o].step = "handoff" /\ Len(handoffs) < MaxHandoffs
    /\ task' = [task EXCEPT ![o] = [step |-> "memory", write |-> Len(handoffs) + 1]]
    /\ UNCHANGED <<reviews, dryRuns, computed, handoffs, remembered>>

\* A record has an id of its own: a repeated request makes another.
RecordHandoff(o) ==
    /\ task[o].step = "handoff" /\ Len(handoffs) < MaxHandoffs
    /\ handoffs' = Append(handoffs, task[o].write)
    /\ task' = [task EXCEPT ![o] = [step |-> "memory", write |-> Len(handoffs')]]
    /\ UNCHANGED <<reviews, dryRuns, computed, remembered>>

\* In a transaction of its own, before the answer.
RememberHandoff(o) ==
    /\ task[o].step = "memory"
    /\ remembered' = remembered \cup {task[o].write}
    /\ Ended(o)
    /\ UNCHANGED <<reviews, dryRuns, computed, handoffs>>

OperatorCrash(o) ==
    /\ task[o].step # "idle"
    /\ Ended(o)
    /\ UNCHANGED <<reviews, dryRuns, computed, handoffs, remembered>>

-----------------------------------------------------------------------------

(* The rows of the three tables.                                            *)

ReviewRecord ==
    [event : EventIds, source : Nat, decision : Decision,
     draft : SUBSET Actions, selected : Selections(Actions)]

Run == [first : Nat, last : Nat, status : {"none", "passed", "failed"}]

HandoffRecord ==
    [review : 1 .. Len(reviews), run : Run, outcome : HandoffOutcome,
     complete : BOOLEAN]

LoopInit ==
    /\ reviews    = <<>>
    /\ dryRuns    = [r \in 1 .. MaxReviews |-> NoRun]
    /\ computed   = 0
    /\ handoffs   = <<>>
    /\ remembered = {}
    /\ task       = [o \in Operators |-> [step |-> "idle"]]

Operation(o) ==
    \/ \E r \in DOMAIN reviews :
          \/ \E refused \in Refusals : DryRun(o, r, refused)
          \/ \E h \in HandoffOutcome, s \in SUBSET Steps(r) : Handoff(o, r, h, s)
    \/ RecordDryRun(o) \/ RecordHandoff(o) \/ RememberHandoff(o)
    \/ OperatorCrash(o)

Init == HistoryInit /\ LoopInit

Work ==
    Cardinality({e \in EventIds : stored[e] # NoPayload}) + Cardinality(contested)
        + Len(reviews) + computed + Len(handoffs)

Next ==
    /\ \/ HistoryNext /\ UNCHANGED loopVars
       \/ /\ \/ \E e \in EventIds : Review(e)
             \/ \E r \in DOMAIN reviews : ReviewRevision(r)
             \/ \E o \in Operators : Operation(o)
          /\ UNCHANGED historyVars
    /\ Work' <= MaxWork

Spec == Init /\ [][Next]_vars

-----------------------------------------------------------------------------
(* Properties.                                                              *)

LoopTypeOK ==
    /\ reviews    \in Seq(ReviewRecord)
    /\ dryRuns    \in [1 .. MaxReviews -> Run]
    /\ computed   \in Nat
    /\ handoffs   \in Seq(HandoffRecord)
    /\ remembered \subseteq 1 .. Len(handoffs)
    /\ task       \in [Operators ->
          [step : {"idle"}]
          \cup [step : {"dry_run"}, write : [review : 1 .. Len(reviews), at : Nat,
                                             status : {"passed", "failed"}]]
          \cup [step : {"handoff"}, write : HandoffRecord]
          \cup [step : {"memory"},  write : 1 .. Len(handoffs)]]

\* Every row and every request holds what its table and handler allow, and
\* refers to rows that exist.
TypeOK == HistoryTypeOK /\ LoopTypeOK

\* Nobody applied a change that was not in the draft shown to a reviewer of
\* that event, asked for by every reviewer who sent it back, approved at the
\* end, and part of a dry run that passed and is still that review's row,
\* whatever versions of the service computed dry runs, in whatever order they
\* were recorded, and however often the event was reviewed or overwritten.
AppliedWasApproved ==
    \A h \in DOMAIN handoffs : handoffs[h].outcome = "applied" =>
        LET r == handoffs[h].review
        IN /\ reviews[r].decision = "approved"
           /\ handoffs[h].complete
           /\ handoffs[h].run.status = "passed" /\ handoffs[h].run.first = dryRuns[r].first
           /\ \A q \in 1 .. r :
                 /\ reviews[q].selected \subseteq reviews[q].draft
                 /\ LET s == reviews[q].source
                    IN s # 0 => /\ s \in 1 .. q - 1
                                /\ reviews[s].decision = "needs_revision"
                                /\ reviews[s].event = reviews[q].event
                                /\ reviews[q].draft = reviews[s].selected
=============================================================================
