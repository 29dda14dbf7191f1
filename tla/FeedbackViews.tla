------------------------------ MODULE FeedbackViews ------------------------------
(***************************************************************************)
(* What operators are shown of the feedback loop: its stage, its timeline,  *)
(* and the commands they are told to run next.                              *)
(*                                                                          *)
(*   feedback_lineage.py, feedback_loop_summary.py, feedback_loop_timeline.py, *)
(*   feedback_loop_command_center.py, feedback_loop_chain.py,               *)
(*   feedback_outcome_report.py                                             *)
(*                                                                          *)
(* Projections of the tables of FeedbackLoop, read at one moment.  Every    *)
(* list is the newest n rows.  Events are numbered by occurred_at and are   *)
(* snapshots of one campaign.  All persistence is enabled.                  *)
(***************************************************************************)
EXTENDS FeedbackLoop, Functions

CONSTANT Limits    \* the limits that operators ask with

ASSUME LimitsAssumption == Limits \subseteq 1 .. 100

ASSUME EventIdsAssumption == EventIds \subseteq Nat \ {0}

Newest(S, n) == {i \in S : Cardinality({j \in S : j > i}) < n}

Latest(S) == IF S = {} THEN 0 ELSE CHOOSE i \in S : \A j \in S : j <= i

Earliest(S) == CHOOSE i \in S : \A j \in S : i <= j

-----------------------------------------------------------------------------
(* Lists.                                                                   *)

ReviewsOf(e) == {r \in DOMAIN reviews : reviews[r].event = e}

HandoffsOf(e) == {h \in DOMAIN handoffs : reviews[handoffs[h].review].event = e}

\* By created_at, which is the first run's.
RunsOf(e, n) ==
    LET all == {r \in ReviewsOf(e) : dryRuns[r] # NoRun}
    IN {r \in all : Cardinality({q \in all : dryRuns[q].first > dryRuns[r].first}) < n}

\* By the created_at of the snapshot: the review whose plan was run last.
LatestRun(e, n) ==
    LET runs == RunsOf(e, n)
    IN IF runs = {} THEN 0
       ELSE CHOOSE r \in runs : \A q \in runs : dryRuns[q].last <= dryRuns[r].last

\* The review a lineage starts from, and the newest reviews of its revision draft.
Source(r) == IF reviews[r].source = 0 THEN r ELSE reviews[r].source

Lineage(r) ==
    {Source(r)} \cup Newest({q \in DOMAIN reviews : reviews[q].source = Source(r)}, 100)

Approved(r) == reviews[r].decision = "approved"

\* execution_ready_review_ids: every approved review has a plan.
ReadyIds(e, n) == {q \in UNION {Lineage(r) : r \in Newest(ReviewsOf(e), n)} : Approved(q)}

\* The last of them.  They are listed lineage by lineage, from the newest
\* review's, and a lineage from its source, then from its newest revision.
LastReady(e, n) ==
    LET ready   == ReadyIds(e, n)
        With(q) == Latest({r \in Newest(ReviewsOf(e), n) : q \in Lineage(r)})
        review  == Earliest({With(q) : q \in ready})
        added   == {q \in ready : With(q) = review}
    IN CASE ready = {} -> 0
         [] ready # {} /\ added = {Source(review)} -> Source(review)
         [] OTHER -> Earliest(added \ {Source(review)})

-----------------------------------------------------------------------------
(* The summary: the rows that matter, 0 for none, of the reviews that are   *)
(* ready the last, and the furthest that anything has got.                  *)

DryRunStage == [passed |-> "dry_run_passed", failed |-> "dry_run_failed"]

HandoffStage ==
    [applied |-> "handoff_applied", blocked |-> "handoff_blocked", skipped |-> "handoff_skipped"]

CurrentStage(review, ready, run, handoff) ==
    CASE handoff # 0 -> HandoffStage[handoffs[handoff].outcome]
      [] handoff = 0 /\ run # 0 -> DryRunStage[dryRuns[run].status]
      [] handoff = 0 /\ run = 0 /\ ready # 0 -> "execution_ready"
      [] handoff = 0 /\ run = 0 /\ ready = 0 /\ review # 0 ->
            IF reviews[review].decision = "needs_revision" THEN "revision_requested" ELSE "rejected"
      [] OTHER -> "review_pending"

LoopSummary(e, n) ==
    LET review  == Latest(ReviewsOf(e))
        ready   == LastReady(e, n)
        run     == LatestRun(e, n)
        handoff == Latest(HandoffsOf(e))
    IN [event |-> e, review |-> review, ready |-> ready, run |-> run, handoff |-> handoff,
        stage |-> CurrentStage(review, ready, run, handoff)]

-----------------------------------------------------------------------------
(* The outcome report: this snapshot against the next later one.            *)

\* Of the newest n snapshots, the earliest that is later.
FollowupEvent(e, n) ==
    LET later == {f \in Newest({f \in EventIds : stored[f] # NoPayload}, n) : f > e}
    IN IF later = {} THEN 0 ELSE Earliest(later)

Between == [p \in Payloads |-> [q \in Payloads |-> Outcome(Snapshot[p], Snapshot[q])]]

OutcomeReport(e, n) ==
    LET followup == FollowupEvent(e, n)
    IN [followup |-> followup,
        status |-> IF followup = 0 THEN "no_followup_event" ELSE Between[stored[e]][stored[followup]]]

-----------------------------------------------------------------------------
(* The command center.  A command is what to do and the row it is done to;  *)
(* the most urgent comes first.                                             *)

\* "outcome_" and the report's status.
CommandCenterStage(summary, report) ==
    IF summary.stage = "handoff_applied" /\ report.status # "no_followup_event"
    THEN "outcome" ELSE summary.stage

\* Faulty: the newest review, whatever it decided.
NewestReview(summary) == summary.review

ExecutionReview(summary) ==
    CASE summary.run # 0 -> summary.run
      [] summary.run = 0 /\ summary.ready # 0 -> summary.ready
      [] OTHER -> summary.review

Do(what, target) == [what |-> what, target |-> target]

InspectDraft(summary) == Do("inspect_optimization_draft", summary.event)

NextEvent(summary) == Do("record_next_performance_event", summary.event)

InspectHandoff(summary) == Do("inspect_handoff_record", summary.handoff)

InspectOutcome(summary) == Do("inspect_feedback_outcome_report", summary.event)

FollowupActionPlan(report) == Do("inspect_followup_action_plan", report.followup)

FollowupDraft(report) == Do("inspect_followup_optimization_draft", report.followup)

ReviewFollowupDraft(report) == Do("review_followup_optimization_draft", report.followup)

ReviewPending(summary) == <<InspectDraft(summary), Do("review_optimization_draft", summary.event)>>

\* The last review is the one that asked for the revision.
RevisionRequested(summary) ==
    <<Do("generate_revision_draft", summary.review), Do("submit_revision_review", summary.review)>>

ExecutionReady(summary) ==
    <<Do("inspect_execution_plan", ExecutionReview(summary)),
      Do("run_execution_dry_run", ExecutionReview(summary))>>

DryRunPassed(summary) ==
    <<Do("get_handoff_package", summary.run), Do("submit_handoff_record", summary.run)>>

DryRunFailed(summary) == <<Do("inspect_failed_dry_run", summary.run)>>

HandoffBlocked(summary) == <<InspectHandoff(summary), InspectDraft(summary)>>

HandoffSkipped(summary) == <<InspectHandoff(summary), NextEvent(summary)>>

Rejected(summary) == <<InspectDraft(summary), NextEvent(summary)>>

OutcomeCommands(summary, report) ==
    IF report.status \in {"regressed", "mixed"}
    THEN <<InspectOutcome(summary), FollowupActionPlan(report), FollowupDraft(report),
           ReviewFollowupDraft(report)>>
    ELSE <<InspectOutcome(summary), NextEvent(summary)>>

StageCommands(summary, report) ==
    LET stage == CommandCenterStage(summary, report)
    IN CASE stage = "review_pending"     -> ReviewPending(summary)
         [] stage = "revision_requested" -> RevisionRequested(summary)
         [] stage = "rejected"           -> Rejected(summary)
         [] stage = "execution_ready"    -> ExecutionReady(summary)
         [] stage = "dry_run_passed"     -> DryRunPassed(summary)
         [] stage = "dry_run_failed"     -> DryRunFailed(summary)
         [] stage = "handoff_applied"    -> <<NextEvent(summary)>>
         [] stage = "handoff_blocked"    -> HandoffBlocked(summary)
         [] stage = "handoff_skipped"    -> HandoffSkipped(summary)
         [] OTHER                        -> OutcomeCommands(summary, report)

Inspections(summary) ==
    <<Do("inspect_feedback_loop_summary", summary.event),
      Do("inspect_feedback_loop_timeline", summary.event)>>

\* The report is inspected too, unless the stage says so already: no command
\* is given twice.
InspectionOfOutcome(summary, commands) ==
    IF InspectOutcome(summary) \in Range(commands) THEN <<>> ELSE <<InspectOutcome(summary)>>

Commands(e, n) ==
    LET summary  == LoopSummary(e, n)
        commands == StageCommands(summary, OutcomeReport(e, n))
    IN commands \o Inspections(summary) \o InspectionOfOutcome(summary, commands)

-----------------------------------------------------------------------------
(* The chain: one loop, its outcome, and the loop of the follow-up.         *)

Focus(report, stage) ==
    CASE report.status \in {"no_followup_event", "insufficient_data"} -> "record_followup_snapshot"
      [] report.status = "improved" -> "monitor_followup_outcome"
      [] OTHER ->
           CASE stage \in {"review_pending", "rejected"} -> "review_followup_optimization_draft"
             [] stage = "revision_requested" -> "generate_followup_revision"
             [] stage = "execution_ready"    -> "run_followup_execution_dry_run"
             [] stage = "dry_run_failed"     -> "inspect_followup_dry_run"
             [] stage = "dry_run_passed"     -> "prepare_followup_handoff"
             [] OTHER                        -> "monitor_followup_handoff"

BaselineCommandIds(focus) ==
    CASE focus \in {"record_followup_snapshot", "monitor_followup_outcome"} ->
            <<"record_next_performance_event">>
      [] focus = "review_followup_optimization_draft" -> <<"review_followup_optimization_draft">>
      [] OTHER -> <<>>

FollowupCommandIds(focus) ==
    CASE focus = "review_followup_optimization_draft" ->
            <<"review_optimization_draft", "inspect_optimization_draft">>
      [] focus = "generate_followup_revision"     -> <<"generate_revision_draft">>
      [] focus = "run_followup_execution_dry_run" -> <<"run_execution_dry_run">>
      [] focus = "inspect_followup_dry_run"       -> <<"inspect_failed_dry_run">>
      [] focus = "prepare_followup_handoff"       -> <<"get_handoff_package">>
      [] focus = "monitor_followup_handoff" ->
            <<"record_next_performance_event", "inspect_handoff_record">>
      [] OTHER -> <<>>

\* The first command that has the first of the names that any has.
Matching(commands, ids) ==
    LET named == {i \in DOMAIN ids : \E k \in DOMAIN commands : commands[k].what = ids[i]}
    IN IF named = {} THEN <<>>
       ELSE LET name == ids[Earliest(named)]
            IN <<commands[Earliest({k \in DOMAIN commands : commands[k].what = name})]>>

\* The first match, or what is most urgent anyway; later are the commands of
\* the follow-up, if there is one.
RecommendedCommand(focus, commands, later) ==
    (Matching(commands, BaselineCommandIds(focus))
        \o Matching(later, FollowupCommandIds(focus)) \o later \o commands)[1]

\* What the chain recommends next to the commands of the event's own loop.
LoopChain(e, n, commands) ==
    LET report   == OutcomeReport(e, n)
        followup == report.followup
        stage    == IF followup = 0 THEN "none" ELSE LoopSummary(followup, n).stage
        later    == IF followup = 0 THEN <<>> ELSE Commands(followup, n)
    IN RecommendedCommand(Focus(report, stage), commands, later)

-----------------------------------------------------------------------------
(* The timeline.  Entries are sorted by group, then by time.                *)

Entry(stage, of, group, index) == [stage |-> stage, of |-> of, group |-> group, index |-> index]

\* Faulty: in the order of the list, newest first.
IndexInList(r, newest) == Cardinality({q \in newest : q > r})

ReviewIndex(r, newest) == Cardinality({q \in newest : q < r})

ReviewEntry(r, k) == Entry("reviewed", r, 100 + 10 * k, 0)

RevisionDraftEntry(r, k) == Entry("revision_draft_created", r, 101 + 10 * k, 0)

ExecutionPlanEntry(r, k) == Entry("execution_plan_ready", r, 102 + 10 * k, 0)

DryRunEntry(r) == Entry("dry_run", r, 500, dryRuns[r].last)

HandoffPackageEntry(r, k) == Entry("handoff_package", r, 600 + k, 0)

HandoffRecordEntry(h) == Entry("handoff_record", h, 700, h)

ReviewEntries(r, k) ==
    CASE reviews[r].decision = "needs_revision" -> {ReviewEntry(r, k), RevisionDraftEntry(r, k)}
      [] Approved(r) -> {ReviewEntry(r, k), ExecutionPlanEntry(r, k), HandoffPackageEntry(r, k)}
      [] OTHER       -> {ReviewEntry(r, k)}

TimelineEntries(e, n) ==
    LET newest == Newest(ReviewsOf(e), n)
    IN {Entry("performance_event_analyzed", e, 0, 0), Entry("feedback_action_plan_created", e, 1, 0),
        Entry("optimization_draft_created", e, 2, 0)}
       \cup (UNION {ReviewEntries(r, ReviewIndex(r, newest)) : r \in newest})
       \cup {DryRunEntry(r) : r \in RunsOf(e, n)}
       \cup {HandoffRecordEntry(h) : h \in Newest(HandoffsOf(e), n)}

Precedes(x, y) == x.group < y.group \/ (x.group = y.group /\ x.index < y.index)

\* What an entry cannot be told before.
Causes(x, entries) ==
    {y \in entries :
        CASE x.stage = "reviewed" ->
                \/ y.stage = "optimization_draft_created"
                \/ y.stage = "revision_draft_created" /\ y.of = reviews[x.of].source
          [] x.stage \in {"revision_draft_created", "execution_plan_ready"} ->
                y.stage = "reviewed" /\ y.of = x.of
          [] x.stage = "dry_run" -> y.stage = "execution_plan_ready" /\ y.of = x.of
          [] x.stage = "handoff_package" -> y.stage = "dry_run" /\ y.of = x.of
          [] x.stage = "handoff_record" ->
                y.stage = "handoff_package" /\ y.of = handoffs[x.of].review
          [] OTHER -> FALSE}

-----------------------------------------------------------------------------
(* The reading handlers: what they answer, and when not 404 or 409.         *)

Stored == {e \in EventIds : stored[e] # NoPayload}

GetRevisionDraft(r) == r \in DOMAIN reviews /\ reviews[r].decision = "needs_revision"

GetExecutionPlan(r) == r \in DOMAIN reviews /\ Approved(r)

\* The package is built from the plan.
GetHandoffPackage(r) == GetExecutionPlan(r)

GetDryRun(r) == r \in DOMAIN dryRuns /\ dryRuns[r] # NoRun

GetHandoffRecord(h) == h \in DOMAIN handoffs

GetCommandCenter(e, n) == IF e \in Stored THEN Commands(e, n) ELSE <<>>

GetLoopChain(e, n, commands) == IF e \in Stored THEN {LoopChain(e, n, commands)} ELSE {}

GetTimeline(e, n) == IF e \in Stored THEN TimelineEntries(e, n) ELSE {}

-----------------------------------------------------------------------------
(* Properties.                                                              *)

\* Would the handler that a command names accept it now, and find what the
\* command is about?
Accepts(c) ==
    CASE c.what \in {"generate_revision_draft", "submit_revision_review"} -> GetRevisionDraft(c.target)
      [] c.what \in {"inspect_execution_plan", "run_execution_dry_run"} -> GetExecutionPlan(c.target)
      [] c.what = "get_handoff_package" -> GetHandoffPackage(c.target)
      [] c.what = "submit_handoff_record" ->
            /\ GetHandoffPackage(c.target)
            /\ Acceptable(c.target, dryRuns[c.target], "applied", Steps(c.target))
      [] c.what = "inspect_failed_dry_run" ->
            GetDryRun(c.target) /\ dryRuns[c.target].status = "failed"
      [] c.what = "inspect_handoff_record" -> GetHandoffRecord(c.target)
      [] OTHER -> c.target \in Stored

\* Whatever reviewers, dry runs and operators did, in whatever order, and with
\* whatever limit: every command the command center or the chain gives an
\* operator is one its handler accepts.
CommandsAreAccepted ==
    \A e \in EventIds, n \in Limits :
        LET commands == GetCommandCenter(e, n)
        IN \A c \in Range(commands) \cup GetLoopChain(e, n, commands) : Accepts(c)

IsCausal(entries) == \A x \in entries : \A y \in Causes(x, entries) : Precedes(y, x)

\* A list whose groups 100 + 10 k stay below that of the dry runs.
ShortList(e, n) == Cardinality(Newest(ReviewsOf(e), n)) <= 40

\* A timeline of at most forty reviews tells no entry before one that it stands
\* on: no dry run before its plan, no review before the draft it is about.
TimelineIsCausal ==
    \A e \in EventIds, n \in Limits : ShortList(e, n) => IsCausal(GetTimeline(e, n))
=============================================================================
