-------------------------- MODULE PerformanceAnalysis --------------------------
(***************************************************************************)
(* What the service concludes from one snapshot of a campaign's metrics,    *)
(* and from two of them.                                                    *)
(*                                                                          *)
(*   feedback.py                 health, recommendations, draft changes     *)
(*   feedback_outcome_report.py  improved or regressed since the baseline   *)
(*   contracts.py                PerformanceMetrics                         *)
(*                                                                          *)
(* Ratios are in ten-thousandths, the unit the code quantizes them to.      *)
(* Titles, rationales and parameters are left out.                          *)
(***************************************************************************)
EXTENDS Money, Sequences, FiniteSets

Unknown == -1   \* None, for a metric or a target that is not there

Ratio(n, d) == IF d = 0 THEN 0 ELSE Quantized(10000 * n, d)

\* What a request and its strategy may say.
IsSnapshot(s) ==
    /\ {s.impressions, s.clicks, s.conversions, s.spend} \subseteq Nat
    /\ s.conversions <= s.clicks /\ s.clicks <= s.impressions
    /\ {s.revenue, s.target, s.strategyTarget, s.forecast} \subseteq Nat \cup {Unknown}

Cpa(s) == IF s.conversions = 0 THEN Unknown ELSE Quantized(s.spend, s.conversions)

Roas(s) ==
    IF s.revenue = Unknown \/ s.spend = 0 THEN Unknown
    ELSE Quantized(10000 * s.revenue, s.spend)

Summary(s) ==
    [conversions |-> s.conversions, cpa |-> Cpa(s), cvr |-> Ratio(s.conversions, s.clicks),
     ctr |-> Ratio(s.clicks, s.impressions), roas |-> Roas(s)]

\* The event's own target, else the one of its strategy, else the forecast.
TargetCpa(s) ==
    CASE s.target # Unknown -> s.target
      [] s.target = Unknown /\ s.strategyTarget # Unknown -> s.strategyTarget
      [] OTHER -> s.forecast

LowCtr == 100             \* 0.0100
CostlierThan(cpa, target) == 100 * cpa > 125 * target

Health(s) ==
    CASE s.impressions < 100 \/ s.spend = 0 -> "insufficient_data"
      [] s.impressions >= 100 /\ s.spend > 0 /\ s.conversions = 0 -> "needs_attention"
      [] s.impressions >= 100 /\ s.spend > 0 /\ s.conversions > 0 ->
            CASE Summary(s).ctr < LowCtr -> "creative_fatigue"
              [] Summary(s).ctr >= LowCtr ->
                    IF TargetCpa(s) # Unknown /\ CostlierThan(Cpa(s), TargetCpa(s))
                    THEN "underperforming" ELSE "on_track"

-----------------------------------------------------------------------------
(* What is proposed.                                                        *)

Actions == {"adjust_budget", "refresh_creative", "narrow_audience",
            "inspect_tracking", "continue_monitoring"}

\* By priority, which is the order of the action plan.
Recommendations(health) ==
    CASE health = "underperforming" -> <<"adjust_budget", "refresh_creative">>
      [] health = "needs_attention" -> <<"inspect_tracking", "narrow_audience">>
      [] health = "creative_fatigue" -> <<"refresh_creative">>
      [] OTHER -> <<"continue_monitoring">>

\* The actions the optimization draft of a snapshot proposes: its changes.
Proposed(s) == {Recommendations(Health(s))[i] : i \in DOMAIN Recommendations(Health(s))}

ChangeType(action) ==
    CASE action = "adjust_budget" -> "budget"
      [] action = "refresh_creative" -> "creative"
      [] action = "narrow_audience" -> "audience"
      [] OTHER -> "measurement"

DraftTool(type) ==
    CASE type = "budget" -> "draft_budget_reallocation"
      [] type = "creative" -> "draft_creative_refresh"
      [] type = "audience" -> "draft_audience_refinement"
      [] OTHER -> "draft_measurement_followup"

-----------------------------------------------------------------------------
(* Two snapshots compared.                                                  *)

HigherIsBetter == {"conversions", "cvr", "ctr", "roas"}
Compared == HigherIsBetter \cup {"cpa"}      \* spend is informational

Direction(metric, before, after) ==
    CASE before = Unknown \/ after = Unknown -> "not_available"
      [] before # Unknown /\ after = before -> "unchanged"
      [] metric \in HigherIsBetter /\ before # Unknown /\ after > before -> "improved"
      [] metric \notin HigherIsBetter /\ after # Unknown /\ after < before -> "improved"
      [] OTHER -> "regressed"

Moved(direction, s, t) ==
    Cardinality({m \in Compared : Direction(m, Summary(s)[m], Summary(t)[m]) = direction})

\* insufficient_data also when nothing moved.
Outcome(s, t) ==
    CASE Moved("improved", s, t) > Moved("regressed", s, t) -> "improved"
      [] Moved("regressed", s, t) > Moved("improved", s, t) -> "regressed"
      [] Moved("improved", s, t) = 0 /\ Moved("regressed", s, t) = 0 -> "insufficient_data"
      [] OTHER -> "mixed"
=============================================================================
