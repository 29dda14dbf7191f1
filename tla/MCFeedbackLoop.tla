---- MODULE MCFeedbackLoop ----
EXTENDS FeedbackViews, TLC

CONSTANTS poor, good, o1, o2

Metrics(conversions, spend, clicks) ==
    [impressions |-> 1000, clicks |-> clicks, conversions |-> conversions, spend |-> spend,
     revenue |-> Unknown, target |-> 1000, strategyTarget |-> Unknown, forecast |-> Unknown]

\* One conversion for 50 dollars, where 10 were the target; eight for as much.
MCSnapshot == poor :> Metrics(1, 5000, 50) @@ good :> Metrics(8, 5000, 60)

\* The version that runs knows every draft tool, or not the budget's.
MCRefusals == {{}, {"draft_budget_reallocation"}}

Sym == Permutations({o1, o2})
====
