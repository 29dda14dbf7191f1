---------------------------- MODULE MCStrategyRuns ----------------------------
(* Instances of StrategyRuns for TLC.                                       *)
EXTENDS StrategyRuns

\* Nobody dies.
SafeNext == Next /\ ~\E t \in Threads : Crashes(t)

\* Fairness as in FairSpec, for the question what becomes of a run when no
\* process dies.
SafeFairSpec ==
    Init /\ [][SafeNext]_vars /\ \A t \in Threads : WF_vars(Proceed(t))
==============================================================================
