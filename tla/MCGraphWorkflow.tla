---- MODULE MCGraphWorkflow ----
EXTENDS GraphWorkflow

\* 100 dollars over a week, and two cents, which are nothing a day.
MCBriefs == {[budget |-> 10000, days |-> 7], [budget |-> 2, days |-> 7]}

\* The initial tools in another order, with a budget of the model's own; a tool
\* planned twice.
MCModelPlans ==
    {[tools |-> <<InitialTools[2], InitialTools[3], InitialTools[1]>>, budget |-> 90000, days |-> 7],
     [tools |-> <<InitialTools[1], InitialTools[1], InitialTools[3]>>, budget |-> 10000, days |-> 7]}

\* Rejected, passed below the minimum, and passed.
MCCritiques ==
    {[passed |-> FALSE, score |-> 4], [passed |-> TRUE, score |-> 7], [passed |-> TRUE, score |-> 9]}
====
