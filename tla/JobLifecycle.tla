---------------------------- MODULE JobLifecycle ----------------------------
(***************************************************************************)
(* What the strategy-job queue promises its clients, without workers,       *)
(* leases, errors or time: a job waits, is worked on, and ends once.  Each  *)
(* start of work is paid for from the job's budget of attempts; a job goes  *)
(* back to waiting only while attempts are left, and fails only when none   *)
(* is (or outright, where background tasks may fail it with one shot); only *)
(* an operator gives a failed job a new budget.  StrategyJobs implements    *)
(* this specification.                                                      *)
(***************************************************************************)
EXTENDS Integers

CONSTANTS Jobs, Budgets, OneShot

VARIABLES
    phase,   \* what a client polling the job sees
    left     \* attempts not yet spent

vars == <<phase, left>>

Enter(j, p) == phase' = [phase EXCEPT ![j] = p]

Submit(j) ==
    /\ phase[j] = "absent"
    /\ Enter(j, "queued")
    /\ \E b \in Budgets : left' = [left EXCEPT ![j] = b]

\* Work starts, or starts again, on a batch of jobs: one attempt each.
Start(S) ==
    /\ \A j \in S : phase[j] \in {"queued", "running"} /\ left[j] > 0
    /\ phase' = [j \in Jobs |-> IF j \in S THEN "running" ELSE phase[j]]
    /\ left'  = [j \in Jobs |-> IF j \in S THEN left[j] - 1 ELSE left[j]]

Requeue(j) ==
    /\ phase[j] = "running" /\ left[j] > 0
    /\ Enter(j, "queued")
    /\ UNCHANGED left

Complete(j) == phase[j] = "running" /\ Enter(j, "completed") /\ UNCHANGED left

Fail(j) ==
    /\ phase[j] = "running" /\ (OneShot \/ left[j] = 0)
    /\ Enter(j, "failed")
    /\ UNCHANGED left

Cancel(j) ==
    /\ phase[j] \in {"queued", "running"}
    /\ Enter(j, "cancelled")
    /\ UNCHANGED left

Reopen(j) ==
    /\ phase[j] = "failed"
    /\ Enter(j, "queued")
    /\ \E b \in Budgets : left' = [left EXCEPT ![j] = b]

Init == phase = [j \in Jobs |-> "absent"] /\ left = [j \in Jobs |-> 0]

Next ==
    \/ \E S \in SUBSET Jobs : Start(S)
    \/ \E j \in Jobs : Submit(j) \/ Requeue(j) \/ Complete(j) \/ Fail(j)
                         \/ Cancel(j) \/ Reopen(j)

Spec == Init /\ [][Next]_vars
=============================================================================
