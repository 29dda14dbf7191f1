------------------------- MODULE MCPerformanceEvents -------------------------
(* Instances of PerformanceEvents for TLC: two requests of one advertiser,  *)
(* which are interchangeable, and one that names another.                   *)
EXTENDS PerformanceEvents, TLC

CONSTANTS p1, p2, p3, a1, a2

Requests == {p1, p2, p3}

Named == [p \in Requests |-> IF p = p3 THEN a2 ELSE a1]

Sym == Permutations(Reporters) \cup Permutations({p1, p2})
=============================================================================
