---------------------------- MODULE MCIdempotency ----------------------------
(* Instances of Idempotency for TLC.                                        *)
EXTENDS Idempotency, TLC

\* Requests are interchangeable, and no liveness is checked.
RequestSymmetry == Permutations(Requests)
==============================================================================
