--------------------------- MODULE MCStrategyJobs ---------------------------
(* Finite instances of StrategyJobs for TLC.                                *)
EXTENDS StrategyJobs, TLC

CONSTANTS NumJobs

MCJobs == 1..NumJobs
MCSymmetry == Permutations(Workers)
=============================================================================
