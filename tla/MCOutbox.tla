------------------------------- MODULE MCOutbox -------------------------------
(* Instances of Outbox for TLC.                                             *)
EXTENDS Outbox, TLC

\* Workers are interchangeable (used by runs without liveness only).
WorkerSymmetry == Permutations(Workers)
===============================================================================
