---------------------------- MODULE MCSyncEngine ----------------------------
(* SyncEngine on one or two callers, and one other device. *)
EXTENDS SyncEngine, TLC

\* Callers and updates are interchangeable.
MCSymmetry == Permutations(Callers) \cup Permutations(Writes)
=============================================================================
