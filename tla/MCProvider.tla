----------------------------- MODULE MCProvider -----------------------------
(* Two threads of one instance (a sync worker and a caller) and one thread of *)
(* another (a second device, or the CLI) on one blob.                         *)
EXTENDS Provider, TLC

CONSTANTS worker, caller, other, app, cli

MCInstanceOf == [t \in Threads |-> IF t = other THEN cli ELSE app]

\* The passphrases are interchangeable, and so are the two threads of one instance.
MCSymmetry == Permutations(Keys) \cup Permutations({worker, caller})
=============================================================================
