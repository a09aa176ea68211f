----------------------------- MODULE MCTaskPool -----------------------------
(* Instances of TaskPool for TLC.                                          *)
EXTENDS TaskPoolQueue, TLC

Symmetry == Permutations(Launchers) \cup Permutations(Runners)
=============================================================================
