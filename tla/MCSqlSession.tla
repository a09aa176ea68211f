---------------------------- MODULE MCSqlSession ----------------------------
(* Instances of SqlSession for TLC.                                        *)
EXTENDS SqlSession, TLC

Symmetry == Permutations(Threads) \cup Permutations(Names) \cup Permutations(Addresses)
=============================================================================
