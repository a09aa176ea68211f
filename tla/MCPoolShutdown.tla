--------------------------- MODULE MCPoolShutdown ---------------------------
(* Instances of PoolShutdown for TLC; the cfg files name the threads.      *)
EXTENDS PoolShutdown
=============================================================================
