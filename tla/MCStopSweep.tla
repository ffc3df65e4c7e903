---------------------------- MODULE MCStopSweep ----------------------------
EXTENDS StopSweep, TLC
(* The sweepers are alike.                                                 *)
Peers == Permutations(Sweepers)
=============================================================================
