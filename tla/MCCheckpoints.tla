--------------------------- MODULE MCCheckpoints ---------------------------
EXTENDS Checkpoints, TLC
Processes == Permutations(Procs)
=============================================================================
