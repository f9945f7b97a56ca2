-------------------------- MODULE MCProcessTracker --------------------------
(* Instances of ProcessTracker for TLC.                                    *)
EXTENDS ProcessTracker, TLC

Symmetry == Permutations(Threads) \cup Permutations(Pids)
=============================================================================
