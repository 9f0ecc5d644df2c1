------------------------------- MODULE MC_Cron -------------------------------
(* Instances of Cron for TLC: the sets are given in the .cfg files.        *)
EXTENDS Cron, TLC

Symmetry == Permutations(Triggers) \cup Permutations(Threads) \cup Permutations(Events)
=============================================================================
