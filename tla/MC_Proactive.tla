----------------------------- MODULE MC_Proactive -----------------------------
(* Instances of Proactive for TLC: the sets are given in the .cfg files.   *)
EXTENDS Proactive, TLC

Symmetry == Permutations(Events)
=============================================================================
