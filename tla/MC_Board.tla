------------------------------ MODULE MC_Board ------------------------------
(* Instances of Board for TLC: the sets are given in the .cfg files.       *)
EXTENDS Board, TLC

\* Agents differ only by name; threads and tasks are interchangeable too.
Symmetry == Permutations(Agents) \cup Permutations(Threads) \cup Permutations(Tasks)
=============================================================================
