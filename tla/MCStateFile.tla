---------------------------- MODULE MCStateFile ----------------------------
(* Instances of StateFile for TLC.                                         *)
EXTENDS StateFile, TLC

\* Replicas, keys and values are interchangeable.
Symmetry ==
    Permutations(Replicas) \cup Permutations(Keys) \cup Permutations(Vals)
=============================================================================
