--------------------------- MODULE MCSessionEpoch ---------------------------
(* Instances of SessionEpoch for TLC.                                      *)
EXTENDS SessionEpoch, TLC

\* Replicas, users and requests differ only by name.
Symmetry ==
    Permutations(Replicas) \cup Permutations(Users) \cup Permutations(Procs)
=============================================================================
