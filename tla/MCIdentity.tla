----------------------------- MODULE MCIdentity -----------------------------
(* Instances of Identity for TLC.                                          *)
EXTENDS Identity, TLC

CONSTANTS a1, a2, e1, e2

\* The first address derives the first account; the second derives nothing.
MCNameOf == (e1 :> a1) @@ (e2 :> None)

Symmetry == Permutations(Subjects) \cup Permutations(Procs)
=============================================================================
