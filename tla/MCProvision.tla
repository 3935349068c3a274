---------------------------- MODULE MCProvision ----------------------------
(* Instances of Provision for TLC.                                         *)
EXTENDS Provision, TLC

CONSTANT all

\* One content has a rule for everybody; any other has no rules.
MCMatches == [c \in Usable |-> IF c = all THEN Ids ELSE {}]

Symmetry == Permutations(Ids) \cup Permutations(Procs) \cup Permutations(Accounts)
=============================================================================
