---------------------------- MODULE MCHelperPool ----------------------------
(* Small instances of HelperPool for TLC: one uid, two group sets, so that *)
(* every membership change and every change back happens.                  *)
EXTENDS HelperPool, TLC

CONSTANTS G1, G2

MCCreds == {[uid |-> 1, groups |-> G1], [uid |-> 1, groups |-> G2]}

Symmetry ==
    Permutations(Users) \cup Permutations(Reqs) \cup Permutations(EntryIds)
              \cup Permutations({G1, G2})

(* Two requests never find a pool of two busy all over, so a pool of one is *)
(* there too; two of the users and two of the processes are enough for it. *)
Asking == {user[r] : r \in Reqs} \ {None}
Served == {owner[e] : e \in EntryIds} \ {None}
SmallIfOne ==
    ceiling = 1 => /\ Cardinality(Asking \cup Served) <= 2
                   /\ Cardinality({e \in EntryIds : proc[e] # "none"}) <= 2
=============================================================================
