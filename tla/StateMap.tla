------------------------------ MODULE StateMap ------------------------------
(***************************************************************************)
(* What a store shared through internal/statefile promises its callers,    *)
(* with no file, lock or replica in sight: one map, whose rows are set and *)
(* removed one at a time.                                                  *)
(***************************************************************************)
CONSTANTS Keys, Vals, NoVal

VARIABLE doc

Init == doc = [k \in Keys |-> NoVal]

Set(k, v) == doc' = [doc EXCEPT ![k] = v]

Next == \E k \in Keys, v \in Vals \cup {NoVal} : Set(k, v)

Spec == Init /\ [][Next]_doc
=============================================================================
