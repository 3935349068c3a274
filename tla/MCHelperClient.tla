--------------------------- MODULE MCHelperClient ---------------------------
(* Instances of HelperClient and Search for TLC: calls on one socket, or    *)
(* one request that makes them one after another over a tree.               *)
EXTENDS HelperClient, Search

\*        0
\*     1     2    3          2 a directory, 3 the trash, 1 a file
\*          4 5   6          5 a directory, the others files
\*            7
MCParent == <<0, 0, 0, 2, 2, 3, 5>>
MCNameOf == <<<<0>>, <<1>>, <<1, 1>>, <<0>>, <<0, 1>>, <<0>>, <<1>>>>
MCDirs == {2, 3, 5}
MCMatching == {1, 2, 5, 6, 7}

MCLimits == {[depth |-> d, visit |-> v, matches |-> m] : d \in 0 .. 2, v \in {2, 7}, m \in {2, 7}}

VARIABLE scene

allVars == <<clientVars, searchVars, scene>>

MCInit == ClientInit /\ SearchInit /\ scene \in {"calls", "search"}

Calling(A) == scene = "calls" /\ A /\ UNCHANGED <<searchVars, scene>>
Searching == scene = "search" /\ SearchNext /\ UNCHANGED <<clientVars, scene>>

MCNext == Calling(ClientNext) \/ Searching

MCSpec == MCInit /\ [][MCNext]_allVars /\ WF_allVars(Calling(Reader))
          /\ \A c \in Calls : WF_allVars(Calling(Caller(c)))
=============================================================================
