----------------------------- MODULE MCVfsWrite -----------------------------
(* Small instances of VfsWrite for TLC.  Requests, names and the versions  *)
(* not there at first are interchangeable.                                 *)
EXTENDS VfsWrite, TLC

Symmetry ==
    Permutations(Procs) \cup Permutations(Paths) \cup Permutations(Versions \ Initial)

(* Two requests overlap and the host stays up; or they come one after the  *)
(* other, directories are flushed one by one and the host crashes.         *)
VARIABLE scene

Overlapping == Next /\ ~WriteBack /\ crashes' = crashes
OneByOne == Next /\ \A v, w \in Procs : pc'[v] # "idle" /\ pc'[w] # "idle" => v = w

MCInit == Init /\ scene \in {"overlap", "host"}
MCNext ==
    \/ scene = "overlap" /\ Overlapping /\ UNCHANGED scene
    \/ scene = "host" /\ OneByOne /\ UNCHANGED scene
MCSpec == MCInit /\ [][MCNext]_<<vars, scene>>
=============================================================================
