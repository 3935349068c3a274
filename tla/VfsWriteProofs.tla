--------------------------- MODULE VfsWriteProofs ---------------------------
(***************************************************************************)
(* The properties of VfsWrite for any number of requests, names, versions, *)
(* late calls and crashes.                                                 *)
(*                                                                         *)
(* A version leaves its temporary name only by the rename of its own       *)
(* write, which comes after the fsync; so a name somebody reads, and the   *)
(* namespace a crash goes back to, lead to synced versions (Stored), and   *)
(* so does a rename that was given up and happens later (Shape).  What a   *)
(* request has done so far is in Steps.  That a loss is always an overlap  *)
(* or a crash too early needs to know besides that the version a write has *)
(* pinned is in the trash (PinnedInTrash), which need not be flushed, and  *)
(* that what was answered and is still in its place is on the disk (Safe). *)
(***************************************************************************)
EXTENDS VfsWrite, TLAPS

Shown == PathNames \cup TrashNames

(* A namespace m, with the contents d: what has a name outside the         *)
(* temporary files is complete.                                            *)
Stored(m, d) ==
    /\ m \in [Names -> Versions \cup {None}]
    /\ \A n \in Shown : m[n] # None => d[m[n]] = "synced"
    /\ \A v \in Versions : m[TmpName(v)] \in {v, None}

(* The calls of a helper.  A rename over a path comes after the fsync.     *)
Shape(c, d) ==
    \/ c = MkdirCall
    \/ \E v \in Versions : c = [kind |-> "create", to |-> TmpName(v), inode |-> v]
    \/ \E n \in TmpNames \cup TrashNames : c = [kind |-> "unlink", from |-> n]
    \/ \E m, n \in Shown, k \in {"link", "noreplace"} : c = [kind |-> k, from |-> m, to |-> n]
    \/ \E v \in Versions, p \in Paths :
          /\ c = [kind |-> "replace", from |-> TmpName(v), to |-> PathName(p)]
          /\ d[v] = "synced"

(* Calls nobody waits for.  None takes anything out of the trash, and a    *)
(* version whose creation is still to come is nobody's any more.           *)
Stray(c) ==
    /\ Shape(c, data)
    /\ c.kind = "noreplace" => c.from \in PathNames
    /\ c.kind = "create" =>
          data[c.inode] = "partial" /\ \A w \in Procs : ver[w] # c.inode

Underway == \A c \in flying : Stray(c)

(* What each request has done so far.                                      *)
StepOf(w) ==
    /\ pc[w] # "idle" => path[w] \in Paths
    /\ pc[w] \in {"create", "copy", "sync", "link", "rename", "syncdir", "cleanup"} =>
          ver[w] \in Versions
    /\ pc[w] \in {"idle", "trash"} => ver[w] = None
    /\ pc[w] = "create" => data[ver[w]] = "none"
    /\ pc[w] = "copy" => data[ver[w]] = "partial"
    /\ pc[w] = "sync" => data[ver[w]] = "written"
    /\ pc[w] \in {"mkdir", "link", "rename", "syncdir"} /\ ver[w] # None =>
          data[ver[w]] = "synced"
    /\ pc[w] \in {"link", "trash", "rename"} => tname[w] \in TrashNames /\ trashDir

Steps == \A w \in Procs : StepOf(w)

OwnVersions == \A w, u \in Procs : ver[w] = ver[u] /\ ver[w] # None => w = u

Disk == disk \in [ns : [Names -> Versions \cup {None}], trashDir : BOOLEAN]

Contents ==
    /\ trashDir \in BOOLEAN
    /\ data \in [Versions -> {"none", "partial", "written", "synced"}]
    /\ crashes \in 0..MaxCrashes

Places ==
    /\ pc \in [Procs -> {"idle", "create", "copy", "sync", "mkdir", "link",
                         "rename", "syncdir", "trash", "cleanup"}]
    /\ path \in [Procs -> Paths \cup {None}]
    /\ ver \in [Procs -> Versions \cup {None}]
    /\ tname \in [Procs -> TrashNames \cup {None}]
    /\ attempt \in [Procs -> 0..MaxAttempts]

Typed == Contents /\ Places

Requests == Typed /\ Steps /\ OwnVersions

CompleteInv ==
    /\ Typed /\ Disk
    /\ Stored(ns, data) /\ Stored(disk.ns, data)
    /\ Underway /\ Steps /\ OwnVersions

(* The version a write found at its name is in the trash when it renames,  *)
(* or was deleted there.                                                   *)
PinnedInTrash ==
    \A w \in Procs :
        pc[w] = "rename" /\ pinned[w] # None =>
            pinned[w] \in emptied \/ \E n \in TrashNames : ns[n] = pinned[w]

(* What was answered and nobody has taken off a name since has a name,     *)
(* and the same one on the disk.                                           *)
Safe ==
    /\ settled \subseteq acked /\ acked \subseteq Versions
    /\ \A v \in settled : \E n \in PathNames : ns[n] = v /\ disk.ns[n] = v

LossInv ==
    /\ CompleteInv
    /\ pinned \in [Procs -> Versions \cup {None}]
    /\ PinnedInTrash /\ Safe

(* Whose a call is: a step of its request's, or a late one.                *)
CallOf(c) ==
    /\ c.kind = "create" =>
          \/ c \in flying /\ Late(c)
          \/ \E w \in Procs : Create(w) /\ c = CreateCall(w)
    /\ c.kind = "noreplace" =>
          \/ c.from \in PathNames
          \/ \E w \in Procs, p \in Paths : Move(w, c.from, p)
    /\ c.kind = "replace" =>
          \/ c \in flying /\ Late(c)
          \/ \E w \in Procs : Rename(w) /\ c = RenameCall(w)

-----------------------------------------------------------------------------
(* Names, and what one call does to the namespace.                         *)

(* The three kinds of names have nothing in common. *)
LEMMA NameFacts ==
    /\ Shown \subseteq Names /\ PathNames \subseteq Shown /\ TrashNames \subseteq Shown
    /\ \A v \in Versions : TmpName(v) \in TmpNames /\ TmpName(v) \notin Shown
    /\ TmpNames \subseteq Names
    /\ \A u, v \in Versions : TmpName(u) = TmpName(v) => u = v
    /\ \A p \in Paths : PathName(p) \in PathNames
    /\ PathNames \cap TrashNames = {}
    /\ \A n \in TmpNames : \E v \in Versions : n = TmpName(v)
<1>1. \A n \in PathNames : n.dir = "path"
  BY DEF PathNames, PathName
<1>2. \A n \in TrashNames : n.dir = "trash"
  BY DEF TrashNames, TrashName
<1>3. \A v \in Versions : TmpName(v) \in TmpNames /\ TmpName(v).dir = "tmp" /\ TmpName(v).at = v
  BY DEF TmpNames, TmpName
<1>4. PathNames \cap TrashNames = {} /\ \A n \in PathNames \cup TrashNames : n.dir # "tmp"
  BY <1>1, <1>2
<1>5. \A v \in Versions : TmpName(v) \notin Shown
  BY <1>3, <1>4 DEF Shown
<1>6. \A u, v \in Versions : TmpName(u) = TmpName(v) => u = v
  BY <1>3
<1>7. /\ \A n \in TmpNames : \E v \in Versions : n = TmpName(v)
      /\ \A p \in Paths : PathName(p) \in PathNames
  BY DEF TmpNames, PathNames
<1> QED BY <1>3, <1>4, <1>5, <1>6, <1>7 DEF Shown, Names

(* A call leaves every name as it was but the ones it is about.            *)
LEMMA CallEffect ==
    ASSUME NEW c, NEW d, Stored(ns, d), Shape(c, d), Namespace(c) # ns
    PROVE  \/ \E v \in Versions :
                 /\ c.kind = "create" /\ c.inode = v
                 /\ Namespace(c) = [ns EXCEPT ![TmpName(v)] = v]
           \/ \E n \in TmpNames \cup TrashNames :
                 /\ c.kind = "unlink" /\ c.from = n
                 /\ Namespace(c) = [ns EXCEPT ![n] = None]
           \/ \E m, n \in Shown :
                 /\ c.kind = "link" /\ c.to = n
                 /\ ns[m] # None /\ ns[n] = None
                 /\ Namespace(c) = [ns EXCEPT ![n] = ns[m]]
           \/ \E m, n \in Shown :
                 /\ c.kind = "noreplace" /\ c.from = m /\ c.to = n
                 /\ ns[m] # None /\ ns[n] = None
                 /\ Namespace(c) = [ns EXCEPT ![n] = ns[m], ![m] = None]
           \/ \E v \in Versions, p \in Paths :
                 /\ c.kind = "replace" /\ c.to = PathName(p) /\ d[v] = "synced"
                 /\ ns[TmpName(v)] = v
                 /\ Namespace(c) = [ns EXCEPT ![PathName(p)] = v, ![TmpName(v)] = None]
<1>1. CASE c = MkdirCall
  BY <1>1 DEF MkdirCall, Namespace, Errno, Missing, Taken
<1>2. ASSUME NEW v \in Versions, c = [kind |-> "create", to |-> TmpName(v), inode |-> v]
      PROVE  Namespace(c) = [ns EXCEPT ![TmpName(v)] = v]
  BY <1>2 DEF Namespace, Errno, Missing, Taken
<1>3. ASSUME NEW n \in TmpNames \cup TrashNames, c = [kind |-> "unlink", from |-> n]
      PROVE  Namespace(c) = [ns EXCEPT ![n] = None]
  BY <1>3 DEF Namespace, Errno, Missing, Taken
<1>4. ASSUME NEW m \in Shown, NEW n \in Shown, c = [kind |-> "link", from |-> m, to |-> n]
      PROVE  ns[m] # None /\ ns[n] = None /\ Namespace(c) = [ns EXCEPT ![n] = ns[m]]
  BY <1>4 DEF Namespace, Errno, Missing, Taken
<1>5. ASSUME NEW m \in Shown, NEW n \in Shown, c = [kind |-> "noreplace", from |-> m, to |-> n]
      PROVE  ns[m] # None /\ ns[n] = None /\ Namespace(c) = [ns EXCEPT ![n] = ns[m], ![m] = None]
  BY <1>5 DEF Namespace, Errno, Missing, Taken
<1>6. ASSUME NEW v \in Versions, NEW p \in Paths,
             c = [kind |-> "replace", from |-> TmpName(v), to |-> PathName(p)]
      PROVE  /\ ns[TmpName(v)] = v
             /\ Namespace(c) = [ns EXCEPT ![PathName(p)] = v, ![TmpName(v)] = None]
  <2>1. ns[TmpName(v)] # None
    BY <1>6 DEF Namespace, Errno, Missing, Taken
  <2>2. ns[TmpName(v)] = v
    BY <2>1 DEF Stored
  <2> QED BY <1>6, <2>2 DEF Namespace, Errno, Missing, Taken
<1> QED BY <1>1, <1>2, <1>3, <1>4, <1>5, <1>6 DEF Shape

(* A call leaves no name with a version that is not complete. *)
LEMMA CallKeepsStored ==
    ASSUME NEW c, NEW d, Stored(ns, d), Shape(c, d)
    PROVE  Stored(Namespace(c), d)
<1> USE NameFacts, VfsAssumption DEF Stored
<1>1. CASE Namespace(c) = ns
  BY <1>1
<1>2. ASSUME NEW v \in Versions, Namespace(c) = [ns EXCEPT ![TmpName(v)] = v]
      PROVE  Stored(Namespace(c), d)
  BY <1>2
<1>3. ASSUME NEW n \in TmpNames \cup TrashNames, Namespace(c) = [ns EXCEPT ![n] = None]
      PROVE  Stored(Namespace(c), d)
  BY <1>3 DEF Names
<1>4. ASSUME NEW m \in Shown, NEW n \in Shown, Namespace(c) = [ns EXCEPT ![n] = ns[m]]
      PROVE  Stored(Namespace(c), d)
  BY <1>4
<1>5. ASSUME NEW m \in Shown, NEW n \in Shown,
             Namespace(c) = [ns EXCEPT ![n] = ns[m], ![m] = None]
      PROVE  Stored(Namespace(c), d)
  BY <1>5
<1>6. ASSUME NEW v \in Versions, NEW p \in Paths, d[v] = "synced",
             Namespace(c) = [ns EXCEPT ![PathName(p)] = v, ![TmpName(v)] = None]
      PROVE  Stored(Namespace(c), d)
  BY <1>6
<1> QED BY <1>1, <1>2, <1>3, <1>4, <1>5, <1>6, CallEffect

(* A namespace stays good while versions only become synced. *)
LEMMA StoredKeeps ==
    ASSUME NEW m, NEW d, NEW e, Stored(m, d),
           \A v \in Versions : d[v] = "synced" => e[v] = "synced"
    PROVE  Stored(m, e)
<1> SUFFICES ASSUME NEW n \in Shown, m[n] # None PROVE e[m[n]] = "synced"
  BY DEF Stored
<1>1. m[n] \in Versions
  BY NameFacts DEF Stored
<1> QED BY <1>1 DEF Stored

(* The invariant has the types in it. *)
LEMMA TypeParts == CompleteInv => TypeOK
BY DEF CompleteInv, Typed, Contents, Places, Stored, TypeOK

(* The calls a request makes, where it makes them.                         *)
LEMMA CallShapes ==
    ASSUME Typed, Steps, NEW w \in Procs
    PROVE  /\ Shape(MkdirCall, data)
           /\ pc[w] = "create" => Shape(CreateCall(w), data)
           /\ pc[w] = "link" => Shape(LinkCall(w), data)
           /\ pc[w] = "rename" => Shape(RenameCall(w), data)
           /\ pc[w] = "trash" => Shape(TrashCall(w), data)
           /\ pc[w] = "cleanup" => Shape(CleanupCall(w), data)
<1>1. Shape(MkdirCall, data)
  BY DEF Shape
<1>2. ASSUME pc[w] = "create" PROVE Shape(CreateCall(w), data)
  BY <1>2 DEF Steps, StepOf, Shape, CreateCall
<1>3. ASSUME pc[w] = "link" PROVE Shape(LinkCall(w), data)
  BY <1>3, NameFacts DEF Steps, StepOf, Shape, LinkCall
<1>4. ASSUME pc[w] = "rename" PROVE Shape(RenameCall(w), data)
  <2>1. ver[w] \in Versions /\ path[w] \in Paths
    BY <1>4 DEF Steps, StepOf
  <2>2. data[ver[w]] = "synced"
    BY <1>4, <2>1, VfsAssumption DEF Steps, StepOf
  <2> QED BY <2>1, <2>2 DEF Shape, RenameCall
<1>5. ASSUME pc[w] = "trash" PROVE Shape(TrashCall(w), data)
  BY <1>5, NameFacts DEF Steps, StepOf, Shape, TrashCall, TrashFlag
<1>6. ASSUME pc[w] = "cleanup" PROVE Shape(CleanupCall(w), data)
  BY <1>6, NameFacts DEF Steps, StepOf, Shape, CleanupCall
<1> QED BY <1>1, <1>2, <1>3, <1>4, <1>5, <1>6

(* Whatever happens but a crash, at most one call is performed.            *)
LEMMA OneCall ==
    ASSUME CompleteInv, Next
    PROVE  \/ Crash
           \/ UNCHANGED <<ns, trashDir, emptied>>
           \/ \E c : Shape(c, data) /\ Perform(c) /\ CallOf(c)
<1> USE DEF CompleteInv
<1>1. ASSUME NEW w \in Procs, Create(w) \/ Rename(w)
      PROVE  \E c : Shape(c, data) /\ Perform(c) /\ CallOf(c)
  <2>1. CASE Create(w)
    <3>1. Shape(CreateCall(w), data) /\ Perform(CreateCall(w)) /\ CreateCall(w).kind = "create"
      BY <2>1, CallShapes DEF Create, Reply, CreateCall
    <3> QED BY <2>1, <3>1 DEF CallOf
  <2>2. CASE Rename(w)
    <3>1. Shape(RenameCall(w), data) /\ Perform(RenameCall(w)) /\ RenameCall(w).kind = "replace"
      BY <2>2, CallShapes DEF Rename, Reply, RenameCall
    <3> QED BY <2>2, <3>1 DEF CallOf
  <2> QED BY <1>1, <2>1, <2>2
<1>2. ASSUME NEW w \in Procs, Mkdir(w) \/ Link(w) \/ Trash(w) \/ Cleanup(w)
      PROVE  NoEffect \/ \E c : Shape(c, data) /\ Perform(c) /\ CallOf(c)
  <2>1. NoEffect \/ \E c \in {MkdirCall, LinkCall(w), TrashCall(w), CleanupCall(w)} :
                      Shape(c, data) /\ Perform(c) /\ (pc[w] # "idle")
    BY <1>2, CallShapes DEF Mkdir, Link, Trash, Cleanup, Reply
  <2>2. /\ MkdirCall.kind = "mkdir" /\ LinkCall(w).kind = "link" /\ CleanupCall(w).kind = "unlink"
        /\ TrashCall(w).kind = "noreplace" /\ TrashCall(w).from = PathName(path[w])
    BY DEF MkdirCall, LinkCall, TrashCall, TrashFlag, CleanupCall
  <2>3. pc[w] # "idle" => PathName(path[w]) \in PathNames
    BY NameFacts DEF Steps, StepOf
  <2>4. ASSUME NEW c \in {MkdirCall, LinkCall(w), TrashCall(w), CleanupCall(w)}, pc[w] # "idle"
        PROVE  CallOf(c)
    BY <2>2, <2>3, <2>4 DEF CallOf
  <2> QED BY <2>1, <2>4
<1>3. ASSUME NEW w \in Procs, NEW n \in TrashNames, Empty(w, n)
      PROVE  \E c : Shape(c, data) /\ Perform(c) /\ CallOf(c)
  BY <1>3 DEF Empty, Reply, Shape, CallOf
<1>4. ASSUME NEW w \in Procs, NEW n \in PathNames \cup TrashNames, NEW p \in Paths, Move(w, n, p)
      PROVE  \E c : Shape(c, data) /\ Perform(c) /\ CallOf(c)
  <2> DEFINE c == [kind |-> "noreplace", from |-> n, to |-> PathName(p)]
  <2>1. PathName(p) \in Shown /\ n \in Shown
    BY NameFacts DEF Shown
  <2>2. Shape(c, data) /\ Perform(c)
    BY <1>4, <2>1 DEF Move, Reply, Shape
  <2>3. CallOf(c)
    BY <1>4 DEF CallOf
  <2> QED BY <2>2, <2>3
<1>5. ASSUME NEW c \in flying, Late(c) PROVE Shape(c, data) /\ Perform(c) /\ CallOf(c)
  BY <1>5 DEF Late, Underway, Stray, CallOf
<1> QED
  <2>1. \/ Crash \/ UNCHANGED <<ns, trashDir, emptied>>
        \/ \E w \in Procs :
              \/ Create(w) \/ Mkdir(w) \/ Link(w) \/ Rename(w) \/ Trash(w) \/ Cleanup(w)
              \/ \E n \in TrashNames : Empty(w, n)
              \/ \E n \in PathNames \cup TrashNames, p \in Paths : Move(w, n, p)
        \/ \E c \in flying : Late(c)
    BY DEF Next, WriteBegin, CreateFails, Copy, Sync, CopyOrSyncFails, MkdirFails, LinkFails,
           RenameFails, SyncDir, SyncDirFails, RemoveBegin, TrashFails, WriteBack, Refuse,
           Abandon, NoEffect, store, history
  <2> QED BY <1>1, <1>2, <1>3, <1>4, <1>5, <2>1 DEF NoEffect

(* What is synced stays so.                                                *)
LEMMA SyncedStays ==
    ASSUME CompleteInv, Next
    PROVE  \A v \in Versions : data[v] = "synced" => data'[v] = "synced"
<1> USE DEF CompleteInv
<1>1. ASSUME NEW w \in Procs, Create(w) \/ CreateFails(w) \/ Copy(w) \/ Sync(w)
      PROVE  \A v \in Versions : data[v] = "synced" => data'[v] = "synced"
  <2>1. ver[w] \in Versions /\ data[ver[w]] \in {"none", "partial", "written"}
    BY <1>1 DEF Create, CreateFails, Copy, Sync, Steps, StepOf
  <2>2. \E x : data' = [data EXCEPT ![ver[w]] = x]
    BY <1>1 DEF Create, CreateFails, Copy, Sync
  <2> QED BY <2>1, <2>2 DEF Typed, Contents
<1>2. CASE Crash
  BY <1>2 DEF Crash, Typed, Contents
<1>3. CASE UNCHANGED data
  BY <1>3
<1> QED
  <2>1. \/ Crash \/ UNCHANGED data
        \/ \E w \in Procs : Create(w) \/ CreateFails(w) \/ Copy(w) \/ Sync(w)
    BY DEF Next, WriteBegin, CopyOrSyncFails, Mkdir, MkdirFails, Link, LinkFails, Rename,
           RenameFails, SyncDir, SyncDirFails, Cleanup, RemoveBegin, Trash, TrashFails,
           Empty, Move, Late, WriteBack, Refuse, Abandon, store
  <2> QED BY <1>1, <1>2, <1>3, <2>1

(* What is on the disk changes by a flush of one directory. *)
LEMMA DiskStep ==
    ASSUME Next, ~Crash
    PROVE  \/ UNCHANGED disk
           \/ disk' = FilesFlushed /\ \E w \in Procs : SyncDir(w)
           \/ disk' \in {FilesFlushed, TrashFlushed} /\ UNCHANGED <<ns, history>>
<1>1. UNCHANGED disk \/ WriteBack \/ \E w \in Procs : SyncDir(w)
  BY DEF Next, WriteBegin, Create, CreateFails, Copy, Sync, CopyOrSyncFails, Mkdir,
         MkdirFails, Link, LinkFails, Rename, RenameFails, SyncDirFails, Cleanup,
         RemoveBegin, Trash, TrashFails, Empty, Move, Late, Reply, Refuse, Abandon, store
<1> QED BY <1>1 DEF SyncDir, WriteBack

(* What a flush leaves on the disk, name by name. *)
LEMMA FlushedNames ==
    ASSUME Disk
    PROVE  /\ FilesFlushed.ns =
                 [n \in Names |-> IF n \in TrashNames THEN disk.ns[n] ELSE ns[n]]
           /\ TrashFlushed.ns =
                 [n \in Names |-> IF n \in TrashNames THEN ns[n] ELSE disk.ns[n]]
           /\ FilesFlushed.trashDir = disk.trashDir /\ TrashFlushed.trashDir = trashDir
BY DEF FilesFlushed, TrashFlushed, Disk

(* A flush of one directory leaves a good namespace on the disk. *)
LEMMA FlushedStored ==
    ASSUME Disk, NEW d, Stored(ns, d), Stored(disk.ns, d)
    PROVE  Stored(FilesFlushed.ns, d) /\ Stored(TrashFlushed.ns, d)
BY FlushedNames, NameFacts DEF Stored

(* The disk has a namespace and knows whether it has a trash. *)
LEMMA DiskTyped ==
    ASSUME CompleteInv, Next
    PROVE  Disk'
<1>1. ns \in [Names -> Versions \cup {None}] /\ trashDir \in BOOLEAN /\ Disk
  BY DEF CompleteInv, Typed, Contents, Stored
<1>2. FilesFlushed \in [ns : [Names -> Versions \cup {None}], trashDir : BOOLEAN]
  BY <1>1 DEF FilesFlushed, Disk
<1>3. TrashFlushed \in [ns : [Names -> Versions \cup {None}], trashDir : BOOLEAN]
  BY <1>1 DEF TrashFlushed, Disk
<1> QED BY <1>1, <1>2, <1>3, DiskStep DEF Crash, Disk

(* The namespace, and the one on the disk, lead readers to synced versions *)
(* and a temporary name to its own.                                        *)
LEMMA StoredStep ==
    ASSUME CompleteInv, Next
    PROVE  Stored(ns', data') /\ Stored(disk'.ns, data')
<1> USE DEF CompleteInv
<1>1. Stored(ns, data') /\ Stored(disk.ns, data')
  BY SyncedStays, StoredKeeps
<1>2. CASE Crash
  BY <1>1, <1>2 DEF Crash
<1>3. CASE ~Crash
  <2>1. ns' = ns \/ \E c : Shape(c, data) /\ ns' = Namespace(c)
    BY <1>3, OneCall DEF Perform
  <2>2. Stored(ns', data)
    BY <2>1, CallKeepsStored
  <2>3. disk' \in {disk, FilesFlushed, TrashFlushed}
    BY <1>3, DiskStep
  <2>4. Stored(FilesFlushed.ns, data') /\ Stored(TrashFlushed.ns, data')
    BY <1>1, FlushedStored
  <2>5. Stored(ns', data')
    BY <2>2, SyncedStays, StoredKeeps
  <2> QED BY <1>1, <2>3, <2>4, <2>5
<1> QED BY <1>2, <1>3

-----------------------------------------------------------------------------
(* A call nobody waits for stays what it was. *)
LEMMA UnderwayKept ==
    ASSUME CompleteInv, Next,
           \A w \in Procs : ver'[w] \in {ver[w], None} \/ data[ver'[w]] = "none",
           \A v \in Versions : data'[v] = data[v] \/ \E w \in Procs : ver[w] = v,
           \A c \in flying' \ flying : Stray(c)'
    PROVE  Underway'
<1> SUFFICES ASSUME NEW c \in flying PROVE Stray(c)'
  BY DEF Underway
<1>1. Stray(c)
  BY DEF CompleteInv, Underway
<1>2. Shape(c, data')
  BY <1>1, SyncedStays DEF Stray, Shape
<1>3. ASSUME c.kind = "create"
      PROVE  data'[c.inode] = "partial" /\ \A w \in Procs : ver'[w] # c.inode
  <2>1. c.inode \in Versions
    BY <1>1, <1>3 DEF Stray, Shape, MkdirCall
  <2>2. data[c.inode] = "partial" /\ \A w \in Procs : ver[w] # c.inode
    BY <1>1, <1>3 DEF Stray
  <2> QED BY <2>1, <2>2, VfsAssumption
<1> QED BY <1>1, <1>2, <1>3 DEF Stray

(* A request stays where it was while another one moves. *)
LEMMA OthersStep ==
    ASSUME Steps, OwnVersions, Contents, Places, NEW w \in Procs,
           \A u \in Procs \ {w} : /\ pc'[u] = pc[u] /\ path'[u] = path[u]
                                  /\ ver'[u] = ver[u] /\ tname'[u] = tname[u],
           trashDir => trashDir',
           \/ data' = data
           \/ ver[w] \in Versions /\ \E x : data' = [data EXCEPT ![ver[w]] = x],
           StepOf(w)'
    PROVE  Steps'
<1> SUFFICES ASSUME NEW u \in Procs, u # w PROVE StepOf(u)'
  BY DEF Steps
<1>1. ver[u] # None => data'[ver[u]] = data[ver[u]]
  <2>1. ver[u] # None => ver[u] \in Versions /\ ver[u] # ver[w]
    BY DEF OwnVersions, Places
  <2> QED BY <2>1 DEF Contents
<1>2. StepOf(u)
  BY DEF Steps
<1>3. ver[u] \in Versions => ver[u] # None
  BY VfsAssumption
<1> QED BY <1>1, <1>2, <1>3 DEF StepOf

(* What a request that is answered, or fails, leaves behind.               *)
LEMMA AnswerPlaces ==
    ASSUME Places, NEW w \in Procs, Answer(w) \/ Fail(w)
    PROVE  /\ Places'
           /\ \A u \in Procs \ {w} : /\ pc'[u] = pc[u] /\ path'[u] = path[u]
                                      /\ ver'[u] = ver[u] /\ tname'[u] = tname[u]
           /\ \/ pc'[w] = "idle" /\ ver'[w] = None
              \/ pc'[w] = "cleanup" /\ ver'[w] = ver[w] /\ ver[w] # None /\ path'[w] = path[w]
           /\ Answer(w) => pc'[w] = "idle" /\ ver'[w] = None
<1>1. CASE Answer(w)
  BY <1>1, VfsAssumption DEF Answer, Goto, Places
<1>2. CASE Fail(w) /\ ~Answer(w)
  BY <1>2, VfsAssumption DEF Fail, Goto, Places
<1> QED BY <1>1, <1>2

(* Every step leaves each request where the next one finds what it needs.  *)
LEMMA RequestStep ==
    ASSUME CompleteInv, Next
    PROVE  Requests'
<1> USE DEF CompleteInv, Typed, Requests
<1>1. ASSUME NEW w \in Procs, NEW p \in Paths, NEW v \in Versions, WriteBegin(w, p, v)
      PROVE  Requests'
  <2>1. Contents'
    BY <1>1, VfsAssumption DEF WriteBegin, Goto, Contents, Quiet, store
  <2>2. Places'
    BY <1>1, VfsAssumption DEF WriteBegin, Goto, Places
  <2>3. Steps'
    BY <1>1, VfsAssumption DEF WriteBegin, Goto, Steps, Contents, Places, store, StepOf
  <2>4. OwnVersions'
    BY <1>1 DEF WriteBegin, Goto, OwnVersions, Contents, Places, store, Steps, StepOf
  <2> QED BY <2>1, <2>2, <2>3, <2>4
<1>2. ASSUME NEW w \in Procs, Create(w) PROVE Requests'
  <2>1. Contents'
    BY <1>2, VfsAssumption DEF Create, Goto, Contents, Reply, Perform, Quiet, store
  <2>2. Places'
    BY <1>2, VfsAssumption DEF Create, Goto, Places, Reply, Perform
  <2>3. Steps'
    <3>1. pc[w] = "create" /\ pc' = [pc EXCEPT ![w] = "copy"] /\ UNCHANGED <<path, ver, tname>>
      BY <1>2 DEF Create, Goto, AfterCopy
    <3>2. \A u \in Procs \ {w} : /\ pc'[u] = pc[u] /\ path'[u] = path[u]
                                      /\ ver'[u] = ver[u] /\ tname'[u] = tname[u]
      BY <3>1 DEF Places
    <3>3. path[w] \in Paths /\ ver[w] \in Versions /\ pc'[w] = "copy"
      BY <3>1 DEF Steps, StepOf, Places
    <3>4. trashDir => trashDir'
      BY <1>2 DEF Create, Reply, Perform
    <3>5. \E x : data' = [data EXCEPT ![ver[w]] = x]
      BY <1>2 DEF Create
    <3>6. StepOf(w)'
      BY <1>2, <3>1, <3>3, VfsAssumption DEF Create, Steps, StepOf, Contents, Places
    <3> QED BY <3>2, <3>3, <3>4, <3>5, <3>6, OthersStep
  <2>4. OwnVersions'
    BY <1>2 DEF Create, Goto, OwnVersions, Reply, Perform, Contents, Places, store,
       Steps, StepOf
  <2> QED BY <2>1, <2>2, <2>3, <2>4
<1>3. ASSUME NEW w \in Procs, CreateFails(w) PROVE Requests'
  <2>1. Contents'
    BY <1>3, VfsAssumption DEF CreateFails, Answer, Goto, Contents, NoEffect, Quiet, store
  <2>2. Places'
    <3> QED BY <1>3, AnswerPlaces DEF CreateFails
  <2>3. Steps'
    <3>1. pc'[w] = "idle" /\ ver'[w] = None
      BY <1>3, AnswerPlaces DEF CreateFails
    <3>2. StepOf(w)'
      BY <3>1, VfsAssumption DEF StepOf
    <3>3. ver[w] \in Versions /\ trashDir' = trashDir /\ \E x : data' = [data EXCEPT ![ver[w]] = x]
      BY <1>3 DEF CreateFails, NoEffect, Steps, StepOf
    <3> QED BY <1>3, <3>2, <3>3, OthersStep, AnswerPlaces DEF CreateFails
  <2>4. OwnVersions'
    BY <1>3 DEF CreateFails, Answer, Goto, OwnVersions, NoEffect, Contents, Places,
       store, Steps, StepOf
  <2> QED BY <2>1, <2>2, <2>3, <2>4
<1>4. ASSUME NEW w \in Procs, Copy(w) PROVE Requests'
  <2>1. Contents'
    BY <1>4, VfsAssumption DEF Copy, Goto, AfterCopy, Contents, Quiet, store
  <2>2. Places'
    BY <1>4, VfsAssumption DEF Copy, Goto, AfterCopy, Places
  <2>3. Steps'
    <3>1. pc[w] = "copy" /\ pc' = [pc EXCEPT ![w] = "sync"] /\ UNCHANGED <<path, ver, tname>>
      BY <1>4 DEF Copy, Goto, AfterCopy
    <3>2. \A u \in Procs \ {w} : /\ pc'[u] = pc[u] /\ path'[u] = path[u]
                                      /\ ver'[u] = ver[u] /\ tname'[u] = tname[u]
      BY <3>1 DEF Places
    <3>3. path[w] \in Paths /\ ver[w] \in Versions /\ pc'[w] = "sync"
      BY <3>1 DEF Steps, StepOf, Places
    <3>4. trashDir => trashDir'
      BY <1>4 DEF Copy, Reply, Perform
    <3>5. \E x : data' = [data EXCEPT ![ver[w]] = x]
      BY <1>4 DEF Copy
    <3>6. StepOf(w)'
      BY <1>4, <3>1, <3>3, VfsAssumption DEF Copy, Steps, StepOf, Contents, Places
    <3> QED BY <3>2, <3>3, <3>4, <3>5, <3>6, OthersStep
  <2>4. OwnVersions'
    BY <1>4 DEF Copy, Goto, AfterCopy, OwnVersions, Contents, Places, store, Steps, StepOf
  <2> QED BY <2>1, <2>2, <2>3, <2>4
<1>5. ASSUME NEW w \in Procs, Sync(w) PROVE Requests'
  <2>1. Contents'
    BY <1>5, VfsAssumption DEF Sync, Goto, Contents, Quiet, store
  <2>2. Places'
    BY <1>5, VfsAssumption DEF Sync, Goto, Places
  <2>3. Steps'
    <3>1. pc[w] = "sync" /\ pc' = [pc EXCEPT ![w] = "mkdir"] /\ UNCHANGED <<path, ver, tname>>
      BY <1>5 DEF Sync, Goto, AfterCopy
    <3>2. \A u \in Procs \ {w} : /\ pc'[u] = pc[u] /\ path'[u] = path[u]
                                      /\ ver'[u] = ver[u] /\ tname'[u] = tname[u]
      BY <3>1 DEF Places
    <3>3. path[w] \in Paths /\ ver[w] \in Versions /\ pc'[w] = "mkdir"
      BY <3>1 DEF Steps, StepOf, Places
    <3>4. trashDir => trashDir'
      BY <1>5 DEF Sync, Reply, Perform
    <3>5. \E x : data' = [data EXCEPT ![ver[w]] = x]
      BY <1>5 DEF Sync
    <3>6. StepOf(w)'
      BY <1>5, <3>1, <3>3, VfsAssumption DEF Sync, Steps, StepOf, Contents, Places
    <3> QED BY <3>2, <3>3, <3>4, <3>5, <3>6, OthersStep
  <2>4. OwnVersions'
    BY <1>5 DEF Sync, Goto, OwnVersions, Contents, Places, store, Steps, StepOf
  <2> QED BY <2>1, <2>2, <2>3, <2>4
<1>6. ASSUME NEW w \in Procs, CopyOrSyncFails(w) PROVE Requests'
  <2>1. Contents'
    BY <1>6, VfsAssumption
       DEF CopyOrSyncFails, Refuse, Fail, Answer, Goto, Contents, NoEffect, Quiet, store
  <2>2. Places'
    BY <1>6, VfsAssumption DEF CopyOrSyncFails, Refuse, Fail, Answer, Goto, Places, NoEffect
  <2>3. Steps'
    BY <1>6, VfsAssumption DEF CopyOrSyncFails, Refuse, Fail, Answer, Goto, Steps,
       NoEffect, Contents, Places, store, StepOf
  <2>4. OwnVersions'
    BY <1>6 DEF CopyOrSyncFails, Refuse, Fail, Answer, Goto, OwnVersions, NoEffect,
       Contents, Places, store, Steps, StepOf
  <2> QED BY <2>1, <2>2, <2>3, <2>4
<1>7. ASSUME NEW w \in Procs, Mkdir(w) PROVE Requests'
  <2>1. Contents'
    BY <1>7, VfsAssumption DEF Mkdir, Goto, Contents, Reply, Perform, Quiet, store
  <2>2. Places'
    <3>1. path[w] \in Paths
      BY <1>7 DEF Mkdir, Steps, StepOf
    <3>2. \A t \in Seconds, s \in Suffixes \cup {None} : TrashName(path[w], t, s) \in TrashNames
      BY <3>1 DEF TrashNames
    <3>3. tname' \in [Procs -> TrashNames \cup {None}]
      BY <1>7, <3>2 DEF Mkdir, Places
    <3> QED BY <1>7, <3>3 DEF Mkdir, Goto, Places
  <2>3. Steps'
    <3>1. path[w] \in Paths
      BY <1>7 DEF Mkdir, Steps, StepOf
    <3>2. \A t \in Seconds, s \in Suffixes \cup {None} : TrashName(path[w], t, s) \in TrashNames
      BY <3>1 DEF TrashNames
    <3>3. pc'[w] = (IF ver[w] # None THEN "link" ELSE "trash") /\ tname'[w] \in TrashNames
      BY <1>7, <3>2 DEF Mkdir, Goto, Places
    <3>4. trashDir' /\ data' = data
      BY <1>7 DEF Mkdir, Reply, Perform, MkdirCall
    <3>5. \A u \in Procs \ {w} : /\ pc'[u] = pc[u] /\ path'[u] = path[u]
                                      /\ ver'[u] = ver[u] /\ tname'[u] = tname[u]
      BY <1>7 DEF Mkdir, Goto, Places
    <3>6. StepOf(w)'
      BY <1>7, <3>1, <3>3, <3>4 DEF Mkdir, Steps, StepOf, Places
    <3> QED BY <3>4, <3>5, <3>6, OthersStep
  <2>4. OwnVersions'
    BY <1>7 DEF Mkdir, Goto, OwnVersions, Reply, Perform, Contents, Places, store, Steps, StepOf
  <2> QED BY <2>1, <2>2, <2>3, <2>4
<1>8. ASSUME NEW w \in Procs, MkdirFails(w) PROVE Requests'
  <2>1. Contents'
    BY <1>8, VfsAssumption DEF MkdirFails, Refuse, Abandon, Fail, Answer, Goto,
       Contents, NoEffect, Quiet, store
  <2>2. Places'
    BY <1>8, VfsAssumption DEF MkdirFails, Refuse, Abandon, Fail, Answer, Goto, Places, NoEffect
  <2>3. Steps'
    BY <1>8, VfsAssumption DEF MkdirFails, Refuse, Abandon, Fail, Answer, Goto, Steps,
       NoEffect, Contents, Places, store, StepOf
  <2>4. OwnVersions'
    BY <1>8 DEF MkdirFails, Refuse, Abandon, Fail, Answer, Goto, OwnVersions, NoEffect,
       Contents, Places, store, Steps, StepOf
  <2> QED BY <2>1, <2>2, <2>3, <2>4
<1>9. ASSUME NEW w \in Procs, Link(w) PROVE Requests'
  <2>1. Contents'
    BY <1>9, VfsAssumption DEF Link, Retry, MayRetry, Fail, Answer, Goto, Contents,
       Reply, Perform, Quiet, store
  <2>2. Places'
    <3>1. path[w] \in Paths /\ tname[w] \in TrashNames /\ trashDir /\ data' = data /\ trashDir'
      BY <1>9 DEF Link, Steps, StepOf, Reply, Perform, Contents
    <3>2. \A t \in Seconds, s \in Suffixes \cup {None} : TrashName(path[w], t, s) \in TrashNames
      BY <3>1 DEF TrashNames
    <3>3. \/ Retry(w) \/ Fail(w)
          \/ pc' = [pc EXCEPT ![w] = "rename"] /\ UNCHANGED <<path, ver, tname, attempt>>
      BY <1>9 DEF Link, Goto
    <3>4. CASE Retry(w)
      <4>1. \E t \in Seconds, s \in Suffixes : tname' = [tname EXCEPT ![w] = TrashName(path[w], t, s)]
        BY <3>4 DEF Retry
      <4>2. tname' \in [Procs -> TrashNames \cup {None}]
        BY <3>2, <4>1 DEF Places
      <4> QED BY <3>4, <4>2, VfsAssumption DEF Retry, MayRetry, Places
    <3> QED BY <3>3, <3>4, AnswerPlaces DEF Places
  <2>3. Steps'
    <3>1. path[w] \in Paths /\ tname[w] \in TrashNames /\ trashDir /\ data' = data /\ trashDir'
      BY <1>9 DEF Link, Steps, StepOf, Reply, Perform, Contents
    <3>2. \A t \in Seconds, s \in Suffixes \cup {None} : TrashName(path[w], t, s) \in TrashNames
      BY <3>1 DEF TrashNames
    <3>3. \/ Retry(w) \/ Fail(w)
          \/ pc' = [pc EXCEPT ![w] = "rename"] /\ UNCHANGED <<path, ver, tname, attempt>>
      BY <1>9 DEF Link, Goto
    <3>4. CASE Retry(w)
      <4>1. PICK t \in Seconds, s \in Suffixes : tname' = [tname EXCEPT ![w] = TrashName(path[w], t, s)]
        BY <3>4 DEF Retry
      <4>2. tname'[w] \in TrashNames /\ UNCHANGED <<pc, path, ver>>
        BY <3>2, <3>4, <4>1 DEF Retry, Places
      <4>3. StepOf(w)'
        BY <3>1, <4>2 DEF Steps, StepOf
      <4> QED BY <3>1, <4>1, <4>2, <4>3, OthersStep DEF Places
    <3>5. CASE Answer(w) \/ Fail(w)
      <4>1. StepOf(w)'
        BY <1>9, <3>1, <3>5, AnswerPlaces, VfsAssumption DEF Link, Steps, StepOf
      <4> QED BY <3>1, <3>5, <4>1, OthersStep, AnswerPlaces
    <3>6. CASE pc' = [pc EXCEPT ![w] = "rename"] /\ UNCHANGED <<path, ver, tname, attempt>>
      <4>1. StepOf(w)'
        BY <1>9, <3>1, <3>6 DEF Link, Steps, StepOf, Places
      <4> QED BY <3>1, <3>6, <4>1, OthersStep DEF Places
    <3> QED BY <3>3, <3>4, <3>5, <3>6
  <2>4. OwnVersions'
    BY <1>9 DEF Link, Retry, MayRetry, Fail, Answer, Goto, OwnVersions, Reply, Perform,
       Contents, Places, store, Steps, StepOf
  <2> QED BY <2>1, <2>2, <2>3, <2>4
<1>10. ASSUME NEW w \in Procs, LinkFails(w) PROVE Requests'
  <2>1. Contents'
    BY <1>10, VfsAssumption DEF LinkFails, Refuse, Abandon, Fail, Answer, Goto,
       Contents, NoEffect, Quiet, store
  <2>2. Places'
    BY <1>10, VfsAssumption DEF LinkFails, Refuse, Abandon, Fail, Answer, Goto, Places, NoEffect
  <2>3. Steps'
    BY <1>10, VfsAssumption DEF LinkFails, Refuse, Abandon, Fail, Answer, Goto, Steps,
       NoEffect, Contents, Places, store, StepOf
  <2>4. OwnVersions'
    BY <1>10 DEF LinkFails, Refuse, Abandon, Fail, Answer, Goto, OwnVersions, NoEffect,
       Contents, Places, store, Steps, StepOf
  <2> QED BY <2>1, <2>2, <2>3, <2>4
<1>11. ASSUME NEW w \in Procs, Rename(w) PROVE Requests'
  <2>1. Contents'
    BY <1>11, VfsAssumption
       DEF Rename, Fail, Answer, Goto, Contents, Reply, Perform, Quiet, store
  <2>2. Places'
    BY <1>11, VfsAssumption DEF Rename, Fail, Answer, Goto, Places, Reply, Perform
  <2>3. Steps'
    BY <1>11, VfsAssumption DEF Rename, Fail, Answer, Goto, Steps, Reply, Perform,
       Contents, Places, store, StepOf
  <2>4. OwnVersions'
    BY <1>11 DEF Rename, Fail, Answer, Goto, OwnVersions, Reply, Perform, Contents,
       Places, store, Steps, StepOf
  <2> QED BY <2>1, <2>2, <2>3, <2>4
<1>12. ASSUME NEW w \in Procs, RenameFails(w) PROVE Requests'
  <2>1. Contents'
    BY <1>12, VfsAssumption DEF RenameFails, Refuse, Abandon, Fail, Answer, Goto,
       Contents, NoEffect, Quiet, store
  <2>2. Places'
    BY <1>12, VfsAssumption
       DEF RenameFails, Refuse, Abandon, Fail, Answer, Goto, Places, NoEffect
  <2>3. Steps'
    BY <1>12, VfsAssumption DEF RenameFails, Refuse, Abandon, Fail, Answer, Goto,
       Steps, NoEffect, Contents, Places, store, StepOf
  <2>4. OwnVersions'
    BY <1>12 DEF RenameFails, Refuse, Abandon, Fail, Answer, Goto, OwnVersions,
       NoEffect, Contents, Places, store, Steps, StepOf
  <2> QED BY <2>1, <2>2, <2>3, <2>4
<1>13. ASSUME NEW w \in Procs, SyncDir(w) PROVE Requests'
  <2>1. Contents'
    BY <1>13, VfsAssumption DEF SyncDir, Answer, Goto, Contents, Quiet, store
  <2>2. Places'
    BY <1>13, VfsAssumption DEF SyncDir, Answer, Goto, Places
  <2>3. Steps'
    BY <1>13, VfsAssumption DEF SyncDir, Answer, Goto, Steps, Contents, Places, store, StepOf
  <2>4. OwnVersions'
    BY <1>13 DEF SyncDir, Answer, Goto, OwnVersions, Contents, Places, store, Steps, StepOf
  <2> QED BY <2>1, <2>2, <2>3, <2>4
<1>14. ASSUME NEW w \in Procs, SyncDirFails(w) PROVE Requests'
  <2>1. Contents'
    BY <1>14, VfsAssumption
       DEF SyncDirFails, Refuse, Fail, Answer, Goto, Contents, NoEffect, Quiet, store
  <2>2. Places'
    BY <1>14, VfsAssumption DEF SyncDirFails, Refuse, Fail, Answer, Goto, Places, NoEffect
  <2>3. Steps'
    BY <1>14, VfsAssumption DEF SyncDirFails, Refuse, Fail, Answer, Goto, Steps,
       NoEffect, Contents, Places, store, StepOf
  <2>4. OwnVersions'
    BY <1>14 DEF SyncDirFails, Refuse, Fail, Answer, Goto, OwnVersions, NoEffect,
       Contents, Places, store, Steps, StepOf
  <2> QED BY <2>1, <2>2, <2>3, <2>4
<1>15. ASSUME NEW w \in Procs, Cleanup(w) PROVE Requests'
  <2>1. Contents'
    BY <1>15, VfsAssumption DEF Cleanup, Answer, Goto, Contents, NoEffect, Perform, Quiet, store
  <2>2. Places'
    <3> QED BY <1>15, AnswerPlaces DEF Cleanup
  <2>3. Steps'
    BY <1>15, VfsAssumption DEF Cleanup, Answer, Goto, Steps, NoEffect, Perform,
       Contents, Places, store, StepOf
  <2>4. OwnVersions'
    BY <1>15 DEF Cleanup, Answer, Goto, OwnVersions, NoEffect, Perform, Contents,
       Places, store, Steps, StepOf
  <2> QED BY <2>1, <2>2, <2>3, <2>4
<1>16. ASSUME NEW w \in Procs, NEW p \in Paths, RemoveBegin(w, p) PROVE Requests'
  <2>1. Contents'
    BY <1>16, VfsAssumption DEF RemoveBegin, Goto, Contents, Quiet, store
  <2>2. Places'
    BY <1>16, VfsAssumption DEF RemoveBegin, Goto, Places
  <2>3. Steps'
    BY <1>16, VfsAssumption DEF RemoveBegin, Goto, Steps, Contents, Places, store, StepOf
  <2>4. OwnVersions'
    BY <1>16 DEF RemoveBegin, Goto, OwnVersions, Contents, Places, store, Steps, StepOf
  <2> QED BY <2>1, <2>2, <2>3, <2>4
<1>17. ASSUME NEW w \in Procs, Trash(w) PROVE Requests'
  <2>1. Contents'
    BY <1>17, VfsAssumption
       DEF Trash, Retry, MayRetry, Answer, Goto, Contents, Reply, Perform, Quiet, store
  <2>2. Places'
    <3>1. path[w] \in Paths /\ tname[w] \in TrashNames /\ trashDir /\ data' = data /\ trashDir'
      BY <1>17 DEF Trash, Steps, StepOf, Reply, Perform, Contents
    <3>2. \A t \in Seconds, s \in Suffixes \cup {None} : TrashName(path[w], t, s) \in TrashNames
      BY <3>1 DEF TrashNames
    <3>3. Retry(w) \/ Answer(w)
      BY <1>17 DEF Trash, Goto
    <3>4. CASE Retry(w)
      <4>1. \E t \in Seconds, s \in Suffixes : tname' = [tname EXCEPT ![w] = TrashName(path[w], t, s)]
        BY <3>4 DEF Retry
      <4>2. tname' \in [Procs -> TrashNames \cup {None}]
        BY <3>2, <4>1 DEF Places
      <4> QED BY <3>4, <4>2, VfsAssumption DEF Retry, MayRetry, Places
    <3> QED BY <3>3, <3>4, AnswerPlaces
  <2>3. Steps'
    <3>1. path[w] \in Paths /\ tname[w] \in TrashNames /\ trashDir /\ data' = data /\ trashDir'
      BY <1>17 DEF Trash, Steps, StepOf, Reply, Perform, Contents
    <3>2. \A t \in Seconds, s \in Suffixes \cup {None} : TrashName(path[w], t, s) \in TrashNames
      BY <3>1 DEF TrashNames
    <3>3. Retry(w) \/ Answer(w)
      BY <1>17 DEF Trash, Goto
    <3>4. CASE Retry(w)
      <4>1. PICK t \in Seconds, s \in Suffixes : tname' = [tname EXCEPT ![w] = TrashName(path[w], t, s)]
        BY <3>4 DEF Retry
      <4>2. tname'[w] \in TrashNames /\ UNCHANGED <<pc, path, ver>>
        BY <3>2, <3>4, <4>1 DEF Retry, Places
      <4>3. StepOf(w)'
        BY <3>1, <4>2 DEF Steps, StepOf
      <4> QED BY <3>1, <4>1, <4>2, <4>3, OthersStep DEF Places
    <3>5. CASE Answer(w)
      <4>1. StepOf(w)'
        BY <1>17, <3>1, <3>5, AnswerPlaces, VfsAssumption DEF Trash, Steps, StepOf
      <4> QED BY <3>1, <3>5, <4>1, OthersStep, AnswerPlaces
    <3> QED BY <3>3, <3>4, <3>5
  <2>4. OwnVersions'
    BY <1>17 DEF Trash, Retry, MayRetry, Answer, Goto, OwnVersions, Reply, Perform,
       Contents, Places, store, Steps, StepOf
  <2> QED BY <2>1, <2>2, <2>3, <2>4
<1>18. ASSUME NEW w \in Procs, TrashFails(w) PROVE Requests'
  <2>1. Contents'
    BY <1>18, VfsAssumption DEF TrashFails, Refuse, Abandon, Fail, Answer, Goto,
       Contents, NoEffect, Quiet, store
  <2>2. Places'
    BY <1>18, VfsAssumption
       DEF TrashFails, Refuse, Abandon, Fail, Answer, Goto, Places, NoEffect
  <2>3. Steps'
    BY <1>18, VfsAssumption DEF TrashFails, Refuse, Abandon, Fail, Answer, Goto, Steps,
       NoEffect, Contents, Places, store, StepOf
  <2>4. OwnVersions'
    BY <1>18 DEF TrashFails, Refuse, Abandon, Fail, Answer, Goto, OwnVersions,
       NoEffect, Contents, Places, store, Steps, StepOf
  <2> QED BY <2>1, <2>2, <2>3, <2>4
<1>19. ASSUME NEW w \in Procs, NEW n \in TrashNames, Empty(w, n) PROVE Requests'
  <2>1. Contents'
    BY <1>19, VfsAssumption DEF Empty, locals, Contents, Reply, Perform, Quiet, store
  <2>2. Places'
    BY <1>19, VfsAssumption DEF Empty, locals, Places, Reply, Perform
  <2>3. Steps'
    BY <1>19, VfsAssumption
       DEF Empty, locals, Steps, Reply, Perform, Contents, Places, store, StepOf
  <2>4. OwnVersions'
    BY <1>19 DEF Empty, locals, OwnVersions, Reply, Perform, Contents, Places, store,
       Steps, StepOf
  <2> QED BY <2>1, <2>2, <2>3, <2>4
<1>20. ASSUME NEW w \in Procs, NEW n \in PathNames \cup TrashNames, NEW p \in Paths,
              Move(w, n, p)
       PROVE  Requests'
  <2>1. Contents'
    BY <1>20, VfsAssumption DEF Move, Contents, Reply, Perform, Quiet, store
  <2>2. Places'
    BY <1>20, VfsAssumption DEF Move, Places, Reply, Perform
  <2>3. Steps'
    BY <1>20, VfsAssumption DEF Move, Steps, Reply, Perform, Contents, Places, store, StepOf
  <2>4. OwnVersions'
    BY <1>20 DEF Move, OwnVersions, Reply, Perform, Contents, Places, store, Steps, StepOf
  <2> QED BY <2>1, <2>2, <2>3, <2>4
<1>21. ASSUME NEW c \in flying, Late(c) PROVE Requests'
  <2>1. Contents'
    BY <1>21, VfsAssumption DEF Late, locals, Contents, Perform, Quiet, store
  <2>2. Places'
    BY <1>21, VfsAssumption DEF Late, locals, Places, Perform
  <2>3. Steps'
    BY <1>21, VfsAssumption DEF Late, locals, Steps, Perform, Contents, Places, store, StepOf
  <2>4. OwnVersions'
    BY <1>21 DEF Late, locals, OwnVersions, Perform, Contents, Places, store, Steps, StepOf
  <2> QED BY <2>1, <2>2, <2>3, <2>4
<1>22. CASE Crash
  <2>1. Contents'
    BY <1>22, VfsAssumption DEF Crash, Contents, Disk
  <2>2. Places'
    BY <1>22, VfsAssumption DEF Crash, Places
  <2>3. Steps'
    BY <1>22, VfsAssumption DEF Crash, Steps, Contents, Places, store, StepOf
  <2>4. OwnVersions'
    BY <1>22 DEF Crash, OwnVersions, Contents, Places, store, Steps, StepOf
  <2> QED BY <2>1, <2>2, <2>3, <2>4
<1>23. CASE WriteBack
  <2>1. UNCHANGED <<trashDir, data, crashes, locals>>
    BY <1>23 DEF WriteBack, Quiet
  <2> QED BY <2>1 DEF locals, Contents, Places, Steps, StepOf, OwnVersions
<1> QED BY <1>1, <1>2, <1>3, <1>4, <1>5, <1>6, <1>7, <1>8, <1>9, <1>10, <1>11, <1>12, <1>13,
           <1>14, <1>15, <1>16, <1>17, <1>18, <1>19, <1>20, <1>21, <1>22, <1>23 DEF Next

(* A call that is given up is one the request was at, and a create that is *)
(* given up leaves its version to nobody.                                  *)
LEMMA UnderwayStep ==
    ASSUME CompleteInv, Next
    PROVE  Underway'
<1> USE DEF CompleteInv, Typed
<1>1. CASE Crash
  BY <1>1 DEF Crash, Underway
<1>2. CASE ~Crash
  <2>1. \A w \in Procs : ver'[w] \in {ver[w], None} \/ data[ver'[w]] = "none"
    <3>1. \/ UNCHANGED ver
          \/ \E w \in Procs : ver' = [ver EXCEPT ![w] = None]
          \/ \E w \in Procs, v \in Versions : data[v] = "none" /\ ver' = [ver EXCEPT ![w] = v]
      BY <1>2 DEF Next, WriteBegin, Create, CreateFails, Copy, Sync, CopyOrSyncFails, Mkdir,
                  MkdirFails, Link, LinkFails, Rename, RenameFails, SyncDir, SyncDirFails,
                  Cleanup, RemoveBegin, Trash, TrashFails, Empty, Move, Late, WriteBack, Refuse,
                  Abandon, Fail, Answer, Retry, locals
    <3> QED BY <3>1 DEF Places
  <2>2. \A v \in Versions : data'[v] = data[v] \/ \E w \in Procs : ver[w] = v
    <3>1. UNCHANGED data \/ \E w \in Procs : \E x : data' = [data EXCEPT ![ver[w]] = x]
      <4>1. \/ UNCHANGED data
            \/ \E w \in Procs : Create(w) \/ CreateFails(w) \/ Copy(w) \/ Sync(w)
        BY <1>2 DEF Next, WriteBegin, CopyOrSyncFails, Mkdir, MkdirFails, Link,
           LinkFails, Rename,
                    RenameFails, SyncDir, SyncDirFails, Cleanup, RemoveBegin, Trash, TrashFails,
                    Empty, Move, Late, WriteBack, Refuse, Abandon, store
      <4> QED BY <4>1 DEF Create, CreateFails, Copy, Sync
    <3> QED BY <3>1 DEF Contents
  <2>3. ASSUME NEW w \in Procs, NEW c,
               \/ MkdirFails(w) /\ c = MkdirCall
               \/ LinkFails(w) /\ c = LinkCall(w)
               \/ RenameFails(w) /\ c = RenameCall(w)
               \/ TrashFails(w) /\ c = TrashCall(w)
               \/ Cleanup(w) /\ c = CleanupCall(w)
        PROVE  Stray(c)'
    <3>1. Shape(c, data) /\ data' = data
      BY <2>3, CallShapes
         DEF MkdirFails, LinkFails, RenameFails, TrashFails, Cleanup, Refuse, Abandon
    <3>2. c.kind # "create"
      BY <2>3 DEF MkdirCall, LinkCall, RenameCall, TrashCall, TrashFlag, CleanupCall
    <3>3. c.kind = "noreplace" => c.from \in PathNames
      BY <2>3, NameFacts DEF MkdirCall, LinkCall, RenameCall, TrashCall, CleanupCall,
                             TrashFails, Steps, StepOf
    <3> QED BY <3>1, <3>2, <3>3 DEF Stray
  <2>4. ASSUME NEW w \in Procs, NEW c, CreateFails(w), c = CreateCall(w)
        PROVE  Stray(c)'
    <3>1. /\ ver[w] \in Versions /\ Shape(c, data)
          /\ c.kind = "create" /\ c.inode = ver[w]
      BY <2>4, CallShapes DEF CreateFails, Steps, StepOf, CreateCall
    <3>2. data'[ver[w]] = "partial" /\ ver' = [ver EXCEPT ![w] = None]
      BY <2>4, <3>1 DEF CreateFails, Answer, Contents
    <3>3. \A u \in Procs : ver'[u] # ver[w]
      BY <3>1, <3>2, VfsAssumption DEF Places, OwnVersions
    <3>4. Shape(c, data')
      BY <3>1, SyncedStays DEF Shape
    <3> QED BY <3>1, <3>2, <3>3, <3>4 DEF Stray
  <2>5. \A c \in flying' \ flying : Stray(c)'
    <3>1. \/ flying' \subseteq flying
          \/ \E w \in Procs :
                \/ CreateFails(w) /\ flying' = flying \cup {CreateCall(w)}
                \/ MkdirFails(w) /\ flying' = flying \cup {MkdirCall}
                \/ LinkFails(w) /\ flying' = flying \cup {LinkCall(w)}
                \/ RenameFails(w) /\ flying' = flying \cup {RenameCall(w)}
                \/ TrashFails(w) /\ flying' = flying \cup {TrashCall(w)}
                \/ Cleanup(w) /\ flying' = flying \cup {CleanupCall(w)}
      BY <1>2 DEF Next, WriteBegin, Create, CreateFails, Copy, Sync, CopyOrSyncFails, Mkdir,
                  MkdirFails, Link, LinkFails, Rename, RenameFails, SyncDir, SyncDirFails,
                  Cleanup, RemoveBegin, Trash, TrashFails, Empty, Move, Late, WriteBack, Reply,
                  Refuse, Abandon, Leave, store
    <3> QED BY <2>3, <2>4, <3>1
  <2> QED BY <2>1, <2>2, <2>5, UnderwayKept
<1> QED BY <1>1, <1>2

-----------------------------------------------------------------------------
(* Paths lead to complete files.                                           *)

(* The invariant holds of the files that were there at first. *)
LEMMA InitLossInv == Init => LossInv
<1> SUFFICES ASSUME Init PROVE LossInv
  OBVIOUS
<1>1. PICK f \in [Paths -> Initial \cup {None}] :
        /\ ns = [n \in Names |-> IF n \in PathNames THEN f[n.at] ELSE None]
        /\ acked = {f[p] : p \in Paths} \ {None} /\ settled = acked
  BY DEF Init
<1>2. \A n \in PathNames : n.at \in Paths
  BY DEF PathNames, PathName
<1>3. data = [v \in Versions |-> IF v \in Initial THEN "synced" ELSE "none"]
  BY DEF Init
<1>4. \A v \in Initial : v \in Versions /\ v # None
  BY VfsAssumption
<1>5. ns \in [Names -> Versions \cup {None}]
  BY <1>1, <1>2, <1>4
<1>6. \A n \in Shown : ns[n] # None => ns[n] \in Initial
  BY <1>1, <1>2, NameFacts
<1>7. \A v \in Versions : ns[TmpName(v)] = None
  BY <1>1, NameFacts
<1>8. Stored(ns, data)
  BY <1>3, <1>4, <1>5, <1>6, <1>7 DEF Stored
<1>9. disk = [ns |-> ns, trashDir |-> FALSE]
  BY DEF Init
<1>10. CompleteInv
  <2>1. Contents
    <3>1. data \in [Versions -> {"none", "partial", "written", "synced"}]
      BY <1>3
    <3>2. crashes \in 0..MaxCrashes /\ trashDir = FALSE
      BY VfsAssumption DEF Init
    <3> QED BY <1>9, <3>1, <3>2 DEF Contents
  <2>2. Places
    BY VfsAssumption DEF Init, Places
  <2>3. Underway /\ Steps /\ OwnVersions
    BY DEF Init, Underway, Steps, StepOf, OwnVersions
  <2> QED BY <1>5, <1>8, <1>9, <2>1, <2>2, <2>3 DEF CompleteInv, Typed, Disk
<1>11. pinned \in [Procs -> Versions \cup {None}] /\ PinnedInTrash
  BY DEF Init, PinnedInTrash
<1>12. Safe
  <2>1. acked \subseteq Versions
    BY <1>1, <1>4
  <2>2. ASSUME NEW v \in acked PROVE \E n \in PathNames : ns[n] = v
    <3>1. PICK p \in Paths : f[p] = v
      BY <1>1, <2>2
    <3>2. PathName(p) \in PathNames /\ PathName(p).at = p /\ PathName(p) \in Names
      BY NameFacts DEF PathName, Names
    <3> QED BY <1>1, <3>1, <3>2
  <2> QED BY <1>1, <1>9, <2>1, <2>2 DEF Safe
<1> QED BY <1>10, <1>11, <1>12 DEF LossInv

(* The invariant of the contents is inductive. *)
LEMMA CompleteStep == CompleteInv /\ [Next]_vars => CompleteInv'
<1>1. CompleteInv /\ Next => CompleteInv'
  BY StoredStep, DiskTyped, RequestStep, UnderwayStep DEF CompleteInv, Typed, Requests
<1>2. CompleteInv /\ UNCHANGED vars => CompleteInv'
  <2> SUFFICES ASSUME CompleteInv, UNCHANGED vars PROVE CompleteInv'
    OBVIOUS
  <2> USE DEF vars, store, locals, history, CompleteInv
  <2>1. Typed'
    BY DEF Typed, Contents, Places
  <2>2. Stored(ns, data)' /\ Stored(disk.ns, data)' /\ Disk'
    BY DEF Stored, Disk
  <2>3. Underway'
    BY DEF Underway, Stray, Shape
  <2>4. Steps' /\ OwnVersions'
    BY DEF Steps, StepOf, OwnVersions
  <2> QED BY <2>1, <2>2, <2>3, <2>4
<1> QED BY <1>1, <1>2

(* Every step keeps what the reader of a path depends on: what has a name  *)
(* outside the temporary files was fsynced by the write that put it there. *)
THEOREM CompleteInvHolds == Spec => []CompleteInv
<1>1. Init => CompleteInv
  BY InitLossInv DEF LossInv
<1> QED BY <1>1, CompleteStep, PTL DEF Spec

(* Readers of a path see a complete version, whatever fails, is given up,  *)
(* happens late or crashes: Write renames onto the path only after Sync.   *)
THEOREM TargetIsComplete == Spec => []TargetComplete
<1>1. CompleteInv => TargetComplete
  BY TypeParts, NameFacts DEF CompleteInv, Stored, TargetComplete
<1> QED BY <1>1, CompleteInvHolds, PTL

-----------------------------------------------------------------------------
(* A loss is an overlap.                                                   *)

(* What a step other than a crash performs: nothing, or one call with one  *)
(* of the effects CallEffect lists.                                        *)
LEMMA StepEffect ==
    ASSUME CompleteInv, Next, ~Crash
    PROVE  \/ UNCHANGED ns
           \/ \E c : Shape(c, data) /\ Perform(c) /\ CallOf(c) /\ Namespace(c) # ns
BY OneCall DEF Perform

(* A version leaves the trash only when it is deleted there or moved out.  *)
LEMMA TrashKept ==
    ASSUME CompleteInv, Next, ~Crash, NEW n \in TrashNames, ns[n] # None
    PROVE  \/ ns'[n] = ns[n]
           \/ ns[n] \in emptied'
           \/ \E w \in Procs, p \in Paths : Move(w, n, p)
<1>1. CASE UNCHANGED ns
  BY <1>1
<1>2. ASSUME NEW c, Shape(c, data), Perform(c), CallOf(c), Namespace(c) # ns
      PROVE  \/ ns'[n] = ns[n] \/ ns[n] \in emptied'
             \/ \E w \in Procs, p \in Paths : Move(w, n, p)
  <2> USE NameFacts
  <2>1. n \in Names /\ n \in Shown /\ n \notin PathNames /\ ns' = Namespace(c)
    BY <1>2 DEF Perform
  <2>2. ns \in [Names -> Versions \cup {None}]
    BY DEF CompleteInv, Stored
  <2>3. ASSUME NEW v \in Versions, ns' = [ns EXCEPT ![TmpName(v)] = v]
        PROVE  ns'[n] = ns[n]
    BY <2>1, <2>2, <2>3
  <2>4. ASSUME NEW m \in TmpNames \cup TrashNames, c.kind = "unlink", c.from = m,
               ns' = [ns EXCEPT ![m] = None]
        PROVE  ns'[n] = ns[n] \/ ns[n] \in emptied'
    BY <1>2, <2>1, <2>2, <2>4 DEF Perform
  <2>5. ASSUME NEW m \in Shown, NEW k \in Shown, ns[k] = None, ns' = [ns EXCEPT ![k] = ns[m]]
        PROVE  ns'[n] = ns[n]
    BY <2>1, <2>2, <2>5
  <2>6. ASSUME NEW m \in Shown, NEW k \in Shown, c.kind = "noreplace", c.from = m, c.to = k,
               ns[k] = None, ns' = [ns EXCEPT ![k] = ns[m], ![m] = None]
        PROVE  ns'[n] = ns[n] \/ \E w \in Procs, p \in Paths : Move(w, n, p)
    <3>1. CASE n = m
      BY <1>2, <2>1, <2>6, <3>1 DEF CallOf
    <3>2. CASE n # m
      BY <2>1, <2>2, <2>6, <3>2
    <3> QED BY <3>1, <3>2
  <2>7. ASSUME NEW v \in Versions, NEW p \in Paths,
               ns' = [ns EXCEPT ![PathName(p)] = v, ![TmpName(v)] = None]
        PROVE  ns'[n] = ns[n]
    BY <2>1, <2>2, <2>7
  <2>8. Stored(ns, data)
    BY DEF CompleteInv
  <2> QED BY <1>2, <2>1, <2>3, <2>4, <2>5, <2>6, <2>7, <2>8, CallEffect
<1> QED BY <1>1, <1>2, StepEffect

(* A request comes to its rename by linking what it found; until then it   *)
(* keeps what it has pinned, unless that is moved.                         *)
LEMMA RenameReached ==
    ASSUME Places, pinned \in [Procs -> Versions \cup {None}], Next, ~Crash,
           NEW w \in Procs, pc'[w] = "rename"
    PROVE  \/ pc[w] = "rename" /\ pinned'[w] \in {pinned[w], None}
           \/ Link(w) /\ LinkSettled(Errno(LinkCall(w)))
<1> DEFINE Same == pc[w] = "rename" /\ pinned'[w] \in {pinned[w], None}
<1>1. ASSUME NEW u \in Procs, NEW p \in Paths, NEW v \in Versions, WriteBegin(u, p, v)
      PROVE  Same
  BY <1>1 DEF WriteBegin, Goto, Places
<1>2. ASSUME NEW u \in Procs, Create(u) \/ Copy(u) \/ Sync(u) \/ Mkdir(u) PROVE Same
  BY <1>2 DEF Create, Copy, AfterCopy, Sync, Mkdir, Goto, Places
<1>3. ASSUME NEW u \in Procs, Answer(u) \/ Fail(u) PROVE Same
  BY <1>3 DEF Answer, Fail, Goto, Places
<1>4. ASSUME NEW u \in Procs, \/ CreateFails(u) \/ CopyOrSyncFails(u) \/ MkdirFails(u)
                             \/ LinkFails(u) \/ RenameFails(u) \/ SyncDir(u) \/ SyncDirFails(u)
                             \/ Cleanup(u) \/ TrashFails(u)
      PROVE  Same
  <2>1. Answer(u) \/ Fail(u)
    BY <1>4 DEF CreateFails, CopyOrSyncFails, MkdirFails, LinkFails, RenameFails, SyncDir,
                SyncDirFails, Cleanup, TrashFails, Refuse, Abandon
  <2> QED BY <1>3, <2>1
<1>5. ASSUME NEW u \in Procs, Retry(u) PROVE Same
  BY <1>5 DEF Retry
<1>6. ASSUME NEW u \in Procs, Trash(u) PROVE Same
  BY <1>3, <1>5, <1>6 DEF Trash
<1>7. ASSUME NEW u \in Procs, Link(u)
      PROVE  Same \/ (Link(w) /\ LinkSettled(Errno(LinkCall(w))))
  <2>1. \/ LinkSettled(Errno(LinkCall(u))) /\ Goto(u, "rename")
           /\ pinned' = [pinned EXCEPT ![u] = ns[PathName(path[u])]]
        \/ Retry(u) \/ Fail(u)
    BY <1>7 DEF Link
  <2>2. ASSUME LinkSettled(Errno(LinkCall(u))), Goto(u, "rename"),
               pinned' = [pinned EXCEPT ![u] = ns[PathName(path[u])]]
        PROVE  Same \/ (u = w /\ LinkSettled(Errno(LinkCall(w))))
    <3>1. CASE u = w
      BY <2>2, <3>1 DEF Goto, Places
    <3>2. ASSUME u # w PROVE Same
      BY <2>2, <3>2 DEF Goto, Places
    <3> QED BY <3>1, <3>2
  <2> QED BY <1>3, <1>5, <1>7, <2>1, <2>2
<1>8. ASSUME NEW u \in Procs, Rename(u) PROVE Same
  <2>1. (Goto(u, "syncdir") /\ UNCHANGED pinned) \/ Fail(u)
    BY <1>8 DEF Rename
  <2> QED BY <1>3, <2>1 DEF Goto, Places
<1>9. ASSUME NEW u \in Procs, NEW n \in PathNames \cup TrashNames, NEW p \in Paths, Move(u, n, p)
      PROVE  Same
  BY <1>9 DEF Move
<1>10. ASSUME NEW u \in Procs, NEW n \in TrashNames, Empty(u, n) PROVE Same
  BY <1>10 DEF Empty, locals
<1>11. ASSUME NEW c \in flying, Late(c) PROVE Same
  BY <1>11 DEF Late, locals
<1>12. ASSUME NEW u \in Procs, NEW p \in Paths, RemoveBegin(u, p) PROVE Same
  BY <1>12 DEF RemoveBegin, Goto, Places
<1>13. ASSUME WriteBack PROVE Same
  BY <1>13 DEF WriteBack, locals
<1> HIDE DEF Same
<1>14. Same \/ (Link(w) /\ LinkSettled(Errno(LinkCall(w))))
  BY <1>1, <1>2, <1>4, <1>6, <1>7, <1>8, <1>9, <1>10, <1>11, <1>12, <1>13 DEF Next
<1> QED BY <1>14 DEF Same

(* What was pinned when a write comes to its rename.                       *)
LEMMA PinnedStep ==
    ASSUME LossInv, Next, ~Crash
    PROVE  PinnedInTrash'
<1> USE DEF LossInv, CompleteInv, Typed
<1> SUFFICES ASSUME NEW w \in Procs, pc'[w] = "rename", pinned'[w] # None
             PROVE  pinned'[w] \in emptied' \/ \E n \in TrashNames : ns'[n] = pinned'[w]
  BY DEF PinnedInTrash
<1>1. \/ Link(w) /\ LinkSettled(Errno(LinkCall(w)))
      \/ pc[w] = "rename" /\ pinned'[w] = pinned[w]
  BY RenameReached
<1>2. CASE Link(w) /\ LinkSettled(Errno(LinkCall(w)))
  <2> DEFINE c == LinkCall(w)
  <2>1. /\ path[w] \in Paths /\ tname[w] \in TrashNames /\ trashDir
        /\ pc[w] = "link"
    BY <1>2 DEF Link, Steps, StepOf
  <2>2. c.kind = "link" /\ c.from = PathName(path[w]) /\ c.to = tname[w]
    BY DEF LinkCall
  <2>3. ns[PathName(path[w])] # None /\ Errno(c) \in {"ok", "ENOENT"}
        /\ pinned'[w] = ns[PathName(path[w])]
    BY <1>2, <2>1 DEF Link, Goto, Fail, Answer, Retry, LinkSettled, Places
  <2>4. Errno(c) = "ok"
    BY <2>1, <2>2, <2>3 DEF Errno, Missing, Taken
  <2>5. ns' = [ns EXCEPT ![tname[w]] = ns[PathName(path[w])]]
    BY <1>2, <2>2, <2>4 DEF Link, Reply, Perform, Namespace
  <2>6. ns'[tname[w]] = pinned'[w]
    BY <2>1, <2>3, <2>5, NameFacts DEF Stored
  <2> QED BY <2>1, <2>6
<1>3. CASE pc[w] = "rename" /\ pinned'[w] = pinned[w]
  <2>1. emptied \subseteq emptied'
    BY OneCall DEF Perform
  <2>2. pinned[w] \in emptied \/ \E n \in TrashNames : ns[n] = pinned[w]
    BY <1>3 DEF PinnedInTrash
  <2>3. ASSUME NEW n \in TrashNames, ns[n] = pinned[w]
        PROVE  pinned[w] \in emptied' \/ ns'[n] = pinned[w]
    <3>1. ASSUME NEW u \in Procs, NEW p \in Paths, Move(u, n, p) PROVE FALSE
      BY <1>3, <2>3, <3>1 DEF Move
    <3> QED BY <1>3, <2>3, <3>1, TrashKept
  <2> QED BY <1>3, <2>1, <2>2, <2>3
<1> QED BY <1>1, <1>2, <1>3

(* Steps that settle nothing leave history alone but for what their call   *)
(* takes off a name.                                                       *)
LEMMA SettledStep ==
    ASSUME CompleteInv, Next, ~Crash
    PROVE  \/ \E w \in Procs : SyncDir(w)
           \/ UNCHANGED <<ns, history>>
           \/ UNCHANGED <<disk, acked>> /\ \E c : Perform(c)
<1>1. \/ WriteBack \/ \E w \in Procs : SyncDir(w)
      \/ UNCHANGED <<ns, history>>
      \/ UNCHANGED <<disk, acked>> /\ (NoEffect \/ \E c : Perform(c))
  BY DEF Next, WriteBegin, Create, CreateFails, Copy, Sync, CopyOrSyncFails, Mkdir,
         MkdirFails, Link, LinkFails, Rename, RenameFails, SyncDirFails, Cleanup,
         RemoveBegin, Trash, TrashFails, Empty, Move, Late, Reply, Refuse, Abandon, store
<1> QED BY <1>1 DEF WriteBack, NoEffect, history

(* The answer comes after the target's directory was flushed, and a flush  *)
(* or a crash takes nothing off a name that is on the disk.                *)
LEMMA SafeStep ==
    ASSUME LossInv, Next
    PROVE  Safe'
<1> USE NameFacts DEF LossInv, CompleteInv, Disk
<1>1. \A n \in PathNames : n \in Names /\ n \notin TrashNames
  BY DEF Shown
<1>2. CASE Crash
  <2>1. ns' = disk.ns /\ disk' = disk /\ UNCHANGED history
    BY <1>2 DEF Crash
  <2> QED BY <2>1 DEF Safe, history
<1>3. ASSUME ~Crash, NEW w \in Procs, SyncDir(w) PROVE Safe'
  <2>1. /\ ns' = ns /\ acked' = acked \cup {ver[w]}
        /\ settled' = settled \cup {v \in {ver[w]} : ns[PathName(path[w])] = v}
        /\ disk'.ns = [n \in Names |-> IF n \in TrashNames THEN disk.ns[n] ELSE ns[n]]
    BY <1>3, FlushedNames DEF SyncDir
  <2>2. ver[w] \in Versions /\ PathName(path[w]) \in PathNames
    BY <1>3 DEF SyncDir, Steps, StepOf
  <2>3. settled' \subseteq acked' /\ acked' \subseteq Versions
    BY <2>1, <2>2 DEF Safe
  <2>4. ASSUME NEW v \in settled' PROVE \E n \in PathNames : ns[n] = v
    <3>1. CASE v \in settled
      BY <3>1 DEF Safe
    <3>2. CASE v \notin settled
      BY <2>1, <2>2, <2>4, <3>2
    <3> QED BY <3>1, <3>2
  <2>5. \A n \in PathNames : disk'.ns[n] = ns'[n] /\ ns'[n] = ns[n]
    BY <1>1, <2>1
  <2> QED BY <2>3, <2>4, <2>5 DEF Safe
<1>4. ASSUME ~Crash, UNCHANGED <<ns, history>> PROVE Safe'
  <2>1. \A n \in PathNames : disk'.ns[n] \in {disk.ns[n], ns[n]}
    BY <1>1, <1>4, DiskStep, FlushedNames
  <2> QED BY <1>4, <2>1 DEF Safe, history
<1>5. ASSUME NEW c, Perform(c), UNCHANGED <<disk, acked>> PROVE Safe'
  <2>1. settled' \subseteq settled
        /\ \A v \in settled', n \in PathNames : ns[n] = v => ns'[n] = v
    BY <1>5 DEF Perform
  <2> QED BY <1>5, <2>1 DEF Safe
<1> QED BY <1>2, <1>3, <1>4, <1>5, SettledStep

(* The invariant of the losses is inductive. *)
LEMMA LossStep == LossInv /\ [Next]_vars => LossInv'
<1>1. LossInv /\ Next => LossInv'
  <2> SUFFICES ASSUME LossInv, Next PROVE LossInv'
    OBVIOUS
  <2>1. CompleteInv'
    BY CompleteStep DEF LossInv
  <2>2. pinned' \in [Procs -> Versions \cup {None}]
    <3>1. \A w \in Procs : pc[w] = "link" => ns[PathName(path[w])] \in Versions \cup {None}
      BY NameFacts DEF LossInv, CompleteInv, Steps, StepOf, Stored
    <3> QED
      BY <3>1 DEF LossInv, Next, WriteBegin, Create, CreateFails, Copy, Sync, CopyOrSyncFails,
         Mkdir, MkdirFails, Link, LinkFails, Rename, RenameFails, SyncDir, SyncDirFails, Cleanup,
         RemoveBegin, Trash, TrashFails, Empty, Move, Late, WriteBack, Crash, Refuse, Abandon,
         Fail, Answer, Retry, locals
  <2>3. PinnedInTrash'
    BY PinnedStep DEF Crash, PinnedInTrash
  <2>4. Safe'
    BY SafeStep
  <2> QED BY <2>1, <2>2, <2>3, <2>4 DEF LossInv
<1>2. LossInv /\ UNCHANGED vars => LossInv'
  <2> SUFFICES ASSUME LossInv, UNCHANGED vars PROVE LossInv'
    OBVIOUS
  <2>1. CompleteInv'
    BY CompleteStep DEF LossInv
  <2>2. PinnedInTrash' /\ Safe'
    BY DEF LossInv, PinnedInTrash, Safe, vars, store, locals, history
  <2> QED BY <2>1, <2>2 DEF LossInv, vars, locals
<1> QED BY <1>1, <1>2

(* In every state: what an answered Write stored and nobody has taken off  *)
(* its name since has that name on the disk too; and what a Write pinned   *)
(* on its way to the rename is in the trash, flushed or not, unless it was *)
(* deleted there.                                                          *)
THEOREM LossInvHolds == Spec => []LossInv
BY InitLossInv, LossStep, PTL DEF Spec

(* A step after which a stored version has no name is one of the overlaps, *)
(* or a crash that finds it out of its place: no other call takes the last *)
(* name of a version away.                                                 *)
LEMMA LossStepIsOverlap ==
    ASSUME LossInv, Next, NEW v \in acked, Kept(v), ~Kept(v)', v \notin emptied'
    PROVE  \/ \E w \in Procs : /\ pc[w] = "rename" /\ pc'[w] = "syncdir"
                               /\ ns[PathName(path[w])] = v
                               /\ pinned[w] # v
           \/ \E c \in flying \ flying' : c.kind = "replace" /\ ns[c.to] = v
           \/ crashes' # crashes /\ v \notin settled
<1> USE NameFacts
<1>1. v \in Versions /\ v # None /\ \A n \in Shown : ns'[n] # v
  BY VfsAssumption DEF LossInv, Safe, Kept, Shown
<1>2. PICK n \in Shown : ns[n] = v
  BY DEF Kept, Shown
<1>3. ns \in [Names -> Versions \cup {None}] /\ Stored(ns, data) /\ CompleteInv
  BY DEF LossInv, CompleteInv, Stored
<1>4. CASE Crash
  <2>1. crashes' # crashes /\ ns' = disk.ns
    BY <1>4 DEF Crash, LossInv, CompleteInv, Typed, Contents
  <2>2. v \notin settled
    BY <1>1, <2>1 DEF LossInv, Safe, Shown
  <2> QED BY <2>1, <2>2
<1> SUFFICES ASSUME ~Crash
             PROVE  \/ \E w \in Procs : /\ pc[w] = "rename" /\ pc'[w] = "syncdir"
                                        /\ ns[PathName(path[w])] = v
                                        /\ pinned[w] # v
                    \/ \E c \in flying \ flying' : c.kind = "replace" /\ ns[c.to] = v
  BY <1>4
<1>5. PICK c : Shape(c, data) /\ Perform(c) /\ CallOf(c) /\ Namespace(c) # ns
  BY <1>1, <1>2, <1>3, StepEffect
<1>6. ns' = Namespace(c) /\ n \in Names
  BY <1>5 DEF Perform
<1>7. ASSUME NEW u \in Versions, ns' = [ns EXCEPT ![TmpName(u)] = u] PROVE FALSE
  BY <1>1, <1>2, <1>3, <1>6, <1>7
<1>8. ASSUME NEW m \in TmpNames \cup TrashNames, c.kind = "unlink", c.from = m,
             ns' = [ns EXCEPT ![m] = None]
      PROVE  FALSE
  <2>1. CASE m = n
    <3>1. n \in TrashNames
      BY <2>1
    <3> QED BY <1>1, <1>2, <1>5, <1>8, <2>1, <3>1 DEF Perform
  <2>2. CASE m # n
    BY <1>1, <1>2, <1>3, <1>6, <1>8, <2>2
  <2> QED BY <2>1, <2>2
<1>9. ASSUME NEW m \in Shown, NEW k \in Shown, ns[k] = None, ns' = [ns EXCEPT ![k] = ns[m]]
      PROVE  FALSE
  BY <1>1, <1>2, <1>3, <1>6, <1>9
<1>10. ASSUME NEW m \in Shown, NEW k \in Shown, ns[m] # None, ns[k] = None,
              ns' = [ns EXCEPT ![k] = ns[m], ![m] = None]
       PROVE  FALSE
  <2>1. k # m /\ k \in Names /\ m \in Names
    BY <1>10
  <2>2. CASE n = m
    <3>1. ns'[k] = v
      BY <1>2, <1>3, <1>10, <2>1, <2>2
    <3> QED BY <1>1, <3>1
  <2>3. CASE n # m
    BY <1>1, <1>2, <1>3, <1>6, <1>10, <2>1, <2>3
  <2> QED BY <2>2, <2>3
<1>11. ASSUME NEW u \in Versions, NEW p \in Paths, c.kind = "replace", c.to = PathName(p),
              ns' = [ns EXCEPT ![PathName(p)] = u, ![TmpName(u)] = None]
       PROVE  \/ \E w \in Procs : /\ pc[w] = "rename" /\ pc'[w] = "syncdir"
                                  /\ ns[PathName(path[w])] = v
                                  /\ pinned[w] # v
              \/ c \in flying \ flying' /\ ns[c.to] = v
  <2>1. n = PathName(p)
    BY <1>1, <1>2, <1>3, <1>6, <1>11
  <2>2. ASSUME c \in flying, Late(c) PROVE c \in flying \ flying'
    BY <2>2 DEF Late
  <2>3. ASSUME NEW w \in Procs, Rename(w), c = RenameCall(w)
        PROVE  /\ pc[w] = "rename" /\ pc'[w] = "syncdir"
               /\ ns[PathName(path[w])] = v /\ pinned[w] # v
    <3>1. Errno(RenameCall(w)) = "ok"
      BY <1>5, <2>3 DEF Namespace
    <3>2. pc[w] = "rename" /\ pc'[w] = "syncdir"
      BY <2>3, <3>1 DEF Rename, Goto, LossInv, CompleteInv, Typed, Places
    <3>3. ns[PathName(path[w])] = v
      BY <1>2, <1>11, <2>1, <2>3 DEF RenameCall
    <3>4. ASSUME NEW k \in TrashNames, ns[k] = v PROVE FALSE
      BY <1>1, <1>3, <1>11, <3>4
    <3>5. v \notin emptied
      BY <1>5 DEF Perform
    <3>6. pinned[w] # v
      BY <1>1, <3>2, <3>4, <3>5 DEF LossInv, PinnedInTrash
    <3> QED BY <3>2, <3>3, <3>6
  <2> QED BY <1>2, <1>5, <1>11, <2>1, <2>2, <2>3 DEF CallOf
<1> QED BY <1>3, <1>5, <1>6, <1>7, <1>8, <1>9, <1>10, <1>11, CallEffect

(* Whatever fails, is given up or happens late, and however requests       *)
(* interleave, a version somebody was told is stored goes out of reach     *)
(* only when it is deleted out of the trash, or under a write's rename     *)
(* that overlapped another request: the link came before what it replaces  *)
(* was there, or that was moved back out of the trash since, or the caller *)
(* of the rename had given up; and a crash takes it only when a write, a   *)
(* removal or a move had taken it off its name.                            *)
THEOREM LossIsOverlap == Spec => LostByOverlap
<1>1. LossInv /\ [Next]_vars =>
        [\A v \in acked : Kept(v) =>
            \/ Kept(v)'
            \/ v \in emptied'
            \/ \E w \in Procs : /\ pc[w] = "rename" /\ pc'[w] = "syncdir"
                                /\ ns[PathName(path[w])] = v
                                /\ pinned[w] # v
            \/ \E c \in flying \ flying' : c.kind = "replace" /\ ns[c.to] = v
            \/ crashes' # crashes /\ v \notin settled]_vars
  BY LossStepIsOverlap
<1> QED BY <1>1, LossInvHolds, PTL DEF Spec, LostByOverlap

(* Keeping the old version takes no name away: between the link into the   *)
(* trash and the rename the path still leads to what it led to.            *)
THEOREM NoWindowOpens == Spec => NoWindow
<1>1. CompleteInv /\ [Next]_vars =>
        [\A w \in Procs :
            pc[w] = "link" /\ pc'[w] # "link" /\ crashes' = crashes
                => \A n \in PathNames : ns[n] # None => ns'[n] # None]_vars
  <2> SUFFICES ASSUME CompleteInv, Next, NEW w \in Procs, pc[w] = "link", pc'[w] # "link",
                      crashes' = crashes, NEW n \in PathNames, ns[n] # None
               PROVE  ns'[n] # None
    OBVIOUS
  <2>1. Link(w) \/ LinkFails(w)
    <3>1. ~Crash
      BY DEF Crash, CompleteInv, Typed, Contents
    <3>2. Places
      BY DEF CompleteInv, Typed
    <3>3. ASSUME NEW u \in Procs, u # w, \/ Answer(u) \/ Fail(u) \/ Retry(u)
                                         \/ \E l : Goto(u, l)
          PROVE  pc'[w] = pc[w]
      BY <3>2, <3>3 DEF Answer, Fail, Retry, Goto, Places
    <3>4. \/ Link(w) \/ LinkFails(w)
          \/ \E u \in Procs : u # w /\ (Answer(u) \/ Fail(u) \/ Retry(u) \/ \E l : Goto(u, l))
          \/ UNCHANGED pc
      BY <3>1 DEF Next, WriteBegin, Create, CreateFails, Copy, Sync, CopyOrSyncFails, Mkdir,
                  MkdirFails, Link, LinkFails, Rename, RenameFails, SyncDir, SyncDirFails,
                  Cleanup, RemoveBegin, Trash, TrashFails, Empty, Move, Late, WriteBack, Refuse,
                  Abandon, locals
    <3> QED BY <3>3, <3>4
  <2>2. CASE LinkFails(w)
    BY <2>2 DEF LinkFails, Refuse, Abandon, NoEffect
  <2>3. CASE Link(w)
    <3>1. path[w] \in Paths /\ tname[w] \in TrashNames
      BY <2>3 DEF Link, CompleteInv, Steps, StepOf
    <3>2. ns' = ns \/ ns' = [ns EXCEPT ![tname[w]] = ns[PathName(path[w])]]
      BY <2>3 DEF Link, Reply, Perform, Namespace, LinkCall
    <3> QED BY <3>1, <3>2, NameFacts DEF CompleteInv, Stored
  <2> QED BY <2>1, <2>2, <2>3
<1> QED BY <1>1, CompleteInvHolds, PTL DEF Spec, NoWindow
=============================================================================
