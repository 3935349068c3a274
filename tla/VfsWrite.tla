------------------------------ MODULE VfsWrite ------------------------------
(***************************************************************************)
(* The write protocol of the file store (internal/vfs/vfs.go): Write,      *)
(* Remove and Move, as concurrent sequences of helper calls on one         *)
(* permission domain.                                                      *)
(*                                                                         *)
(* Each helper call is one system call and one atomic step on the          *)
(* namespace.  A call has three outcomes: its reply arrives; it fails      *)
(* without effect; or the request's context ends before the reply, and     *)
(* then the helper still performs the operation later, or never.  A host   *)
(* crash loses file data not yet fsynced, and of each directory what has   *)
(* changed since it was last flushed: an fsync of a directory promises     *)
(* nothing of another one, and the kernel flushes each of its own accord   *)
(* whenever it likes.  There are two, the one the files (and the temporary *)
(* files beside them) are in and the trash, with its entry.                *)
(***************************************************************************)
EXTENDS Naturals, FiniteSets

CONSTANTS
    Procs,        \* requests in flight
    Paths,        \* file names in the domain
    Versions,     \* inodes; each Write creates one
    Initial,      \* the versions that exist before any request
    Seconds,      \* what the clock trashName prints can show
    Suffixes,     \* what randomSuffix can answer for a trash name
    MaxAttempts,  \* 8 in linkToTrash and moveToTrash
    MaxLate,      \* bound on the calls under way whose caller has given up
    MaxCrashes,   \* bound on host crashes
    None

ASSUME VfsAssumption ==
    /\ Initial \subseteq Versions
    /\ MaxAttempts \in Nat
    /\ MaxCrashes \in Nat
    /\ MaxLate \in Nat
    /\ None \notin Versions \cup Suffixes

(* The names of the domain.  A temporary name carries a random suffix of   *)
(* its own, so the version it is made for names it.                        *)
PathName(p) == [dir |-> "path", at |-> p, sec |-> None, suffix |-> None]
TmpName(v)  == [dir |-> "tmp", at |-> v, sec |-> None, suffix |-> None]
(* trashName, with "-" and a suffix after a collision. *)
TrashName(p, t, s) == [dir |-> "trash", at |-> p, sec |-> t, suffix |-> s]

PathNames  == {PathName(p) : p \in Paths}
TmpNames   == {TmpName(v) : v \in Versions}
TrashNames == {TrashName(p, t, s) : p \in Paths, t \in Seconds, s \in Suffixes \cup {None}}
Names      == PathNames \cup TmpNames \cup TrashNames

VARIABLES
    ns,         \* ns[n]: the inode the name n leads to, or None
    trashDir,   \* the domain's .trash exists
    disk,       \* each directory as last flushed
    data,       \* "none" | "partial" | "written" | "synced", by version
    flying,     \* helper calls whose caller no longer waits
    crashes,
    pc, path, ver, tname, attempt,   \* where each request is
    pinned,     \* what each request's link found at its name, unless that was
                \* moved back out of the trash (history)
    acked,      \* versions stored at first, or whose Write returned nil (history)
    settled,    \* those of them nobody has taken off a name since (history)
    emptied     \* versions deleted out of the trash on purpose (history)

store == <<ns, trashDir, disk, data, flying>>
locals == <<pc, path, ver, tname, attempt, pinned>>
history == <<acked, settled, emptied>>
vars == <<store, crashes, locals, history>>

(***************************************************************************)
(* Bugs this code could have had.                                          *)
(***************************************************************************)
TrashFlagReplaces == "replace"
AfterCopySkipsSync == "mkdir"
LinkErrorsIgnored(e) == TRUE
ParentNotFlushed == disk
MayRetryOnceMore(w) == attempt[w] <= MaxAttempts
TargetFollowsFirst(w) == [kind |-> "noreplace", from |-> PathName(path[w]), to |-> tname[w]]

(***************************************************************************)
(* System calls, as the helper performs them for the user.                 *)
(***************************************************************************)
\* No such file, or no trash to put it in.
Missing(c) ==
    /\ c.kind \notin {"mkdir", "create"}
    /\ \/ ns[c.from] = None
       \/ c.kind \in {"link", "noreplace"} /\ c.to \in TrashNames /\ ~trashDir

\* The name is in use, where the call does not replace what is there.
Taken(c) ==
    \/ c.kind = "mkdir" /\ trashDir
    \/ c.kind \in {"create", "link", "noreplace"} /\ ns[c.to] # None

Errno(c) == IF Missing(c) THEN "ENOENT" ELSE IF Taken(c) THEN "EEXIST" ELSE "ok"

Namespace(c) ==
    IF Errno(c) # "ok" THEN ns
    ELSE CASE c.kind = "mkdir" -> ns
           [] c.kind = "create" -> [ns EXCEPT ![c.to] = c.inode]
           [] c.kind = "unlink" -> [ns EXCEPT ![c.from] = None]
           [] c.kind = "link" -> [ns EXCEPT ![c.to] = ns[c.from]]
           [] OTHER -> [ns EXCEPT ![c.to] = ns[c.from], ![c.from] = None]

(* The call takes effect. *)
Perform(c) ==
    /\ ns' = Namespace(c)
    /\ trashDir' = (trashDir \/ c.kind = "mkdir")
    /\ emptied' = IF c.kind = "unlink" /\ c.from \in TrashNames
                  THEN emptied \cup ({ns[c.from]} \ {None}) ELSE emptied
    /\ settled' = {v \in settled : \A n \in PathNames : ns[n] = v => ns'[n] = v}

NoEffect == UNCHANGED <<ns, trashDir, settled, emptied>>

(* The disk once one directory is flushed. *)
FilesFlushed ==
    [disk EXCEPT !.ns = [n \in Names |-> IF n \in TrashNames THEN disk.ns[n] ELSE ns[n]]]
TrashFlushed ==
    [ns |-> [n \in Names |-> IF n \in TrashNames THEN ns[n] ELSE disk.ns[n]],
     trashDir |-> trashDir]

-----------------------------------------------------------------------------
(* The call each request is about to make. *)
(* moveToTrash's rename flag. *)
TrashFlag == "noreplace"
CreateCall(w) == [kind |-> "create", to |-> TmpName(ver[w]), inode |-> ver[w]]
MkdirCall == [kind |-> "mkdir"]
LinkCall(w) == [kind |-> "link", from |-> PathName(path[w]), to |-> tname[w]]
RenameCall(w) ==
    [kind |-> "replace", from |-> TmpName(ver[w]), to |-> PathName(path[w])]
TrashCall(w) ==
    [kind |-> TrashFlag, from |-> PathName(path[w]), to |-> tname[w]]
CleanupCall(w) == [kind |-> "unlink", from |-> TmpName(ver[w])]

(* The step after the copy. *)
AfterCopy == "sync"

(* linkToTrash: the errnos after which the write goes on to its rename. *)
LinkSettled(e) == e \in {"ok", "ENOENT"}

(* A collision in the trash is retried under another name so many times. *)
MayRetry(w) == attempt[w] < MaxAttempts

Goto(w, l) == pc' = [pc EXCEPT ![w] = l]

(* The request is answered; what it worked with is forgotten. *)
Answer(w) ==
    /\ Goto(w, "idle")
    /\ path' = [path EXCEPT ![w] = None]
    /\ ver' = [ver EXCEPT ![w] = None]
    /\ tname' = [tname EXCEPT ![w] = None]
    /\ attempt' = [attempt EXCEPT ![w] = 0]
    /\ pinned' = [pinned EXCEPT ![w] = None]

(* A step of Write failed after the temporary file was created: the        *)
(* deferred function unlinks it.  Elsewhere the request just fails.        *)
Fail(w) ==
    IF ver[w] # None
    THEN Goto(w, "cleanup") /\ UNCHANGED <<path, ver, tname, attempt, pinned>>
    ELSE Answer(w)

Quiet == UNCHANGED crashes

(* The caller of the call c stops waiting: ctx.Done() in Client.Do. *)
Leave(c) ==
    /\ Cardinality(flying) < MaxLate
    /\ flying' = flying \cup {c}

Abandon(w, c) ==
    /\ Leave(c)
    /\ Fail(w)
    /\ NoEffect
    /\ UNCHANGED <<disk, data, acked>>
    /\ Quiet

(* The call c of w fails without effect: EIO, EACCES, ENOSPC, no helper. *)
Refuse(w) ==
    /\ Fail(w)
    /\ NoEffect
    /\ UNCHANGED <<disk, data, flying, acked>>
    /\ Quiet

(* The call c of w is performed and answered. *)
Reply(w, c) ==
    /\ Perform(c)
    /\ UNCHANGED <<disk, flying>>
    /\ Quiet

-----------------------------------------------------------------------------
Init ==
    /\ \E f \in [Paths -> Initial \cup {None}] :
        /\ \A p, q \in Paths : f[p] = f[q] /\ f[p] # None => p = q
        /\ ns = [n \in Names |-> IF n \in PathNames THEN f[n.at] ELSE None]
        /\ acked = {f[p] : p \in Paths} \ {None}
        /\ settled = acked
    /\ disk = [ns |-> ns, trashDir |-> FALSE]
    /\ trashDir = FALSE
    /\ data = [v \in Versions |-> IF v \in Initial THEN "synced" ELSE "none"]
    /\ flying = {}
    /\ crashes = 0
    /\ pc = [w \in Procs |-> "idle"]
    /\ path = [w \in Procs |-> None]
    /\ ver = [w \in Procs |-> None]
    /\ tname = [w \in Procs |-> None]
    /\ attempt = [w \in Procs |-> 0]
    /\ pinned = [w \in Procs |-> None]
    /\ emptied = {}

(* Write begins: a path and a temporary name nobody else has. *)
WriteBegin(w, p, v) ==
    /\ pc[w] = "idle"
    /\ data[v] = "none"
    /\ \A u \in Procs : ver[u] # v
    /\ Goto(w, "create")
    /\ path' = [path EXCEPT ![w] = p]
    /\ ver' = [ver EXCEPT ![w] = v]
    /\ UNCHANGED <<store, tname, attempt, pinned, history>>
    /\ Quiet

(* Write, step 1: O_CREAT|O_EXCL.  Until it succeeds nothing is cleaned up. *)
Create(w) ==
    /\ pc[w] = "create"
    /\ Reply(w, CreateCall(w))
    /\ data' = [data EXCEPT ![ver[w]] = "partial"]
    /\ Goto(w, "copy")
    /\ UNCHANGED <<path, ver, tname, attempt, pinned, acked>>

CreateFails(w) ==
    /\ pc[w] = "create"
    /\ \/ flying' = flying
       \/ Leave(CreateCall(w))
    /\ data' = [data EXCEPT ![ver[w]] = "partial"]
    /\ Answer(w)
    /\ NoEffect
    /\ UNCHANGED <<disk, acked>>
    /\ Quiet

(* Write, step 2: io.Copy from the request body, then Sync and Close. *)
Copy(w) ==
    /\ pc[w] = "copy"
    /\ data' = [data EXCEPT ![ver[w]] = "written"]
    /\ Goto(w, AfterCopy)
    /\ UNCHANGED <<ns, trashDir, disk, flying, path, ver, tname, attempt, pinned, history>>
    /\ Quiet

Sync(w) ==
    /\ pc[w] = "sync"
    /\ data' = [data EXCEPT ![ver[w]] =
                  IF @ = "written" THEN "synced" ELSE @]
    /\ Goto(w, "mkdir")
    /\ UNCHANGED <<ns, trashDir, disk, flying, path, ver, tname, attempt, pinned, history>>
    /\ Quiet

CopyOrSyncFails(w) == pc[w] \in {"copy", "sync"} /\ Refuse(w)

(* ensureTrash, and the first trash name: Write goes on to link the target *)
(* there, Remove to move it.                                               *)
Mkdir(w) ==
    /\ pc[w] = "mkdir"
    /\ Reply(w, MkdirCall)
    /\ \E t \in Seconds : tname' = [tname EXCEPT ![w] = TrashName(path[w], t, None)]
    /\ Goto(w, IF ver[w] # None THEN "link" ELSE "trash")
    /\ UNCHANGED <<data, path, ver, attempt, pinned, acked>>

MkdirFails(w) == pc[w] = "mkdir" /\ (Refuse(w) \/ Abandon(w, MkdirCall))

(* Another name after a collision, in linkToTrash and in moveToTrash. *)
Retry(w) ==
    /\ MayRetry(w)
    /\ attempt' = [attempt EXCEPT ![w] = @ + 1]
    /\ \E t \in Seconds, s \in Suffixes :
          tname' = [tname EXCEPT ![w] = TrashName(path[w], t, s)]
    /\ UNCHANGED <<pc, path, ver, pinned>>

(* Write, step 3: linkToTrash. *)
Link(w) ==
    /\ pc[w] = "link"
    /\ Reply(w, LinkCall(w))
    /\ LET e == Errno(LinkCall(w)) IN
        IF LinkSettled(e)
        THEN /\ Goto(w, "rename")
             /\ pinned' = [pinned EXCEPT ![w] = ns[PathName(path[w])]]
             /\ UNCHANGED <<path, ver, tname, attempt>>
        ELSE IF e = "EEXIST" /\ MayRetry(w) THEN Retry(w)
        ELSE Fail(w)
    /\ UNCHANGED <<data, acked>>

LinkFails(w) == pc[w] = "link" /\ (Refuse(w) \/ Abandon(w, LinkCall(w)))

(* Write, step 4: the one rename. *)
Rename(w) ==
    /\ pc[w] = "rename"
    /\ Reply(w, RenameCall(w))
    /\ IF Errno(RenameCall(w)) = "ok"
       THEN Goto(w, "syncdir") /\ UNCHANGED <<path, ver, tname, attempt, pinned>>
       ELSE Fail(w)
    /\ UNCHANGED <<data, acked>>

RenameFails(w) == pc[w] = "rename" /\ (Refuse(w) \/ Abandon(w, RenameCall(w)))

(* Write, step 5: syncDir of the target's parent, then the activity record *)
(* and the answer: nil.                                                    *)
SyncDir(w) ==
    /\ pc[w] = "syncdir"
    /\ disk' = FilesFlushed
    /\ acked' = acked \cup {ver[w]}
    /\ settled' = settled \cup {v \in {ver[w]} : ns[PathName(path[w])] = v}
    /\ Answer(w)
    /\ UNCHANGED <<ns, trashDir, data, flying, emptied>>
    /\ Quiet

SyncDirFails(w) == pc[w] = "syncdir" /\ Refuse(w)

(* The deferred clean-up, whose own error is dropped and whose context may *)
(* already have ended.                                                     *)
Cleanup(w) ==
    /\ pc[w] = "cleanup"
    /\ \/ Perform(CleanupCall(w)) /\ UNCHANGED flying
       \/ NoEffect /\ Leave(CleanupCall(w))
       \/ NoEffect /\ UNCHANGED flying
    /\ Answer(w)
    /\ UNCHANGED <<disk, data, acked>>
    /\ Quiet

(* Remove of a path outside the trash begins with ensureTrash. *)
RemoveBegin(w, p) ==
    /\ pc[w] = "idle"
    /\ Goto(w, "mkdir")
    /\ path' = [path EXCEPT ![w] = p]
    /\ UNCHANGED <<store, ver, tname, attempt, pinned, history>>
    /\ Quiet

(* moveToTrash. *)
Trash(w) ==
    /\ pc[w] = "trash"
    /\ Reply(w, TrashCall(w))
    /\ IF Errno(TrashCall(w)) = "EEXIST" /\ MayRetry(w)
       THEN Retry(w)
       ELSE Answer(w)
    /\ UNCHANGED <<data, acked>>

TrashFails(w) == pc[w] = "trash" /\ (Refuse(w) \/ Abandon(w, TrashCall(w)))

(* Remove of a name inside the trash: emptying it. *)
Empty(w, n) ==
    /\ pc[w] = "idle"
    /\ ns[n] # None
    /\ Reply(w, [kind |-> "unlink", from |-> n])
    /\ UNCHANGED <<data, locals, acked>>

(* Move within the domain, RENAME_NOREPLACE: of a file, or back out of the *)
(* trash.                                                                  *)
Move(w, n, p) ==
    /\ pc[w] = "idle"
    /\ ns[n] # None
    /\ n # PathName(p)
    /\ LET c == [kind |-> "noreplace", from |-> n, to |-> PathName(p)]
       IN  Errno(c) = "ok" /\ Reply(w, c)
    /\ pinned' = [u \in Procs |-> IF n \in TrashNames /\ pinned[u] = ns[n] THEN None
                                  ELSE pinned[u]]
    /\ UNCHANGED <<data, pc, path, ver, tname, attempt, acked>>

(* The helper performs a call nobody waits for any more. *)
Late(c) ==
    /\ c \in flying
    /\ Perform(c)
    /\ flying' = flying \ {c}
    /\ UNCHANGED <<disk, data, locals, acked>>
    /\ Quiet

(* The kernel writes a directory back; only a crash could tell. *)
WriteBack ==
    /\ crashes < MaxCrashes
    /\ disk' \in {FilesFlushed, TrashFlushed} \ {disk}
    /\ UNCHANGED <<ns, trashDir, data, flying, locals, history>>
    /\ Quiet

(* The host stops and comes back: requests and helpers are gone. *)
Crash ==
    /\ crashes < MaxCrashes
    /\ crashes' = crashes + 1
    /\ ns' = disk.ns
    /\ trashDir' = disk.trashDir
    /\ disk' = disk
    /\ data' = [v \in Versions |-> IF data[v] = "written" THEN "partial" ELSE data[v]]
    /\ flying' = {}
    /\ pc' = [w \in Procs |-> "idle"]
    /\ path' = [w \in Procs |-> None]
    /\ ver' = [w \in Procs |-> None]
    /\ tname' = [w \in Procs |-> None]
    /\ attempt' = [w \in Procs |-> 0]
    /\ pinned' = [w \in Procs |-> None]
    /\ UNCHANGED history

Next ==
    \/ \E w \in Procs, p \in Paths, v \in Versions : WriteBegin(w, p, v)
    \/ \E w \in Procs : Create(w)
    \/ \E w \in Procs : CreateFails(w)
    \/ \E w \in Procs : Copy(w)
    \/ \E w \in Procs : Sync(w)
    \/ \E w \in Procs : CopyOrSyncFails(w)
    \/ \E w \in Procs : Mkdir(w)
    \/ \E w \in Procs : MkdirFails(w)
    \/ \E w \in Procs : Link(w)
    \/ \E w \in Procs : LinkFails(w)
    \/ \E w \in Procs : Rename(w)
    \/ \E w \in Procs : RenameFails(w)
    \/ \E w \in Procs : SyncDir(w)
    \/ \E w \in Procs : SyncDirFails(w)
    \/ \E w \in Procs : Cleanup(w)
    \/ \E w \in Procs, p \in Paths : RemoveBegin(w, p)
    \/ \E w \in Procs : Trash(w)
    \/ \E w \in Procs : TrashFails(w)
    \/ \E w \in Procs, n \in TrashNames : Empty(w, n)
    \/ \E w \in Procs, n \in PathNames \cup TrashNames, p \in Paths : Move(w, n, p)
    \/ \E c \in flying : Late(c)
    \/ WriteBack
    \/ Crash

Spec == Init /\ [][Next]_vars

-----------------------------------------------------------------------------
TypeOK ==
    /\ ns \in [Names -> Versions \cup {None}]
    /\ disk.ns \in [Names -> Versions \cup {None}]
    /\ trashDir \in BOOLEAN
    /\ data \in [Versions -> {"none", "partial", "written", "synced"}]
    /\ crashes \in 0..MaxCrashes
    /\ pc \in [Procs -> {"idle", "create", "copy", "sync", "mkdir", "link",
                         "rename", "syncdir", "trash", "cleanup"}]
    /\ path \in [Procs -> Paths \cup {None}]
    /\ ver \in [Procs -> Versions \cup {None}]
    /\ tname \in [Procs -> TrashNames \cup {None}]
    /\ attempt \in [Procs -> 0..MaxAttempts]

(* "Readers see the old file or the new one, never an in-between" (Write), *)
(* and a crash does not leave "a zero-length file where the old one used   *)
(* to be": a path never leads to a version whose content is not all there. *)
TargetComplete ==
    /\ TypeOK
    /\ \A n \in PathNames : ns[n] # None => data[ns[n]] \in {"written", "synced"}

(* Keeping the old version opens no "window where the name does not exist  *)
(* at all" (Write): no name disappears in the step that pins the target.   *)
NoWindow ==
    [][\A w \in Procs :
        pc[w] = "link" /\ pc'[w] # "link" /\ crashes' = crashes
            => \A n \in PathNames : ns[n] # None => ns'[n] # None]_vars

Kept(v) == \E n \in PathNames \cup TrashNames : ns[n] = v

(* Every loss is an overlap or a crash too early: a version somebody was   *)
(* told is stored stays current somewhere or in the trash, through         *)
(* failures at every call, collisions of names and abandoned calls, until  *)
(* it is deleted out of the trash, or a write replaces it whose link found *)
(* another version at the name, or found it and had it moved out of the    *)
(* trash since, or whose caller had given up on the rename.  A crash takes *)
(* none that is still where its Write left it: only one that was           *)
(* overwritten, removed or moved since, for Write flushes the directory of *)
(* its target and nothing flushes the trash or what a move changes.        *)
LostByOverlap ==
    [][\A v \in acked : Kept(v) =>
        \/ Kept(v)'
        \/ v \in emptied'
        \/ \E w \in Procs : /\ pc[w] = "rename" /\ pc'[w] = "syncdir"
                            /\ ns[PathName(path[w])] = v
                            /\ pinned[w] # v
        \/ \E c \in flying \ flying' : c.kind = "replace" /\ ns[c.to] = v
        \/ crashes' # crashes /\ v \notin settled]_vars

(* "Losing work is always undoable" (Remove): a version somebody was told  *)
(* is stored is still current somewhere or in the trash, until it is       *)
(* deleted out of the trash.                                               *)
Recoverable == \A v \in acked \ emptied : Kept(v)
=============================================================================
