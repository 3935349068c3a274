----------------------------- MODULE StateFile -----------------------------
(***************************************************************************)
(* internal/statefile and the three stores behind it (share.Store,         *)
(* identity.Store, identity.Queue): replicas of darak that keep one JSON   *)
(* file in memory each and rewrite it with a locked read-modify-write.     *)
(*                                                                         *)
(* A replica serves one call at a time (the store mutex), but the calls of *)
(* different replicas interleave at every system call: stat, read, flock,  *)
(* rename.  The file's rows are a function from Keys; which fields a row   *)
(* has is abstracted to a value of Vals.                                   *)
(***************************************************************************)
EXTENDS Integers, FiniteSets

CONSTANTS
    Replicas,    \* processes mounting the state volume
    Keys,        \* row keys: link tokens, accounts, subjects
    Vals,        \* what a row may say
    NoVal,       \* the row is not there
    Nobody,      \* the flock is free
    FineMtime,   \* TRUE: no two rewrites of the file share an mtime
    Fails,       \* TRUE: a call about the file or its lock may fail (disk full, I/O)
    SelfLoad,    \* TRUE: replicas start as NewFileQueue, else as NewFileStore
    MaxNow       \* bound: clock ticks

ASSUME ConstantsOK ==
    /\ NoVal \notin Vals
    /\ Nobody \notin Replicas
    /\ {FineMtime, Fails, SelfLoad} \subseteq BOOLEAN
    /\ MaxNow \in Nat
    /\ IsFiniteSet(Keys)

Docs == [Keys -> Vals \cup {NoVal}]
Empty == [k \in Keys |-> NoVal]

\* The length of the JSON document: rows are equally long.
Size(d) == Cardinality({k \in Keys : d[k] # NoVal})

Put(d, k, v) == [d EXCEPT ![k] = v]

\* What a caller may ask of a store.  A removal puts NoVal.
Calls == [op : {"start", "read"}]
         \cup [op : {"write"}, key : Keys, val : Vals \cup {NoVal}]

VARIABLES
    now,     \* the file system's clock
    doc,     \* the rows of the file; Empty until the first rename
    mtime,   \* its modification time, 0 while there is no file
    flock,   \* the replica holding <path>.lock, or Nobody
    pc,      \* per replica: the next system call of the call under way
    call,    \* per replica: the call under way, or the last one
    mem,     \* per replica: the store's map
    guard,   \* per replica: the Guard's mtime, size and loaded
    fi,      \* per replica: the os.FileInfo Fresh is working with
    window   \* ghost, per replica: what the file has held since the call began

file == <<now, doc, mtime>>
vars == <<now, doc, mtime, flock, pc, call, mem, guard, fi, window>>

Exists == mtime > 0
Stats == [mtime : 0..MaxNow, size : Nat]
Stat == [mtime |-> mtime, size |-> Size(doc)]
ZeroStat == [mtime |-> 0, size |-> 0]

\* A Guard that has seen the file as it is.
LooksNow == [mtime |-> mtime, size |-> Size(doc), loaded |-> TRUE]

Labels == {"down", "idle", "flock", "stat", "read", "self", "seen",
           "answer", "mutate", "replace", "record", "unlock"}

Init ==
    /\ now = 0
    /\ doc = Empty
    /\ mtime = 0
    /\ flock = Nobody
    /\ pc = [r \in Replicas |-> "down"]
    /\ call = [r \in Replicas |-> [op |-> "start"]]
    /\ mem = [r \in Replicas |-> Empty]
    /\ guard = [r \in Replicas |-> [mtime |-> 0, size |-> 0, loaded |-> FALSE]]
    /\ fi = [r \in Replicas |-> ZeroStat]
    /\ window = [r \in Replicas |-> {}]

Goto(r, label) == pc' = [pc EXCEPT ![r] = label]

\* Where the store goes once Fresh has returned: on to the rest of its call.
AfterFresh(r) ==
    CASE call[r].op = "start" -> "idle"
      [] call[r].op = "read" -> "answer"
      [] call[r].op = "write" -> "mutate"

---------------------------------------------------------------------------
(* Starting a replica: NewFileStore loads through the Guard, NewFileQueue  *)
(* reads the file itself, or keeps an empty queue when it cannot, and then *)
(* tells the Guard it has Seen it.                                         *)

Start(r) ==
    /\ pc[r] = "down"
    /\ call' = [call EXCEPT ![r] = [op |-> "start"]]
    /\ window' = [window EXCEPT ![r] = {doc}]
    /\ Goto(r, IF SelfLoad THEN "self" ELSE "stat")
    /\ UNCHANGED <<file, flock, mem, guard, fi>>

SelfRead(r) ==
    /\ pc[r] = "self"
    /\ \/ mem' = [mem EXCEPT ![r] = doc]
       \/ Fails /\ UNCHANGED mem
    /\ Goto(r, "seen")
    /\ UNCHANGED <<file, flock, call, guard, fi, window>>

Seen(r) ==
    /\ pc[r] = "seen"
    /\ \/ Exists /\ guard' = [guard EXCEPT ![r] = LooksNow]
       \/ (Exists => Fails) /\ guard' = [guard EXCEPT ![r].loaded = TRUE]
    /\ Goto(r, "idle")
    /\ UNCHANGED <<file, flock, call, mem, fi, window>>

---------------------------------------------------------------------------
(* Calls: a read goes through Guard.Fresh, a change through Guard.Write.   *)

Read(r) ==
    /\ pc[r] = "idle"
    /\ call' = [call EXCEPT ![r] = [op |-> "read"]]
    /\ window' = [window EXCEPT ![r] = {doc}]
    /\ Goto(r, "stat")
    /\ UNCHANGED <<file, flock, mem, guard, fi>>

Write(r, k, v) ==
    /\ pc[r] = "idle"
    /\ call' = [call EXCEPT ![r] = [op |-> "write", key |-> k, val |-> v]]
    /\ window' = [window EXCEPT ![r] = {doc}]
    /\ Goto(r, "flock")
    /\ UNCHANGED <<file, flock, mem, guard, fi>>

\* LOCK_EX: one holder.  Mutant: LOCK_SH.
FreeShared == TRUE
Free == flock = Nobody

\* The lock is held from before the reload.  Mutant: no reload.
NoReload == "mutate"
FirstUnderLock == "stat"

Lock(r) ==
    /\ pc[r] = "flock"
    /\ Free
    /\ flock' = r
    /\ Goto(r, FirstUnderLock)
    /\ UNCHANGED <<file, call, mem, guard, fi, window>>

LockFails(r) ==
    /\ Fails
    /\ pc[r] = "flock"
    /\ Goto(r, "idle")
    /\ UNCHANGED <<file, flock, call, mem, guard, fi, window>>

\* Fresh's os.Stat.  No file: the store is empty, loaded once and for all.
\* A file that looks like the one last loaded is not read again.
\* Mutant: the mtime is not compared.
UnchangedSize(r) ==
    /\ guard[r].loaded
    /\ guard[r].size = Size(doc)

Unchanged(r) ==
    /\ guard[r].loaded
    /\ guard[r].mtime = mtime
    /\ guard[r].size = Size(doc)

FreshStat(r) ==
    /\ pc[r] = "stat"
    /\ \/ /\ ~ Exists
          /\ mem' = IF guard[r].loaded THEN mem ELSE [mem EXCEPT ![r] = Empty]
          /\ guard' = [guard EXCEPT ![r].loaded = TRUE]
          /\ Goto(r, AfterFresh(r))
          /\ UNCHANGED fi
       \/ /\ Exists
          /\ Unchanged(r)
          /\ Goto(r, AfterFresh(r))
          /\ UNCHANGED <<mem, guard, fi>>
       \/ /\ Exists
          /\ ~ Unchanged(r)
          /\ fi' = [fi EXCEPT ![r] = Stat]
          /\ Goto(r, "read")
          /\ UNCHANGED <<mem, guard>>
    /\ UNCHANGED <<file, flock, call, window>>

\* Fresh's os.ReadFile and load.  The Guard remembers the stat taken BEFORE
\* the read, so a rewrite in between is noticed by the next Fresh.
Loaded(r) == [mtime |-> fi[r].mtime, size |-> fi[r].size, loaded |-> TRUE]

FreshRead(r) ==
    /\ pc[r] = "read"
    /\ mem' = [mem EXCEPT ![r] = doc]
    /\ guard' = [guard EXCEPT ![r] = Loaded(r)]
    /\ fi' = [fi EXCEPT ![r] = ZeroStat]
    /\ Goto(r, AfterFresh(r))
    /\ UNCHANGED <<file, flock, call, window>>

\* Fresh returned an error: a store that starts does not, a read is answered from
\* the map as it is, a write gives back its lock.
AfterFreshError(r) ==
    CASE call[r].op = "start" -> "down"
      [] call[r].op = "read" -> "answer"
      [] call[r].op = "write" -> "unlock"

FreshFails(r) ==
    /\ Fails
    /\ pc[r] \in {"stat", "read"}
    /\ fi' = [fi EXCEPT ![r] = ZeroStat]
    /\ Goto(r, AfterFreshError(r))
    /\ UNCHANGED <<file, flock, call, mem, guard, window>>

\* The read returns what the map says and drops the store mutex.
Answer(r) ==
    /\ pc[r] = "answer"
    /\ Goto(r, "idle")
    /\ UNCHANGED <<file, flock, call, mem, guard, fi, window>>

\* mutate reports whether it changed anything: removing what is not there does
\* not, and the file is left alone.
Mutate(r) ==
    /\ pc[r] = "mutate"
    /\ LET k == call[r].key
           v == call[r].val
       IN  IF v = NoVal /\ mem[r][k] = NoVal
           THEN /\ Goto(r, "unlock")
                /\ UNCHANGED mem
           ELSE /\ mem' = [mem EXCEPT ![r] = Put(mem[r], k, v)]
                /\ Goto(r, "replace")
    /\ UNCHANGED <<file, flock, call, guard, fi, window>>

\* replace: the temporary file, written under the lock and synced, takes the
\* name.  Its mtime is the clock's; on a fine-grained clock no other version
\* of the file has it.
\* The lock outlives the rename.  Mutant: it is dropped with the rename, and the
\* stat that follows is of whatever file is there by then.
DroppedByRename == Nobody
AfterRename == flock

Replace(r) ==
    /\ pc[r] = "replace"
    /\ IF FineMtime THEN now > mtime ELSE now > 0
    /\ doc' = mem[r]
    /\ mtime' = now
    /\ window' = [s \in Replicas |-> window[s] \cup {mem[r]}]
    /\ flock' = AfterRename
    /\ Goto(r, "record")
    /\ UNCHANGED <<now, call, mem, guard, fi>>

\* replace returned an error: the call fails, the map keeps the change.
\* Mutant: the early return forgets the lock.
ErrorKeepsLock == "idle"
AfterError == "unlock"

ReplaceFails(r) ==
    /\ Fails
    /\ pc[r] = "replace"
    /\ Goto(r, AfterError)
    /\ UNCHANGED <<file, flock, call, mem, guard, fi, window>>

\* Write's last stat: the next Fresh need not read back what this one wrote.
Record(r) ==
    /\ pc[r] = "record"
    /\ \/ guard' = [guard EXCEPT ![r] = LooksNow]
       \/ Fails /\ UNCHANGED guard
    /\ Goto(r, "unlock")
    /\ UNCHANGED <<file, flock, call, mem, fi, window>>

Unlock(r) ==
    /\ pc[r] = "unlock"
    /\ flock' = Nobody
    /\ Goto(r, "idle")
    /\ UNCHANGED <<file, call, mem, guard, fi, window>>

\* A replica dies at any moment; the kernel drops its flock with its
\* descriptors, and the map and the Guard die with the process.
Crash(r) ==
    /\ pc[r] # "down"
    /\ Goto(r, "down")
    /\ flock' = IF flock = r THEN Nobody ELSE flock
    /\ call' = [call EXCEPT ![r] = [op |-> "start"]]
    /\ mem' = [mem EXCEPT ![r] = Empty]
    /\ guard' = [guard EXCEPT ![r] = [mtime |-> 0, size |-> 0, loaded |-> FALSE]]
    /\ fi' = [fi EXCEPT ![r] = ZeroStat]
    /\ window' = [window EXCEPT ![r] = {}]
    /\ UNCHANGED file

Tick ==
    /\ now < MaxNow
    /\ now' = now + 1
    /\ UNCHANGED <<doc, mtime, flock, pc, call, mem, guard, fi, window>>

Step(r) ==
    \/ SelfRead(r) \/ Seen(r)
    \/ Lock(r) \/ LockFails(r) \/ FreshStat(r) \/ FreshRead(r) \/ FreshFails(r) \/ Answer(r)
    \/ Mutate(r) \/ Replace(r) \/ ReplaceFails(r) \/ Record(r) \/ Unlock(r)

Next ==
    \/ \E r \in Replicas :
          \/ Start(r) \/ Read(r) \/ Step(r) \/ Crash(r)
          \/ \E k \in Keys, v \in Vals \cup {NoVal} : Write(r, k, v)
    \/ Tick

Spec == Init /\ [][Next]_vars

\* The code that runs between two system calls goes on by itself, and so does
\* the clock.  Nothing makes callers call, replicas crash or come back.
FairSpec == Spec /\ WF_vars(Tick) /\ \A r \in Replicas : WF_vars(Step(r))

---------------------------------------------------------------------------
(* Properties.                                                             *)

TypeOK ==
    /\ now \in 0..MaxNow
    /\ doc \in Docs
    /\ mtime \in 0..MaxNow
    /\ flock \in Replicas \cup {Nobody}
    /\ pc \in [Replicas -> Labels]
    /\ call \in [Replicas -> Calls]
    /\ mem \in [Replicas -> Docs]
    /\ guard \in [Replicas -> [mtime : 0..MaxNow, size : Nat, loaded : BOOLEAN]]
    /\ fi \in [Replicas -> Stats]
    /\ window \in [Replicas -> SUBSET Docs]

\* "the version a replica rewrites is the version another replica just
\* committed, never an older one it happened to hold" (statefile.go:14-16):
\* what is about to be renamed over the file is the file as it is, with this
\* call's own change and nothing else.
BuildsOnCommitted ==
    \A r \in Replicas :
        pc[r] = "replace" => mem[r] = Put(doc, call[r].key, call[r].val)

\* A read returns a state of the file no older than the call ("a reader would
\* not see the other replica's writes" is the first bug Guard.Fresh closes,
\* statefile.go:9): what it answers is something the file held since it began.
ReadsFresh ==
    \A r \in Replicas : pc[r] = "answer" => mem[r] \in window[r]

\* From its lock to its unlock the file changes only by the holder's own hand,
\* whatever fails and however coarse the clock is (Guard.Write's whole
\* read-modify-write is one critical section, statefile.go:131-162).
HolderOnly ==
    [][\A r \in Replicas : flock = r /\ doc' # doc => pc[r] = "replace"]_vars

\* A replica that is idle and whose Guard thinks the file unchanged holds the
\* file's rows: skipping the reload is sound (Guard.Fresh's one-stat fast path,
\* statefile.go:85).
CacheSound ==
    \A r \in Replicas :
        pc[r] = "idle" /\ Exists /\ Unchanged(r) => mem[r] = doc

\* The lock is always given back: by the deferred unlock on every return of
\* Guard.Write, the failed ones included (statefile.go:135), or by the kernel.
LockReleased == \A r \in Replicas : flock = r ~> flock # r

\* The replicas together behave like one atomic map (StateMap): each rename of
\* the file is one call's change, so no change is lost and none resurrected.
Atomic == INSTANCE StateMap WITH doc <- doc, Keys <- Keys, Vals <- Vals, NoVal <- NoVal
AtomicMap == Atomic!Spec

=============================================================================
