-------------------------- MODULE StateFileProofs --------------------------
(***************************************************************************)
(* StateFile for any number of replicas, keys and values.                  *)
(*                                                                         *)
(* Types and the lock's exclusion hold whatever fails and however coarse   *)
(* the clock is.  That the replicas implement one atomic map needs the     *)
(* three conditions of Sound: distinct mtimes, no failing call, and a      *)
(* start that goes through the Guard; without any one of them TLC finds a  *)
(* lost update.                                                            *)
(***************************************************************************)
EXTENDS StateFile, FiniteSetTheorems, TLAPS

Sound == FineMtime /\ ~ Fails /\ ~ SelfLoad

(* Between flock and its release. *)
InLock(r) ==
    \/ pc[r] \in {"mutate", "replace", "record", "unlock"}
    \/ pc[r] \in {"stat", "read"} /\ call[r].op = "write"

LockInv == \A r \in Replicas : InLock(r) => flock = r

(* Which call each label belongs to. *)
CallInv ==
    \A r \in Replicas :
        /\ pc[r] \in {"flock", "mutate", "replace", "record", "unlock"}
              => call[r].op = "write"
        /\ pc[r] = "answer" => call[r].op = "read"

(* What each replica knows of the file's age, and what it holds if the file is *)
(* as old as it thinks.                                                        *)
ClockInv ==
    /\ mtime <= now
    /\ ~ Exists => doc = Empty
    /\ \A r \in Replicas :
          /\ guard[r].mtime <= mtime
          /\ pc[r] = "read" => fi[r].mtime <= mtime

CacheInv ==
    \A r \in Replicas :
        /\ pc[r] \notin {"self", "seen"}
        /\ pc[r] \notin {"replace", "record"}
           /\ guard[r].loaded /\ guard[r].mtime = mtime => mem[r] = doc
        /\ pc[r] \in {"mutate", "record"} => mem[r] = doc

WindowInv ==
    \A r \in Replicas : pc[r] # "down" => doc \in window[r]

LockIInv == TypeOK /\ LockInv /\ CallInv

IInv ==
    /\ LockIInv
    /\ ClockInv
    /\ CacheInv
    /\ WindowInv
    /\ BuildsOnCommitted
    /\ ReadsFresh

-----------------------------------------------------------------------------
(* A document has a size. *)
LEMMA SizeIsNat == \A d \in Docs : Size(d) \in Nat
<1> TAKE d \in Docs
<1>1. {k \in Keys : d[k] # NoVal} \in SUBSET Keys
  OBVIOUS
<1>2. IsFiniteSet({k \in Keys : d[k] # NoVal})
  BY <1>1, FS_Subset, ConstantsOK
<1> QED BY <1>2, FS_CardinalityType DEF Size

(* The contents of a missing file are a document. *)
LEMMA EmptyIsDoc == Empty \in Docs
BY DEF Empty, Docs

(* A row put or removed leaves a document. *)
LEMMA PutIsDoc ==
    ASSUME NEW d \in Docs, NEW k \in Keys, NEW v \in Vals \cup {NoVal}
    PROVE  Put(d, k, v) \in Docs
BY DEF Put, Docs

(* What a write asks for. *)
LEMMA WriteCall ==
    ASSUME TypeOK, NEW r \in Replicas, call[r].op = "write"
    PROVE  call[r].key \in Keys /\ call[r].val \in Vals \cup {NoVal}
BY DEF TypeOK, Calls

(* Fresh returns to a label of the call that made it. *)
LEMMA FreshReturns ==
    ASSUME TypeOK, NEW r \in Replicas
    PROVE  /\ AfterFresh(r) \in Labels
           /\ AfterFresh(r) = "answer" <=> call[r].op = "read"
           /\ AfterFresh(r) = "mutate" <=> call[r].op = "write"
           /\ AfterFresh(r) = "idle" <=> call[r].op = "start"
           /\ AfterFresh(r) \in {"answer", "mutate", "idle"}
BY DEF TypeOK, Calls, AfterFresh, Labels

(* So does an error of it. *)
LEMMA FreshErrors ==
    ASSUME TypeOK, NEW r \in Replicas
    PROVE  /\ AfterFreshError(r) \in Labels
           /\ AfterFreshError(r) = "answer" <=> call[r].op = "read"
           /\ AfterFreshError(r) = "unlock" <=> call[r].op = "write"
           /\ AfterFreshError(r) \in {"answer", "unlock", "down"}
BY DEF TypeOK, Calls, AfterFreshError, Labels

-----------------------------------------------------------------------------
(* The invariant of the locks holds at first. *)
LEMMA InitLocks == Init => LockIInv
<1> SUFFICES ASSUME Init PROVE LockIInv
  OBVIOUS
<1>1. TypeOK
  BY EmptyIsDoc, ConstantsOK DEF Init, TypeOK, Labels, Calls, Stats, ZeroStat
<1>2. LockInv /\ CallInv
  BY DEF Init, LockInv, CallInv, InLock
<1> QED BY <1>1, <1>2 DEF LockIInv

(* The invariant of the locks is inductive. *)
LEMMA NextLocks == LockIInv /\ [Next]_vars => LockIInv'
<1> SUFFICES ASSUME LockIInv, [Next]_vars PROVE LockIInv'
  OBVIOUS
<1> USE DEF LockIInv, file, Goto, Free, FirstUnderLock, AfterRename, AfterError
<1>0. Stat \in Stats /\ ZeroStat \in Stats /\ Size(doc) \in Nat
  BY SizeIsNat, ConstantsOK DEF TypeOK, Stat, Stats, ZeroStat
<1>a. LooksNow \in [mtime : 0..MaxNow, size : Nat, loaded : BOOLEAN]
  BY <1>0 DEF TypeOK, LooksNow
<1>1. CASE UNCHANGED vars
  BY <1>1 DEF vars, TypeOK, LockInv, CallInv, InLock
<1>2. CASE Tick
  <2>1. TypeOK'
    BY <1>2, ConstantsOK DEF Tick, TypeOK
  <2> QED BY <1>2, <2>1 DEF Tick, LockInv, CallInv, InLock
<1>3. ASSUME NEW r \in Replicas,
             \/ Start(r) \/ Read(r) \/ Step(r) \/ Crash(r)
             \/ \E k \in Keys, v \in Vals \cup {NoVal} : Write(r, k, v)
      PROVE  LockIInv'
  <2>1. CASE Start(r)
    <3>1. TypeOK'
      BY <2>1 DEF Start, TypeOK, Labels, Calls
    <3> QED BY <2>1, <3>1 DEF Start, LockInv, CallInv, InLock, TypeOK
  <2>2. CASE Read(r)
    <3>1. TypeOK'
      BY <2>2 DEF Read, TypeOK, Labels, Calls
    <3> QED BY <2>2, <3>1 DEF Read, LockInv, CallInv, InLock, TypeOK
  <2>3. CASE \E k \in Keys, v \in Vals \cup {NoVal} : Write(r, k, v)
    <3> PICK k \in Keys, v \in Vals \cup {NoVal} : Write(r, k, v)
      BY <2>3
    <3>1. TypeOK'
      BY DEF Write, TypeOK, Labels, Calls
    <3> QED BY <3>1 DEF Write, LockInv, CallInv, InLock, TypeOK
  <2>4. CASE Crash(r)
    <3>1. TypeOK'
      BY <2>4, <1>0, EmptyIsDoc, ConstantsOK DEF Crash, TypeOK, Labels, Calls
    <3> QED BY <2>4, <3>1 DEF Crash, LockInv, CallInv, InLock, TypeOK
  <2>5. CASE SelfRead(r)
    <3>1. TypeOK'
      BY <2>5 DEF SelfRead, TypeOK, Labels
    <3> QED BY <2>5, <3>1 DEF SelfRead, LockInv, CallInv, InLock, TypeOK
  <2>6. CASE Seen(r)
    <3>1. TypeOK'
      <4>1. \/ guard' = [guard EXCEPT ![r] = LooksNow]
            \/ guard' = [guard EXCEPT ![r].loaded = TRUE]
        BY <2>6 DEF Seen
      <4>2. guard' \in [Replicas -> [mtime : 0..MaxNow, size : Nat, loaded : BOOLEAN]]
        BY <1>a, <4>1 DEF TypeOK
      <4>3. /\ pc' = [pc EXCEPT ![r] = "idle"]
            /\ UNCHANGED <<now, doc, mtime, flock, call, mem, fi, window>>
        BY <2>6 DEF Seen
      <4> QED BY <4>2, <4>3 DEF TypeOK, Labels
    <3> QED BY <2>6, <3>1 DEF Seen, LockInv, CallInv, InLock, TypeOK
  <2>7. CASE Lock(r)
    <3>1. TypeOK'
      BY <2>7 DEF Lock, TypeOK, Labels
    <3> QED BY <2>7, <3>1, ConstantsOK DEF Lock, LockInv, CallInv, InLock, TypeOK
  <2>8. CASE FreshStat(r)
    <3>1. TypeOK'
      <4>1. /\ pc' \in [Replicas -> Labels]
            /\ mem' \in [Replicas -> Docs]
            /\ fi' \in [Replicas -> Stats]
        BY <2>8, <1>0, EmptyIsDoc, FreshReturns DEF FreshStat, TypeOK, Labels
      <4>2. guard' = guard \/ guard' = [guard EXCEPT ![r].loaded = TRUE]
        BY <2>8 DEF FreshStat
      <4>3. guard' \in [Replicas -> [mtime : 0..MaxNow, size : Nat, loaded : BOOLEAN]]
        BY <4>2 DEF TypeOK
      <4> QED BY <2>8, <4>1, <4>3 DEF FreshStat, TypeOK
    <3> QED BY <2>8, <3>1, FreshReturns DEF FreshStat, LockInv, CallInv, InLock, TypeOK
  <2>9. CASE FreshRead(r)
    <3>1. TypeOK'
      BY <2>9, <1>0, FreshReturns DEF FreshRead, TypeOK, Labels, Loaded, Stats
    <3> QED BY <2>9, <3>1, FreshReturns DEF FreshRead, LockInv, CallInv, InLock, TypeOK
  <2>10. CASE Answer(r)
    <3>1. TypeOK'
      BY <2>10 DEF Answer, TypeOK, Labels
    <3> QED BY <2>10, <3>1 DEF Answer, LockInv, CallInv, InLock, TypeOK
  <2>11. CASE Mutate(r)
    <3>1. TypeOK'
      <4>1. call[r].key \in Keys /\ call[r].val \in Vals \cup {NoVal}
        BY <2>11, WriteCall DEF Mutate, CallInv
      <4>2. Put(mem[r], call[r].key, call[r].val) \in Docs
        BY <4>1, PutIsDoc DEF TypeOK
      <4> QED BY <2>11, <4>2 DEF Mutate, TypeOK, Labels
    <3> QED BY <2>11, <3>1 DEF Mutate, LockInv, CallInv, InLock, TypeOK
  <2>12. CASE Replace(r)
    <3>1. TypeOK'
      BY <2>12 DEF Replace, TypeOK, Labels
    <3> QED BY <2>12, <3>1 DEF Replace, LockInv, CallInv, InLock, TypeOK
  <2>13. CASE ReplaceFails(r)
    <3>1. TypeOK'
      BY <2>13 DEF ReplaceFails, TypeOK, Labels
    <3> QED BY <2>13, <3>1 DEF ReplaceFails, LockInv, CallInv, InLock, TypeOK
  <2>14. CASE Record(r)
    <3>1. TypeOK'
      <4>1. guard' = guard \/ guard' = [guard EXCEPT ![r] = LooksNow]
        BY <2>14 DEF Record
      <4>2. guard' \in [Replicas -> [mtime : 0..MaxNow, size : Nat, loaded : BOOLEAN]]
        BY <1>a, <4>1 DEF TypeOK
      <4>3. /\ pc' = [pc EXCEPT ![r] = "unlock"]
            /\ UNCHANGED <<now, doc, mtime, flock, call, mem, fi, window>>
        BY <2>14 DEF Record
      <4> QED BY <4>2, <4>3 DEF TypeOK, Labels
    <3> QED BY <2>14, <3>1 DEF Record, LockInv, CallInv, InLock, TypeOK
  <2>15. CASE Unlock(r)
    <3>1. TypeOK'
      BY <2>15 DEF Unlock, TypeOK, Labels
    <3> QED BY <2>15, <3>1 DEF Unlock, LockInv, CallInv, InLock, TypeOK
  <2>16. CASE LockFails(r)
    <3>1. TypeOK'
      BY <2>16 DEF LockFails, TypeOK, Labels
    <3> QED BY <2>16, <3>1 DEF LockFails, LockInv, CallInv, InLock, TypeOK
  <2>17. CASE FreshFails(r)
    <3>1. TypeOK'
      BY <2>17, <1>0, FreshErrors DEF FreshFails, TypeOK
    <3> QED BY <2>17, <3>1, FreshErrors DEF FreshFails, LockInv, CallInv, InLock, TypeOK
  <2> QED
    BY <1>3, <2>1, <2>2, <2>3, <2>4, <2>5, <2>6, <2>7, <2>8, <2>9, <2>10,
       <2>11, <2>12, <2>13, <2>14, <2>15, <2>16, <2>17 DEF Step
<1> QED BY <1>1, <1>2, <1>3 DEF Next

-----------------------------------------------------------------------------
(* The four facts about the contents, one label at a time. *)

(* The invariant of the contents holds at first. *)
LEMMA InitSound == Init => IInv
<1> SUFFICES ASSUME Init PROVE IInv
  OBVIOUS
<1>1. LockIInv
  BY InitLocks
<1>2. ClockInv /\ CacheInv /\ WindowInv /\ BuildsOnCommitted /\ ReadsFresh
  BY ConstantsOK DEF Init, ClockInv, CacheInv, WindowInv, BuildsOnCommitted,
                     ReadsFresh, Exists, ZeroStat
<1> QED BY <1>1, <1>2 DEF IInv

Contents == ClockInv /\ CacheInv /\ WindowInv /\ BuildsOnCommitted /\ ReadsFresh

(* A step that only moves replica r, keeps the file, and grows no cache. *)
LEMMA FreshStatSound ==
    ASSUME IInv, Sound, NEW r \in Replicas, FreshStat(r)
    PROVE  Contents'
<1> USE DEF IInv, LockIInv, FreshStat, file, Goto
<1>1. pc' = [pc EXCEPT ![r] = pc'[r]] /\ pc'[r] \in {"answer", "mutate", "idle", "read"}
  BY FreshReturns DEF TypeOK
<1>2. \A s \in Replicas \ {r} :
         pc'[s] = pc[s] /\ mem'[s] = mem[s] /\ guard'[s] = guard[s] /\ fi'[s] = fi[s]
  BY DEF TypeOK
<1>3. pc'[r] # "read" => mem'[r] = doc
  BY FreshReturns DEF TypeOK, ClockInv, CacheInv, Unchanged, Exists
<1>4. /\ guard'[r].mtime = guard[r].mtime
      /\ pc'[r] = "read" => mem'[r] = mem[r] /\ guard'[r] = guard[r]
                            /\ fi'[r].mtime = mtime
  BY FreshReturns DEF TypeOK, Stat
<1>5. ClockInv'
  BY <1>1, <1>2, <1>4 DEF ClockInv, TypeOK, Exists
<1>6. CacheInv'
  BY <1>1, <1>2, <1>3, <1>4 DEF CacheInv, TypeOK
<1>7. WindowInv'
  BY <1>1, <1>2 DEF WindowInv
<1>8. BuildsOnCommitted'
  BY <1>1, <1>2 DEF BuildsOnCommitted
<1>9. ReadsFresh'
  BY <1>1, <1>2, <1>3 DEF ReadsFresh, WindowInv
<1> QED BY <1>5, <1>6, <1>7, <1>8, <1>9 DEF Contents

(* The rename publishes what the writer made of the newest contents. *)
LEMMA ReplaceSound ==
    ASSUME IInv, Sound, NEW r \in Replicas, Replace(r)
    PROVE  Contents'
<1> USE DEF IInv, LockIInv, Replace, Goto, AfterRename
<1>1. mtime' > mtime /\ mtime' = now /\ now \in Nat /\ mtime \in Nat
  BY DEF Sound, TypeOK
<1>2. \A s \in Replicas : guard[s].mtime \in Nat /\ guard[s].mtime < mtime'
  BY <1>1 DEF ClockInv, TypeOK
<1>3. \A s \in Replicas \ {r} : pc[s] \notin {"mutate", "replace", "record"}
  BY DEF LockInv, InLock
<1>4. ClockInv'
  BY <1>1, <1>2 DEF ClockInv, TypeOK, Exists, Stats
<1>5. CacheInv'
  BY <1>1, <1>2, <1>3 DEF CacheInv, TypeOK
<1>6. WindowInv'
  BY DEF WindowInv, TypeOK
<1>7. BuildsOnCommitted'
  BY <1>3 DEF BuildsOnCommitted, TypeOK
<1>8. ReadsFresh'
  BY DEF ReadsFresh, TypeOK
<1> QED BY <1>4, <1>5, <1>6, <1>7, <1>8 DEF Contents

(* The invariant of the contents is inductive. *)
LEMMA NextSound ==
    ASSUME IInv, Sound, [Next]_vars
    PROVE  IInv'
<1>0. LockIInv'
  BY NextLocks DEF IInv
<1> USE DEF IInv, LockIInv, file, Goto
<1> USE DEF ClockInv, CacheInv, WindowInv, BuildsOnCommitted, ReadsFresh, Exists
<1>1. CASE UNCHANGED vars
  <2>1. Contents'
    BY <1>1 DEF vars, Contents
  <2> QED BY <1>0, <2>1 DEF Contents
<1>2. CASE Tick
  <2>1. Contents'
    BY <1>2 DEF Tick, Contents, TypeOK
  <2> QED BY <1>0, <2>1 DEF Contents
<1>3. ASSUME NEW r \in Replicas,
             \/ Start(r) \/ Read(r) \/ Step(r) \/ Crash(r)
             \/ \E k \in Keys, v \in Vals \cup {NoVal} : Write(r, k, v)
      PROVE  Contents'
  <2> USE DEF Contents
  <2>1. CASE Start(r)
    BY <2>1 DEF Start, TypeOK, Sound
  <2>2. CASE Read(r)
    BY <2>2 DEF Read, TypeOK
  <2>3. CASE \E k \in Keys, v \in Vals \cup {NoVal} : Write(r, k, v)
    BY <2>3 DEF Write, TypeOK
  <2>4. CASE Crash(r)
    BY <2>4 DEF Crash, TypeOK, ZeroStat
  <2>5. CASE SelfRead(r) \/ Seen(r)
    BY <2>5 DEF SelfRead, Seen
  <2>6. CASE Lock(r)
    BY <2>6 DEF Lock, TypeOK, FirstUnderLock
  <2>7. CASE FreshStat(r)
    BY <2>7, <1>3, FreshStatSound
  <2>8. CASE FreshRead(r)
    BY <2>8, FreshReturns DEF FreshRead, Loaded, TypeOK, ZeroStat
  <2>9. CASE Answer(r)
    BY <2>9 DEF Answer, TypeOK
  <2>10. CASE Mutate(r)
    BY <2>10, WriteCall DEF Mutate, TypeOK, CallInv
  <2>11. CASE Replace(r)
    BY <2>11, <1>3, ReplaceSound
  <2>12. CASE ReplaceFails(r) \/ LockFails(r) \/ FreshFails(r)
    BY <2>12 DEF ReplaceFails, LockFails, FreshFails, Sound
  <2>13. CASE Record(r)
    BY <2>13 DEF Record, LooksNow, Sound, TypeOK
  <2>14. CASE Unlock(r)
    BY <2>14 DEF Unlock, TypeOK
  <2> QED
    BY <1>3, <2>1, <2>2, <2>3, <2>4, <2>5, <2>6, <2>7, <2>8, <2>9, <2>10,
       <2>11, <2>12, <2>13, <2>14 DEF Step
<1> QED BY <1>0, <1>1, <1>2, <1>3 DEF Next, Contents

-----------------------------------------------------------------------------
(* The state keeps its types under every combination of clock, failures and *)
(* starts (internal/statefile and the three stores over it).                *)
THEOREM TypeCorrect == Spec => []TypeOK
<1>1. LockIInv => TypeOK
  BY DEF LockIInv
<1> QED BY <1>1, InitLocks, NextLocks, PTL DEF Spec

(* Guard.Write is one critical section: while a replica holds the flock the   *)
(* file changes only at its own rename, failures and crashes of the others    *)
(* included.                                                                  *)
THEOREM HoldersFileOnly == Spec => HolderOnly
<1>1. LockIInv /\ [Next]_vars =>
         [\A r \in Replicas : flock = r /\ doc' # doc => pc[r] = "replace"]_vars
  <2> SUFFICES ASSUME LockIInv, [Next]_vars, NEW r \in Replicas,
                      flock = r, doc' # doc
               PROVE  pc[r] = "replace"
    OBVIOUS
  <2>1. PICK s \in Replicas : Replace(s)
    BY DEF Next, Step, vars, file, Tick, Start, Read, Write, Crash, SelfRead,
           Seen, Lock, LockFails, FreshStat, FreshRead, FreshFails, Answer, Mutate,
           ReplaceFails, Record, Unlock
  <2>2. flock = s
    BY <2>1 DEF Replace, LockIInv, LockInv, InLock
  <2> QED BY <2>1, <2>2 DEF Replace
<1> QED BY <1>1, InitLocks, NextLocks, PTL DEF Spec, HolderOnly

(* Where every rename shows in the file's time, no call fails and replicas *)
(* start as NewFileStore does (Sound), a replica whose guard has the       *)
(* file's time holds the file's rows, in every state.                      *)
THEOREM SoundIInv == ASSUME Sound PROVE Spec => []IInv
<1>1. IInv /\ [Next]_vars => IInv'
  BY NextSound
<1> QED BY <1>1, InitSound, PTL DEF Spec

(* With distinct mtimes, no failing call and starts through the Guard, what   *)
(* a replica renames over the file is the file with its own change            *)
(* (statefile.go:14-16).                                                      *)
THEOREM WritesBuildOnCommitted == ASSUME Sound PROVE Spec => []BuildsOnCommitted
<1>1. IInv => BuildsOnCommitted
  BY DEF IInv
<1> QED BY <1>1, SoundIInv, PTL

(* Under the same conditions a read answers with rows the file has held since *)
(* the call began (statefile.go:9, 12-13).                                    *)
THEOREM ReadsAreFresh == ASSUME Sound PROVE Spec => []ReadsFresh
<1>1. IInv => ReadsFresh
  BY DEF IInv
<1> QED BY <1>1, SoundIInv, PTL

(* Under the same conditions an unchanged mtime and size mean unchanged rows: *)
(* Fresh may skip the read (statefile.go:85).                                 *)
THEOREM CacheIsSound == ASSUME Sound PROVE Spec => []CacheSound
<1>1. IInv => CacheSound
  BY DEF IInv, CacheInv, CacheSound, Unchanged
<1> QED BY <1>1, SoundIInv, PTL

(* Under the same conditions the replicas, their memories and their locks     *)
(* implement one map changed one row at a time: no lost update, no row        *)
(* brought back.                                                              *)
THEOREM ImplementsMap == ASSUME Sound PROVE Spec => AtomicMap
<1>1. Init => Atomic!Init
  BY DEF Init, Atomic!Init, Empty
<1>2. IInv /\ [Next]_vars => [Atomic!Next]_doc
  <2> SUFFICES ASSUME IInv, [Next]_vars, doc' # doc PROVE Atomic!Next
    OBVIOUS
  <2>1. PICK s \in Replicas : Replace(s)
    BY DEF Next, Step, vars, file, Tick, Start, Read, Write, Crash, SelfRead,
           Seen, Lock, LockFails, FreshStat, FreshRead, FreshFails, Answer, Mutate,
           ReplaceFails, Record, Unlock
  <2>2. doc' = Put(doc, call[s].key, call[s].val)
    BY <2>1 DEF Replace, IInv, BuildsOnCommitted
  <2>3. call[s].key \in Keys /\ call[s].val \in Vals \cup {NoVal}
    BY <2>1, WriteCall DEF Replace, IInv, LockIInv, CallInv
  <2> QED BY <2>2, <2>3 DEF Atomic!Next, Atomic!Set, Put
<1> QED BY <1>1, <1>2, SoundIInv, PTL DEF Spec, AtomicMap, Atomic!Spec
=============================================================================
