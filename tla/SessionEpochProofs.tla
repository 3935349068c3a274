------------------------- MODULE SessionEpochProofs -------------------------
(***************************************************************************)
(* The properties of SessionEpoch for any number of replicas, users and    *)
(* requests and any length of time.                                        *)
(*                                                                         *)
(* That only a bump which could not read the file takes a time out of it   *)
(* follows from the lock alone.  That nobody serves a closed session needs *)
(* more: the times of the other users only grow, which is so because one   *)
(* user has one change under way at a time (~Overlap), and a cache that    *)
(* has the file's mtime has the file's times, which is so while no two     *)
(* versions of the file share an mtime (FineMtime).                        *)
(***************************************************************************)
EXTENDS SessionEpoch, TLAPS

(* What a request under way is about. *)
Working ==
    \A p \in Procs :
        /\ pc[p] \in ChangeLabels \cup {"login"} =>
              req[p].on \in Replicas /\ req[p].user \in Users
        /\ pc[p] \in {"stat", "load", "decide", "accepted"} =>
              req[p].on \in Replicas /\ req[p].cookie \in Cookies

(* statefile.Lock: one bump at a time is between its read and its unlock,  *)
(* and what it is about to write is the file with its user's time changed, *)
(* or that time alone when it could not read the file.                     *)
Locked ==
    \A p \in Procs :
        /\ pc[p] \in {"read", "rename", "cache", "unlock"} => flock = p
        /\ pc[p] = "rename" =>
              IF req[p].unread
              THEN FileFails /\ req[p].m = [Empty EXCEPT ![req[p].user] = req[p].at]
              ELSE req[p].m = [epochs EXCEPT ![req[p].user] = req[p].at]
        /\ pc[p] = "cache" => req[p].m = epochs

LockInv == TypeOK /\ Working /\ Locked

(* One user has one change under way. *)
Alone ==
    \A p, q \in Procs :
        /\ pc[p] \in ChangeLabels /\ pc[q] \in ChangeLabels
        /\ req[p].user = req[q].user
        => p = q

(* The times of the file: they are past, none that was not taken out is    *)
(* behind what was answered, and a change that has not written finds       *)
(* nothing later than its own.                                             *)
Growing ==
    /\ \A u \in Users : epochs[u] <= now
    /\ \A u \in Users \ forgot : closed[u] <= epochs[u]
    /\ \A p \in Procs :
          /\ pc[p] \in {"set", "now", "flock", "read", "rename"} => ~req[p].bumped
          /\ pc[p] \in {"flock", "read", "rename"} =>
                epochs[req[p].user] <= req[p].at /\ req[p].at <= now
          /\ pc[p] \in {"cache", "unlock", "reissue", "answer"} /\ req[p].bumped =>
                req[p].at <= epochs[req[p].user] \/ req[p].user \in forgot
          /\ pc[p] = "answer" =>
                req[p].cookie \in Cookies /\ epochs[req[p].user] <= req[p].cookie.iat

EpochInv == LockInv /\ Alone /\ Growing

(* What the replicas remember, and what a lookup goes by. *)
Remembered ==
    /\ mtime = 0 => \A u \in Users : epochs[u] = 0
    /\ \A r \in Replicas :
          /\ cached[r] <= mtime
          /\ cached[r] = mtime => cache[r] = epochs
          /\ \A u \in Users \ forgot : cache[r][u] <= epochs[u]

Excused(p) == req[p].stale \/ req[p].cookie.user \in forgot

Looking ==
    \A p \in Procs :
        /\ pc[p] \in {"stat", "load", "decide"} =>
              req[p].floor <= closed[req[p].cookie.user]
        /\ pc[p] = "load" => req[p].file <= mtime
        /\ pc[p] = "decide" =>
              \/ req[p].floor <= cache[req[p].on][req[p].cookie.user]
              \/ Excused(p)
        /\ pc[p] = "accepted" => req[p].floor <= req[p].cookie.iat \/ Excused(p)

CacheInv == EpochInv /\ Remembered /\ Looking

-----------------------------------------------------------------------------
(* Types of a request that works on nothing, of times and of cookies. *)
LEMMA IdleIsWork == Idle \in Work
BY ConstantsOK DEF Idle, Empty, Work, Times

(* Times are numbers. *)
LEMMA TimesAreNat == Times \subseteq Nat /\ 0 \in Times
BY ConstantsOK DEF Times

(* What a request is working on is changed one field at a time. *)
LEMMA WorkFields ==
    ASSUME NEW w \in Work
    PROVE  /\ \A t \in Times : [w EXCEPT !.at = t] \in Work /\ [w EXCEPT !.file = t] \in Work
           /\ \A m \in [Users -> Times] : [w EXCEPT !.m = m] \in Work
           /\ \A b \in BOOLEAN : [w EXCEPT !.bumped = b] \in Work /\ [w EXCEPT !.stale = b] \in Work
           /\ \A m \in [Users -> Times], b \in BOOLEAN : [w EXCEPT !.m = m, !.unread = b] \in Work
           /\ \A c \in Cookies : [w EXCEPT !.cookie = c] \in Work
BY DEF Work

(* What a request begins with. *)
LEMMA NewWork ==
    /\ \A r \in Replicas, u \in Users : [Idle EXCEPT !.on = r, !.user = u] \in Work
    /\ \A r \in Replicas, c \in Cookies, t \in Times :
          [Idle EXCEPT !.on = r, !.cookie = c, !.floor = t] \in Work
BY IdleIsWork DEF Work, Idle, Empty

(* Create signs a cookie for the request's user at the current time. *)
LEMMA CookieType ==
    ASSUME TypeOK, NEW p \in Procs, req[p].user \in Users
    PROVE  Cookie(p) \in Cookies
BY DEF TypeOK, Cookie, Cookies

(* The times that are compared are natural numbers. *)
LEMMA Numbers ==
    ASSUME TypeOK
    PROVE  /\ now \in Nat /\ mtime \in Nat
           /\ epochs \in [Users -> Nat] /\ closed \in [Users -> Nat]
           /\ cached \in [Replicas -> Nat] /\ cache \in [Replicas -> [Users -> Nat]]
           /\ \A p \in Procs : req[p].at \in Nat /\ req[p].floor \in Nat /\ req[p].file \in Nat
<1>1. /\ now \in Nat /\ mtime \in Nat
      /\ epochs \in [Users -> Nat] /\ closed \in [Users -> Nat]
      /\ cached \in [Replicas -> Nat] /\ cache \in [Replicas -> [Users -> Nat]]
  BY TimesAreNat DEF TypeOK
<1>2. \A p \in Procs : req[p].at \in Nat /\ req[p].floor \in Nat /\ req[p].file \in Nat
  BY TimesAreNat DEF TypeOK, Work
<1> QED BY <1>1, <1>2

(* What a bump makes of the file: its user's time is changed, and any other *)
(* time stays or is taken out by a bump that could not read it.             *)
LEMMA Renamed ==
    ASSUME LockInv, NEW p \in Procs, Rename(p)
    PROVE  /\ req[p].user \in Users /\ epochs'[req[p].user] = req[p].at
           /\ \A u \in Users \ {req[p].user} :
                 epochs'[u] = epochs[u] \/ (u \in forgot' /\ epochs'[u] = 0)
           /\ forgot \subseteq forgot'
<1> USE DEF LockInv
<1>1. pc[p] = "rename" /\ req[p].user \in Users /\ epochs' = req[p].m
  BY DEF Rename, Working, ChangeLabels
<1>2. CASE req[p].unread
  <2>1. epochs' = [Empty EXCEPT ![req[p].user] = req[p].at]
    BY <1>1, <1>2 DEF Locked
  <2>2. forgot' = forgot \cup {u \in Users \ {req[p].user} : epochs[u] # 0}
    BY <1>2 DEF Rename
  <2> QED BY <1>1, <2>1, <2>2 DEF Empty
<1>3. CASE ~req[p].unread
  <2>1. epochs' = [epochs EXCEPT ![req[p].user] = req[p].at] /\ forgot' = forgot
    BY <1>1, <1>3 DEF Locked, Rename
  <2> QED BY <1>1, <2>1 DEF TypeOK
<1> QED BY <1>2, <1>3

(* Nothing is under way when the replicas start. *)
LEMMA InitLockInv == Init => LockInv
<1> SUFFICES ASSUME Init PROVE LockInv
  OBVIOUS
<1> USE DEF Init, Empty
<1>1. TypeOK
  BY IdleIsWork, TimesAreNat, ConstantsOK DEF TypeOK, Times, Labels
<1>2. Working /\ Locked
  BY DEF Working, Locked, ChangeLabels
<1> QED BY <1>1, <1>2 DEF LockInv

(* Every step leaves one bump between its read and its unlock. *)
LEMMA LockStep == LockInv /\ [Next]_vars => LockInv'
<1> SUFFICES ASSUME LockInv, [Next]_vars PROVE LockInv'
  OBVIOUS
<1> USE DEF LockInv
<1>1. ASSUME NEW p \in Procs, NEW r \in Replicas, NEW u \in Users, Login(p, r, u)
      PROVE  TypeOK' /\ Working' /\ Locked'
  <2>1. TypeOK'
    BY <1>1, NewWork DEF Login, Goto, disk, caches, ghosts, TypeOK, Labels
  <2>2. Working'
    BY <1>1 DEF Login, Goto, disk, caches, ghosts, Working, ChangeLabels, TypeOK, Idle
  <2>3. Locked'
    BY <1>1 DEF Login, Goto, disk, caches, ghosts, Locked, TypeOK, Idle
  <2> QED BY <2>1, <2>2, <2>3
<1>2. ASSUME NEW p \in Procs, LoginCreate(p) PROVE TypeOK' /\ Working' /\ Locked'
  <2>1. TypeOK'
    BY <1>2, IdleIsWork, CookieType DEF LoginCreate, Finish, Goto, disk, caches, ghosts,
       TypeOK, Labels, Working, ChangeLabels
  <2>2. Working'
    BY <1>2 DEF LoginCreate, Finish, Goto, disk, caches, ghosts, Working, ChangeLabels, TypeOK, Idle
  <2>3. Locked'
    BY <1>2 DEF LoginCreate, Finish, Goto, disk, caches, ghosts, Locked, TypeOK, Idle
  <2> QED BY <2>1, <2>2, <2>3
<1>3. ASSUME NEW p \in Procs, NEW r \in Replicas, NEW u \in Users, Change(p, r, u)
      PROVE  TypeOK' /\ Working' /\ Locked'
  <2>1. TypeOK'
    BY <1>3, NewWork DEF Change, Goto, disk, caches, ghosts, TypeOK, Labels
  <2>2. Working'
    BY <1>3 DEF Change, Goto, disk, caches, ghosts, Working, ChangeLabels, TypeOK, Idle
  <2>3. Locked'
    BY <1>3 DEF Change, Goto, disk, caches, ghosts, Locked, TypeOK, Idle
  <2> QED BY <2>1, <2>2, <2>3
<1>4. ASSUME NEW p \in Procs, Set(p) PROVE TypeOK' /\ Working' /\ Locked'
  <2>1. TypeOK'
    <3>1. changes' \in [Users -> Nat]
      BY <1>4 DEF Set, TypeOK
    <3>2. req' \in [Procs -> Work]
      BY <1>4, IdleIsWork DEF Set, Finish, TypeOK
    <3> QED BY <1>4, <3>1, <3>2 DEF Set, Finish, Goto, disk, caches, ghosts, TypeOK, Labels
  <2>2. Working'
    BY <1>4 DEF Set, Finish, Goto, disk, caches, ghosts, Working, ChangeLabels, TypeOK, Idle
  <2>3. Locked'
    BY <1>4 DEF Set, Finish, Goto, disk, caches, ghosts, Locked, TypeOK, Idle
  <2> QED BY <2>1, <2>2, <2>3
<1>5. ASSUME NEW p \in Procs, Now(p) PROVE TypeOK' /\ Working' /\ Locked'
  <2>1. TypeOK'
    BY <1>5, WorkFields DEF Now, Goto, disk, caches, ghosts, TypeOK, Labels
  <2>2. Working'
    BY <1>5 DEF Now, Goto, disk, caches, ghosts, Working, ChangeLabels, TypeOK, Idle
  <2>3. Locked'
    BY <1>5 DEF Now, Goto, disk, caches, ghosts, Locked, TypeOK, Idle
  <2> QED BY <2>1, <2>2, <2>3
<1>6. ASSUME NEW p \in Procs, Lock(p) PROVE TypeOK' /\ Working' /\ Locked'
  <2>1. TypeOK'
    BY <1>6 DEF Lock, Free, Goto, disk, caches, ghosts, TypeOK, Labels
  <2>2. Working'
    BY <1>6 DEF Lock, Free, Goto, disk, caches, ghosts, Working, ChangeLabels, TypeOK, Idle
  <2>3. Locked'
    <3>1. \A q \in Procs : pc[q] \notin {"read", "rename", "cache", "unlock"}
      BY <1>6, ConstantsOK DEF Lock, Free, Locked
    <3> QED BY <1>6, <3>1 DEF Lock, Locked, Goto, TypeOK
  <2> QED BY <2>1, <2>2, <2>3
<1>7. ASSUME NEW p \in Procs, ReadMap(p) PROVE TypeOK' /\ Working' /\ Locked'
  <2>1. TypeOK'
    <3>1. req[p] \in Work /\ req[p].at \in Times
      BY DEF TypeOK, Work
    <3>2. PICK unread \in {FALSE, FileFails} :
             req' = [req EXCEPT ![p] = [req[p] EXCEPT
                       !.m = [(IF unread THEN Empty ELSE epochs) EXCEPT ![req[p].user] = req[p].at],
                       !.unread = unread]]
      BY <1>7 DEF ReadMap
    <3>3. unread \in BOOLEAN
      BY ConstantsOK
    <3>4. [(IF unread THEN Empty ELSE epochs) EXCEPT ![req[p].user] = req[p].at] \in [Users -> Times]
      BY <3>1, TimesAreNat DEF TypeOK, Empty
    <3>5. req' \in [Procs -> Work]
      BY <3>1, <3>2, <3>3, <3>4, WorkFields DEF TypeOK
    <3> QED BY <1>7, <3>5 DEF ReadMap, Goto, disk, caches, ghosts, TypeOK, Labels
  <2>2. Working'
    BY <1>7 DEF ReadMap, Goto, disk, caches, ghosts, Working, ChangeLabels, TypeOK, Idle
  <2>3. Locked'
    <3>1. pc' = [pc EXCEPT ![p] = "rename"] /\ flock = p
      BY <1>7 DEF ReadMap, Goto, Locked
    <3>2. \A q \in Procs \ {p} : pc'[q] = pc[q] /\ req'[q] = req[q]
      BY <1>7, <3>1 DEF ReadMap, TypeOK
    <3>3. PICK unread \in {FALSE, FileFails} :
             req' = [req EXCEPT ![p] = [req[p] EXCEPT
                       !.m = [(IF unread THEN Empty ELSE epochs) EXCEPT ![req[p].user] = req[p].at],
                       !.unread = unread]]
      BY <1>7 DEF ReadMap
    <3>4. /\ pc'[p] = "rename" /\ req'[p].user = req[p].user /\ req'[p].at = req[p].at
          /\ req'[p].unread = unread
          /\ req'[p].m = [(IF unread THEN Empty ELSE epochs) EXCEPT ![req[p].user] = req[p].at]
      BY <3>1, <3>3 DEF TypeOK, Work
    <3>5. IF req'[p].unread
          THEN FileFails /\ req'[p].m = [Empty EXCEPT ![req'[p].user] = req'[p].at]
          ELSE req'[p].m = [epochs EXCEPT ![req'[p].user] = req'[p].at]
      BY <3>4, ConstantsOK
    <3>6. epochs' = epochs /\ flock' = flock
      BY <1>7 DEF ReadMap, disk
    <3> QED BY <3>1, <3>2, <3>4, <3>5, <3>6 DEF Locked
  <2> QED BY <2>1, <2>2, <2>3
<1>8. ASSUME NEW p \in Procs, Rename(p) PROVE TypeOK' /\ Working' /\ Locked'
  <2>1. TypeOK'
    <3>1. req[p] \in Work /\ req[p].m \in [Users -> Times]
      BY DEF TypeOK, Work
    <3>2. req' \in [Procs -> Work]
      BY <1>8, <3>1, WorkFields DEF Rename, TypeOK
    <3>3. forgot' \subseteq Users
      BY <1>8 DEF Rename, TypeOK
    <3> QED BY <1>8, <3>1, <3>2, <3>3 DEF Rename, Goto, disk, caches, ghosts, TypeOK, Labels
  <2>2. Working'
    BY <1>8 DEF Rename, Goto, disk, caches, ghosts, Working, ChangeLabels, TypeOK, Idle
  <2>3. Locked'
    <3>1. pc' = [pc EXCEPT ![p] = "cache"] /\ flock = p
      BY <1>8 DEF Rename, Goto, Locked
    <3>2. \A q \in Procs \ {p} : pc'[q] = pc[q] /\ req'[q] = req[q]
      BY <1>8, <3>1 DEF Rename, TypeOK
    <3>3. pc'[p] = "cache" /\ req'[p].m = req[p].m
      BY <1>8, <3>1 DEF Rename, TypeOK, Work
    <3>4. \A q \in Procs \ {p} : pc[q] \notin {"read", "rename", "cache", "unlock"}
      BY <3>1 DEF Locked
    <3> QED BY <1>8, <3>1, <3>2, <3>3, <3>4 DEF Locked, Rename
  <2> QED BY <2>1, <2>2, <2>3
<1>9. ASSUME NEW p \in Procs, UpdateCache(p) PROVE TypeOK' /\ Working' /\ Locked'
  <2>1. TypeOK'
    <3>1. req[p].m \in [Users -> Times]
      BY DEF TypeOK, Work
    <3>2. cache' \in [Replicas -> [Users -> Times]]
      BY <1>9, <3>1 DEF UpdateCache, TypeOK
    <3> QED BY <1>9, <3>1, <3>2 DEF UpdateCache, Goto, disk, caches, ghosts, TypeOK, Labels
  <2>2. Working'
    BY <1>9 DEF UpdateCache, Goto, disk, caches, ghosts, Working, ChangeLabels, TypeOK, Idle
  <2>3. Locked'
    BY <1>9 DEF UpdateCache, Goto, disk, caches, ghosts, Locked, TypeOK, Idle
  <2> QED BY <2>1, <2>2, <2>3
<1>10. ASSUME NEW p \in Procs, Unlock(p) PROVE TypeOK' /\ Working' /\ Locked'
  <2>1. TypeOK'
    BY <1>10 DEF Unlock, Goto, disk, caches, ghosts, TypeOK, Labels
  <2>2. Working'
    BY <1>10 DEF Unlock, Goto, disk, caches, ghosts, Working, ChangeLabels, TypeOK, Idle
  <2>3. Locked'
    BY <1>10 DEF Unlock, Goto, disk, caches, ghosts, Locked, TypeOK, Idle
  <2> QED BY <2>1, <2>2, <2>3
<1>11. ASSUME NEW p \in Procs, BumpError(p) PROVE TypeOK' /\ Working' /\ Locked'
  <2>1. TypeOK'
    BY <1>11 DEF BumpError, Goto, disk, caches, ghosts, TypeOK, Labels
  <2>2. Working'
    BY <1>11 DEF BumpError, Goto, disk, caches, ghosts, Working, ChangeLabels, TypeOK, Idle
  <2>3. Locked'
    BY <1>11 DEF BumpError, Goto, disk, caches, ghosts, Locked, TypeOK, Idle
  <2> QED BY <2>1, <2>2, <2>3
<1>12. ASSUME NEW p \in Procs, Reissue(p) PROVE TypeOK' /\ Working' /\ Locked'
  <2>1. TypeOK'
    BY <1>12, WorkFields, CookieType
       DEF Reissue, Goto, disk, caches, ghosts, TypeOK, Labels, Working, ChangeLabels
  <2>2. Working'
    BY <1>12 DEF Reissue, Goto, disk, caches, ghosts, Working, ChangeLabels, TypeOK, Idle
  <2>3. Locked'
    BY <1>12 DEF Reissue, Goto, disk, caches, ghosts, Locked, TypeOK, Idle
  <2> QED BY <2>1, <2>2, <2>3
<1>13. ASSUME NEW p \in Procs, Answer(p) PROVE TypeOK' /\ Working' /\ Locked'
  <2>1. TypeOK'
    <3>1. req[p].at \in Times
      BY DEF TypeOK, Work
    <3>2. closed' \in [Users -> Times]
      BY <1>13, <3>1 DEF Answer, TypeOK
    <3>3. req' \in [Procs -> Work]
      BY <1>13, IdleIsWork DEF Answer, Finish, TypeOK
    <3> QED BY <1>13, <3>1, <3>2, <3>3 DEF Answer, Finish, Goto, disk, caches, ghosts, TypeOK, Labels
  <2>2. Working'
    BY <1>13 DEF Answer, Finish, Goto, disk, caches, ghosts, Working, ChangeLabels, TypeOK, Idle
  <2>3. Locked'
    BY <1>13 DEF Answer, Finish, Goto, disk, caches, ghosts, Locked, TypeOK, Idle
  <2> QED BY <2>1, <2>2, <2>3
<1>14. ASSUME NEW p \in Procs, NEW r \in Replicas, NEW c \in issued, Lookup(p, r, c)
       PROVE  TypeOK' /\ Working' /\ Locked'
  <2>1. TypeOK'
    <3>1. c \in Cookies /\ closed[c.user] \in Times
      BY DEF TypeOK, Cookies
    <3>2. req' \in [Procs -> Work]
      BY <1>14, <3>1, NewWork DEF Lookup, TypeOK
    <3> QED BY <1>14, <3>1, <3>2 DEF Lookup, Goto, disk, caches, ghosts, TypeOK, Labels
  <2>2. Working'
    BY <1>14 DEF Lookup, Goto, disk, caches, ghosts, Working, ChangeLabels, TypeOK, Idle
  <2>3. Locked'
    BY <1>14 DEF Lookup, Goto, disk, caches, ghosts, Locked, TypeOK, Idle
  <2> QED BY <2>1, <2>2, <2>3
<1>15. ASSUME NEW p \in Procs, LookupStat(p) PROVE TypeOK' /\ Working' /\ Locked'
  <2>1. TypeOK'
    <3>1. mtime \in Times /\ mu' \in [Replicas -> Procs \cup {None}]
      BY <1>15 DEF LookupStat, TypeOK
    <3>2. req[p] \in Work /\ [req[p] EXCEPT !.file = mtime] \in Work
      BY <3>1, WorkFields DEF TypeOK
    <3>3. req' = req \/ req' = [req EXCEPT ![p] = [req[p] EXCEPT !.file = mtime]]
      BY <1>15 DEF LookupStat
    <3>4. req' \in [Procs -> Work]
      BY <3>2, <3>3 DEF TypeOK
    <3> QED BY <1>15, <3>1, <3>2, <3>3, <3>4 DEF LookupStat, Goto, disk, caches, ghosts, TypeOK, Labels
  <2>2. Working'
    <3>1. req' = req \/ req' = [req EXCEPT ![p] = [req[p] EXCEPT !.file = mtime]]
      BY <1>15 DEF LookupStat
    <3>2. \A q \in Procs : req[q] \in Work
      BY DEF TypeOK
    <3>3. \A q \in Procs : req'[q].on = req[q].on /\ req'[q].user = req[q].user
                             /\ req'[q].cookie = req[q].cookie
      BY <3>1, <3>2 DEF TypeOK, Work
    <3> QED BY <1>15, <3>3 DEF LookupStat, Goto, Working, ChangeLabels, TypeOK
  <2>3. Locked'
    BY <1>15 DEF LookupStat, Goto, disk, caches, ghosts, Locked, TypeOK, Idle
  <2> QED BY <2>1, <2>2, <2>3
<1>16. ASSUME NEW p \in Procs, LookupLoad(p) PROVE TypeOK' /\ Working' /\ Locked'
  <2>1. TypeOK'
    <3>1. req[p].file \in Times
      BY DEF TypeOK, Work
    <3>2. cached' \in [Replicas -> Times]
      BY <1>16, <3>1 DEF LookupLoad, TypeOK
    <3>3. cache' \in [Replicas -> [Users -> Times]]
      BY <1>16 DEF LookupLoad, TypeOK
    <3> QED BY <1>16, <3>1, <3>2, <3>3 DEF LookupLoad, Goto, disk, caches, ghosts, TypeOK, Labels
  <2>2. Working'
    BY <1>16 DEF LookupLoad, Goto, disk, caches, ghosts, Working, ChangeLabels, TypeOK, Idle
  <2>3. Locked'
    BY <1>16 DEF LookupLoad, Goto, disk, caches, ghosts, Locked, TypeOK, Idle
  <2> QED BY <2>1, <2>2, <2>3
<1>17. ASSUME NEW p \in Procs, LookupDecide(p) PROVE TypeOK' /\ Working' /\ Locked'
  <2>1. TypeOK'
    BY <1>17, IdleIsWork DEF LookupDecide, Finish, Goto, disk, caches, ghosts, TypeOK, Labels,
       Working, ChangeLabels
  <2>2. Working'
    BY <1>17 DEF LookupDecide, Finish, Goto, disk, caches, ghosts, Working, ChangeLabels, TypeOK, Idle
  <2>3. Locked'
    BY <1>17 DEF LookupDecide, Finish, Goto, disk, caches, ghosts, Locked, TypeOK, Idle
  <2> QED BY <2>1, <2>2, <2>3
<1>18. ASSUME NEW p \in Procs, Served(p) PROVE TypeOK' /\ Working' /\ Locked'
  <2>1. TypeOK'
    BY <1>18, IdleIsWork DEF Served, Finish, Goto, disk, caches, ghosts, TypeOK, Labels
  <2>2. Working'
    BY <1>18 DEF Served, Finish, Goto, disk, caches, ghosts, Working, ChangeLabels, TypeOK, Idle
  <2>3. Locked'
    BY <1>18 DEF Served, Finish, Goto, disk, caches, ghosts, Locked, TypeOK, Idle
  <2> QED BY <2>1, <2>2, <2>3
<1>19. ASSUME NEW r \in Replicas, Crash(r) PROVE TypeOK' /\ Working' /\ Locked'
  <2>1. TypeOK'
    BY <1>19, IdleIsWork, TimesAreNat DEF Crash, disk, caches, ghosts, TypeOK, Empty, Labels, Times
  <2>2. Working'
    BY <1>19 DEF Crash, disk, caches, ghosts, Working, ChangeLabels, TypeOK, Idle
  <2>3. Locked'
    BY <1>19 DEF Crash, disk, caches, ghosts, Locked, TypeOK, Idle
  <2> QED BY <2>1, <2>2, <2>3
<1>20. CASE Tick
  <2>1. TypeOK'
    BY <1>20, ConstantsOK DEF Tick, disk, caches, ghosts, TypeOK, Labels, Times
  <2>2. Working'
    BY <1>20 DEF Tick, disk, caches, ghosts, Working, ChangeLabels, TypeOK, Idle
  <2>3. Locked'
    BY <1>20 DEF Tick, disk, caches, ghosts, Locked, TypeOK, Idle
  <2> QED BY <2>1, <2>2, <2>3
<1>21. ASSUME NEW p \in Procs, LookupStatFails(p) PROVE TypeOK' /\ Working' /\ Locked'
  <2>1. TypeOK'
    <3>1. [req[p] EXCEPT !.stale = ~Current(req[p].on)] \in Work
      BY WorkFields DEF TypeOK, Current
    <3>2. req' \in [Procs -> Work]
      BY <1>21, <3>1 DEF LookupStatFails, TypeOK
    <3> QED BY <1>21, <3>2 DEF LookupStatFails, Goto, disk, caches, ghosts, TypeOK, Labels
  <2>2. Working'
    BY <1>21 DEF LookupStatFails, Goto, disk, caches, ghosts, Working, ChangeLabels, TypeOK, Work
  <2>3. Locked'
    BY <1>21 DEF LookupStatFails, Goto, disk, caches, ghosts, Locked, TypeOK, Work
  <2> QED BY <2>1, <2>2, <2>3
<1>22. ASSUME NEW p \in Procs, LookupLoadFails(p) PROVE TypeOK' /\ Working' /\ Locked'
  <2>1. TypeOK'
    <3>1. [req[p] EXCEPT !.stale = TRUE] \in Work
      BY WorkFields DEF TypeOK, Current
    <3>2. req' \in [Procs -> Work]
      BY <1>22, <3>1 DEF LookupLoadFails, TypeOK
    <3> QED BY <1>22, <3>2 DEF LookupLoadFails, Goto, disk, caches, ghosts, TypeOK, Labels
  <2>2. Working'
    BY <1>22 DEF LookupLoadFails, Goto, disk, caches, ghosts, Working, ChangeLabels, TypeOK, Work
  <2>3. Locked'
    BY <1>22 DEF LookupLoadFails, Goto, disk, caches, ghosts, Locked, TypeOK, Work
  <2> QED BY <2>1, <2>2, <2>3
<1>23. CASE UNCHANGED vars
  BY <1>23 DEF vars, disk, caches, ghosts, TypeOK, Working, Locked, Cookie
<1> QED BY <1>1, <1>2, <1>3, <1>4, <1>5, <1>6, <1>7, <1>8, <1>9, <1>10, <1>11, <1>12,
           <1>13, <1>14, <1>15, <1>16, <1>17, <1>18, <1>19, <1>20, <1>21, <1>22,
           <1>23 DEF Next

(* With one change of a user at a time, the times of the file only grow:   *)
(* Rename finds no later time of its user, for no other bump of it came in. *)
LEMMA EpochStep ==
    ASSUME ~Overlap, EpochInv, LockInv', [Next]_vars
    PROVE  EpochInv'
<1> USE DEF EpochInv, LockInv
<1>1. ASSUME NEW p \in Procs, NEW r \in Replicas, NEW u \in Users, Login(p, r, u)
      PROVE  Alone' /\ Growing'
  <2>1. Alone'
    BY <1>1 DEF Login, Goto, disk, caches, ghosts, TypeOK, Idle, Alone, ChangeLabels
  <2>2. Growing'
    BY <1>1, TimesAreNat DEF Login, Goto, disk, caches, ghosts, TypeOK, Idle, Growing
  <2> QED BY <2>1, <2>2
<1>2. ASSUME NEW p \in Procs, LoginCreate(p) PROVE Alone' /\ Growing'
  <2>1. Alone'
    BY <1>2 DEF LoginCreate, Finish, Goto, disk, caches, ghosts, TypeOK, Idle, Alone, ChangeLabels
  <2>2. Growing'
    BY <1>2, TimesAreNat DEF LoginCreate, Finish, Goto, disk, caches, ghosts, TypeOK, Idle, Growing
  <2> QED BY <2>1, <2>2
<1>3. ASSUME NEW p \in Procs, NEW r \in Replicas, NEW u \in Users, Change(p, r, u)
      PROVE  Alone' /\ Growing'
  <2>1. Alone'
    BY <1>3 DEF Change, Goto, disk, caches, ghosts, TypeOK, Idle, Alone, ChangeLabels, Changing
  <2>2. Growing'
    BY <1>3, TimesAreNat DEF Change, Goto, disk, caches, ghosts, TypeOK, Idle, Growing
  <2> QED BY <2>1, <2>2
<1>4. ASSUME NEW p \in Procs, Set(p) PROVE Alone' /\ Growing'
  <2>1. Alone'
    BY <1>4 DEF Set, Finish, Goto, disk, caches, ghosts, TypeOK, Idle, Alone, ChangeLabels
  <2>2. Growing'
    BY <1>4, TimesAreNat DEF Set, Finish, Goto, disk, caches, ghosts, TypeOK, Idle, Growing
  <2> QED BY <2>1, <2>2
<1>5. ASSUME NEW p \in Procs, Now(p) PROVE Alone' /\ Growing'
  <2>1. Alone'
    BY <1>5 DEF Now, Goto, disk, caches, ghosts, TypeOK, Idle, Alone, ChangeLabels
  <2>2. Growing'
    <3>1. pc' = [pc EXCEPT ![p] = "flock"]
      BY <1>5 DEF Now, Goto
    <3>2. \A q \in Procs \ {p} : pc'[q] = pc[q] /\ req'[q] = req[q]
      BY <1>5, <3>1 DEF Now, TypeOK
    <3>3. pc[p] = "now" /\ pc'[p] = "flock" /\ req'[p].at = now /\ req'[p].user = req[p].user
             /\ req'[p].bumped = req[p].bumped
      BY <1>5, <3>1 DEF Now, TypeOK, Work
    <3>4. req[p].user \in Users /\ now \in Nat
      BY <3>3, TimesAreNat DEF Working, ChangeLabels, TypeOK
    <3> QED BY <1>5, <3>1, <3>2, <3>3, <3>4 DEF Now, Growing, disk, ghosts
  <2> QED BY <2>1, <2>2
<1>6. ASSUME NEW p \in Procs, Lock(p) PROVE Alone' /\ Growing'
  <2>1. Alone'
    BY <1>6 DEF Lock, Free, Goto, disk, caches, ghosts, TypeOK, Idle, Alone, ChangeLabels
  <2>2. Growing'
    BY <1>6, TimesAreNat DEF Lock, Free, Goto, disk, caches, ghosts, TypeOK, Idle, Growing
  <2> QED BY <2>1, <2>2
<1>7. ASSUME NEW p \in Procs, ReadMap(p) PROVE Alone' /\ Growing'
  <2>1. Alone'
    BY <1>7 DEF ReadMap, Goto, disk, caches, ghosts, TypeOK, Idle, Alone, ChangeLabels
  <2>2. Growing'
    BY <1>7, TimesAreNat DEF ReadMap, Goto, disk, caches, ghosts, TypeOK, Idle, Growing
  <2> QED BY <2>1, <2>2
<1>8. ASSUME NEW p \in Procs, Rename(p) PROVE Alone' /\ Growing'
  <2>1. Alone'
    BY <1>8 DEF Rename, Goto, disk, caches, ghosts, TypeOK, Idle, Alone, ChangeLabels
  <2>2. Growing'
    <3>1. pc' = [pc EXCEPT ![p] = "cache"]
      BY <1>8 DEF Rename, Goto
    <3>2. \A q \in Procs \ {p} : pc'[q] = pc[q] /\ req'[q] = req[q]
      BY <1>8, <3>1 DEF Rename, TypeOK
    <3>3. pc[p] = "rename" /\ pc'[p] = "cache" /\ req'[p].at = req[p].at /\ req'[p].user = req[p].user
      BY <1>8, <3>1 DEF Rename, TypeOK, Work
    <3>4. /\ req[p].user \in Users /\ epochs'[req[p].user] = req[p].at
          /\ \A u \in Users \ {req[p].user} :
                epochs'[u] = epochs[u] \/ (u \in forgot' /\ epochs'[u] = 0)
          /\ forgot \subseteq forgot'
      BY <1>8, Renamed
    <3>5. \A q \in Procs \ {p} : pc[q] \in ChangeLabels => req[q].user # req[p].user
      BY <3>3 DEF Alone, ChangeLabels
    <3>6. /\ now \in Nat /\ epochs \in [Users -> Nat] /\ closed \in [Users -> Nat] /\ \A q \in Procs : req[q].at \in Nat
      BY TimesAreNat DEF TypeOK, Work
    <3>7. epochs[req[p].user] <= req[p].at /\ req[p].at <= now
      BY <3>3 DEF Growing
    <3>8. /\ \A u \in Users : epochs'[u] <= now'
          /\ \A u \in Users \ forgot' : closed'[u] <= epochs'[u]
      BY <1>8, <3>4, <3>6, <3>7 DEF Rename, Growing
    <3>9. \A q \in Procs \ {p} : pc[q] \in ChangeLabels =>
             \/ epochs'[req[q].user] = epochs[req[q].user]
             \/ req[q].user \in forgot' /\ epochs'[req[q].user] = 0
      BY <3>4, <3>5 DEF Working
    <3>10. epochs'[req'[p].user] = req'[p].at /\ now' = now
      BY <1>8, <3>3, <3>4 DEF Rename
    <3>11. \A q \in Procs \ {p} : pc[q] \in ChangeLabels =>
             /\ req[q].user \in Users /\ epochs[req[q].user] \in Nat
             /\ epochs'[req[q].user] <= epochs[req[q].user]
             /\ epochs'[req[q].user] \in Nat
      BY <3>6, <3>9 DEF Working
    <3>12. \A q \in Procs : req[q].cookie \in Cookies => req[q].cookie.iat \in Nat
      BY TimesAreNat DEF Cookies
    <3>13. ASSUME NEW q \in Procs \ {p}
           PROVE  /\ pc[q] \in {"set", "now", "flock", "read", "rename"} => ~req[q].bumped
                  /\ pc[q] \in {"flock", "read", "rename"} =>
                        epochs'[req[q].user] <= req[q].at /\ req[q].at <= now
                  /\ pc[q] \in {"cache", "unlock", "reissue", "answer"} /\ req[q].bumped =>
                        req[q].at <= epochs'[req[q].user] \/ req[q].user \in forgot'
                  /\ pc[q] = "answer" =>
                        req[q].cookie \in Cookies /\ epochs'[req[q].user] <= req[q].cookie.iat
      <4>1. pc[q] \in {"set", "now", "flock", "read", "rename"} => ~req[q].bumped
        BY DEF Growing
      <4>2. pc[q] \in {"flock", "read", "rename"} =>
               epochs'[req[q].user] <= req[q].at /\ req[q].at <= now
        BY <3>6, <3>11 DEF Growing, ChangeLabels
      <4>3. pc[q] \in {"cache", "unlock", "reissue", "answer"} /\ req[q].bumped =>
               req[q].at <= epochs'[req[q].user] \/ req[q].user \in forgot'
        BY <3>4, <3>9 DEF Growing, ChangeLabels
      <4>4. pc[q] = "answer" =>
               req[q].cookie \in Cookies /\ epochs'[req[q].user] <= req[q].cookie.iat
        BY <3>11, <3>12 DEF Growing, ChangeLabels
      <4> QED BY <4>1, <4>2, <4>3, <4>4
    <3>14. req'[p].at <= epochs'[req'[p].user]
      BY <3>3, <3>6, <3>10
    <3> QED BY <3>2, <3>3, <3>8, <3>10, <3>13, <3>14 DEF Growing
  <2> QED BY <2>1, <2>2
<1>9. ASSUME NEW p \in Procs, UpdateCache(p) PROVE Alone' /\ Growing'
  <2>1. Alone'
    BY <1>9 DEF UpdateCache, Goto, disk, caches, ghosts, TypeOK, Idle, Alone, ChangeLabels
  <2>2. Growing'
    BY <1>9, TimesAreNat DEF UpdateCache, Goto, disk, caches, ghosts, TypeOK, Idle, Growing
  <2> QED BY <2>1, <2>2
<1>10. ASSUME NEW p \in Procs, Unlock(p) PROVE Alone' /\ Growing'
  <2>1. Alone'
    BY <1>10 DEF Unlock, Goto, disk, caches, ghosts, TypeOK, Idle, Alone, ChangeLabels
  <2>2. Growing'
    BY <1>10, TimesAreNat DEF Unlock, Goto, disk, caches, ghosts, TypeOK, Idle, Growing
  <2> QED BY <2>1, <2>2
<1>11. ASSUME NEW p \in Procs, BumpError(p) PROVE Alone' /\ Growing'
  <2>1. Alone'
    BY <1>11 DEF BumpError, Goto, disk, caches, ghosts, TypeOK, Idle, Alone, ChangeLabels
  <2>2. Growing'
    BY <1>11, TimesAreNat DEF BumpError, Goto, disk, caches, ghosts, TypeOK, Idle, Growing
  <2> QED BY <2>1, <2>2
<1>12. ASSUME NEW p \in Procs, Reissue(p) PROVE Alone' /\ Growing'
  <2>1. Alone'
    BY <1>12 DEF Reissue, Goto, disk, caches, ghosts, TypeOK, Idle, Alone, ChangeLabels
  <2>2. Growing'
    <3>1. pc' = [pc EXCEPT ![p] = "answer"]
      BY <1>12 DEF Reissue, Goto
    <3>2. \A q \in Procs \ {p} : pc'[q] = pc[q] /\ req'[q] = req[q]
      BY <1>12, <3>1 DEF Reissue, TypeOK
    <3>3. pc[p] = "reissue" /\ pc'[p] = "answer" /\ req'[p].at = req[p].at /\ req'[p].user = req[p].user
             /\ req'[p].bumped = req[p].bumped /\ req'[p].cookie = Cookie(p)
      BY <1>12, <3>1 DEF Reissue, TypeOK, Work
    <3>4. req[p].user \in Users
      BY <3>3 DEF Working, ChangeLabels
    <3>5. Cookie(p) \in Cookies /\ Cookie(p).iat = now
      BY <3>4, CookieType DEF Cookie
    <3> QED BY <1>12, <3>1, <3>2, <3>3, <3>4, <3>5 DEF Growing, Reissue, disk, ghosts
  <2> QED BY <2>1, <2>2
<1>13. ASSUME NEW p \in Procs, Answer(p) PROVE Alone' /\ Growing'
  <2>1. Alone'
    BY <1>13 DEF Answer, Finish, Goto, disk, caches, ghosts, TypeOK, Idle, Alone, ChangeLabels
  <2>2. Growing'
    BY <1>13, TimesAreNat DEF Answer, Finish, Goto, disk, caches, ghosts, TypeOK, Idle, Growing
  <2> QED BY <2>1, <2>2
<1>14. ASSUME NEW p \in Procs, NEW r \in Replicas, NEW c \in issued, Lookup(p, r, c)
       PROVE  Alone' /\ Growing'
  <2>1. Alone'
    BY <1>14 DEF Lookup, Goto, disk, caches, ghosts, TypeOK, Idle, Alone, ChangeLabels
  <2>2. Growing'
    BY <1>14, TimesAreNat DEF Lookup, Goto, disk, caches, ghosts, TypeOK, Idle, Growing
  <2> QED BY <2>1, <2>2
<1>15. ASSUME NEW p \in Procs, LookupStat(p) PROVE Alone' /\ Growing'
  <2>1. Alone'
    BY <1>15 DEF LookupStat, Goto, disk, caches, ghosts, TypeOK, Idle, Alone, ChangeLabels
  <2>2. Growing'
    BY <1>15, TimesAreNat DEF LookupStat, Goto, disk, caches, ghosts, TypeOK, Idle, Growing
  <2> QED BY <2>1, <2>2
<1>16. ASSUME NEW p \in Procs, LookupLoad(p) PROVE Alone' /\ Growing'
  <2>1. Alone'
    BY <1>16 DEF LookupLoad, Goto, disk, caches, ghosts, TypeOK, Idle, Alone, ChangeLabels
  <2>2. Growing'
    BY <1>16, TimesAreNat DEF LookupLoad, Goto, disk, caches, ghosts, TypeOK, Idle, Growing
  <2> QED BY <2>1, <2>2
<1>17. ASSUME NEW p \in Procs, LookupDecide(p) PROVE Alone' /\ Growing'
  <2>1. Alone'
    BY <1>17 DEF LookupDecide, Finish, Goto, disk, caches, ghosts, TypeOK, Idle, Alone, ChangeLabels
  <2>2. Growing'
    BY <1>17, TimesAreNat DEF LookupDecide, Finish, Goto, disk, caches, ghosts, TypeOK, Idle, Growing
  <2> QED BY <2>1, <2>2
<1>18. ASSUME NEW p \in Procs, Served(p) PROVE Alone' /\ Growing'
  <2>1. Alone'
    BY <1>18 DEF Served, Finish, Goto, disk, caches, ghosts, TypeOK, Idle, Alone, ChangeLabels
  <2>2. Growing'
    BY <1>18, TimesAreNat DEF Served, Finish, Goto, disk, caches, ghosts, TypeOK, Idle, Growing
  <2> QED BY <2>1, <2>2
<1>19. ASSUME NEW r \in Replicas, Crash(r) PROVE Alone' /\ Growing'
  <2>1. Alone'
    BY <1>19 DEF Crash, disk, caches, ghosts, TypeOK, Idle, Alone, ChangeLabels
  <2>2. Growing'
    BY <1>19, TimesAreNat DEF Crash, disk, caches, ghosts, TypeOK, Idle, Growing
  <2> QED BY <2>1, <2>2
<1>20. CASE Tick
  <2>1. Alone'
    BY <1>20 DEF Tick, disk, caches, ghosts, TypeOK, Idle, Alone, ChangeLabels
  <2>2. Growing'
    <3>1. /\ now \in Nat /\ epochs \in [Users -> Nat] /\ closed \in [Users -> Nat]
          /\ \A q \in Procs : req[q].at \in Nat
      BY TimesAreNat DEF TypeOK, Work
    <3>2. now' = now + 1
      BY <1>20 DEF Tick
    <3>3. \A u \in Users : epochs[u] <= now + 1
      BY <3>1 DEF Growing
    <3>4. \A q \in Procs : pc[q] \in {"flock", "read", "rename"} => req[q].at <= now + 1
      BY <3>1 DEF Growing
    <3> QED BY <1>20, <3>1, <3>2, <3>3, <3>4 DEF Growing, Tick, disk, ghosts
  <2> QED BY <2>1, <2>2
<1>21. ASSUME NEW p \in Procs, LookupStatFails(p) PROVE Alone' /\ Growing'
  <2>1. Alone'
    BY <1>21 DEF LookupStatFails, Goto, disk, caches, ghosts, TypeOK, Work, Alone, ChangeLabels
  <2>2. Growing'
    BY <1>21, TimesAreNat DEF LookupStatFails, Goto, disk, caches, ghosts, TypeOK, Work, Growing
  <2> QED BY <2>1, <2>2
<1>22. ASSUME NEW p \in Procs, LookupLoadFails(p) PROVE Alone' /\ Growing'
  <2>1. Alone'
    BY <1>22 DEF LookupLoadFails, Goto, disk, caches, ghosts, TypeOK, Work, Alone, ChangeLabels
  <2>2. Growing'
    BY <1>22, TimesAreNat DEF LookupLoadFails, Goto, disk, caches, ghosts, TypeOK, Work, Growing
  <2> QED BY <2>1, <2>2
<1>23. CASE UNCHANGED vars
  BY <1>23 DEF vars, disk, caches, ghosts, Alone, Growing
<1> QED BY <1>1, <1>2, <1>3, <1>4, <1>5, <1>6, <1>7, <1>8, <1>9, <1>10, <1>11, <1>12,
           <1>13, <1>14, <1>15, <1>16, <1>17, <1>18, <1>19, <1>20, <1>21, <1>22,
           <1>23 DEF Next

(* With an mtime of its own for every version, a cache of the current       *)
(* mtime is the current file, and no lookup goes by less than it has seen. *)
LEMMA CacheStep ==
    ASSUME FineMtime, CacheInv, EpochInv', [Next]_vars
    PROVE  CacheInv'
<1> USE DEF CacheInv, EpochInv, LockInv
<1>1. ASSUME NEW p \in Procs, NEW r \in Replicas, NEW u \in Users, Login(p, r, u)
      PROVE  Remembered' /\ Looking'
  <2>1. Remembered'
    BY <1>1, TimesAreNat DEF Login, Goto, disk, caches, ghosts, TypeOK, Idle, Remembered
  <2>2. Looking'
    BY <1>1, TimesAreNat DEF Login, Goto, disk, caches, ghosts, TypeOK, Idle, Looking, Excused
  <2> QED BY <2>1, <2>2
<1>2. ASSUME NEW p \in Procs, LoginCreate(p) PROVE Remembered' /\ Looking'
  <2>1. Remembered'
    BY <1>2, TimesAreNat DEF LoginCreate, Finish, Goto, disk, caches, ghosts, TypeOK, Idle, Remembered
  <2>2. Looking'
    BY <1>2, TimesAreNat DEF LoginCreate, Finish, Goto, disk, caches, ghosts, TypeOK, Idle, Looking, Excused
  <2> QED BY <2>1, <2>2
<1>3. ASSUME NEW p \in Procs, NEW r \in Replicas, NEW u \in Users, Change(p, r, u)
      PROVE  Remembered' /\ Looking'
  <2>1. Remembered'
    BY <1>3, TimesAreNat DEF Change, Goto, disk, caches, ghosts, TypeOK, Idle, Remembered
  <2>2. Looking'
    BY <1>3, TimesAreNat DEF Change, Goto, disk, caches, ghosts, TypeOK, Idle, Looking, Excused
  <2> QED BY <2>1, <2>2
<1>4. ASSUME NEW p \in Procs, Set(p) PROVE Remembered' /\ Looking'
  <2>1. Remembered'
    BY <1>4, TimesAreNat DEF Set, Finish, Goto, disk, caches, ghosts, TypeOK, Idle, Remembered
  <2>2. Looking'
    BY <1>4, TimesAreNat DEF Set, Finish, Goto, disk, caches, ghosts, TypeOK, Idle, Looking, Excused
  <2> QED BY <2>1, <2>2
<1>5. ASSUME NEW p \in Procs, Now(p) PROVE Remembered' /\ Looking'
  <2>1. Remembered'
    BY <1>5, TimesAreNat DEF Now, Goto, disk, caches, ghosts, TypeOK, Idle, Remembered
  <2>2. Looking'
    BY <1>5, TimesAreNat DEF Now, Goto, disk, caches, ghosts, TypeOK, Idle, Looking, Excused
  <2> QED BY <2>1, <2>2
<1>6. ASSUME NEW p \in Procs, Lock(p) PROVE Remembered' /\ Looking'
  <2>1. Remembered'
    BY <1>6, TimesAreNat DEF Lock, Free, Goto, disk, caches, ghosts, TypeOK, Idle, Remembered
  <2>2. Looking'
    BY <1>6, TimesAreNat DEF Lock, Free, Goto, disk, caches, ghosts, TypeOK, Idle, Looking, Excused
  <2> QED BY <2>1, <2>2
<1>7. ASSUME NEW p \in Procs, ReadMap(p) PROVE Remembered' /\ Looking'
  <2>1. Remembered'
    BY <1>7, TimesAreNat DEF ReadMap, Goto, disk, caches, ghosts, TypeOK, Idle, Remembered
  <2>2. Looking'
    BY <1>7, TimesAreNat DEF ReadMap, Goto, disk, caches, ghosts, TypeOK, Idle, Looking, Excused
  <2> QED BY <2>1, <2>2
<1>8. ASSUME NEW p \in Procs, Rename(p) PROVE Remembered' /\ Looking'
  <2>1. Remembered'
    <3>1. /\ mtime' = now /\ mtime < now /\ epochs' = req[p].m
          /\ cached' = cached /\ cache' = cache
      BY <1>8 DEF Rename, caches
    <3>2. /\ epochs[req[p].user] <= req[p].at
          /\ req[p].user \in Users /\ epochs'[req[p].user] = req[p].at
          /\ \A u \in Users \ {req[p].user} :
                epochs'[u] = epochs[u] \/ (u \in forgot' /\ epochs'[u] = 0)
          /\ forgot \subseteq forgot'
      BY <1>8, Renamed DEF Rename, Growing
    <3>3. \A u \in Users \ forgot' : epochs[u] <= epochs'[u] /\ epochs'[u] \in Nat
      BY <3>2, Numbers
    <3>4. \A r \in Replicas : cached'[r] < mtime'
      BY <3>1, Numbers DEF Remembered
    <3>5. \A r \in Replicas, u \in Users \ forgot' : cache'[r][u] <= epochs'[u]
      BY <3>1, <3>2, <3>3, Numbers DEF Remembered
    <3> QED BY <3>1, <3>4, <3>5, Numbers DEF Remembered
  <2>2. Looking'
    <3>1. /\ mtime' = now /\ mtime < now /\ cached' = cached /\ cache' = cache /\ closed' = closed
          /\ pc' = [pc EXCEPT ![p] = "cache"]
      BY <1>8 DEF Rename, caches, Goto
    <3>2. \A q \in Procs \ {p} : req'[q] = req[q] /\ pc'[q] = pc[q]
      BY <1>8, <3>1 DEF Rename, TypeOK
    <3>3. pc'[p] = "cache" /\ forgot \subseteq forgot'
      BY <1>8, <3>1, Renamed DEF TypeOK
    <3> QED BY <3>1, <3>2, <3>3, Numbers DEF Looking, Excused
  <2> QED BY <2>1, <2>2
<1>9. ASSUME NEW p \in Procs, UpdateCache(p) PROVE Remembered' /\ Looking'
  <2>1. Remembered'
    <3>1. req[p].on \in Replicas /\ req[p].m = epochs
      BY <1>9 DEF UpdateCache, Working, Locked, ChangeLabels
    <3>2. /\ cache' = [cache EXCEPT ![req[p].on] = epochs]
          /\ cached' = cached \/ cached' = [cached EXCEPT ![req[p].on] = mtime]
          /\ mtime' = mtime /\ epochs' = epochs /\ forgot' = forgot
      BY <1>9, <3>1 DEF UpdateCache, disk, ghosts
    <3> QED BY <3>1, <3>2, Numbers DEF Remembered
  <2>2. Looking'
    <3>1. req[p].on \in Replicas /\ req[p].m = epochs
      BY <1>9 DEF UpdateCache, Working, Locked, ChangeLabels
    <3>2. /\ req' = req /\ closed' = closed /\ mtime' = mtime /\ forgot' = forgot
          /\ cache' = [cache EXCEPT ![req[p].on] = epochs]
          /\ pc' = [pc EXCEPT ![p] = "unlock"]
      BY <1>9, <3>1 DEF UpdateCache, disk, ghosts, Goto
    <3>3. /\ cache' \in [Replicas -> [Users -> Nat]]
          /\ \A r \in Replicas, u \in Users \ forgot : cache[r][u] <= cache'[r][u]
      BY <3>1, <3>2, Numbers DEF Remembered
    <3>4. \A q \in Procs : pc[q] = "decide" =>
             req[q].on \in Replicas /\ req[q].cookie.user \in Users
      BY DEF Working, Cookies
    <3>5. \A q \in Procs : pc[q] = "decide" =>
             req[q].floor <= cache'[req[q].on][req[q].cookie.user] \/ Excused(q)
      BY <3>3, <3>4, Numbers DEF Looking, Excused
    <3>6. \A q \in Procs : pc'[q] \in {"stat", "load", "decide", "accepted"} => pc'[q] = pc[q]
      BY <3>2 DEF TypeOK
    <3> QED BY <3>2, <3>5, <3>6 DEF Looking, Excused
  <2> QED BY <2>1, <2>2
<1>10. ASSUME NEW p \in Procs, Unlock(p) PROVE Remembered' /\ Looking'
  <2>1. Remembered'
    BY <1>10, TimesAreNat DEF Unlock, Goto, disk, caches, ghosts, TypeOK, Idle, Remembered
  <2>2. Looking'
    BY <1>10, TimesAreNat DEF Unlock, Goto, disk, caches, ghosts, TypeOK, Idle, Looking, Excused
  <2> QED BY <2>1, <2>2
<1>11. ASSUME NEW p \in Procs, BumpError(p) PROVE Remembered' /\ Looking'
  <2>1. Remembered'
    BY <1>11, TimesAreNat DEF BumpError, Goto, disk, caches, ghosts, TypeOK, Idle, Remembered
  <2>2. Looking'
    BY <1>11, TimesAreNat DEF BumpError, Goto, disk, caches, ghosts, TypeOK, Idle, Looking, Excused
  <2> QED BY <2>1, <2>2
<1>12. ASSUME NEW p \in Procs, Reissue(p) PROVE Remembered' /\ Looking'
  <2>1. Remembered'
    BY <1>12, TimesAreNat DEF Reissue, Goto, disk, caches, ghosts, TypeOK, Idle, Remembered
  <2>2. Looking'
    BY <1>12, TimesAreNat DEF Reissue, Goto, disk, caches, ghosts, TypeOK, Idle, Looking, Excused
  <2> QED BY <2>1, <2>2
<1>13. ASSUME NEW p \in Procs, Answer(p) PROVE Remembered' /\ Looking'
  <2>1. Remembered'
    BY <1>13, TimesAreNat DEF Answer, Finish, Goto, disk, caches, ghosts, TypeOK, Idle, Remembered
  <2>2. Looking'
    <3>1. /\ mtime' = mtime /\ cache' = cache /\ forgot' = forgot /\ pc' = [pc EXCEPT ![p] = "idle"]
      BY <1>13 DEF Answer, disk, caches, ghosts, Finish, Goto
    <3>2. \A q \in Procs \ {p} : req'[q] = req[q] /\ pc'[q] = pc[q]
      BY <1>13, <3>1 DEF Answer, Finish, TypeOK
    <3>3. pc'[p] = "idle"
      BY <3>1 DEF TypeOK
    <3>4. req[p].user \in Users
      BY <1>13 DEF Answer, Working, ChangeLabels
    <3>5. \A u \in Users : closed[u] <= closed'[u] /\ closed'[u] \in Nat
      BY <1>13, <3>4, Numbers DEF Answer
    <3>6. \A q \in Procs : pc[q] \in {"stat", "load", "decide"} => req[q].cookie.user \in Users
      BY DEF Working, Cookies
    <3> QED BY <3>1, <3>2, <3>3, <3>5, <3>6, Numbers DEF Looking, Excused
  <2> QED BY <2>1, <2>2
<1>14. ASSUME NEW p \in Procs, NEW r \in Replicas, NEW c \in issued, Lookup(p, r, c)
       PROVE  Remembered' /\ Looking'
  <2>1. Remembered'
    BY <1>14, TimesAreNat DEF Lookup, Goto, disk, caches, ghosts, TypeOK, Idle, Remembered
  <2>2. Looking'
    <3>1. c \in Cookies /\ c.user \in Users
      BY DEF TypeOK, Cookies
    <3>2. /\ mtime' = mtime /\ cache' = cache /\ closed' = closed /\ forgot' = forgot
          /\ pc' = [pc EXCEPT ![p] = "stat"]
      BY <1>14 DEF Lookup, disk, caches, ghosts, Goto
    <3>3. \A q \in Procs \ {p} : req'[q] = req[q] /\ pc'[q] = pc[q]
      BY <1>14, <3>2 DEF Lookup, TypeOK
    <3>4. pc'[p] = "stat" /\ req'[p].cookie = c /\ req'[p].floor = closed[c.user]
      BY <1>14, <3>2 DEF Lookup, TypeOK, Idle
    <3> QED BY <3>1, <3>2, <3>3, <3>4, Numbers DEF Looking, Excused
  <2> QED BY <2>1, <2>2
<1>15. ASSUME NEW p \in Procs, LookupStat(p) PROVE Remembered' /\ Looking'
  <2>1. Remembered'
    BY <1>15, TimesAreNat DEF LookupStat, Goto, disk, caches, ghosts, TypeOK, Idle, Remembered
  <2>2. Looking'
    <3>1. /\ pc[p] = "stat" /\ mtime' = mtime /\ cache' = cache /\ closed' = closed /\ forgot' = forgot
          /\ \A q \in Procs \ {p} : req'[q] = req[q] /\ pc'[q] = pc[q]
      BY <1>15 DEF LookupStat, disk, ghosts, Goto, TypeOK
    <3>2. /\ req[p].on \in Replicas /\ req[p].cookie \in Cookies /\ req[p].cookie.user \in Users
          /\ req[p].floor <= closed[req[p].cookie.user]
      BY <3>1 DEF Working, Looking, Cookies
    <3>3. req[p].cookie.user \notin forgot => req[p].floor <= epochs[req[p].cookie.user]
      BY <3>2, Numbers DEF Growing
    <3>4. CASE Current(req[p].on)
      <4>1. req' = req /\ pc'[p] = "decide"
        BY <1>15, <3>4 DEF LookupStat, Goto, TypeOK
      <4>2. epochs[req[p].cookie.user] <= cache[req[p].on][req[p].cookie.user]
        BY <3>2, <3>4, Numbers DEF Current, Remembered
      <4>3. req[p].floor <= cache[req[p].on][req[p].cookie.user] \/ Excused(p)
        BY <3>2, <3>3, <4>2, Numbers DEF Excused
      <4> QED BY <3>1, <3>2, <4>1, <4>3 DEF Looking, Excused
    <3>5. CASE ~Current(req[p].on)
      <4>1. /\ pc'[p] = "load" /\ req'[p].file = mtime
            /\ req'[p].floor = req[p].floor /\ req'[p].cookie = req[p].cookie
        BY <1>15, <3>5 DEF LookupStat, Goto, TypeOK, Work
      <4> QED BY <3>1, <3>2, <4>1, Numbers DEF Looking, Excused
    <3> QED BY <3>4, <3>5
  <2> QED BY <2>1, <2>2
<1>16. ASSUME NEW p \in Procs, LookupLoad(p) PROVE Remembered' /\ Looking'
  <2>1. Remembered'
    <3>1. req[p].on \in Replicas /\ req[p].file <= mtime
      BY <1>16 DEF LookupLoad, Working, Looking
    <3>2. /\ cache' = [cache EXCEPT ![req[p].on] = epochs] /\ cached' = [cached EXCEPT ![req[p].on] = req[p].file]
          /\ mtime' = mtime /\ epochs' = epochs /\ forgot' = forgot
      BY <1>16, <3>1 DEF LookupLoad, disk, ghosts
    <3> QED BY <3>1, <3>2, Numbers DEF Remembered
  <2>2. Looking'
    <3>1. /\ pc[p] = "load" /\ req[p].on \in Replicas /\ req[p].cookie.user \in Users
          /\ req[p].floor <= closed[req[p].cookie.user]
      BY <1>16 DEF LookupLoad, Working, Looking, Cookies
    <3>2. /\ req' = req /\ closed' = closed /\ mtime' = mtime /\ forgot' = forgot
          /\ cache' = [cache EXCEPT ![req[p].on] = epochs]
          /\ pc' = [pc EXCEPT ![p] = "decide"]
      BY <1>16, <3>1 DEF LookupLoad, disk, ghosts, Goto
    <3>3. /\ cache' \in [Replicas -> [Users -> Nat]]
          /\ \A r \in Replicas, u \in Users \ forgot : cache[r][u] <= cache'[r][u]
      BY <3>1, <3>2, Numbers DEF Remembered
    <3>4. \A q \in Procs : pc[q] = "decide" =>
             req[q].on \in Replicas /\ req[q].cookie.user \in Users
      BY DEF Working, Cookies
    <3>5. \A q \in Procs : pc[q] = "decide" =>
             req[q].floor <= cache'[req[q].on][req[q].cookie.user] \/ Excused(q)
      BY <3>3, <3>4, Numbers DEF Looking, Excused
    <3>6. req[p].floor <= cache'[req[p].on][req[p].cookie.user] \/ Excused(p)
      BY <3>1, <3>2, Numbers DEF Growing, Excused
    <3>7. pc'[p] = "decide" /\ \A q \in Procs \ {p} : pc'[q] = pc[q]
      BY <3>2 DEF TypeOK
    <3> QED BY <3>1, <3>2, <3>5, <3>6, <3>7 DEF Looking, Excused
  <2> QED BY <2>1, <2>2
<1>17. ASSUME NEW p \in Procs, LookupDecide(p) PROVE Remembered' /\ Looking'
  <2>1. Remembered'
    BY <1>17, TimesAreNat DEF LookupDecide, Finish, Goto, disk, caches, ghosts, TypeOK, Idle, Remembered
  <2>2. Looking'
    <3>1. /\ pc[p] = "decide" /\ mtime' = mtime /\ cache' = cache /\ closed' = closed /\ forgot' = forgot
          /\ \A q \in Procs \ {p} : req'[q] = req[q] /\ pc'[q] = pc[q]
      BY <1>17 DEF LookupDecide, disk, caches, ghosts, Finish, Goto, TypeOK
    <3>2. /\ req[p].on \in Replicas /\ req[p].cookie.user \in Users /\ req[p].cookie.iat \in Nat
          /\ req[p].floor <= cache[req[p].on][req[p].cookie.user] \/ Excused(p)
      BY <3>1, TimesAreNat DEF Working, Looking, Cookies
    <3>3. \/ pc'[p] = "idle"
          \/ /\ pc'[p] = "accepted" /\ req' = req
             /\ req[p].cookie.iat >= cache[req[p].on][req[p].cookie.user]
      BY <1>17 DEF LookupDecide, Valid, Finish, Goto, TypeOK
    <3>4. pc'[p] = "accepted" => req' = req /\ (req[p].floor <= req[p].cookie.iat \/ Excused(p))
      BY <3>2, <3>3, Numbers
    <3> QED BY <3>1, <3>3, <3>4 DEF Looking, Excused
  <2> QED BY <2>1, <2>2
<1>18. ASSUME NEW p \in Procs, Served(p) PROVE Remembered' /\ Looking'
  <2>1. Remembered'
    BY <1>18, TimesAreNat DEF Served, Finish, Goto, disk, caches, ghosts, TypeOK, Idle, Remembered
  <2>2. Looking'
    BY <1>18, TimesAreNat DEF Served, Finish, Goto, disk, caches, ghosts, TypeOK, Idle, Looking, Excused
  <2> QED BY <2>1, <2>2
<1>19. ASSUME NEW r \in Replicas, Crash(r) PROVE Remembered' /\ Looking'
  <2>1. Remembered'
    <3>1. /\ cache' = [cache EXCEPT ![r] = Empty] /\ cached' = [cached EXCEPT ![r] = 0]
          /\ mtime' = mtime /\ epochs' = epochs /\ forgot' = forgot
      BY <1>19 DEF Crash, ghosts
    <3>2. mtime = 0 => epochs = Empty
      BY Numbers DEF Remembered, Empty
    <3>3. 0 <= mtime /\ \A u \in Users : 0 <= epochs[u]
      BY Numbers
    <3> QED BY <3>1, <3>2, <3>3, Numbers DEF Remembered, Empty
  <2>2. Looking'
    BY <1>19, TimesAreNat DEF Crash, disk, caches, ghosts, TypeOK, Idle, Looking, Excused
  <2> QED BY <2>1, <2>2
<1>20. CASE Tick
  <2>1. Remembered'
    BY <1>20, TimesAreNat DEF Tick, disk, caches, ghosts, TypeOK, Idle, Remembered
  <2>2. Looking'
    BY <1>20, TimesAreNat DEF Tick, disk, caches, ghosts, TypeOK, Idle, Looking, Excused
  <2> QED BY <2>1, <2>2
<1>21. ASSUME NEW p \in Procs, LookupStatFails(p) PROVE Remembered' /\ Looking'
  <2>1. Remembered'
    BY <1>21 DEF LookupStatFails, disk, caches, ghosts, Remembered
  <2>2. Looking'
    <3>1. /\ pc[p] = "stat" /\ pc'[p] = "decide" /\ mtime' = mtime /\ cache' = cache
          /\ closed' = closed /\ forgot' = forgot
          /\ \A q \in Procs \ {p} : req'[q] = req[q] /\ pc'[q] = pc[q]
      BY <1>21 DEF LookupStatFails, disk, caches, ghosts, Goto, TypeOK
    <3>2. /\ req'[p].on = req[p].on /\ req'[p].cookie = req[p].cookie /\ req'[p].floor = req[p].floor
          /\ req'[p].stale = ~Current(req[p].on)
      BY <1>21 DEF LookupStatFails, TypeOK, Work
    <3>3. /\ req[p].on \in Replicas /\ req[p].cookie.user \in Users
          /\ req[p].floor <= closed[req[p].cookie.user]
      BY <3>1 DEF Working, Looking, Cookies
    <3>4. Current(req[p].on) /\ req[p].cookie.user \notin forgot =>
             req[p].floor <= cache[req[p].on][req[p].cookie.user]
      BY <3>3, Numbers DEF Current, Remembered, Growing
    <3>5. \/ req'[p].floor <= cache'[req'[p].on][req'[p].cookie.user]
          \/ req'[p].stale \/ req'[p].cookie.user \in forgot'
      BY <3>1, <3>2, <3>4
    <3>6. req'[p].floor <= closed'[req'[p].cookie.user]
      BY <3>1, <3>2, <3>3
    <3> QED BY <3>1, <3>5, <3>6 DEF Looking, Excused
  <2> QED BY <2>1, <2>2
<1>22. ASSUME NEW p \in Procs, LookupLoadFails(p) PROVE Remembered' /\ Looking'
  <2>1. Remembered'
    BY <1>22 DEF LookupLoadFails, disk, caches, ghosts, Remembered
  <2>2. Looking'
    <3>1. /\ pc[p] = "load" /\ pc'[p] = "decide" /\ mtime' = mtime /\ cache' = cache
          /\ closed' = closed /\ forgot' = forgot
          /\ \A q \in Procs \ {p} : req'[q] = req[q] /\ pc'[q] = pc[q]
      BY <1>22 DEF LookupLoadFails, disk, caches, ghosts, Goto, TypeOK
    <3>2. /\ req'[p].cookie = req[p].cookie /\ req'[p].floor = req[p].floor
          /\ req'[p].stale
      BY <1>22 DEF LookupLoadFails, TypeOK, Work
    <3> QED BY <3>1, <3>2 DEF Looking, Excused
  <2> QED BY <2>1, <2>2
<1>23. CASE UNCHANGED vars
  BY <1>23 DEF vars, disk, caches, ghosts, Remembered, Looking, Excused
<1> QED BY <1>1, <1>2, <1>3, <1>4, <1>5, <1>6, <1>7, <1>8, <1>9, <1>10, <1>11, <1>12,
           <1>13, <1>14, <1>15, <1>16, <1>17, <1>18, <1>19, <1>20, <1>21, <1>22,
           <1>23 DEF Next

-----------------------------------------------------------------------------
(* The theorems. *)

(* However many replicas bump at the same time, the lock file lets one of  *)
(* them between reading the epoch file and replacing it: the map it writes *)
(* is the current one with its own user's time changed, or, when it could  *)
(* not read the file, that time alone (epoch.go:91-94).                    *)
THEOREM LockInvHolds == Spec => []LockInv
BY InitLockInv, LockStep, PTL DEF Spec

(* bump's rename is all that changes the epoch file. *)
LEMMA OnlyRenameWrites ==
    ASSUME Next, epochs' # epochs PROVE \E p \in Procs : Rename(p)
BY DEF Next, Login, LoginCreate, Change, Set, Now, Lock, ReadMap, UpdateCache,
       Unlock, BumpError, Reissue, Answer, Lookup, LookupStat, LookupStatFails,
       LookupLoad, LookupLoadFails, LookupDecide, Served, Crash, Tick, disk

(* No replica's bump undoes another's (statefile.Lock around bump): a new   *)
(* version of the epoch file is the old one with one user's time changed,  *)
(* unless it comes from a bump that could not read the old one.            *)
THEOREM NoBumpIsLost == Spec => LostOnlyUnread
<1>1. LockInv /\ [Next]_vars => [OneTimeMoves \/ UnreadRenamed]_vars
  <2> SUFFICES ASSUME LockInv, Next, epochs' # epochs, ~UnreadRenamed PROVE OneTimeMoves
    BY DEF OneTimeMoves
  <2>1. PICK p \in Procs : Rename(p)
    BY OnlyRenameWrites
  <2>2. ~req[p].unread
    BY <2>1 DEF Rename, Goto, UnreadRenamed, LockInv, TypeOK
  <2>3. epochs' = [epochs EXCEPT ![req[p].user] = req[p].at] /\ req[p].user \in Users
    BY <2>1, <2>2 DEF Rename, LockInv, Locked, Working, ChangeLabels
  <2> QED BY <2>3 DEF OneTimeMoves, LockInv, TypeOK
<1> QED BY <1>1, LockInvHolds, PTL DEF LostOnlyUnread, Spec

(* Where the epoch file can always be read, one user's time is all that    *)
(* any step changes of it: "two replicas' bumps cannot lose one".          *)
THEOREM NoBumpIsLostWhenRead ==
    ASSUME ~FileFails PROVE Spec => [][OneTimeMoves]_vars
<1>1. LockInv /\ [Next]_vars => [OneTimeMoves]_vars
  <2> SUFFICES ASSUME LockInv, Next, epochs' # epochs PROVE OneTimeMoves
    BY DEF OneTimeMoves
  <2>1. PICK p \in Procs : Rename(p)
    BY OnlyRenameWrites
  <2>2. epochs' = [epochs EXCEPT ![req[p].user] = req[p].at] /\ req[p].user \in Users
    BY <2>1 DEF Rename, LockInv, Locked, Working, ChangeLabels
  <2> QED BY <2>2 DEF OneTimeMoves, LockInv, TypeOK
<1> QED BY <1>1, LockInvHolds, PTL DEF Spec

(* While a user has one password change under way at a time, the cookie    *)
(* the change is answered with is not older than the epoch it has set: the *)
(* caller stays signed in.                                                 *)
THEOREM OwnSessionStays ==
    ASSUME ~Overlap PROVE Spec => []OwnSessionKept
<1>1. Spec => []EpochInv
  <2>1. Init => Alone /\ Growing
    BY ConstantsOK DEF Init, Alone, Growing, Idle, Empty, ChangeLabels
  <2> QED BY <2>1, InitLockInv, LockInvHolds, EpochStep, PTL DEF Spec, EpochInv
<1>2. EpochInv => OwnSessionKept
  BY DEF EpochInv, Growing, OwnSessionKept, Valid, Cookies
<1> QED BY <1>1, <1>2, PTL

(* While, besides, no two versions of the epoch file share an mtime, a     *)
(* replica's cache with the file's mtime is the file, so that a session    *)
(* closed by an answered password change is served by no replica that      *)
(* could look at the file, as long as no bump has failed to read it.       *)
THEOREM OthersStayClosed ==
    ASSUME ~Overlap, FineMtime PROVE Spec => []OthersClosed
<1>1. Init => CacheInv
  BY InitLockInv, ConstantsOK
     DEF Init, CacheInv, EpochInv, Alone, Growing, Remembered, Looking, Excused, Idle, Empty, ChangeLabels
<1>2. CacheInv /\ [Next]_vars => CacheInv'
  BY CacheStep, EpochStep, LockStep DEF CacheInv, EpochInv
<1>3. CacheInv => OthersClosed
  <2> SUFFICES ASSUME CacheInv, NEW p \in Procs, pc[p] = "accepted"
               PROVE  \/ req[p].cookie.iat >= req[p].floor
                      \/ req[p].stale \/ req[p].cookie.user \in forgot
    BY DEF OthersClosed, CacheInv, EpochInv, LockInv
  <2> QED BY Numbers, TimesAreNat
          DEF CacheInv, EpochInv, LockInv, Working, Looking, Excused, Cookies
<1> QED BY <1>1, <1>2, <1>3, PTL DEF Spec

=============================================================================
