---------------------------- MODULE SessionEpoch ----------------------------
(***************************************************************************)
(* Session cookies and password changes over several replicas:             *)
(* internal/server/session.go, epoch.go and the handlers that use them     *)
(* (handleLogin, handlePassword, requireAuth's Lookup).                    *)
(*                                                                         *)
(* A cookie is signed and self-contained.  All that can close one before   *)
(* it expires is the epoch file, one not-before time per user, which a     *)
(* password change moves and which every replica caches by mtime.  Each    *)
(* request is a process running on one replica.                            *)
(***************************************************************************)
EXTENDS Integers, FiniteSets

CONSTANTS
    Replicas,
    Users,
    Procs,       \* requests being served at the same time
    None,
    TTL,         \* lifetime of a cookie
    Overlap,     \* TRUE: one user may be changing the password twice at once
    FileFails,   \* TRUE: locking, reading, writing or stating the epoch file may fail
    FineMtime,   \* TRUE: no two versions of the epoch file share an mtime
    MaxNow,      \* bound: clock ticks (milliseconds in the code)
    MaxChanges   \* bound: password changes of one user

ASSUME ConstantsOK ==
    /\ {Overlap, FileFails, FineMtime} \subseteq BOOLEAN
    /\ TTL \in Nat \ {0} /\ MaxNow \in Nat \ {0} /\ MaxChanges \in Nat
    /\ None \notin Replicas \cup Procs \cup Users

Times == 0..MaxNow

Cookies == [user : Users, iat : Times]

VARIABLES
    now,       \* the wall clock
    changes,   \* per user: how often the password in the store has changed
    issued,    \* the cookies browsers hold
    epochs,    \* the epoch file: per user, sessions are not valid before
    mtime,     \* its modification time, 0 while there is no file
    flock,     \* the process holding <path>.lock
    cache,     \* per replica: epochStore.m
    cached,    \* per replica: epochStore.mtime
    mu,        \* per replica: the process holding epochStore.mu across a read
    pc,        \* per process: where its handler is
    req,       \* per process: what it works on
    closed,    \* ghost, per user: the time of the latest change that was
               \* answered and had moved the epoch
    forgot     \* ghost: users whose time a bump took out of the file

vars == <<now, changes, issued, epochs, mtime, flock, cache, cached, mu,
          pc, req, closed, forgot>>

disk == <<epochs, mtime, flock>>
caches == <<cache, cached, mu>>
ghosts == <<closed, forgot>>

\* A map with nothing in it.
Empty == [u \in Users |-> 0]

\* on: the replica; at: the time bump was called with; m: the map bump wrote;
\* unread: it could not read the file before; bumped: it wrote the map; file:
\* the mtime Lookup saw; stale: it could not look at the file, or not read it;
\* floor: closed when Lookup began.
Idle == [on |-> None, user |-> None, at |-> 0, m |-> Empty, unread |-> FALSE,
         bumped |-> FALSE, cookie |-> None, file |-> 0, stale |-> FALSE, floor |-> 0]

Work == [on : Replicas \cup {None}, user : Users \cup {None}, at : Times,
         m : [Users -> Times], unread : BOOLEAN, bumped : BOOLEAN,
         cookie : Cookies \cup {None}, file : Times, stale : BOOLEAN, floor : Times]

Labels == {"idle", "login", "set", "now", "flock", "read", "rename", "cache",
           "unlock", "reissue", "answer", "stat", "load", "decide", "accepted"}

ChangeLabels == {"set", "now", "flock", "read", "rename", "cache", "unlock",
                 "reissue", "answer"}

Changing(u) == {p \in Procs : pc[p] \in ChangeLabels /\ req[p].user = u}

Init ==
    /\ now = 1
    /\ changes = [u \in Users |-> 0]
    /\ issued = {}
    /\ epochs = Empty
    /\ mtime = 0
    /\ flock = None
    /\ cache = [r \in Replicas |-> Empty]
    /\ cached = [r \in Replicas |-> 0]
    /\ mu = [r \in Replicas |-> None]
    /\ pc = [p \in Procs |-> "idle"]
    /\ req = [p \in Procs |-> Idle]
    /\ closed = Empty
    /\ forgot = {}

Goto(p, label) == pc' = [pc EXCEPT ![p] = label]
Finish(p) == Goto(p, "idle") /\ req' = [req EXCEPT ![p] = Idle]

\* Mutant of Cookie: the expiry is signed where the time of issue belongs.
CookieSwapped(p) == [user |-> req[p].user, iat |-> now + TTL]
Cookie(p) == [user |-> req[p].user, iat |-> now]

---------------------------------------------------------------------------
(* handleLogin: the password is verified, then Create signs a cookie.      *)

Login(p, r, u) ==
    /\ pc[p] = "idle"
    /\ req' = [req EXCEPT ![p] = [Idle EXCEPT !.on = r, !.user = u]]
    /\ Goto(p, "login")
    /\ UNCHANGED <<now, changes, issued, disk, caches, ghosts>>

LoginCreate(p) ==
    /\ pc[p] = "login"
    /\ issued' = issued \cup {Cookie(p)}
    /\ Finish(p)
    /\ UNCHANGED <<now, changes, disk, caches, ghosts>>

---------------------------------------------------------------------------
(* handlePassword: verify the current password, set the new one, close the *)
(* other sessions (bump), sign the caller a new cookie, answer.            *)

Change(p, r, u) ==
    /\ pc[p] = "idle"
    /\ Overlap \/ Changing(u) = {}
    /\ changes[u] + Cardinality(Changing(u)) < MaxChanges
    /\ req' = [req EXCEPT ![p] = [Idle EXCEPT !.on = r, !.user = u]]
    /\ Goto(p, "set")
    /\ UNCHANGED <<now, changes, issued, disk, caches, ghosts>>

Set(p) ==
    /\ pc[p] = "set"
    /\ \/ /\ changes' = [changes EXCEPT ![req[p].user] = @ + 1]
          /\ Goto(p, "now")
          /\ UNCHANGED req
       \/ Finish(p) /\ UNCHANGED changes    \* smbpasswd refused: 503
    /\ UNCHANGED <<now, issued, disk, caches, ghosts>>

\* DeleteOthers calls bump with the time it is called at, not the time it gets
\* the lock.
Now(p) ==
    /\ pc[p] = "now"
    /\ req' = [req EXCEPT ![p].at = now]
    /\ Goto(p, "flock")
    /\ UNCHANGED <<now, changes, issued, disk, caches, ghosts>>

\* Mutant of Free: the lock is not exclusive.
FreeShared == TRUE
Free == flock = None

Lock(p) ==
    /\ pc[p] = "flock"
    /\ Free
    /\ flock' = p
    /\ Goto(p, "read")
    /\ UNCHANGED <<now, changes, issued, epochs, mtime, caches, req, ghosts>>

\* A file that cannot be read, or parsed, counts as an empty map.
ReadMap(p) ==
    /\ pc[p] = "read"
    /\ \E unread \in {FALSE, FileFails} :
          req' = [req EXCEPT
                    ![p].m = [(IF unread THEN Empty ELSE epochs)
                                 EXCEPT ![req[p].user] = req[p].at],
                    ![p].unread = unread]
    /\ Goto(p, "rename")
    /\ UNCHANGED <<now, changes, issued, disk, caches, ghosts>>

Rename(p) ==
    /\ pc[p] = "rename"
    /\ FineMtime => now > mtime
    /\ epochs' = req[p].m
    /\ mtime' = now
    /\ req' = [req EXCEPT ![p].bumped = TRUE]
    /\ Goto(p, "cache")
    /\ forgot' = IF req[p].unread
                 THEN forgot \cup {u \in Users \ {req[p].user} : epochs[u] # 0}
                 ELSE forgot
    /\ UNCHANGED <<now, changes, issued, flock, caches, closed>>

\* The replica that bumps sees its own bump at once.
UpdateCache(p) ==
    LET r == req[p].on
    IN  /\ pc[p] = "cache"
        /\ mu[r] = None
        /\ cache' = [cache EXCEPT ![r] = req[p].m]
        /\ \/ cached' = [cached EXCEPT ![r] = mtime]
           \/ FileFails /\ UNCHANGED cached    \* os.Stat failed
        /\ Goto(p, "unlock")
        /\ UNCHANGED <<now, changes, issued, disk, mu, req, ghosts>>

Unlock(p) ==
    /\ pc[p] = "unlock"
    /\ flock' = None
    /\ Goto(p, "reissue")
    /\ UNCHANGED <<now, changes, issued, epochs, mtime, caches, req, ghosts>>

\* bump returned an error from the lock or from the write; DeleteOthers turns
\* it into a 0 nobody looks at.
BumpError(p) ==
    /\ FileFails
    /\ pc[p] \in {"flock", "rename"}
    /\ flock' = IF pc[p] = "rename" THEN None ELSE flock
    /\ Goto(p, "reissue")
    /\ UNCHANGED <<now, changes, issued, epochs, mtime, caches, req, ghosts>>

Reissue(p) ==
    /\ pc[p] = "reissue"
    /\ issued' = issued \cup {Cookie(p)}
    /\ req' = [req EXCEPT ![p].cookie = Cookie(p)]
    /\ Goto(p, "answer")
    /\ UNCHANGED <<now, changes, disk, caches, ghosts>>

\* {"sessions_closed": true}
Answer(p) ==
    LET u == req[p].user
    IN  /\ pc[p] = "answer"
        /\ closed' = IF req[p].bumped /\ req[p].at > closed[u]
                     THEN [closed EXCEPT ![u] = req[p].at] ELSE closed
        /\ Finish(p)
        /\ UNCHANGED <<now, changes, issued, disk, caches, forgot>>

---------------------------------------------------------------------------
(* Sessions.Lookup, for any request with a cookie.  notBefore holds the    *)
(* epochStore's mutex from the stat to the reload.                         *)

Lookup(p, r, c) ==
    /\ pc[p] = "idle"
    /\ now < c.iat + TTL
    /\ req' = [req EXCEPT ![p] =
                 [Idle EXCEPT !.on = r, !.cookie = c, !.floor = closed[c.user]]]
    /\ Goto(p, "stat")
    /\ UNCHANGED <<now, changes, issued, disk, caches, ghosts>>

\* Mutant of Current: any map will do once there is one.
CurrentOnceLoaded(r) == mtime = 0 \/ cached[r] # 0
Current(r) == mtime = 0 \/ cached[r] = mtime

LookupStat(p) ==
    LET r == req[p].on
    IN  /\ pc[p] = "stat"
        /\ mu[r] = None
        /\ IF Current(r)
           THEN Goto(p, "decide") /\ UNCHANGED <<mu, req>>
           ELSE /\ mu' = [mu EXCEPT ![r] = p]
                /\ req' = [req EXCEPT ![p].file = mtime]
                /\ Goto(p, "load")
        /\ UNCHANGED <<now, changes, issued, disk, cache, cached, ghosts>>

\* os.Stat failed: the map stays what it was.
LookupStatFails(p) ==
    LET r == req[p].on
    IN  /\ FileFails
        /\ pc[p] = "stat"
        /\ mu[r] = None
        /\ req' = [req EXCEPT ![p].stale = ~Current(r)]
        /\ Goto(p, "decide")
        /\ UNCHANGED <<now, changes, issued, disk, caches, ghosts>>

LookupLoad(p) ==
    LET r == req[p].on
    IN  /\ pc[p] = "load"
        /\ cache' = [cache EXCEPT ![r] = epochs]
        /\ cached' = [cached EXCEPT ![r] = req[p].file]
        /\ mu' = [mu EXCEPT ![r] = None]
        /\ Goto(p, "decide")
        /\ UNCHANGED <<now, changes, issued, disk, req, ghosts>>

\* So it does when the file cannot be read, or parsed.
LookupLoadFails(p) ==
    /\ FileFails
    /\ pc[p] = "load"
    /\ req' = [req EXCEPT ![p].stale = TRUE]
    /\ mu' = [mu EXCEPT ![req[p].on] = None]
    /\ Goto(p, "decide")
    /\ UNCHANGED <<now, changes, issued, disk, cache, cached, ghosts>>

\* Mutant of Valid: a cookie's own millisecond is closed with the rest.
ValidAfter(c, notBefore) == c.iat > notBefore
Valid(c, notBefore) == c.iat >= notBefore

LookupDecide(p) ==
    LET c == req[p].cookie
    IN  /\ pc[p] = "decide"
        /\ IF Valid(c, cache[req[p].on][c.user])
           THEN Goto(p, "accepted") /\ UNCHANGED req
           ELSE Finish(p)
        /\ UNCHANGED <<now, changes, issued, disk, caches, ghosts>>

Served(p) ==
    /\ pc[p] = "accepted"
    /\ Finish(p)
    /\ UNCHANGED <<now, changes, issued, disk, caches, ghosts>>

---------------------------------------------------------------------------
(* A replica dies with its requests and its cache; the kernel drops its    *)
(* flock.                                                                  *)

Crash(r) ==
    LET dead == {p \in Procs : req[p].on = r}
    IN  /\ cached[r] # 0 \/ dead # {}
        /\ pc' = [p \in Procs |-> IF p \in dead THEN "idle" ELSE pc[p]]
        /\ req' = [p \in Procs |-> IF p \in dead THEN Idle ELSE req[p]]
        /\ flock' = IF flock \in dead THEN None ELSE flock
        /\ cache' = [cache EXCEPT ![r] = Empty]
        /\ cached' = [cached EXCEPT ![r] = 0]
        /\ mu' = [mu EXCEPT ![r] = None]
        /\ UNCHANGED <<now, changes, issued, epochs, mtime, ghosts>>

Tick ==
    /\ now < MaxNow
    /\ now' = now + 1
    /\ UNCHANGED <<changes, issued, disk, caches, pc, req, ghosts>>

Next ==
    \/ \E p \in Procs :
          \/ \E r \in Replicas, u \in Users : Login(p, r, u) \/ Change(p, r, u)
          \/ \E r \in Replicas, c \in issued : Lookup(p, r, c)
          \/ LoginCreate(p) \/ Set(p) \/ Now(p) \/ Lock(p) \/ ReadMap(p)
          \/ Rename(p) \/ UpdateCache(p) \/ Unlock(p) \/ BumpError(p)
          \/ Reissue(p) \/ Answer(p)
          \/ LookupStat(p) \/ LookupStatFails(p) \/ LookupLoad(p) \/ LookupLoadFails(p)
          \/ LookupDecide(p) \/ Served(p)
    \/ \E r \in Replicas : Crash(r)
    \/ Tick

Spec == Init /\ [][Next]_vars

---------------------------------------------------------------------------
(* Properties.                                                             *)

TypeOK ==
    /\ now \in Times
    /\ changes \in [Users -> Nat]
    /\ issued \subseteq Cookies
    /\ epochs \in [Users -> Times]
    /\ mtime \in Times
    /\ flock \in Procs \cup {None}
    /\ cache \in [Replicas -> [Users -> Times]]
    /\ cached \in [Replicas -> Times]
    /\ mu \in [Replicas -> Procs \cup {None}]
    /\ pc \in [Procs -> Labels]
    /\ req \in [Procs -> Work]
    /\ closed \in [Users -> Times]
    /\ forgot \subseteq Users

\* Once a password change whose epoch was written has been answered, no replica
\* serves a cookie older than it, whatever the replica had cached and whichever
\* replicas die ("every cookie issued earlier stops verifying",
\* session.go:132-133; "so every replica agrees", epoch.go:39); except for a
\* replica that could not look at the file, and a user whose time was taken out
\* of it by a bump that could not.
OthersClosed ==
    /\ TypeOK
    /\ \A p \in Procs :
          pc[p] = "accepted" =>
             \/ req[p].cookie.iat >= req[p].floor
             \/ req[p].stale
             \/ req[p].cookie.user \in forgot

\* The caller of a password change stays signed in: the cookie it is answered
\* with passes the epoch its own change has set (session.go:133-135).
OwnSessionKept ==
    \A p \in Procs :
        pc[p] = "answer" => Valid(req[p].cookie, epochs[req[p].user])

\* A new version of the file is the old one with one user's time changed,
\* however the bumps of several replicas interleave, fail or die, or it comes
\* from a bump that could not read the old one (epoch.go:91-94).
OneTimeMoves ==
    epochs' # epochs => \E u \in Users : \A v \in Users \ {u} : epochs'[v] = epochs[v]
UnreadRenamed ==
    \E p \in Procs : pc[p] = "rename" /\ pc'[p] = "cache" /\ req[p].unread
LostOnlyUnread == [][OneTimeMoves \/ UnreadRenamed]_vars

=============================================================================
