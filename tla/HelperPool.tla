----------------------------- MODULE HelperPool -----------------------------
(***************************************************************************)
(* The pool of helper processes (internal/helperpool/pool.go): one process *)
(* per user, started with that user's credentials, shared by every request *)
(* of the user, replaced when the user's groups change, evicted when the   *)
(* pool is full and reaped when idle.                                      *)
(*                                                                         *)
(* The pool mutex makes each critical section of the code one action.  A   *)
(* request holds it twice in acquire (Lookup, then the actions on "apply"),  *)
(* resolves its credentials in between without it, and takes it again in   *)
(* release.  Clocks are abstracted to the two comparisons the code makes:  *)
(* credsOld[e] is "time.Since(credsAt) >= CredsTTL", idleOld[e] is         *)
(* "idleSince.Before(cutoff)".                                             *)
(***************************************************************************)
EXTENDS Naturals, FiniteSets

CONSTANTS
    Users,        \* account names
    Reqs,         \* request goroutines: each runs Pool.Do again and again
    EntryIds,     \* identities of *entry values and their processes
    Creds,        \* what the name service can answer: [uid, groups] records
    Ceilings,     \* what Config.MaxHelpers may be
    None          \* no entry, no user

(* Creds{}: what an acquire holds when it did not resolve. *)
ZeroCreds == [uid |-> 0, groups |-> None]

ASSUME PoolAssumption ==
    /\ IsFiniteSet(Reqs)
    /\ Ceilings \subseteq Nat \ {0}
    /\ None \notin EntryIds
    /\ None \notin Users
    /\ \A c \in Creds : c.uid \in Nat

VARIABLES
    helpers,   \* Pool.helpers: the live entry of each user, or None
    newer,     \* Pool.lru as its order: <<e, f>> when e is nearer the front
    closed,    \* Pool.closed
    ceiling,   \* cfg.MaxHelpers, fixed when the pool is made
    owner,     \* entry.user
    hcreds,    \* entry.helper.Creds(): fixed when the process is started
    inUse,     \* entry.inUse
    credsOld,  \* the entry's CredsTTL has run out
    idleOld,   \* the entry has been idle for IdleTimeout
    proc,      \* "none" | "running" | "stopping" (go helper.Stop() launched)
    pc,        \* "idle" | "resolve" | "apply" | "using"
    user,      \* the user the request runs as
    need,      \* needCreds
    rcreds,    \* creds, as this acquire resolved them
    ent        \* the entry acquire returned

pool    == <<helpers, newer, closed, ceiling>>
entries == <<owner, hcreds, inUse, credsOld, idleOld, proc>>
reqs    == <<pc, user, need, rcreds, ent>>
vars    == <<pool, entries, reqs>>

Live == {helpers[u] : u \in Users} \ {None}

Idle(S) == {e \in S : inUse[e] = 0}

(***************************************************************************)
(* Bugs this code could have had: mutated forms of the definitions below,  *)
(* each of which breaks one of the properties.                             *)
(***************************************************************************)
SameGroupsNotCompared(c, d) == TRUE
StartableAsRoot(c) == TRUE
StopIdleOrBusy(R) ==
    [e \in EntryIds |-> IF e \in R THEN "stopping" ELSE proc[e]]
CountedNever(e) == inUse
DroppedTwice(e) == [inUse EXCEPT ![e] = @ - 2]
TouchWithoutMoving(e, live) == newer \cup ({e} \X (live \ {e}))
MustEvictLate(S) == Cardinality(S) > ceiling
VictimsFromTheFront(S, V) ==
    /\ V \subseteq Idle(S)
    /\ Cardinality(S \ V) = ceiling - 1
    /\ \A v \in V, f \in Idle(S) \ V : <<v, f>> \in newer
VictimsBusyToo(S, V) ==
    /\ V \subseteq S
    /\ Cardinality(S \ V) = ceiling - 1
CachedEvenRetired(r) ==
    IF helpers[user[r]] = None THEN None
    ELSE CHOOSE e \in EntryIds : owner[e] = user[r] /\ proc[e] = "running"
LastReferenceForgets(e) == FALSE

(***************************************************************************)
(* The helpers acquire, retire, makeRoom and reapLocked are built from.    *)
(* Retiring is order-independent, so the entries one critical section      *)
(* retires are handled as a set R.                                         *)
(***************************************************************************)
(* slices are compared, and GID with them; the UID is not. *)
SameGroups(c, d) == c.groups = d.groups

(* acquire: the entry the map holds for the request's user. *)
Cached(r) == helpers[user[r]]

(* checkout: e.inUse++, and release: e.inUse--. *)
Counted(e) == [inUse EXCEPT ![e] = @ + 1]
Dropped(e) == [inUse EXCEPT ![e] = @ - 1]

(* retire: delete(p.helpers, e.user). *)
Without(R) == [u \in Users |-> IF helpers[u] \in R THEN None ELSE helpers[u]]

(* retire: an idle helper is stopped at once, a busy one by its last release. *)
StopIdle(R) ==
    [e \in EntryIds |-> IF e \in Idle(R) THEN "stopping" ELSE proc[e]]

(* The lru order once only the entries of S are listed. *)
Listed(S) == newer \cap (S \X S)

(* checkout: MoveToFront of e, where `live' is what the list holds then. *)
Touch(e, live) ==
    Listed(live \ {e}) \cup ({e} \X (live \ {e}))

(* reapLocked: what it retires out of S. *)
Reapable(S) == {e \in Idle(S) : idleOld[e]}

(* makeRoom: whether the loop has anything to evict out of S. *)
MustEvict(S) == Cardinality(S) >= ceiling

(* makeRoom with lruIdle: V is what the loop evicts out of S when it        *)
(* succeeds, idle entries from the back of the list until there is room.    *)
Victims(S, V) ==
    /\ V \subseteq Idle(S)
    /\ Cardinality(S \ V) = ceiling - 1
    /\ \A v \in V, f \in Idle(S) \ V : <<f, v>> \in newer

(* Spawn refuses to start a helper as root. *)
Startable(c) == c.uid # 0

(* release: whether dropping the last reference to e stops its process.    *)
(* The lookup is by user, so any live entry of that user answers it.       *)
LastReferenceStops(e) == helpers[owner[e]] = None

(* The request returns to its caller. *)
Return(r) ==
    /\ pc' = [pc EXCEPT ![r] = "idle"]
    /\ user' = [user EXCEPT ![r] = None]
    /\ need' = [need EXCEPT ![r] = FALSE]
    /\ rcreds' = [rcreds EXCEPT ![r] = ZeroCreds]
    /\ ent' = [ent EXCEPT ![r] = None]

-----------------------------------------------------------------------------
Init ==
    /\ helpers = [u \in Users |-> None]
    /\ newer = {}
    /\ closed = FALSE
    /\ ceiling \in Ceilings
    /\ owner = [e \in EntryIds |-> None]
    /\ hcreds = [e \in EntryIds |-> ZeroCreds]
    /\ inUse = [e \in EntryIds |-> 0]
    /\ credsOld = [e \in EntryIds |-> FALSE]
    /\ idleOld = [e \in EntryIds |-> FALSE]
    /\ proc = [e \in EntryIds |-> "none"]
    /\ pc = [r \in Reqs |-> "idle"]
    /\ user = [r \in Reqs |-> None]
    /\ need = [r \in Reqs |-> FALSE]
    /\ rcreds = [r \in Reqs |-> ZeroCreds]
    /\ ent = [r \in Reqs |-> None]

(* acquire, first critical section. *)
Lookup(r, u) ==
    /\ pc[r] = "idle"
    /\ ~closed
    /\ LET e == helpers[u]
           needCreds == IF e = None THEN TRUE ELSE credsOld[e]
       IN  /\ need' = [need EXCEPT ![r] = needCreds]
           /\ pc' = [pc EXCEPT ![r] = IF needCreds THEN "resolve" ELSE "apply"]
    /\ user' = [user EXCEPT ![r] = u]
    /\ UNCHANGED <<pool, entries, rcreds, ent>>

(* acquire on a closed pool: ErrClosed, and nothing changes. *)
LookupClosed(r) ==
    /\ pc[r] = "idle"
    /\ closed
    /\ UNCHANGED vars

(* acquire: Resolver.Resolve answers c, outside the lock.  Memberships     *)
(* change at any time, so two resolutions of one user may answer           *)
(* differently, and the older answer may be applied last.                  *)
Resolve(r, c) ==
    /\ pc[r] = "resolve"
    /\ rcreds' = [rcreds EXCEPT ![r] = c]
    /\ pc' = [pc EXCEPT ![r] = "apply"]
    /\ UNCHANGED <<pool, entries, user, need, ent>>

(* acquire: Resolver.Resolve fails, and the request with it. *)
ResolveFails(r) ==
    /\ pc[r] = "resolve"
    /\ Return(r)
    /\ UNCHANGED <<pool, entries>>

(* acquire, second critical section, on a pool closed meanwhile. *)
ApplyClosed(r) ==
    /\ pc[r] = "apply"
    /\ closed
    /\ Return(r)
    /\ UNCHANGED <<pool, entries>>

(* acquire, second critical section: the cached helper will do. *)
CheckoutCached(r) ==
    LET e == Cached(r) IN
    /\ pc[r] = "apply"
    /\ ~closed
    /\ e # None
    /\ need[r] => SameGroups(rcreds[r], hcreds[e])
    /\ credsOld' = IF need[r] THEN [credsOld EXCEPT ![e] = FALSE] ELSE credsOld
    /\ inUse' = Counted(e)
    /\ newer' = Touch(e, Live)
    /\ pc' = [pc EXCEPT ![r] = "using"]
    /\ ent' = [ent EXCEPT ![r] = e]
    /\ UNCHANGED <<helpers, closed, ceiling, owner, hcreds, idleOld, proc,
                   user, need, rcreds>>

(* The cached helper holds other groups than this acquire resolved, or     *)
(* there is none: acquire goes on to retire it and to start a new one.     *)
MustStart(r) ==
    LET e == Cached(r) IN
    /\ pc[r] = "apply"
    /\ ~closed
    /\ e # None => need[r] /\ ~SameGroups(rcreds[r], hcreds[e])

(* What is still listed once acquire retired the user's own entry (whose   *)
(* credsAt it has just renewed: nothing reads it any more) and makeRoom    *)
(* reaped the rest.                                                        *)
Kept(r) ==
    LET others == Live \ {Cached(r)}
    IN  others \ Reapable(others)

(* acquire, second critical section: retire, makeRoom, spawn, checkout.    *)
(* The process takes an identity no running process and no request has.    *)
StartNew(r) ==
    /\ MustStart(r)
    /\ Startable(rcreds[r])
    /\ \E V \in SUBSET Kept(r), e \in EntryIds :
        /\ IF MustEvict(Kept(r)) THEN Victims(Kept(r), V) ELSE V = {}
        /\ proc[e] = "none"
        /\ LET left == Kept(r) \ V
           IN  /\ helpers' = [Without(Live \ left) EXCEPT ![user[r]] = e]
               /\ newer' = Touch(e, left \cup {e})
               /\ proc' = [StopIdle(Live \ left) EXCEPT ![e] = "running"]
        /\ owner' = [owner EXCEPT ![e] = user[r]]
        /\ hcreds' = [hcreds EXCEPT ![e] = rcreds[r]]
        /\ inUse' = [inUse EXCEPT ![e] = 1]
        /\ credsOld' = [credsOld EXCEPT ![e] = FALSE]
        /\ idleOld' = [idleOld EXCEPT ![e] = FALSE]
        /\ ent' = [ent EXCEPT ![r] = e]
    /\ pc' = [pc EXCEPT ![r] = "using"]
    /\ UNCHANGED <<closed, ceiling, user, need, rcreds>>

(* acquire fails in makeRoom because every helper left is busy; what it    *)
(* has retired until then stays retired.                                   *)
StartNoRoom(r) ==
    /\ MustStart(r)
    /\ MustEvict(Kept(r) \ Idle(Kept(r)))
    /\ LET left == Kept(r) \ Idle(Kept(r))
       IN  /\ helpers' = Without(Live \ left)
           /\ newer' = Listed(left)
           /\ proc' = StopIdle(Live \ left)
    /\ Return(r)
    /\ UNCHANGED <<closed, ceiling, owner, hcreds, inUse, credsOld, idleOld>>

(* acquire fails in spawn: refused for root credentials, or the operating  *)
(* system said no.  There was room by then, so makeRoom's evictions stand. *)
StartFails(r) ==
    /\ MustStart(r)
    /\ \E V \in SUBSET Kept(r) :
        /\ IF MustEvict(Kept(r)) THEN Victims(Kept(r), V) ELSE V = {}
        /\ LET left == Kept(r) \ V
           IN  /\ helpers' = Without(Live \ left)
               /\ newer' = Listed(left)
               /\ proc' = StopIdle(Live \ left)
    /\ Return(r)
    /\ UNCHANGED <<closed, ceiling, owner, hcreds, inUse, credsOld, idleOld>>

(* The call to the helper returned or its context ended: release. *)
Release(r) ==
    LET e == ent[r] IN
    /\ pc[r] = "using"
    /\ inUse' = Dropped(e)
    /\ idleOld' = IF inUse[e] = 1 THEN [idleOld EXCEPT ![e] = FALSE] ELSE idleOld
    /\ proc' = IF inUse[e] = 1 /\ LastReferenceStops(e)
               THEN [proc EXCEPT ![e] = "stopping"] ELSE proc
    /\ Return(r)
    /\ UNCHANGED <<pool, owner, hcreds, credsOld>>

(* Reap, called periodically by the server. *)
Reap ==
    /\ Reapable(Live) # {}
    /\ helpers' = Without(Reapable(Live))
    /\ newer' = Listed(Live \ Reapable(Live))
    /\ proc' = StopIdle(Reapable(Live))
    /\ UNCHANGED <<closed, ceiling, owner, hcreds, inUse, credsOld, idleOld, reqs>>

(* Close: in-flight requests keep their helpers until they return. *)
Close ==
    /\ ~closed
    /\ closed' = TRUE
    /\ helpers' = Without(Live)
    /\ newer' = {}
    /\ proc' = StopIdle(Live)
    /\ UNCHANGED <<ceiling, owner, hcreds, inUse, credsOld, idleOld, reqs>>

(* The Stop goroutine ends: the connection is closed, the process waited   *)
(* for, and the entry is garbage.                                          *)
Stopped(e) ==
    /\ proc[e] = "stopping"
    /\ proc' = [proc EXCEPT ![e] = "none"]
    /\ owner' = [owner EXCEPT ![e] = None]
    /\ hcreds' = [hcreds EXCEPT ![e] = ZeroCreds]
    /\ credsOld' = [credsOld EXCEPT ![e] = FALSE]
    /\ idleOld' = [idleOld EXCEPT ![e] = FALSE]
    /\ UNCHANGED <<pool, inUse, reqs>>

(* Time passes CredsTTL for an entry the pool still reads it of. *)
CredsExpire(e) ==
    /\ e \in Live
    /\ ~credsOld[e]
    /\ credsOld' = [credsOld EXCEPT ![e] = TRUE]
    /\ UNCHANGED <<pool, owner, hcreds, inUse, idleOld, proc, reqs>>

(* Time passes IdleTimeout for a live entry nobody uses. *)
IdleExpire(e) ==
    /\ e \in Idle(Live)
    /\ ~idleOld[e]
    /\ idleOld' = [idleOld EXCEPT ![e] = TRUE]
    /\ UNCHANGED <<pool, owner, hcreds, inUse, credsOld, proc, reqs>>

Next ==
    \/ \E r \in Reqs, u \in Users : Lookup(r, u)
    \/ \E r \in Reqs : LookupClosed(r)
    \/ \E r \in Reqs, c \in Creds : Resolve(r, c)
    \/ \E r \in Reqs : ResolveFails(r)
    \/ \E r \in Reqs : ApplyClosed(r)
    \/ \E r \in Reqs : CheckoutCached(r)
    \/ \E r \in Reqs : StartNew(r)
    \/ \E r \in Reqs : StartNoRoom(r)
    \/ \E r \in Reqs : StartFails(r)
    \/ \E r \in Reqs : Release(r)
    \/ Reap
    \/ Close
    \/ \E e \in EntryIds : Stopped(e)
    \/ \E e \in EntryIds : CredsExpire(e)
    \/ \E e \in EntryIds : IdleExpire(e)

Spec == Init /\ [][Next]_vars

-----------------------------------------------------------------------------
TypeOK ==
    /\ helpers \in [Users -> EntryIds \cup {None}]
    /\ newer \subseteq EntryIds \X EntryIds
    /\ closed \in BOOLEAN
    /\ ceiling \in Ceilings
    /\ owner \in [EntryIds -> Users \cup {None}]
    /\ hcreds \in [EntryIds -> Creds \cup {ZeroCreds}]
    /\ inUse \in [EntryIds -> Nat]
    /\ credsOld \in [EntryIds -> BOOLEAN]
    /\ idleOld \in [EntryIds -> BOOLEAN]
    /\ proc \in [EntryIds -> {"none", "running", "stopping"}]
    /\ pc \in [Reqs -> {"idle", "resolve", "apply", "using"}]
    /\ user \in [Reqs -> Users \cup {None}]
    /\ need \in [Reqs -> BOOLEAN]
    /\ rcreds \in [Reqs -> Creds \cup {ZeroCreds}]
    /\ ent \in [Reqs -> EntryIds \cup {None}]

Holders(e) == {r \in Reqs : ent[r] = e}

(* A helper is never stopped while a request holds it ("A helper is never  *)
(* stopped while this is above zero", entry.inUse): its process is running *)
(* for as long as some request was handed the entry.                       *)
NeverStoppedInUse ==
    \A r \in Reqs : pc[r] = "using" => proc[ent[r]] = "running"

(* The in-flight count, by which retire and release decide whether to stop *)
(* a process, is the number of requests that hold the entry.               *)
InUseIsHolders == \A e \in EntryIds : inUse[e] = Cardinality(Holders(e))

(* A request runs as the user it was made for and never as root, however   *)
(* the pool was evicted or replaced between its two critical sections.     *)
ServedAsSelf ==
    \A r \in Reqs : pc[r] = "using" =>
        /\ owner[ent[r]] = user[r]
        /\ hcreds[ent[r]].uid # 0

(* The map holds one running helper per user, under its own user's name,   *)
(* and at most MaxHelpers of them (makeRoom).                              *)
MapSound ==
    /\ Cardinality(Live) <= ceiling
    /\ \A u \in Users : helpers[u] # None =>
        /\ owner[helpers[u]] = u
        /\ proc[helpers[u]] = "running"

(* Both: the pool hands out the requester's own running helper, of at most *)
(* MaxHelpers, and remembers no other.                                     *)
PoolSound == ServedAsSelf /\ MapSound

(* An acquire that resolved the user's groups is served by a helper that   *)
(* holds those groups (acquire: "a removed one would still work").         *)
ServesResolved ==
    \A r \in Reqs : pc[r] = "apply" /\ pc'[r] = "using" /\ need[r]
        => hcreds'[ent'[r]].groups = rcreds[r].groups
ServedWithResolvedGroups == [][ServesResolved]_vars

(* A retired helper takes no new request: the count of one that is out of  *)
(* the map only falls until its process is stopped.                        *)
DrainsRetired ==
    \A e \in EntryIds : proc[e] # "none" /\ e \notin Live
        => inUse'[e] <= inUse[e]

(* Once the pool is closed the last request to let go of a helper stops it *)
(* ("their helpers are stopped as they finish", Close): release looks for  *)
(* a live entry, and there is none.                                        *)
ClosedStops ==
    \A e \in EntryIds : closed /\ inUse[e] = 1 /\ inUse'[e] = 0
        => proc'[e] = "stopping"

RetiredOnlyDrains == [][DrainsRetired /\ ClosedStops]_vars

(* Eviction is least-recently-used: when a request for another user makes  *)
(* room, no idle helper that stays was used before the one that goes,      *)
(* unless the one that goes has been idle for IdleTimeout.                 *)
OldestGoes ==
    \A r \in Reqs, u, w \in Users :
        LET e == helpers[u]
            f == helpers[w]
        IN  /\ pc[r] = "apply" /\ pc'[r] = "using"
            /\ u # user[r] /\ w # user[r]
            /\ e # None /\ f # None
            /\ helpers'[u] = None /\ helpers'[w] = f
            /\ inUse[f] = 0 /\ ~idleOld[e]
            => <<f, e>> \in newer /\ <<e, f>> \notin newer

(* "Failing here is better than queueing" (makeRoom), and than taking a    *)
(* helper away: a user whose helper is busy loses it to a request of that  *)
(* user with other groups or to Close, never to somebody else who wants    *)
(* its place, so that pressure on the pool gives nobody a second process.  *)
OthersLeaveBusy ==
    \A u \in Users :
        /\ helpers[u] # None
        /\ inUse[helpers[u]] > 0
        /\ ~closed'
        /\ \A r \in Reqs : pc[r] = "apply" => user[r] # u
        => helpers'[u] = helpers[u]

(* Who goes to make room: an idle helper, and of those the least recently  *)
(* used (makeRoom, lruIdle).                                               *)
EvictsOldest == [][OldestGoes /\ OthersLeaveBusy]_vars

(* "A helper retired while it was busy is stopped by whoever drops the     *)
(* last reference" (release): no process outlives its last user outside    *)
(* the map.                                                                *)
RetiredIsStopped ==
    \A e \in EntryIds : proc[e] = "running" /\ inUse[e] = 0 => e \in Live
=============================================================================
