-------------------------- MODULE HelperPoolProofs --------------------------
(***************************************************************************)
(* The safety properties of HelperPool for every set of users, requests    *)
(* and entries and every cap.                                              *)
(*                                                                         *)
(* None of them is inductive alone: that a process is running while it is  *)
(* held needs the in-flight count to be right (retire and release stop on  *)
(* a count of zero), and that the entry acquire hands out is running needs *)
(* the map to hold only running entries.  IInv is their conjunction.       *)
(***************************************************************************)
EXTENDS HelperPool, FiniteSetTheorems, TLAPS

(* What a request holds. *)
Holding ==
    \A r \in Reqs :
        IF pc[r] = "using"
        THEN /\ ent[r] \in EntryIds
             /\ proc[ent[r]] = "running"
             /\ owner[ent[r]] = user[r]
             /\ hcreds[ent[r]].uid # 0
        ELSE ent[r] = None

Asking == \A r \in Reqs : pc[r] # "idle" => user[r] \in Users

(* What the map holds. *)
Mapped ==
    \A u \in Users : helpers[u] # None =>
        /\ owner[helpers[u]] = u
        /\ proc[helpers[u]] = "running"
        /\ hcreds[helpers[u]].uid # 0

Capped ==
    /\ IsFiniteSet(Live)
    /\ Cardinality(Live) <= ceiling

IInv ==
    /\ TypeOK
    /\ Holding
    /\ Asking
    /\ Mapped
    /\ Capped
    /\ InUseIsHolders

-----------------------------------------------------------------------------
(* The requests that hold an entry can be counted. *)
LEMMA HoldersFinite == \A e : IsFiniteSet(Holders(e))
<1> TAKE e
<1>1. Holders(e) \in SUBSET Reqs
  BY DEF Holders
<1> QED BY <1>1, FS_Subset, PoolAssumption

(* A count of zero means no request holds the entry. *)
LEMMA ZeroMeansFree ==
    ASSUME TypeOK, InUseIsHolders, NEW e \in EntryIds, inUse[e] = 0
    PROVE  \A r \in Reqs : ent[r] # e
<1>1. Cardinality(Holders(e)) = 0
  BY DEF InUseIsHolders
<1>2. Holders(e) = {}
  BY <1>1, HoldersFinite, FS_EmptySet
<1> QED BY <1>2 DEF Holders

(* An entry whose process is not running is held by nobody. *)
LEMMA NotRunningMeansFree ==
    ASSUME Holding, NEW e \in EntryIds, proc[e] # "running"
    PROVE  \A r \in Reqs : ent[r] # e
BY PoolAssumption DEF Holding

(* The map holds entries. *)
LEMMA LiveAreEntries ==
    ASSUME TypeOK
    PROVE  /\ Live \subseteq EntryIds
           /\ \A u \in Users : helpers[u] # None => helpers[u] \in Live
BY DEF TypeOK, Live

(* What the map holds has a running process. *)
LEMMA LiveRunning ==
    ASSUME TypeOK, Mapped
    PROVE  \A e \in Live : proc[e] = "running"
BY DEF TypeOK, Live, Mapped

(* What Without leaves in the map: retiring the entries of R. *)
LEMMA WithoutLive ==
    ASSUME TypeOK, NEW R, helpers' = Without(R)
    PROVE  /\ helpers' \in [Users -> EntryIds \cup {None}]
           /\ \A u \in Users : helpers'[u] # None =>
                 helpers'[u] = helpers[u] /\ helpers[u] \notin R
           /\ Live' \subseteq Live
<1>1. \A u \in Users : helpers'[u] # None =>
         helpers'[u] = helpers[u] /\ helpers[u] \notin R
  BY DEF Without
<1>2. helpers' \in [Users -> EntryIds \cup {None}]
  BY DEF Without, TypeOK
<1>3. Live' \subseteq Live
  BY <1>1 DEF Live
<1> QED BY <1>1, <1>2, <1>3

(* The ceiling of a pool is a positive number. *)
LEMMA CeilingPositive == TypeOK => ceiling \in Nat /\ ceiling >= 1
BY PoolAssumption DEF TypeOK

(* Retiring entries, whichever they are, disturbs no request in flight. *)
LEMMA RetirePreserves ==
    ASSUME IInv, NEW R \in SUBSET EntryIds,
           helpers' = Without(R), proc' = StopIdle(R),
           UNCHANGED <<owner, hcreds, ceiling>>
    PROVE  /\ Mapped'
           /\ Capped'
           /\ proc' \in [EntryIds -> {"none", "running", "stopping"}]
           /\ \A r \in Reqs : ent[r] \in EntryIds => proc'[ent[r]] = proc[ent[r]]
<1> USE DEF IInv
<1>1. \A e \in EntryIds : proc'[e] = IF e \in R /\ inUse[e] = 0 THEN "stopping"
                                     ELSE proc[e]
  BY DEF StopIdle, Idle
<1>2. proc' \in [EntryIds -> {"none", "running", "stopping"}]
  BY <1>1 DEF StopIdle, TypeOK
<1>3. \A r \in Reqs : ent[r] \in EntryIds => proc'[ent[r]] = proc[ent[r]]
  BY <1>1, ZeroMeansFree
<1>4. Mapped'
  <2> SUFFICES ASSUME NEW u \in Users, helpers'[u] # None
               PROVE  /\ owner'[helpers'[u]] = u
                      /\ proc'[helpers'[u]] = "running"
                      /\ hcreds'[helpers'[u]].uid # 0
    BY DEF Mapped
  <2>1. helpers'[u] = helpers[u] /\ helpers[u] \notin R
    BY WithoutLive
  <2>2. helpers[u] \in EntryIds
    BY <2>1, LiveAreEntries
  <2> QED BY <2>1, <2>2, <1>1 DEF Mapped
<1>5. Capped'
  <2>1. Live' \in SUBSET Live
    BY WithoutLive
  <2>2. IsFiniteSet(Live') /\ Cardinality(Live') <= Cardinality(Live)
    BY <2>1, FS_Subset DEF Capped
  <2>3. Cardinality(Live') \in Nat /\ Cardinality(Live) \in Nat
    BY <2>2, FS_CardinalityType DEF Capped
  <2> QED BY <2>2, <2>3, CeilingPositive DEF Capped
<1> QED BY <1>2, <1>3, <1>4, <1>5

(* A request that was handed no helper returns to its caller. *)
LEMMA ReturnPreserves ==
    ASSUME IInv, NEW r \in Reqs, pc[r] # "using", Return(r),
           UNCHANGED <<owner, hcreds, inUse>>,
           \A q \in Reqs : ent[q] \in EntryIds => proc'[ent[q]] = proc[ent[q]]
    PROVE  /\ Holding'
           /\ Asking'
           /\ InUseIsHolders'
           /\ pc' \in [Reqs -> {"idle", "resolve", "apply", "using"}]
           /\ user' \in [Reqs -> Users \cup {None}]
           /\ need' \in [Reqs -> BOOLEAN]
           /\ rcreds' \in [Reqs -> Creds \cup {ZeroCreds}]
           /\ ent' \in [Reqs -> EntryIds \cup {None}]
<1> USE DEF IInv
<1>1. ent' = ent
  BY DEF Return, Holding, TypeOK
<1>2. Holding'
  BY <1>1 DEF Holding, Return, TypeOK
<1>3. Asking'
  BY DEF Asking, Return, TypeOK
<1>4. InUseIsHolders'
  BY <1>1 DEF InUseIsHolders, Holders
<1>5. /\ pc' \in [Reqs -> {"idle", "resolve", "apply", "using"}]
      /\ user' \in [Reqs -> Users \cup {None}]
      /\ need' \in [Reqs -> BOOLEAN]
      /\ rcreds' \in [Reqs -> Creds \cup {ZeroCreds}]
      /\ ent' \in [Reqs -> EntryIds \cup {None}]
  BY DEF Return, TypeOK
<1> QED BY <1>2, <1>3, <1>4, <1>5

-----------------------------------------------------------------------------
(* The invariant holds at first. *)
LEMMA InitEstablishes == Init => IInv
<1> SUFFICES ASSUME Init PROVE IInv
  OBVIOUS
<1> USE DEF Init
<1>1. TypeOK
  BY DEF TypeOK
<1>2. Live = {}
  BY DEF Live
<1>3. Capped
  BY <1>2, FS_EmptySet, PoolAssumption DEF Capped
<1>4. InUseIsHolders
  <2>1. \A e \in EntryIds : Holders(e) = {}
    BY PoolAssumption DEF Holders
  <2> QED BY <2>1, FS_EmptySet DEF InUseIsHolders
<1> QED BY <1>1, <1>3, <1>4 DEF IInv, Holding, Asking, Mapped

(* A request that begins holds nothing yet. *)
LEMMA LookupPreserves ==
    ASSUME IInv, NEW r \in Reqs, NEW u \in Users, Lookup(r, u)
    PROVE  IInv'
<1> USE DEF IInv, Lookup, pool, entries
<1>1. TypeOK'
  BY DEF TypeOK
<1>2. Holding' /\ Asking' /\ Mapped'
  BY DEF Holding, Asking, Mapped, TypeOK
<1>3. Capped' /\ InUseIsHolders'
  BY DEF Capped, Live, InUseIsHolders, Holders
<1> QED BY <1>1, <1>2, <1>3

(* resolve changes only what its request knows. *)
LEMMA ResolvePreserves ==
    ASSUME IInv, NEW r \in Reqs, NEW c \in Creds, Resolve(r, c)
    PROVE  IInv'
<1> USE DEF IInv, Resolve, pool, entries
<1>1. TypeOK'
  BY DEF TypeOK
<1>2. Holding' /\ Asking' /\ Mapped'
  BY DEF Holding, Asking, Mapped, TypeOK
<1>3. Capped' /\ InUseIsHolders'
  BY DEF Capped, Live, InUseIsHolders, Holders
<1> QED BY <1>1, <1>2, <1>3

(* ResolveFails and ApplyClosed only return the request. *)
LEMMA RefusalPreserves ==
    ASSUME IInv, NEW r \in Reqs, pc[r] # "using", Return(r),
           UNCHANGED <<pool, entries>>
    PROVE  IInv'
<1> USE DEF pool, entries
<1>1. \A q \in Reqs : ent[q] \in EntryIds => proc'[ent[q]] = proc[ent[q]]
  OBVIOUS
<1>2. Mapped' /\ Capped'
  BY DEF IInv, Mapped, Capped, Live
<1>3. TypeOK'
  BY <1>1, ReturnPreserves DEF TypeOK, IInv
<1> QED BY <1>1, <1>2, <1>3, ReturnPreserves DEF IInv

(* A cached helper is shared with one more request. *)
LEMMA CheckoutCachedPreserves ==
    ASSUME IInv, NEW r \in Reqs, CheckoutCached(r)
    PROVE  IInv'
<1> DEFINE e == helpers[user[r]]
<1> USE DEF IInv, CheckoutCached, Cached, Counted
<1>1. /\ user[r] \in Users
      /\ e \in EntryIds
      /\ e \in Live
  BY LiveAreEntries DEF Asking, TypeOK
<1>2. newer' \subseteq EntryIds \X EntryIds
  <2>1. Live \subseteq EntryIds
    BY LiveAreEntries
  <2> QED BY <1>1, <2>1 DEF TypeOK, Touch, Listed
<1>3. TypeOK'
  BY <1>1, <1>2 DEF TypeOK
<1>4. ent[r] = None /\ ent'[r] = e /\ \A q \in Reqs \ {r} : ent'[q] = ent[q]
  BY DEF Holding, TypeOK
<1>5. Holding' /\ Asking' /\ Mapped'
  BY <1>1, <1>4 DEF Holding, Asking, Mapped, TypeOK
<1>6. Capped'
  BY DEF Capped, Live
<1>7. InUseIsHolders'
  <2> SUFFICES ASSUME NEW f \in EntryIds
               PROVE  inUse'[f] = Cardinality(Holders(f)')
    BY DEF InUseIsHolders
  <2>1. CASE f = e
    <3>1. Holders(f)' = Holders(f) \cup {r} /\ r \notin Holders(f)
      BY <1>1, <1>4, <2>1, PoolAssumption DEF Holders
    <3>2. Cardinality(Holders(f)') = Cardinality(Holders(f)) + 1
      BY <3>1, HoldersFinite, FS_AddElement
    <3> QED BY <1>1, <2>1, <3>2 DEF InUseIsHolders, TypeOK
  <2>2. CASE f # e
    <3>1. Holders(f)' = Holders(f)
      BY <1>4, <2>2, PoolAssumption DEF Holders
    <3> QED BY <2>2, <3>1 DEF InUseIsHolders, TypeOK
  <2> QED BY <2>1, <2>2
<1> QED BY <1>3, <1>5, <1>6, <1>7

(* What acquire keeps is live, and there is room beside it. *)
LEMMA RoomIsMade ==
    ASSUME IInv, NEW r \in Reqs, NEW V \in SUBSET Kept(r),
           IF MustEvict(Kept(r)) THEN Victims(Kept(r), V) ELSE V = {}
    PROVE  /\ Kept(r) \ V \in SUBSET Live
           /\ IsFiniteSet(Kept(r) \ V)
           /\ Cardinality(Kept(r) \ V) <= ceiling - 1
<1>1. Kept(r) \ V \in SUBSET Live /\ Kept(r) \in SUBSET Live
  BY DEF Kept
<1>2. /\ IsFiniteSet(Kept(r) \ V)
      /\ IsFiniteSet(Kept(r))
  BY <1>1, FS_Subset DEF IInv, Capped
<1>3. /\ Cardinality(Kept(r) \ V) \in Nat
      /\ Cardinality(Kept(r)) \in Nat
  BY <1>2, FS_CardinalityType
<1>4. CASE MustEvict(Kept(r))
  BY <1>1, <1>2, <1>3, <1>4, CeilingPositive DEF Victims, IInv
<1>5. CASE ~MustEvict(Kept(r))
  <2>1. Kept(r) \ V = Kept(r)
    BY <1>5
  <2>2. ceiling \in Nat /\ ~(Cardinality(Kept(r)) >= ceiling)
    BY <1>5, CeilingPositive DEF MustEvict, IInv
  <2>3. Cardinality(Kept(r)) <= ceiling - 1
    BY <1>3, <2>2
  <2> QED BY <1>1, <1>2, <2>1, <2>3
<1> QED BY <1>4, <1>5

(* acquire retires what it must and starts a process of its own. *)
LEMMA StartNewPreserves ==
    ASSUME IInv, NEW r \in Reqs, StartNew(r)
    PROVE  IInv'
<1> USE DEF IInv
<1>0. PICK V \in SUBSET Kept(r), e \in EntryIds :
        /\ IF MustEvict(Kept(r)) THEN Victims(Kept(r), V) ELSE V = {}
        /\ proc[e] = "none"
        /\ LET left == Kept(r) \ V
           IN  /\ helpers' = [Without(Live \ left) EXCEPT ![user[r]] = e]
               /\ newer' = Touch(e, left \cup {e})
               /\ proc' = [StopIdle(Live \ left) EXCEPT ![e] = "running"]
        /\ owner' = [owner EXCEPT ![e] = user[r]]
        /\ hcreds' = [hcreds EXCEPT ![e] = rcreds[r]]
        /\ inUse' = [inUse EXCEPT ![e] = 1]
        /\ credsOld' = [credsOld EXCEPT ![e] = FALSE]
        /\ idleOld' = [idleOld EXCEPT ![e] = FALSE]
        /\ ent' = [ent EXCEPT ![r] = e]
  BY DEF StartNew
<1> DEFINE left == Kept(r) \ V
           R == Live \ left
<1>1. /\ pc[r] = "apply"
      /\ user[r] \in Users
      /\ rcreds[r] \in Creds \cup {ZeroCreds}
      /\ rcreds[r].uid # 0
      /\ pc' = [pc EXCEPT ![r] = "using"]
      /\ UNCHANGED <<closed, ceiling, user, need, rcreds>>
  BY DEF StartNew, MustStart, Startable, Asking, TypeOK
<1>2. /\ left \in SUBSET Live
      /\ IsFiniteSet(left)
      /\ Cardinality(left) <= ceiling - 1
  BY <1>0, RoomIsMade
<1>3. Live \subseteq EntryIds /\ e \notin Live
  BY <1>0, LiveAreEntries, LiveRunning
<1>4. \A q \in Reqs : ent[q] # e
  BY <1>0, NotRunningMeansFree
<1>5. \A f \in EntryIds : proc'[f] = IF f = e THEN "running"
                                     ELSE IF f \in R /\ inUse[f] = 0 THEN "stopping"
                                     ELSE proc[f]
  BY <1>0 DEF StopIdle, Idle
<1>6. \A u \in Users : helpers'[u] = IF u = user[r] THEN e
                                     ELSE IF helpers[u] \in R THEN None
                                     ELSE helpers[u]
  BY <1>0 DEF Without
<1>6a. /\ \A f \in EntryIds \ {e} : owner'[f] = owner[f] /\ hcreds'[f] = hcreds[f]
       /\ owner'[e] = user[r] /\ hcreds'[e] = rcreds[r]
  BY <1>0 DEF TypeOK
<1>7. TypeOK'
  <2>1. newer' \subseteq EntryIds \X EntryIds
    BY <1>0, <1>2, <1>3 DEF TypeOK, Touch, Listed
  <2>2. helpers' \in [Users -> EntryIds \cup {None}]
    BY <1>0 DEF TypeOK, Without
  <2>3. proc' \in [EntryIds -> {"none", "running", "stopping"}]
    BY <1>0 DEF TypeOK, StopIdle
  <2>4. /\ owner' \in [EntryIds -> Users \cup {None}]
        /\ hcreds' \in [EntryIds -> Creds \cup {ZeroCreds}]
        /\ inUse' \in [EntryIds -> Nat]
        /\ credsOld' \in [EntryIds -> BOOLEAN]
        /\ idleOld' \in [EntryIds -> BOOLEAN]
        /\ ent' \in [Reqs -> EntryIds \cup {None}]
    BY <1>0, <1>1 DEF TypeOK
  <2> QED BY <2>1, <2>2, <2>3, <2>4, <1>1 DEF TypeOK
<1>8. Mapped'
  <2> SUFFICES ASSUME NEW u \in Users, helpers'[u] # None
               PROVE  /\ owner'[helpers'[u]] = u
                      /\ proc'[helpers'[u]] = "running"
                      /\ hcreds'[helpers'[u]].uid # 0
    BY DEF Mapped
  <2>1. CASE u = user[r]
    BY <1>1, <1>5, <1>6, <1>6a, <2>1
  <2>2. CASE u # user[r]
    <3>1. /\ helpers'[u] = helpers[u]
          /\ helpers[u] \in Live
          /\ helpers[u] \notin R
      BY <1>6, <2>2, LiveAreEntries
    <3>2. helpers[u] # e /\ helpers[u] \in EntryIds
      BY <1>3, <3>1
    <3> QED BY <1>5, <1>6a, <3>1, <3>2 DEF Mapped
  <2> QED BY <2>1, <2>2
<1>9. Capped'
  <2>1. Live' \in SUBSET (left \cup {e})
    <3> SUFFICES ASSUME NEW u \in Users, helpers'[u] # None, u # user[r]
                 PROVE  helpers'[u] \in left
      BY <1>6 DEF Live
    <3>1. helpers'[u] = helpers[u] /\ helpers[u] \in Live /\ helpers[u] \notin R
      BY <1>6, LiveAreEntries
    <3> QED BY <3>1
  <2>2. /\ IsFiniteSet(left \cup {e})
        /\ Cardinality(left \cup {e}) <= Cardinality(left) + 1
    <3>1. Cardinality(left) \in Nat
      BY <1>2, FS_CardinalityType
    <3>2. /\ IsFiniteSet(left \cup {e})
          /\ Cardinality(left \cup {e}) = IF e \in left THEN Cardinality(left)
                                          ELSE Cardinality(left) + 1
      BY <1>2, FS_AddElement
    <3> HIDE DEF left
    <3> QED BY <3>1, <3>2
  <2>3. IsFiniteSet(Live') /\ Cardinality(Live') <= Cardinality(left \cup {e})
    BY <2>1, <2>2, FS_Subset
  <2>4. /\ Cardinality(Live') \in Nat
        /\ Cardinality(left) \in Nat
        /\ Cardinality(left \cup {e}) \in Nat
    BY <1>2, <2>2, <2>3, FS_CardinalityType
  <2>5. ceiling \in Nat /\ ceiling >= 1 /\ ceiling' = ceiling
    BY <1>1, CeilingPositive
  <2> QED BY <1>2, <2>2, <2>3, <2>4, <2>5 DEF Capped
<1>10. Holding'
  <2> SUFFICES ASSUME NEW q \in Reqs
               PROVE  IF pc'[q] = "using"
                      THEN /\ ent'[q] \in EntryIds
                           /\ proc'[ent'[q]] = "running"
                           /\ owner'[ent'[q]] = user'[q]
                           /\ hcreds'[ent'[q]].uid # 0
                      ELSE ent'[q] = None
    BY DEF Holding
  <2>1. CASE q = r
    BY <1>0, <1>1, <1>5, <2>1 DEF TypeOK
  <2>2. CASE q # r
    <3>1. ent'[q] = ent[q] /\ pc'[q] = pc[q] /\ user'[q] = user[q]
      BY <1>0, <1>1, <2>2 DEF TypeOK
    <3>2. CASE pc[q] = "using"
      <4>1. ent[q] \in EntryIds /\ ent[q] # e
        BY <1>4, <3>2 DEF Holding
      <4>2. inUse[ent[q]] # 0
        BY <4>1, ZeroMeansFree
      <4>3. proc'[ent[q]] = proc[ent[q]]
        BY <1>5, <4>1, <4>2
      <4> QED BY <1>6a, <3>1, <3>2, <4>1, <4>3 DEF Holding
    <3>3. CASE pc[q] # "using"
      BY <3>1, <3>3 DEF Holding
    <3> QED BY <3>2, <3>3
  <2> QED BY <2>1, <2>2
<1>11. Asking'
  BY <1>1 DEF Asking, TypeOK
<1>12. InUseIsHolders'
  <2> SUFFICES ASSUME NEW f \in EntryIds
               PROVE  inUse'[f] = Cardinality(Holders(f)')
    BY DEF InUseIsHolders
  <2>0. ent[r] = None
    BY <1>1 DEF Holding
  <2>1. CASE f = e
    <3>1. Holders(f)' = {r}
      BY <1>0, <1>4, <2>1 DEF Holders, TypeOK
    <3> QED BY <1>0, <2>1, <3>1, FS_Singleton DEF TypeOK
  <2>2. CASE f # e
    <3>1. Holders(f)' = Holders(f)
      BY <1>0, <2>0, <2>2, PoolAssumption DEF Holders, TypeOK
    <3> QED BY <1>0, <2>2, <3>1 DEF InUseIsHolders, TypeOK
  <2> QED BY <2>1, <2>2
<1> QED BY <1>7, <1>8, <1>9, <1>10, <1>11, <1>12

(* acquire retires entries and then fails: StartNoRoom and StartFails. *)
LEMMA StartFailurePreserves ==
    ASSUME IInv, NEW r \in Reqs, NEW left \in SUBSET Live, MustStart(r),
           helpers' = Without(Live \ left), newer' = Listed(left),
           proc' = StopIdle(Live \ left), Return(r),
           UNCHANGED <<closed, ceiling, owner, hcreds, inUse, credsOld, idleOld>>
    PROVE  IInv'
<1>1. Live \ left \in SUBSET EntryIds
  BY LiveAreEntries DEF IInv
<1>2. pc[r] # "using"
  BY DEF MustStart
<1>3. /\ Mapped' /\ Capped'
      /\ proc' \in [EntryIds -> {"none", "running", "stopping"}]
      /\ \A q \in Reqs : ent[q] \in EntryIds => proc'[ent[q]] = proc[ent[q]]
  BY <1>1, RetirePreserves
<1>4. /\ Holding' /\ Asking' /\ InUseIsHolders'
      /\ pc' \in [Reqs -> {"idle", "resolve", "apply", "using"}]
      /\ user' \in [Reqs -> Users \cup {None}]
      /\ need' \in [Reqs -> BOOLEAN]
      /\ rcreds' \in [Reqs -> Creds \cup {ZeroCreds}]
      /\ ent' \in [Reqs -> EntryIds \cup {None}]
  BY <1>2, <1>3, ReturnPreserves
<1>5. helpers' \in [Users -> EntryIds \cup {None}]
  BY WithoutLive DEF IInv
<1>6. newer' \subseteq EntryIds \X EntryIds
  BY DEF Listed, IInv, TypeOK
<1>7. TypeOK'
  BY <1>3, <1>4, <1>5, <1>6 DEF IInv, TypeOK
<1> QED BY <1>3, <1>4, <1>7 DEF IInv

(* The pool retires entries on its own account: Reap and Close. *)
LEMMA SweepPreserves ==
    ASSUME IInv, NEW R \in SUBSET Live,
           helpers' = Without(R), proc' = StopIdle(R),
           newer' \subseteq newer, closed' \in BOOLEAN,
           UNCHANGED <<ceiling, owner, hcreds, inUse, credsOld, idleOld, reqs>>
    PROVE  IInv'
<1>1. R \in SUBSET EntryIds
  BY LiveAreEntries DEF IInv
<1>2. /\ Mapped' /\ Capped'
      /\ proc' \in [EntryIds -> {"none", "running", "stopping"}]
      /\ \A q \in Reqs : ent[q] \in EntryIds => proc'[ent[q]] = proc[ent[q]]
  BY <1>1, RetirePreserves
<1>3. Holding'
  BY <1>2 DEF IInv, Holding, reqs
<1>4. Asking' /\ InUseIsHolders'
  BY DEF IInv, Asking, InUseIsHolders, Holders, reqs
<1>5. helpers' \in [Users -> EntryIds \cup {None}]
  BY WithoutLive DEF IInv
<1>6. TypeOK'
  BY <1>2, <1>5 DEF IInv, TypeOK, reqs
<1> QED BY <1>2, <1>3, <1>4, <1>6 DEF IInv

(* release: the last holder may stop a retired process, nobody else's. *)
LEMMA ReleasePreserves ==
    ASSUME IInv, NEW r \in Reqs, Release(r)
    PROVE  IInv'
<1> USE DEF IInv
<1>0. PICK e \in EntryIds : e = ent[r]
  BY DEF Release, Holding
<1>1. /\ pc[r] = "using" /\ Return(r)
      /\ inUse' = [inUse EXCEPT ![e] = @ - 1]
      /\ idleOld' = IF inUse[e] = 1 THEN [idleOld EXCEPT ![e] = FALSE] ELSE idleOld
      /\ proc' = IF inUse[e] = 1 /\ LastReferenceStops(e)
                 THEN [proc EXCEPT ![e] = "stopping"] ELSE proc
      /\ UNCHANGED <<helpers, newer, closed, ceiling, owner, hcreds, credsOld>>
  BY <1>0 DEF Release, Dropped, pool
<1>2. e \in EntryIds /\ owner[e] = user[r] /\ user[r] \in Users
  BY <1>0, <1>1 DEF Holding, Asking
<1>3. /\ Holders(e)' = Holders(e) \ {r}
      /\ r \in Holders(e)
      /\ \A f \in EntryIds \ {e} : Holders(f)' = Holders(f)
  <2>1. ent'[r] = None /\ \A q \in Reqs \ {r} : ent'[q] = ent[q]
    BY <1>1 DEF Return, TypeOK
  <2> QED BY <1>0, <2>1, PoolAssumption DEF Holders
<1>4. InUseIsHolders'
  <2> SUFFICES ASSUME NEW f \in EntryIds
               PROVE  inUse'[f] = Cardinality(Holders(f)')
    BY DEF InUseIsHolders
  <2>1. CASE f = e
    <3>1. Cardinality(Holders(e)') = Cardinality(Holders(e)) - 1
      BY <1>3, HoldersFinite, FS_RemoveElement
    <3>2. inUse'[e] = inUse[e] - 1
      BY <1>1, <1>2 DEF TypeOK
    <3> QED BY <1>2, <2>1, <3>1, <3>2 DEF InUseIsHolders
  <2>2. CASE f # e
    <3>1. inUse'[f] = inUse[f]
      BY <1>1, <2>2 DEF TypeOK
    <3>2. Holders(f)' = Holders(f)
      BY <1>3, <2>2
    <3> QED BY <3>1, <3>2 DEF InUseIsHolders
  <2> QED BY <2>1, <2>2
<1>5. inUse[e] \in Nat \ {0}
  <2>1. Cardinality(Holders(e)) # 0
    BY <1>3, HoldersFinite, FS_EmptySet
  <2> QED BY <1>2, <2>1 DEF InUseIsHolders, TypeOK
<1>6. inUse[e] = 1 => \A q \in Reqs : ent[q] = e => q = r
  <2> SUFFICES ASSUME inUse[e] = 1 PROVE \A q \in Reqs : ent[q] = e => q = r
    OBVIOUS
  <2>1. Cardinality(Holders(e)) = 1
    BY <1>2 DEF InUseIsHolders
  <2>2. PICK x : Holders(e) = {x}
    BY <2>1, HoldersFinite, FS_Singleton
  <2> QED BY <1>3, <2>2 DEF Holders
<1>7. TypeOK'
  <2>1. inUse' \in [EntryIds -> Nat]
    BY <1>1, <1>2, <1>5 DEF TypeOK
  <2>2. idleOld' \in [EntryIds -> BOOLEAN]
    BY <1>1 DEF TypeOK
  <2>3. proc' \in [EntryIds -> {"none", "running", "stopping"}]
    BY <1>1 DEF TypeOK
  <2>4. /\ pc' \in [Reqs -> {"idle", "resolve", "apply", "using"}]
        /\ user' \in [Reqs -> Users \cup {None}]
        /\ need' \in [Reqs -> BOOLEAN]
        /\ rcreds' \in [Reqs -> Creds \cup {ZeroCreds}]
        /\ ent' \in [Reqs -> EntryIds \cup {None}]
    BY <1>1 DEF Return, TypeOK
  <2> QED BY <1>1, <2>1, <2>2, <2>3, <2>4 DEF TypeOK
<1>8. \A f \in EntryIds : proc'[f] # proc[f] =>
         f = e /\ inUse[e] = 1 /\ helpers[owner[e]] = None
  BY <1>1, <1>2 DEF TypeOK, LastReferenceStops
<1>9. Holding'
  <2> SUFFICES ASSUME NEW q \in Reqs
               PROVE  IF pc'[q] = "using"
                      THEN /\ ent'[q] \in EntryIds
                           /\ proc'[ent'[q]] = "running"
                           /\ owner'[ent'[q]] = user'[q]
                           /\ hcreds'[ent'[q]].uid # 0
                      ELSE ent'[q] = None
    BY DEF Holding
  <2>1. CASE q = r
    BY <1>1, <2>1 DEF Return, TypeOK
  <2>2. CASE q # r
    <3>1. ent'[q] = ent[q] /\ pc'[q] = pc[q] /\ user'[q] = user[q]
      BY <1>1, <2>2 DEF Return, TypeOK
    <3>2. ent[q] \in EntryIds => proc'[ent[q]] = proc[ent[q]]
      BY <1>6, <1>8, <2>2
    <3> QED BY <1>1, <3>1, <3>2 DEF Holding
  <2> QED BY <2>1, <2>2
<1>10. Asking'
  BY <1>1 DEF Asking, Return, TypeOK
<1>11. Mapped'
  <2> SUFFICES ASSUME NEW u \in Users, helpers[u] # None
               PROVE  /\ owner[helpers[u]] = u
                      /\ proc'[helpers[u]] = "running"
                      /\ hcreds[helpers[u]].uid # 0
    BY <1>1 DEF Mapped
  <2>1. helpers[u] \in EntryIds /\ owner[helpers[u]] = u
    BY LiveAreEntries DEF Mapped
  <2>2. proc'[helpers[u]] = proc[helpers[u]]
    BY <1>8, <2>1
  <2> QED BY <2>1, <2>2 DEF Mapped
<1>12. Capped'
  BY <1>1 DEF Capped, Live
<1> QED BY <1>4, <1>7, <1>9, <1>10, <1>11, <1>12

(* The Stop goroutine touches an entry nobody holds and the map lost. *)
LEMMA StoppedPreserves ==
    ASSUME IInv, NEW e \in EntryIds, Stopped(e)
    PROVE  IInv'
<1> USE DEF IInv
<1>1. /\ proc[e] = "stopping"
      /\ proc' = [proc EXCEPT ![e] = "none"]
      /\ owner' = [owner EXCEPT ![e] = None]
      /\ hcreds' = [hcreds EXCEPT ![e] = ZeroCreds]
      /\ credsOld' = [credsOld EXCEPT ![e] = FALSE]
      /\ idleOld' = [idleOld EXCEPT ![e] = FALSE]
      /\ UNCHANGED <<helpers, newer, closed, ceiling, inUse, pc, user, need, rcreds, ent>>
  BY DEF Stopped, pool, reqs
<1>2. \A f \in EntryIds \ {e} :
         proc'[f] = proc[f] /\ owner'[f] = owner[f] /\ hcreds'[f] = hcreds[f]
  BY <1>1 DEF TypeOK
<1>3. (\A q \in Reqs : ent[q] # e) /\ e \notin Live
  BY <1>1, NotRunningMeansFree, LiveRunning
<1>4. TypeOK'
  BY <1>1 DEF TypeOK
<1>5. Holding'
  BY <1>1, <1>2, <1>3 DEF Holding
<1>6. Mapped'
  BY <1>1, <1>2, <1>3, LiveAreEntries DEF Mapped
<1>7. Asking' /\ Capped' /\ InUseIsHolders'
  BY <1>1 DEF Asking, Capped, Live, InUseIsHolders, Holders
<1> QED BY <1>4, <1>5, <1>6, <1>7

(* Clocks only move the two ages. *)
LEMMA AgeingPreserves ==
    ASSUME IInv, credsOld' \in [EntryIds -> BOOLEAN],
           idleOld' \in [EntryIds -> BOOLEAN],
           UNCHANGED <<pool, owner, hcreds, inUse, proc, reqs>>
    PROVE  IInv'
BY DEF IInv, TypeOK, Holding, Asking, Mapped, Capped, Live, InUseIsHolders,
       Holders, pool, reqs

-----------------------------------------------------------------------------
(* Every step of the pool keeps IInv: one case per action. *)
LEMMA StepPreserves == IInv /\ [Next]_vars => IInv'
<1> SUFFICES ASSUME IInv, [Next]_vars PROVE IInv'
  OBVIOUS
<1>1. ASSUME NEW r \in Reqs, NEW u \in Users, Lookup(r, u) PROVE IInv'
  BY <1>1, LookupPreserves
<1>2. ASSUME NEW r \in Reqs, NEW c \in Creds, Resolve(r, c) PROVE IInv'
  BY <1>2, ResolvePreserves
<1>3. ASSUME NEW r \in Reqs, ResolveFails(r) PROVE IInv'
  BY <1>3, RefusalPreserves DEF ResolveFails
<1>4. ASSUME NEW r \in Reqs, ApplyClosed(r) PROVE IInv'
  BY <1>4, RefusalPreserves DEF ApplyClosed
<1>5. ASSUME NEW r \in Reqs, CheckoutCached(r) PROVE IInv'
  BY <1>5, CheckoutCachedPreserves
<1>6. ASSUME NEW r \in Reqs, StartNew(r) PROVE IInv'
  BY <1>6, StartNewPreserves
<1>7. ASSUME NEW r \in Reqs, StartNoRoom(r) PROVE IInv'
  <2> DEFINE left == Kept(r) \ Idle(Kept(r))
  <2>1. left \in SUBSET Live
    BY DEF Kept
  <2> QED BY <1>7, <2>1, StartFailurePreserves DEF StartNoRoom
<1>8. ASSUME NEW r \in Reqs, StartFails(r) PROVE IInv'
  <2>1. PICK V \in SUBSET Kept(r) :
          /\ helpers' = Without(Live \ (Kept(r) \ V))
          /\ newer' = Listed(Kept(r) \ V)
          /\ proc' = StopIdle(Live \ (Kept(r) \ V))
    BY <1>8 DEF StartFails
  <2>2. Kept(r) \ V \in SUBSET Live
    BY DEF Kept
  <2> QED BY <1>8, <2>1, <2>2, StartFailurePreserves DEF StartFails
<1>9. ASSUME NEW r \in Reqs, Release(r) PROVE IInv'
  BY <1>9, ReleasePreserves
<1>10. CASE Reap
  <2>1. Reapable(Live) \in SUBSET Live
    BY DEF Reapable, Idle
  <2>2. newer' \subseteq newer /\ closed' \in BOOLEAN
    BY <1>10 DEF Reap, Listed, IInv, TypeOK
  <2> QED BY <1>10, <2>1, <2>2, SweepPreserves DEF Reap
<1>11. CASE Close
  BY <1>11, SweepPreserves DEF Close
<1>12. ASSUME NEW e \in EntryIds, Stopped(e) PROVE IInv'
  BY <1>12, StoppedPreserves
<1>13. ASSUME NEW e \in EntryIds, CredsExpire(e) PROVE IInv'
  BY <1>13, AgeingPreserves DEF CredsExpire, IInv, TypeOK
<1>14. ASSUME NEW e \in EntryIds, IdleExpire(e) PROVE IInv'
  BY <1>14, AgeingPreserves DEF IdleExpire, IInv, TypeOK
<1>15. CASE UNCHANGED vars
  BY <1>15, AgeingPreserves DEF vars, pool, entries, reqs, IInv, TypeOK
<1> QED BY <1>1, <1>2, <1>3, <1>4, <1>5, <1>6, <1>7, <1>8, <1>9, <1>10, <1>11,
           <1>12, <1>13, <1>14, <1>15 DEF Next, LookupClosed

(* In every state of a pool: the counts are those of the requests that     *)
(* hold an entry, a held entry runs, the map is capped and belongs to its  *)
(* users.                                                                  *)
THEOREM IInvHolds == Spec => []IInv
BY InitEstablishes, StepPreserves, PTL DEF Spec

(* The state of the pool always has its type. *)
THEOREM TypeCorrect == Spec => []TypeOK
<1>1. IInv => TypeOK
  BY DEF IInv
<1> QED BY <1>1, IInvHolds, PTL

(* entry.inUse: "A helper is never stopped while this is above zero". *)
THEOREM NeverStopped == Spec => []NeverStoppedInUse
<1>1. IInv => NeverStoppedInUse
  BY DEF IInv, Holding, NeverStoppedInUse
<1> QED BY <1>1, IInvHolds, PTL

(* entry.inUse counts the requests in flight. *)
THEOREM CountIsExact == Spec => []InUseIsHolders
<1>1. IInv => InUseIsHolders
  BY DEF IInv
<1> QED BY <1>1, IInvHolds, PTL

(* makeRoom: the map holds one running helper per user, MaxHelpers at most, *)
(* and acquire hands out the requester's own.                              *)
THEOREM PoolStaysSound == Spec => []PoolSound
<1>1. IInv => ServedAsSelf
  BY DEF IInv, Holding, ServedAsSelf
<1>2. IInv => MapSound
  BY DEF IInv, Mapped, Capped, MapSound
<1>3. IInv => PoolSound
  BY <1>1, <1>2 DEF PoolSound
<1> QED BY <1>3, IInvHolds, PTL

-----------------------------------------------------------------------------
(* acquire: a request that resolved the user's groups gets them. *)
THEOREM ResolvedGroupsServed == Spec => ServedWithResolvedGroups
<1>1. ASSUME IInv, [Next]_vars PROVE [ServesResolved]_vars
  <2> USE <1>1 DEF IInv
  <2> SUFFICES ASSUME Next, NEW r \in Reqs,
                      pc[r] = "apply", pc'[r] = "using", need[r]
               PROVE  hcreds'[ent'[r]].groups = rcreds[r].groups
    BY <1>1 DEF ServesResolved
  <2>1. CASE CheckoutCached(r)
    <3>1. helpers[user[r]] \in EntryIds
      BY <2>1 DEF CheckoutCached, Cached, Asking, TypeOK
    <3>2. ent'[r] = helpers[user[r]] /\ hcreds' = hcreds
      BY <2>1 DEF CheckoutCached, Cached, TypeOK
    <3> QED BY <2>1, <3>1, <3>2 DEF CheckoutCached, Cached, SameGroups
  <2>2. CASE StartNew(r)
    <3>1. PICK e \in EntryIds : /\ hcreds' = [hcreds EXCEPT ![e] = rcreds[r]]
                               /\ ent' = [ent EXCEPT ![r] = e]
      BY <2>2 DEF StartNew
    <3> QED BY <3>1 DEF TypeOK
  <2>3. ~CheckoutCached(r) /\ ~StartNew(r) => pc'[r] # "using"
    <3> SUFFICES ASSUME ~CheckoutCached(r), ~StartNew(r) PROVE pc'[r] # "using"
      OBVIOUS
    <3>1. ASSUME NEW q \in Reqs, NEW u \in Users, Lookup(q, u)
          PROVE  pc'[r] # "using"
      BY <3>1 DEF Lookup, TypeOK
    <3>2. ASSUME NEW q \in Reqs, NEW c \in Creds, Resolve(q, c)
          PROVE  pc'[r] # "using"
      BY <3>2 DEF Resolve, TypeOK
    <3>3. ASSUME NEW q \in Reqs, Return(q) PROVE pc'[r] # "using"
      BY <3>3 DEF Return, TypeOK
    <3>4. ASSUME NEW q \in Reqs, CheckoutCached(q) PROVE pc'[r] # "using"
      BY <3>4 DEF CheckoutCached, TypeOK
    <3>5. ASSUME NEW q \in Reqs, StartNew(q) PROVE pc'[r] # "using"
      <4>1. q # r
        BY <3>5
      <4>2. pc' = [pc EXCEPT ![q] = "using"]
        BY <3>5 DEF StartNew
      <4> QED BY <4>1, <4>2 DEF TypeOK
    <3>6. ASSUME UNCHANGED pc PROVE pc'[r] # "using"
      BY <3>6
    <3>7. CASE Reap \/ Close
      BY <3>6, <3>7 DEF Reap, Close, reqs
    <3>8. ASSUME NEW e \in EntryIds, Stopped(e) \/ CredsExpire(e) \/ IdleExpire(e)
          PROVE  pc'[r] # "using"
      BY <3>6, <3>8 DEF Stopped, CredsExpire, IdleExpire, reqs
    <3>9. ASSUME NEW q \in Reqs, ResolveFails(q) \/ ApplyClosed(q)
                                 \/ StartNoRoom(q) \/ StartFails(q) \/ Release(q)
          PROVE  pc'[r] # "using"
      BY <3>3, <3>9 DEF ResolveFails, ApplyClosed, StartNoRoom, StartFails, Release
    <3>10. ASSUME NEW q \in Reqs, LookupClosed(q) PROVE pc'[r] # "using"
      BY <3>6, <3>10 DEF LookupClosed, vars, reqs
    <3> QED BY <3>1, <3>2, <3>4, <3>5, <3>7, <3>8, <3>9, <3>10 DEF Next
  <2> QED BY <2>1, <2>2, <2>3
<1> QED BY <1>1, IInvHolds, PTL DEF Spec, ServedWithResolvedGroups

(* Close: a closed pool has nothing in its map, and nothing comes back. *)
Emptied == closed => \A u \in Users : helpers[u] = None

LEMMA ClosedIsEmpty == Spec => []Emptied
<1>1. Init => Emptied
  BY DEF Init, Emptied
<1>2. ASSUME IInv, Emptied, [Next]_vars PROVE Emptied'
  <2> USE <1>2 DEF IInv, Emptied
  <2>1. CASE UNCHANGED <<helpers, closed>>
    BY <2>1
  <2>2. ASSUME NEW R, helpers' = Without(R), closed' = closed PROVE Emptied'
    BY <2>2 DEF Without
  <2>3. CASE Close
    <3>1. \A u \in Users : helpers[u] \in Live \/ helpers[u] = None
      BY DEF Live, TypeOK
    <3> QED BY <2>3, <3>1 DEF Close, Without
  <2>4. CASE Reap
    BY <2>2, <2>4 DEF Reap
  <2>5. ASSUME NEW r \in Reqs, StartNew(r) \/ StartNoRoom(r) \/ StartFails(r) PROVE Emptied'
    <3>1. ~closed /\ closed' = closed
      BY <2>5 DEF StartNew, StartNoRoom, StartFails, MustStart
    <3> QED BY <3>1
  <2>6. ASSUME NEW r \in Reqs, NEW u \in Users, Lookup(r, u) PROVE Emptied'
    BY <2>1, <2>6 DEF Lookup, pool
  <2>7. ASSUME NEW r \in Reqs, NEW c \in Creds, Resolve(r, c) PROVE Emptied'
    BY <2>1, <2>7 DEF Resolve, pool
  <2>8. ASSUME NEW r \in Reqs, LookupClosed(r) \/ ResolveFails(r) \/ ApplyClosed(r)
                                 \/ CheckoutCached(r) \/ Release(r)
        PROVE  Emptied'
    BY <2>1, <2>8
       DEF LookupClosed, ResolveFails, ApplyClosed, CheckoutCached, Release, pool, vars
  <2>9. ASSUME NEW e \in EntryIds, Stopped(e) \/ CredsExpire(e) \/ IdleExpire(e) PROVE Emptied'
    BY <2>1, <2>9 DEF Stopped, CredsExpire, IdleExpire, pool
  <2>10. CASE UNCHANGED vars
    BY <2>1, <2>10 DEF vars, pool
  <2> QED BY <2>3, <2>4, <2>5, <2>6, <2>7, <2>8, <2>9, <2>10 DEF Next
<1> QED BY <1>1, <1>2, IInvHolds, PTL DEF Spec

(* release: a count falls by the release of one who holds the entry, and    *)
(* then there is nothing in the map to keep its helper for.                 *)
LEMMA ClosedReleaseStops ==
    ASSUME IInv, Emptied, Next, NEW e \in EntryIds,
           closed, inUse[e] = 1, inUse'[e] = 0
    PROVE  proc'[e] = "stopping"
<1> USE DEF IInv
<1>1. inUse' # inUse
  OBVIOUS
<1>2. PICK r \in Reqs : CheckoutCached(r) \/ StartNew(r) \/ Release(r)
  BY <1>1 DEF Next, Lookup, LookupClosed, Resolve, ResolveFails, ApplyClosed, StartNoRoom,
     StartFails, Reap, Close, Stopped, CredsExpire, IdleExpire, entries, vars
<1>3. Release(r)
  BY <1>2 DEF CheckoutCached, StartNew, MustStart
<1>4. ent[r] = e
  BY <1>3 DEF Release, Dropped, TypeOK
<1>5. owner[e] \in Users
  <2>1. pc[r] = "using"
    BY <1>3 DEF Release
  <2>2. owner[e] = user[r]
    BY <1>4, <2>1 DEF Holding
  <2>3. user[r] \in Users
    BY <2>1 DEF Asking
  <2> QED BY <2>2, <2>3
<1>6. LastReferenceStops(e)
  BY <1>5 DEF Emptied, LastReferenceStops
<1> QED BY <1>3, <1>4, <1>6 DEF Release, TypeOK

(* retire: a helper that is out of the map is never handed out again; and   *)
(* in a closed pool the last request to let go of it stops it.              *)
THEOREM RetiredDrains == Spec => RetiredOnlyDrains
<1>0. ASSUME IInv, Emptied, [Next]_vars PROVE [ClosedStops]_vars
  <2> SUFFICES ASSUME Next, NEW e \in EntryIds, closed, inUse[e] = 1, inUse'[e] = 0
               PROVE  proc'[e] = "stopping"
    BY <1>0 DEF ClosedStops
  <2> QED BY <1>0, ClosedReleaseStops
<1>1. ASSUME IInv, [Next]_vars PROVE [DrainsRetired]_vars
  <2> USE <1>1 DEF IInv
  <2> SUFFICES ASSUME Next, NEW e \in EntryIds, proc[e] # "none", e \notin Live
               PROVE  inUse'[e] <= inUse[e]
    BY <1>1 DEF DrainsRetired
  <2>1. ASSUME UNCHANGED inUse PROVE inUse'[e] <= inUse[e]
    BY <2>1 DEF TypeOK
  <2>2. ASSUME NEW r \in Reqs, CheckoutCached(r) PROVE inUse'[e] <= inUse[e]
    <3>1. helpers[user[r]] \in Live
      BY <2>2, LiveAreEntries DEF CheckoutCached, Cached, Asking
    <3> QED BY <2>1, <2>2, <3>1 DEF CheckoutCached, Cached, Counted, TypeOK
  <2>3. ASSUME NEW r \in Reqs, StartNew(r) PROVE inUse'[e] <= inUse[e]
    <3>1. PICK f \in EntryIds : proc[f] = "none" /\ inUse' = [inUse EXCEPT ![f] = 1]
      BY <2>3 DEF StartNew
    <3> QED BY <3>1 DEF TypeOK
  <2>4. ASSUME NEW r \in Reqs, Release(r) PROVE inUse'[e] <= inUse[e]
    BY <2>4 DEF Release, Dropped, TypeOK
  <2>5. ASSUME NEW r \in Reqs, NEW u \in Users, Lookup(r, u)
        PROVE  inUse'[e] <= inUse[e]
    BY <2>1, <2>5 DEF Lookup, entries
  <2>6. ASSUME NEW r \in Reqs, NEW c \in Creds, Resolve(r, c)
        PROVE  inUse'[e] <= inUse[e]
    BY <2>1, <2>6 DEF Resolve, entries
  <2>7. ASSUME NEW r \in Reqs, ResolveFails(r) \/ ApplyClosed(r)
                               \/ StartNoRoom(r) \/ StartFails(r)
        PROVE  inUse'[e] <= inUse[e]
    BY <2>1, <2>7 DEF ResolveFails, ApplyClosed, StartNoRoom, StartFails, entries
  <2>8. CASE Reap \/ Close
    BY <2>1, <2>8 DEF Reap, Close
  <2>9. ASSUME NEW f \in EntryIds, Stopped(f) \/ CredsExpire(f) \/ IdleExpire(f)
        PROVE  inUse'[e] <= inUse[e]
    BY <2>1, <2>9 DEF Stopped, CredsExpire, IdleExpire
  <2>10. ASSUME NEW r \in Reqs, LookupClosed(r) PROVE inUse'[e] <= inUse[e]
    BY <2>1, <2>10 DEF LookupClosed, vars, entries
  <2> QED BY <2>2, <2>3, <2>4, <2>5, <2>6, <2>7, <2>8, <2>9, <2>10 DEF Next
<1> QED BY <1>0, <1>1, IInvHolds, ClosedIsEmpty, PTL DEF Spec, RetiredOnlyDrains

(* makeRoom, Reap: what goes to make room is idle.                          *)
LEMMA IdleGoBusyStay ==
    ASSUME IInv, NEW u \in Users, helpers[u] # None, inUse[helpers[u]] > 0
    PROVE  /\ helpers[u] \in Live
           /\ \A S : helpers[u] \notin Idle(S)
           /\ \A S : helpers[u] \notin Reapable(S)
<1>1. helpers[u] \in Live /\ helpers[u] \in EntryIds
  BY LiveAreEntries DEF IInv, TypeOK
<1>2. inUse[helpers[u]] # 0
  BY <1>1 DEF IInv, TypeOK
<1> QED BY <1>1, <1>2 DEF Idle, Reapable

(* acquire: its own user's entry aside, a busy entry is still listed when   *)
(* the retiring and the reaping are over, and makeRoom evicts none.         *)
LEMMA StartLeavesBusy ==
    ASSUME IInv, NEW r \in Reqs, MustStart(r), NEW V, V \subseteq Idle(Kept(r)),
           NEW u \in Users, u # user[r], helpers[u] # None, inUse[helpers[u]] > 0
    PROVE  helpers[u] \notin Live \ (Kept(r) \ V)
<1>1. helpers[u] # Cached(r)
  <2>1. user[r] \in Users
    BY DEF MustStart, IInv, Asking
  <2> QED BY <2>1 DEF Cached, IInv, Mapped
<1>2. helpers[u] \in Kept(r)
  BY <1>1, IdleGoBusyStay DEF Kept
<1>3. helpers[u] \notin V
  BY IdleGoBusyStay
<1> QED BY <1>2, <1>3

(* The list is a list: of two entries one is nearer the front at most.      *)
Ordered == \A e, f \in EntryIds : <<e, f>> \in newer => <<f, e>> \notin newer

LEMMA ListIsOrdered == Spec => []Ordered
<1>1. Init => Ordered
  BY DEF Init, Ordered
<1>2. ASSUME Ordered, [Next]_vars PROVE Ordered'
  <2> USE <1>2 DEF Ordered
  <2>1. CASE UNCHANGED newer
    BY <2>1
  <2>2. ASSUME NEW S, newer' = Listed(S) PROVE Ordered'
    BY <2>2 DEF Listed
  <2>3. ASSUME NEW e, NEW S, newer' = Touch(e, S) PROVE Ordered'
    BY <2>3 DEF Touch, Listed
  <2>4. ASSUME NEW r \in Reqs, CheckoutCached(r) PROVE Ordered'
    BY <2>3, <2>4 DEF CheckoutCached
  <2>5. ASSUME NEW r \in Reqs, StartNew(r) PROVE Ordered'
    <3>1. \E V, e : newer' = Touch(e, (Kept(r) \ V) \cup {e})
      BY <2>5 DEF StartNew
    <3> QED BY <2>3, <3>1
  <2>6. ASSUME NEW r \in Reqs, StartNoRoom(r) \/ StartFails(r) PROVE Ordered'
    BY <2>2, <2>6 DEF StartNoRoom, StartFails
  <2>7. CASE Reap
    BY <2>2, <2>7 DEF Reap
  <2>8. CASE Close
    BY <2>8 DEF Close
  <2>9. ASSUME NEW r \in Reqs, NEW u \in Users, Lookup(r, u) PROVE Ordered'
    BY <2>1, <2>9 DEF Lookup, pool
  <2>10. ASSUME NEW r \in Reqs, NEW c \in Creds, Resolve(r, c) PROVE Ordered'
    BY <2>1, <2>10 DEF Resolve, pool
  <2>11. ASSUME NEW r \in Reqs, LookupClosed(r) \/ ResolveFails(r) \/ ApplyClosed(r)
                                \/ Release(r)
         PROVE  Ordered'
    BY <2>1, <2>11 DEF LookupClosed, ResolveFails, ApplyClosed, Release, pool, vars
  <2>12. ASSUME NEW e \in EntryIds, Stopped(e) \/ CredsExpire(e) \/ IdleExpire(e)
         PROVE  Ordered'
    BY <2>1, <2>12 DEF Stopped, CredsExpire, IdleExpire, pool
  <2>13. CASE UNCHANGED vars
    BY <2>1, <2>13 DEF vars, pool
  <2> QED BY <2>4, <2>5, <2>6, <2>7, <2>8, <2>9, <2>10, <2>11, <2>12, <2>13 DEF Next
<1> QED BY <1>1, <1>2, PTL DEF Spec

(* lruIdle: an idle entry that stays is nearer the front than one that was  *)
(* taken without having expired.                                            *)
LEMMA StartTakesOldest ==
    ASSUME IInv, Ordered, NEW r \in Reqs, StartNew(r),
           NEW u \in Users, NEW w \in Users, u # user[r], w # user[r],
           helpers[u] # None, helpers[w] # None,
           helpers'[u] = None, helpers'[w] = helpers[w],
           inUse[helpers[w]] = 0, ~idleOld[helpers[u]]
    PROVE  /\ <<helpers[w], helpers[u]>> \in newer
           /\ <<helpers[u], helpers[w]>> \notin newer
<1> DEFINE e == helpers[u]
           f == helpers[w]
<1>1. PICK V \in SUBSET Kept(r), g \in EntryIds :
         /\ IF MustEvict(Kept(r)) THEN Victims(Kept(r), V) ELSE V = {}
         /\ helpers' = [Without(Live \ (Kept(r) \ V)) EXCEPT ![user[r]] = g]
  BY DEF StartNew
<1>2. e \in Live /\ f \in Live /\ e \in EntryIds /\ f \in EntryIds
  BY LiveAreEntries DEF IInv, TypeOK
<1>3. e # Cached(r) /\ f # Cached(r)
  <2>1. user[r] \in Users
    BY DEF StartNew, MustStart, IInv, Asking
  <2> QED BY <2>1 DEF Cached, IInv, Mapped
<1>4. e \notin Kept(r) \ V /\ f \in Kept(r) \ V
  <2>1. /\ helpers'[u] = Without(Live \ (Kept(r) \ V))[u]
        /\ helpers'[w] = Without(Live \ (Kept(r) \ V))[w]
    BY <1>1 DEF Without
  <2> QED BY <1>2, <2>1 DEF Without
<1>5. e \in V
  <2>1. e \in Kept(r)
    BY <1>2, <1>3 DEF Kept, Reapable
  <2> QED BY <1>4, <2>1
<1>6. Victims(Kept(r), V)
  BY <1>1, <1>5
<1>7. f \in Idle(Kept(r)) \ V
  BY <1>4 DEF Idle
<1>8. <<f, e>> \in newer
  BY <1>5, <1>6, <1>7 DEF Victims
<1> QED BY <1>2, <1>8 DEF Ordered

(* makeRoom: what goes is the least recently used of the idle ones, and a   *)
(* busy helper of one user never makes room for another.                    *)
THEOREM RoomFromTheBack == Spec => EvictsOldest
<1>1. ASSUME IInv, [Next]_vars PROVE [OthersLeaveBusy]_vars
  <2> USE <1>1
  <2> SUFFICES ASSUME Next, NEW u \in Users, helpers[u] # None, inUse[helpers[u]] > 0,
                      ~closed', \A r \in Reqs : pc[r] = "apply" => user[r] # u
               PROVE  helpers'[u] = helpers[u]
    BY DEF OthersLeaveBusy
  <2>1. CASE UNCHANGED helpers
    BY <2>1
  <2>2. ASSUME NEW R, helpers[u] \notin R, helpers' = Without(R)
        PROVE  helpers'[u] = helpers[u]
    BY <2>2 DEF Without
  <2>3. ASSUME NEW r \in Reqs, StartNew(r) PROVE helpers'[u] = helpers[u]
    <3>1. MustStart(r) /\ u # user[r]
      BY <2>3 DEF StartNew, MustStart
    <3>2. PICK V \in SUBSET Kept(r), e \in EntryIds :
             /\ IF MustEvict(Kept(r)) THEN Victims(Kept(r), V) ELSE V = {}
             /\ helpers' = [Without(Live \ (Kept(r) \ V)) EXCEPT ![user[r]] = e]
      BY <2>3 DEF StartNew
    <3>3. V \subseteq Idle(Kept(r))
      BY <3>2 DEF Victims
    <3>4. helpers[u] \notin Live \ (Kept(r) \ V)
      BY <3>1, <3>3, StartLeavesBusy
    <3> QED BY <3>1, <3>2, <3>4 DEF Without
  <2>4. ASSUME NEW r \in Reqs, StartNoRoom(r) PROVE helpers'[u] = helpers[u]
    <3>1. MustStart(r) /\ u # user[r]
      BY <2>4 DEF StartNoRoom, MustStart
    <3>2. helpers[u] \notin Live \ (Kept(r) \ Idle(Kept(r)))
      BY <3>1, StartLeavesBusy
    <3> QED BY <2>2, <2>4, <3>2 DEF StartNoRoom
  <2>5. ASSUME NEW r \in Reqs, StartFails(r) PROVE helpers'[u] = helpers[u]
    <3>1. MustStart(r) /\ u # user[r]
      BY <2>5 DEF StartFails, MustStart
    <3>2. PICK V \in SUBSET Kept(r) :
             /\ IF MustEvict(Kept(r)) THEN Victims(Kept(r), V) ELSE V = {}
             /\ helpers' = Without(Live \ (Kept(r) \ V))
      BY <2>5 DEF StartFails
    <3>3. V \subseteq Idle(Kept(r))
      BY <3>2 DEF Victims
    <3> QED BY <2>2, <3>1, <3>2, <3>3, StartLeavesBusy
  <2>6. CASE Reap
    BY <2>2, <2>6, IdleGoBusyStay DEF Reap
  <2>7. CASE Close
    BY <2>7 DEF Close
  <2>8. ASSUME NEW r \in Reqs, NEW v \in Users, Lookup(r, v) PROVE helpers'[u] = helpers[u]
    BY <2>1, <2>8 DEF Lookup, pool
  <2>9. ASSUME NEW r \in Reqs, NEW c \in Creds, Resolve(r, c) PROVE helpers'[u] = helpers[u]
    BY <2>1, <2>9 DEF Resolve, pool
  <2>10. ASSUME NEW r \in Reqs, LookupClosed(r) \/ ResolveFails(r) \/ ApplyClosed(r)
                                \/ CheckoutCached(r) \/ Release(r)
         PROVE  helpers'[u] = helpers[u]
    BY <2>1, <2>10
       DEF LookupClosed, ResolveFails, ApplyClosed, CheckoutCached, Release, pool, vars
  <2>11. ASSUME NEW e \in EntryIds, Stopped(e) \/ CredsExpire(e) \/ IdleExpire(e)
         PROVE  helpers'[u] = helpers[u]
    BY <2>1, <2>11 DEF Stopped, CredsExpire, IdleExpire, pool
  <2> QED BY <2>3, <2>4, <2>5, <2>6, <2>7, <2>8, <2>9, <2>10, <2>11 DEF Next
<1>2. ASSUME IInv, Ordered, [Next]_vars PROVE [OldestGoes]_vars
  <2> USE <1>2
  <2> SUFFICES ASSUME Next, NEW r \in Reqs, NEW u \in Users, NEW w \in Users,
                      pc[r] = "apply", pc'[r] = "using", u # user[r], w # user[r],
                      helpers[u] # None, helpers[w] # None,
                      helpers'[u] = None, helpers'[w] = helpers[w],
                      inUse[helpers[w]] = 0, ~idleOld[helpers[u]]
               PROVE  /\ <<helpers[w], helpers[u]>> \in newer
                      /\ <<helpers[u], helpers[w]>> \notin newer
    BY DEF OldestGoes
  <2>1. helpers' # helpers /\ pc' # pc
    OBVIOUS
  <2>2. PICK q \in Reqs : StartNew(q) \/ StartNoRoom(q) \/ StartFails(q)
    BY <2>1 DEF Next, Lookup, LookupClosed, Resolve, ResolveFails, ApplyClosed,
       CheckoutCached, Release, Reap, Close, Stopped, CredsExpire, IdleExpire,
       pool, reqs, vars
  <2>3. /\ StartNew(q) => pc' = [pc EXCEPT ![q] = "using"]
        /\ StartNoRoom(q) \/ StartFails(q) => pc' = [pc EXCEPT ![q] = "idle"]
    BY DEF StartNew, StartNoRoom, StartFails, Return
  <2>4. pc \in [Reqs -> {"idle", "resolve", "apply", "using"}]
    BY DEF IInv, TypeOK
  <2>5. q = r /\ StartNew(r)
    BY <2>2, <2>3, <2>4
  <2> QED BY <2>5, StartTakesOldest
<1> QED BY <1>1, <1>2, IInvHolds, ListIsOrdered, PTL DEF Spec, EvictsOldest
=============================================================================
