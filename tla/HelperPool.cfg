\* Three users over a pool of two helpers, two overlapping requests, changing groups;
\* and two users over a pool of one.
CONSTANTS
    Users = {u1, u2, u3}
    Reqs = {r1, r2}
    EntryIds = {e1, e2, e3}
    G1 = G1
    G2 = G2
    Creds <- MCCreds
    Ceilings = {1, 2}
    None = None
SYMMETRY Symmetry
SPECIFICATION Spec
CONSTRAINT SmallIfOne
INVARIANTS
    NeverStoppedInUse
    InUseIsHolders
    PoolSound
PROPERTIES
    ServedWithResolvedGroups
    RetiredOnlyDrains
    EvictsOldest
