CONSTANTS
    Replicas = {r1, r2}
    Keys = {k1, k2}
    Vals = {v1, v2}
    NoVal = NoVal
    Nobody = Nobody
    FineMtime = TRUE
    Fails = FALSE
    SelfLoad = FALSE
    MaxNow = 3
SPECIFICATION Spec
SYMMETRY Symmetry
INVARIANTS
    BuildsOnCommitted
    ReadsFresh
PROPERTIES
    AtomicMap
