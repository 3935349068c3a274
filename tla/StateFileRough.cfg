CONSTANTS
    Replicas = {r1, r2}
    Keys = {k1}
    Vals = {v1}
    NoVal = NoVal
    Nobody = Nobody
    FineMtime = FALSE
    Fails = TRUE
    SelfLoad = TRUE
    MaxNow = 2
SPECIFICATION FairSpec
PROPERTIES
    HolderOnly
    LockReleased
