\* Three identities over two overlapping sign-ins; everything that bounds calls at its limit.
CONSTANTS
    all = all
    Ids = {i1, i2, i3}
    Accounts = {a1}
    Procs = {p1, p2}
    None = None
    Usable = {all, off}
    Broken = Broken
    Matches <- MCMatches
    RefireAfter = 1
    Hour = 2
    MaxCalls = 2
    MaxFired = 2
    Wait = 1
    NameFails = TRUE
    MaxNow = 2
SPECIFICATION Spec
SYMMETRY Symmetry
INVARIANTS
    LimitsHold
    StatusTells
PROPERTIES
    NewUnlessUnseen
