\* The interface alone, then activity: two requests at a time, three days, a log
\* that is rotated once, lines and writes that tear.
CONSTANTS
    Asks = {q1, q2}
    Writers = {w1, w2}
    Inodes = {i1, i2}
    Ops = {"mkdir", "create", "open", "rename", "delete", "denied", "outside"}
    None = None
    DayLen = 2
    Keep = 2
    DefaultLimit = 2
    StatFails = TRUE
    MaxTears = 1
    MaxNow = 4
    MaxOps = 1
    MaxNotes = 3
    Flags <- MCFlags
SPECIFICATION FairSpec
INVARIANTS
    EndsCleanly
    AckedKept
    QueryIsNewest
    OncePerOperation
PROPERTIES
    Supervised
