\* Two replicas, two users who each change the password once, an epoch file
\* that fails at every use.
CONSTANTS
    Replicas = {r1, r2}
    Users = {u1, u2}
    Procs = {p1, p2}
    None = None
    TTL = 2
    Overlap = FALSE
    FileFails = TRUE
    FineMtime = TRUE
    MaxNow = 2
    MaxChanges = 1
SPECIFICATION Spec
SYMMETRY Symmetry
INVARIANTS
    OthersClosed
    OwnSessionKept
PROPERTIES
    LostOnlyUnread
