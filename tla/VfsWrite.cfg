\* Two requests for one name that overlap, or one after another and a crash of
\* the host; a collision in the trash, late calls.
CONSTANTS
    Procs = {w1, w2}
    Paths = {p}
    Versions = {v0, v1, v2}
    Initial = {v0}
    Seconds = {0}
    Suffixes = {x}
    MaxAttempts = 1
    MaxLate = 1
    MaxCrashes = 1
    None = None
SYMMETRY Symmetry
SPECIFICATION MCSpec
INVARIANTS
    TargetComplete
PROPERTIES
    NoWindow
    LostByOverlap
