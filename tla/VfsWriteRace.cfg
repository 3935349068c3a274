\* Two overlapping requests, nothing failing.
CONSTANTS
    Procs = {w1, w2}
    Paths = {p}
    Versions = {v0, v1, v2}
    Initial = {v0}
    Seconds = {0}
    Suffixes = {x}
    MaxAttempts = 1
    MaxLate = 0
    MaxCrashes = 0
    None = None
SYMMETRY Symmetry
SPECIFICATION MCSpec
INVARIANTS
    Recoverable
