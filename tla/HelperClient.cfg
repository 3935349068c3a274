\* Three calls on one socket, callers giving up, replies breaking, the helper
\* dying and the client being closed at any moment; or a listing or a search over
\* seven nodes that change under it, in frames of one or two names; or any
\* frame of up to six cells.
CONSTANTS
    Calls = {c1, c2, c3}
    GiveUps = TRUE
    Breaks = TRUE
    Nodes = {1, 2, 3, 4, 5, 6, 7}
    Root = 0
    Parent <- MCParent
    NameOf <- MCNameOf
    Dirs <- MCDirs
    Hidden = {3}
    Matching <- MCMatching
    Limits <- MCLimits
    MaxEdits = 2
    MaxFrame = 12
    MaxStr = 2
    Cells = {0, 1, 2}
    MaxCells = 6
    MaxOp = 1
SPECIFICATION MCSpec
INVARIANTS
    Matched
    NothingMissed
    WireSound
PROPERTIES
    NoCallOutlivesHelper
