SPECIFICATION Spec
CONSTANTS
    ann = ann
    bob = bob
    cal = cal
    red = red
    blue = blue
    admins = admins
    None = None
    r1 = r1
    r2 = r2
    Users = {ann, bob, cal}
    Groups = {red, blue, admins}
    AdminGroup = admins
    Reqs = {r1, r2}
    Watchers = {w1}
    Rosters <- MCRosters
    Scenes <- MCScenes
    DeclTTL = 2
    ReadTime = 1
    CredsTTL = 2
    DefaultLifetime = 1
    MaxLifetime = 2
    MaxNow = 4
    Tokens = {k1, k2}
    Browsers = {x}
    Visitors = {x}
    Flows = {f1, f2}
    s1 = s1
    p1 = p1
    Subjects = {s1, s2}
    Accounts = {p1}
    NameOf <- MCNameOf
    Calls = {q1, q2}
    Pages = {e}
    FlowTTL = 1
    NoticeTTL = 1
    EnrollTTL = 1
    Retry = 1
INVARIANTS
    AppliedWasSeen
    RoutesFresh
    HintsAgree
    SingleUse
PROPERTIES
    OnlyManaged
    SuccessIsLanded
    ServedIsAllowed
    SessionIsAsserted
