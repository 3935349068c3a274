\* Two at a time of sign-ins by every path and the administrator.
CONSTANTS
    a1 = a1
    a2 = a2
    e1 = e1
    e2 = e2
    Accounts = {a1, a2}
    Subjects = {s1, s2}
    Emails = {e1, e2}
    None = None
    Procs = {p1, p2}
    NameOf <- MCNameOf
    TrustEmail = TRUE
    Provisions = TRUE
    MaxPending = 1
    MaxActors = 2
SPECIFICATION Spec
SYMMETRY Symmetry
INVARIANTS
    OnePerson
    IndexesAgree
PROPERTIES
    BindingsStay
