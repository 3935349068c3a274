\* One user whose groups change while a request is in flight.
CONSTANTS
    Users = {u1}
    Reqs = {r1, r2}
    EntryIds = {e1, e2}
    G1 = G1
    G2 = G2
    Creds <- MCCreds
    Ceilings = {1}
    None = None
SYMMETRY Symmetry
SPECIFICATION Spec
INVARIANTS
    RetiredIsStopped
