------------------------------ MODULE MCAccess ------------------------------
EXTENDS Access

CONSTANTS ann, bob, cal, red, blue, admins, r1, r2, s1, p1

\* A team, a team that reads it, and the group of administrators, undeclared.
MCRoster(owner, reds, blues, reads, public) ==
    LET declared == {red, blue} IN
    [users |-> {ann, bob},
     owners |-> [g \in declared |-> IF g = red THEN owner ELSE {bob}],
     members |-> [g \in declared |-> IF g = red THEN reds ELSE blues],
     readers |-> [g \in declared |-> IF g = red /\ reads THEN {blue} ELSE {}],
     views |-> [g \in Groups |-> IF g = blue /\ reads THEN {red} ELSE {}],
     anonymous |-> [g \in declared |-> public /\ g = red]]

Change(g, u, m) == [team |-> g, user |-> u, member |-> m]

Call(u, batch, cs) == [actor |-> u, batch |-> batch, changes |-> cs]

MCOpen == MCRoster({ann}, {ann}, {ann, bob}, TRUE, FALSE)
MCBoth == MCRoster({ann, bob}, {ann}, {bob}, TRUE, FALSE)
MCPublic == MCRoster({}, {ann, bob}, {}, FALSE, TRUE)
MCMoved == MCRoster({bob}, {bob}, {}, FALSE, FALSE)

MCRosters == {MCOpen, MCBoth, MCPublic, MCMoved}

Nobody == <<[s \in Subjects |-> None], [x \in Accounts |-> "absent"], FALSE, FALSE>>

Nothing == [edits |-> 0, admins |-> 0, follows |-> 0, visits |-> 0, links |-> 0,
            fetches |-> 0, restarts |-> 0, ticks |-> 0, calls |-> [r \in Reqs |-> {}],
            who |-> {}, teams |-> {}, start |-> {MCOpen}, locals |-> {TRUE},
            keeps |-> FALSE, people |-> {Nobody},
            logins |-> 0, callbacks |-> 0, forms |-> 0, changes |-> 0]

Swap == <<Change(red, bob, TRUE), Change(blue, bob, FALSE)>>

\* Two requests at once, and the delegation withdrawn meanwhile.
Editing == [Nothing EXCEPT
    !.edits = 1, !.admins = 1, !.locals = BOOLEAN, !.start = {MCBoth},
    !.calls = [r \in Reqs |->
        IF r = r1 THEN {Call(bob, TRUE, Swap), Call(ann, TRUE, <<Change(red, ann, FALSE)>>),
                        Call(bob, TRUE, <<Change(admins, bob, TRUE)>>)}
        ELSE {Call(ann, FALSE, <<Change(red, bob, FALSE)>>),
              Call(bob, FALSE, <<Change(blue, cal, TRUE)>>),
              Call(bob, TRUE, <<Change(blue, bob, TRUE), Change(red, bob, FALSE)>>)}]]

Watching == [Nothing EXCEPT
    !.edits = 2, !.follows = 3, !.restarts = 1, !.locals = BOOLEAN, !.start = {MCBoth},
    !.calls = [r \in Reqs |-> IF r = r1 THEN {Call(bob, TRUE, Swap),
                                  Call(bob, TRUE, <<Change(red, ann, FALSE)>>)} ELSE {}]]

Routing == [Nothing EXCEPT
    !.edits = 3, !.visits = 2, !.ticks = 3, !.who = {ann, bob}, !.teams = {red},
    !.start = {MCOpen, MCPublic}, !.keeps = TRUE]

Sharing == [Nothing EXCEPT
    !.edits = 2, !.links = 1, !.fetches = 1, !.ticks = 2, !.who = {ann, bob}, !.teams = {red},
    !.start = {MCOpen}, !.keeps = TRUE]

Unlocking == [Nothing EXCEPT
    !.links = 2, !.fetches = 3, !.restarts = 1, !.who = {ann}, !.teams = {red}]

\* Two tabs, a redirect sent twice, a restart, the provider out of reach.
SigningTwice == [Nothing EXCEPT
    !.logins = 2, !.callbacks = 2, !.restarts = 1, !.ticks = 2,
    !.people = {<<[s \in Subjects |-> p1], [x \in Accounts |-> "enabled"], FALSE, FALSE>>}]

\* A flow, or a proxy's token; the account comes, or goes, meanwhile.
SigningOnce == [Nothing EXCEPT
    !.logins = 1, !.callbacks = 1, !.forms = 2, !.changes = 1, !.ticks = 2,
    !.people = {<<[s \in Subjects |-> m], [x \in Accounts |-> st], proxy, cp>> :
                   m \in {p1, None}, st \in {"absent", "enabled"}, proxy \in BOOLEAN, cp \in BOOLEAN}]

MCNameOf == [s \in Subjects |-> IF s = s1 THEN p1 ELSE None]

ASSUME EveryReaderHasAView

MCScenes == {Editing, Watching, Routing, Sharing, Unlocking, SigningTwice, SigningOnce}
=============================================================================
