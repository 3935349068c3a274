------------------------------- MODULE Teams -------------------------------
(***************************************************************************)
(* Team membership: internal/admin (teams.go, views.go, IsAdmin), the      *)
(* control plane it writes through (internal/control, local.go) and the    *)
(* status stream of internal/server/teams_apply.go.                        *)
(*                                                                         *)
(* Two tables matter.  The roster is what the operator declared, and what  *)
(* `usersync roster` prints; sys is what the kernel and NSS go by, and     *)
(* follows the roster when `usersync apply` runs.  usersync, getent and a  *)
(* sidecar's pipeline are external: they answer, or they fail.             *)
(***************************************************************************)
EXTENDS Clock, Sequences, FiniteSets, Functions

CONSTANTS
    Users, Groups,
    AdminGroup,      \* the group that opens the operator page
    Reqs,            \* requests to change memberships; also their apply ids
    Watchers,        \* status streams
    Rosters,         \* what operators write into roster.yaml
    DeclTTL,         \* declTTL
    ReadTime         \* bound: ticks that one run of `usersync roster` takes

\* A roster: per group it declares, its owners, its members, the groups that read it
\* and whether it is open to anyone; per group, the teams it has views of.
ByTeam(S) == UNION {[D -> S] : D \in SUBSET Groups}

RosterRecords ==
    [users : SUBSET Users, owners : ByTeam(SUBSET Users), members : ByTeam(SUBSET Users),
     readers : ByTeam(SUBSET Groups), views : [Groups -> SUBSET Groups],
     anonymous : ByTeam(BOOLEAN)]

ASSUME TeamsConstants ==
    /\ AdminGroup \in Groups
    /\ DeclTTL \in Nat \ {0} /\ ReadTime \in Nat
    /\ None \notin Users \cup Groups \cup Reqs
    /\ Rosters \subseteq RosterRecords /\ None \notin RosterRecords

Membership == [team : Groups, user : Users, member : BOOLEAN]

VARIABLES
    roster,    \* [users, owners, members, readers, views, anonymous]
    sys,       \* what was applied: [members, views, anonymous]
    local,     \* the controller is control.Local, else a sidecar was dialled
    op,        \* per request: where it is and what it knows
    tracker,   \* reconcileTracker: the ids it has
    watch,     \* per stream: what it follows and has looked at
    decls,     \* declCache of views.go
    may,       \* ghost, per request: groups its actor could manage since it began
    over,      \* ghost, per request: memberships others have changed since then
    held,      \* ghost, per stream: changes that were true since it began
    past       \* ghost: earlier rosters and tables, and until when they stood

requests == <<op, tracker>>
ghosts == <<may, over, held, past>>

IdleReq == [pc |-> "idle", batch |-> TRUE, actor |-> None, changes |-> <<>>,
            decl |-> None, i |-> 1]
IdleWatch == [pc |-> "idle", id |-> None, i |-> 1, seen |-> <<>>, missed |-> {}]

Declared(d) == DOMAIN d.members
Owns(d, u) == {g \in Declared(d) : u \in d.owners[g]}
MembersOf(d, g) == IF g \in Declared(d) THEN d.members[g] ELSE {}

---------------------------------------------------------------------------
(* Who may.                                                                *)

IsAdmin(u) == u \in sys.members[AdminGroup]

\* A mutant of Accepts: the first change speaks for the batch.
AcceptsFirst(d, admin, u, cs) ==
    /\ admin \/ cs[1].team \in Owns(d, u)
    /\ \A c \in Range(cs) : c.team \in Declared(d) /\ c.user \in d.users

\* BatchSetTeamMembership, once it has read the roster and the admin group.
Accepts(d, admin, u, cs) ==
    \A c \in Range(cs) :
        /\ c.team \in Declared(d)
        /\ admin \/ c.team \in Owns(d, u)
        /\ c.user \in d.users

\* ManageableTeams: what the panel lists.
ManageableTeams(d, admin, u) ==
    {g \in Declared(d) : admin \/ u \in d.owners[g]}

Mine(d, u) == {g \in Declared(d) : u \in d.members[g]}
Public(d) == {g \in Declared(d) : d.anonymous[g]}

\* A mutant of TeamAccess: being a reader is forgotten.
TeamAccessNoReaders(d, u) == Public(d) \cup Mine(d, u)

\* The teams whose folder u is shown as open.
TeamAccess(d, u) ==
    {g \in Declared(d) : \/ g \in Public(d)
                         \/ g \in Mine(d, u)
                         \/ d.readers[g] \cap Mine(d, u) # {}}

---------------------------------------------------------------------------
(* External: usersync, and the people who run it.                          *)

\* `usersync member add|remove`.
Member(d, c) ==
    [d EXCEPT !.members[c.team] = IF c.member THEN @ \cup {c.user} ELSE @ \ {c.user}]

MemberUpTo(d, cs) ==
    LET upto[i \in 0 .. Len(cs)] == IF i = 0 THEN d ELSE Member(upto[i - 1], cs[i])
    IN  upto

MemberAll(d, cs) == MemberUpTo(d, cs)[Len(cs)]

\* `usersync apply`: groups the roster does not declare are left alone.
Applied(d) ==
    [members |-> [g \in Groups |-> IF g \in Declared(d) THEN d.members[g]
                                   ELSE sys.members[g]],
     views |-> d.views, anonymous |-> Public(d)]

RosterEdited ==
    /\ \E d \in Rosters \ {roster} : roster' = d
    /\ UNCHANGED <<sys, requests, watch, decls>>

\* The pipeline behind a sidecar, or an operator's `usersync apply`.
Converge ==
    /\ sys' = Applied(roster) /\ sys' # sys
    /\ UNCHANGED <<roster, requests, watch, decls>>

\* gpasswd on the admin group.
AdminsChanged ==
    /\ \E us \in SUBSET Users :
          us # sys.members[AdminGroup] /\ sys' = [sys EXCEPT !.members[AdminGroup] = us]
    /\ UNCHANGED <<roster, requests, watch, decls>>

---------------------------------------------------------------------------
(* A request: /api/teams/apply (a batch) or /api/teams/<team>/members.     *)

At(r, pc) == op[r].pc = pc
Move(r, pc) == op' = [op EXCEPT ![r].pc = pc]
Quiet == UNCHANGED <<roster, sys, watch, decls>>

Submit(r, u, batch, cs) ==
    /\ At(r, "idle")
    /\ batch \/ Len(cs) = 1
    /\ op' = [op EXCEPT ![r] = [IdleReq EXCEPT !.pc = IF batch THEN "declare" ELSE "admin",
                                     !.batch = batch, !.actor = u, !.changes = cs]]
    /\ UNCHANGED tracker /\ Quiet

\* Any read of the roster may fail, or print a schema this code refuses.
ReadFails(r) ==
    /\ op[r].pc \in {"declare", "admin", "owned", "known"}
    /\ Move(r, "failed")
    /\ UNCHANGED tracker /\ Quiet

Declare(r) ==
    /\ At(r, "declare")
    /\ op' = [op EXCEPT ![r].decl = roster, ![r].pc = "admin"]
    /\ UNCHANGED tracker /\ Quiet

Write == IF local THEN "edit" ELSE "commit"

\* IsAdmin.  getent not finding the group, or failing, is nobody an admin.
AskAdmin(r) ==
    /\ At(r, "admin")
    /\ \E admin \in {IsAdmin(op[r].actor), FALSE} :
          IF op[r].batch
          THEN Move(r, IF Accepts(op[r].decl, admin, op[r].actor, op[r].changes)
                       THEN Write ELSE "refused")
          ELSE Move(r, IF admin THEN "known" ELSE "owned")
    /\ UNCHANGED tracker /\ Quiet

\* MayManageTeam of someone who is no administrator: OwnedTeams.
Owned(r) ==
    /\ At(r, "owned")
    /\ Move(r, IF op[r].changes[1].team \in Owns(roster, op[r].actor)
               THEN "known" ELSE "refused")
    /\ UNCHANGED tracker /\ Quiet

Known(r) ==
    /\ At(r, "known")
    /\ Move(r, IF op[r].changes[1].user \in roster.users THEN Write ELSE "refused")
    /\ UNCHANGED tracker /\ Quiet

\* A mutant of AfterEdit: only an addition counts as applied.
AfterEditAdds(r) ==
    IF op[r].i < Len(op[r].changes) THEN "edit"
    ELSE IF \E c \in Range(op[r].changes) : c.member THEN "apply" ELSE "ok"

AfterEdit(r) == IF op[r].i = Len(op[r].changes) THEN "apply" ELSE "edit"

\* localMembership.Batch: one `usersync member` per change, which takes a name
\* the roster has, and may fail; then one apply.
Edit(r) ==
    /\ At(r, "edit")
    /\ LET c == op[r].changes[op[r].i] IN
       /\ c.team \in Declared(roster) /\ c.user \in roster.users
       /\ roster' = Member(roster, c)
       /\ op' = [op EXCEPT ![r].i = @ + 1, ![r].pc = AfterEdit(r)]
    /\ UNCHANGED <<sys, tracker, watch, decls>>

\* No rollback: what was edited stays in the roster.
WriteFails(r) ==
    /\ op[r].pc \in {"edit", "apply", "commit"}
    /\ Move(r, "failed")
    /\ UNCHANGED tracker /\ Quiet

\* handleTeamsApply mints the id only when the change has landed.
Done(r) ==
    /\ Move(r, "ok")
    /\ tracker' = IF op[r].batch THEN tracker \cup {r} ELSE tracker

Apply(r) ==
    /\ At(r, "apply")
    /\ sys' = Applied(roster)
    /\ Done(r)
    /\ UNCHANGED <<roster, watch, decls>>

\* A sidecar commits the whole request; its answer may be lost.
Commit(r) ==
    /\ At(r, "commit")
    /\ \A c \in Range(op[r].changes) : c.team \in Declared(roster) /\ c.user \in roster.users
    /\ roster' = MemberAll(roster, op[r].changes)
    /\ \/ Done(r)
       \/ Move(r, "failed") /\ UNCHANGED tracker
    /\ UNCHANGED <<sys, watch, decls>>

ReqStep(r) ==
    \/ ReadFails(r) \/ Declare(r) \/ AskAdmin(r) \/ Owned(r) \/ Known(r)
    \/ Edit(r) \/ WriteFails(r) \/ Apply(r) \/ Commit(r)

---------------------------------------------------------------------------
(* handleTeamsStatus: look at once, then at every tick until the deadline. *)

Follow(w, r) ==
    /\ watch[w].pc = "idle" /\ r \in tracker
    /\ watch' = [watch EXCEPT ![w] = [IdleWatch EXCEPT !.pc = "look", !.id = r]]
    /\ UNCHANGED <<roster, sys, requests, decls>>

Changes(w) == op[watch[w].id].changes

\* A mutant of Says: a removal, too, is done once the name is in the table.
SaysIn(c, ms) == c.user \in ms
Says(c, ms) == (c.user \in ms) = c.member

NextLook(w) == IF watch[w].i = Len(Changes(w)) THEN "applied" ELSE "look"

\* MembershipApplied, change by change; a group is read once per look, and a
\* getent that fails reads as a group without members.
Look(w) ==
    LET s == watch[w]
        c == Changes(w)[s.i]
    IN  /\ s.pc = "look"
        /\ \E ms \in IF c.team \in DOMAIN s.seen THEN {s.seen[c.team]}
                     ELSE {sys.members[c.team], {}} :
              watch' = [watch EXCEPT ![w] =
                  [s EXCEPT !.pc = IF Says(c, ms) THEN NextLook(w) ELSE "wait",
                            !.i = @ + 1,
                            !.seen = [g \in DOMAIN @ \cup {c.team} |->
                                         IF g = c.team THEN ms ELSE @[g]],
                            !.missed = IF ms # sys.members[c.team]
                                          /\ c.team \notin DOMAIN s.seen
                                       THEN @ \cup {c.team} ELSE @]]
        /\ UNCHANGED <<roster, sys, requests, decls>>

LookAgain(w) ==
    /\ watch[w].pc = "wait"
    /\ watch' = [watch EXCEPT ![w] = [IdleWatch EXCEPT !.pc = "look", !.id = watch[w].id]]
    /\ UNCHANGED <<roster, sys, requests, decls>>

\* The deadline, or the browser has gone.
LookNoMore(w) ==
    /\ watch[w].pc \in {"look", "wait"}
    /\ watch' = [watch EXCEPT ![w].pc = "ended"]
    /\ UNCHANGED <<roster, sys, requests, decls>>

\* sweep, a quarter of an hour later; the stream has its own copy.
Forget(rs) ==
    /\ tracker' = tracker \ rs
    /\ UNCHANGED <<roster, sys, op, watch, decls>>

WatchStep(w) == Look(w) \/ LookAgain(w) \/ LookNoMore(w)

---------------------------------------------------------------------------
(* views.go: where a reader's request goes.                                *)

\* A mutant of Reusable: one tick too long.
ReusableLonger == decls.decl # None /\ now - decls.at <= DeclTTL
Reusable == decls.decl # None /\ now - decls.at < DeclTTL

\* The rosters there have been since t.
StoodSince(t) == {roster} \cup {p.roster : p \in {p \in past : p.until >= t}}

\* cachedDeclaration returns d; missed: `usersync roster` was run and failed.
\* The lock is held while it runs, and its answer is stamped when it is there, so
\* this is that moment: what is stamped now stood at some time during the run.
CachedDeclaration(d, missed) ==
    IF Reusable
    THEN ~missed /\ d = decls.decl /\ UNCHANGED decls
    ELSE IF missed THEN d = decls.decl /\ UNCHANGED decls
         ELSE /\ d \in StoodSince(now - ReadTime)
              /\ decls' = [decl |-> d, at |-> now]

\* A mutant of Route: a member of the team is a reader too.
RouteAnyone(d, u, g) ==
    LET rs == d.readers[g] \cap Mine(d, u) IN
    IF d = None THEN None
    ELSE IF g \notin Declared(d) \/ rs = {} THEN None
    ELSE LET r == CHOOSE x \in rs : TRUE IN
         IF g \in d.views[r] THEN r ELSE None

\* ReaderRoutes and ReroutePath: the reader group whose view of g is opened, or
\* None for the team's own folder.  Of several, the first by name, view or not.
Route(d, u, g) ==
    IF d = None THEN None
    ELSE LET rs == IF g \in Declared(d) THEN d.readers[g] \cap Mine(d, u) ELSE {} IN
         IF g \in Mine(d, u) \/ rs = {} THEN None
         ELSE LET r == CHOOSE x \in rs : TRUE IN
              IF g \in d.views[r] THEN r ELSE None

\* External: the kernel.  A view is mounted where usersync applied it.
KernelReads(groups, g, via) ==
    IF via = None THEN g \in groups \cup sys.anonymous
    ELSE via \in groups /\ g \in sys.views[via]

---------------------------------------------------------------------------
TeamsInit ==
    /\ roster \in Rosters
    /\ sys = [members |-> [g \in Groups |-> MembersOf(roster, g)],
              views |-> roster.views, anonymous |-> Public(roster)]
    /\ local \in BOOLEAN
    /\ op = [r \in Reqs |-> IdleReq]
    /\ tracker = {}
    /\ watch = [w \in Watchers |-> IdleWatch]
    /\ decls = [decl |-> None, at |-> 0]
    /\ may = [r \in Reqs |-> {}]
    /\ over = [r \in Reqs |-> {}]
    /\ held = [w \in Watchers |-> {}]
    /\ past = {}

\* The memberships two rosters disagree on; all of a team that only one declares.
Differ(d, e) ==
    {m \in Groups \X Users :
        \/ (m[1] \in Declared(d)) # (m[1] \in Declared(e))
        \/ (m[2] \in MembersOf(d, m[1])) # (m[2] \in MembersOf(e, m[1]))}

\* MayManageTeam: an administrator manages every team, declared or not.
Manages(d, s, u) ==
    IF u \in s.members[AdminGroup] THEN Groups ELSE Owns(d, u)

\* History variables, kept up by every step.
Remember ==
    /\ may' = [r \in Reqs |->
                 IF op'[r].pc = "idle" THEN {}
                 ELSE may[r] \cup Manages(roster', sys', op'[r].actor)]
    /\ over' = [r \in Reqs |->
                 IF op'[r] = op[r] /\ ~At(r, "idle")
                 THEN over[r] \cup Differ(roster, roster') ELSE over[r]]
    /\ held' = [w \in Watchers |->
                 IF watch'[w].pc = "idle" THEN {}
                 ELSE held[w] \cup {i \in DOMAIN op[watch'[w].id].changes :
                          LET c == op[watch'[w].id].changes[i]
                          IN  \E s \in {sys, sys'} : (c.user \in s.members[c.team]) = c.member}]
=============================================================================
