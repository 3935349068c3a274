------------------------------- MODULE Access -------------------------------
(***************************************************************************)
(* One darak process in which owners change teams, readers are routed to   *)
(* views, strangers follow share links and people sign in through their    *)
(* provider, while operators edit the roster, the system converges to it   *)
(* and the process restarts.                                               *)
(*                                                                         *)
(* What a scene allows is a record of budgets; a behaviour plays one.      *)
(***************************************************************************)
EXTENDS Share, SignIn

CONSTANTS
    Scenes     \* [edits, admins, follows, visits, links, fetches, restarts, ticks : Nat,
               \*  calls : [Reqs -> SUBSET [actor, batch, changes]],
               \*  who : SUBSET Users, teams : SUBSET Groups, start : SUBSET Rosters,
               \*  locals : SUBSET BOOLEAN, keeps : BOOLEAN,
               \*  logins, callbacks, forms, changes : Nat,
               \*  people : what <<maps, accounts, forward, enrolls>> may be]

\* handleTeamsApply refuses a batch without changes.
ASSUME SceneShape ==
    \A sc \in Scenes :
        /\ {"calls", "who", "keeps"} \subseteq DOMAIN sc
        /\ sc.who \subseteq Users
        /\ \A r \in Reqs : \A ask \in sc.calls[r] :
              ask.changes \in Seq(Membership) /\ Len(ask.changes) > 0

VARIABLES left       \* what remains of the scene

vars == <<now, roster, sys, local, op, tracker, watch, decls, may, over, held, past,
          shareVars, signVars, since, left>>

Init ==
    /\ left \in Scenes
    /\ now = 0
    /\ TeamsInit /\ ShareInit /\ SignInInit
    /\ roster \in left.start /\ local \in left.locals
    /\ <<maps, accounts, forward, enrolls>> \in left.people

Use(what) == left[what] > 0 /\ left' = [left EXCEPT ![what] = @ - 1]

Operators ==
    /\ \/ Use("edits") /\ RosterEdited
       \/ Use("edits") /\ Converge
       \/ Use("admins") /\ AdminsChanged
    /\ UNCHANGED <<now, shareVars, signVars>>

Owners ==
    /\ \/ \E r \in Reqs : ReqStep(r)
       \/ \E r \in Reqs : \E ask \in left.calls[r] :
             Submit(r, ask.actor, ask.batch, ask.changes)
    /\ UNCHANGED <<now, shareVars, signVars, left>>

Streams ==
    /\ \/ \E w \in Watchers : WatchStep(w) /\ UNCHANGED left
       \/ \E w \in Watchers, r \in Reqs : Use("follows") /\ Follow(w, r)
    /\ UNCHANGED <<now, shareVars, signVars>>

Files ==
    /\ \/ \E u \in left.who, g \in left.teams : Use("visits") /\ Visit(u, g)
       \/ \E k \in Tokens, u \in left.who, g \in left.teams, pw \in BOOLEAN :
          \E asked \in {0, MaxLifetime + 1} :
             Use("links") /\ CreateLink(k, u, g, asked, pw)
       \/ \E u \in Users, k \in Tokens : Use("edits") /\ Revoke(u, k)
       \/ Sweep /\ UNCHANGED left
       \/ \E b \in Browsers, k \in Tokens, try \in {"get", "right", "wrong"} :
             Use("fetches") /\ Request(b, k, try)
       \/ \E b \in Browsers : FetchStep(b) /\ UNCHANGED left
    /\ UNCHANGED <<now, signVars>>

SigningIn ==
    /\ \/ \E b \in Visitors, f \in Flows : Use("logins") /\ Login(b, f)
       \/ \E d \in back, s \in Subjects : ProviderAnswers(d, s) /\ UNCHANGED left
       \/ \E q \in Calls : \E d \in back : Use("callbacks") /\ Callback(q, d)
       \/ \E q, p \in Calls : Use("callbacks") /\ Again(q, p)
       \/ \E q \in Calls, b \in Visitors, s \in Subjects : Use("callbacks") /\ Forward(q, b, s)
       \/ \E q \in Calls : CallStep(q) /\ UNCHANGED left
       \/ \E q \in Calls : Use("forms") /\ ShowNotice(q)
       \/ \E e \in Pages, q \in Calls : Use("forms") /\ FollowEnrollment(e, q)
       \/ \E e \in Pages : Poll(e) /\ UNCHANGED left
       \/ \E a \in Accounts, st \in {"enabled", "suspended"} : Use("changes") /\ AccountChanges(a, st)
       \/ \E s \in Subjects, a \in Accounts \cup {None} : Use("changes") /\ Mapped(s, a)
    /\ UNCHANGED <<now, roster, sys, requests, watch, decls, shareVars>>

\* The trackers of both, every minute.
SweepSSO ==
    /\ \E rs \in SUBSET tracker : Forget(rs)
    /\ SignInSwept
    /\ UNCHANGED <<now, shareVars, left>>

Tick ==
    /\ Use("ticks") /\ now < MaxNow
    /\ now' = now + 1
    /\ UNCHANGED <<roster, sys, requests, watch, decls, shareVars, signVars>>

\* A restart: what was in memory is gone, what was under way is broken off.
Restart ==
    /\ Use("restarts")
    /\ op' = [r \in Reqs |-> IF op[r].pc \in {"idle", "ok", "refused", "failed"} THEN op[r]
                             ELSE [op[r] EXCEPT !.pc = "failed"]]
    /\ tracker' = {}
    /\ watch' = [w \in Watchers |-> IF watch[w].pc \in {"look", "wait"}
                                    THEN [watch[w] EXCEPT !.pc = "ended"] ELSE watch[w]]
    /\ decls' = [decl |-> None, at |-> 0]
    /\ links' = Unexpired
    /\ secret' = secret + 1
    /\ fetch' = [b \in Browsers |-> IF fetch[b].pc \in Ended THEN fetch[b] ELSE IdleFetch]
    /\ creds' = [u \in Users |-> None]
    /\ SignInRestarts
    /\ UNCHANGED <<now, roster, sys, minted, jar, opened, proved>>

Step == Operators \/ Owners \/ Streams \/ Files \/ SigningIn
        \/ SweepSSO \/ Tick \/ Restart

\* Only scenes that look back at it keep the past.
RememberPast ==
    past' = IF (roster' = roster /\ sys' = sys) \/ ~left.keeps THEN past
            ELSE past \cup {[roster |-> roster, sys |-> sys, until |-> now]}

\* Nothing is under way, and the scene may be over.
AtRest ==
    /\ \A r \in Reqs : op[r].pc \in {"idle", "ok", "refused", "failed"}
    /\ \A w \in Watchers : watch[w].pc \notin {"look", "wait"}
    /\ \A b \in Browsers : fetch[b].pc \in Ended
    /\ \A q \in Calls : call[q].pc \in Over
    /\ \A e \in Pages : page[e].pc # "wait"

Next ==
    \/ Step /\ Remember /\ RememberSince /\ RememberPast /\ UNCHANGED local
    \/ AtRest /\ UNCHANGED vars

Spec == Init /\ [][Next]_vars

---------------------------------------------------------------------------
(* Properties.                                                             *)

TypeOK ==
    /\ now \in 0 .. MaxNow /\ roster.users \subseteq Users
    /\ DOMAIN sys.members = Groups /\ local \in BOOLEAN
    /\ tracker \subseteq Reqs /\ minted \subseteq Tokens
    /\ \A k \in Tokens : links[k] # None => k \in minted
    /\ \A r \in Reqs : op[r].i \in 1 .. Len(op[r].changes) + 1

\* A request writes to the roster only when its actor could manage EVERY team it
\* names, each at some moment since the request came: as an owner in the roster or
\* as an administrator in the group table, whatever else has been edited meanwhile.
OnlyManaged ==
    [][\A r \in Reqs :
          op'[r] # op[r] /\ roster' # roster =>
             {c.team : c \in Range(op[r].changes)} \subseteq may[r]]_vars

\* The memberships that the last change of a request to each leaves behind.
Wanted(r) ==
    LET cs == op[r].changes IN
    {cs[i] : i \in {i \in DOMAIN cs :
                \A j \in i + 1 .. Len(cs) : <<cs[j].team, cs[j].user>> # <<cs[i].team, cs[i].user>>}}

\* A request is answered with success only when every change it asked for is made:
\* in the running system where darak applies it itself, in the source where a
\* sidecar commits it; except what someone else has changed since.
SuccessIsLanded ==
    [][\A r \in Reqs :
          op[r].pc # "ok" /\ op'[r].pc = "ok" =>
             \A c \in Wanted(r) :
                \/ <<c.team, c.user>> \in over[r]
                \/ LET ms == IF local THEN sys'.members[c.team] ELSE roster'.members[c.team]
                   IN  (c.user \in ms) = c.member]_vars

\* A stream says "applied" only of changes each of which the group table showed at
\* some moment since the stream was opened, unless getent failed for its group.
AppliedWasSeen ==
    \A w \in Watchers : watch[w].pc = "applied" =>
        \A i \in DOMAIN Changes(w) :
            i \in held[w] \/ Changes(w)[i].team \in watch[w].missed

\* Within a TTL of now, or now.
Recent(ttl) ==
    {[roster |-> roster, sys |-> sys]} \cup
    {[roster |-> p.roster, sys |-> p.sys] : p \in {p \in past : now - p.until < ttl}}

\* usersync makes a view of a team for each group that reads it.
EveryReaderHasAView ==
    \A d \in Rosters : \A g \in Declared(d) :
        \A r \in d.readers[g] \cap Declared(d) : g \in d.views[r]

\* A request goes to a read-only view only of someone who, in a roster that stood
\* within the last DeclTTL and the time it takes to read one, was a reader of the
\* team and not a member of it; and a reader who was one throughout is never sent to
\* the folder that refuses them.
\* A roster that could not be read lifts the bound.
RoutesFresh ==
    opened.at = now /\ opened.user # None /\ ~opened.missed =>
        LET reads(d) == /\ opened.team \in Declared(d)
                        /\ opened.user \notin d.members[opened.team]
                        /\ \E r \in d.readers[opened.team] :
                              opened.user \in MembersOf(d, r) /\ opened.team \in d.views[r]
        IN  \E s \in Recent(DeclTTL + ReadTime) : reads(s.roster) = (opened.via # None)

\* The lock the listing shows agrees with what opening the folder does, once the
\* system has converged and the cached roster is the current one; and the panel
\* lists exactly the teams a batch of the same person would be accepted for.
HintsAgree ==
    /\ sys = Applied(roster) /\ decls.decl = roster =>
          \A u \in Users, g \in Declared(roster) :
             (g \in TeamAccess(roster, u))
                = KernelReads(GroupsOf(sys, u), g, Route(decls.decl, u, g))
    /\ \A u \in Users, v \in roster.users, admin \in BOOLEAN :
          ManageableTeams(roster, admin, u) =
             {g \in Groups : Accepts(roster, admin, u,
                                 <<[team |-> g, user |-> v, member |-> TRUE]>>)}

\* The bytes of a shared file leave only through a link that was live when the
\* request came, to a browser that has given its password if it has one, and only
\* while its owner may read the file: by groups read within CredsTTL.
ServedIsAllowed ==
    [][\A b \in Browsers :
          fetch[b].pc # "served" /\ fetch'[b].pc = "served" =>
             LET l == fetch[b].link IN
             /\ fetch[b].alive
             /\ l.pw => fetch[b].token \in proved[b]
             /\ \E s \in Recent(CredsTTL) :
                   LET gs == GroupsOf(s.sys, l.owner) IN
                   \/ l.team \in gs \cup sys.anonymous
                   \/ \E r \in gs : l.team \in sys.views[r]]_vars

\* A session is made only from a flow that was begun in that browser no longer than
\* FlowTTL before the request came (or from a proxy's token, where one is trusted),
\* for an account that the person's subject was mapped to, and that the gate would
\* have let in, at some moment since the request came.
SessionIsAsserted ==
    [][\A s \in sessions' \ sessions :
          /\ IF s.flow = None THEN forward
             ELSE /\ begun[s.flow].by = s.by
                  /\ since[s.call].at <= begun[s.flow].at + FlowTTL
          /\ s.account \in since[s.call].mapped \cap since[s.call].enabled]_vars

\* However often a redirect is sent, a flow signs in once; and a notice is read once,
\* by whoever asks for it first.
SingleUse ==
    /\ TypeOK
    /\ \A f \in Flows : Cardinality({s \in sessions : s.flow = f}) <= 1
    /\ \A q \in Calls : shown[q] <= 1
=============================================================================
