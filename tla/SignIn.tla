------------------------------- MODULE SignIn -------------------------------
(***************************************************************************)
(* Signing in through a provider: the flow (internal/sso/sso.go), the      *)
(* handlers around it (internal/server/sso.go) and the gate every path     *)
(* ends at (internal/auth/gate.go).  Which account answers for a subject   *)
(* is module Identity's; here the mapping is there, and changes.           *)
(*                                                                         *)
(* State, nonce and PKCE verifier are drawn with the flow and unguessable, *)
(* so a flow stands for all of them.  Sessions outlive the process; flows, *)
(* notices and enrollments do not.                                         *)
(***************************************************************************)
EXTENDS Clock, FiniteSets

CONSTANTS
    Visitors,        \* browsers that sign in
    Flows,           \* the ids Begin draws
    Subjects, Accounts,
    NameOf,          \* firstAccountName of a subject's addresses, or None
    Calls,           \* requests, and the notices and enrollments they leave
    Pages,           \* enrollment streams
    FlowTTL, NoticeTTL, EnrollTTL, Retry

ASSUME SignInConstants ==
    /\ {FlowTTL, NoticeTTL, EnrollTTL, Retry} \subseteq Nat
    /\ NameOf \in [Subjects -> Accounts \cup {None}]
    /\ None \notin Flows
    /\ None \notin [by : Visitors, at : Nat]

VARIABLES
    accounts,   \* NSS and tdbsam: "absent", "enabled" or "suspended"
    maps,       \* the identity store: a subject's account, or None
    forward,    \* forward-auth: a proxy runs the flow
    enrolls,    \* the control plane takes enrollments
    verifier,   \* discovery has succeeded
    nextTry,    \* and is not tried again before
    flows,      \* per id: when the flow expires, or None
    begun,      \* ghost, per id: which browser began it, and when
    cookie,     \* per browser: darak_sso, or None
    back,       \* redirects the provider has sent browsers back with
    call,       \* per request: where the handler is
    sessions,   \* the sessions that were created
    notices,    \* per request: the notice it left, or None
    shown,      \* ghost, per request: how often its notice was shown
    enroll,     \* enrollTracker: per request, the enrollment it started
    page,       \* per stream: what it follows and how far it is
    since       \* ghost, per request under way: what has been true since it came

signVars == <<accounts, maps, forward, enrolls, verifier, nextTry, flows, begun, cookie,
              back, call, sessions, notices, shown, enroll, page>>
discovery == <<verifier, nextTry>>
outside == <<accounts, maps, forward, enrolls>>

IdleCall == [pc |-> "idle", by |-> None, flow |-> None, subject |-> None,
             account |-> None]

Ago == [at |-> 0, mapped |-> {}, enabled |-> {}]

Over == {"idle", "told", "signed in"}

CallAt(q, pc) == call[q].pc = pc
CallTo(q, pc) == call' = [call EXCEPT ![q].pc = pc]

---------------------------------------------------------------------------
(* sso.go                                                                  *)

\* ready: discovery, once, and no more often than Retry.
Discover(ok) ==
    IF verifier THEN ok /\ UNCHANGED discovery
    ELSE IF now < nextTry THEN ~ok /\ UNCHANGED discovery
    ELSE /\ verifier' = ok
         /\ nextTry' = IF ok THEN nextTry ELSE now + Retry

FlowsSwept == [f \in Flows |-> IF flows[f] # None /\ Past(flows[f]) THEN None ELSE flows[f]]

\* Mutants of Taken: the flow stays, to be swept; or goes only once it is used.
TakenStays(f) == flows
Taken(f) == [flows EXCEPT ![f] = None]

\* A mutant of Usable: it is the sweep that ends flows.
UsableUntilSwept(f) == f # None /\ flows[f] # None
Usable(f) == f # None /\ flows[f] # None /\ ~Past(flows[f])

Begun(f) == [FlowsSwept EXCEPT ![f] = now + FlowTTL]

---------------------------------------------------------------------------
(* handleSSOLogin.  The flow is there before the provider is asked for,    *)
(* and stays when it cannot be reached.                                    *)

Login(b, f) ==
    /\ ~forward /\ begun[f] = None
    /\ begun' = [begun EXCEPT ![f] = [by |-> b, at |-> now]]
    /\ flows' = Begun(f)
    /\ \E ok \in BOOLEAN :
          /\ Discover(ok)
          /\ cookie' = IF ok THEN [cookie EXCEPT ![b] = f] ELSE cookie
          /\ back' = IF ok THEN back \cup {[by |-> b, flow |-> f, subject |-> None]} ELSE back
    /\ UNCHANGED <<outside, call, sessions, notices, shown, enroll, page>>

\* External: the person signs in there, as whoever they are.
ProviderAnswers(d, s) ==
    /\ d \in back /\ d.subject = None
    /\ back' = (back \ {d}) \cup {[d EXCEPT !.subject = s]}
    /\ UNCHANGED <<outside, discovery, flows, begun, cookie, call, sessions, notices,
                   shown, enroll, page>>

NoticesSwept ==
    [q \in Calls |-> IF notices[q] # None /\ Past(notices[q]) THEN None ELSE notices[q]]

\* Every way a callback ends without a session leaves a notice.
Told(q) == notices' = [NoticesSwept EXCEPT ![q] = now + NoticeTTL]

TellFailure(q) ==
    /\ CallTo(q, "told") /\ Told(q)
    /\ UNCHANGED <<outside, flows, begun, cookie, back, sessions, shown, enroll, page>>

\* handleSSOCallback up to Exchange.  The browser may come back with the redirect
\* of another tab's flow, or with one it has come back with before.
Callback(q, d) ==
    LET f == cookie[d.by] IN
    /\ CallAt(q, "idle") /\ d \in back /\ d.subject # None
    /\ cookie' = [cookie EXCEPT ![d.by] = None]
    /\ flows' = IF f = None THEN flows ELSE Taken(f)
    /\ IF Usable(f) /\ d.flow = f
       THEN /\ call' = [call EXCEPT ![q] = [pc |-> "exchange", by |-> d.by, flow |-> f,
                                            subject |-> d.subject, account |-> None]]
            /\ UNCHANGED notices
       ELSE /\ call' = [call EXCEPT ![q] = [IdleCall EXCEPT !.pc = "told", !.by = d.by]]
            /\ Told(q)
    /\ UNCHANGED <<outside, discovery, begun, back, sessions, shown, enroll, page>>

\* The request is sent again before the first one's answer has cleared the cookie.
Again(q, p) ==
    /\ CallAt(q, "idle") /\ CallAt(p, "exchange") /\ call[p].flow # None
    /\ LET f == call[p].flow IN
       /\ flows' = Taken(f)
       /\ IF Usable(f)
          THEN call' = [call EXCEPT ![q] = call[p]] /\ UNCHANGED notices
          ELSE /\ call' = [call EXCEPT ![q] = [IdleCall EXCEPT !.pc = "told", !.by = call[p].by]]
               /\ Told(q)
    /\ UNCHANGED <<outside, discovery, begun, cookie, back, sessions, shown, enroll, page>>

\* Exchange or Assert: the provider is unreachable, or the token is refused (its
\* tenant, its addresses, its nonce), or it says who this is.
Exchange(q) ==
    /\ CallAt(q, "exchange")
    /\ \E ok \in BOOLEAN :
          /\ Discover(ok)
          /\ \/ /\ ok /\ CallTo(q, "resolve")
                /\ UNCHANGED <<outside, flows, begun, cookie, back, sessions, notices,
                               shown, enroll, page>>
             \/ TellFailure(q)

\* handleSSOForward: a token some proxy was given, and no flow of ours.
Forward(q, b, s) ==
    /\ forward /\ CallAt(q, "idle")
    /\ call' = [call EXCEPT ![q] = [pc |-> "exchange", by |-> b, flow |-> None,
                                    subject |-> s, account |-> None]]
    /\ UNCHANGED <<outside, discovery, flows, begun, cookie, back, sessions, notices,
                   shown, enroll, page>>

---------------------------------------------------------------------------
(* From who it is to a session.                                            *)

calm == <<outside, discovery, flows, begun, cookie, back, shown, page>>

Resolve(q) ==
    /\ CallAt(q, "resolve")
    /\ call' = [call EXCEPT ![q].account = maps[call[q].subject],
                            ![q].pc = IF maps[call[q].subject] = None THEN "queue" ELSE "gate"]
    /\ UNCHANGED <<calm, sessions, notices, enroll>>

\* A mutant of MaySignIn: it is enough that the name resolves.
MaySignInExisting(a) == accounts[a] # "absent"
MaySignIn(a) == accounts[a] = "enabled"

\* The gate: on every sign-in, and an error is no permission.
Gate(q) ==
    /\ CallAt(q, "gate")
    /\ IF MaySignIn(call[q].account)
       THEN CallTo(q, "create") /\ UNCHANGED notices
       ELSE CallTo(q, "told") /\ Told(q)
    /\ UNCHANGED <<calm, sessions, enroll>>

Fails(q) ==
    /\ call[q].pc \in {"resolve", "gate", "create"}
    /\ CallTo(q, "told") /\ Told(q)
    /\ UNCHANGED <<calm, sessions, enroll>>

Create(q) ==
    /\ CallAt(q, "create")
    /\ sessions' = sessions \cup {[call |-> q, by |-> call[q].by, flow |-> call[q].flow,
                                   account |-> call[q].account]}
    /\ CallTo(q, "signed in")
    /\ UNCHANGED <<calm, notices, enroll>>

\* External: the stages Add answers with.  READY is not among them: the control
\* plane cannot see whether the roster has been applied.
Stages == {"creating", "denied"}

\* queueIdentity: an enrollment, or the queue when there is no control plane, no
\* name, or it refuses.
Queue(q) ==
    /\ CallAt(q, "queue")
    /\ enroll' \in {enroll} \cup
          (IF ~enrolls \/ NameOf[call[q].subject] = None THEN {}
           ELSE {[enroll EXCEPT ![q] = [account |-> NameOf[call[q].subject], stage |-> st,
                                        expires |-> now + EnrollTTL]] : st \in Stages})
    /\ CallTo(q, "told") /\ Told(q)
    /\ UNCHANGED <<calm, sessions>>

CallStep(q) ==
    Exchange(q) \/ Resolve(q) \/ Gate(q) \/ Fails(q) \/ Create(q) \/ Queue(q)

---------------------------------------------------------------------------
(* What the login page asks for afterwards.                                *)

\* A mutant of Spent: reading a notice leaves it there.
SpentNot(q) == notices
Spent(q) == [notices EXCEPT ![q] = None]

\* handleSSONotice.
ShowNotice(q) ==
    /\ notices[q] # None
    /\ shown' = IF Past(notices[q]) THEN shown ELSE [shown EXCEPT ![q] = @ + 1]
    /\ notices' = Spent(q)
    /\ UNCHANGED <<outside, discovery, flows, begun, cookie, back, call, sessions, enroll, page>>

\* handleSSOEnrollment: the first event is the control plane's stage; only the gate
\* says READY.
FollowEnrollment(e, q) ==
    /\ page[e].pc = "idle" /\ enroll[q] # None
    /\ page' = [page EXCEPT ![e] = [account |-> enroll[q].account,
                                    pc |-> IF enroll[q].stage = "denied" THEN "denied" ELSE "wait"]]
    /\ UNCHANGED <<outside, discovery, flows, begun, cookie, back, call, sessions, notices,
                   shown, enroll>>

Poll(e) ==
    /\ page[e].pc = "wait"
    /\ page' = [page EXCEPT ![e].pc = IF MaySignIn(page[e].account) THEN "ready" ELSE "ended"]
    /\ UNCHANGED <<outside, discovery, flows, begun, cookie, back, call, sessions, notices,
                   shown, enroll>>

\* What SweepSSO drops of a sign-in.
SignInSwept ==
    /\ flows' = FlowsSwept
    /\ notices' = NoticesSwept
    /\ enroll' = [q \in Calls |-> IF enroll[q] # None /\ Past(enroll[q].expires) THEN None ELSE enroll[q]]
    /\ UNCHANGED <<outside, discovery, begun, cookie, back, call, sessions, shown, page>>

\* External: accounts come and are suspended; identities are bound and forgotten.
AccountChanges(a, st) ==
    /\ accounts[a] # st /\ accounts' = [accounts EXCEPT ![a] = st]
    /\ UNCHANGED <<maps, forward, enrolls, discovery, flows, begun, cookie, back, call,
                   sessions, notices, shown, enroll, page>>

Mapped(s, a) ==
    /\ maps[s] # a /\ maps' = [maps EXCEPT ![s] = a]
    /\ UNCHANGED <<accounts, forward, enrolls, discovery, flows, begun, cookie, back, call,
                   sessions, notices, shown, enroll, page>>

SignInRestarts ==
    /\ verifier' = FALSE /\ nextTry' = 0
    /\ flows' = [f \in Flows |-> None]
    /\ notices' = [q \in Calls |-> None]
    /\ enroll' = [q \in Calls |-> None]
    /\ call' = [q \in Calls |-> IF call[q].pc \in Over THEN call[q]
                                ELSE [IdleCall EXCEPT !.pc = "told"]]
    /\ page' = [e \in Pages |-> IF page[e].pc = "wait" THEN [page[e] EXCEPT !.pc = "ended"]
                                ELSE page[e]]
    /\ UNCHANGED <<outside, begun, cookie, back, sessions, shown>>

SignInInit ==
    /\ accounts \in [Accounts -> {"absent", "enabled"}]
    /\ maps \in [Subjects -> Accounts \cup {None}]
    /\ forward \in BOOLEAN /\ enrolls \in BOOLEAN
    /\ verifier = FALSE /\ nextTry = 0
    /\ flows = [f \in Flows |-> None]
    /\ begun = [f \in Flows |-> None]
    /\ cookie = [b \in Visitors |-> None]
    /\ back = {}
    /\ call = [q \in Calls |-> IdleCall]
    /\ sessions = {}
    /\ notices = [q \in Calls |-> None]
    /\ shown = [q \in Calls |-> 0]
    /\ enroll = [q \in Calls |-> None]
    /\ page = [e \in Pages |-> [pc |-> "idle", account |-> None]]
    /\ since = [q \in Calls |-> Ago]

\* History, kept up by every step of a request: the accounts its subject has been
\* mapped to, and those that could be signed in to, since it came.
RememberSince ==
    since' = [q \in Calls |->
        IF call'[q].pc \in Over THEN Ago
        ELSE [at |-> IF call[q].pc \in Over THEN now ELSE since[q].at,
              mapped |-> since[q].mapped \cup {maps'[call'[q].subject]},
              enabled |-> since[q].enabled
                             \cup {a \in Accounts : accounts'[a] = "enabled"}]]
=============================================================================
