------------------------------ MODULE Identity ------------------------------
(***************************************************************************)
(* Who may sign in as whom: identity.Store (the approved mappings and      *)
(* their two indexes), identity.Queue (the requests waiting for an         *)
(* administrator), and the handlers that use them (internal/server/sso.go: *)
(* resolveIdentity, provision, queueIdentity, and the administrator's      *)
(* approve, discard and forget).                                           *)
(*                                                                         *)
(* Each call of a store is one locked read-modify-write (StateFile) and so *)
(* one step here; a handler makes several, and sign-ins on any replica and *)
(* the administrator's requests interleave between them.                   *)
(***************************************************************************)
EXTENDS Naturals, Sequences, FiniteSets, SequencesExt

CONSTANTS
    Accounts,
    Subjects,     \* the directory's objects, by issuer and subject
    Emails,
    None,
    Procs,        \* sign-ins under way at the same time
    NameOf,       \* accountFromEmail: the account an address derives, or None
    TrustEmail,   \* the configuration of that name
    Provisions,   \* TRUE: an endpoint may create accounts
    MaxPending,   \* Queue.Max
    MaxActors     \* a bound: sign-ins and administrators acting at a time

Mappings == [emails : SUBSET Emails, subject : Subjects \cup {None}]

ASSUME ConstantsOK ==
    /\ None \notin Accounts \cup Subjects \cup Emails
    /\ None \notin Mappings
    /\ NameOf \in [Emails -> Accounts \cup {None}]
    /\ {TrustEmail, Provisions} \subseteq BOOLEAN
    /\ MaxPending \in Nat \ {0}
    /\ MaxActors \in Nat \ {0}

Requests == [subject : Subjects, emails : SUBSET Emails]
Signs == [subject : Subjects \cup {None}, todo : SUBSET Emails, emails : SUBSET Emails,
          account : Accounts \cup {None}, email : Emails \cup {None}, forgotten : BOOLEAN]

VARIABLES
    holder,     \* the directory: whose each address is at the moment
    byAccount,  \* Store.byAccount, None where there is no mapping
    byEmail,    \* Store.byEmail
    bySubject,  \* Store.bySubject
    pending,    \* Queue.m by last sight, the longest unseen first
    pc,         \* per sign-in: where resolveIdentity is
    sign,       \* per sign-in: the assertion and what has been found so far
    admin,      \* the administrator's approval under way, or None
    brought,    \* ghost: per address, the subject it was recorded for
    signedIn    \* ghost: per account, who was found to be it since the last Forget

vars == <<holder, byAccount, byEmail, bySubject, pending, pc, sign, admin,
          brought, signedIn>>

store == <<byAccount, byEmail, bySubject, brought>>

\* `forgotten` is history: the account found has been forgotten since.
NoSign == [subject |-> None, todo |-> {}, emails |-> {}, account |-> None, email |-> None,
           forgotten |-> FALSE]

\* Room for one more sign-in or administrator's request.
Room ==
    Cardinality({p \in Procs : pc[p] # "idle"}) + (IF admin = None THEN 0 ELSE 1) < MaxActors

\* Mappings loaded from a file somebody wrote by hand: addresses, no subjects.
Seed(owner, a) ==
    LET mine == {e \in Emails : owner[e] = a}
    IN  IF mine = {} THEN None ELSE [emails |-> mine, subject |-> None]

Init ==
    /\ holder \in [Emails -> Subjects]
    /\ byEmail \in [Emails -> Accounts \cup {None}]
    /\ byAccount = [a \in Accounts |-> Seed(byEmail, a)]
    /\ bySubject = [s \in Subjects |-> None]
    /\ pending = <<>>
    /\ pc = [p \in Procs |-> "idle"]
    /\ sign = [p \in Procs |-> NoSign]
    /\ admin = None
    /\ brought = [e \in Emails |-> None]
    /\ signedIn = [a \in Accounts |-> {}]

Goto(p, label) == pc' = [pc EXCEPT ![p] = label]

---------------------------------------------------------------------------
(* identity.Store.  An operation is a condition for its success and what   *)
(* it then does; a refused one writes nothing.                             *)

\* Mutant of Pinnable: a new directory object replaces the pinned one.
PinnableAgain(a, s) == byAccount[a] # None /\ bySubject[s] = None
Pinnable(a, s) ==
    /\ byAccount[a] # None
    /\ byAccount[a].subject = None
    /\ bySubject[s] = None

Pinned(a, s) == byAccount[a] # None /\ byAccount[a].subject = s

Pin(a, s) ==
    /\ byAccount' = [byAccount EXCEPT ![a].subject = s]
    /\ bySubject' = [bySubject EXCEPT ![s] = a]
    /\ UNCHANGED <<byEmail, brought>>

\* Mutant of Attachable: the caller's ByEmail is trusted.
AttachableSeen(a, e) == byAccount[a] # None
Attachable(a, e) == byAccount[a] # None /\ byEmail[e] = None

Attach(a, e, s) ==
    /\ byAccount' = [byAccount EXCEPT ![a].emails = @ \cup {e}]
    /\ byEmail' = [byEmail EXCEPT ![e] = a]
    /\ brought' = [brought EXCEPT ![e] = s]
    /\ UNCHANGED bySubject

\* Mutant of Approvable: an account pinned to somebody else is bound again.
ApprovableOver(a, s, E) ==
    /\ \A e \in E : byEmail[e] \in {a, None}
    /\ bySubject[s] \in {a, None}
Approvable(a, s, E) ==
    /\ \A e \in E : byEmail[e] \in {a, None}
    /\ bySubject[s] \in {a, None}
    /\ byAccount[a] # None => byAccount[a].subject \in {s, None}

Approve(a, s, E) ==
    LET had == IF byAccount[a] = None THEN {} ELSE byAccount[a].emails
        new == {e \in E : byEmail[e] = None}
    IN  /\ byAccount' = [byAccount EXCEPT ![a] = [emails |-> had \cup new, subject |-> s]]
        /\ byEmail' = [e \in Emails |-> IF e \in new THEN a ELSE byEmail[e]]
        /\ bySubject' = [bySubject EXCEPT ![s] = a]
        /\ brought' = [e \in Emails |-> IF e \in new THEN s ELSE brought[e]]

\* Mutant of Cleared: the account's addresses stay in the index.
ClearedNot(a) == byEmail
Cleared(a) == [e \in Emails |-> IF e \in byAccount[a].emails THEN None ELSE byEmail[e]]

Forget(a) ==
    /\ byAccount' = [byAccount EXCEPT ![a] = None]
    /\ byEmail' = Cleared(a)
    /\ bySubject' = IF byAccount[a].subject = None THEN bySubject
                    ELSE [bySubject EXCEPT ![byAccount[a].subject] = None]
    /\ brought' = [e \in Emails |-> IF e \in byAccount[a].emails THEN None ELSE brought[e]]

---------------------------------------------------------------------------
(* identity.Queue.                                                         *)

\* The row of a subject: Queue.m has one entry per subject.
Rows(s) == {i \in DOMAIN pending : pending[i].subject = s}
Row(s) == CHOOSE i \in Rows(s) : TRUE

\* Record: one row per subject, its addresses added up, last; the row unseen
\* for longest gives way.  Mutant: the ceiling is checked too late by one.
RoomTooLate(q) == Len(q) > MaxPending
NoRoom(q) == Len(q) >= MaxPending

Request(s, E) == [subject |-> s, emails |-> E]

Recorded(s, E) ==
    IF Rows(s) # {}
    THEN Append(RemoveAt(pending, Row(s)), Request(s, E \cup pending[Row(s)].emails))
    ELSE Append(IF NoRoom(pending) THEN Tail(pending) ELSE pending, Request(s, E))

Without(s) == IF Rows(s) = {} THEN pending ELSE RemoveAt(pending, Row(s))

---------------------------------------------------------------------------
(* A sign-in: resolveIdentity with a verified assertion, the subject's     *)
(* addresses as the directory has them at that moment.                     *)

Begin(p, s) ==
    LET mine == {e \in Emails : holder[e] = s}
    IN  /\ pc[p] = "idle"
        /\ Room
        /\ mine # {}
        /\ sign' = [sign EXCEPT ![p] = [NoSign EXCEPT !.subject = s, !.todo = mine,
                                                      !.emails = mine]]
        /\ Goto(p, "subject")
        /\ UNCHANGED <<holder, store, pending, admin, signedIn>>

\* The store call that decides the answer; the cookie is issued later, and
\* outlives a Forget in any case.
SignIn(p, a) == signedIn' = [signedIn EXCEPT ![a] = @ \cup {sign[p].subject}]

Finish(p) ==
    /\ Goto(p, "idle")
    /\ sign' = [sign EXCEPT ![p] = NoSign]

\* 1. BySubject: the subject, if it has been seen before.
BySubject(p) ==
    LET a == bySubject[sign[p].subject]
    IN  /\ pc[p] = "subject"
        /\ IF a # None
           THEN /\ sign' = [sign EXCEPT ![p].account = a]
                /\ SignIn(p, a)
                /\ Goto(p, "attach")
           ELSE /\ Goto(p, "email")
                /\ UNCHANGED <<sign, signedIn>>
        /\ UNCHANGED <<holder, store, pending, admin>>

\* ... and each address it comes with that no mapping lists: ByEmail first,
\* AttachEmail in a step of its own.
AttachNext(p, e) ==
    /\ pc[p] = "attach"
    /\ e \in sign[p].todo
    /\ sign' = [sign EXCEPT ![p].todo = @ \ {e}, ![p].email = e]
    /\ Goto(p, IF byEmail[e] = None THEN "attaching" ELSE "attach")
    /\ UNCHANGED <<holder, store, pending, admin, signedIn>>

AttachEmail(p) ==
    LET a == sign[p].account
        e == sign[p].email
    IN  /\ pc[p] = "attaching"
        /\ IF Attachable(a, e) THEN Attach(a, e, IF sign[p].forgotten THEN None ELSE sign[p].subject)
           ELSE UNCHANGED store               \* logged, and on to the next
        /\ Goto(p, "attach")
        /\ UNCHANGED <<holder, pending, sign, admin, signedIn>>

AttachDone(p) ==
    /\ pc[p] = "attach"
    /\ sign[p].todo = {}
    /\ Finish(p)
    /\ UNCHANGED <<holder, store, pending, admin, signedIn>>

\* 2. ByEmail: the first address a mapping answers for.
ByEmail(p, e) ==
    /\ pc[p] = "email"
    /\ e \in sign[p].todo
    /\ sign' = [sign EXCEPT ![p].todo = @ \ {e}, ![p].account = byEmail[e]]
    /\ Goto(p, IF byEmail[e] = None THEN "email" ELSE "pin")
    /\ UNCHANGED <<holder, store, pending, admin, signedIn>>

\* ... pins the subject: signed in; pinned to somebody else: queued; forgotten
\* in between: an error.
PinStep(p) ==
    LET a == sign[p].account
        s == sign[p].subject
    IN  /\ pc[p] = "pin"
        /\ \/ /\ Pinnable(a, s)
              /\ Pin(a, s)
              /\ SignIn(p, a)
              /\ Finish(p)
           \/ /\ ~ Pinnable(a, s)
              /\ Pinned(a, s)
              /\ SignIn(p, a)
              /\ Finish(p)
              /\ UNCHANGED store
           \/ /\ ~ Pinnable(a, s)
              /\ ~ Pinned(a, s)
              /\ IF byAccount[a] = None THEN Finish(p)
                 ELSE Goto(p, "queue") /\ UNCHANGED sign
              /\ UNCHANGED <<store, signedIn>>
        /\ UNCHANGED <<holder, pending, admin>>

NoEmailKnown(p) ==
    /\ pc[p] = "email"
    /\ sign[p].todo = {}
    /\ Goto(p, "new")
    /\ UNCHANGED <<holder, store, pending, sign, admin, signedIn>>

\* 2b. Trust-email: the first address that names an existing account binds it.
Trust(p, e) ==
    LET a == NameOf[e]
        s == sign[p].subject
    IN  /\ TrustEmail
        /\ pc[p] = "new"
        /\ e \in sign[p].emails
        /\ a # None
        /\ IF Approvable(a, s, {e})
           THEN Approve(a, s, {e}) /\ SignIn(p, a) /\ Finish(p)
           ELSE Goto(p, "queue") /\ UNCHANGED <<store, sign, signedIn>>
        /\ UNCHANGED <<holder, pending, admin>>

\* 3. Provisioning: an account that did not exist is created, and bound as an
\* approval would.  It may also decline, fail or be too slow.
Provision(p, a) ==
    LET s == sign[p].subject
        E == sign[p].emails
    IN  /\ Provisions
        /\ pc[p] = "new"
        /\ TrustEmail => \A e \in E : NameOf[e] = None
        /\ IF Approvable(a, s, E)
           THEN Approve(a, s, E) /\ SignIn(p, a) /\ Finish(p)
           ELSE Goto(p, "queue") /\ UNCHANGED <<store, sign, signedIn>>
        /\ UNCHANGED <<holder, pending, admin>>

NobodyYet(p) ==
    /\ pc[p] = "new"
    /\ TrustEmail => \A e \in sign[p].emails : NameOf[e] = None
    /\ Goto(p, "queue")
    /\ UNCHANGED <<holder, store, pending, sign, admin, signedIn>>

\* queueIdentity.
Record(p) ==
    /\ pc[p] = "queue"
    /\ pending' = Recorded(sign[p].subject, sign[p].emails)
    /\ Finish(p)
    /\ UNCHANGED <<holder, store, admin, signedIn>>

---------------------------------------------------------------------------
(* The administrator.  Approving is Get, Approve, Discard.                 *)

AdminMay == admin = None /\ Room

AdminGet(i, a) ==
    /\ AdminMay
    /\ admin' = [req |-> pending[i], account |-> a, step |-> "approve"]
    /\ UNCHANGED <<holder, store, pending, pc, sign, signedIn>>

AdminApprove ==
    /\ admin # None
    /\ admin.step = "approve"
    /\ LET r == admin.req
       IN  IF Approvable(admin.account, r.subject, r.emails)
           THEN /\ Approve(admin.account, r.subject, r.emails)
                /\ admin' = [admin EXCEPT !.step = "discard"]
           ELSE /\ admin' = None
                /\ UNCHANGED store
    /\ UNCHANGED <<holder, pending, pc, sign, signedIn>>

AdminApproved ==
    /\ admin # None
    /\ admin.step = "discard"
    /\ pending' = Without(admin.req.subject)
    /\ admin' = None
    /\ UNCHANGED <<holder, store, pc, sign, signedIn>>

AdminDiscard(i) ==
    /\ AdminMay
    /\ pending' = Without(pending[i].subject)
    /\ UNCHANGED <<holder, store, pc, sign, admin, signedIn>>

AdminForget(a) ==
    /\ AdminMay
    /\ byAccount[a] # None
    /\ Forget(a)
    /\ signedIn' = [signedIn EXCEPT ![a] = {}]
    /\ sign' = [p \in Procs |-> [sign[p] EXCEPT !.forgotten = @ \/ sign[p].account = a]]
    /\ UNCHANGED <<holder, pending, pc, admin>>

\* Queue.sweep: the rows unseen for longest expire.
Expire ==
    /\ pending # <<>>
    /\ pending' = Tail(pending)
    /\ UNCHANGED <<holder, store, pc, sign, admin, signedIn>>

\* The directory gives an address to somebody else.
Reassign(e, s) ==
    /\ holder[e] # s
    /\ holder' = [holder EXCEPT ![e] = s]
    /\ UNCHANGED <<store, pending, pc, sign, admin, signedIn>>

Next ==
    \/ \E p \in Procs :
          \/ \E s \in Subjects : Begin(p, s)
          \/ BySubject(p) \/ AttachEmail(p) \/ AttachDone(p)
          \/ \E e \in Emails : AttachNext(p, e) \/ ByEmail(p, e) \/ Trust(p, e)
          \/ PinStep(p) \/ NoEmailKnown(p) \/ NobodyYet(p) \/ Record(p)
          \/ \E a \in Accounts : Provision(p, a)
    \/ \E i \in DOMAIN pending : AdminDiscard(i) \/ \E a \in Accounts : AdminGet(i, a)
    \/ AdminApprove \/ AdminApproved
    \/ \E a \in Accounts : AdminForget(a)
    \/ Expire
    \/ \E e \in Emails, s \in Subjects : Reassign(e, s)

Spec == Init /\ [][Next]_vars

---------------------------------------------------------------------------
(* Properties.                                                             *)

Labels == {"idle", "subject", "attach", "attaching", "email", "pin", "new", "queue"}

TypeOK ==
    /\ holder \in [Emails -> Subjects]
    /\ byAccount \in [Accounts -> Mappings \cup {None}]
    /\ byEmail \in [Emails -> Accounts \cup {None}]
    /\ bySubject \in [Subjects -> Accounts \cup {None}]
    /\ pending \in Seq(Requests)
    /\ Len(pending) <= MaxPending
    /\ pc \in [Procs -> Labels]
    /\ sign \in [Procs -> Signs]
    /\ admin \in [req : Requests, account : Accounts, step : {"approve", "discard"}]
                 \cup {None}
    /\ brought \in [Emails -> Subjects \cup {None}]
    /\ signedIn \in [Accounts -> SUBSET Subjects]

\* The two indexes say what the records say, and so no address and no subject
\* answers for two accounts ("they cannot drift out of step", identity.go:100,
\* and "one of the two would be somebody signing in as another person", 196).
IndexesAgree ==
    /\ TypeOK
    /\ \A e \in Emails, a \in Accounts :
          byEmail[e] = a <=> byAccount[a] # None /\ e \in byAccount[a].emails
    /\ \A s \in Subjects, a \in Accounts :
          bySubject[s] = a <=> byAccount[a] # None /\ byAccount[a].subject = s

\* One account is one person: whoever has signed in as it since its mapping was
\* last removed is the subject it is pinned to, however addresses have moved
\* in the directory ("only by that object", identity.go:336-340); and an address
\* recorded for somebody answers for the account that person is pinned to ("the
\* address they arrived with is theirs by the same evidence that let them in",
\* identity.go:373-374).
OnePerson ==
    /\ \A a \in Accounts :
          signedIn[a] # {} => byAccount[a] # None /\ signedIn[a] = {byAccount[a].subject}
    /\ \A e \in Emails :
          (byEmail[e] # None /\ brought[e] # None) =>
              byAccount[byEmail[e]].subject = brought[e]

\* What an account is bound to goes only with a Forget, whatever was looked up
\* before it was written: its pin, for "re-pinning is deliberately not offered"
\* (identity.go:342-345), and each of its addresses ("refused ... so the store
\* keeps the last word", sso.go:369-371; ErrTaken).
BindingsStay ==
    [][/\ \A a \in Accounts :
              (byAccount[a] # None /\ byAccount[a].subject # None) =>
                  byAccount'[a] = None \/ byAccount'[a].subject = byAccount[a].subject
       /\ \A e \in Emails : byEmail[e] # None => byEmail'[e] \in {byEmail[e], None}]_vars

=============================================================================
