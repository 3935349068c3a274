------------------------------ MODULE Provision ------------------------------
(***************************************************************************)
(* Accounts that appear without an administrator: provision.Provisioner    *)
(* (the two rate limits, the call, the wait), provision.Watcher (the rules *)
(* file and the last good version of it), and the sign-in that uses them   *)
(* (Server.provision and the gate at the end of handleSSOCallback).        *)
(*                                                                         *)
(* An account goes from the roster to NSS to tdbsam at its own pace, and   *)
(* other people's accounts do too.  TrustEmail is not set, its default.    *)
(***************************************************************************)
EXTENDS Naturals, Sequences, FiniteSets

CONSTANTS
    Ids,          \* identities, by issuer and subject
    Accounts,
    Procs,        \* sign-ins under way at the same time
    None,
    Usable,       \* contents of the rules file that parse
    Broken,       \* a content that does not, or a file that cannot be read
    Matches,      \* per usable content: the identities a rule of it applies to
    RefireAfter, Hour, MaxCalls,   \* MaxCallsPerHour
    MaxFired,     \* the size of `fired` that starts a cleaning, 4096
    Wait,         \* Config.Wait
    NameFails,    \* TRUE: getent and id may fail for an account that is there
    MaxNow        \* a bound on the clock

ASSUME ConstantsOK ==
    /\ None \notin Ids \cup Accounts \cup Nat
    /\ Broken \notin Usable
    /\ Matches \in [Usable -> SUBSET Ids]
    /\ {RefireAfter, Hour, MaxCalls, MaxFired} \subseteq Nat \ {0}
    /\ {Wait, MaxNow} \subseteq Nat
    /\ RefireAfter <= Hour          \* ten minutes, an hour
    /\ MaxCalls <= MaxFired         \* 60, 4096
    /\ NameFails \in BOOLEAN

VARIABLES
    now,
    file,      \* the content of the rules file
    cfg,       \* Watcher.cfg, and what Watcher.digest is the digest of
    error,     \* Status.Error is set
    looked,    \* history: reload has run since the file was edited
    fired,     \* Provisioner.fired: per identity, when it last caused a call
    calls,     \* Provisioner.calls
    made,      \* history: every call, as <<identity, time of its reservation>>
    status,    \* per account: how far the system has got with it
    binding,   \* identity.Store: the identity an account answers to
    pc,        \* per sign-in: where it is
    run        \* per sign-in: its locals

watcher == <<file, cfg, error, looked>>
limits == <<fired, calls, made>>
world == <<status, binding>>
vars == <<now, watcher, limits, world, pc, run>>

\* Declared in the roster, resolved by NSS, enabled in tdbsam.  A suspended
\* account is "known".
Statuses == {"none", "declared", "known", "enabled"}

Ended == {"idle", "in", "queued", "refused"}

\* Two of the locals are history: the account was there when the endpoint
\* answered; and it was when the gate was asked and did not find it.
NoRun == [id |-> None, acct |-> None, deadline |-> 0, existed |-> FALSE, unseen |-> FALSE]

Init ==
    /\ now = 0
    /\ file \in Usable             \* NewWatcher refuses any other
    /\ cfg = file
    /\ error = FALSE
    /\ looked = TRUE
    /\ fired = [i \in Ids |-> None]
    /\ calls = <<>>
    /\ made = <<>>
    /\ status \in [Accounts -> {"none", "known", "enabled"}]
    /\ binding = [a \in Accounts |-> None]
    /\ pc = [p \in Procs |-> "idle"]
    /\ run = [p \in Procs |-> NoRun]

Goto(p, label) == pc' = [pc EXCEPT ![p] = label]

End(p, label) ==
    /\ Goto(p, label)
    /\ run' = [run EXCEPT ![p] = NoRun]

---------------------------------------------------------------------------
(* The watcher and the file it reads.                                      *)

Edit(f) ==
    /\ f # file
    /\ file' = f
    /\ looked' = FALSE
    /\ UNCHANGED <<now, cfg, error, limits, world, pc, run>>

\* A version that cannot be used.  Mutants: it replaces the one in force; or
\* nothing says so.
RejectResets == cfg' = file /\ error' = TRUE
RejectQuietly == cfg' = cfg /\ error' = error
Reject == cfg' = cfg /\ error' = TRUE

\* One iteration of Watcher.Run.  What is read is not compared again, so an edit
\* after the read is an edit after the step.
Reload ==
    /\ looked' = TRUE
    /\ \/ file = cfg /\ UNCHANGED <<cfg, error>>
       \/ file \in Usable \ {cfg} /\ cfg' = file /\ error' = FALSE
       \/ file = Broken /\ Reject
    /\ UNCHANGED <<now, file, limits, world, pc, run>>

---------------------------------------------------------------------------
(* The two rate limits: Provisioner.reserve, which reads the clock and then*)
(* holds the mutex for less than a tick.                                   *)

\* Mutant of Recent: a tick too early.
RecentShort(t) == now + 1 < t + RefireAfter
Recent(t) == now < t + RefireAfter

\* Mutant of InHour: the window is a tick short.
InHourShort(t) == now < t + Hour - 1
InHour(t) == now < t + Hour

\* The loop of reserve over the calls it remembers: those of the last hour.
KeptUpTo ==
    LET upto[n \in 0 .. Len(calls)] ==
            IF n = 0 THEN <<>>
            ELSE IF InHour(calls[n]) THEN Append(upto[n - 1], calls[n]) ELSE upto[n - 1]
    IN  upto

Kept == KeptUpTo[Len(calls)]

\* What reserve forgets once it remembers too many.  Mutant: nothing.
CleanedNot(f) == f
Cleaned(f) ==
    IF Cardinality({i \in Ids : f[i] # None}) <= MaxFired THEN f
    ELSE [i \in Ids |-> IF f[i] # None /\ ~ Recent(f[i]) THEN None ELSE f[i]]

Attempted(i) == fired[i] # None /\ Recent(fired[i])

Reserve(p) ==
    LET i == run[p].id
        kept == Kept
    IN  /\ pc[p] = "reserve"
        /\ \/ /\ Attempted(i)
              /\ End(p, "queued")
              /\ UNCHANGED limits
           \/ /\ ~ Attempted(i)
              /\ Len(kept) >= MaxCalls
              /\ calls' = kept
              /\ End(p, "queued")
              /\ UNCHANGED <<fired, made>>
           \/ /\ ~ Attempted(i)
              /\ Len(kept) < MaxCalls
              /\ fired' = Cleaned([fired EXCEPT ![i] = now])
              /\ calls' = Append(kept, now)
              /\ made' = Append(made, <<i, now>>)
              /\ Goto(p, "calling")
              /\ UNCHANGED run
        /\ UNCHANGED <<now, watcher, world>>

---------------------------------------------------------------------------
(* A sign-in with a verified assertion.                                    *)

\* resolveIdentity: who is bound already needs no more than the gate; for anybody
\* else the rules in force decide whether there is an endpoint to ask.
Begin(p, i) ==
    LET bound == {a \in Accounts : binding[a] = i}
    IN  /\ pc[p] \in Ended
        /\ \/ \E a \in bound :
                 /\ run' = [run EXCEPT ![p] = [NoRun EXCEPT !.id = i, !.acct = a]]
                 /\ Goto(p, "gate")
           \/ /\ bound = {}
              /\ run' = [run EXCEPT ![p] = [NoRun EXCEPT !.id = i]]
              /\ Goto(p, IF i \in Matches[cfg] THEN "reserve" ELSE "queued")
        /\ UNCHANGED <<now, watcher, limits, world>>

\* The endpoint, which may be right or wrong: it makes an account ...
Create(p, a) ==
    /\ pc[p] = "calling"
    /\ status[a] = "none"
    /\ status' = [status EXCEPT ![a] = "declared"]
    /\ UNCHANGED <<now, watcher, limits, binding, pc, run>>

Resolves(a) == status[a] \in {"known", "enabled"}

\* ... answers 201 with a name, this account's or another's ...
AnswerCreated(p, a) ==
    /\ pc[p] = "calling"
    /\ run' = [run EXCEPT ![p].acct = a, ![p].existed = Resolves(a)]
    /\ Goto(p, "check")
    /\ UNCHANGED <<now, watcher, limits, world>>

\* ... or anything else, or nothing in time: Existing, Accepted, Denied and
\* Unavailable all lead to the queue.
AnswerOther(p) ==
    /\ pc[p] = "calling"
    /\ End(p, "queued")
    /\ UNCHANGED <<now, watcher, limits, world>>

\* Whom Gate.Exists finds in Run when the name service answers.  Mutant: only who
\* may sign in.
ExistsEnabled(a) == status[a] = "enabled"
Exists(a) == Resolves(a)

\* A name service that fails is the answer that there is no such account.
Check(p) ==
    LET a == run[p].acct
    IN  /\ pc[p] = "check"
        /\ \/ Exists(a) /\ End(p, "queued")
           \/ /\ Exists(a) => NameFails
              /\ Goto(p, "await")
              /\ run' = [run EXCEPT ![p].deadline = now + Wait, ![p].unseen = Exists(a)]
        /\ UNCHANGED <<now, watcher, limits, world>>

\* Await: the gate admits the account, ...
Arrived(p) ==
    /\ pc[p] = "await"
    /\ status[run[p].acct] = "enabled"
    /\ Goto(p, "bind")
    /\ UNCHANGED <<now, watcher, limits, world, run>>

\* ... does not, or could not be asked, until the deadline, ...
TimesOut(p) ==
    /\ pc[p] = "await"
    /\ now >= run[p].deadline
    /\ End(p, "queued")
    /\ UNCHANGED <<now, watcher, limits, status, binding>>

\* ... or the browser goes away.
Leaves(p) ==
    /\ pc[p] = "await"
    /\ End(p, "queued")
    /\ UNCHANGED <<now, watcher, limits, world>>

\* Store.Approve, refused when the account or an address answers to another.
Bind(p) ==
    LET a == run[p].acct
        i == run[p].id
    IN  /\ pc[p] = "bind"
        /\ \/ /\ binding[a] \in {None, i}
              /\ \A b \in Accounts \ {a} : binding[b] # i
              /\ binding' = [binding EXCEPT ![a] = i]
              /\ Goto(p, "gate")
              /\ UNCHANGED run
           \/ End(p, "queued") /\ UNCHANGED binding
        /\ UNCHANGED <<now, watcher, limits, status>>

\* The gate every sign-in ends at, and which may also fail to answer.
Gate(p) ==
    /\ pc[p] = "gate"
    /\ \/ status[run[p].acct] = "enabled" /\ End(p, "in")
       \/ End(p, "refused")
    /\ UNCHANGED <<now, watcher, limits, world>>

---------------------------------------------------------------------------
(* The system: the roster's owners, the reconcile loop, and time.          *)

\* An account moves: declared by somebody else, resolved, enabled, suspended.
Moves == {<<"none", "declared">>, <<"declared", "known">>,
          <<"known", "enabled">>, <<"enabled", "known">>}

Move(a) ==
    /\ \E m \in Moves : status[a] = m[1] /\ status' = [status EXCEPT ![a] = m[2]]
    /\ UNCHANGED <<now, watcher, limits, binding, pc, run>>

Tick ==
    /\ now < MaxNow
    /\ now' = now + 1
    /\ UNCHANGED <<watcher, limits, world, pc, run>>

Next ==
    \/ \E f \in Usable \cup {Broken} : Edit(f)
    \/ Reload
    \/ \E p \in Procs :
          \/ \E i \in Ids : Begin(p, i)
          \/ \E a \in Accounts : Create(p, a) \/ AnswerCreated(p, a)
          \/ Reserve(p) \/ AnswerOther(p) \/ Check(p)
          \/ Arrived(p) \/ TimesOut(p) \/ Leaves(p) \/ Bind(p) \/ Gate(p)
    \/ \E a \in Accounts : Move(a)
    \/ Tick

Spec == Init /\ [][Next]_vars

---------------------------------------------------------------------------
(* Properties.                                                             *)

Labels == Ended \cup {"reserve", "calling", "check", "await", "bind", "gate"}

TypeOK ==
    /\ now \in 0..MaxNow
    /\ file \in Usable \cup {Broken}
    /\ cfg \in Usable
    /\ {error, looked} \subseteq BOOLEAN
    /\ fired \in [Ids -> 0..MaxNow \cup {None}]
    /\ calls \in Seq(0..MaxNow)
    /\ made \in Seq(Ids \X (0..MaxNow))
    /\ status \in [Accounts -> Statuses]
    /\ binding \in [Accounts -> Ids \cup {None}]
    /\ pc \in [Procs -> Labels]
    /\ run \in [Procs -> [id : Ids \cup {None}, acct : Accounts \cup {None},
                          deadline : 0..(MaxNow + Wait), existed : BOOLEAN,
                          unseen : BOOLEAN]]

\* No hour, wherever it begins, has more than MaxCallsPerHour calls in it.
CallsBounded ==
    \A t \in 0..now :
        Cardinality({k \in DOMAIN made : made[k][2] <= t /\ t < made[k][2] + Hour}) <= MaxCalls

\* Two calls for one identity are RefireAfter apart.
RefireHeld ==
    \A j, k \in DOMAIN made :
        (j < k /\ made[j][1] = made[k][1]) => made[k][2] >= made[j][2] + RefireAfter

\* "MaxCallsPerHour bounds the whole feature" (provision.go:120), and RefireAfter
\* each identity (provision.go:114), whatever a call came to and however many
\* sign-ins of one identity overlap, although both limits are read off the same
\* two records that are emptied as they grow: what is remembered of people who
\* are nobody here stays bounded too (provision.go:204).
LimitsHold ==
    /\ CallsBounded
    /\ RefireHeld
    /\ Cardinality({i \in Ids : fired[i] # None}) <= MaxFired

\* Provisioning binds an identity "ONLY to an account that did not already exist
\* when the endpoint answered" (provision.yaml.example:18), suspended ones
\* included, however long the wait and whatever the endpoint claims ...
BoundBy(p, a) == pc[p] = "bind" /\ run[p].acct = a

NewOnly ==
    [][\A a \in Accounts : binding'[a] # binding[a] =>
          \E p \in Procs : BoundBy(p, a) /\ ~ run[p].existed]_vars

\* ... but for one that did and that the name service would not find just after
\* (Gate.Exists, gate.go:104-105, answers no when it cannot ask).
NewUnlessUnseen ==
    [][\A a \in Accounts : binding'[a] # binding[a] =>
          \E p \in Procs : BoundBy(p, a) /\ (run[p].existed => run[p].unseen)]_vars

\* What the operator sees after a look at the file: a usable content is in force,
\* and for any other there is an error ("Error is set when the file on disk right
\* now cannot be used", file.go:57).
StatusTells ==
    /\ TypeOK
    /\ looked =>
        /\ file \in Usable => cfg = file
        /\ file = Broken => error

=============================================================================
