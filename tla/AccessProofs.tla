---------------------------- MODULE AccessProofs ----------------------------
(***************************************************************************)
(* The properties of Access for any number of people, teams, requests,     *)
(* streams, browsers and sign-ins, whatever scene is played.               *)
(*                                                                         *)
(* Four invariants, each with what only its own part of the state needs:   *)
(* SignInv of flows, requests to sign in, sessions and notices; TeamInv of *)
(* rosters, requests to change them and status streams; LinkInv of links,  *)
(* requests for them and the groups helpers have; RouteInv of the cached   *)
(* roster and of where the last request was sent by it.                    *)
(***************************************************************************)
EXTENDS Access, FiniteSetTheorems, TLAPS

---------------------------------------------------------------------------
(* Signing in.                                                             *)

\* A request to sign in that is under way.
Running == {"exchange", "resolve", "gate", "create", "queue"}

Requested ==
    [pc : Running \cup Over, by : Visitors \cup {None}, flow : Flows \cup {None},
     subject : Subjects \cup {None}, account : Accounts \cup {None}]

Beginnings == [by : Visitors, at : Nat]

Redirects == [by : Visitors, flow : Flows, subject : Subjects \cup {None}]

SessionRecords ==
    [call : Calls, by : Visitors \cup {None}, flow : Flows \cup {None},
     account : Accounts \cup {None}]

SignTypes ==
    /\ accounts \in [Accounts -> {"absent", "enabled", "suspended"}]
    /\ maps \in [Subjects -> Accounts \cup {None}]
    /\ flows \in [Flows -> Nat \cup {None}]
    /\ begun \in [Flows -> Beginnings \cup {None}]
    /\ cookie \in [Visitors -> Flows \cup {None}]
    /\ back \subseteq Redirects
    /\ call \in [Calls -> Requested]
    /\ sessions \subseteq SessionRecords
    /\ notices \in [Calls -> Nat \cup {None}]
    /\ shown \in [Calls -> Nat]

SinceTypes ==
    since \in [Calls -> [at : Nat, mapped : SUBSET (Accounts \cup {None}),
                         enabled : SUBSET Accounts]]

\* Every flow, and every browser's cookie, goes back to a beginning.
FlowsBegun ==
    /\ \A f \in Flows :
          flows[f] # None => begun[f] # None /\ flows[f] = begun[f].at + FlowTTL
    /\ \A b \in Visitors :
          cookie[b] # None => begun[cookie[b]] # None /\ begun[cookie[b]].by = b
    /\ \A s \in sessions : s.flow # None => begun[s.flow] # None

Active(q) == call[q].pc \in Running

\* What a request rests on: a flow of its browser, in time, or a trusted proxy.
FromFlow(q) ==
    IF call[q].flow = None THEN forward
    ELSE /\ begun[call[q].flow] # None
         /\ begun[call[q].flow].by = call[q].by
         /\ since[q].at <= begun[call[q].flow].at + FlowTTL

SubjectsKnown == \A q \in Calls : Active(q) => call[q].subject \in Subjects

\* What a request knows at each of its steps, and what that rests on.
Vouched(q) ==
    /\ Active(q) => FromFlow(q)
    /\ call[q].pc \in {"gate", "create"} =>
          call[q].account \in Accounts \cap since[q].mapped
    /\ call[q].pc = "create" => call[q].account \in since[q].enabled

Asserted == \A q \in Calls : Vouched(q)

Uses(q, f) == Active(q) /\ call[q].flow = f

\* A flow is in at most one place: the table, one request, one session.
OneUse ==
    \A f \in Flows :
        /\ \A p, q \in Calls : Uses(p, f) /\ Uses(q, f) => p = q
        /\ \A s, t \in sessions : s.flow = f /\ t.flow = f => s = t
        /\ \A q \in Calls : Uses(q, f) =>
              flows[f] = None /\ \A s \in sessions : s.flow # f
        /\ flows[f] # None => \A s \in sessions : s.flow # f

\* A notice is waiting or was shown once, of a request that was told.
OneNotice ==
    \A q \in Calls :
        /\ notices[q] # None => call[q].pc = "told" /\ shown[q] = 0
        /\ shown[q] # 0 => call[q].pc = "told" /\ shown[q] = 1

Timed == now \in Nat /\ SignTypes /\ FlowsBegun

SignInv == Timed /\ SinceTypes /\ SubjectsKnown /\ Asserted /\ OneUse /\ OneNotice

\* What a step of signing in may do, one disjunct per handler.
LEMMA SignSteps ==
  ASSUME Step
  PROVE  \/ /\ now' = now
            /\ \/ \E b \in Visitors, f \in Flows : Login(b, f)
               \/ \E d \in back, s \in Subjects : ProviderAnswers(d, s)
               \/ \E q \in Calls : \E d \in back : Callback(q, d)
               \/ \E q, p \in Calls : Again(q, p)
               \/ \E q \in Calls, b \in Visitors, s \in Subjects : Forward(q, b, s)
               \/ \E q \in Calls : CallStep(q)
               \/ \E q \in Calls : ShowNotice(q)
               \/ \E e \in Pages, q \in Calls : FollowEnrollment(e, q)
               \/ \E e \in Pages : Poll(e)
               \/ \E a \in Accounts, st \in {"enabled", "suspended"} : AccountChanges(a, st)
               \/ \E s \in Subjects, a \in Accounts \cup {None} : Mapped(s, a)
               \/ SignInSwept
               \/ SignInRestarts
         \/ signVars' = signVars /\ now' \in {now, now + 1}
<1>1. CASE Operators BY <1>1 DEF Operators
<1>2. CASE Owners BY <1>2 DEF Owners
<1>3. CASE Streams BY <1>3 DEF Streams
<1>4. CASE Files BY <1>4 DEF Files
<1>5. CASE SigningIn BY <1>5 DEF SigningIn
<1>6. CASE SweepSSO BY <1>6 DEF SweepSSO
<1>7. CASE Tick BY <1>7 DEF Tick
<1>8. CASE Restart BY <1>8 DEF Restart
<1> QED BY <1>1, <1>2, <1>3, <1>4, <1>5, <1>6, <1>7, <1>8 DEF Step

\* A sweep of flows or of notices only drops some; it makes no new one.
LEMMA SweptTypes ==
  ASSUME Timed
  PROVE  /\ FlowsSwept \in [Flows -> Nat \cup {None}]
         /\ NoticesSwept \in [Calls -> Nat \cup {None}]
         /\ \A f \in Flows : FlowsSwept[f] # None => FlowsSwept[f] = flows[f]
         /\ \A q \in Calls : NoticesSwept[q] # None => NoticesSwept[q] = notices[q]
BY DEF Timed, SignTypes, FlowsSwept, NoticesSwept

\* handleSSOLogin adds a flow of now, and its cookie to the browser that asked.
LEMMA LoginTimed ==
  ASSUME Timed, now' = now, NEW b \in Visitors, NEW f \in Flows, Login(b, f)
  PROVE  Timed'
<1> USE DEF Timed
<1>0. now \in Nat /\ FlowTTL \in Nat /\ None \notin Beginnings
  BY SignInConstants DEF Beginnings
<1>a. /\ begun' = [begun EXCEPT ![f] = [by |-> b, at |-> now]]
      /\ flows' = Begun(f)
      /\ cookie' \in {cookie, [cookie EXCEPT ![b] = f]}
      /\ back' \in {back, back \cup {[by |-> b, flow |-> f, subject |-> None]}}
      /\ begun[f] = None
      /\ UNCHANGED <<outside, call, sessions, notices, shown>>
  BY DEF Login
<1>b. [by |-> b, at |-> now] \in Beginnings
  BY <1>0 DEF Beginnings
<1>1. SignTypes'
  <2>1. flows' \in [Flows -> Nat \cup {None}]
    BY <1>a, <1>0, SweptTypes DEF Begun
  <2>2. begun' \in [Flows -> Beginnings \cup {None}]
    BY <1>a, <1>b DEF SignTypes
  <2>3. cookie' \in [Visitors -> Flows \cup {None}] /\ back' \subseteq Redirects
    BY <1>a DEF SignTypes, Redirects
  <2> QED BY <1>a, <2>1, <2>2, <2>3 DEF SignTypes, outside
<1>2. FlowsBegun'
  <2>1. \A g \in Flows : g # f => begun'[g] = begun[g] /\ flows'[g] \in {flows[g], None}
    BY <1>a, SweptTypes DEF SignTypes, Begun
  <2>2. begun'[f] # None /\ begun'[f].by = b /\ flows'[f] = begun'[f].at + FlowTTL
    BY <1>a, <1>b, <1>0, SweptTypes DEF SignTypes, Begun
  <2>3. \A c \in Visitors : cookie'[c] # None =>
           begun'[cookie'[c]] # None /\ begun'[cookie'[c]].by = c
    BY <1>a, <2>1, <2>2 DEF SignTypes, FlowsBegun
  <2>4. \A s \in sessions : s.flow # None => begun'[s.flow] # None
    BY <1>a, <2>1, <2>2 DEF SignTypes, FlowsBegun, SessionRecords
  <2> QED BY <1>a, <2>1, <2>2, <2>3, <2>4 DEF FlowsBegun
<1> QED BY <1>1, <1>2

\* A request that moves on, or that is told a failure, keeps the shape of its record.
LEMMA RunsTyped ==
  ASSUME SignTypes, now \in Nat, NEW q \in Calls
  PROVE  /\ \A pc \in Running \cup Over : CallTo(q, pc) => call' \in [Calls -> Requested]
         /\ Told(q) => notices' \in [Calls -> Nat \cup {None}]
<1>1. NoticeTTL \in Nat
  BY SignInConstants
<1>2. NoticesSwept \in [Calls -> Nat \cup {None}]
  BY DEF SignTypes, NoticesSwept
<1>3. now + NoticeTTL \in Nat
  BY <1>1
<1>4. ASSUME NEW pc \in Running \cup Over
      PROVE  [call EXCEPT ![q].pc = pc] \in [Calls -> Requested]
  <2>1. call[q] \in Requested
    BY DEF SignTypes
  <2>2. [call[q] EXCEPT !.pc = pc] \in Requested
    BY <2>1 DEF Requested
  <2> QED BY <2>2 DEF SignTypes
<1> QED BY <1>2, <1>3, <1>4 DEF CallTo, Told

\* A request's own step keeps the types.
LEMMA CallTyped ==
  ASSUME SignInv, NEW q \in Calls, CallStep(q)
  PROVE  SignTypes'
<1> USE DEF SignInv, Timed
<1>0. {"told", "queue", "gate", "create", "resolve", "signed in"} \subseteq Running \cup Over
  BY DEF Running, Over
<1>1. CASE Exchange(q)
  <2>1. \/ CallTo(q, "resolve") /\ notices' = notices
        \/ CallTo(q, "told") /\ Told(q)
    BY <1>1 DEF Exchange, TellFailure
  <2>2. call' \in [Calls -> Requested] /\ notices' \in [Calls -> Nat \cup {None}]
    BY <1>0, <2>1, RunsTyped DEF SignTypes
  <2>3. UNCHANGED <<outside, flows, begun, cookie, back, sessions, shown>>
    BY <1>1 DEF Exchange, TellFailure
  <2> QED BY <2>2, <2>3 DEF SignTypes, outside
<1>2. CASE Resolve(q)
  <2>1. call[q] \in Requested /\ call[q].subject \in Subjects
    BY <1>2 DEF Resolve, CallAt, SubjectsKnown, Active, Running, SignTypes
  <2>2. maps[call[q].subject] \in Accounts \cup {None}
    BY <2>1 DEF SignTypes
  <2>3. call' \in [Calls -> Requested]
    BY <1>2, <2>1, <2>2 DEF Resolve, SignTypes, Requested, Running, Over
  <2> QED BY <1>2, <2>3 DEF Resolve, SignTypes, calm, outside
<1>3. CASE Gate(q)
  <2>1. call' \in [Calls -> Requested] /\ notices' \in [Calls -> Nat \cup {None}]
    BY <1>0, <1>3, RunsTyped DEF Gate, SignTypes
  <2> QED BY <1>3, <2>1 DEF Gate, SignTypes, calm, outside
<1>4. CASE Fails(q)
  BY <1>0, <1>4, RunsTyped DEF Fails, SignTypes, calm, outside
<1>5. CASE Create(q)
  <2>1. call[q] \in Requested
    BY DEF SignTypes
  <2>2. sessions' \subseteq SessionRecords
    <3>1. [call |-> q, by |-> call[q].by, flow |-> call[q].flow,
           account |-> call[q].account] \in SessionRecords
      BY <2>1 DEF SessionRecords, Requested
    <3> QED BY <1>5, <3>1 DEF Create, SignTypes
  <2> QED BY <1>0, <1>5, <2>2, RunsTyped DEF Create, SignTypes, calm, outside
<1>6. CASE Queue(q)
  BY <1>0, <1>6, RunsTyped DEF Queue, SignTypes, calm, outside
<1> QED BY <1>1, <1>2, <1>3, <1>4, <1>5, <1>6 DEF CallStep

\* So does the arrival of a request: a callback, one sent again, a forwarded token.
LEMMA CallsTyped ==
  ASSUME SignInv, now' = now
  PROVE  /\ \A q \in Calls : \A d \in back : Callback(q, d) => SignTypes'
         /\ \A q, p \in Calls : Again(q, p) => SignTypes'
         /\ \A q \in Calls, b \in Visitors, s \in Subjects : Forward(q, b, s) => SignTypes'
<1> USE DEF SignInv, Timed
<1>0. IdleCall \in Requested /\ \A q \in Calls : call[q] \in Requested
  BY DEF IdleCall, Requested, Over, SignTypes
<1>1. ASSUME NEW q \in Calls, NEW d \in back, Callback(q, d)
      PROVE  SignTypes'
  <2>1. d \in Redirects /\ cookie[d.by] \in Flows \cup {None}
    BY DEF SignTypes, Redirects
  <2> DEFINE f == cookie[d.by]
             runs == [pc |-> "exchange", by |-> d.by, flow |-> f,
                      subject |-> d.subject, account |-> None]
             ends == [IdleCall EXCEPT !.pc = "told", !.by = d.by]
  <2>4. /\ d.subject # None
        /\ \/ call' = [call EXCEPT ![q] = runs] /\ notices' = notices
           \/ call' = [call EXCEPT ![q] = ends] /\ Told(q)
    BY <1>1 DEF Callback
  <2>5. runs \in Requested /\ ends \in Requested
    BY <1>0, <2>1, <2>4 DEF IdleCall, Requested, Redirects, Running, Over
  <2> HIDE DEF runs, ends
  <2>2. call' \in [Calls -> Requested] /\ notices' \in [Calls -> Nat \cup {None}]
    BY <2>4, <2>5, RunsTyped DEF SignTypes
  <2>3. /\ flows' \in [Flows -> Nat \cup {None}]
        /\ cookie' \in [Visitors -> Flows \cup {None}]
    BY <1>1, <2>1 DEF Callback, Taken, SignTypes, Redirects
  <2> QED BY <1>1, <2>2, <2>3 DEF Callback, SignTypes, outside
<1>2. ASSUME NEW q \in Calls, NEW p \in Calls, Again(q, p)
      PROVE  SignTypes'
  <2> DEFINE ends == [IdleCall EXCEPT !.pc = "told", !.by = call[p].by]
  <2>4. \/ call' = [call EXCEPT ![q] = call[p]] /\ notices' = notices
        \/ call' = [call EXCEPT ![q] = ends] /\ Told(q)
    BY <1>2 DEF Again
  <2>5. ends \in Requested
    BY <1>0 DEF IdleCall, Requested, Over
  <2> HIDE DEF ends
  <2>1. call' \in [Calls -> Requested] /\ notices' \in [Calls -> Nat \cup {None}]
    BY <1>0, <2>4, <2>5, RunsTyped DEF SignTypes
  <2>2. flows' \in [Flows -> Nat \cup {None}]
    BY <1>0, <1>2 DEF Again, Taken, SignTypes
  <2> QED BY <1>2, <2>1, <2>2 DEF Again, SignTypes, outside
<1>3. ASSUME NEW q \in Calls, NEW b \in Visitors, NEW s \in Subjects, Forward(q, b, s)
      PROVE  SignTypes'
  <2>1. call' \in [Calls -> Requested]
    BY <1>3 DEF Forward, SignTypes, Requested, Running
  <2> QED BY <1>3, <2>1 DEF Forward, SignTypes, outside
<1> QED BY <1>1, <1>2, <1>3

\* And everything else that signing in is made of.
LEMMA RestTyped ==
  ASSUME SignInv
  PROVE  /\ \A d \in back, s \in Subjects : ProviderAnswers(d, s) => SignTypes'
         /\ \A q \in Calls : ShowNotice(q) => SignTypes'
         /\ \A e \in Pages, q \in Calls : FollowEnrollment(e, q) => SignTypes'
         /\ \A e \in Pages : Poll(e) => SignTypes'
         /\ \A a \in Accounts, st \in {"enabled", "suspended"} :
               AccountChanges(a, st) => SignTypes'
         /\ \A s \in Subjects, a \in Accounts \cup {None} : Mapped(s, a) => SignTypes'
         /\ SignInSwept => SignTypes'
         /\ SignInRestarts => SignTypes'
<1> USE DEF SignInv, Timed
<1>1. ASSUME NEW d \in back, NEW s \in Subjects, ProviderAnswers(d, s)
      PROVE  SignTypes'
  <2>1. back' \subseteq Redirects
    BY <1>1 DEF ProviderAnswers, SignTypes, Redirects
  <2> QED BY <1>1, <2>1 DEF ProviderAnswers, SignTypes, outside
<1>2. ASSUME NEW q \in Calls, ShowNotice(q)
      PROVE  SignTypes'
  BY <1>2 DEF ShowNotice, Spent, SignTypes, outside
<1>3. ASSUME NEW e \in Pages, NEW q \in Calls, FollowEnrollment(e, q)
      PROVE  SignTypes'
  BY <1>3 DEF FollowEnrollment, SignTypes, outside
<1>4. ASSUME NEW e \in Pages, Poll(e)
      PROVE  SignTypes'
  BY <1>4 DEF Poll, SignTypes, outside
<1>5. ASSUME NEW a \in Accounts, NEW st \in {"enabled", "suspended"}, AccountChanges(a, st)
      PROVE  SignTypes'
  BY <1>5 DEF AccountChanges, SignTypes
<1>6. ASSUME NEW s \in Subjects, NEW a \in Accounts \cup {None}, Mapped(s, a)
      PROVE  SignTypes'
  BY <1>6 DEF Mapped, SignTypes
<1>7. ASSUME SignInSwept
      PROVE  SignTypes'
  BY <1>7, SweptTypes DEF SignInSwept, SignTypes, outside
<1>8. ASSUME SignInRestarts
      PROVE  SignTypes'
  <2>1. call' \in [Calls -> Requested]
    BY <1>8 DEF SignInRestarts, SignTypes, IdleCall, Requested, Over
  <2> QED BY <1>8, <2>1 DEF SignInRestarts, SignTypes, outside
<1> QED BY <1>1, <1>2, <1>3, <1>4, <1>5, <1>6, <1>7, <1>8

---------------------------------------------------------------------------
(* The four things a step does to the requests.                            *)

Narrows ==
    /\ begun' = begun /\ forward' = forward
    /\ \A f \in Flows : flows'[f] \in {flows[f], None}
    /\ \A b \in Visitors : cookie'[b] \in {cookie[b], None}

Ends ==
    /\ \A q \in Calls : call'[q] = call[q] \/ call'[q].pc \in Over
    /\ sessions' = sessions

Alone(q) == \A p \in Calls \ {q} : call'[p] = call[p]

Begins(q) ==
    /\ Alone(q) /\ call[q].pc = "idle" /\ call'[q].pc = "exchange"
    /\ call'[q].subject \in Subjects
    /\ sessions' = sessions
    /\ LET f == call'[q].flow IN
       \/ f = None /\ forward
       \/ /\ f \in Flows /\ flows[f] # None /\ now <= flows[f] /\ flows'[f] = None
          /\ begun[f].by = call'[q].by

Advances(q) ==
    /\ Alone(q) /\ Active(q)
    /\ call'[q].by = call[q].by /\ call'[q].flow = call[q].flow
    /\ call'[q].subject = call[q].subject
    /\ sessions' = sessions /\ maps' = maps /\ accounts' = accounts
    /\ \/ call'[q].pc \in {"resolve", "queue"}
       \/ /\ call'[q].pc = "gate" /\ call'[q].account \in Accounts
          /\ call'[q].account = maps[call[q].subject]
       \/ /\ call[q].pc = "gate" /\ call'[q].pc = "create"
          /\ call'[q].account = call[q].account
          /\ accounts[call[q].account] = "enabled"

Creates(q) ==
    /\ Alone(q) /\ call[q].pc = "create" /\ call'[q].pc = "signed in"
    /\ sessions' = sessions \cup {[call |-> q, by |-> call[q].by, flow |-> call[q].flow,
                                   account |-> call[q].account]}

\* CallTo moves one request and changes nothing else about it.
LEMMA OneCallMoves ==
  ASSUME SignTypes, NEW q \in Calls, NEW pc \in Running \cup Over, CallTo(q, pc)
  PROVE  /\ Alone(q) /\ call'[q].pc = pc
         /\ call'[q].by = call[q].by /\ call'[q].flow = call[q].flow
         /\ call'[q].subject = call[q].subject /\ call'[q].account = call[q].account
<1>1. call[q] \in Requested
  BY DEF SignTypes
<1>2. call'[q] = [call[q] EXCEPT !.pc = pc] /\ Alone(q)
  BY DEF CallTo, SignTypes, Alone
<1> QED BY <1>1, <1>2 DEF Requested

\* handleSSOCallback takes its flow away, and starts a request only if there was one.
LEMMA CallbackEffect ==
  ASSUME SignInv, now' = now, NEW q \in Calls, NEW d \in back, Callback(q, d)
  PROVE  Narrows /\ (Ends \/ Begins(q))
<1> DEFINE f == cookie[d.by]
<1>1. d \in Redirects /\ f \in Flows \cup {None} /\ d.by \in Visitors /\ now \in Nat
  BY DEF SignInv, Timed, SignTypes, Redirects
<1>2. Narrows
  BY <1>1 DEF Callback, Narrows, Taken, SignInv, Timed, SignTypes, outside
<1>3. CASE Usable(f) /\ d.flow = f
  <2>1. f \in Flows /\ flows[f] # None /\ flows[f] \in Nat /\ now <= flows[f]
    BY <1>1, <1>3 DEF Usable, Past, SignInv, Timed, SignTypes
  <2>2. /\ call[q].pc = "idle" /\ d.subject # None /\ sessions' = sessions
        /\ call' = [call EXCEPT ![q] = [pc |-> "exchange", by |-> d.by, flow |-> f,
                                        subject |-> d.subject, account |-> None]]
    BY <1>3 DEF Callback, CallAt
  <2>4. flows'[f] = None
    <3>1. f # None
      BY <1>3 DEF Usable
    <3> QED BY <2>1, <3>1 DEF Callback, Taken, SignInv, Timed, SignTypes
  <2>3. begun[f].by = d.by
    <3>1. cookie[d.by] # None
      BY <1>3 DEF Usable
    <3> QED BY <1>1, <3>1 DEF SignInv, Timed, FlowsBegun
  <2> QED BY <1>1, <1>2, <2>1, <2>2, <2>3, <2>4
          DEF Begins, Alone, Redirects, SignInv, Timed, SignTypes
<1>4. CASE ~(Usable(f) /\ d.flow = f)
  BY <1>2, <1>4 DEF Callback, Ends, IdleCall, Over, SignInv, Timed, SignTypes
<1> QED BY <1>3, <1>4

\* A redirect that is sent again finds its flow gone.
LEMMA AgainEffect ==
  ASSUME SignInv, now' = now, NEW q \in Calls, NEW p \in Calls, Again(q, p)
  PROVE  Narrows /\ Ends
<1> DEFINE f == call[p].flow
<1>1. Uses(p, f) /\ f \in Flows /\ now \in Nat
  BY DEF Again, Uses, Active, CallAt, Running, SignInv, Timed, SignTypes, Requested
<1>2. Narrows
  BY <1>1 DEF Again, Narrows, Taken, SignInv, Timed, SignTypes, outside
<1>3. ~Usable(f)
  BY <1>1 DEF SignInv, OneUse, Usable
<1> QED BY <1>2, <1>3 DEF Again, Ends, IdleCall, Over, SignInv, Timed, SignTypes

\* A proxy's token starts a request without a flow, where one is trusted.
LEMMA ForwardEffect ==
  ASSUME SignInv, NEW q \in Calls, NEW b \in Visitors, NEW s \in Subjects, Forward(q, b, s)
  PROVE  Narrows /\ Begins(q)
BY DEF Forward, Narrows, Begins, Alone, CallAt, SignInv, Timed, SignTypes, outside

\* A request that runs ends, gets one step further, or makes its session.
LEMMA CallStepEffect ==
  ASSUME SignInv, NEW q \in Calls, CallStep(q)
  PROVE  Narrows /\ (Ends \/ Advances(q) \/ Creates(q))
<1> USE DEF SignInv, Timed
<1>0. call[q] \in Requested
  BY DEF SignTypes
<1>1. CASE Exchange(q)
  <2>1. call[q].pc = "exchange" /\ Narrows /\ sessions' = sessions
        /\ maps' = maps /\ accounts' = accounts
    BY <1>1 DEF Exchange, CallAt, Narrows, TellFailure, outside
  <2>2. CASE CallTo(q, "resolve")
    <3>1. "resolve" \in Running
      BY DEF Running
    <3> QED BY <2>1, <2>2, <3>1, OneCallMoves DEF Advances, Active, Running
  <2>3. CASE CallTo(q, "told")
    <3>1. "told" \in Over
      BY DEF Over
    <3> QED BY <2>1, <2>3, <3>1, OneCallMoves DEF Ends, Alone
  <2> QED BY <1>1, <2>2, <2>3 DEF Exchange, TellFailure
<1>2. CASE Resolve(q)
  <2>1. Narrows /\ Alone(q) /\ Active(q) /\ sessions' = sessions
        /\ maps' = maps /\ accounts' = accounts
    BY <1>0, <1>2 DEF Resolve, Narrows, Alone, Active, CallAt, calm, outside, SignTypes,
       Running
  <2>2. maps[call[q].subject] \in Accounts \cup {None}
    BY <2>1 DEF SubjectsKnown, SignTypes
  <2>3. call'[q] = [call[q] EXCEPT !.account = maps[call[q].subject],
                    !.pc = IF maps[call[q].subject] = None THEN "queue" ELSE "gate"]
    BY <1>2 DEF Resolve, SignTypes
  <2>4. /\ call'[q].by = call[q].by /\ call'[q].flow = call[q].flow
        /\ call'[q].subject = call[q].subject
        /\ call'[q].account = maps[call[q].subject]
        /\ call'[q].pc = IF maps[call[q].subject] = None THEN "queue" ELSE "gate"
    BY <1>0, <2>3 DEF Requested
  <2> QED BY <2>1, <2>2, <2>4 DEF Advances
<1>3. CASE Gate(q)
  <2>1. call[q].pc = "gate" /\ Narrows /\ sessions' = sessions
        /\ maps' = maps /\ accounts' = accounts
    BY <1>3 DEF Gate, CallAt, Narrows, calm, outside
  <2>2. CASE MaySignIn(call[q].account) /\ CallTo(q, "create")
    <3>1. "create" \in Running
      BY DEF Running
    <3> QED BY <2>1, <2>2, <3>1, OneCallMoves DEF Advances, Active, MaySignIn, Running
  <2>3. CASE CallTo(q, "told")
    <3>1. "told" \in Over
      BY DEF Over
    <3> QED BY <2>1, <2>3, <3>1, OneCallMoves DEF Ends, Alone
  <2> QED BY <1>3, <2>2, <2>3 DEF Gate
<1>4. CASE Fails(q)
  BY <1>0, <1>4 DEF Fails, Narrows, Ends, CallTo, calm, outside, SignTypes, Requested, Over
<1>5. CASE Create(q)
  BY <1>0, <1>5 DEF Create, Narrows, Creates, Alone, CallAt, CallTo, calm, outside,
     SignTypes, Requested
<1>6. CASE Queue(q)
  BY <1>0, <1>6 DEF Queue, Narrows, Ends, CallTo, calm, outside, SignTypes, Requested, Over
<1> QED BY <1>1, <1>2, <1>3, <1>4, <1>5, <1>6 DEF CallStep

\* What is not about one request starts none and makes no session.
LEMMA RestEffect ==
  ASSUME SignInv
  PROVE  /\ \A d \in back, s \in Subjects : ProviderAnswers(d, s) => Narrows /\ Ends
         /\ \A q \in Calls : ShowNotice(q) => Narrows /\ Ends
         /\ \A e \in Pages, q \in Calls : FollowEnrollment(e, q) => Narrows /\ Ends
         /\ \A e \in Pages : Poll(e) => Narrows /\ Ends
         /\ \A a \in Accounts, st \in {"enabled", "suspended"} :
               AccountChanges(a, st) => Narrows /\ Ends
         /\ \A s \in Subjects, a \in Accounts \cup {None} : Mapped(s, a) => Narrows /\ Ends
         /\ SignInSwept => Narrows /\ Ends
         /\ SignInRestarts => Narrows /\ Ends
         /\ signVars' = signVars => Narrows /\ Ends
<1> USE DEF Narrows, Ends
<1>1. ASSUME NEW d \in back, NEW s \in Subjects, ProviderAnswers(d, s)
      PROVE  Narrows /\ Ends
  BY <1>1 DEF ProviderAnswers, outside
<1>2. ASSUME NEW q \in Calls, ShowNotice(q) PROVE Narrows /\ Ends
  BY <1>2 DEF ShowNotice, outside
<1>3. ASSUME NEW e \in Pages, NEW q \in Calls, FollowEnrollment(e, q) PROVE Narrows /\ Ends
  BY <1>3 DEF FollowEnrollment, outside
<1>4. ASSUME NEW e \in Pages, Poll(e) PROVE Narrows /\ Ends
  BY <1>4 DEF Poll, outside
<1>5. ASSUME NEW a \in Accounts, NEW st \in {"enabled", "suspended"}, AccountChanges(a, st)
      PROVE  Narrows /\ Ends
  BY <1>5 DEF AccountChanges
<1>6. ASSUME NEW s \in Subjects, NEW a \in Accounts \cup {None}, Mapped(s, a)
      PROVE  Narrows /\ Ends
  BY <1>6 DEF Mapped
<1>7. ASSUME SignInSwept PROVE Narrows /\ Ends
  BY <1>7, SweptTypes DEF SignInSwept, SignInv, outside
<1>8. ASSUME SignInRestarts PROVE Narrows /\ Ends
  BY <1>8 DEF SignInRestarts, IdleCall, Over, outside
<1>9. ASSUME signVars' = signVars PROVE Narrows /\ Ends
  BY <1>9 DEF signVars
<1> QED BY <1>1, <1>2, <1>3, <1>4, <1>5, <1>6, <1>7, <1>8, <1>9

\* A request that runs has the subject it came with.
LEMMA KnownKept ==
  ASSUME SignInv, \/ Ends
                  \/ \E q \in Calls : Begins(q) \/ Advances(q) \/ Creates(q)
  PROVE  SubjectsKnown'
<1>1. CASE Ends
  BY <1>1 DEF Ends, SignInv, SubjectsKnown, Active, Running, Over
<1>2. ASSUME NEW q \in Calls, Begins(q) \/ Advances(q) \/ Creates(q)
      PROVE  SubjectsKnown'
  BY <1>2 DEF Begins, Advances, Creates, Alone, SignInv, SubjectsKnown, Active, Running
<1> QED BY <1>1, <1>2

\* The history of a request starts when it comes, and takes in every later step.
LEMMA SinceGrows ==
  ASSUME SignInv, RememberSince, SignTypes', SubjectsKnown'
  PROVE  /\ SinceTypes'
         /\ \A q \in Calls : Active(q)' =>
               /\ since'[q].at = IF Active(q) THEN since[q].at ELSE now
               /\ since[q].mapped \subseteq since'[q].mapped
               /\ since[q].enabled \subseteq since'[q].enabled
               /\ maps'[call'[q].subject] \in since'[q].mapped
               /\ \A a \in Accounts : accounts'[a] = "enabled" => a \in since'[q].enabled
<1> DEFINE Grown(q) ==
      [at |-> IF call[q].pc \in Over THEN now ELSE since[q].at,
       mapped |-> since[q].mapped \cup {maps'[call'[q].subject]},
       enabled |-> since[q].enabled \cup {a \in Accounts : accounts'[a] = "enabled"}]
<1>1. since' = [q \in Calls |-> IF call'[q].pc \in Over THEN Ago ELSE Grown(q)]
  BY DEF RememberSince
<1>2. \A q \in Calls : /\ call[q].pc \in Over <=> ~Active(q)
                       /\ call'[q].pc \in Over <=> ~Active(q)'
  BY DEF SignInv, Timed, SignTypes, Requested, Active, Running, Over
<1>3. \A q \in Calls : Active(q)' => since'[q] = Grown(q)
  BY <1>1, <1>2
<1>4. ASSUME NEW q \in Calls, Active(q)'
      PROVE  Grown(q) \in [at : Nat, mapped : SUBSET (Accounts \cup {None}),
                           enabled : SUBSET Accounts]
  <2>1. since[q] \in [at : Nat, mapped : SUBSET (Accounts \cup {None}),
                      enabled : SUBSET Accounts]
    BY DEF SignInv, SinceTypes
  <2>2. maps'[call'[q].subject] \in Accounts \cup {None}
    BY <1>4 DEF SubjectsKnown, SignTypes
  <2>3. now \in Nat
    BY DEF SignInv, Timed
  <2> QED BY <2>1, <2>2, <2>3
<1>5. Ago \in [at : Nat, mapped : SUBSET (Accounts \cup {None}), enabled : SUBSET Accounts]
  BY DEF Ago
<1>6. SinceTypes'
  <2> HIDE DEF Grown
  <2> QED BY <1>1, <1>2, <1>4, <1>5 DEF SinceTypes
<1>7. ASSUME NEW q \in Calls, Active(q)'
      PROVE  /\ since'[q].at = IF Active(q) THEN since[q].at ELSE now
             /\ since[q].mapped \subseteq since'[q].mapped
             /\ since[q].enabled \subseteq since'[q].enabled
             /\ maps'[call'[q].subject] \in since'[q].mapped
             /\ \A a \in Accounts : accounts'[a] = "enabled" => a \in since'[q].enabled
  <2>1. since'[q] = Grown(q) /\ (call[q].pc \in Over <=> ~Active(q))
    BY <1>2, <1>3, <1>7
  <2>2. /\ since'[q].at = IF call[q].pc \in Over THEN now ELSE since[q].at
        /\ since'[q].mapped = since[q].mapped \cup {maps'[call'[q].subject]}
        /\ since'[q].enabled =
              since[q].enabled \cup {a \in Accounts : accounts'[a] = "enabled"}
    BY <2>1
  <2> QED BY <2>1, <2>2
<1> QED BY <1>6, <1>7

\* Nothing that has been vouched for is lost while the request goes on.
LEMMA StillVouched ==
  ASSUME SignInv, RememberSince, SignTypes', SubjectsKnown',
         forward' = forward,
         \A f \in Flows : begun[f] # None => begun'[f] = begun[f],
         NEW q \in Calls, call'[q] = call[q] \/ call'[q].pc \in Over
  PROVE  Vouched(q)'
<1>1. CASE call'[q].pc \in Over
  BY <1>1 DEF Vouched, Active, Running, Over
<1>2. CASE call'[q] = call[q] /\ ~Active(q)
  BY <1>2 DEF Vouched, Active, Running
<1>3. CASE call'[q] = call[q] /\ Active(q)
  <2>1. /\ since'[q].at = since[q].at
        /\ since[q].mapped \subseteq since'[q].mapped
        /\ since[q].enabled \subseteq since'[q].enabled
    BY <1>3, SinceGrows DEF Active
  <2>2. Vouched(q) /\ call[q].flow \in Flows \cup {None}
    BY DEF SignInv, Asserted, Timed, SignTypes, Requested
  <2>3. FromFlow(q)'
    BY <1>3, <2>1, <2>2 DEF Vouched, FromFlow
  <2> QED BY <1>3, <2>1, <2>2, <2>3 DEF Vouched
<1> QED BY <1>1, <1>2, <1>3

\* A request in the gate or past it still has the account of its subject, let in.
LEMMA AssertedKept ==
  ASSUME SignInv, RememberSince, SignTypes', SubjectsKnown', Narrows,
         \/ Ends
         \/ \E q \in Calls : Begins(q) \/ Advances(q) \/ Creates(q)
  PROVE  Asserted'
<1>0. /\ forward' = forward
      /\ \A f \in Flows : begun[f] # None => begun'[f] = begun[f]
  BY DEF Narrows
<1>1. CASE Ends
  BY <1>0, <1>1, StillVouched DEF Ends, Asserted
<1>2. ASSUME NEW q \in Calls, Begins(q) \/ Advances(q) \/ Creates(q)
      PROVE  Asserted'
  <2>1. \A p \in Calls \ {q} : Vouched(p)'
    BY <1>0, <1>2, StillVouched DEF Begins, Advances, Creates, Alone
  <2>2. CASE Begins(q)
    <3> DEFINE f == call'[q].flow
    <3>1. Active(q)' /\ ~Active(q)
      BY <2>2 DEF Begins, Active, Running
    <3>2. since'[q].at = now
      BY <3>1, SinceGrows
    <3>3. CASE f = None /\ forward
      <4>1. FromFlow(q)'
        BY <1>0, <3>3 DEF FromFlow
      <4>2. call'[q].pc = "exchange"
        BY <2>2 DEF Begins
      <4>3. Vouched(q)'
        BY <4>1, <4>2 DEF Vouched
      <4> QED BY <2>1, <4>3 DEF Asserted
    <3>4. CASE /\ f \in Flows /\ flows[f] # None /\ now <= flows[f]
               /\ begun[f].by = call'[q].by
      <4>1. begun[f] # None /\ flows[f] = begun[f].at + FlowTTL /\ None \notin Flows
        BY <3>4, SignInConstants DEF SignInv, Timed, FlowsBegun
      <4>2. FromFlow(q)'
        BY <1>0, <3>2, <3>4, <4>1 DEF FromFlow
      <4>3. call'[q].pc = "exchange"
        BY <2>2 DEF Begins
      <4>4. Vouched(q)'
        BY <4>2, <4>3 DEF Vouched
      <4> QED BY <2>1, <4>4 DEF Asserted
    <3> QED BY <2>2, <3>3, <3>4 DEF Begins
  <2>3. CASE Advances(q)
    <3>1. Active(q)' /\ Active(q)
      BY <2>3 DEF Advances, Active, Running
    <3>2. /\ since'[q].at = since[q].at
          /\ since[q].mapped \subseteq since'[q].mapped
          /\ maps'[call'[q].subject] \in since'[q].mapped
          /\ \A a \in Accounts : accounts'[a] = "enabled" => a \in since'[q].enabled
      BY <3>1, SinceGrows
    <3>3. Vouched(q) /\ call[q].flow \in Flows \cup {None}
      BY DEF SignInv, Asserted, Timed, SignTypes, Requested
    <3>4. FromFlow(q)'
      BY <1>0, <2>3, <3>1, <3>2, <3>3 DEF Advances, Vouched, FromFlow
    <3>5. call'[q].pc \in {"gate", "create"} =>
             call'[q].account \in Accounts \cap since'[q].mapped
      BY <2>3, <3>2, <3>3 DEF Advances, Vouched
    <3>6. call'[q].pc = "create" => call'[q].account \in since'[q].enabled
      BY <2>3, <3>2, <3>3 DEF Advances, Vouched
    <3> QED BY <2>1, <3>4, <3>5, <3>6 DEF Vouched, Asserted
  <2>4. CASE Creates(q)
    BY <2>1, <2>4 DEF Creates, Vouched, Active, Running, Asserted
  <2> QED BY <1>2, <2>2, <2>3, <2>4
<1> QED BY <1>1, <1>2

\* A flow that can be taken was begun FlowTTL before it ends, by the browser it belongs to.
LEMMA FlowsKept ==
  ASSUME SignInv, SignTypes', Narrows,
         \/ Ends
         \/ \E q \in Calls : Begins(q) \/ Advances(q) \/ Creates(q)
  PROVE  FlowsBegun'
<1>1. \A s \in sessions' : s.flow # None => begun[s.flow] # None
  <2>1. \A s \in sessions : s.flow # None => begun[s.flow] # None
    BY DEF SignInv, Timed, FlowsBegun
  <2>2. ASSUME NEW q \in Calls, Creates(q)
        PROVE  \A s \in sessions' : s.flow # None => begun[s.flow] # None
    <3>1. call[q].flow # None => begun[call[q].flow] # None
      <4>1. Active(q)
        BY <2>2 DEF Creates, Active, Running
      <4> QED BY <4>1 DEF SignInv, Asserted, Vouched, FromFlow
    <3> DEFINE new == [call |-> q, by |-> call[q].by, flow |-> call[q].flow,
                       account |-> call[q].account]
    <3>2. sessions' = sessions \cup {new} /\ new.flow = call[q].flow
      BY <2>2 DEF Creates
    <3> HIDE DEF new
    <3> QED BY <2>1, <3>1, <3>2
  <2> QED BY <2>1, <2>2 DEF Ends, Begins, Advances
<1> QED BY <1>1 DEF SignInv, Timed, FlowsBegun, Narrows, SignTypes

\* A flow that is taken is gone, so no second request, and no second session, has it.
LEMMA OneUseKept ==
  ASSUME SignInv, SignTypes', Narrows,
         \/ Ends
         \/ \E q \in Calls : Begins(q) \/ Advances(q) \/ Creates(q)
  PROVE  OneUse'
<1>1. CASE Ends
  <2>1. \A q \in Calls, f \in Flows : Uses(q, f)' => Uses(q, f)
    BY <1>1 DEF Ends, Uses, Active, Running, Over
  <2> QED BY <1>1, <2>1 DEF Ends, Narrows, SignInv, OneUse
<1>2. ASSUME NEW q \in Calls, Begins(q)
      PROVE  OneUse'
  <2>1. \A p \in Calls \ {q}, f \in Flows : Uses(p, f)' => Uses(p, f)
    BY <1>2 DEF Begins, Alone, Uses, Active
  <2>2. \A f \in Flows : Uses(q, f)' => flows[f] # None /\ flows'[f] = None
    BY <1>2, SignInConstants DEF Begins, Uses
  <2> QED BY <1>2, <2>1, <2>2 DEF Begins, Narrows, SignInv, OneUse
<1>3. ASSUME NEW q \in Calls, Advances(q)
      PROVE  OneUse'
  <2>1. \A p \in Calls, f \in Flows : Uses(p, f)' => Uses(p, f)
    BY <1>3 DEF Advances, Alone, Uses, Active
  <2> QED BY <1>3, <2>1 DEF Advances, Narrows, SignInv, OneUse
<1>4. ASSUME NEW q \in Calls, Creates(q)
      PROVE  OneUse'
  <2> DEFINE new == [call |-> q, by |-> call[q].by, flow |-> call[q].flow,
                     account |-> call[q].account]
  <2>1. \A p \in Calls, f \in Flows : Uses(p, f)' => p # q /\ Uses(p, f)
    BY <1>4 DEF Creates, Alone, Uses, Active, Running
  <2>2. sessions' = sessions \cup {new} /\ new.flow = call[q].flow /\ Active(q)
    BY <1>4 DEF Creates, Active, Running
  <2> HIDE DEF new
  <2>3. \A f \in Flows : new.flow = f => Uses(q, f)
    BY <2>2 DEF Uses
  <2>4. \A f \in Flows, s \in sessions' : s.flow = f => s = new \/ s \in sessions
    BY <2>2
  <2>5. ASSUME NEW f \in Flows
        PROVE  /\ \A p, r \in Calls : Uses(p, f)' /\ Uses(r, f)' => p = r
               /\ \A s, t \in sessions' : s.flow = f /\ t.flow = f => s = t
               /\ \A p \in Calls : Uses(p, f)' =>
                     flows'[f] = None /\ \A s \in sessions' : s.flow # f
               /\ flows'[f] # None => \A s \in sessions' : s.flow # f
    BY <2>1, <2>2, <2>3, <2>4 DEF Narrows, SignInv, OneUse
  <2> QED BY <2>5 DEF OneUse
<1> QED BY <1>1, <1>2, <1>3, <1>4

\* A flow is new: nobody has it.

\* A new flow has a name that no request and no session has.
LEMMA LoginKeeps ==
  ASSUME SignInv, RememberSince, now' = now,
         NEW b \in Visitors, NEW f \in Flows, Login(b, f)
  PROVE  SinceTypes' /\ SubjectsKnown' /\ Asserted' /\ OneUse'
<1>1. Ends /\ forward' = forward /\ begun[f] = None /\ call' = call /\ sessions' = sessions
  BY DEF Login, Ends, outside
<1>2. SignTypes' /\ SubjectsKnown'
  BY <1>1, LoginTimed, KnownKept DEF SignInv, Timed
<1>3. SinceTypes'
  BY <1>2, SinceGrows
<1>4. /\ \A g \in Flows : g # f => begun'[g] = begun[g] /\ flows'[g] \in {flows[g], None}
  BY SweptTypes DEF Login, Begun, SignInv, Timed, SignTypes
<1>5. \A q \in Calls : call'[q] = call[q]
  BY <1>1
<1>6. \A g \in Flows : begun[g] # None => begun'[g] = begun[g]
  BY <1>1, <1>4
<1>7. Asserted'
  BY <1>1, <1>2, <1>5, <1>6, StillVouched DEF Asserted
<1>8. /\ \A q \in Calls : ~Uses(q, f)
      /\ \A s \in sessions : s.flow # f
  BY <1>1, SignInConstants
  DEF SignInv, Timed, FlowsBegun, Asserted, Vouched, FromFlow, Uses
<1>9. \A q \in Calls, g \in Flows : Uses(q, g)' => Uses(q, g)
  BY <1>1 DEF Uses, Active
<1>10. OneUse'
  BY <1>1, <1>4, <1>8, <1>9 DEF SignInv, OneUse
<1> QED BY <1>2, <1>3, <1>7, <1>10

---------------------------------------------------------------------------
(* Notices.                                                                *)

\* Notices go; one comes only with a request that is told.
NoticesMove ==
    /\ shown' = shown
    /\ \A q \in Calls :
          /\ call[q].pc = "told" => call'[q].pc = "told"
          /\ \/ notices'[q] \in {notices[q], None}
             \/ call[q].pc # "told" /\ call'[q].pc = "told"

\* A notice is minted for the request that failed, and sweeps the old ones.
LEMMA ToldMoves ==
  ASSUME SignTypes, now \in Nat, NEW q \in Calls, Told(q) \/ notices' = notices
  PROVE  \A p \in Calls \ {q} : notices'[p] \in {notices[p], None}
BY DEF Told, NoticesSwept, SignTypes

\* A request mints a notice only when it ends, told.
LEMMA CallNotices ==
  ASSUME SignInv, NEW q \in Calls, CallStep(q)
  PROVE  NoticesMove
<1>1. /\ call[q].pc \in Running /\ shown' = shown
      /\ \/ notices' = notices
         \/ Told(q) /\ call'[q].pc = "told"
  BY OneCallMoves DEF CallStep, Exchange, Resolve, Gate, Fails, Create, Queue, TellFailure,
     CallAt, calm, Running, Over, SignInv, Timed
<1>2. Alone(q)
  BY CallStepEffect, OneCallMoves
  DEF CallStep, Exchange, Resolve, Gate, Fails, Create, Queue, TellFailure, Advances, Creates,
      Running, Over, SignInv, Timed, SignTypes, Alone
<1> QED BY <1>1, <1>2, ToldMoves DEF NoticesMove, Alone, Running, SignInv, Timed

\* Nothing else mints a notice, but a callback that fails at once.
LEMMA OtherNotices ==
  ASSUME SignInv
  PROVE  /\ \A b \in Visitors, f \in Flows : Login(b, f) => NoticesMove
         /\ \A d \in back, s \in Subjects : ProviderAnswers(d, s) => NoticesMove
         /\ \A q \in Calls : \A d \in back : Callback(q, d) => NoticesMove
         /\ \A q, p \in Calls : Again(q, p) => NoticesMove
         /\ \A q \in Calls, b \in Visitors, s \in Subjects : Forward(q, b, s) => NoticesMove
         /\ \A e \in Pages, q \in Calls : FollowEnrollment(e, q) => NoticesMove
         /\ \A e \in Pages : Poll(e) => NoticesMove
         /\ \A a \in Accounts, st \in {"enabled", "suspended"} :
               AccountChanges(a, st) => NoticesMove
         /\ \A s \in Subjects, a \in Accounts \cup {None} : Mapped(s, a) => NoticesMove
         /\ SignInSwept => NoticesMove
         /\ SignInRestarts => NoticesMove
         /\ signVars' = signVars => NoticesMove
<1>1. ASSUME NEW q \in Calls, NEW d \in back, Callback(q, d)
      PROVE  NoticesMove
  <2>1. /\ call[q].pc = "idle" /\ shown' = shown
        /\ Told(q) \/ notices' = notices
        /\ \A p \in Calls \ {q} : call'[p] = call[p]
        /\ notices' = notices \/ call'[q].pc = "told"
    BY <1>1 DEF Callback, CallAt, IdleCall, SignInv, Timed, SignTypes
  <2> QED BY <2>1, ToldMoves DEF NoticesMove, SignInv, Timed
<1>2. ASSUME NEW q \in Calls, NEW p \in Calls, Again(q, p)
      PROVE  NoticesMove
  <2>1. /\ call[q].pc = "idle" /\ shown' = shown
        /\ Told(q) \/ notices' = notices
        /\ \A r \in Calls \ {q} : call'[r] = call[r]
        /\ notices' = notices \/ call'[q].pc = "told"
    BY <1>2 DEF Again, CallAt, IdleCall, SignInv, Timed, SignTypes
  <2> QED BY <2>1, ToldMoves DEF NoticesMove, SignInv, Timed
<1>3. ASSUME NEW q \in Calls, NEW b \in Visitors, NEW s \in Subjects, Forward(q, b, s)
      PROVE  NoticesMove
  BY <1>3 DEF Forward, CallAt, NoticesMove, SignInv, Timed, SignTypes
<1>4. SignInSwept => NoticesMove
  BY SweptTypes DEF SignInSwept, NoticesMove, SignInv
<1>5. SignInRestarts => NoticesMove
  BY DEF SignInRestarts, NoticesMove, Over
<1>6. /\ \A b \in Visitors, f \in Flows : Login(b, f) => NoticesMove
      /\ \A d \in back, s \in Subjects : ProviderAnswers(d, s) => NoticesMove
      /\ signVars' = signVars => NoticesMove
  BY DEF Login, ProviderAnswers, signVars, NoticesMove
<1>7. /\ \A e \in Pages, q \in Calls : FollowEnrollment(e, q) => NoticesMove
      /\ \A e \in Pages : Poll(e) => NoticesMove
      /\ \A a \in Accounts, st \in {"enabled", "suspended"} :
            AccountChanges(a, st) => NoticesMove
      /\ \A s \in Subjects, a \in Accounts \cup {None} : Mapped(s, a) => NoticesMove
  BY DEF FollowEnrollment, Poll, AccountChanges, Mapped, NoticesMove
<1> QED BY <1>1, <1>2, <1>3, <1>4, <1>5, <1>6, <1>7

\* handleSSONotice takes the notice it shows.
LEMMA OneNoticeKept ==
  ASSUME SignInv, NoticesMove \/ \E q \in Calls : ShowNotice(q)
  PROVE  OneNotice'
<1>1. CASE NoticesMove
  BY <1>1 DEF NoticesMove, SignInv, OneNotice
<1>2. ASSUME NEW q \in Calls, ShowNotice(q)
      PROVE  OneNotice'
  BY <1>2 DEF ShowNotice, Spent, SignInv, Timed, SignTypes, OneNotice
<1> QED BY <1>1, <1>2

---------------------------------------------------------------------------
(* The theorems about signing in.                                          *)

\* A process starts without flows, requests, sessions and notices.
LEMMA SignInvInit == Init => SignInv
<1> SUFFICES ASSUME Init PROVE SignInv
  OBVIOUS
<1>1. SignTypes
  BY DEF Init, SignInInit, SignTypes, IdleCall, Requested, Over
<1>2. SinceTypes
  BY DEF Init, SignInInit, SinceTypes, Ago
<1>3. SubjectsKnown /\ Asserted /\ OneUse /\ OneNotice /\ FlowsBegun
  BY DEF Init, SignInInit, SubjectsKnown, Asserted, Vouched, OneUse, Uses, OneNotice,
     FlowsBegun, Active, Running, IdleCall
<1> QED BY <1>1, <1>2, <1>3 DEF Init, SignInv, Timed

\* No step of the process breaks it.
LEMMA SignInvStep == SignInv /\ [Next]_vars => SignInv'
<1> SUFFICES ASSUME SignInv, [Next]_vars PROVE SignInv'
  OBVIOUS
<1>1. CASE UNCHANGED vars
  BY <1>1 DEF vars, signVars, SignInv, Timed, SignTypes, SinceTypes, FlowsBegun, SubjectsKnown,
     Asserted, Vouched, FromFlow, Active, OneUse, Uses, OneNotice
<1>2. CASE Step /\ RememberSince
  <2>1. CASE \E b \in Visitors, f \in Flows : now' = now /\ Login(b, f)
    <3>1. PICK b \in Visitors, f \in Flows : now' = now /\ Login(b, f)
      BY <2>1
    <3>2. Timed'
      BY <3>1, LoginTimed DEF SignInv
    <3>3. SinceTypes' /\ SubjectsKnown' /\ Asserted' /\ OneUse'
      BY <1>2, <3>1, LoginKeeps
    <3>4. OneNotice'
      BY <3>1, OtherNotices, OneNoticeKept
    <3> QED BY <3>2, <3>3, <3>4 DEF SignInv
  <2>2. ASSUME /\ SignTypes' /\ Narrows
               /\ Ends \/ \E q \in Calls : Begins(q) \/ Advances(q) \/ Creates(q)
               /\ NoticesMove \/ \E q \in Calls : ShowNotice(q)
        PROVE  SignInv'
    <3>1. now' \in Nat
      BY <1>2, SignSteps DEF SignInv, Timed
    <3>2. SubjectsKnown' /\ FlowsBegun' /\ OneUse' /\ OneNotice'
      BY <2>2, KnownKept, FlowsKept, OneUseKept, OneNoticeKept
    <3>3. SinceTypes' /\ Asserted'
      BY <1>2, <2>2, <3>2, SinceGrows, AssertedKept
    <3> QED BY <2>2, <3>1, <3>2, <3>3 DEF SignInv, Timed
  <2>3. ASSUME NEW q \in Calls, NEW d \in back, Callback(q, d), now' = now
        PROVE  SignInv'
    BY <2>2, <2>3, CallsTyped, CallbackEffect, OtherNotices
  <2>4. ASSUME NEW q \in Calls, NEW p \in Calls, Again(q, p), now' = now
        PROVE  SignInv'
    BY <2>2, <2>4, CallsTyped, AgainEffect, OtherNotices
  <2>5. ASSUME NEW q \in Calls, NEW b \in Visitors, NEW s \in Subjects, Forward(q, b, s),
               now' = now
        PROVE  SignInv'
    BY <2>2, <2>5, CallsTyped, ForwardEffect, OtherNotices
  <2>6. ASSUME NEW q \in Calls, CallStep(q)
        PROVE  SignInv'
    BY <2>2, <2>6, CallTyped, CallStepEffect, CallNotices
  <2>7. ASSUME \/ \E d \in back, s \in Subjects : ProviderAnswers(d, s)
               \/ \E q \in Calls : ShowNotice(q)
               \/ \E e \in Pages, q \in Calls : FollowEnrollment(e, q)
               \/ \E e \in Pages : Poll(e)
               \/ \E a \in Accounts, st \in {"enabled", "suspended"} : AccountChanges(a, st)
               \/ \E s \in Subjects, a \in Accounts \cup {None} : Mapped(s, a)
               \/ SignInSwept
               \/ SignInRestarts
        PROVE  SignInv'
    <3>1. SignTypes'
      BY <2>7, RestTyped
    <3>2. Narrows /\ Ends
      BY <2>7, RestEffect
    <3>3. NoticesMove \/ \E q \in Calls : ShowNotice(q)
      BY <2>7, OtherNotices
    <3> QED BY <2>2, <3>1, <3>2, <3>3
  <2>8. CASE signVars' = signVars
    <3>1. SignTypes'
      BY <2>8 DEF signVars, SignInv, Timed, SignTypes
    <3> QED BY <2>2, <2>8, <3>1, RestEffect, OtherNotices
  <2> QED BY <1>2, <2>1, <2>3, <2>4, <2>5, <2>6, <2>7, <2>8, SignSteps
<1> QED BY <1>1, <1>2 DEF Next

\* Everything that is known of flows, redirects, requests, sessions and notices holds
\* throughout: the invariant that both properties of signing in follow from.
THEOREM SignInvHolds == Spec => []SignInv
BY SignInvInit, SignInvStep, PTL DEF Spec

\* Only a request that is past the gate makes a session.
LEMMA OnlyCreates ==
  ASSUME SignInv, Step
  PROVE  sessions' = sessions \/ \E q \in Calls : Creates(q)
<1>1. ASSUME NEW q \in Calls, CallStep(q)
      PROVE  sessions' = sessions \/ \E p \in Calls : Creates(p)
  BY <1>1, CallStepEffect DEF Ends, Advances
<1>2. /\ \A b \in Visitors, f \in Flows : Login(b, f) => sessions' = sessions
      /\ \A d \in back, s \in Subjects : ProviderAnswers(d, s) => sessions' = sessions
      /\ \A q \in Calls : \A d \in back : Callback(q, d) => sessions' = sessions
      /\ \A q, p \in Calls : Again(q, p) => sessions' = sessions
      /\ \A q \in Calls, b \in Visitors, s \in Subjects :
            Forward(q, b, s) => sessions' = sessions
      /\ signVars' = signVars => sessions' = sessions
  BY DEF Login, ProviderAnswers, Callback, Again, Forward, signVars
<1>3. /\ \A q \in Calls : ShowNotice(q) => sessions' = sessions
      /\ \A e \in Pages, q \in Calls : FollowEnrollment(e, q) => sessions' = sessions
      /\ \A e \in Pages : Poll(e) => sessions' = sessions
      /\ \A a \in Accounts, st \in {"enabled", "suspended"} :
            AccountChanges(a, st) => sessions' = sessions
      /\ \A s \in Subjects, a \in Accounts \cup {None} :
            Mapped(s, a) => sessions' = sessions
      /\ SignInSwept => sessions' = sessions
      /\ SignInRestarts => sessions' = sessions
  BY DEF ShowNotice, FollowEnrollment, Poll, AccountChanges, Mapped, SignInSwept,
     SignInRestarts
<1> QED BY <1>1, <1>2, <1>3, SignSteps

\* A session is made only of a flow begun in that browser, in time, or of a token where a
\* proxy is trusted; for an account the subject was mapped to and that the gate would
\* have let in, at some moment since the request came.
THEOREM SessionsAreAsserted == Spec => SessionIsAsserted
<1> DEFINE Rests(s) ==
      /\ IF s.flow = None THEN forward
         ELSE /\ begun[s.flow].by = s.by
              /\ since[s.call].at <= begun[s.flow].at + FlowTTL
      /\ s.account \in since[s.call].mapped \cap since[s.call].enabled
<1>1. ASSUME SignInv, [Next]_vars
      PROVE  [\A s \in sessions' \ sessions : Rests(s)]_vars
  <2>1. SUFFICES ASSUME Step PROVE \A s \in sessions' \ sessions : Rests(s)
    BY <1>1 DEF Next
  <2>2. CASE sessions' = sessions
    BY <2>2
  <2>3. ASSUME NEW q \in Calls, Creates(q)
        PROVE  \A s \in sessions' \ sessions : Rests(s)
    <3> DEFINE new == [call |-> q, by |-> call[q].by, flow |-> call[q].flow,
                       account |-> call[q].account]
    <3>1. call[q].pc = "create" /\ sessions' = sessions \cup {new}
      BY <2>3 DEF Creates
    <3>2. /\ FromFlow(q) /\ call[q].account \in since[q].mapped
          /\ call[q].account \in since[q].enabled
      BY <1>1, <3>1 DEF SignInv, Asserted, Vouched, Active, Running
    <3>3. Rests(new)
      BY <3>2 DEF FromFlow
    <3> HIDE DEF new, Rests
    <3> QED BY <3>1, <3>3
  <2> QED BY <1>1, <2>1, <2>2, <2>3, OnlyCreates
<1> QED BY <1>1, SignInvHolds, PTL DEF Spec, SessionIsAsserted

---------------------------------------------------------------------------
(* Induction over a batch of changes.                                      *)

\* A set of numbers below a bound has a least one.
LEMMA Least ==
  ASSUME NEW n \in Nat, NEW T \in SUBSET (0 .. n), T # {}
  PROVE  \E x \in T : \A y \in T : x <= y
<1> DEFINE I == 1 .. n
           W == {1 .. x : x \in T}
<1>1. IsFiniteSet(I)
  BY FS_Interval
<1>2. \A x \in T : x \in Nat /\ 1 .. x \subseteq I
  OBVIOUS
<1>3. \A w \in W : w \in FiniteSubsetsOf(I)
  BY <1>1, <1>2, FS_Interval, FS_Subset DEF FiniteSubsetsOf
<1>4. W # {}
  OBVIOUS
<1>5. PICK w \in W : \A v \in W : ~(<<v, w>> \in StrictSubsetOrdering(I))
  <2> HIDE DEF W, I
  <2> QED BY <1>3, <1>4, FS_StrictSubsetOrderingWellFounded, WFMin
<1>6. PICK x \in T : w = 1 .. x
  OBVIOUS
<1>7. ASSUME NEW y \in T PROVE x <= y
  <2>1. ~(<<1 .. y, 1 .. x>> \in StrictSubsetOrdering(I))
    BY <1>5, <1>6
  <2>2. x \in Nat /\ y \in Nat
    BY <1>2
  <2>3. SUFFICES ASSUME y < x PROVE FALSE
    BY <2>2
  <2>4. 1 .. y \subseteq 1 .. x /\ x \in 1 .. x /\ x \notin 1 .. y
    BY <2>2, <2>3
  <2> QED BY <1>2, <2>1, <2>4 DEF StrictSubsetOrdering
<1> QED BY <1>7

\* What holds of 0 and passes from each number to the next holds up to any number.
LEMMA UpTo ==
  ASSUME NEW n \in Nat, NEW S, 0 \in S, \A i \in 0 .. n - 1 : i \in S => i + 1 \in S
  PROVE  0 .. n \subseteq S
<1> DEFINE T == (0 .. n) \ S
<1>1. SUFFICES ASSUME T # {} PROVE FALSE
  OBVIOUS
<1>2. PICK x \in T : \A y \in T : x <= y
  <2> HIDE DEF T
  <2> SUFFICES T \in SUBSET (0 .. n)
    BY <1>1, Least
  <2> QED BY DEF T
<1>3. x \in 1 .. n /\ x - 1 \in 0 .. n - 1 /\ x - 1 \notin T
  BY <1>2
<1> QED BY <1>3

\* The roster after i changes is the one after i - 1 with the i-th `usersync member`.
LEMMA MemberSteps ==
  ASSUME NEW d, NEW cs, Len(cs) \in Nat
  PROVE  /\ MemberUpTo(d, cs)[0] = d
         /\ \A i \in 1 .. Len(cs) :
               MemberUpTo(d, cs)[i] = Member(MemberUpTo(d, cs)[i - 1], cs[i])
<1> DEFINE Body(g, i) == IF i = 0 THEN d ELSE Member(g[i - 1], cs[i])
           Is(g, n) == g = [i \in 0 .. n |-> Body(g, i)]
           S == {n \in 0 .. Len(cs) : \E g : Is(g, n)}
<1>1. 0 \in S
  <2> DEFINE g0 == [i \in 0 .. 0 |-> d]
  <2>1. Is(g0, 0)
    OBVIOUS
  <2> HIDE DEF Is, g0
  <2> QED BY <2>1
<1>2. ASSUME NEW i \in 0 .. Len(cs) - 1, i \in S
      PROVE  i + 1 \in S
  <2>1. PICK g : Is(g, i)
    BY <1>2
  <2> DEFINE h == [j \in 0 .. i + 1 |-> IF j = i + 1 THEN Member(g[i], cs[j]) ELSE g[j]]
  <2>2. ASSUME NEW j \in 0 .. i + 1
        PROVE  h[j] = Body(h, j)
    <3>1. CASE j = 0
      BY <2>1, <3>1
    <3>2. CASE j \in 1 .. i
      <4>1. g[j] = Body(g, j)
        BY <2>1, <3>2
      <4>2. h[j] = g[j] /\ h[j - 1] = g[j - 1] /\ j # 0
        BY <3>2
      <4> QED BY <4>1, <4>2
    <3>3. CASE j = i + 1
      <4>1. h[j] = Member(g[i], cs[j]) /\ h[j - 1] = g[i] /\ j # 0
        BY <3>3
      <4> QED BY <4>1
    <3> QED BY <3>1, <3>2, <3>3
  <2>3. Is(h, i + 1)
    <3> HIDE DEF Body
    <3> QED BY <2>2
  <2>4. i + 1 \in 0 .. Len(cs)
    BY <1>2
  <2> QED BY <2>3, <2>4
<1>3. Len(cs) \in S
  <2>1. \A i \in 0 .. Len(cs) - 1 : i \in S => i + 1 \in S
    BY <1>2
  <2> HIDE DEF S
  <2>2. 0 .. Len(cs) \subseteq S
    BY <1>1, <2>1, UpTo
  <2> QED BY <2>2
<1>4. MemberUpTo(d, cs) = CHOOSE g : Is(g, Len(cs))
  BY Zenon DEF MemberUpTo
<1>5. Is(MemberUpTo(d, cs), Len(cs))
  <2> HIDE DEF Is
  <2> QED BY <1>3, <1>4
<1> QED BY <1>5

\* The last change of a batch to each membership is what the batch leaves.
LEMMA BatchLands ==
  ASSUME NEW d, NEW cs \in Seq(Membership), \A i \in 1 .. Len(cs) : cs[i].team \in Declared(d),
         {"users", "members"} \subseteq DOMAIN d
  PROVE  /\ DOMAIN MemberAll(d, cs) = DOMAIN d /\ MemberAll(d, cs).users = d.users
         /\ \A i \in 1 .. Len(cs) :
               (\A k \in i + 1 .. Len(cs) :
                   <<cs[k].team, cs[k].user>> # <<cs[i].team, cs[i].user>>)
               => (cs[i].user \in MemberAll(d, cs).members[cs[i].team]) = cs[i].member
<1> DEFINE u == MemberUpTo(d, cs)
           Same(n) == /\ DOMAIN u[n] = DOMAIN d /\ u[n].users = d.users
                      /\ DOMAIN u[n].members = DOMAIN d.members
           Last(n, i) == \A k \in i + 1 .. n :
                            <<cs[k].team, cs[k].user>> # <<cs[i].team, cs[i].user>>
           Stands(n, i) == (cs[i].user \in u[n].members[cs[i].team]) = cs[i].member
           S == {n \in 0 .. Len(cs) : Same(n) /\ \A i \in 1 .. n : Last(n, i) => Stands(n, i)}
<1>0. Len(cs) \in Nat /\ \A i \in 1 .. Len(cs) : cs[i] \in Membership
  OBVIOUS
<1>1. u[0] = d /\ \A i \in 1 .. Len(cs) : u[i] = Member(u[i - 1], cs[i])
  <2> HIDE DEF u
  <2> QED BY <1>0, MemberSteps DEF u
<1> HIDE DEF u
<1>2. 0 \in S
  BY <1>0, <1>1
<1>3. ASSUME NEW n \in 0 .. Len(cs) - 1, n \in S
      PROVE  n + 1 \in S
  <2> DEFINE c == cs[n + 1]
  <2>0. n + 1 \in 1 .. Len(cs) /\ (n + 1) - 1 = n /\ n \in Nat
    BY <1>0
  <2>1. u[n + 1] = Member(u[n], c) /\ c \in Membership
    BY <1>0, <1>1, <2>0
  <2>2. Same(n) /\ c.team \in DOMAIN u[n].members
    BY <1>3, <2>0 DEF Declared
  <2>3. u[n + 1] = [u[n] EXCEPT !.members[c.team] =
                       IF c.member THEN @ \cup {c.user} ELSE @ \ {c.user}]
    BY <2>1 DEF Member
  <2> HIDE DEF c
  <2>4. Same(n + 1)
    BY <2>2, <2>3
  <2>5. /\ (c.user \in u[n + 1].members[c.team]) = c.member
        /\ \A g \in DOMAIN d.members : \A x :
              <<g, x>> # <<c.team, c.user>> =>
                 (x \in u[n + 1].members[g] <=> x \in u[n].members[g])
    <3>1. c.member \in BOOLEAN
      BY <2>1 DEF Membership
    <3>2. u[n + 1].members = [u[n].members EXCEPT ![c.team] =
                                 IF c.member THEN @ \cup {c.user} ELSE @ \ {c.user}]
      BY <2>2, <2>3
    <3>3. u[n + 1].members[c.team] =
             IF c.member THEN u[n].members[c.team] \cup {c.user}
             ELSE u[n].members[c.team] \ {c.user}
      BY <2>2, <3>2
    <3>4. \A g \in DOMAIN d.members : g # c.team => u[n + 1].members[g] = u[n].members[g]
      BY <2>2, <3>2
    <3> QED BY <3>1, <3>3, <3>4
  <2>6. ASSUME NEW i \in 1 .. n + 1, Last(n + 1, i)
        PROVE  Stands(n + 1, i)
    <3>1. CASE i = n + 1
      BY <2>5, <3>1 DEF c
    <3>2. CASE i \in 1 .. n
      <4>1. Last(n, i) /\ <<cs[i].team, cs[i].user>> # <<c.team, c.user>>
        BY <2>0, <2>6, <3>2 DEF c
      <4>2. Stands(n, i) /\ cs[i].team \in DOMAIN d.members
        BY <1>3, <2>0, <3>2, <4>1 DEF Declared
      <4>3. cs[i].user \in u[n + 1].members[cs[i].team]
               <=> cs[i].user \in u[n].members[cs[i].team]
        BY <2>5, <4>1, <4>2
      <4> QED BY <4>2, <4>3
    <3> QED BY <2>0, <3>1, <3>2
  <2> HIDE DEF Same, Last, Stands
  <2> QED BY <2>0, <2>4, <2>6
<1>4. Len(cs) \in S
  <2>1. \A n \in 0 .. Len(cs) - 1 : n \in S => n + 1 \in S
    BY <1>3
  <2> HIDE DEF S
  <2>2. 0 .. Len(cs) \subseteq S
    BY <1>0, <1>2, <2>1, UpTo
  <2> QED BY <1>0, <2>2
<1> QED BY <1>4 DEF MemberAll, u

---------------------------------------------------------------------------
(* Teams.                                                                  *)

\* What is asked of a roster.
Shaped(d) == {"users", "members"} \subseteq DOMAIN d /\ d.users \subseteq Users

TeamTypes ==
    /\ Shaped(roster)
    /\ {"members", "views", "anonymous"} \subseteq DOMAIN sys /\ DOMAIN sys.members = Groups
    /\ local \in BOOLEAN
    /\ tracker \subseteq {r \in Reqs : op[r].pc # "idle"}

\* Whose membership of what the j-th change is about.
Pair(r, j) == <<op[r].changes[j].team, op[r].changes[j].user>>

\* A request's record: where it is says how many of its changes it has made.
Asked(r) ==
    LET n == Len(op[r].changes) IN
    /\ DOMAIN op[r] = {"pc", "batch", "actor", "changes", "decl", "i"}
    /\ op[r].changes \in Seq(Membership)
    /\ op[r].i \in 1 .. n + 1
    /\ op[r].pc # "idle" => n > 0
    /\ op[r].pc \in {"declare", "admin", "owned", "known", "commit"} => op[r].i = 1
    /\ op[r].pc = "edit" => op[r].i <= n
    /\ op[r].pc = "apply" => op[r].i = n + 1
    /\ op[r].pc \in {"edit", "apply"} => local
    /\ op[r].pc = "commit" => ~local
    /\ op[r].pc \in {"owned", "known"} => ~op[r].batch
    /\ op[r].pc # "idle" /\ ~op[r].batch => n = 1

\* What a request that has been let this far could manage.
Permitted(r) ==
    /\ op[r].pc = "admin" /\ op[r].batch =>
          \A g \in Groups : g \in Owns(op[r].decl, op[r].actor) => g \in may[r]
    /\ op[r].pc = "known" => op[r].changes[1].team \in may[r]
    /\ op[r].pc \in {"edit", "apply", "commit"} =>
          \A j \in 1 .. Len(op[r].changes) : op[r].changes[j].team \in may[r]

\* The j-th change is in the roster.
Stands(r, j) ==
    LET c == op[r].changes[j] IN
    /\ c.team \in Declared(roster)
    /\ (c.user \in roster.members[c.team]) = c.member

\* The last edit of each membership so far stands, unless someone else undid it.
Landed(r) ==
    op[r].pc \in {"edit", "apply"} =>
        \A j \in 1 .. op[r].i - 1 :
            (\A k \in j + 1 .. op[r].i - 1 : Pair(r, k) # Pair(r, j))
            => Pair(r, j) \in over[r] \/ Stands(r, j)

\* One request; all of them.
Sound(r) == Asked(r) /\ Permitted(r) /\ Landed(r)

RequestsSound == \A r \in Reqs : Sound(r)

\* The j-th change was in the table, or getent failed for its group.
Seen(w, j) == j \in held[w] \/ Changes(w)[j].team \in watch[w].missed

\* One stream: every change it is past was seen, in this look or an earlier state.
Watched(w) ==
    /\ DOMAIN watch[w] = {"pc", "id", "i", "seen", "missed"}
    /\ watch[w].pc # "idle" =>
          /\ watch[w].id \in Reqs /\ op[watch[w].id].pc # "idle"
          /\ \A j \in DOMAIN Changes(w) :
                LET c == Changes(w)[j] IN
                c.team \in DOMAIN watch[w].seen \ watch[w].missed =>
                    (Says(c, watch[w].seen[c.team]) => j \in held[w])
    /\ watch[w].pc = "look" =>
          /\ watch[w].i \in 1 .. Len(Changes(w))
          /\ \A j \in 1 .. watch[w].i - 1 : Seen(w, j)
    /\ watch[w].pc = "applied" => \A j \in 1 .. Len(Changes(w)) : Seen(w, j)

StreamsSound == \A w \in Watchers : Watched(w)

\* What SceneShape says of scenes holds of what is left of one.
SceneKept ==
    /\ {"calls", "who", "keeps"} \subseteq DOMAIN left /\ left.who \subseteq Users
    /\ \A r \in Reqs : \A ask \in left.calls[r] :
          ask.changes \in Seq(Membership) /\ Len(ask.changes) > 0

OpShape == DOMAIN op = Reqs /\ DOMAIN watch = Watchers

TeamInv == SceneKept /\ OpShape /\ TeamTypes /\ RequestsSound /\ StreamsSound

\* What an actor could once manage stays in the history of the request.
LEMMA MayGrows ==
  ASSUME Remember, NEW r \in Reqs, op'[r].pc # "idle"
  PROVE  may[r] \subseteq may'[r] /\ Manages(roster', sys', op'[r].actor) \subseteq may'[r]
BY DEF Remember

\* A request that a step leaves alone: edits by others are in over or keep its changes.
LEMMA OthersStaySound ==
  ASSUME TeamInv, Remember, local' = local, NEW r \in Reqs, op'[r] = op[r]
  PROVE  Sound(r)'
<1>1. Sound(r)
  BY DEF TeamInv, RequestsSound
<1>2. Asked(r)'
  BY <1>1 DEF Sound, Asked
<1>3. CASE op[r].pc = "idle"
  BY <1>2, <1>3 DEF Sound, Permitted, Landed
<1>4. CASE op[r].pc # "idle"
  <2>1. Permitted(r)'
    BY <1>1, <1>4, MayGrows DEF Sound, Permitted, Owns
  <2>2. over'[r] = over[r] \cup Differ(roster, roster')
    BY <1>4 DEF Remember, At
  <2>3. ASSUME NEW j \in 1 .. op[r].i - 1, op[r].pc \in {"edit", "apply"},
               Stands(r, j), Pair(r, j) \notin Differ(roster, roster')
        PROVE  Stands(r, j)'
    <3> DEFINE c == op[r].changes[j]
    <3>1. c \in Membership
      BY <1>1 DEF Sound, Asked
    <3>2. Pair(r, j) \in Groups \X Users /\ Pair(r, j)[1] = c.team /\ Pair(r, j)[2] = c.user
      BY <3>1 DEF Pair, Membership
    <3>3. /\ c.team \in Declared(roster)
          /\ (c.user \in roster.members[c.team]) = c.member
      BY <2>3 DEF Stands
    <3> HIDE DEF c
    <3>4. /\ c.team \in Declared(roster')
          /\ c.user \in MembersOf(roster, c.team) <=> c.user \in MembersOf(roster', c.team)
      BY <2>3, <3>2, <3>3 DEF Differ
    <3>5. c.team \in Declared(roster') /\ (c.user \in roster'.members[c.team]) = c.member
      BY <3>3, <3>4 DEF MembersOf
    <3> QED BY <3>5 DEF Stands, c, Declared
  <2>4. Landed(r)'
    <3>1. \A j : Pair(r, j)' = Pair(r, j)
      BY DEF Pair
    <3> QED BY <1>1, <2>2, <2>3, <3>1 DEF Sound, Landed
  <2> QED BY <1>2, <2>1, <2>4 DEF Sound
<1> QED BY <1>3, <1>4

\* A request that has ended claims nothing.
LEMMA EndsSound ==
  ASSUME TeamInv, local' = local, NEW r \in Reqs, NEW x \in {"ok", "failed", "refused"},
         op[r].pc # "idle", op'[r] = [op[r] EXCEPT !.pc = x]
  PROVE  Sound(r)'
<1>1. Asked(r)
  BY DEF TeamInv, RequestsSound, Sound
<1>2. /\ op'[r].pc = x /\ op'[r].changes = op[r].changes /\ op'[r].i = op[r].i
      /\ op'[r].batch = op[r].batch /\ DOMAIN op'[r] = DOMAIN op[r]
  BY <1>1 DEF Asked
<1> QED BY <1>1, <1>2 DEF Sound, Asked, Permitted, Landed

\* A request that has come has done nothing yet.
LEMMA SubmitSound ==
  ASSUME TeamInv, Remember, local' = local, NEW r \in Reqs, NEW ask \in left.calls[r],
         Submit(r, ask.actor, ask.batch, ask.changes)
  PROVE  Sound(r)'
<1>1. ask.changes \in Seq(Membership) /\ Len(ask.changes) > 0
  BY DEF TeamInv, SceneKept
<1>2. op'[r] = [IdleReq EXCEPT !.pc = IF ask.batch THEN "declare" ELSE "admin",
                   !.batch = ask.batch, !.actor = ask.actor, !.changes = ask.changes]
  BY DEF Submit, TeamInv, OpShape
<1>3. /\ op'[r].pc = IF ask.batch THEN "declare" ELSE "admin"
      /\ op'[r].batch = ask.batch /\ op'[r].changes = ask.changes /\ op'[r].i = 1
      /\ DOMAIN op'[r] = {"pc", "batch", "actor", "changes", "decl", "i"}
  BY <1>2 DEF IdleReq
<1>4. ask.batch \/ Len(ask.changes) = 1
  BY DEF Submit
<1> QED BY <1>1, <1>3, <1>4 DEF Sound, Asked, Permitted, Landed

\* The roster a batch has read is the one that stands, so its teams are in may.
LEMMA DeclareSound ==
  ASSUME TeamInv, Remember, local' = local, NEW r \in Reqs, Declare(r)
  PROVE  Sound(r)'
<1>1. Asked(r) /\ op[r].pc = "declare"
  BY DEF TeamInv, RequestsSound, Sound, Declare, At
<1>2. op'[r] = [op[r] EXCEPT !.decl = roster, !.pc = "admin"] /\ roster' = roster
  BY DEF Declare, Quiet, TeamInv, OpShape
<1>3. /\ op'[r].pc = "admin" /\ op'[r].decl = roster' /\ op'[r].actor = op[r].actor
      /\ op'[r].changes = op[r].changes /\ op'[r].i = op[r].i
      /\ op'[r].batch = op[r].batch /\ DOMAIN op'[r] = DOMAIN op[r]
  BY <1>1, <1>2 DEF Asked
<1>4. Permitted(r)'
  <2>1. Manages(roster', sys', op'[r].actor) \subseteq may'[r]
    BY <1>3, MayGrows
  <2> QED BY <1>3, <2>1 DEF Permitted, Manages
<1> QED BY <1>1, <1>3, <1>4 DEF Sound, Asked, Landed

\* IsAdmin, and Accepts of the roster that was read before it.
LEMMA AskAdminSound ==
  ASSUME TeamInv, Remember, local' = local, NEW r \in Reqs, AskAdmin(r)
  PROVE  Sound(r)'
<1>1. Asked(r) /\ Permitted(r) /\ op[r].pc = "admin" /\ local \in BOOLEAN
  BY DEF TeamInv, TeamTypes, RequestsSound, Sound, AskAdmin, At
<1>2. PICK admin \in {IsAdmin(op[r].actor), FALSE} :
         IF op[r].batch
         THEN Move(r, IF Accepts(op[r].decl, admin, op[r].actor, op[r].changes)
                      THEN Write ELSE "refused")
         ELSE Move(r, IF admin THEN "known" ELSE "owned")
  BY DEF AskAdmin
<1> DEFINE x == IF op[r].batch
                THEN IF Accepts(op[r].decl, admin, op[r].actor, op[r].changes)
                     THEN Write ELSE "refused"
                ELSE IF admin THEN "known" ELSE "owned"
<1>3. op'[r] = [op[r] EXCEPT !.pc = x] /\ roster' = roster /\ sys' = sys
  BY <1>2 DEF AskAdmin, Move, Quiet, TeamInv, OpShape
<1>4. /\ op'[r].pc = x /\ op'[r].actor = op[r].actor
      /\ op'[r].changes = op[r].changes /\ op'[r].i = op[r].i
      /\ op'[r].batch = op[r].batch /\ DOMAIN op'[r] = DOMAIN op[r]
  <2> HIDE DEF x
  <2> QED BY <1>1, <1>3 DEF Asked
<1>5. x \in {"edit", "commit", "refused", "known", "owned"}
  BY DEF Write
<1>6. /\ x \in {"known", "owned"} => ~op[r].batch
      /\ x = "edit" => local
      /\ x = "commit" => ~local
  BY DEF Write
<1>7. Asked(r)'
  <2> HIDE DEF x
  <2> QED BY <1>1, <1>4, <1>5, <1>6 DEF Asked
<1>8. /\ may[r] \subseteq may'[r]
      /\ Manages(roster, sys, op[r].actor) \subseteq may'[r]
  <2> HIDE DEF x
  <2> QED BY <1>3, <1>4, <1>5, MayGrows
<1>9. \A j \in 1 .. Len(op[r].changes) : op[r].changes[j].team \in Groups
  <2>1. op[r].changes \in Seq(Membership)
    BY <1>1 DEF Asked
  <2>2. \A j \in 1 .. Len(op[r].changes) : op[r].changes[j] \in Membership
    BY <2>1
  <2> QED BY <2>2 DEF Membership
<1>10. admin => Groups \subseteq may'[r]
  BY <1>8 DEF IsAdmin, Manages
<1>11. ASSUME x \in {"edit", "commit"}, NEW j \in 1 .. Len(op[r].changes)
       PROVE  op[r].changes[j].team \in may'[r]
  <2>1. op[r].batch /\ Accepts(op[r].decl, admin, op[r].actor, op[r].changes)
    BY <1>11
  <2>2. op[r].changes[j] \in Range(op[r].changes)
    BY <1>1 DEF Asked, Range
  <2>3. admin \/ op[r].changes[j].team \in Owns(op[r].decl, op[r].actor)
    BY <2>1, <2>2 DEF Accepts
  <2> QED BY <1>1, <1>8, <1>9, <1>10, <2>1, <2>3 DEF Permitted
<1>12. x = "known" => op[r].changes[1].team \in may'[r]
  <2>1. ASSUME x = "known" PROVE admin
    BY <2>1 DEF Write
  <2> HIDE DEF x
  <2>2. 1 \in 1 .. Len(op[r].changes)
    BY <1>1 DEF Asked
  <2> QED BY <1>9, <1>10, <2>1, <2>2
<1> HIDE DEF x
<1>13. Permitted(r)'
  BY <1>4, <1>5, <1>11, <1>12 DEF Permitted
<1>14. Landed(r)'
  BY <1>1, <1>4, <1>5 DEF Landed, Asked
<1> QED BY <1>7, <1>13, <1>14 DEF Sound

\* The roster OwnedTeams and the user check read is the one that stands.
LEMMA OwnedSound ==
  ASSUME TeamInv, Remember, local' = local, NEW r \in Reqs, Owned(r) \/ Known(r)
  PROVE  Sound(r)'
<1>1. Asked(r) /\ Permitted(r) /\ op[r].pc \in {"owned", "known"} /\ local \in BOOLEAN
  BY DEF TeamInv, TeamTypes, RequestsSound, Sound, Owned, Known, At
<1> DEFINE g == op[r].changes[1].team
<1>2. ~op[r].batch /\ Len(op[r].changes) = 1 /\ g \in Groups
  <2>1. op[r].changes \in Seq(Membership) /\ Len(op[r].changes) = 1 /\ ~op[r].batch
    BY <1>1 DEF Asked
  <2>2. op[r].changes[1] \in Membership
    BY <2>1
  <2> QED BY <2>1, <2>2 DEF Membership
<1>3. PICK x \in {"refused", "known", Write} :
         /\ Move(r, x) /\ roster' = roster /\ sys' = sys
         /\ x = "known" => op[r].pc = "owned" /\ g \in Owns(roster, op[r].actor)
         /\ x = Write => op[r].pc = "known"
  <2>1. CASE Owned(r)
    BY <2>1 DEF Owned, Quiet, Write, At
  <2>2. CASE Known(r)
    BY <2>2 DEF Known, Quiet, Write, At
  <2> QED BY <2>1, <2>2
<1>4. op'[r] = [op[r] EXCEPT !.pc = x]
  BY <1>3 DEF Move, TeamInv, OpShape
<1>5. /\ op'[r].pc = x /\ op'[r].actor = op[r].actor
      /\ op'[r].changes = op[r].changes /\ op'[r].i = op[r].i
      /\ op'[r].batch = op[r].batch /\ DOMAIN op'[r] = DOMAIN op[r]
  BY <1>1, <1>4 DEF Asked
<1>6. x # "idle" /\ x \in {"refused", "known", "edit", "commit"}
  BY DEF Write
<1>7. /\ may[r] \subseteq may'[r]
      /\ Manages(roster, sys, op[r].actor) \subseteq may'[r]
  BY <1>3, <1>5, <1>6, MayGrows
<1>8. Asked(r)'
  BY <1>1, <1>2, <1>5, <1>6 DEF Asked, Write
<1>9. x # "refused" => g \in may'[r]
  <2>1. CASE x = "known"
    BY <1>2, <1>3, <1>7, <2>1 DEF Manages
  <2>2. CASE x = Write
    BY <1>1, <1>3, <1>7, <2>2 DEF Permitted
  <2> QED BY <2>1, <2>2
<1>10. Permitted(r)'
  BY <1>2, <1>5, <1>6, <1>9 DEF Permitted
<1>11. Landed(r)'
  BY <1>1, <1>5, <1>6 DEF Landed, Asked
<1> QED BY <1>8, <1>10, <1>11 DEF Sound

\* `usersync member` makes one change; it undoes only earlier ones of the same pair.
LEMMA EditSound ==
  ASSUME TeamInv, Remember, local' = local, NEW r \in Reqs, Edit(r)
  PROVE  Sound(r)'
<1> DEFINE i == op[r].i
           c == op[r].changes[i]
           n == Len(op[r].changes)
<1>1. /\ Asked(r) /\ Permitted(r) /\ Landed(r) /\ op[r].pc = "edit"
      /\ "members" \in DOMAIN roster
  BY DEF TeamInv, TeamTypes, Shaped, RequestsSound, Sound, Edit, At
<1>2. i \in 1 .. n /\ n \in Nat /\ local /\ op[r].changes \in Seq(Membership)
  BY <1>1 DEF Asked
<1>3. c \in Membership
  BY <1>2
<1>4. /\ c.team \in DOMAIN roster.members
      /\ roster' = Member(roster, c)
      /\ op'[r] = [op[r] EXCEPT !.i = i + 1, !.pc = AfterEdit(r)]
  BY DEF Edit, TeamInv, OpShape, Declared
<1>5. /\ op'[r].pc = (IF i = n THEN "apply" ELSE "edit") /\ op'[r].i = i + 1
      /\ op'[r].changes = op[r].changes /\ op'[r].batch = op[r].batch
      /\ DOMAIN op'[r] = DOMAIN op[r]
  BY <1>1, <1>4 DEF Asked, AfterEdit
<1>6. roster'.members = [roster.members EXCEPT ![c.team] =
                            IF c.member THEN @ \cup {c.user} ELSE @ \ {c.user}]
  <2> HIDE DEF c
  <2> QED BY <1>1, <1>4 DEF Member
<1>7. Asked(r)'
  BY <1>1, <1>2, <1>5 DEF Asked
<1>8. Permitted(r)'
  BY <1>1, <1>5, MayGrows DEF Permitted
<1>9. over'[r] = over[r] /\ \A j : Pair(r, j)' = Pair(r, j)
  BY <1>2, <1>5 DEF Remember, Pair
<1>10. ASSUME NEW j, j = i
       PROVE  Stands(r, j)'
  <2>0. op'[r].changes[j] = c
    BY <1>5, <1>10
  <2> HIDE DEF c
  <2>1. c.member \in BOOLEAN
    BY <1>3 DEF Membership
  <2>2. roster'.members[c.team] = IF c.member THEN roster.members[c.team] \cup {c.user}
                                  ELSE roster.members[c.team] \ {c.user}
    BY <1>4, <1>6
  <2>3. c.team \in DOMAIN roster'.members /\ (c.user \in roster'.members[c.team]) = c.member
    BY <1>4, <1>6, <2>1, <2>2
  <2> QED BY <2>0, <2>3 DEF Stands, Declared
<1>11. ASSUME NEW j \in 1 .. i - 1, Pair(r, j) # Pair(r, i), Stands(r, j)
       PROVE  Stands(r, j)'
  <2> DEFINE e == op[r].changes[j]
  <2>1. e.team \in DOMAIN roster.members /\ (e.user \in roster.members[e.team]) = e.member
    BY <1>11 DEF Stands, Declared
  <2>2. <<e.team, e.user>> # <<c.team, c.user>>
    BY <1>11 DEF Pair
  <2> HIDE DEF c, e
  <2>3. e.user \in roster'.members[e.team] <=> e.user \in roster.members[e.team]
    BY <1>4, <1>6, <2>1, <2>2
  <2>4. e.team \in DOMAIN roster'.members /\ (e.user \in roster'.members[e.team]) = e.member
    BY <1>6, <2>1, <2>3
  <2> QED BY <1>5, <2>4 DEF Stands, Declared, e
<1>12. Landed(r)'
  <2>1. SUFFICES ASSUME NEW j \in 1 .. i, \A k \in j + 1 .. i : Pair(r, k) # Pair(r, j)
                 PROVE  Pair(r, j) \in over[r] \/ Stands(r, j)'
    BY <1>2, <1>5, <1>9 DEF Landed
  <2>2. CASE j = i
    BY <1>10, <2>2
  <2>3. CASE j \in 1 .. i - 1
    <3>1. Pair(r, j) # Pair(r, i)
      BY <1>2, <2>1, <2>3
    <3>2. Pair(r, j) \in over[r] \/ Stands(r, j)
      BY <1>1, <1>2, <2>1, <2>3 DEF Landed
    <3> QED BY <1>11, <2>3, <3>1, <3>2
  <2> QED BY <1>2, <2>2, <2>3
<1> QED BY <1>7, <1>8, <1>12 DEF Sound

\* A step of none of them: operators, sign-in, links, the sweeps, the clock.
Outside ==
    /\ op' = op /\ watch' = watch /\ tracker' \subseteq tracker
    /\ roster' = roster \/ roster' \in Rosters
    /\ \/ sys' = sys
       \/ sys' = Applied(roster)
       \/ \E us \in SUBSET Users : sys' = [sys EXCEPT !.members[AdminGroup] = us]

\* Whose step it may be, as far as rosters, requests and streams can tell.
LEMMA TeamSteps ==
  ASSUME Step
  PROVE  \/ Outside
         \/ \E r \in Reqs : ReqStep(r)
         \/ \E r \in Reqs : \E ask \in left.calls[r] :
               Submit(r, ask.actor, ask.batch, ask.changes)
         \/ \E w \in Watchers : WatchStep(w)
         \/ \E w \in Watchers, r \in Reqs : Follow(w, r)
         \/ Restart
<1> DEFINE Still == UNCHANGED <<roster, sys, requests, watch>>
<1>1. CASE Operators
  BY <1>1 DEF Operators, RosterEdited, Converge, AdminsChanged, Outside, requests
<1>2. CASE Owners
  BY <1>2 DEF Owners
<1>3. CASE Streams
  BY <1>3 DEF Streams
<1>4. CASE Files
  <2>1. \A u, g : Visit(u, g) => Still
    BY DEF Visit, Operation
  <2>2. \A k, u, g, asked, pw : CreateLink(k, u, g, asked, pw) => Still
    BY DEF CreateLink, Operation
  <2>3. \A u, k : Revoke(u, k) => Still
    BY DEF Revoke, still
  <2>4. Sweep => Still
    BY DEF Sweep, still
  <2>5. \A b, k, try : Request(b, k, try) => Still
    BY DEF Request, still
  <2>6. \A b : FetchStep(b) => Still
    BY DEF FetchStep, NoSuchLink, NeedsPassword, Unlock, Resolved, CookieOpens, ServeStep,
       Operation, still
  <2> HIDE DEF Still
  <2>7. Still
    BY <1>4, <2>1, <2>2, <2>3, <2>4, <2>5, <2>6 DEF Files
  <2> QED BY <2>7 DEF Still, Outside, requests
<1>5. CASE SigningIn
  BY <1>5 DEF SigningIn, Outside, requests
<1>6. CASE SweepSSO
  BY <1>6 DEF SweepSSO, Forget, Outside
<1>7. CASE Tick
  BY <1>7 DEF Tick, Outside, requests
<1> QED BY <1>1, <1>2, <1>3, <1>4, <1>5, <1>6, <1>7 DEF Step

\* What a request's step leaves of the others.
LEMMA OneRequestMoves ==
  ASSUME TeamInv, NEW r \in Reqs, ReqStep(r)
  PROVE  /\ DOMAIN op' = Reqs /\ watch' = watch
         /\ \A p \in Reqs \ {r} : op'[p] = op[p]
         /\ op[r].pc # "idle" /\ op'[r].pc # "idle" /\ op'[r].changes = op[r].changes
         /\ tracker' \subseteq tracker \cup {r}
<1>1. Asked(r) /\ DOMAIN op = Reqs
  BY DEF TeamInv, OpShape, RequestsSound, Sound
<1>2. ASSUME NEW x, Move(r, x)
      PROVE  /\ DOMAIN op' = Reqs /\ \A p \in Reqs \ {r} : op'[p] = op[p]
             /\ op'[r].pc = x /\ op'[r].changes = op[r].changes
  BY <1>1, <1>2 DEF Move, Asked
<1>3. CASE ReadFails(r)
  BY <1>2, <1>3 DEF ReadFails, Quiet
<1>4. CASE Declare(r)
  BY <1>1, <1>4 DEF Declare, Quiet, At, Asked
<1>5. CASE AskAdmin(r)
  <2>1. \E x \in {"edit", "commit", "refused", "known", "owned"} : Move(r, x)
    BY <1>5 DEF AskAdmin, Write
  <2> QED BY <1>2, <1>5, <2>1 DEF AskAdmin, Quiet, At
<1>6. CASE Owned(r)
  <2>1. \E x \in {"refused", "known"} : Move(r, x)
    BY <1>6 DEF Owned
  <2> QED BY <1>2, <1>6, <2>1 DEF Owned, Quiet, At
<1>7. CASE Known(r)
  <2>1. \E x \in {"edit", "commit", "refused"} : Move(r, x)
    BY <1>7 DEF Known, Write
  <2> QED BY <1>2, <1>7, <2>1 DEF Known, Quiet, At
<1>8. CASE Edit(r)
  <2>1. op' = [op EXCEPT ![r].i = op[r].i + 1, ![r].pc = AfterEdit(r)]
    BY <1>8 DEF Edit
  <2>2. /\ DOMAIN op' = Reqs /\ \A p \in Reqs \ {r} : op'[p] = op[p]
        /\ op'[r] = [op[r] EXCEPT !.i = op[r].i + 1, !.pc = AfterEdit(r)]
    BY <1>1, <2>1
  <2>3. op'[r].pc \in {"apply", "edit"} /\ op'[r].changes = op[r].changes
    BY <1>1, <2>2 DEF Asked, AfterEdit
  <2> QED BY <1>8, <2>2, <2>3 DEF Edit, At
<1>9. CASE WriteFails(r)
  BY <1>2, <1>9 DEF WriteFails, Quiet
<1>10. CASE Apply(r)
  BY <1>2, <1>10 DEF Apply, Done, At
<1>11. CASE Commit(r)
  BY <1>2, <1>11 DEF Commit, Done, At
<1> QED BY <1>3, <1>4, <1>5, <1>6, <1>7, <1>8, <1>9, <1>10, <1>11 DEF ReqStep

\* Every step of a request keeps what is known of it.
LEMMA RequestStays ==
  ASSUME TeamInv, Remember, local' = local, NEW r \in Reqs, ReqStep(r)
  PROVE  Sound(r)'
<1>1. ASSUME NEW x \in {"ok", "failed", "refused"}, Move(r, x), op[r].pc # "idle"
      PROVE  Sound(r)'
  <2>1. op'[r] = [op[r] EXCEPT !.pc = x]
    BY <1>1 DEF Move, TeamInv, OpShape
  <2> QED BY <1>1, <2>1, EndsSound
<1>2. CASE ReadFails(r) \/ WriteFails(r) \/ Apply(r) \/ Commit(r)
  <2>1. op[r].pc # "idle"
    BY <1>2, OneRequestMoves
  <2>2. Move(r, "failed") \/ Move(r, "ok")
    BY <1>2 DEF ReadFails, WriteFails, Apply, Commit, Done
  <2> QED BY <1>1, <2>1, <2>2
<1> QED BY <1>2, DeclareSound, AskAdminSound, OwnedSound, EditSound DEF ReqStep

\* A restart fails what is under way and touches nothing else of a request.
LEMMA RestartSound ==
  ASSUME TeamInv, Remember, local' = local, Restart
  PROVE  /\ DOMAIN op' = Reqs
         /\ \A r \in Reqs : /\ op[r].pc # "idle" => op'[r].pc # "idle"
                            /\ op'[r].changes = op[r].changes /\ Sound(r)'
<1> SUFFICES ASSUME NEW r \in Reqs
             PROVE  /\ op[r].pc # "idle" => op'[r].pc # "idle"
                    /\ op'[r].changes = op[r].changes /\ Sound(r)'
  BY DEF Restart
<1>1. Asked(r)
  BY DEF TeamInv, RequestsSound, Sound
<1>2. \/ op'[r] = op[r]
      \/ op[r].pc # "idle" /\ op'[r] = [op[r] EXCEPT !.pc = "failed"]
  BY DEF Restart
<1>3. CASE op'[r] = op[r]
  BY <1>3, OthersStaySound
<1>4. CASE op[r].pc # "idle" /\ op'[r] = [op[r] EXCEPT !.pc = "failed"]
  BY <1>1, <1>4, EndsSound DEF Asked
<1> QED BY <1>2, <1>3, <1>4

\* All requests, whatever step is taken; none forgets its changes.
LEMMA RequestsKept ==
  ASSUME TeamInv, Step, Remember, local' = local
  PROVE  /\ DOMAIN op' = Reqs /\ RequestsSound'
         /\ \A r \in Reqs : op[r].pc # "idle" =>
               op'[r].pc # "idle" /\ op'[r].changes = op[r].changes
<1> USE DEF RequestsSound
<1>1. DOMAIN op = Reqs
  BY DEF TeamInv, OpShape
<1>2. CASE op' = op
  BY <1>1, <1>2, OthersStaySound
<1>3. ASSUME NEW r \in Reqs, ReqStep(r)
      PROVE  /\ DOMAIN op' = Reqs /\ RequestsSound'
             /\ \A p \in Reqs : op[p].pc # "idle" =>
                   op'[p].pc # "idle" /\ op'[p].changes = op[p].changes
  BY <1>3, OneRequestMoves, RequestStays, OthersStaySound
<1>4. ASSUME NEW r \in Reqs, NEW ask \in left.calls[r],
             Submit(r, ask.actor, ask.batch, ask.changes)
      PROVE  /\ DOMAIN op' = Reqs /\ RequestsSound'
             /\ \A p \in Reqs : op[p].pc # "idle" =>
                   op'[p].pc # "idle" /\ op'[p].changes = op[p].changes
  <2>1. /\ DOMAIN op' = Reqs /\ op[r].pc = "idle"
        /\ \A p \in Reqs \ {r} : op'[p] = op[p]
    BY <1>1, <1>4 DEF Submit, At
  <2>2. Sound(r)'
    BY <1>4, SubmitSound
  <2> QED BY <2>1, <2>2, OthersStaySound
<1>5. CASE Restart
  BY <1>5, RestartSound
<1>6. ASSUME NEW w \in Watchers, WatchStep(w) \/ \E r \in Reqs : Follow(w, r)
      PROVE  op' = op
  BY <1>6 DEF WatchStep, Look, LookAgain, LookNoMore, Follow, requests
<1> QED BY <1>2, <1>3, <1>4, <1>5, <1>6, TeamSteps DEF Outside

\* A change that the group table shows now is in the history of the stream.
LEMMA HeldGrows ==
  ASSUME Remember, NEW w \in Watchers, watch'[w].pc # "idle",
         NEW j \in DOMAIN op[watch'[w].id].changes
  PROVE  /\ j \in held[w] => j \in held'[w]
         /\ LET c == op[watch'[w].id].changes[j] IN
            Says(c, sys.members[c.team]) => j \in held'[w]
<1>1. held'[w] = held[w] \cup {i \in DOMAIN op[watch'[w].id].changes :
                    LET c == op[watch'[w].id].changes[i]
                    IN  \E s \in {sys, sys'} : (c.user \in s.members[c.team]) = c.member}
  BY DEF Remember
<1> QED BY <1>1 DEF Says

\* A stream that goes on with what it has looked at.
LEMMA StillWatched ==
  ASSUME TeamInv, Remember, NEW w \in Watchers,
         \A r \in Reqs : op[r].pc # "idle" =>
            op'[r].pc # "idle" /\ op'[r].changes = op[r].changes,
         watch'[w] = watch[w] \/ watch'[w] = [watch[w] EXCEPT !.pc = "ended"],
         watch[w].pc # "idle" \/ watch'[w] = watch[w]
  PROVE  Watched(w)'
<1>1. Watched(w)
  BY DEF TeamInv, StreamsSound
<1>2. CASE watch[w].pc = "idle"
  BY <1>1, <1>2 DEF Watched
<1>3. CASE watch[w].pc # "idle"
  <2>1. /\ watch'[w].id = watch[w].id /\ watch'[w].i = watch[w].i
        /\ watch'[w].seen = watch[w].seen /\ watch'[w].missed = watch[w].missed
        /\ DOMAIN watch'[w] = DOMAIN watch[w]
        /\ watch'[w].pc \in {watch[w].pc, "ended"}
    BY <1>1 DEF Watched
  <2>2. /\ watch[w].id \in Reqs /\ op[watch[w].id].pc # "idle"
        /\ Asked(watch[w].id)
    BY <1>1, <1>3 DEF Watched, TeamInv, RequestsSound, Sound
  <2>3. /\ op'[watch'[w].id].pc # "idle"
        /\ Changes(w)' = Changes(w) /\ op[watch'[w].id].changes = Changes(w)
    BY <2>1, <2>2 DEF Changes
  <2>4. \A j \in DOMAIN Changes(w) : j \in held[w] => j \in held'[w]
    BY <1>3, <2>1, <2>3, HeldGrows
  <2>5. DOMAIN Changes(w) = 1 .. Len(Changes(w)) /\ Len(Changes(w)) \in Nat
    BY <2>2 DEF Asked, Changes
  <2>6. \A j \in 1 .. Len(Changes(w)) : Seen(w, j) => Seen(w, j)'
    BY <2>1, <2>3, <2>4, <2>5 DEF Seen
  <2>7. watch'[w].pc = "look" =>
          /\ watch'[w].i \in 1 .. Len(Changes(w)')
          /\ \A j \in 1 .. watch'[w].i - 1 : Seen(w, j)'
    BY <1>1, <2>1, <2>3, <2>5, <2>6 DEF Watched
  <2>8. watch'[w].pc = "applied" => \A j \in 1 .. Len(Changes(w)') : Seen(w, j)'
    BY <1>1, <2>1, <2>3, <2>6 DEF Watched
  <2>9. \A j \in DOMAIN Changes(w)' :
           LET c == Changes(w)[j] IN
           c.team \in DOMAIN watch'[w].seen \ watch'[w].missed =>
               (Says(c, watch'[w].seen[c.team]) => j \in held'[w])
    BY <1>1, <1>3, <2>1, <2>3, <2>4 DEF Watched
  <2> QED BY <1>1, <2>1, <2>2, <2>3, <2>7, <2>8, <2>9 DEF Watched
<1> QED BY <1>2, <1>3

\* A look that begins has seen nothing.
LEMMA StartsWatched ==
  ASSUME TeamInv, Remember, op' = op, NEW w \in Watchers, NEW r \in Reqs,
         op[r].pc # "idle",
         watch'[w] = [IdleWatch EXCEPT !.pc = "look", !.id = r]
  PROVE  Watched(w)'
<1>1. /\ DOMAIN watch'[w] = {"pc", "id", "i", "seen", "missed"}
      /\ watch'[w].pc = "look" /\ watch'[w].id = r /\ watch'[w].i = 1
      /\ watch'[w].seen = <<>> /\ DOMAIN watch'[w].seen = {}
  BY DEF IdleWatch
<1>2. Len(op[r].changes) \in Nat /\ Len(op[r].changes) > 0
  BY DEF TeamInv, RequestsSound, Sound, Asked
<1>3. Changes(w)' = op[r].changes
  BY <1>1 DEF Changes
<1> QED BY <1>1, <1>2, <1>3 DEF Watched

\* One change looked at: what was read once in this look is what is gone by.
LEMMA LookWatched ==
  ASSUME TeamInv, Remember, op' = op, NEW w \in Watchers, Look(w)
  PROVE  Watched(w)'
<1> DEFINE s == watch[w]
           n == Len(Changes(w))
           c == Changes(w)[s.i]
<1>1. Watched(w) /\ s.pc = "look" /\ DOMAIN watch = Watchers
  BY DEF TeamInv, OpShape, StreamsSound, Look
<1>2. /\ s.id \in Reqs /\ Asked(s.id) /\ op[s.id].pc # "idle"
      /\ s.i \in 1 .. n
  BY <1>1 DEF Watched, TeamInv, RequestsSound, Sound
<1>3. n \in Nat /\ DOMAIN Changes(w) = 1 .. n
  BY <1>2 DEF Asked, Changes
<1>4. PICK ms \in IF c.team \in DOMAIN s.seen THEN {s.seen[c.team]}
                  ELSE {sys.members[c.team], {}} :
         watch' = [watch EXCEPT ![w] =
            [s EXCEPT !.pc = IF Says(c, ms) THEN NextLook(w) ELSE "wait",
                      !.i = s.i + 1,
                      !.seen = [g \in DOMAIN s.seen \cup {c.team} |->
                                   IF g = c.team THEN ms ELSE s.seen[g]],
                      !.missed = IF ms # sys.members[c.team]
                                    /\ c.team \notin DOMAIN s.seen
                                 THEN s.missed \cup {c.team} ELSE s.missed]]
  BY DEF Look
<1> DEFINE t == watch'[w]
<1>5. /\ DOMAIN t = {"pc", "id", "i", "seen", "missed"}
      /\ t.pc = (IF Says(c, ms) THEN NextLook(w) ELSE "wait")
      /\ t.id = s.id /\ t.i = s.i + 1
      /\ t.seen = [g \in DOMAIN s.seen \cup {c.team} |-> IF g = c.team THEN ms ELSE s.seen[g]]
      /\ t.missed = IF ms # sys.members[c.team] /\ c.team \notin DOMAIN s.seen
                    THEN s.missed \cup {c.team} ELSE s.missed
  <2> HIDE DEF c
  <2> QED BY <1>1, <1>4 DEF Watched
<1>6. t.pc # "idle" /\ Changes(w)' = Changes(w) /\ op[t.id].changes = Changes(w)
  <2>1. t.pc \in {"applied", "look", "wait"}
    <3> HIDE DEF c
    <3> QED BY <1>5 DEF NextLook
  <2> QED BY <1>5, <2>1 DEF Changes
<1>7. ASSUME NEW j \in 1 .. n
      PROVE  /\ j \in held[w] => j \in held'[w]
             /\ Says(Changes(w)[j], sys.members[Changes(w)[j].team]) => j \in held'[w]
  <2>1. j \in DOMAIN op[watch'[w].id].changes
    BY <1>3, <1>6
  <2> QED BY <1>6, <2>1, HeldGrows
<1>8. ASSUME NEW j \in 1 .. n, Changes(w)[j].team \in DOMAIN t.seen \ t.missed,
             Says(Changes(w)[j], t.seen[Changes(w)[j].team])
      PROVE  j \in held'[w]
  <2> DEFINE e == Changes(w)[j]
  <2> HIDE DEF c, e
  <2>0. e.team \in DOMAIN t.seen \ t.missed /\ Says(e, t.seen[e.team])
    BY <1>8 DEF e
  <2>1. CASE e.team \in DOMAIN s.seen
    <3>1. t.seen[e.team] = s.seen[e.team]
      BY <1>4, <1>5, <2>1
    <3>2. e.team \notin s.missed
      BY <1>5, <2>0
    <3>3. j \in held[w]
      BY <1>1, <1>3, <2>0, <2>1, <3>1, <3>2 DEF Watched, e
    <3> QED BY <1>7, <3>3
  <2>2. CASE e.team \notin DOMAIN s.seen
    <3>1. e.team = c.team /\ t.seen[e.team] = ms
      BY <1>5, <2>0, <2>2
    <3>2. ms = sys.members[c.team]
      BY <1>5, <2>0, <2>2, <3>1
    <3>3. Says(e, sys.members[e.team])
      BY <2>0, <3>1, <3>2
    <3> QED BY <1>7, <3>3 DEF e
  <2> QED BY <2>1, <2>2
<1>9. ASSUME NEW j \in 1 .. n, Seen(w, j)
      PROVE  Seen(w, j)'
  <2>1. s.missed \subseteq t.missed
    <3> HIDE DEF c
    <3> QED BY <1>5
  <2> QED BY <1>6, <1>7, <1>9, <2>1 DEF Seen
<1>10. ASSUME Says(c, ms), NEW j, j = s.i
       PROVE  Seen(w, j)'
  <2>1. Changes(w)[j] = c /\ j \in 1 .. n
    BY <1>2, <1>10
  <2> HIDE DEF c
  <2>2. c.team \in DOMAIN t.seen /\ t.seen[c.team] = ms
    BY <1>5
  <2>3. CASE c.team \in t.missed
    BY <1>6, <2>1, <2>3 DEF Seen
  <2>4. CASE c.team \notin t.missed
    BY <1>8, <1>10, <2>1, <2>2, <2>4 DEF Seen
  <2> QED BY <2>3, <2>4
<1>11. ASSUME Says(c, ms), NEW j \in 1 .. s.i
       PROVE  Seen(w, j)'
  <2>1. CASE j = s.i
    BY <1>10, <1>11, <2>1
  <2>2. CASE j \in 1 .. s.i - 1
    BY <1>1, <1>2, <1>3, <1>9, <2>2 DEF Watched
  <2> QED BY <1>2, <1>3, <2>1, <2>2
<1>12. t.pc \in {"look", "applied"} =>
          /\ Says(c, ms)
          /\ t.pc = (IF s.i = n THEN "applied" ELSE "look")
  <2> HIDE DEF c
  <2> QED BY <1>5 DEF NextLook
<1> HIDE DEF c
<1>13. t.pc = "look" => t.i \in 1 .. n /\ \A j \in 1 .. t.i - 1 : Seen(w, j)'
  BY <1>2, <1>3, <1>5, <1>11, <1>12
<1>14. t.pc = "applied" => \A j \in 1 .. n : Seen(w, j)'
  BY <1>2, <1>3, <1>11, <1>12
<1>15. \A j \in DOMAIN Changes(w)' :
          LET e == Changes(w)[j] IN
          e.team \in DOMAIN t.seen \ t.missed => (Says(e, t.seen[e.team]) => j \in held'[w])
  BY <1>3, <1>6, <1>8
<1> QED BY <1>2, <1>5, <1>6, <1>13, <1>14, <1>15 DEF Watched

\* All streams, whatever step is taken.
LEMMA StreamsKept ==
  ASSUME TeamInv, Step, Remember, local' = local
  PROVE  DOMAIN watch' = Watchers /\ StreamsSound'
<1> USE DEF StreamsSound
<1>1. /\ DOMAIN watch = Watchers
      /\ \A r \in Reqs : op[r].pc # "idle" =>
            op'[r].pc # "idle" /\ op'[r].changes = op[r].changes
  BY RequestsKept DEF TeamInv, OpShape
<1>2. CASE watch' = watch
  BY <1>1, <1>2, StillWatched
<1>3. CASE Restart
  <2>1. \A w \in Watchers : \/ watch'[w] = watch[w]
                            \/ /\ watch[w].pc # "idle"
                               /\ watch'[w] = [watch[w] EXCEPT !.pc = "ended"]
    BY <1>3 DEF Restart
  <2>2. DOMAIN watch' = Watchers
    BY <1>3 DEF Restart
  <2> QED BY <1>1, <2>1, <2>2, StillWatched
<1>4. ASSUME NEW w \in Watchers, WatchStep(w)
      PROVE  DOMAIN watch' = Watchers /\ StreamsSound'
  <2>1. /\ op' = op /\ DOMAIN watch' = Watchers
        /\ \A v \in Watchers \ {w} : watch'[v] = watch[v]
    BY <1>1, <1>4 DEF WatchStep, Look, LookAgain, LookNoMore, requests
  <2>2. Watched(w) /\ (watch[w].pc # "idle" =>
           watch[w].id \in Reqs /\ op[watch[w].id].pc # "idle")
    BY DEF TeamInv, Watched
  <2>3. ASSUME Look(w) PROVE Watched(w)'
    BY <2>1, <2>3, LookWatched
  <2>4. ASSUME LookAgain(w) PROVE Watched(w)'
    <3>1. /\ watch'[w] = [IdleWatch EXCEPT !.pc = "look", !.id = watch[w].id]
          /\ watch[w].pc # "idle"
      BY <1>1, <2>4 DEF LookAgain
    <3> QED BY <2>1, <2>2, <3>1, StartsWatched
  <2>5. ASSUME LookNoMore(w) PROVE Watched(w)'
    <3>1. /\ watch'[w] = [watch[w] EXCEPT !.pc = "ended"]
          /\ watch[w].pc # "idle"
      BY <1>1, <2>5 DEF LookNoMore
    <3> QED BY <1>1, <3>1, StillWatched
  <2> QED BY <1>1, <1>4, <2>1, <2>3, <2>4, <2>5, StillWatched DEF WatchStep
<1>5. ASSUME NEW w \in Watchers, NEW r \in Reqs, Follow(w, r)
      PROVE  DOMAIN watch' = Watchers /\ StreamsSound'
  <2>1. /\ op' = op /\ DOMAIN watch' = Watchers
        /\ \A v \in Watchers \ {w} : watch'[v] = watch[v]
        /\ watch'[w] = [IdleWatch EXCEPT !.pc = "look", !.id = r]
    BY <1>1, <1>5 DEF Follow, requests
  <2>2. op[r].pc # "idle"
    BY <1>5 DEF Follow, TeamInv, TeamTypes
  <2> QED BY <1>1, <2>1, <2>2, StartsWatched, StillWatched
<1>6. ASSUME NEW r \in Reqs, ReqStep(r) \/ \E ask \in left.calls[r] :
                Submit(r, ask.actor, ask.batch, ask.changes)
      PROVE  watch' = watch
  BY <1>6, OneRequestMoves DEF Submit, Quiet
<1> QED BY <1>2, <1>3, <1>4, <1>5, <1>6, TeamSteps DEF Outside

\* Nothing changes what a scene says but its budgets.
LEMMA SceneStays ==
  ASSUME SceneKept, Step
  PROVE  SceneKept'
<1>1. \A what \in {"edits", "admins", "follows", "visits", "links", "fetches", "restarts",
                   "ticks", "logins", "callbacks", "forms", "changes"} :
         Use(what) => SceneKept'
  BY DEF Use, SceneKept
<1>2. left' = left => SceneKept'
  BY DEF SceneKept
<1> HIDE DEF SceneKept
<1> QED
  BY <1>1, <1>2 DEF Step, Operators, Owners, Streams, Files, SigningIn, SweepSSO, Tick, Restart

\* The roster, the group table and the tracker keep their shape.
LEMMA TypesKept ==
  ASSUME TeamInv, Step, Remember, local' = local
  PROVE  TeamTypes'
<1> USE DEF TeamInv
<1>1. tracker' \subseteq {r \in Reqs : op'[r].pc # "idle"}
  <2>1. \A r \in Reqs : op[r].pc # "idle" => op'[r].pc # "idle"
    BY RequestsKept
  <2>2. ASSUME NEW r \in Reqs, ReqStep(r)
        PROVE  tracker' \subseteq tracker \cup {r} /\ op'[r].pc # "idle"
    BY <2>2, OneRequestMoves
  <2>3. /\ \A r \in Reqs : \A ask \in left.calls[r] :
              Submit(r, ask.actor, ask.batch, ask.changes) => tracker' = tracker
        /\ \A w \in Watchers : WatchStep(w) => tracker' = tracker
        /\ \A w \in Watchers, r \in Reqs : Follow(w, r) => tracker' = tracker
        /\ Restart => tracker' = {}
    BY DEF Submit, WatchStep, Look, LookAgain, LookNoMore, Follow, requests, Restart
  <2> QED BY <2>1, <2>2, <2>3, TeamSteps DEF Outside, TeamTypes
<1>2. Shaped(roster')
  <2>1. \A d \in Rosters : Shaped(d)
    BY TeamsConstants DEF Shaped, RosterRecords
  <2>2. ASSUME NEW r \in Reqs, Edit(r)
        PROVE  Shaped(roster')
    <3> DEFINE c == op[r].changes[op[r].i]
    <3>1. roster' = Member(roster, c)
      BY <2>2 DEF Edit
    <3> HIDE DEF c
    <3> QED BY <3>1 DEF Member, Shaped, TeamTypes
  <2>3. ASSUME NEW r \in Reqs, Commit(r)
        PROVE  Shaped(roster')
    <3>1. op[r].changes \in Seq(Membership)
      BY DEF RequestsSound, Sound, Asked
    <3>2. \A j \in 1 .. Len(op[r].changes) : op[r].changes[j].team \in Declared(roster)
      BY <2>3, <3>1 DEF Commit, Range
    <3>3. {"users", "members"} \subseteq DOMAIN roster
      BY DEF TeamTypes, Shaped
    <3>4. roster' = MemberAll(roster, op[r].changes)
      BY <2>3 DEF Commit
    <3>5. DOMAIN roster' = DOMAIN roster /\ roster'.users = roster.users
      BY <3>1, <3>2, <3>3, <3>4, BatchLands
    <3> QED BY <3>5 DEF TeamTypes, Shaped
  <2>4. ASSUME NEW r \in Reqs, ReqStep(r), ~Edit(r), ~Commit(r)
        PROVE  roster' = roster
    BY <2>4 DEF ReqStep, ReadFails, Declare, AskAdmin, Owned, Known, WriteFails, Apply, Quiet
  <2>5. /\ \A r \in Reqs : \A ask \in left.calls[r] :
              Submit(r, ask.actor, ask.batch, ask.changes) => roster' = roster
        /\ \A w \in Watchers : WatchStep(w) => roster' = roster
        /\ \A w \in Watchers, r \in Reqs : Follow(w, r) => roster' = roster
        /\ Restart => roster' = roster
    BY DEF Submit, Quiet, WatchStep, Look, LookAgain, LookNoMore, Follow, Restart
  <2>6. Shaped(roster)
    BY DEF TeamTypes
  <2> QED BY <2>1, <2>2, <2>3, <2>4, <2>5, <2>6, TeamSteps DEF Outside
<1>3. {"members", "views", "anonymous"} \subseteq DOMAIN sys' /\ DOMAIN sys'.members = Groups
  <2>1. sys' = Applied(roster) =>
           /\ {"members", "views", "anonymous"} \subseteq DOMAIN sys'
           /\ DOMAIN sys'.members = Groups
    BY DEF Applied
  <2>2. \A us : sys' = [sys EXCEPT !.members[AdminGroup] = us] =>
           /\ {"members", "views", "anonymous"} \subseteq DOMAIN sys'
           /\ DOMAIN sys'.members = Groups
    BY DEF TeamTypes
  <2>3. \A r \in Reqs : ReqStep(r) => sys' = sys \/ sys' = Applied(roster)
    BY DEF ReqStep, ReadFails, Declare, AskAdmin, Owned, Known, Edit, WriteFails, Apply,
       Commit, Quiet
  <2>4. /\ \A r \in Reqs : \A ask \in left.calls[r] :
              Submit(r, ask.actor, ask.batch, ask.changes) => sys' = sys
        /\ \A w \in Watchers : WatchStep(w) => sys' = sys
        /\ \A w \in Watchers, r \in Reqs : Follow(w, r) => sys' = sys
        /\ Restart => sys' = sys
    BY DEF Submit, Quiet, WatchStep, Look, LookAgain, LookNoMore, Follow, Restart
  <2>5. {"members", "views", "anonymous"} \subseteq DOMAIN sys /\ DOMAIN sys.members = Groups
    BY DEF TeamTypes
  <2> QED BY <2>1, <2>2, <2>3, <2>4, <2>5, TeamSteps DEF Outside
<1>4. local' \in BOOLEAN
  BY DEF TeamTypes
<1> QED BY <1>1, <1>2, <1>3, <1>4 DEF TeamTypes, Shaped

\* A process starts without requests and streams.
LEMMA TeamInvInit == Init => TeamInv
<1> SUFFICES ASSUME Init PROVE TeamInv
  OBVIOUS
<1>1. SceneKept
  BY SceneShape DEF Init, SceneKept
<1>2. OpShape
  BY DEF Init, TeamsInit, OpShape
<1>3. TeamTypes
  BY TeamsConstants DEF Init, TeamsInit, TeamTypes, Shaped, RosterRecords, IdleReq
<1>4. RequestsSound
  <2> SUFFICES ASSUME NEW r \in Reqs PROVE Sound(r)
    BY DEF RequestsSound
  <2>1. /\ op[r].pc = "idle" /\ op[r].changes = <<>> /\ op[r].i = 1
        /\ DOMAIN op[r] = {"pc", "batch", "actor", "changes", "decl", "i"}
    BY DEF Init, TeamsInit, IdleReq
  <2>2. Len(op[r].changes) = 0 /\ op[r].changes \in Seq(Membership)
    BY <2>1
  <2> QED BY <2>1, <2>2 DEF Sound, Asked, Permitted, Landed
<1>5. StreamsSound
  BY DEF Init, TeamsInit, StreamsSound, Watched, IdleWatch
<1> QED BY <1>1, <1>2, <1>3, <1>4, <1>5 DEF TeamInv

\* No step of the process breaks it.
LEMMA TeamInvStep == TeamInv /\ [Next]_vars => TeamInv'
<1> SUFFICES ASSUME TeamInv, [Next]_vars PROVE TeamInv'
  OBVIOUS
<1>1. CASE Step /\ Remember /\ local' = local
  BY <1>1, SceneStays, TypesKept, RequestsKept, StreamsKept DEF TeamInv, OpShape
<1>2. CASE UNCHANGED vars
  <2>1. UNCHANGED <<roster, sys, local, op, tracker, watch, may, over, held, left>>
    BY <1>2 DEF vars
  <2>2. SceneKept' /\ OpShape' /\ TeamTypes'
    BY <2>1 DEF TeamInv, SceneKept, OpShape, TeamTypes, Shaped
  <2>3. ASSUME NEW r \in Reqs PROVE Sound(r)'
    <3>1. Asked(r)' /\ Permitted(r)'
      BY <2>1 DEF TeamInv, RequestsSound, Sound, Asked, Permitted, Owns, Declared
    <3>2. Landed(r)'
      BY <2>1 DEF TeamInv, RequestsSound, Sound, Landed, Stands, Pair, Declared
    <3> QED BY <3>1, <3>2 DEF Sound
  <2>4. ASSUME NEW w \in Watchers PROVE Watched(w)'
    BY <2>1 DEF TeamInv, StreamsSound, Watched, Seen, Changes
  <2> QED BY <2>2, <2>3, <2>4 DEF TeamInv, RequestsSound, StreamsSound
<1> QED BY <1>1, <1>2 DEF Next

\* What a request has asked, may do and has done so far, and what a stream has looked
\* at: the invariant the properties of teams follow from.
THEOREM TeamInvHolds == Spec => []TeamInv
BY TeamInvInit, TeamInvStep, PTL DEF Spec

\* A stream says "applied" only of changes each of which the group table showed at some
\* moment since it was opened, however the table moved between two looks.
THEOREM AppliedIsSeen == Spec => []AppliedWasSeen
<1>1. TeamInv => AppliedWasSeen
  <2> SUFFICES ASSUME TeamInv, NEW w \in Watchers, watch[w].pc = "applied",
                      NEW j \in DOMAIN Changes(w)
               PROVE  Seen(w, j)
    BY DEF AppliedWasSeen, Seen
  <2>1. Watched(w) /\ watch[w].id \in Reqs
    BY DEF TeamInv, StreamsSound, Watched
  <2>2. j \in 1 .. Len(Changes(w))
    BY <2>1 DEF TeamInv, RequestsSound, Sound, Asked, Changes
  <2> QED BY <2>1, <2>2 DEF Watched
<1> QED BY <1>1, TeamInvHolds, PTL

\* Who edits the roster, and who answers with success.
LEMMA WhoWrites ==
  ASSUME TeamInv, Step, NEW r \in Reqs, op'[r] # op[r]
  PROVE  /\ roster' # roster => Edit(r) \/ Commit(r)
         /\ op[r].pc # "ok" /\ op'[r].pc = "ok" => Apply(r) \/ Commit(r)
<1>1. ASSUME NEW p \in Reqs, ReqStep(p)
      PROVE  ReqStep(r)
  BY <1>1, OneRequestMoves
<1>2. ASSUME ReqStep(r), roster' # roster
      PROVE  Edit(r) \/ Commit(r)
  BY <1>2 DEF ReqStep, ReadFails, Declare, AskAdmin, Owned, Known, WriteFails, Apply, Quiet
<1>3. ASSUME ReqStep(r), op'[r].pc = "ok"
      PROVE  Apply(r) \/ Commit(r)
  <2>1. Asked(r) /\ DOMAIN op = Reqs
    BY DEF TeamInv, OpShape, RequestsSound, Sound
  <2>2. \A x : Move(r, x) => op'[r].pc = x
    BY <2>1 DEF Move, Asked
  <2>3. ~ReadFails(r) /\ ~WriteFails(r)
    BY <1>3, <2>2 DEF ReadFails, WriteFails
  <2>4. ~Declare(r)
    BY <1>3, <2>1 DEF Declare, Asked
  <2>5. ~AskAdmin(r)
    <3>1. AskAdmin(r) => \E x \in {"edit", "commit", "refused", "known", "owned"} : Move(r, x)
      BY DEF AskAdmin, Write
    <3> QED BY <1>3, <2>2, <3>1
  <2>6. ~Owned(r)
    <3>1. Owned(r) => \E x \in {"refused", "known"} : Move(r, x)
      BY DEF Owned
    <3> QED BY <1>3, <2>2, <3>1
  <2>7. ~Known(r)
    <3>1. Known(r) => \E x \in {"edit", "commit", "refused"} : Move(r, x)
      BY DEF Known, Write
    <3> QED BY <1>3, <2>2, <3>1
  <2>8. ~Edit(r)
    <3>1. ASSUME Edit(r) PROVE op'[r] = [op[r] EXCEPT !.i = op[r].i + 1, !.pc = AfterEdit(r)]
      BY <2>1, <3>1 DEF Edit
    <3>2. AfterEdit(r) # "ok"
      BY DEF AfterEdit
    <3> QED BY <1>3, <2>1, <3>1, <3>2 DEF Asked
  <2> QED BY <1>3, <2>3, <2>4, <2>5, <2>6, <2>7, <2>8 DEF ReqStep
<1>4. ASSUME NEW p \in Reqs, NEW ask \in left.calls[p],
             Submit(p, ask.actor, ask.batch, ask.changes)
      PROVE  roster' = roster /\ op'[r].pc # "ok"
  <2>1. p = r /\ DOMAIN op = Reqs
    BY <1>4 DEF Submit, TeamInv, OpShape
  <2>2. op'[r] = [IdleReq EXCEPT !.pc = IF ask.batch THEN "declare" ELSE "admin",
                     !.batch = ask.batch, !.actor = ask.actor, !.changes = ask.changes]
    BY <1>4, <2>1 DEF Submit
  <2> QED BY <1>4, <2>2 DEF Submit, Quiet, IdleReq
<1>5. ASSUME Restart
      PROVE  roster' = roster /\ (op'[r].pc = "ok" => op[r].pc = "ok")
  <2>1. Asked(r)
    BY DEF TeamInv, RequestsSound, Sound
  <2>2. op'[r] = op[r] \/ op'[r] = [op[r] EXCEPT !.pc = "failed"]
    BY <1>5 DEF Restart
  <2> QED BY <1>5, <2>1, <2>2 DEF Restart, Asked
<1>6. /\ \A w \in Watchers : WatchStep(w) => op' = op
      /\ \A w \in Watchers, p \in Reqs : Follow(w, p) => op' = op
      /\ Outside => op' = op
  BY DEF WatchStep, Look, LookAgain, LookNoMore, Follow, requests, Outside
<1> QED BY <1>1, <1>2, <1>3, <1>4, <1>5, <1>6, TeamSteps

\* A request writes to the roster only when its actor could manage every team it names,
\* each at some moment since it came, whatever has been edited meanwhile.
THEOREM ManagersOnly == Spec => OnlyManaged
<1> DEFINE Allowed == \A r \in Reqs :
               op'[r] # op[r] /\ roster' # roster =>
                  {c.team : c \in Range(op[r].changes)} \subseteq may[r]
<1>1. ASSUME TeamInv, [Next]_vars
      PROVE  [Allowed]_vars
  <2> SUFFICES ASSUME Step, NEW r \in Reqs, op'[r] # op[r], roster' # roster
               PROVE  {c.team : c \in Range(op[r].changes)} \subseteq may[r]
    BY <1>1 DEF Next
  <2>1. op[r].pc \in {"edit", "commit"}
    BY <1>1, WhoWrites DEF Edit, Commit, At
  <2>2. Asked(r) /\ Permitted(r)
    BY <1>1 DEF TeamInv, RequestsSound, Sound
  <2>3. \A j \in 1 .. Len(op[r].changes) : op[r].changes[j].team \in may[r]
    BY <2>1, <2>2 DEF Permitted
  <2>4. Range(op[r].changes) = {op[r].changes[j] : j \in 1 .. Len(op[r].changes)}
    BY <2>2 DEF Range, Asked
  <2> QED BY <2>3, <2>4
<1> QED BY <1>1, TeamInvHolds, PTL DEF Spec, OnlyManaged

\* `usersync apply` brings to the system what the edits of the batch have left.
LEMMA ApplyLands ==
  ASSUME TeamInv, NEW r \in Reqs, Apply(r), NEW j \in 1 .. Len(op[r].changes),
         \A k \in j + 1 .. Len(op[r].changes) : Pair(r, k) # Pair(r, j),
         Pair(r, j) \notin over[r]
  PROVE  LET c == op[r].changes[j] IN local /\ (c.user \in sys'.members[c.team]) = c.member
<1> DEFINE c == op[r].changes[j]
<1>1. /\ Asked(r) /\ Landed(r) /\ op[r].pc = "apply" /\ sys' = Applied(roster)
  BY DEF TeamInv, RequestsSound, Sound, Apply, At
<1>2. local /\ op[r].i = Len(op[r].changes) + 1 /\ Len(op[r].changes) \in Nat
  BY <1>1 DEF Asked
<1>3. Stands(r, j)
  BY <1>1, <1>2 DEF Landed
<1>4. c \in Membership
  BY <1>1 DEF Asked
<1>5. c.team \in Groups /\ c.team \in Declared(roster)
      /\ (c.user \in roster.members[c.team]) = c.member
  BY <1>3, <1>4 DEF Stands, Membership
<1> HIDE DEF c
<1>6. sys'.members[c.team] = roster.members[c.team]
  BY <1>1, <1>5 DEF Applied
<1>7. (c.user \in sys'.members[c.team]) = c.member
  BY <1>5, <1>6
<1> QED BY <1>2, <1>7 DEF c

\* A sidecar's commit is the whole batch at once.
LEMMA CommitLands ==
  ASSUME TeamInv, NEW r \in Reqs, Commit(r), NEW j \in 1 .. Len(op[r].changes),
         \A k \in j + 1 .. Len(op[r].changes) : Pair(r, k) # Pair(r, j)
  PROVE  LET c == op[r].changes[j] IN ~local /\ (c.user \in roster'.members[c.team]) = c.member
<1>1. Asked(r) /\ op[r].pc = "commit" /\ {"users", "members"} \subseteq DOMAIN roster
  BY DEF TeamInv, TeamTypes, Shaped, RequestsSound, Sound, Commit, At
<1>2. op[r].changes \in Seq(Membership) /\ ~local
  BY <1>1 DEF Asked
<1>3. \A i \in 1 .. Len(op[r].changes) : op[r].changes[i].team \in Declared(roster)
  BY <1>2 DEF Commit, Range
<1>4. roster' = MemberAll(roster, op[r].changes)
  BY DEF Commit
<1>5. \A k \in j + 1 .. Len(op[r].changes) :
         <<op[r].changes[k].team, op[r].changes[k].user>>
            # <<op[r].changes[j].team, op[r].changes[j].user>>
  BY DEF Pair
<1> QED BY <1>1, <1>2, <1>3, <1>4, <1>5, BatchLands

\* A request is answered with success only when the last change it asked for of each
\* membership is made: in the system where darak applies it, in the source where a
\* sidecar commits it; except what someone else has changed since.
THEOREM SuccessLands == Spec => SuccessIsLanded
<1> DEFINE Made(r, c) == \/ <<c.team, c.user>> \in over[r]
                         \/ LET ms == IF local THEN sys'.members[c.team]
                                      ELSE roster'.members[c.team]
                            IN  (c.user \in ms) = c.member
           AllMade == \A r \in Reqs :
               op[r].pc # "ok" /\ op'[r].pc = "ok" => \A c \in Wanted(r) : Made(r, c)
<1>1. ASSUME TeamInv, [Next]_vars
      PROVE  [AllMade]_vars
  <2> SUFFICES ASSUME Step, NEW r \in Reqs, op[r].pc # "ok", op'[r].pc = "ok",
                      NEW c \in Wanted(r)
               PROVE  Made(r, c)
    BY <1>1 DEF Next
  <2>1. Apply(r) \/ Commit(r)
    BY <1>1, WhoWrites
  <2>2. op[r].changes \in Seq(Membership)
    BY <1>1 DEF TeamInv, RequestsSound, Sound, Asked
  <2>3. PICK j \in 1 .. Len(op[r].changes) :
           /\ c = op[r].changes[j]
           /\ \A k \in j + 1 .. Len(op[r].changes) : Pair(r, k) # Pair(r, j)
    BY <2>2 DEF Wanted, Pair
  <2>4. <<c.team, c.user>> = Pair(r, j)
    BY <2>3 DEF Pair
  <2>5. CASE Apply(r)
    BY <1>1, <2>3, <2>4, <2>5, ApplyLands
  <2>6. CASE Commit(r)
    BY <1>1, <2>3, <2>6, CommitLands
  <2> QED BY <2>1, <2>5, <2>6
<1> QED BY <1>1, TeamInvHolds, PTL DEF Spec, SuccessIsLanded

---------------------------------------------------------------------------
(* Links, and what is served by them.                                      *)

\* Links that stand were issued, to someone, until some time.
LinksSound ==
    /\ now \in 0 .. MaxNow /\ minted \subseteq Tokens /\ DOMAIN links = Tokens
    /\ \A k \in Tokens : links[k] # None =>
          k \in minted /\ links[k].owner \in Users /\ links[k].expires \in Int

FetchFields == {"pc", "token", "try", "link", "alive"}

\* A request for a link: what was found out about it at each of its steps.
Fetched(b) ==
    /\ DOMAIN fetch[b] = FetchFields
    /\ fetch[b].pc \in {"resolve", "cookie"} =>
          /\ fetch[b].token \in minted
          /\ Live(fetch[b].token) => fetch[b].alive
    /\ fetch[b].pc \in {"stat", "open"} =>
          /\ fetch[b].alive /\ fetch[b].link.owner \in Users
          /\ fetch[b].link.pw => fetch[b].token \in proved[b]

\* An unlock cookie is held only by a browser that gave the password of its link.
Unlocked == \A b \in Browsers : \A c \in jar[b] : c[1] \in proved[b]

FetchesSound ==
    /\ DOMAIN fetch = Browsers /\ DOMAIN jar = Browsers /\ DOMAIN proved = Browsers
    /\ Unlocked /\ \A b \in Browsers : Fetched(b)

\* A helper's groups are those of a group table that stood when they were read, or
\* of a later one; which stood when is known only where the past is kept.
CredsSound ==
    /\ DOMAIN creds = Users
    /\ left.keeps => \A u \in Users : creds[u] # None =>
          /\ creds[u].at \in 0 .. now
          /\ \E s \in {sys} \cup
                    {p.sys : p \in {p \in past : p.until \in creds[u].at .. now}} :
                creds[u].groups = GroupsOf(s, u)

LinkInv == SceneKept /\ LinksSound /\ FetchesSound /\ CredsSound

\* What a step may do to the links and to the requests for them.
LEMMA ShareSteps ==
  ASSUME LinkInv, Step
  PROVE  \/ web' = web /\ now' \in {now, now + 1} /\ now' <= MaxNow
         \/ /\ now' = now
            /\ \/ \E k \in Tokens, u \in left.who, g \in left.teams, pw \in BOOLEAN :
                  \E asked \in {0, MaxLifetime + 1} : CreateLink(k, u, g, asked, pw)
               \/ \E u \in Users, k \in Tokens : Revoke(u, k)
               \/ Sweep
               \/ \E b \in Browsers, k \in Tokens, try \in {"get", "right", "wrong"} :
                     Request(b, k, try)
               \/ \E b \in Browsers : FetchStep(b)
               \/ Restart
<1> USE ClockConstants DEF LinkInv, LinksSound
<1>1. CASE Operators BY <1>1 DEF Operators, shareVars, web
<1>2. CASE Owners BY <1>2 DEF Owners, shareVars, web
<1>3. CASE Streams BY <1>3 DEF Streams, shareVars, web
<1>4. CASE Files BY <1>4 DEF Files, Visit, web
<1>5. CASE SigningIn BY <1>5 DEF SigningIn, shareVars, web
<1>6. CASE SweepSSO BY <1>6 DEF SweepSSO, shareVars, web
<1>7. CASE Tick BY <1>7 DEF Tick, shareVars, web
<1>8. CASE Restart BY <1>8 DEF Restart
<1> QED BY <1>1, <1>2, <1>3, <1>4, <1>5, <1>6, <1>7, <1>8 DEF Step

\* No link comes back, and none that was issued changes: what was live stays so or is gone.
LinksShrink ==
    /\ DOMAIN links' = Tokens
    /\ \A k \in Tokens : links'[k] \in {links[k], None}

\* A token is issued once; a link that was issued stays as it was, or goes.
LEMMA LinksMove ==
  ASSUME LinkInv, Step
  PROVE  LinksSound' /\ minted \subseteq minted'
         /\ \A k \in minted : links'[k] \in {links[k], None}
<1> USE ClockConstants DEF LinkInv, LinksSound
<1>1. CASE web' = web /\ now' \in {now, now + 1} /\ now' <= MaxNow
  BY <1>1 DEF web
<1>2. ASSUME NEW k \in Tokens, NEW u \in left.who, NEW g, NEW pw,
             NEW asked \in {0, MaxLifetime + 1}, CreateLink(k, u, g, asked, pw), now' = now
      PROVE  LinksSound' /\ minted \subseteq minted'
             /\ \A j \in minted : links'[j] \in {links[j], None}
  <2> DEFINE l == [owner |-> u, team |-> g, pw |-> pw, expires |-> now + Lifetime(asked)]
  <2>1. l.owner \in Users /\ l.expires \in Int
    <3>1. Lifetime(asked) \in Int
      BY ShareConstants DEF Lifetime
    <3> QED BY <3>1 DEF SceneKept
  <2>2. /\ k \notin minted /\ minted' = minted \cup {k} /\ links' = [links EXCEPT ![k] = l]
    BY <1>2 DEF CreateLink
  <2> HIDE DEF l
  <2> QED BY <1>2, <2>1, <2>2
<1>3. ASSUME minted' = minted, now' = now, LinksShrink
      PROVE  LinksSound' /\ minted \subseteq minted'
             /\ \A j \in minted : links'[j] \in {links[j], None}
  BY <1>3 DEF LinksShrink
<1>4. ASSUME NEW u \in Users, NEW k \in Tokens, Revoke(u, k)
      PROVE  minted' = minted /\ LinksShrink
  BY <1>4 DEF Revoke, LinksShrink
<1>5. ASSUME Sweep \/ Restart
      PROVE  minted' = minted /\ LinksShrink
  BY <1>5 DEF Sweep, Restart, Unexpired, LinksShrink
<1>6. ASSUME NEW b \in Browsers, NEW k, NEW try, Request(b, k, try)
      PROVE  minted' = minted /\ LinksShrink
  BY <1>6 DEF Request, LinksShrink
<1>7. ASSUME NEW b \in Browsers, FetchStep(b)
      PROVE  minted' = minted /\ LinksShrink
  BY <1>7 DEF FetchStep, NoSuchLink, NeedsPassword, Unlock, Resolved, CookieOpens, ServeStep,
     LinksShrink
<1> HIDE DEF LinkInv, LinksSound
<1> QED BY <1>1, <1>2, <1>3, <1>4, <1>5, <1>6, <1>7, ShareSteps

\* A request that a step leaves alone stays sound: its link may be gone, not come back.
LEMMA FetchedStays ==
  ASSUME LinkInv, Step, LinksSound', NEW b \in Browsers, fetch'[b] = fetch[b],
         proved[b] \subseteq proved'[b]
  PROVE  Fetched(b)'
<1>1. minted \subseteq minted' /\ now <= now' /\ now \in Int /\ now' \in Int
  <2>1. now <= now'
    BY ClockConstants, ShareSteps DEF LinkInv, LinksSound
  <2> QED BY <2>1, LinksMove DEF LinkInv, LinksSound
<1>2. ASSUME NEW k \in minted, Live(k)'
      PROVE  Live(k)
  <2>1. links'[k] = links[k] /\ links[k] # None /\ ~(now' > links[k].expires)
    BY <1>2, LinksMove DEF Live, Expired
  <2>2. links[k].expires \in Int
    BY <2>1 DEF LinkInv, LinksSound
  <2> QED BY <1>1, <2>1, <2>2 DEF Live, Expired
<1>3. Fetched(b)
  BY DEF LinkInv, FetchesSound
<1>4. fetch[b].pc \in {"resolve", "cookie"} /\ Live(fetch[b].token)' => fetch[b].alive
  BY <1>2, <1>3 DEF Fetched
<1> QED BY <1>1, <1>3, <1>4 DEF Fetched

\* The request that a step moves.
LEMMA FetchedMoves ==
  ASSUME LinkInv, NEW b \in Browsers, FetchStep(b), now' = now
  PROVE  Fetched(b)'
<1>1. /\ DOMAIN fetch = Browsers /\ DOMAIN jar = Browsers /\ DOMAIN proved = Browsers
      /\ Fetched(b)
  BY DEF LinkInv, FetchesSound
<1> DEFINE k == fetch[b].token
<1>2. ASSUME fetch[b].pc = "resolve" \/ fetch[b].pc = "cookie"
      PROVE  /\ k \in minted /\ k \in Tokens /\ (Live(k) => fetch[b].alive)
             /\ links[k] # None => links[k].owner \in Users
  BY <1>1, <1>2 DEF Fetched, LinkInv, LinksSound
<1>3. CASE NoSuchLink(b)
  BY <1>1, <1>3 DEF NoSuchLink, FetchTo, Fetched, FetchFields
<1>4. CASE NeedsPassword(b)
  BY <1>1, <1>2, <1>4 DEF NeedsPassword, FetchTo, FetchAt, Fetched, FetchFields, Live, Expired
<1>5. CASE Unlock(b)
  BY <1>1, <1>5 DEF Unlock, FetchTo, Fetched, FetchFields
<1>6. CASE Resolved(b)
  BY <1>1, <1>2, <1>6 DEF Resolved, FetchAt, Fetched, FetchFields, Live
<1>7. CASE CookieOpens(b)
  <2>1. HasUnlock(b) => k \in proved[b]
    BY DEF HasUnlock, LinkInv, FetchesSound, Unlocked
  <2>2. CASE HasUnlock(b) /\ Live(k)
    <3>1. fetch'[b] = [fetch[b] EXCEPT !.pc = "stat", !.link = links[k]] /\ proved' = proved
      BY <1>1, <1>7, <2>2 DEF CookieOpens
    <3> QED BY <1>1, <1>2, <1>7, <2>1, <2>2, <3>1
               DEF CookieOpens, FetchAt, Fetched, FetchFields,
               Live
  <2>3. CASE ~(HasUnlock(b) /\ Live(k))
    <3>1. fetch'[b] = [fetch[b] EXCEPT !.pc = "refused", !.link = None]
      BY <1>1, <1>7, <2>3 DEF CookieOpens
    <3> QED BY <1>1, <3>1 DEF Fetched, FetchFields
  <2> QED BY <2>2, <2>3
<1>8. ASSUME NEW from \in {"stat", "open"}, NEW to \in {"open", "served"},
             ServeStep(b, from, to)
      PROVE  Fetched(b)'
  <2>1. proved' = proved /\ fetch[b].pc = from
        /\ \E x \in {"open", "served", "refused"} : fetch'[b] = [fetch[b] EXCEPT !.pc = x]
    BY <1>1, <1>8 DEF ServeStep, FetchTo, FetchAt
  <2> QED BY <1>1, <2>1 DEF Fetched, FetchFields
<1> QED BY <1>3, <1>4, <1>5, <1>6, <1>7, <1>8 DEF FetchStep

\* All browsers, whatever step is taken: a cookie is given for a password only.
LEMMA FetchesKept ==
  ASSUME LinkInv, Step
  PROVE  FetchesSound'
<1>0. /\ DOMAIN fetch = Browsers /\ DOMAIN jar = Browsers /\ DOMAIN proved = Browsers
      /\ Unlocked /\ LinksSound'
  BY LinksMove DEF LinkInv, FetchesSound
<1>1. CASE web' = web
  <2>1. fetch' = fetch /\ jar' = jar /\ proved' = proved
    BY <1>1 DEF web
  <2> QED BY <1>0, <2>1, FetchedStays DEF FetchesSound, Unlocked
<1>2. ASSUME UNCHANGED <<fetch, jar, proved>>
      PROVE  FetchesSound'
  BY <1>0, <1>2, FetchedStays DEF FetchesSound, Unlocked
<1>3. ASSUME NEW b \in Browsers, NEW k \in Tokens, NEW try, Request(b, k, try), now' = now
      PROVE  FetchesSound'
  <2>1. /\ fetch' = [fetch EXCEPT ![b] = [IdleFetch EXCEPT !.pc = "resolve", !.token = k,
                        !.try = try, !.alive = links[k] # None /\ now <= links[k].expires]]
        /\ k \in minted /\ UNCHANGED <<jar, proved, links, minted>>
    BY <1>3 DEF Request
  <2>2. Live(k) => links[k] # None /\ now <= links[k].expires
    BY DEF Live, Expired, LinkInv, LinksSound
  <2>3. Fetched(b)'
    BY <1>0, <1>3, <2>1, <2>2 DEF Fetched, FetchFields, IdleFetch, Live, Expired
  <2>4. \A c \in Browsers \ {b} : fetch'[c] = fetch[c]
    BY <2>1
  <2> QED BY <1>0, <2>1, <2>3, <2>4, FetchedStays DEF FetchesSound, Unlocked
<1>4. ASSUME NEW b \in Browsers, FetchStep(b), now' = now
      PROVE  FetchesSound'
  <2>1. /\ DOMAIN fetch' = Browsers /\ DOMAIN jar' = Browsers /\ DOMAIN proved' = Browsers
        /\ \A c \in Browsers \ {b} : fetch'[c] = fetch[c]
        /\ \A c \in Browsers : proved[c] \subseteq proved'[c]
        /\ Unlocked'
    BY <1>0, <1>4 DEF FetchStep, NoSuchLink, NeedsPassword, Unlock, Resolved, CookieOpens,
       ServeStep, FetchTo, Unlocked
  <2> QED BY <1>0, <1>4, <2>1, FetchedMoves, FetchedStays DEF FetchesSound
<1>5. CASE Restart
  <2>1. /\ DOMAIN fetch' = Browsers /\ UNCHANGED <<jar, proved>>
        /\ \A b \in Browsers : fetch'[b] \in {fetch[b], IdleFetch}
    BY <1>5 DEF Restart
  <2>2. \A b \in Browsers : fetch'[b] = IdleFetch => Fetched(b)'
    BY DEF Fetched, IdleFetch, FetchFields
  <2> QED BY <1>0, <2>1, <2>2, FetchedStays DEF FetchesSound, Unlocked
<1>6. /\ \A k, u, g, asked, pw :
            CreateLink(k, u, g, asked, pw) => UNCHANGED <<fetch, jar, proved>>
      /\ \A u, k : Revoke(u, k) => UNCHANGED <<fetch, jar, proved>>
      /\ Sweep => UNCHANGED <<fetch, jar, proved>>
  BY DEF CreateLink, Revoke, Sweep
<1> QED BY <1>1, <1>2, <1>3, <1>4, <1>5, <1>6, ShareSteps

\* What a helper's groups rest on: the group table when they were read.
LEMMA CredsMove ==
  ASSUME LinkInv, Step
  PROVE  \/ creds' = creds
         \/ creds' = [u \in Users |-> None]
         \/ /\ now' = now /\ sys' = sys
            /\ \E u \in Users :
                  creds' = [creds EXCEPT ![u] = [groups |-> GroupsOf(sys, u), at |-> now]]
<1> DEFINE Read == \E u \in Users :
               creds' = [creds EXCEPT ![u] = [groups |-> GroupsOf(sys, u), at |-> now]]
<1>1. ASSUME NEW u \in Users, NEW g, NEW ok, Operation(u, g, ok)
      PROVE  sys' = sys /\ (creds' = creds \/ Read)
  BY <1>1 DEF Operation, Identified, Acquire
<1> HIDE DEF Read
<1>2. CASE Files
  <2>1. ASSUME NEW u \in left.who, NEW g, Visit(u, g)
        PROVE  sys' = sys /\ (creds' = creds \/ Read)
    BY <1>1, <2>1 DEF Visit, LinkInv, SceneKept
  <2>2. ASSUME NEW k, NEW u \in left.who, NEW g, NEW asked, NEW pw,
               CreateLink(k, u, g, asked, pw)
        PROVE  sys' = sys /\ (creds' = creds \/ Read)
    BY <1>1, <2>2 DEF CreateLink, LinkInv, SceneKept
  <2>3. ASSUME NEW b \in Browsers, FetchStep(b)
        PROVE  creds' = creds \/ (sys' = sys /\ Read)
    <3>1. ASSUME NEW from \in {"stat", "open"}, NEW to, ServeStep(b, from, to)
          PROVE  sys' = sys /\ (creds' = creds \/ Read)
      <4>1. fetch[b].link.owner \in Users
        BY <3>1 DEF ServeStep, FetchAt, LinkInv, FetchesSound, Fetched
      <4> QED BY <1>1, <3>1, <4>1 DEF ServeStep
    <3> QED BY <2>3, <3>1 DEF FetchStep, NoSuchLink, NeedsPassword, Unlock, Resolved,
               CookieOpens, still
  <2>4. /\ \A u, k : Revoke(u, k) => creds' = creds
        /\ Sweep => creds' = creds
        /\ \A b, k, try : Request(b, k, try) => creds' = creds
    BY DEF Revoke, Sweep, Request, still
  <2>5. now' = now /\ (creds' = creds \/ (sys' = sys /\ Read))
    BY <1>2, <2>1, <2>2, <2>3, <2>4 DEF Files
  <2> QED BY <2>5 DEF Read
<1>3. CASE Restart
  BY <1>3 DEF Restart
<1>4. CASE Operators \/ Owners \/ Streams \/ SigningIn \/ SweepSSO \/ Tick
  BY <1>4 DEF Operators, Owners, Streams, SigningIn, SweepSSO, Tick, shareVars
<1> QED BY <1>2, <1>3, <1>4 DEF Step

\* The group table that a helper's groups were read from stood when they were read.
LEMMA CredsKept ==
  ASSUME LinkInv, Step, RememberPast
  PROVE  CredsSound'
<1>1. now \in Nat /\ now' \in Int /\ now <= now' /\ DOMAIN creds = Users
  <2>1. now <= now'
    BY ClockConstants, ShareSteps DEF LinkInv, LinksSound
  <2> QED BY <2>1, ClockConstants, LinksMove DEF LinkInv, LinksSound, CredsSound
<1>2. DOMAIN creds' = Users
  BY <1>1, CredsMove
<1>3. ASSUME left'.keeps, NEW u \in Users, creds'[u] # None
      PROVE  /\ creds'[u].at \in 0 .. now'
             /\ \E s \in {sys'} \cup
                       {p.sys : p \in {p \in past' : p.until \in creds'[u].at .. now'}} :
                   creds'[u].groups = GroupsOf(s, u)
  <2>1. left.keeps
    <3>1. \A what \in {"edits", "admins", "follows", "visits", "links", "fetches", "restarts",
                       "ticks", "logins", "callbacks", "forms", "changes"} :
             Use(what) => left'.keeps = left.keeps
      BY DEF Use, LinkInv, SceneKept
    <3>2. left'.keeps = left.keeps
      BY <3>1 DEF Step, Operators, Owners, Streams, Files, SigningIn, SweepSSO, Tick, Restart
    <3> QED BY <1>3, <3>2
  <2>2. CASE creds'[u] = creds[u]
    <3>1. creds[u].at \in 0 .. now
      BY <1>3, <2>1, <2>2 DEF LinkInv, CredsSound
    <3>2. PICK s \in {sys} \cup
                    {p.sys : p \in {p \in past : p.until \in creds[u].at .. now}} :
             creds[u].groups = GroupsOf(s, u)
      BY <1>3, <2>1, <2>2 DEF LinkInv, CredsSound
    <3>3. CASE s = sys
      <4>1. sys' = sys \/ [roster |-> roster, sys |-> sys, until |-> now] \in past'
        BY <2>1 DEF RememberPast
      <4>2. [roster |-> roster, sys |-> sys, until |-> now].sys = sys
            /\ [roster |-> roster, sys |-> sys, until |-> now].until = now
        OBVIOUS
      <4>3. now \in creds[u].at .. now'
        BY <1>1, <3>1
      <4> QED BY <1>1, <2>2, <3>1, <3>2, <3>3, <4>1, <4>2, <4>3
    <3>4. ASSUME NEW p \in past, p.until \in creds[u].at .. now, s = p.sys
          PROVE  p \in past' /\ p.until \in creds[u].at .. now'
      BY <1>1, <3>1, <3>4 DEF RememberPast
    <3> QED BY <1>1, <2>2, <3>1, <3>2, <3>3, <3>4
  <2>3. CASE creds'[u] = [groups |-> GroupsOf(sys, u), at |-> now] /\ now' = now /\ sys' = sys
    BY <1>1, <2>3
  <2> QED BY <1>1, <1>3, <2>2, <2>3, CredsMove
<1> QED BY <1>2, <1>3 DEF CredsSound

---------------------------------------------------------------------------
(* The theorems about links, and those that rest on all three invariants.  *)

\* A process starts without links, requests for them and helpers.
LEMMA LinkInvInit == Init => LinkInv
<1> SUFFICES ASSUME Init PROVE LinkInv
  OBVIOUS
<1>1. SceneKept
  BY SceneShape DEF Init, SceneKept
<1>2. LinksSound /\ CredsSound
  BY ClockConstants DEF Init, ShareInit, LinksSound, CredsSound
<1>3. FetchesSound
  BY DEF Init, ShareInit, FetchesSound, Unlocked, Fetched, FetchFields, IdleFetch
<1> QED BY <1>1, <1>2, <1>3 DEF LinkInv

\* No step of the process breaks it.
LEMMA LinkInvStep == LinkInv /\ [Next]_vars => LinkInv'
<1> SUFFICES ASSUME LinkInv, [Next]_vars PROVE LinkInv'
  OBVIOUS
<1>1. CASE Step /\ RememberPast
  BY <1>1, SceneStays, LinksMove, FetchesKept, CredsKept DEF LinkInv
<1>2. CASE UNCHANGED vars
  <2>1. UNCHANGED <<now, sys, links, minted, jar, fetch, proved, creds, past, left>>
    BY <1>2 DEF vars, shareVars
  <2>2. SceneKept' /\ LinksSound' /\ FetchesSound'
    BY <2>1 DEF LinkInv, SceneKept, LinksSound, FetchesSound, Unlocked, Fetched, Live, Expired
  <2>3. CredsSound'
    BY <2>1 DEF LinkInv, CredsSound, GroupsOf
  <2> QED BY <2>2, <2>3 DEF LinkInv
<1> QED BY <1>1, <1>2 DEF Next

\* What a link, a request for one and a helper's groups rest on.
THEOREM LinkInvHolds == Spec => []LinkInv
BY LinkInvInit, LinkInvStep, PTL DEF Spec

\* Who serves: only the step that opens the file, and the kernel let it.
LEMMA WhoServes ==
  ASSUME LinkInv, Step, NEW b \in Browsers, fetch[b].pc # "served", fetch'[b].pc = "served"
  PROVE  /\ fetch[b].pc = "open" /\ sys' = sys
         /\ Operation(fetch[b].link.owner, fetch[b].link.team, TRUE)
<1>0. Fetched(b) /\ DOMAIN fetch = Browsers
  BY DEF LinkInv, FetchesSound
<1>1. ASSUME NEW c \in Browsers, FetchStep(c)
      PROVE  ServeStep(b, "open", "served")
  <2>1. c = b
    BY <1>0, <1>1 DEF FetchStep, NoSuchLink, NeedsPassword, Unlock, Resolved, CookieOpens,
       ServeStep, FetchTo
  <2>2. \A x : FetchTo(b, x) => fetch'[b].pc = x
    BY <1>0 DEF FetchTo, Fetched, FetchFields
  <2>3. ~NoSuchLink(b) /\ ~NeedsPassword(b) /\ ~Unlock(b)
    BY <2>2 DEF NoSuchLink, NeedsPassword, Unlock
  <2>4. ~Resolved(b) /\ ~CookieOpens(b)
    BY <1>0 DEF Resolved, CookieOpens, Fetched, FetchFields
  <2>5. ~ServeStep(b, "stat", "open")
    BY <2>2 DEF ServeStep
  <2> QED BY <1>1, <2>1, <2>3, <2>4, <2>5 DEF FetchStep
<1>2. ASSUME Restart PROVE FALSE
  BY <1>2 DEF Restart, IdleFetch
<1>3. ASSUME NEW c \in Browsers, NEW k, NEW try, Request(c, k, try)
      PROVE  fetch'[b] = fetch[b] \/ fetch'[b].pc = "resolve"
  BY <1>0, <1>3 DEF Request, IdleFetch
<1>4. /\ web' = web => fetch' = fetch
      /\ \A k, u, g, asked, pw : CreateLink(k, u, g, asked, pw) => fetch' = fetch
      /\ \A u, k : Revoke(u, k) => fetch' = fetch
      /\ Sweep => fetch' = fetch
  BY DEF web, CreateLink, Revoke, Sweep
<1>5. ServeStep(b, "open", "served")
  <2>1. fetch' # fetch /\ fetch'[b] # fetch[b] /\ fetch'[b].pc # "resolve"
    OBVIOUS
  <2>2. ~Restart /\ \A c \in Browsers : \A k, try : ~Request(c, k, try)
    BY <1>2, <1>3, <2>1
  <2>3. \E c \in Browsers : FetchStep(c)
    BY <1>4, <2>1, <2>2, ShareSteps
  <2> QED BY <1>1, <2>3
<1>6. PICK ok \in BOOLEAN :
         /\ Operation(fetch[b].link.owner, fetch[b].link.team, ok)
         /\ FetchTo(b, IF ok THEN "served" ELSE "refused")
  BY <1>5 DEF ServeStep
<1>7. ok = TRUE
  BY <1>0, <1>6 DEF FetchTo, Fetched, FetchFields
<1> QED BY <1>5, <1>6, <1>7 DEF ServeStep, FetchAt, Operation

\* A scene that keeps the past goes on keeping it.
LEMMA KeptStays == Spec /\ left.keeps => [](left.keeps)
<1>1. LinkInv /\ left.keeps /\ [Next]_vars => (left.keeps)'
  <2> SUFFICES ASSUME LinkInv, left.keeps, [Next]_vars PROVE left'.keeps
    OBVIOUS
  <2>1. \A what \in {"edits", "admins", "follows", "visits", "links", "fetches", "restarts",
                     "ticks", "logins", "callbacks", "forms", "changes"} :
           Use(what) => left'.keeps = left.keeps
    BY DEF Use, LinkInv, SceneKept
  <2>2. CASE Step
    BY <2>1, <2>2
       DEF Step, Operators, Owners, Streams, Files, SigningIn, SweepSSO, Tick, Restart
  <2> QED BY <2>2 DEF Next, vars
<1> QED BY <1>1, LinkInvHolds, PTL DEF Spec

\* The bytes of a shared file leave only by a link that was live when the request came,
\* to a browser that has given its password if it has one, and only while its owner may
\* read the file, by groups read within CredsTTL; in every scene that keeps the past,
\* which the statement looks back at.
THEOREM ServesTheAllowed == Spec /\ left.keeps => ServedIsAllowed
<1> DEFINE Allowed(b) ==
             LET l == fetch[b].link IN
             /\ fetch[b].alive
             /\ l.pw => fetch[b].token \in proved[b]
             /\ \E s \in Recent(CredsTTL) :
                   LET gs == GroupsOf(s.sys, l.owner) IN
                   \/ l.team \in gs \cup sys.anonymous
                   \/ \E r \in gs : l.team \in sys.views[r]
           AllAllowed == \A b \in Browsers :
               fetch[b].pc # "served" /\ fetch'[b].pc = "served" => Allowed(b)
<1>1. ASSUME LinkInv, left.keeps, [Next]_vars
      PROVE  [AllAllowed]_vars
  <2> SUFFICES ASSUME Step, NEW b \in Browsers, fetch[b].pc # "served", fetch'[b].pc = "served"
               PROVE  Allowed(b)
    BY <1>1 DEF Next
  <2> DEFINE u == fetch[b].link.owner
             g == fetch[b].link.team
  <2>1. fetch[b].pc = "open" /\ Operation(u, g, TRUE)
    BY <1>1, WhoServes
  <2>2. /\ fetch[b].alive /\ u \in Users
        /\ fetch[b].link.pw => fetch[b].token \in proved[b]
    BY <1>1, <2>1 DEF LinkInv, FetchesSound, Fetched
  <2> HIDE DEF u, g
  <2>3. PICK gs, via : Acquire(u, gs) /\ KernelReads(gs, g, via)
    BY <2>1 DEF Operation, Identified
  <2>4. \E s \in Recent(CredsTTL) : gs = GroupsOf(s.sys, u)
    <3>1. CASE gs = GroupsOf(sys, u)
      <4>1. [roster |-> roster, sys |-> sys] \in Recent(CredsTTL)
        BY DEF Recent
      <4> QED BY <3>1, <4>1
    <3>2. CASE Trusted(u) /\ gs = creds[u].groups
      <4>1. creds[u] # None /\ now - creds[u].at < CredsTTL
        BY <3>2 DEF Trusted
      <4>2. now \in Nat /\ CredsTTL \in Nat /\ creds[u].at \in 0 .. now
        BY <1>1, <2>2, <4>1, ShareConstants, ClockConstants DEF LinkInv, LinksSound, CredsSound
      <4>3. PICK s \in {sys} \cup
                    {p.sys : p \in {p \in past : p.until \in creds[u].at .. now}} :
               creds[u].groups = GroupsOf(s, u)
        BY <1>1, <2>2, <4>1 DEF LinkInv, CredsSound
      <4>4. CASE s = sys
        <5>1. [roster |-> roster, sys |-> sys] \in Recent(CredsTTL)
          BY DEF Recent
        <5> QED BY <3>2, <4>3, <4>4, <5>1
      <4>5. ASSUME NEW p \in past, p.until \in creds[u].at .. now, s = p.sys
            PROVE  \E t \in Recent(CredsTTL) : gs = GroupsOf(t.sys, u)
        <5>1. now - p.until < CredsTTL
          BY <4>1, <4>2, <4>5
        <5>2. [roster |-> p.roster, sys |-> p.sys] \in Recent(CredsTTL)
          BY <5>1 DEF Recent
        <5> QED BY <3>2, <4>3, <4>5, <5>2
      <4> QED BY <4>3, <4>4, <4>5
    <3> QED BY <2>3, <3>1, <3>2 DEF Acquire
  <2>5. g \in gs \cup sys.anonymous \/ \E r \in gs : g \in sys.views[r]
    BY <2>3 DEF KernelReads
  <2> QED BY <2>2, <2>4, <2>5 DEF u, g
<1> QED BY <1>1, LinkInvHolds, KeptStays, PTL DEF Spec, ServedIsAllowed

\* A flow signs in once however often a redirect is sent, a notice is read once, and the
\* state has the shape the code gives it.
THEOREM FlowsSignInOnce == Spec => []SingleUse
<1>1. ASSUME SignInv, TeamInv, LinkInv
      PROVE  SingleUse
  <2>1. TypeOK
    <3>1. roster.users \subseteq Users /\ DOMAIN sys.members = Groups /\ local \in BOOLEAN
          /\ tracker \subseteq Reqs
      BY <1>1 DEF TeamInv, TeamTypes, Shaped
    <3>2. \A r \in Reqs : op[r].i \in 1 .. Len(op[r].changes) + 1
      BY <1>1 DEF TeamInv, RequestsSound, Sound, Asked
    <3>3. now \in 0 .. MaxNow /\ minted \subseteq Tokens
          /\ \A k \in Tokens : links[k] # None => k \in minted
      BY <1>1 DEF LinkInv, LinksSound
    <3> QED BY <3>1, <3>2, <3>3 DEF TypeOK
  <2>2. ASSUME NEW f \in Flows
        PROVE  Cardinality({s \in sessions : s.flow = f}) <= 1
    <3> DEFINE S == {s \in sessions : s.flow = f}
    <3>1. CASE S = {}
      BY <3>1, FS_EmptySet
    <3>2. ASSUME NEW s \in S
          PROVE  Cardinality(S) <= 1
      <4>1. S = {s}
        BY <1>1, <3>2 DEF SignInv, OneUse
      <4>2. Cardinality({s}) = 1
        BY FS_Singleton
      <4> QED BY <4>1, <4>2
    <3> QED BY <3>1, <3>2
  <2>3. \A q \in Calls : shown[q] <= 1
    BY <1>1 DEF SignInv, OneNotice, Timed, SignTypes
  <2> QED BY <2>1, <2>2, <2>3 DEF SingleUse
<1> QED BY <1>1, SignInvHolds, TeamInvHolds, LinkInvHolds, PTL

---------------------------------------------------------------------------
(* Where readers are sent.                                                 *)

\* What operators write, and what requests make of it: a roster as usersync prints it,
\* in which every declared reader of a team has a view of it.
Viewed(d) ==
    /\ d \in RosterRecords
    /\ \A g \in Declared(d) : \A r \in d.readers[g] \cap Declared(d) : g \in d.views[r]

\* The cached roster is one that stood while it was read, or later.
CacheSound ==
    decls.decl # None =>
        /\ Viewed(decls.decl) /\ decls.at \in 0 .. now
        /\ left.keeps =>
              \E d \in {roster} \cup
                    {p.roster : p \in {p \in past : p.until \in decls.at - ReadTime .. now}} :
                 decls.decl = d

OpenedSound == opened.at \in 0 .. now /\ (left.keeps => RoutesFresh)

\* What was changed was changed some time ago, and was as operators write it.
PastSound == \A p \in past : p.until \in 0 .. now /\ Viewed(p.roster)

RouteInv == Viewed(roster) /\ PastSound /\ CacheSound /\ OpenedSound

\* Somebody who reads g by that roster, through a group that has a view of it.
ReadsBy(d, u, g) ==
    /\ g \in Declared(d)
    /\ u \notin d.members[g]
    /\ \E r \in d.readers[g] : u \in MembersOf(d, r) /\ g \in d.views[r]

\* Changing who is in a team leaves its readers and their views alone.
LEMMA MemberViewed ==
  ASSUME NEW d, Viewed(d), NEW c \in Membership, c.team \in Declared(d)
  PROVE  Viewed(Member(d, c)) /\ Declared(Member(d, c)) = Declared(d)
<1> DEFINE ms == [d.members EXCEPT ![c.team] =
                     IF c.member THEN @ \cup {c.user} ELSE @ \ {c.user}]
           e == [d EXCEPT !.members = ms]
<1>1. Member(d, c) = e
  BY DEF Member
<1>2. d \in RosterRecords /\ c.user \in Users
  BY DEF Viewed, Membership
<1>3. ms \in ByTeam(SUBSET Users) /\ DOMAIN ms = DOMAIN d.members
  <2>1. PICK D \in SUBSET Groups : d.members \in [D -> SUBSET Users]
    BY <1>2 DEF RosterRecords, ByTeam
  <2>2. ms \in [D -> SUBSET Users]
    BY <1>2, <2>1
  <2> QED BY <2>1, <2>2 DEF ByTeam
<1> HIDE DEF ms
<1>4. /\ e \in RosterRecords /\ e.members = ms
      /\ e.readers = d.readers /\ e.views = d.views
  BY <1>2, <1>3 DEF RosterRecords
<1> HIDE DEF e
<1> QED BY <1>1, <1>3, <1>4 DEF Viewed, Declared

\* So does a batch of changes.
LEMMA BatchViewed ==
  ASSUME NEW d, Viewed(d), NEW cs \in Seq(Membership),
         \A i \in 1 .. Len(cs) : cs[i].team \in Declared(d)
  PROVE  Viewed(MemberAll(d, cs))
<1> DEFINE u == MemberUpTo(d, cs)
           S == {n \in 0 .. Len(cs) : Viewed(u[n]) /\ Declared(u[n]) = Declared(d)}
<1>0. Len(cs) \in Nat /\ \A i \in 1 .. Len(cs) : cs[i] \in Membership
  OBVIOUS
<1>1. u[0] = d /\ \A i \in 1 .. Len(cs) : u[i] = Member(u[i - 1], cs[i])
  <2> HIDE DEF u
  <2> QED BY <1>0, MemberSteps DEF u
<1> HIDE DEF u
<1>2. 0 \in S
  BY <1>0, <1>1
<1>3. ASSUME NEW n \in 0 .. Len(cs) - 1, n \in S
      PROVE  n + 1 \in S
  <2>1. n + 1 \in 1 .. Len(cs) /\ (n + 1) - 1 = n
    BY <1>0
  <2>2. u[n + 1] = Member(u[n], cs[n + 1])
    BY <1>1, <2>1
  <2>3. Viewed(u[n]) /\ Declared(u[n]) = Declared(d)
    BY <1>3
  <2>4. cs[n + 1] \in Membership /\ cs[n + 1].team \in Declared(u[n])
    BY <1>0, <2>1, <2>3
  <2>5. Viewed(u[n + 1]) /\ Declared(u[n + 1]) = Declared(u[n])
    BY <2>2, <2>3, <2>4, MemberViewed
  <2>6. n + 1 \in 0 .. Len(cs)
    BY <1>0
  <2> QED BY <2>3, <2>5, <2>6
<1>4. Len(cs) \in S
  <2>1. \A n \in 0 .. Len(cs) - 1 : n \in S => n + 1 \in S
    BY <1>3
  <2> HIDE DEF S
  <2>2. 0 .. Len(cs) \subseteq S
    BY <1>0, <1>2, <2>1, UpTo
  <2> QED BY <1>0, <2>2
<1> QED BY <1>4 DEF MemberAll, u

\* Whoever changes the roster leaves every reader a view.
LEMMA ViewedKept ==
  ASSUME EveryReaderHasAView, TeamInv, Step, Viewed(roster)
  PROVE  Viewed(roster')
<1>1. \A d \in Rosters : Viewed(d)
  BY TeamsConstants DEF EveryReaderHasAView, Viewed
<1>2. ASSUME NEW r \in Reqs, Edit(r)
      PROVE  Viewed(roster')
  <2> DEFINE c == op[r].changes[op[r].i]
  <2>1. op[r].changes \in Seq(Membership) /\ op[r].i \in 1 .. Len(op[r].changes)
    BY <1>2 DEF Edit, At, TeamInv, RequestsSound, Sound, Asked
  <2>2. c \in Membership
    BY <2>1
  <2>3. c.team \in Declared(roster) /\ roster' = Member(roster, c)
    BY <1>2 DEF Edit
  <2> HIDE DEF c
  <2> QED BY <2>2, <2>3, MemberViewed
<1>3. ASSUME NEW r \in Reqs, Commit(r)
      PROVE  Viewed(roster')
  <2>1. op[r].changes \in Seq(Membership)
    BY DEF TeamInv, RequestsSound, Sound, Asked
  <2>2. \A j \in 1 .. Len(op[r].changes) : op[r].changes[j].team \in Declared(roster)
    BY <1>3, <2>1 DEF Commit, Range
  <2>3. roster' = MemberAll(roster, op[r].changes)
    BY <1>3 DEF Commit
  <2> QED BY <2>1, <2>2, <2>3, BatchViewed
<1>4. ASSUME NEW r \in Reqs, ReqStep(r), ~Edit(r), ~Commit(r)
      PROVE  roster' = roster
  BY <1>4 DEF ReqStep, ReadFails, Declare, AskAdmin, Owned, Known, WriteFails, Apply, Quiet
<1>5. /\ \A r \in Reqs : \A ask \in left.calls[r] :
            Submit(r, ask.actor, ask.batch, ask.changes) => roster' = roster
      /\ \A w \in Watchers : WatchStep(w) => roster' = roster
      /\ \A w \in Watchers, r \in Reqs : Follow(w, r) => roster' = roster
      /\ Restart => roster' = roster
  BY DEF Submit, Quiet, WatchStep, Look, LookAgain, LookNoMore, Follow, Restart
<1>6. Outside => roster' = roster \/ roster' \in Rosters
  BY DEF Outside
<1> HIDE DEF Viewed
<1> QED BY <1>1, <1>2, <1>3, <1>4, <1>5, <1>6, TeamSteps

\* The first reader group by name will do, since all of them have a view.
LEMMA RouteIsReaders ==
  ASSUME NEW d, Viewed(d), NEW u, NEW g
  PROVE  (Route(d, u, g) # None) = ReadsBy(d, u, g)
<1> DEFINE rs == d.readers[g] \cap Mine(d, u)
<1>1. d \in RosterRecords /\ d # None
  BY TeamsConstants DEF Viewed
<1>2. CASE g \notin Declared(d)
  BY <1>1, <1>2 DEF Route, ReadsBy
<1>3. CASE g \in Declared(d)
  <2>1. Declared(d) \subseteq Groups /\ None \notin Groups
    BY <1>1, TeamsConstants DEF RosterRecords, ByTeam, Declared
  <2>2. \A r \in rs : g \in d.views[r] /\ u \in MembersOf(d, r) /\ r # None
    BY <1>3, <2>1 DEF Viewed, Mine, MembersOf
  <2>3. \A r \in d.readers[g] : u \in MembersOf(d, r) => r \in rs
    BY DEF Mine, MembersOf
  <2>4. Route(d, u, g) = IF g \in Mine(d, u) \/ rs = {} THEN None
                         ELSE LET r == CHOOSE x \in rs : TRUE IN
                              IF g \in d.views[r] THEN r ELSE None
    BY <1>1, <1>3 DEF Route
  <2>5. g \in Mine(d, u) <=> u \in d.members[g]
    BY <1>3 DEF Mine
  <2>6. ReadsBy(d, u, g) <=> u \notin d.members[g] /\ rs # {}
    BY <1>3, <2>2, <2>3 DEF ReadsBy
  <2> DEFINE r == CHOOSE x \in rs : TRUE
  <2>7. rs # {} => r \in rs
    OBVIOUS
  <2> HIDE DEF r, rs
  <2>8. (Route(d, u, g) # None) <=> u \notin d.members[g] /\ rs # {}
    BY <2>2, <2>4, <2>5, <2>7 DEF r
  <2>9. ReadsBy(d, u, g) \in BOOLEAN
    BY DEF ReadsBy
  <2> QED BY <2>6, <2>8, <2>9
<1> QED BY <1>2, <1>3

\* What a file operation finds out about where it should go.
Opens(u, g) ==
    \E d : \E missed \in BOOLEAN :
        /\ CachedDeclaration(d, missed)
        /\ opened' = [user |-> u, team |-> g, via |-> Route(d, u, g),
                      missed |-> missed, at |-> now]

\* Only a file operation reads the roster for the cache, and only a restart drops it.
LEMMA DeclsMove ==
  ASSUME LinkInv, Step
  PROVE  \/ decls' = decls /\ opened' = opened
         \/ decls'.decl = None /\ opened' = opened
         \/ /\ now' = now /\ roster' = roster /\ sys' = sys
            /\ \E u, g : Opens(u, g)
<1> DEFINE Kept == decls' = decls /\ opened' = opened
           Sent == roster' = roster /\ sys' = sys /\ \E u, g : Opens(u, g)
<1>1. ASSUME NEW u, NEW g, NEW ok, Operation(u, g, ok)
      PROVE  Sent
  <2>1. PICK d \in {decls.decl} \cup StoodSince(now - ReadTime), missed \in BOOLEAN,
             v \in Identified(u) :
        \E gs \in {GroupsOf(sys, v)} \cup (IF creds[v] = None THEN {} ELSE {creds[v].groups}) :
           /\ CachedDeclaration(d, missed)
           /\ Acquire(v, gs)
           /\ ok = KernelReads(gs, g, Route(d, v, g))
           /\ opened' = [user |-> u, team |-> g, via |-> Route(d, v, g),
                         missed |-> missed, at |-> now]
           /\ UNCHANGED <<roster, sys, requests, watch>>
    BY <1>1, Zenon DEF Operation
  <2>2. v = u
    BY <2>1 DEF Identified
  <2>3. Opens(u, g)
    BY <2>1, <2>2 DEF Opens
  <2> QED BY <1>1, <2>3 DEF Operation
<1> HIDE DEF Sent
<1>2. CASE Files
  <2>1. \A u, g : Visit(u, g) => Sent
    BY <1>1 DEF Visit
  <2>2. \A k, u, g, asked, pw : CreateLink(k, u, g, asked, pw) => Sent
    BY <1>1 DEF CreateLink
  <2>3. \A b : FetchStep(b) => Kept \/ Sent
    <3>1. \A b, from, to : ServeStep(b, from, to) => Sent
      BY <1>1 DEF ServeStep
    <3> QED BY <3>1 DEF FetchStep, NoSuchLink, NeedsPassword, Unlock, Resolved, CookieOpens,
               still
  <2>4. /\ \A u, k : Revoke(u, k) => Kept
        /\ Sweep => Kept
        /\ \A b, k, try : Request(b, k, try) => Kept
    BY DEF Revoke, Sweep, Request, still
  <2>5. now' = now /\ (Kept \/ Sent)
    BY <1>2, <2>1, <2>2, <2>3, <2>4 DEF Files
  <2> QED BY <2>5 DEF Sent
<1>3. CASE Restart
  BY <1>3 DEF Restart
<1>4. CASE Operators
  BY <1>4 DEF Operators, RosterEdited, Converge, AdminsChanged, shareVars
<1>5. CASE Owners
  <2>1. \A r : ReqStep(r) => decls' = decls
    BY DEF ReqStep, ReadFails, Declare, AskAdmin, Owned, Known, Edit, WriteFails, Apply,
       Commit, Quiet
  <2>2. \A r, u, batch, cs : Submit(r, u, batch, cs) => decls' = decls
    BY DEF Submit, Quiet
  <2> QED BY <1>5, <2>1, <2>2 DEF Owners, shareVars
<1>6. CASE Streams
  BY <1>6 DEF Streams, WatchStep, Look, LookAgain, LookNoMore, Follow, shareVars
<1>7. CASE SigningIn \/ Tick
  BY <1>7 DEF SigningIn, Tick, shareVars
<1>8. CASE SweepSSO
  BY <1>8 DEF SweepSSO, Forget, shareVars
<1> QED BY <1>2, <1>3, <1>4, <1>5, <1>6, <1>7, <1>8 DEF Step

\* The clock, and whether the past is kept, as a step leaves them.
LEMMA ClockMoves ==
  ASSUME LinkInv, Step
  PROVE  /\ now \in Nat /\ now' \in Nat /\ now <= now'
         /\ left'.keeps = left.keeps
<1>1. now \in Nat /\ now' \in Nat /\ now <= now'
  <2>1. now <= now' /\ now \in Nat
    BY ClockConstants, ShareSteps DEF LinkInv, LinksSound
  <2> QED BY <2>1, ClockConstants, LinksMove DEF LinksSound
<1>2. \A what \in {"edits", "admins", "follows", "visits", "links", "fetches", "restarts",
                   "ticks", "logins", "callbacks", "forms", "changes"} :
         Use(what) => left'.keeps = left.keeps
  BY DEF Use, LinkInv, SceneKept
<1>3. left'.keeps = left.keeps
  BY <1>2 DEF Step, Operators, Owners, Streams, Files, SigningIn, SweepSSO, Tick, Restart
<1> QED BY <1>1, <1>3

\* What stood recently still did, as long as the clock has not moved.
LEMMA RecentGrows ==
  ASSUME LinkInv, Step, RememberPast, left.keeps, now' = now, NEW ttl \in Nat \ {0}
  PROVE  Recent(ttl) \subseteq Recent(ttl)'
<1>1. left'.keeps /\ now \in Nat
  BY ClockMoves
<1>2. ASSUME NEW p \in past, now - p.until < ttl
      PROVE  [roster |-> p.roster, sys |-> p.sys] \in Recent(ttl)'
  BY <1>2 DEF RememberPast, Recent
<1>3. [roster |-> roster, sys |-> sys] \in Recent(ttl)'
  <2>1. CASE roster' = roster /\ sys' = sys
    BY <2>1 DEF Recent
  <2>2. CASE ~(roster' = roster /\ sys' = sys)
    <3> DEFINE p == [roster |-> roster, sys |-> sys, until |-> now]
    <3>1. p \in past'
      BY <1>1, <2>2 DEF RememberPast
    <3>2. now' - p.until < ttl
      BY <1>1
    <3>3. p.roster = roster /\ p.sys = sys
      OBVIOUS
    <3> HIDE DEF p
    <3> QED BY <3>1, <3>2, <3>3 DEF Recent
  <2> QED BY <2>1, <2>2
<1> QED BY <1>2, <1>3 DEF Recent

\* What has stood stays what operators wrote.
LEMMA PastKept ==
  ASSUME LinkInv, RouteInv, Step, RememberPast
  PROVE  PastSound'
<1>0. now \in Nat /\ now' \in Nat /\ now <= now'
  BY ClockMoves
<1>1. ASSUME NEW p \in past'
      PROVE  p.until \in 0 .. now' /\ Viewed(p.roster)
  <2>1. CASE p \in past
    BY <1>0, <2>1 DEF RouteInv, PastSound
  <2>2. CASE p = [roster |-> roster, sys |-> sys, until |-> now]
    BY <1>0, <2>2 DEF RouteInv
  <2> QED BY <1>1, <2>1, <2>2 DEF RememberPast
<1> QED BY <1>1 DEF PastSound, Viewed

\* Every roster that stood since a time did so within the time since then.
LEMMA StoodThen ==
  ASSUME LinkInv, RouteInv, NEW t, NEW d \in StoodSince(t), t = now - ReadTime
  PROVE  /\ Viewed(d)
         /\ \/ d = roster
            \/ \E p \in past : d = p.roster /\ p.until \in now - ReadTime .. now
<1>0. now \in Nat /\ ReadTime \in Nat
  BY ClockConstants, TeamsConstants DEF LinkInv, LinksSound
<1>1. \A p \in past : p.until \in 0 .. now /\ Viewed(p.roster)
  BY DEF RouteInv, PastSound
<1>2. \A p \in past : p.until >= t => p.until \in now - ReadTime .. now
  BY <1>0, <1>1
<1>3. Viewed(roster)
  BY DEF RouteInv
<1> HIDE DEF Viewed
<1> QED BY <1>1, <1>2, <1>3 DEF StoodSince

\* The cached roster still is one that stood no longer ago than its reading began.
LEMMA CacheKept ==
  ASSUME LinkInv, RouteInv, Step, RememberPast
  PROVE  CacheSound'
<1> SUFFICES ASSUME decls'.decl # None PROVE CacheSound'
  BY DEF CacheSound
<1>0. /\ now \in Nat /\ now' \in Nat /\ now <= now' /\ left'.keeps = left.keeps
      /\ ReadTime \in Nat
  BY ClockMoves, TeamsConstants
<1>1. CASE decls' = decls
  <2>1. Viewed(decls.decl) /\ decls.at \in 0 .. now
    BY <1>1 DEF RouteInv, CacheSound
  <2>2. ASSUME left'.keeps
        PROVE  \E d \in {roster'} \cup
                   {p.roster : p \in {p \in past' : p.until \in decls.at - ReadTime .. now'}} :
                  decls.decl = d
    <3>1. left.keeps
      BY <1>0, <2>2
    <3>2. PICK d \in {roster} \cup
                   {p.roster : p \in {p \in past : p.until \in decls.at - ReadTime .. now}} :
             decls.decl = d
      BY <1>1, <3>1 DEF RouteInv, CacheSound
    <3>3. CASE d = roster /\ roster' # roster
      <4> DEFINE p == [roster |-> roster, sys |-> sys, until |-> now]
      <4>1. p \in past' /\ p.roster = roster
        BY <3>1, <3>3 DEF RememberPast
      <4>2. p.until \in decls.at - ReadTime .. now'
        BY <1>0, <2>1
      <4> HIDE DEF p
      <4> QED BY <3>2, <3>3, <4>1, <4>2
    <3>4. CASE d = roster /\ roster' = roster
      BY <3>2, <3>4
    <3>5. ASSUME NEW p \in past, p.until \in decls.at - ReadTime .. now, d = p.roster
          PROVE  p \in past' /\ p.until \in decls.at - ReadTime .. now'
      BY <1>0, <2>1, <3>5 DEF RememberPast
    <3> QED BY <3>2, <3>3, <3>4, <3>5
  <2>3. Viewed(decls'.decl)
    BY <1>1, <2>1
  <2> HIDE DEF Viewed
  <2> QED BY <1>0, <1>1, <2>1, <2>2, <2>3 DEF CacheSound, Viewed
<1>2. ASSUME NEW d \in StoodSince(now - ReadTime), decls' = [decl |-> d, at |-> now],
             now' = now, roster' = roster
      PROVE  CacheSound'
  <2>1. /\ Viewed(d)
        /\ \/ d = roster
           \/ \E p \in past : d = p.roster /\ p.until \in now - ReadTime .. now
    BY StoodThen
  <2>2. past \subseteq past'
    BY DEF RememberPast
  <2>3. decls'.decl = d /\ decls'.at = now
    BY <1>2
  <2>4. \E e \in {roster'} \cup {p.roster : p \in
              {p \in past' : p.until \in decls'.at - ReadTime .. now'}} : decls'.decl = e
    BY <1>2, <2>1, <2>2, <2>3
  <2>5. Viewed(decls'.decl) /\ decls'.at \in 0 .. now'
    BY <1>0, <1>2, <2>1, <2>3
  <2> QED BY <2>4, <2>5 DEF CacheSound, Viewed
<1> QED BY <1>1, <1>2, DeclsMove DEF Opens, CachedDeclaration

\* Where a request is sent agrees with a roster that stood within the bound.
LEMMA OpenedKept ==
  ASSUME LinkInv, RouteInv, Step, RememberPast
  PROVE  OpenedSound'
<1> DEFINE Bound == DeclTTL + ReadTime
<1>0. now \in Nat /\ now' \in Nat /\ now <= now' /\ left'.keeps = left.keeps
  BY ClockMoves
<1>1. DeclTTL \in Nat \ {0} /\ ReadTime \in Nat /\ Bound \in Nat \ {0}
  BY TeamsConstants
<1> HIDE DEF Bound
<1>2. CASE opened' = opened
  <2>1. opened'.at \in 0 .. now'
    BY <1>0, <1>2 DEF RouteInv, OpenedSound
  <2>2. ASSUME left'.keeps, opened'.at = now', opened'.user # None, ~opened'.missed
        PROVE  \E s \in Recent(Bound)' :
                  ReadsBy(s.roster, opened.user, opened.team) = (opened.via # None)
    <3>1. now' = now
      BY <1>0, <1>2, <2>2 DEF RouteInv, OpenedSound
    <3>2. PICK s \in Recent(Bound) :
             ReadsBy(s.roster, opened.user, opened.team) = (opened.via # None)
      BY <1>0, <1>2, <2>2, <3>1 DEF Bound, RouteInv, OpenedSound, RoutesFresh, ReadsBy
    <3> QED BY <1>0, <1>1, <2>2, <3>1, <3>2, RecentGrows
  <2> QED BY <1>2, <2>1, <2>2 DEF Bound, OpenedSound, RoutesFresh, ReadsBy
<1>3. ASSUME NEW u, NEW g, Opens(u, g), now' = now, roster' = roster, sys' = sys
      PROVE  OpenedSound'
  <2>1. PICK d : \E missed \in BOOLEAN :
           /\ CachedDeclaration(d, missed)
           /\ opened' = [user |-> u, team |-> g, via |-> Route(d, u, g),
                         missed |-> missed, at |-> now]
    BY <1>3 DEF Opens
  <2> DEFINE missed == opened'.missed
  <2>2. /\ missed \in BOOLEAN /\ CachedDeclaration(d, missed)
        /\ opened' = [user |-> u, team |-> g, via |-> Route(d, u, g),
                      missed |-> missed, at |-> now]
    BY <2>1
  <2>3. ASSUME left'.keeps, ~missed
        PROVE  \E s \in Recent(Bound)' : ReadsBy(s.roster, u, g) = (Route(d, u, g) # None)
    <3>0. ASSUME NEW p \in past, p.until \in Int, now - p.until < Bound, d = p.roster, Viewed(d)
          PROVE  \E s \in Recent(Bound)' : ReadsBy(s.roster, u, g) = (Route(d, u, g) # None)
      <4>1. p \in past' /\ now' - p.until < Bound
        BY <1>3, <3>0 DEF RememberPast
      <4>2. [roster |-> p.roster, sys |-> p.sys] \in Recent(Bound)'
        BY <4>1 DEF Recent
      <4>3. ReadsBy(d, u, g) = (Route(d, u, g) # None)
        BY <3>0, RouteIsReaders
      <4> QED BY <3>0, <4>2, <4>3
    <3>1. CASE d = roster
      <4>1. [roster |-> roster, sys |-> sys] \in Recent(Bound)'
        BY <1>3 DEF Recent
      <4>2. ReadsBy(roster, u, g) = (Route(d, u, g) # None)
        BY <3>1, RouteIsReaders DEF RouteInv
      <4> QED BY <4>1, <4>2
    <3>2. CASE Reusable /\ d = decls.decl
      <4>1. decls.decl # None /\ now - decls.at < DeclTTL
        BY <3>2 DEF Reusable
      <4>2. Viewed(d) /\ decls.at \in 0 .. now
        BY <3>2, <4>1 DEF RouteInv, CacheSound
      <4>3. PICK e \in {roster} \cup
                    {p.roster : p \in {p \in past : p.until \in decls.at - ReadTime .. now}} :
               d = e
        BY <1>0, <2>3, <3>2, <4>1 DEF RouteInv, CacheSound
      <4>4. ASSUME NEW p \in past, p.until \in decls.at - ReadTime .. now
            PROVE  p.until \in Int /\ now - p.until < Bound
        BY <1>0, <1>1, <4>1, <4>2, <4>4 DEF Bound
      <4> HIDE DEF Viewed
      <4> QED BY <3>0, <3>1, <4>2, <4>3, <4>4
    <3>3. CASE d \in StoodSince(now - ReadTime)
      <4>1. /\ Viewed(d)
            /\ \/ d = roster
               \/ \E p \in past : d = p.roster /\ p.until \in now - ReadTime .. now
        BY <3>3, StoodThen
      <4>2. ASSUME NEW p \in past, p.until \in now - ReadTime .. now
            PROVE  p.until \in Int /\ now - p.until < Bound
        BY <1>0, <1>1, <4>2 DEF Bound
      <4> HIDE DEF Viewed
      <4> QED BY <3>0, <3>1, <4>1, <4>2
    <3> QED BY <2>2, <2>3, <3>2, <3>3 DEF CachedDeclaration
  <2>4. opened'.at \in 0 .. now'
    BY <1>0, <1>3, <2>2
  <2>5. /\ opened'.user = u /\ opened'.team = g /\ opened'.via = Route(d, u, g)
        /\ opened'.missed = missed
    BY <2>2
  <2> HIDE DEF missed
  <2>6. left'.keeps => RoutesFresh'
    BY <2>3, <2>5 DEF Bound, RoutesFresh, ReadsBy
  <2> QED BY <2>4, <2>6 DEF OpenedSound
<1> QED BY <1>2, <1>3, DeclsMove

\* A process starts with a roster as operators write it, and without a cached one.
LEMMA RouteInvInit == EveryReaderHasAView /\ Init => RouteInv
<1> SUFFICES ASSUME EveryReaderHasAView, Init PROVE RouteInv
  OBVIOUS
<1>1. roster \in Rosters /\ now = 0 /\ decls.decl = None /\ past = {}
      /\ opened.user = None /\ opened.at = 0
  BY DEF Init, TeamsInit, ShareInit
<1>2. Viewed(roster)
  BY <1>1, TeamsConstants DEF EveryReaderHasAView, Viewed
<1>3. CacheSound
  BY <1>1 DEF CacheSound
<1>4. OpenedSound
  BY <1>1 DEF OpenedSound, RoutesFresh
<1> QED BY <1>1, <1>2, <1>3, <1>4 DEF RouteInv, PastSound

\* No step of the process breaks it.
LEMMA RouteInvStep ==
  EveryReaderHasAView /\ TeamInv /\ LinkInv /\ RouteInv /\ [Next]_vars => RouteInv'
<1> SUFFICES ASSUME EveryReaderHasAView, TeamInv, LinkInv, RouteInv, [Next]_vars
             PROVE  RouteInv'
  OBVIOUS
<1>1. CASE Step /\ RememberPast
  <2>1. Viewed(roster)
    BY DEF RouteInv
  <2>2. Viewed(roster')
    BY <1>1, <2>1, ViewedKept
  <2>3. PastSound' /\ CacheSound' /\ OpenedSound'
    BY <1>1, PastKept, CacheKept, OpenedKept
  <2>4. Viewed(roster)'
    BY <2>2 DEF Viewed
  <2> QED BY <2>3, <2>4 DEF RouteInv
<1>2. CASE UNCHANGED vars
  <2>1. UNCHANGED <<now, roster, sys, decls, past, opened, left>>
    BY <1>2 DEF vars, shareVars
  <2>2. Viewed(roster)' /\ PastSound'
    BY <2>1 DEF RouteInv, PastSound, Viewed, Declared
  <2>3. CacheSound'
    BY <2>1 DEF RouteInv, CacheSound, Viewed, Declared
  <2>4. OpenedSound'
    BY <2>1 DEF RouteInv, OpenedSound, RoutesFresh, Recent, Declared, MembersOf
  <2> QED BY <2>2, <2>3, <2>4 DEF RouteInv
<1> QED BY <1>1, <1>2 DEF Next

\* A request goes to a read-only view only of someone who, in a roster that stood within
\* the last DeclTTL and the time it takes to read one, was a reader of the team and not a
\* member of it, and nobody who was one throughout goes elsewhere: provided that usersync
\* makes a view for every declared reader, as docs/access-control.md:112 says and
\* views.go:114 counts on.
THEOREM ReadersRouted ==
  ASSUME EveryReaderHasAView
  PROVE  Spec /\ left.keeps => []RoutesFresh
<1>1. RouteInv /\ left.keeps => RoutesFresh
  BY DEF RouteInv, OpenedSound
<1>2. Init => RouteInv
  BY RouteInvInit
<1>3. TeamInv /\ LinkInv /\ RouteInv /\ [Next]_vars => RouteInv'
  BY RouteInvStep
<1> QED BY <1>1, <1>2, <1>3, TeamInvHolds, LinkInvHolds, KeptStays, PTL DEF Spec

\* The lock shown on a folder agrees with what opening it does once the system has
\* converged, and the panel lists the teams a batch would be accepted for; provided, again,
\* that every declared reader has a view.
THEOREM HintsAreTrue ==
  ASSUME EveryReaderHasAView
  PROVE  Spec => []HintsAgree
<1>1. ASSUME RouteInv
      PROVE  HintsAgree
  <2>1. roster \in RosterRecords /\ Viewed(roster)
    BY <1>1 DEF RouteInv, Viewed
  <2>2. Declared(roster) \subseteq Groups
    BY <2>1 DEF RosterRecords, ByTeam, Declared
  <2>3. ASSUME sys = Applied(roster), NEW u \in Users, NEW g \in Declared(roster)
        PROVE  (g \in TeamAccess(roster, u))
                  = KernelReads(GroupsOf(sys, u), g, Route(roster, u, g))
    <3> DEFINE via == Route(roster, u, g)
    <3>1. /\ sys.views = roster.views /\ sys.anonymous = Public(roster)
          /\ \A h \in Groups : sys.members[h] =
                IF h \in Declared(roster) THEN roster.members[h] ELSE sys.members[h]
      BY <2>3 DEF Applied
    <3>2. \A h \in Declared(roster) : h \in GroupsOf(sys, u) <=> h \in Mine(roster, u)
      BY <2>2, <3>1 DEF GroupsOf, Mine
    <3>3. (via # None) = ReadsBy(roster, u, g)
      BY <2>1, RouteIsReaders
    <3>4. ReadsBy(roster, u, g) <=>
             g \notin Mine(roster, u) /\ roster.readers[g] \cap Mine(roster, u) # {}
      BY <2>1 DEF ReadsBy, Mine, MembersOf, Viewed
    <3>5. via # None => via \in Mine(roster, u) /\ g \in roster.views[via]
      BY DEF Route, Mine
    <3> HIDE DEF via
    <3>6. via \in Mine(roster, u) => via \in GroupsOf(sys, u)
      BY <3>2 DEF Mine
    <3>7. g \in TeamAccess(roster, u) <=>
             \/ g \in Public(roster) \/ g \in Mine(roster, u)
             \/ roster.readers[g] \cap Mine(roster, u) # {}
      BY DEF TeamAccess
    <3>8. KernelReads(GroupsOf(sys, u), g, via) <=>
             IF via = None THEN g \in Mine(roster, u) \/ g \in Public(roster)
             ELSE via \in GroupsOf(sys, u) /\ g \in roster.views[via]
      BY <3>1, <3>2 DEF KernelReads
    <3>9. g \in TeamAccess(roster, u) <=> KernelReads(GroupsOf(sys, u), g, via)
      BY <3>3, <3>4, <3>5, <3>6, <3>7, <3>8
    <3> QED BY <3>9 DEF via, KernelReads
  <2>4. ASSUME NEW u \in Users, NEW v \in roster.users, NEW admin \in BOOLEAN
        PROVE  ManageableTeams(roster, admin, u) =
                  {g \in Groups : Accepts(roster, admin, u,
                                      <<[team |-> g, user |-> v, member |-> TRUE]>>)}
    <3>1. \A x : Range(<<x>>) = {x}
      <4> SUFFICES ASSUME NEW x PROVE Range(<<x>>) = {x}
        OBVIOUS
      <4>1. DOMAIN <<x>> = 1 .. 1 /\ <<x>>[1] = x
        OBVIOUS
      <4>2. \A i : i \in 1 .. 1 <=> i = 1
        OBVIOUS
      <4> DEFINE one == <<x>>
      <4> HIDE DEF one
      <4>3. Range(one) = {x}
        BY <4>1, <4>2 DEF Range, one
      <4> QED BY <4>3 DEF one
    <3>2. \A g : Accepts(roster, admin, u, <<[team |-> g, user |-> v, member |-> TRUE]>>)
                   <=> g \in Declared(roster) /\ (admin \/ g \in Owns(roster, u))
      BY <3>1 DEF Accepts
    <3> QED BY <2>2, <3>2 DEF ManageableTeams, Owns
  <2> QED BY <2>3, <2>4 DEF HintsAgree
<1>2. Init => RouteInv
  BY RouteInvInit
<1>3. TeamInv /\ LinkInv /\ RouteInv /\ [Next]_vars => RouteInv'
  BY RouteInvStep
<1> QED BY <1>1, <1>2, <1>3, TeamInvHolds, LinkInvHolds, PTL DEF Spec
=============================================================================
