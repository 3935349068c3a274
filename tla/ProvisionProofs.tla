--------------------------- MODULE ProvisionProofs ---------------------------
(***************************************************************************)
(* The properties of Provision for any identities, accounts, sign-ins and  *)
(* limits.  StatusInv is of the types and of the rules file; AnswerInv     *)
(* adds what a sign-in knows of the account it was given; LimitInv adds    *)
(* what the two records of reserve say of the calls that were made.        *)
(***************************************************************************)
EXTENDS Provision, FiniteSetTheorems, TLAPS

---------------------------------------------------------------------------
(* The calls of the last hour.                                             *)

\* A set of numbers below a bound has a least one.
LEMMA Least ==
  ASSUME NEW n \in Nat, NEW T \in SUBSET (0 .. n), T # {}
  PROVE  \E x \in T : \A y \in T : x <= y
<1> DEFINE I == 1 .. n
           W == {1 .. x : x \in T}
<1>1. IsFiniteSet(I)
  BY FS_Interval
<1>2. \A x \in T : x \in Nat /\ 1 .. x \subseteq I
  OBVIOUS
<1>3. \A w \in W : w \in FiniteSubsetsOf(I)
  BY <1>1, <1>2, FS_Interval, FS_Subset DEF FiniteSubsetsOf
<1>4. W # {}
  OBVIOUS
<1>5. PICK w \in W : \A v \in W : ~(<<v, w>> \in StrictSubsetOrdering(I))
  <2> HIDE DEF W, I
  <2> QED BY <1>3, <1>4, FS_StrictSubsetOrderingWellFounded, WFMin
<1>6. PICK x \in T : w = 1 .. x
  OBVIOUS
<1>7. ASSUME NEW y \in T PROVE x <= y
  <2>1. ~(<<1 .. y, 1 .. x>> \in StrictSubsetOrdering(I))
    BY <1>5, <1>6
  <2>2. x \in Nat /\ y \in Nat
    BY <1>2
  <2>3. SUFFICES ASSUME y < x PROVE FALSE
    BY <2>2
  <2>4. 1 .. y \subseteq 1 .. x /\ x \in 1 .. x /\ x \notin 1 .. y
    BY <2>2, <2>3
  <2> QED BY <1>2, <2>1, <2>4 DEF StrictSubsetOrdering
<1> QED BY <1>7

\* What holds of 0 and passes from each number to the next holds up to any number.
LEMMA UpTo ==
  ASSUME NEW n \in Nat, NEW S, 0 \in S, \A i \in 0 .. n - 1 : i \in S => i + 1 \in S
  PROVE  0 .. n \subseteq S
<1> DEFINE T == (0 .. n) \ S
<1>1. SUFFICES ASSUME T # {} PROVE FALSE
  OBVIOUS
<1>2. PICK x \in T : \A y \in T : x <= y
  <2> HIDE DEF T
  <2> SUFFICES T \in SUBSET (0 .. n)
    BY <1>1, Least
  <2> QED BY DEF T
<1>3. x \in 1 .. n /\ x - 1 \in 0 .. n - 1 /\ x - 1 \notin T
  BY <1>2
<1> QED BY <1>3

\* The loop of reserve, call by call.
LEMMA KeptSteps ==
  ASSUME Len(calls) \in Nat
  PROVE  /\ KeptUpTo[0] = <<>>
         /\ \A n \in 1 .. Len(calls) :
               KeptUpTo[n] = IF InHour(calls[n]) THEN Append(KeptUpTo[n - 1], calls[n])
                             ELSE KeptUpTo[n - 1]
<1> DEFINE More(s, n) == IF InHour(calls[n]) THEN Append(s, calls[n]) ELSE s
           Body(g, n) == IF n = 0 THEN <<>> ELSE More(g[n - 1], n)
           Is(g, n) == g = [i \in 0 .. n |-> Body(g, i)]
           S == {n \in 0 .. Len(calls) : \E g : Is(g, n)}
<1>1. 0 \in S
  <2> DEFINE g0 == [i \in 0 .. 0 |-> <<>>]
  <2>1. Is(g0, 0)
    OBVIOUS
  <2> HIDE DEF Is, g0
  <2> QED BY <2>1
<1> HIDE DEF More
<1>2. ASSUME NEW i \in 0 .. Len(calls) - 1, i \in S
      PROVE  i + 1 \in S
  <2>1. PICK g : Is(g, i)
    BY <1>2
  <2> DEFINE h == [j \in 0 .. i + 1 |-> IF j = i + 1 THEN More(g[i], j) ELSE g[j]]
  <2>2. ASSUME NEW j \in 0 .. i + 1
        PROVE  h[j] = Body(h, j)
    <3>1. CASE j = 0
      BY <2>1, <3>1
    <3>2. CASE j \in 1 .. i
      <4>1. g[j] = Body(g, j)
        BY <2>1, <3>2
      <4>2. h[j] = g[j] /\ h[j - 1] = g[j - 1] /\ j # 0
        BY <3>2
      <4> QED BY <4>1, <4>2
    <3>3. CASE j = i + 1
      <4>1. h[j] = More(g[i], j) /\ h[j - 1] = g[i] /\ j # 0
        BY <3>3
      <4> QED BY <4>1
    <3> QED BY <3>1, <3>2, <3>3
  <2>3. Is(h, i + 1)
    <3> HIDE DEF Body
    <3> QED BY <2>2
  <2>4. i + 1 \in 0 .. Len(calls)
    BY <1>2
  <2> QED BY <2>3, <2>4
<1>3. Len(calls) \in S
  <2>1. \A i \in 0 .. Len(calls) - 1 : i \in S => i + 1 \in S
    BY <1>2
  <2> HIDE DEF S
  <2>2. 0 .. Len(calls) \subseteq S
    BY <1>1, <2>1, UpTo
  <2> QED BY <2>2
<1>4. KeptUpTo = CHOOSE g : Is(g, Len(calls))
  BY Zenon DEF KeptUpTo, More
<1>5. Is(KeptUpTo, Len(calls))
  <2> HIDE DEF Is
  <2> QED BY <1>3, <1>4
<1>6. \A n \in 0 .. Len(calls) : KeptUpTo[n] = Body(KeptUpTo, n)
  <2> HIDE DEF Body
  <2> QED BY <1>5
<1> QED BY <1>6 DEF More

\* What reserve remembers is of what it remembered.
LEMMA KeptTyped ==
  ASSUME NEW T, calls \in Seq(T)
  PROVE  Kept \in Seq(T)
<1> DEFINE S == {n \in 0 .. Len(calls) : KeptUpTo[n] \in Seq(T)}
<1>0. Len(calls) \in Nat
  OBVIOUS
<1>1. 0 \in S
  <2>1. KeptUpTo[0] = <<>> /\ 0 \in 0 .. Len(calls)
    BY <1>0, KeptSteps
  <2>2. <<>> \in Seq(T)
    OBVIOUS
  <2> QED BY <2>1, <2>2
<1>2. ASSUME NEW n \in 0 .. Len(calls) - 1, n \in S
      PROVE  n + 1 \in S
  <2>1. /\ n + 1 \in 1 .. Len(calls) /\ (n + 1) - 1 = n
        /\ KeptUpTo[n + 1] = IF InHour(calls[n + 1]) THEN Append(KeptUpTo[n], calls[n + 1])
                             ELSE KeptUpTo[n]
    BY <1>0, KeptSteps
  <2>2. calls[n + 1] \in T /\ KeptUpTo[n] \in Seq(T)
    BY <1>2, <2>1
  <2>3. KeptUpTo[n + 1] \in Seq(T) /\ n + 1 \in 0 .. Len(calls)
    BY <1>0, <2>1, <2>2
  <2> QED BY <2>3
<1>3. 0 .. Len(calls) \subseteq S
  <2>1. \A n \in 0 .. Len(calls) - 1 : n \in S => n + 1 \in S
    BY <1>2
  <2> HIDE DEF S
  <2> QED BY <1>0, <1>1, <2>1, UpTo
<1> QED BY <1>0, <1>3 DEF Kept

\* Calls are remembered in the order they were made, so that what is forgotten of
\* them is a first part.
LEMMA KeptIsLast ==
  ASSUME calls \in Seq(Nat), now \in Nat, Hour \in Nat,
         \A j, k \in 1 .. Len(calls) : j < k => calls[j] <= calls[k]
  PROVE  /\ Kept \in Seq(Nat)
         /\ \E m \in 0 .. Len(calls) :
               /\ Len(Kept) = Len(calls) - m
               /\ \A j \in 1 .. Len(Kept) : Kept[j] = calls[m + j]
               /\ \A j \in 1 .. m : ~InHour(calls[j])
<1> DEFINE Rest(n, m) ==
             /\ KeptUpTo[n] \in Seq(Nat) /\ Len(KeptUpTo[n]) = n - m
             /\ \A j \in 1 .. n - m : KeptUpTo[n][j] = calls[m + j]
             /\ \A j \in 1 .. m : ~InHour(calls[j])
             /\ n > m => InHour(calls[m + 1])
           S == {n \in 0 .. Len(calls) : \E m \in 0 .. n : Rest(n, m)}
<1>0. Len(calls) \in Nat /\ \A j \in 1 .. Len(calls) : calls[j] \in Nat
  OBVIOUS
<1>1. 0 \in S
  <2>0. KeptUpTo[0] = <<>> /\ <<>> \in Seq(Nat) /\ Len(<<>>) = 0
    BY <1>0, KeptSteps
  <2>1. Rest(0, 0)
    BY <1>0, <2>0
  <2> HIDE DEF Rest
  <2> QED BY <1>0, <2>1
<1>2. ASSUME NEW n \in 0 .. Len(calls) - 1, n \in S
      PROVE  n + 1 \in S
  <2>1. PICK m \in 0 .. n : Rest(n, m)
    BY <1>2
  <2>2. /\ n \in Nat /\ m \in Nat /\ n + 1 \in 1 .. Len(calls) /\ (n + 1) - 1 = n
        /\ KeptUpTo[n + 1] = IF InHour(calls[n + 1]) THEN Append(KeptUpTo[n], calls[n + 1])
                             ELSE KeptUpTo[n]
    BY <1>0, KeptSteps
  <2>3. CASE InHour(calls[n + 1])
    <3> DEFINE s == KeptUpTo[n]
               t == KeptUpTo[n + 1]
               c == calls[n + 1]
    <3>a. t = Append(s, c) /\ s \in Seq(Nat) /\ Len(s) = n - m /\ c \in Nat
      BY <1>0, <2>1, <2>2, <2>3
    <3>b. \A j \in 1 .. n - m : s[j] = calls[m + j]
      BY <2>1
    <3>c. n > m => InHour(calls[m + 1])
      BY <2>1
    <3>d. \A j \in 1 .. m : ~InHour(calls[j])
      BY <2>1
    <3> HIDE DEF s, t
    <3>e. t \in Seq(Nat) /\ Len(t) = n + 1 - m
      BY <2>2, <3>a
    <3>f. \A j \in 1 .. n + 1 - m : t[j] = calls[m + j]
      BY <2>2, <3>a, <3>b
    <3>g. n + 1 > m => InHour(calls[m + 1])
      BY <2>2, <2>3, <3>c
    <3>1. Rest(n + 1, m)
      BY <3>d, <3>e, <3>f, <3>g DEF t
    <3> HIDE DEF Rest
    <3> QED BY <2>2, <3>1
  <2>4. CASE ~InHour(calls[n + 1])
    <3>1. n = m
      <4>1. SUFFICES ASSUME n > m PROVE FALSE
        BY <2>1, <2>2
      <4>2. InHour(calls[m + 1])
        BY <2>1, <4>1
      <4>3. m + 1 \in 1 .. Len(calls) /\ m + 1 < n + 1
        BY <1>0, <2>2, <4>1
      <4>4. calls[m + 1] <= calls[n + 1]
        BY <2>2, <4>3
      <4> QED BY <1>0, <2>2, <2>4, <4>2, <4>3, <4>4 DEF InHour
    <3>2. Rest(n + 1, n + 1)
      BY <1>0, <2>1, <2>2, <2>4, <3>1
    <3> HIDE DEF Rest
    <3> QED BY <2>2, <3>2
  <2> QED BY <2>3, <2>4
<1>3. Len(calls) \in S
  <2>1. \A n \in 0 .. Len(calls) - 1 : n \in S => n + 1 \in S
    BY <1>2
  <2> HIDE DEF S
  <2>2. 0 .. Len(calls) \subseteq S
    BY <1>0, <1>1, <2>1, UpTo
  <2> QED BY <1>0, <2>2
<1>4. PICK m \in 0 .. Len(calls) : Rest(Len(calls), m)
  BY <1>3
<1> QED BY <1>0, <1>4 DEF Kept

---------------------------------------------------------------------------
(* Types, the rules file, and what a sign-in knows.                        *)

Late == {"check", "await", "bind", "gate"}

\* Who is under way has an identity, and an account from the answer on.
Named ==
    \A p \in Procs :
        /\ pc[p] \notin Ended => run[p].id \in Ids
        /\ pc[p] \in Late => run[p].acct \in Accounts

\* Once the account has been looked at, it did not exist when it was answered, or
\* the name service did not find it; until then, one that did exist goes on existing.
Knows(p) ==
    /\ pc[p] = "check" /\ run[p].existed => Resolves(run[p].acct)
    /\ pc[p] \in {"await", "bind"} => /\ run[p].existed => run[p].unseen
                                      /\ run[p].unseen => NameFails

Answered == \A p \in Procs : Knows(p)

StatusInv == StatusTells /\ Named

AnswerInv == StatusInv /\ Answered

\* The locals of a sign-in.
RunRecords ==
    [id : Ids \cup {None}, acct : Accounts \cup {None},
     deadline : 0 .. (MaxNow + Wait), existed : BOOLEAN, unseen : BOOLEAN]

\* What a sign-in does to itself: only its own place and locals, and both known.
LEMMA RunTyped ==
  ASSUME StatusInv, NEW p \in Procs, NEW l \in Labels, NEW r \in RunRecords,
         l \notin Ended => r.id \in Ids, l \in Late => r.acct \in Accounts,
         pc' = [pc EXCEPT ![p] = l], run' = [run EXCEPT ![p] = r]
  PROVE  pc' \in [Procs -> Labels] /\ Named' /\ run' \in [Procs -> RunRecords]
BY DEF StatusInv, StatusTells, TypeOK, Named, RunRecords

\* The three ways a sign-in goes on, by what it may be at.
LEMMA EndTyped ==
  ASSUME StatusInv, NEW p \in Procs, NEW l \in Ended, End(p, l)
  PROVE  pc' \in [Procs -> Labels] /\ Named' /\ run' \in [Procs -> RunRecords]
<1>1. /\ NoRun \in RunRecords /\ l \in Labels /\ l \notin Late
      /\ pc' = [pc EXCEPT ![p] = l] /\ run' = [run EXCEPT ![p] = NoRun]
  BY ConstantsOK DEF NoRun, RunRecords, Labels, Late, Ended, End, Goto
<1> QED BY <1>1, RunTyped DEF RunRecords

\* Every step of a sign-in, but for reserve.
LEMMA SignInStep ==
  ASSUME StatusInv, NEW p \in Procs,
         \/ \E i \in Ids : Begin(p, i)
         \/ \E a \in Accounts : Create(p, a) \/ AnswerCreated(p, a)
         \/ AnswerOther(p) \/ Check(p) \/ Arrived(p) \/ TimesOut(p) \/ Leaves(p)
         \/ Bind(p) \/ Gate(p)
  PROVE  /\ pc' \in [Procs -> Labels] /\ Named' /\ run' \in [Procs -> RunRecords]
         /\ status' \in [Accounts -> Statuses] /\ binding' \in [Accounts -> Ids \cup {None}]
         /\ UNCHANGED <<now, watcher, limits>>
<1>0. /\ run \in [Procs -> RunRecords] /\ pc \in [Procs -> Labels] /\ Named
      /\ status \in [Accounts -> Statuses] /\ binding \in [Accounts -> Ids \cup {None}]
      /\ now \in 0 .. MaxNow /\ Wait \in Nat /\ MaxNow \in Nat
  BY ConstantsOK DEF StatusInv, StatusTells, TypeOK, RunRecords
<1>1. ASSUME NEW i \in Ids, Begin(p, i)
      PROVE  pc' \in [Procs -> Labels] /\ Named' /\ run' \in [Procs -> RunRecords]
             /\ UNCHANGED <<now, watcher, limits, world>>
  <2>1. PICK r \in RunRecords, l \in Labels :
           /\ r.id = i /\ (l = "gate" => r.acct \in Accounts)
           /\ l \in {"gate", "reserve", "queued"}
           /\ pc' = [pc EXCEPT ![p] = l] /\ run' = [run EXCEPT ![p] = r]
    <3>1. CASE \E a \in Accounts :
                 /\ run' = [run EXCEPT ![p] = [NoRun EXCEPT !.id = i, !.acct = a]]
                 /\ Goto(p, "gate")
      <4>1. PICK a \in Accounts :
                 /\ run' = [run EXCEPT ![p] = [NoRun EXCEPT !.id = i, !.acct = a]]
                 /\ Goto(p, "gate")
        BY <3>1
      <4>2. "gate" \in Labels /\ 0 \in 0 .. (MaxNow + Wait)
        BY <1>0 DEF Labels
      <4>3. [NoRun EXCEPT !.id = i, !.acct = a] =
               [id |-> i, acct |-> a, deadline |-> 0, existed |-> FALSE, unseen |-> FALSE]
        <5>1. \A b : [[id |-> None, acct |-> None, deadline |-> 0, existed |-> b, unseen |-> b]
                        EXCEPT !.id = i] =
                    [id |-> i, acct |-> None, deadline |-> 0, existed |-> b, unseen |-> b]
          OBVIOUS
        <5>2. \A b : [[id |-> i, acct |-> None, deadline |-> 0, existed |-> b, unseen |-> b]
                        EXCEPT !.acct = a] =
                    [id |-> i, acct |-> a, deadline |-> 0, existed |-> b, unseen |-> b]
          OBVIOUS
        <5>3. [NoRun EXCEPT !.id = i, !.acct = a] = [[NoRun EXCEPT !.id = i] EXCEPT !.acct = a]
          BY Zenon DEF NoRun
        <5> QED BY <5>1, <5>2, <5>3, Zenon DEF NoRun
      <4>4. [NoRun EXCEPT !.id = i, !.acct = a] \in RunRecords
        BY <4>2, <4>3 DEF RunRecords
      <4> QED BY <4>1, <4>2, <4>3, <4>4 DEF Goto
    <3>2. CASE /\ run' = [run EXCEPT ![p] = [NoRun EXCEPT !.id = i]]
               /\ Goto(p, IF i \in Matches[cfg] THEN "reserve" ELSE "queued")
      <4>1. {"reserve", "queued"} \subseteq Labels /\ 0 \in 0 .. (MaxNow + Wait)
        BY <1>0 DEF Labels, Ended
      <4>2. [NoRun EXCEPT !.id = i] =
               [id |-> i, acct |-> None, deadline |-> 0, existed |-> FALSE, unseen |-> FALSE]
        <5>1. \A b : [[id |-> None, acct |-> None, deadline |-> 0, existed |-> b, unseen |-> b]
                        EXCEPT !.id = i] =
                    [id |-> i, acct |-> None, deadline |-> 0, existed |-> b, unseen |-> b]
          OBVIOUS
        <5> QED BY <5>1, Zenon DEF NoRun
      <4>3. [NoRun EXCEPT !.id = i] \in RunRecords
        BY <4>1, <4>2 DEF RunRecords
      <4> QED BY <3>2, <4>1, <4>2, <4>3 DEF Goto
    <3> QED BY <1>1, <3>1, <3>2 DEF Begin
  <2>2. l \in Late => r.acct \in Accounts
    BY <2>1 DEF Late
  <2> QED BY <1>1, <2>1, <2>2, RunTyped DEF RunRecords, Begin
<1>2. ASSUME NEW a \in Accounts, AnswerCreated(p, a)
      PROVE  pc' \in [Procs -> Labels] /\ Named' /\ run' \in [Procs -> RunRecords]
  <2>1. pc[p] = "calling" /\ "check" \in Labels /\ run[p].id \in Ids
    BY <1>0, <1>2 DEF AnswerCreated, Labels, Named, Ended
  <2>2. run' = [run EXCEPT ![p] = [run[p] EXCEPT !.acct = a, !.existed = Resolves(a)]]
        /\ pc' = [pc EXCEPT ![p] = "check"]
    BY <1>2 DEF AnswerCreated, Goto
  <2>3. [run[p] EXCEPT !.acct = a, !.existed = Resolves(a)] \in RunRecords
    <3>1. ASSUME NEW b \in BOOLEAN
          PROVE  [run[p] EXCEPT !.acct = a, !.existed = b] \in RunRecords
      BY <1>0 DEF RunRecords
    <3>2. Resolves(a) \in BOOLEAN
      BY DEF Resolves
    <3> QED BY <3>1, <3>2, Zenon
  <2>4. [run[p] EXCEPT !.acct = a, !.existed = Resolves(a)].acct = a
        /\ [run[p] EXCEPT !.acct = a, !.existed = Resolves(a)].id = run[p].id
    BY <1>0 DEF RunRecords
  <2> QED BY <2>1, <2>2, <2>3, <2>4, RunTyped DEF RunRecords
<1>3. ASSUME Check(p), Goto(p, "await"),
             run' = [run EXCEPT ![p].deadline = now + Wait, ![p].unseen = Exists(run[p].acct)]
      PROVE  pc' \in [Procs -> Labels] /\ Named' /\ run' \in [Procs -> RunRecords]
  <2>1. pc[p] = "check" /\ "await" \in Labels /\ run[p].id \in Ids /\ run[p].acct \in Accounts
    BY <1>0, <1>3 DEF Check, Labels, Named, Ended, Late
  <2> DEFINE Waiting(b) == [run[p] EXCEPT !.deadline = now + Wait, !.unseen = b]
             found == Exists(run[p].acct)
  <2>2. run' = [run EXCEPT ![p] = Waiting(found)] /\ pc' = [pc EXCEPT ![p] = "await"]
    BY <1>3 DEF Goto
  <2>3. \A b \in BOOLEAN : /\ Waiting(b) \in RunRecords
                          /\ Waiting(b).id = run[p].id /\ Waiting(b).acct = run[p].acct
    <3>1. now + Wait \in 0 .. (MaxNow + Wait) /\ run[p] \in RunRecords
      BY <1>0
    <3>2. ASSUME NEW d \in 0 .. (MaxNow + Wait), NEW b \in BOOLEAN
          PROVE  /\ [run[p] EXCEPT !.deadline = d, !.unseen = b] \in RunRecords
                 /\ [run[p] EXCEPT !.deadline = d, !.unseen = b].id = run[p].id
                 /\ [run[p] EXCEPT !.deadline = d, !.unseen = b].acct = run[p].acct
      BY <3>1 DEF RunRecords
    <3> QED BY <3>1, <3>2, Zenon
  <2>4. found \in BOOLEAN
    BY DEF Exists, Resolves
  <2> HIDE DEF Waiting, found
  <2>5. PICK r \in RunRecords : /\ run' = [run EXCEPT ![p] = r]
                                /\ r.id = run[p].id /\ r.acct = run[p].acct
    BY <2>2, <2>3, <2>4, Zenon
  <2> QED BY <2>1, <2>2, <2>5, RunTyped DEF RunRecords
<1>4. ASSUME NEW l \in {"bind", "gate"}, pc[p] \in Late, Goto(p, l), run' = run
      PROVE  pc' \in [Procs -> Labels] /\ Named' /\ run' \in [Procs -> RunRecords]
  BY <1>0, <1>4 DEF Goto, Labels, Named, Late, Ended
<1>5. ASSUME NEW l \in Ended, End(p, l)
      PROVE  pc' \in [Procs -> Labels] /\ Named' /\ run' \in [Procs -> RunRecords]
  BY <1>5, EndTyped
<1>6. ASSUME Bind(p)
      PROVE  binding' \in [Accounts -> Ids \cup {None}]
  <2>1. run[p].id \in Ids
    BY <1>0, <1>6 DEF Bind, Named, Ended
  <2> QED BY <1>0, <1>6, <2>1 DEF Bind
<1>7. ASSUME NEW a \in Accounts, Create(p, a)
      PROVE  status' \in [Accounts -> Statuses] /\ UNCHANGED <<binding, pc, run>>
  BY <1>0, <1>7 DEF Create, Statuses
<1>8. {"in", "queued", "refused"} \subseteq Ended /\ {"await", "bind"} \subseteq Late
  BY DEF Ended, Late
<1>9. CASE \E a \in Accounts : Create(p, a)
  BY <1>0, <1>7, <1>9 DEF Create, Named
<1>10. CASE \E a \in Accounts : AnswerCreated(p, a)
  BY <1>0, <1>2, <1>10 DEF AnswerCreated, world
<1>11. CASE AnswerOther(p) \/ TimesOut(p) \/ Leaves(p)
  BY <1>0, <1>5, <1>8, <1>11 DEF AnswerOther, TimesOut, Leaves, world
<1>12. CASE Check(p)
  BY <1>0, <1>3, <1>5, <1>8, <1>12 DEF Check, world
<1>13. CASE Arrived(p)
  BY <1>0, <1>4, <1>8, <1>13 DEF Arrived, world
<1>14. CASE Bind(p)
  BY <1>0, <1>4, <1>5, <1>6, <1>8, <1>14 DEF Bind
<1>15. CASE Gate(p)
  BY <1>0, <1>5, <1>8, <1>15 DEF Gate, world
<1>16. CASE \E i \in Ids : Begin(p, i)
  BY <1>0, <1>1, <1>16 DEF world
<1> QED BY <1>9, <1>10, <1>11, <1>12, <1>13, <1>14, <1>15, <1>16

\* reserve is passed with the two records typed, and on to the queue or the call.
LEMMA ReserveStep ==
  ASSUME StatusInv, NEW p \in Procs, Reserve(p)
  PROVE  /\ pc' \in [Procs -> Labels] /\ Named' /\ run' \in [Procs -> RunRecords]
         /\ fired' \in [Ids -> 0 .. MaxNow \cup {None}] /\ calls' \in Seq(0 .. MaxNow)
         /\ made' \in Seq(Ids \X (0 .. MaxNow))
         /\ UNCHANGED <<now, watcher, world>>
<1>0. /\ run \in [Procs -> RunRecords] /\ pc \in [Procs -> Labels] /\ Named
      /\ fired \in [Ids -> 0 .. MaxNow \cup {None}] /\ calls \in Seq(0 .. MaxNow)
      /\ made \in Seq(Ids \X (0 .. MaxNow)) /\ now \in 0 .. MaxNow
  BY DEF StatusInv, StatusTells, TypeOK, RunRecords
<1>1. pc[p] = "reserve" /\ run[p].id \in Ids /\ "queued" \in Ended /\ "calling" \in Labels
  BY <1>0 DEF Reserve, Named, Ended, Labels
<1>2. Kept \in Seq(0 .. MaxNow)
  BY <1>0, KeptTyped
<1>3. ASSUME End(p, "queued")
      PROVE  pc' \in [Procs -> Labels] /\ Named' /\ run' \in [Procs -> RunRecords]
  BY <1>1, <1>3, EndTyped
<1>4. CASE End(p, "queued") /\ UNCHANGED limits
  BY <1>0, <1>3, <1>4 DEF Reserve, limits
<1>5. CASE End(p, "queued") /\ calls' = Kept /\ UNCHANGED <<fired, made>>
  BY <1>0, <1>2, <1>3, <1>5 DEF Reserve
<1>6. CASE /\ fired' = Cleaned([fired EXCEPT ![run[p].id] = now])
           /\ calls' = Append(Kept, now) /\ made' = Append(made, <<run[p].id, now>>)
           /\ Goto(p, "calling") /\ UNCHANGED run
  <2>1. pc' \in [Procs -> Labels] /\ Named' /\ run' \in [Procs -> RunRecords]
    BY <1>0, <1>1, <1>6 DEF Goto, Named, Late, Ended
  <2>2. \A f \in [Ids -> 0 .. MaxNow \cup {None}] :
           Cleaned(f) \in [Ids -> 0 .. MaxNow \cup {None}]
    BY DEF Cleaned
  <2>3. fired' \in [Ids -> 0 .. MaxNow \cup {None}]
    <3>1. [fired EXCEPT ![run[p].id] = now] \in [Ids -> 0 .. MaxNow \cup {None}]
      BY <1>0
    <3> QED BY <1>6, <2>2, <3>1
  <2>4. calls' \in Seq(0 .. MaxNow) /\ made' \in Seq(Ids \X (0 .. MaxNow))
    <3>1. <<run[p].id, now>> \in Ids \X (0 .. MaxNow)
      BY <1>0, <1>1
    <3> QED BY <1>0, <1>2, <1>6, <3>1
  <2> QED BY <2>1, <2>3, <2>4 DEF Reserve
<1> QED BY <1>4, <1>5, <1>6 DEF Reserve

\* The types and the rules file, kept by every step.
LEMMA StatusInvKept ==
  StatusInv /\ [Next]_vars => StatusInv'
<1> SUFFICES ASSUME StatusInv, [Next]_vars PROVE StatusInv'
  OBVIOUS
<1>0. TypeOK /\ Named /\ Broken \notin Usable
  BY ConstantsOK DEF StatusInv, StatusTells
<1>1. CASE UNCHANGED vars
  BY <1>1 DEF StatusInv, StatusTells, TypeOK, Named, vars, watcher, limits, world
<1>2. ASSUME NEW f \in Usable \cup {Broken}, Edit(f)
      PROVE  StatusInv'
  BY <1>2 DEF StatusInv, StatusTells, TypeOK, Named, Edit, limits, world
<1>3. CASE Reload
  BY <1>0, <1>3 DEF StatusInv, StatusTells, TypeOK, Named, Reload, Reject, limits, world
<1>4. ASSUME NEW p \in Procs,
             \/ \E i \in Ids : Begin(p, i)
             \/ \E a \in Accounts : Create(p, a) \/ AnswerCreated(p, a)
             \/ AnswerOther(p) \/ Check(p) \/ Arrived(p) \/ TimesOut(p) \/ Leaves(p)
             \/ Bind(p) \/ Gate(p)
      PROVE  StatusInv'
  <2>1. /\ pc' \in [Procs -> Labels] /\ Named' /\ run' \in [Procs -> RunRecords]
        /\ status' \in [Accounts -> Statuses] /\ binding' \in [Accounts -> Ids \cup {None}]
        /\ UNCHANGED <<now, watcher, limits>>
    BY <1>4, SignInStep
  <2> QED BY <2>1 DEF StatusInv, StatusTells, TypeOK, RunRecords, watcher, limits
<1>5. ASSUME NEW p \in Procs, Reserve(p)
      PROVE  StatusInv'
  <2>1. /\ pc' \in [Procs -> Labels] /\ Named' /\ run' \in [Procs -> RunRecords]
        /\ fired' \in [Ids -> 0 .. MaxNow \cup {None}] /\ calls' \in Seq(0 .. MaxNow)
        /\ made' \in Seq(Ids \X (0 .. MaxNow))
        /\ UNCHANGED <<now, watcher, world>>
    BY <1>5, ReserveStep
  <2> QED BY <2>1 DEF StatusInv, StatusTells, TypeOK, RunRecords, watcher, world
<1>6. ASSUME NEW a \in Accounts, Move(a)
      PROVE  StatusInv'
  <2>1. status' \in [Accounts -> Statuses]
    BY <1>0, <1>6 DEF Move, Moves, TypeOK, Statuses
  <2> QED BY <1>6, <2>1 DEF StatusInv, StatusTells, TypeOK, Named, Move, watcher, limits
<1>7. CASE Tick
  <2>1. now' \in 0 .. MaxNow
    BY <1>0, <1>7, ConstantsOK DEF TypeOK, Tick
  <2> QED BY <1>7, <2>1 DEF StatusInv, StatusTells, TypeOK, Named, Tick, watcher, limits, world
<1> QED BY <1>1, <1>2, <1>3, <1>4, <1>5, <1>6, <1>7 DEF Next

\* A program that starts has a usable file in force, and nobody signing in.
LEMMA StatusInvInit ==
  Init => StatusInv
<1> SUFFICES ASSUME Init PROVE StatusInv
  OBVIOUS
<1>1. run \in [Procs -> RunRecords] /\ pc \in [Procs -> Labels] /\ Named
  <2>1. NoRun \in RunRecords /\ "idle" \in Labels /\ "idle" \in Ended /\ "idle" \notin Late
    BY ConstantsOK DEF NoRun, RunRecords, Labels, Ended, Late
  <2> QED BY <2>1 DEF Init, Named
<1>2. now \in 0 .. MaxNow /\ file \in Usable /\ cfg = file /\ {error, looked} \subseteq BOOLEAN
  <2>1. {error, looked} \subseteq BOOLEAN
    BY Zenon DEF Init
  <2> QED BY <2>1, ConstantsOK DEF Init
<1>3. /\ fired \in [Ids -> 0 .. MaxNow \cup {None}] /\ calls \in Seq(0 .. MaxNow)
      /\ made \in Seq(Ids \X (0 .. MaxNow))
  BY DEF Init
<1>4. status \in [Accounts -> Statuses] /\ binding \in [Accounts -> Ids \cup {None}]
  BY DEF Init, Statuses
<1>5. TypeOK
  BY <1>1, <1>2, <1>3, <1>4 DEF TypeOK, RunRecords
<1> QED BY <1>1, <1>2, <1>5, ConstantsOK DEF StatusInv, StatusTells

\* After a look at the rules file, what the operator is told of it is true: a
\* usable one is in force, and for any other there is an error (Watcher.Run).
THEOREM StatusTellsHolds == Spec => []StatusTells
<1>1. StatusInv => StatusTells
  BY DEF StatusInv
<1> QED BY <1>1, StatusInvInit, StatusInvKept, PTL DEF Spec

---------------------------------------------------------------------------
(* What a sign-in is bound to.                                             *)

\* An account that resolves goes on resolving: nobody takes one away.
LEMMA ResolvesOn ==
  ASSUME StatusInv, [Next]_vars, NEW a \in Accounts, Resolves(a)
  PROVE  Resolves(a)'
<1>0. status \in [Accounts -> Statuses]
  BY DEF StatusInv, StatusTells, TypeOK
<1>1. ASSUME NEW b \in Accounts, status[b] = "none", status' = [status EXCEPT ![b] = "declared"]
      PROVE  Resolves(a)'
  BY <1>0, <1>1 DEF Resolves
<1>2. ASSUME NEW b \in Accounts, Move(b)
      PROVE  Resolves(a)'
  BY <1>0, <1>2 DEF Resolves, Move, Moves
<1>3. CASE status' = status
  BY <1>3 DEF Resolves
<1>4. ASSUME NEW p \in Procs,
             \/ \E i \in Ids : Begin(p, i)
             \/ \E b \in Accounts : AnswerCreated(p, b)
             \/ Reserve(p) \/ AnswerOther(p) \/ Check(p)
             \/ Arrived(p) \/ TimesOut(p) \/ Leaves(p) \/ Bind(p) \/ Gate(p)
      PROVE  status' = status
  BY <1>4 DEF Begin, AnswerCreated, Reserve, AnswerOther, Check, Arrived, TimesOut, Leaves,
              Bind, Gate, world
<1>5. CASE \/ UNCHANGED vars \/ Reload \/ Tick \/ \E f \in Usable \cup {Broken} : Edit(f)
  <2>1. status' = status
    BY <1>5 DEF vars, Reload, Tick, Edit, world
  <2> QED BY <1>3, <2>1
<1>6. CASE \E p \in Procs, b \in Accounts : Create(p, b)
  BY <1>1, <1>6 DEF Create
<1> QED BY <1>2, <1>3, <1>4, <1>5, <1>6 DEF Next

\* A sign-in that does nothing knows what it knew.
LEMMA KnowsOn ==
  ASSUME AnswerInv, [Next]_vars, NEW q \in Procs, pc'[q] = pc[q], run'[q] = run[q]
  PROVE  Knows(q)'
<1>1. Knows(q) /\ (pc[q] = "check" => run[q].acct \in Accounts) /\ StatusInv
  BY DEF AnswerInv, Answered, Knows, StatusInv, Named, Late
<1>2. CASE pc[q] = "check" /\ run[q].existed
  <2>1. PICK a \in Accounts : a = run[q].acct
    BY <1>1, <1>2
  <2>2. Resolves(a)
    BY <1>1, <1>2, <2>1 DEF Knows
  <2>3. Resolves(a)'
    BY <1>1, <2>2, ResolvesOn
  <2>4. run'[q].acct = a
    BY <2>1
  <2> QED BY <1>1, <1>2, <2>3, <2>4 DEF Knows, Resolves
<1>3. CASE ~(pc[q] = "check" /\ run[q].existed)
  BY <1>1, <1>3 DEF Knows
<1> QED BY <1>2, <1>3

\* The steps after the answer: what existed is found to, since it still does, when
\* the name service answers.
LEMMA KnowsNext ==
  ASSUME AnswerInv, NEW p \in Procs,
         \/ \E i \in Ids : Begin(p, i)
         \/ \E a \in Accounts : AnswerCreated(p, a)
         \/ Reserve(p) \/ AnswerOther(p) \/ Check(p)
         \/ Arrived(p) \/ TimesOut(p) \/ Leaves(p) \/ Bind(p) \/ Gate(p)
  PROVE  Knows(p)' /\ \A q \in Procs \ {p} : pc'[q] = pc[q] /\ run'[q] = run[q]
<1>0. pc \in [Procs -> Labels] /\ run \in [Procs -> RunRecords] /\ Knows(p)
  BY DEF AnswerInv, StatusInv, StatusTells, TypeOK, RunRecords, Answered, Knows
<1>1. ASSUME NEW l \in Labels \ {"check", "await", "bind"}, NEW r,
             pc' = [pc EXCEPT ![p] = l], run' = [run EXCEPT ![p] = r]
      PROVE  Knows(p)' /\ \A q \in Procs \ {p} : pc'[q] = pc[q] /\ run'[q] = run[q]
  BY <1>0, <1>1 DEF Knows
<1>2. ASSUME NEW l \in Labels \ {"check", "await", "bind"}, End(p, l)
      PROVE  Knows(p)' /\ \A q \in Procs \ {p} : pc'[q] = pc[q] /\ run'[q] = run[q]
  BY <1>1, <1>2 DEF End, Goto
<1>3. ASSUME NEW l \in Labels \ {"check", "await", "bind"}, Goto(p, l), UNCHANGED run
      PROVE  Knows(p)' /\ \A q \in Procs \ {p} : pc'[q] = pc[q] /\ run'[q] = run[q]
  BY <1>0, <1>3 DEF Goto, Knows
<1>4. {"in", "queued", "refused", "gate", "reserve", "calling"} \subseteq
        Labels \ {"check", "await", "bind"}
  BY DEF Labels, Ended
<1>5. ASSUME NEW i \in Ids, Begin(p, i)
      PROVE  Knows(p)' /\ \A q \in Procs \ {p} : pc'[q] = pc[q] /\ run'[q] = run[q]
  <2>1. PICK l \in {"gate", "reserve", "queued"} : \E r :
           pc' = [pc EXCEPT ![p] = l] /\ run' = [run EXCEPT ![p] = r]
    BY <1>5, Zenon DEF Begin, Goto
  <2> QED BY <1>1, <1>4, <2>1
<1>6. ASSUME NEW a \in Accounts, AnswerCreated(p, a)
      PROVE  Knows(p)' /\ \A q \in Procs \ {p} : pc'[q] = pc[q] /\ run'[q] = run[q]
  <2>1. /\ run' = [run EXCEPT ![p] = [run[p] EXCEPT !.acct = a, !.existed = Resolves(a)]]
        /\ pc' = [pc EXCEPT ![p] = "check"] /\ status' = status
    BY <1>6 DEF AnswerCreated, Goto, world
  <2>2. run'[p] = [run[p] EXCEPT !.acct = a, !.existed = Resolves(a)]
    BY <1>0, <2>1
  <2>3. run'[p].acct = a
    BY <1>0, <2>2 DEF RunRecords
  <2>4. run'[p].existed => Resolves(a)
    <3>1. \A r \in RunRecords : \A b : [r EXCEPT !.acct = a, !.existed = b].existed = b
      BY DEF RunRecords
    <3>2. run'[p].existed = Resolves(a)
      BY <1>0, <2>2, <3>1, Zenon
    <3> QED BY <3>2, Zenon
  <2>5. pc'[p] = "check" /\ \A q \in Procs \ {p} : pc'[q] = pc[q] /\ run'[q] = run[q]
    BY <1>0, <2>1
  <2> QED BY <2>1, <2>3, <2>4, <2>5 DEF Knows, Resolves
<1>7. CASE Check(p)
  <2> DEFINE found == Exists(run[p].acct)
             Waiting(b) == [run[p] EXCEPT !.deadline = now + Wait, !.unseen = b]
  <2>1. CASE End(p, "queued")
    BY <1>2, <1>4, <2>1
  <2>2. CASE /\ found => NameFails
             /\ pc' = [pc EXCEPT ![p] = "await"]
             /\ run' = [run EXCEPT ![p] = Waiting(found)]
    <3>1. pc[p] = "check" /\ (run[p].existed => found)
      BY <1>0, <1>7 DEF Check, Knows, Exists
    <3>2. run'[p] = Waiting(found)
      BY <1>0, <2>2
    <3>3. \A b : Waiting(b).existed = run[p].existed /\ Waiting(b).unseen = b
      BY <1>0 DEF RunRecords
    <3> HIDE DEF Waiting, found
    <3>4. run'[p].existed = run[p].existed /\ run'[p].unseen = found
      BY <3>2, <3>3, Zenon
    <3>5. pc'[p] = "await" /\ \A q \in Procs \ {p} : pc'[q] = pc[q] /\ run'[q] = run[q]
      BY <1>0, <2>2
    <3>6. (run'[p].existed => run'[p].unseen) /\ (run'[p].unseen => NameFails)
      BY <2>2, <3>1, <3>4, Zenon
    <3>7. pc'[p] # "check"
      BY <3>5
    <3> QED BY <3>5, <3>6, <3>7, Zenon DEF Knows
  <2>3. \/ End(p, "queued")
        \/ (found => NameFails) /\ pc' = [pc EXCEPT ![p] = "await"]
           /\ run' = [run EXCEPT ![p] = Waiting(found)]
    BY <1>7, Zenon DEF Check, Goto
  <2> QED BY <2>1, <2>2, <2>3
<1>8. CASE Arrived(p)
  <2>1. pc[p] = "await" /\ pc' = [pc EXCEPT ![p] = "bind"] /\ run' = run
    BY <1>8 DEF Arrived, Goto
  <2> QED BY <1>0, <2>1 DEF Knows
<1>9. CASE AnswerOther(p) \/ TimesOut(p) \/ Leaves(p) \/ Gate(p)
  BY <1>2, <1>4, <1>9 DEF AnswerOther, TimesOut, Leaves, Gate
<1>10. CASE Bind(p)
  BY <1>2, <1>3, <1>4, <1>10 DEF Bind
<1>11. CASE Reserve(p)
  BY <1>2, <1>3, <1>4, <1>11 DEF Reserve
<1> QED BY <1>5, <1>6, <1>7, <1>8, <1>9, <1>10, <1>11

\* What sign-ins know, kept by every step.
LEMMA AnswerInvKept ==
  AnswerInv /\ [Next]_vars => AnswerInv'
<1> SUFFICES ASSUME AnswerInv, [Next]_vars PROVE AnswerInv'
  OBVIOUS
<1>1. StatusInv'
  BY StatusInvKept DEF AnswerInv
<1>2. CASE pc' = pc /\ run' = run
  <2>1. \A q \in Procs : Knows(q)'
    BY <1>2, KnowsOn
  <2> QED BY <1>1, <2>1 DEF AnswerInv, Answered, Knows
<1>3. ASSUME NEW p \in Procs,
             \/ \E i \in Ids : Begin(p, i)
             \/ \E a \in Accounts : AnswerCreated(p, a)
             \/ Reserve(p) \/ AnswerOther(p) \/ Check(p)
             \/ Arrived(p) \/ TimesOut(p) \/ Leaves(p) \/ Bind(p) \/ Gate(p)
      PROVE  AnswerInv'
  <2>1. Knows(p)' /\ \A q \in Procs \ {p} : pc'[q] = pc[q] /\ run'[q] = run[q]
    BY <1>3, KnowsNext
  <2>2. \A q \in Procs : Knows(q)'
    BY <2>1, KnowsOn
  <2> QED BY <1>1, <2>2 DEF AnswerInv, Answered, Knows
<1>4. CASE \/ UNCHANGED vars \/ Reload \/ Tick \/ (\E f \in Usable \cup {Broken} : Edit(f))
           \/ (\E a \in Accounts : Move(a)) \/ \E p \in Procs, a \in Accounts : Create(p, a)
  <2>1. pc' = pc /\ run' = run
    BY <1>4 DEF vars, Reload, Tick, Edit, Move, Create
  <2> QED BY <1>2, <2>1
<1> QED BY <1>3, <1>4 DEF Next

\* What a sign-in knows holds from the beginning on.
LEMMA AnswerInvHolds == Spec => []AnswerInv
<1>1. Init => AnswerInv
  <2>1. ASSUME Init, NEW p \in Procs PROVE Knows(p)
    BY <2>1 DEF Init, Knows
  <2> QED BY <2>1, StatusInvInit DEF AnswerInv, Answered, Knows
<1> QED BY <1>1, AnswerInvKept, PTL DEF Spec

\* An account is bound by the sign-in that was answered with it and has waited for it.
LEMMA BoundByBind ==
  ASSUME AnswerInv, Next, NEW a \in Accounts, binding'[a] # binding[a]
  PROVE  \E p \in Procs : /\ BoundBy(p, a)
                          /\ run[p].existed => run[p].unseen
                          /\ run[p].unseen => NameFails
<1>1. PICK p \in Procs : Bind(p)
  <2>1. binding' # binding
    OBVIOUS
  <2> QED BY <2>1, Zenon DEF Next, Edit, Reload, Begin, Create, AnswerCreated, Reserve,
             AnswerOther, Check, Arrived, TimesOut, Leaves, Gate, Move, Tick, world
<1>2. binding \in [Accounts -> Ids \cup {None}] /\ run[p].acct = a
  BY <1>1 DEF Bind, AnswerInv, StatusInv, StatusTells, TypeOK
<1>3. pc[p] = "bind" /\ (run[p].existed => run[p].unseen) /\ (run[p].unseen => NameFails)
  BY <1>1 DEF Bind, AnswerInv, Answered, Knows
<1> QED BY <1>2, <1>3 DEF BoundBy

\* A sign-in is bound only to an account that did not exist when the endpoint
\* answered it, suspended ones included, or that the name service did not find
\* just after (provision.Run, handleSSOCallback).
THEOREM BoundIsNew == Spec => NewUnlessUnseen
<1> DEFINE Bound == \A a \in Accounts : binding'[a] # binding[a] =>
                 \E p \in Procs : BoundBy(p, a) /\ (run[p].existed => run[p].unseen)
<1>1. AnswerInv /\ [Next]_vars => [Bound]_vars
  <2> SUFFICES ASSUME AnswerInv, Next, NEW a \in Accounts, binding'[a] # binding[a]
               PROVE  \E p \in Procs : BoundBy(p, a) /\ (run[p].existed => run[p].unseen)
    BY DEF vars
  <2> QED BY BoundByBind, Zenon
<1> QED BY <1>1, AnswerInvHolds, PTL DEF Spec, NewUnlessUnseen

\* While the name service finds every account that is there, only accounts that
\* did not exist are bound: "ONLY to an account that did not already exist".
THEOREM BoundIsNewWhenAsked ==
  ASSUME ~NameFails PROVE Spec => NewOnly
<1> DEFINE Bound == \A a \in Accounts : binding'[a] # binding[a] =>
                 \E p \in Procs : BoundBy(p, a) /\ ~ run[p].existed
<1>1. AnswerInv /\ [Next]_vars => [Bound]_vars
  <2> SUFFICES ASSUME AnswerInv, Next, NEW a \in Accounts, binding'[a] # binding[a]
               PROVE  \E p \in Procs : BoundBy(p, a) /\ ~ run[p].existed
    BY DEF vars
  <2> QED BY BoundByBind, Zenon
<1> QED BY <1>1, AnswerInvHolds, PTL DEF Spec, NewOnly

---------------------------------------------------------------------------
(* What the two records of reserve say of the calls that were made.        *)

\* Calls are made one after the other, and none is of a time to come.
Ordered ==
    /\ \A j, k \in 1 .. Len(made) : j < k => made[j][2] <= made[k][2]
    /\ \A k \in 1 .. Len(made) : made[k][2] <= now

\* The calls remembered are the last ones made; the others are an hour old.
Remembered ==
    /\ Len(calls) <= Len(made)
    /\ \A j \in 1 .. Len(calls) : calls[j] = made[Len(made) - Len(calls) + j][2]
    /\ \A k \in 1 .. Len(made) - Len(calls) : made[k][2] + Hour <= now

\* A call RefireAfter has not passed since is in `fired`, or a later one is ...
FiredTells ==
    \A k \in 1 .. Len(made) :
        \/ made[k][2] + RefireAfter <= now
        \/ fired[made[k][1]] # None /\ fired[made[k][1]] >= made[k][2]

\* ... and what is in `fired` is a call that was made.
FiredMade ==
    /\ IsFiniteSet({i \in Ids : fired[i] # None})
    /\ \A i \in Ids : fired[i] # None =>
          \E k \in 1 .. Len(made) : made[k][1] = i /\ made[k][2] = fired[i]

LimitInv ==
    /\ StatusInv
    /\ Ordered
    /\ Remembered
    /\ FiredTells
    /\ FiredMade
    /\ LimitsHold

\* The types of the limits, as the steps below use them.
LEMMA LimitTypes ==
  ASSUME StatusInv
  PROVE  /\ now \in Nat /\ Len(made) \in Nat /\ Len(calls) \in Nat /\ calls \in Seq(Nat)
         /\ DOMAIN made = 1 .. Len(made)
         /\ \A k \in 1 .. Len(made) : made[k][1] \in Ids /\ made[k][2] \in Nat
         /\ \A i \in Ids : fired[i] # None => fired[i] \in Nat
         /\ fired \in [Ids -> 0 .. MaxNow \cup {None}]
         /\ {RefireAfter, Hour, MaxCalls, MaxFired} \subseteq Nat \ {0}
<1>1. /\ now \in 0 .. MaxNow /\ calls \in Seq(0 .. MaxNow) /\ made \in Seq(Ids \X (0 .. MaxNow))
      /\ fired \in [Ids -> 0 .. MaxNow \cup {None}] /\ MaxNow \in Nat
  BY ConstantsOK DEF StatusInv, StatusTells, TypeOK
<1>2. \A k \in 1 .. Len(made) : made[k] \in Ids \X (0 .. MaxNow)
  BY <1>1
<1>3. \A k \in 1 .. Len(made) : made[k][1] \in Ids /\ made[k][2] \in Nat
  BY <1>2
<1>4. calls \in Seq(Nat) /\ now \in Nat /\ \A i \in Ids : fired[i] # None => fired[i] \in Nat
  BY <1>1
<1> QED BY <1>1, <1>3, <1>4, ConstantsOK

\* What reserve forgets are the calls of more than an hour ago.
LEMMA KeptMade ==
  ASSUME LimitInv
  PROVE  /\ Kept \in Seq(Nat)
         /\ \E e \in 0 .. Len(made) :
               /\ Len(Kept) = Len(made) - e
               /\ \A j \in 1 .. Len(Kept) : Kept[j] = made[e + j][2]
               /\ \A k \in 1 .. e : made[k][2] + Hour <= now
<1>0. /\ now \in Nat /\ Len(made) \in Nat /\ Len(calls) \in Nat /\ calls \in Seq(Nat)
      /\ \A k \in 1 .. Len(made) : made[k][2] \in Nat
      /\ Hour \in Nat
  BY LimitTypes DEF LimitInv
<1>1. /\ Len(calls) <= Len(made)
      /\ \A j \in 1 .. Len(calls) : calls[j] = made[Len(made) - Len(calls) + j][2]
      /\ \A k \in 1 .. Len(made) - Len(calls) : made[k][2] + Hour <= now
  BY DEF LimitInv, Remembered
<1>2. \A j, k \in 1 .. Len(made) : j < k => made[j][2] <= made[k][2]
  BY DEF LimitInv, Ordered
<1>3. ASSUME NEW j \in 1 .. Len(calls), NEW k \in 1 .. Len(calls), j < k
      PROVE  calls[j] <= calls[k]
  <2> DEFINE a == Len(made) - Len(calls) + j
             b == Len(made) - Len(calls) + k
  <2>1. a \in 1 .. Len(made) /\ b \in 1 .. Len(made) /\ a < b
    BY <1>0, <1>1, <1>3
  <2>2. calls[j] = made[a][2] /\ calls[k] = made[b][2]
    BY <1>1
  <2> HIDE DEF a, b
  <2> QED BY <1>2, <2>1, <2>2
<1>4. Kept \in Seq(Nat)
  BY <1>0, KeptTyped
<1>5. PICK m \in 0 .. Len(calls) :
         /\ Len(Kept) = Len(calls) - m
         /\ \A j \in 1 .. Len(Kept) : Kept[j] = calls[m + j]
         /\ \A j \in 1 .. m : ~InHour(calls[j])
  BY <1>0, <1>3, KeptIsLast
<1> DEFINE d == Len(made) - Len(calls)
           e == d + m
<1>6. d \in Nat /\ e \in 0 .. Len(made) /\ Len(Kept) = Len(made) - e
  BY <1>0, <1>1, <1>5
<1>7. ASSUME NEW j \in 1 .. Len(Kept)
      PROVE  Kept[j] = made[e + j][2]
  <2>1. m + j \in 1 .. Len(calls) /\ d + (m + j) = e + j
    BY <1>0, <1>1, <1>5
  <2>2. calls[m + j] = made[d + (m + j)][2]
    BY <1>1, <2>1
  <2> QED BY <1>5, <2>1, <2>2
<1>8. ASSUME NEW k \in 1 .. e
      PROVE  made[k][2] + Hour <= now
  <2>1. CASE k <= d
    BY <1>0, <1>1, <1>6, <2>1
  <2>2. CASE k > d
    <3>1. k - d \in 1 .. m /\ k - d \in 1 .. Len(calls) /\ d + (k - d) = k
          /\ k \in 1 .. Len(made)
      BY <1>0, <1>5, <1>6, <2>2
    <3>2. calls[k - d] = made[k][2]
      BY <1>1, <3>1
    <3>3. ~InHour(made[k][2])
      BY <1>5, <3>1, <3>2
    <3> QED BY <1>0, <3>1, <3>3 DEF InHour
  <2> QED BY <1>6, <2>1, <2>2
<1> HIDE DEF d, e
<1> QED BY <1>4, <1>6, <1>7, <1>8

\* The calls within the hour that ends at t.
Window(t) == {k \in DOMAIN made : made[k][2] <= t /\ t < made[k][2] + Hour}

\* Time passes: no call is made, and the hour that ends now has no call in it that
\* the one before had not.
LEMMA LimitsTick ==
  ASSUME LimitInv, StatusInv', now' = now + 1, UNCHANGED limits
  PROVE  LimitInv'
<1>0. /\ now \in Nat /\ Len(made) \in Nat /\ DOMAIN made = 1 .. Len(made)
      /\ \A k \in 1 .. Len(made) : made[k][2] \in Nat
      /\ {RefireAfter, Hour, MaxCalls, MaxFired} \subseteq Nat
      /\ \A i \in Ids : fired[i] # None => fired[i] \in Nat
  BY LimitTypes DEF LimitInv
<1>1. fired' = fired /\ calls' = calls /\ made' = made
  BY DEF limits
<1>2. Ordered /\ Remembered /\ FiredTells /\ FiredMade /\ CallsBounded /\ RefireHeld
      /\ Cardinality({i \in Ids : fired[i] # None}) <= MaxFired
  BY DEF LimitInv, LimitsHold
<1>3. Ordered'
  BY <1>0, <1>1, <1>2 DEF Ordered
<1>4. Remembered'
  BY <1>0, <1>1, <1>2 DEF Remembered
<1>5. FiredTells'
  BY <1>0, <1>1, <1>2 DEF FiredTells
<1>6. FiredMade' /\ RefireHeld' /\ (Cardinality({i \in Ids : fired[i] # None}) <= MaxFired)'
  BY <1>1, <1>2 DEF FiredMade, RefireHeld
<1>7. CallsBounded'
  <2>1. SUFFICES ASSUME NEW t \in 0 .. now + 1
                 PROVE  Cardinality(Window(t)) <= MaxCalls
    BY <1>0, <1>1 DEF CallsBounded, Window
  <2>2. CASE t \in 0 .. now
    BY <1>2, <2>2 DEF CallsBounded, Window
  <2>3. CASE t = now + 1
    <3>1. Window(t) \subseteq Window(now)
      BY <1>0, <1>2, <2>3 DEF Window, Ordered
    <3>2. IsFiniteSet(Window(now))
      <4>1. Window(now) \subseteq 1 .. Len(made) /\ IsFiniteSet(1 .. Len(made))
        BY <1>0, FS_Interval DEF Window
      <4> QED BY <4>1, FS_Subset
    <3>3. Cardinality(Window(t)) <= Cardinality(Window(now))
      BY <3>1, <3>2, FS_Subset
    <3>4. Cardinality(Window(now)) <= MaxCalls
      BY <1>0, <1>2 DEF CallsBounded, Window
    <3>5. Cardinality(Window(now)) \in Nat /\ Cardinality(Window(t)) \in Nat
      BY <3>1, <3>2, FS_Subset, FS_CardinalityType
    <3> QED BY <1>0, <3>3, <3>4, <3>5
  <2> QED BY <1>0, <2>2, <2>3
<1> QED BY <1>3, <1>4, <1>5, <1>6, <1>7 DEF LimitInv, LimitsHold

\* The hourly limit is reached: what is forgotten is forgotten, and no call made.
LEMMA LimitsFull ==
  ASSUME LimitInv, StatusInv', now' = now, calls' = Kept, UNCHANGED <<fired, made>>
  PROVE  LimitInv'
<1>0. /\ now \in Nat /\ Len(made) \in Nat /\ Hour \in Nat
      /\ \A k \in 1 .. Len(made) : made[k][2] \in Nat
  BY LimitTypes DEF LimitInv
<1>1. fired' = fired /\ made' = made /\ now' = now
  OBVIOUS
<1>2. Kept \in Seq(Nat)
  BY KeptMade
<1>3. PICK e \in 0 .. Len(made) :
         /\ Len(Kept) = Len(made) - e
         /\ \A j \in 1 .. Len(Kept) : Kept[j] = made[e + j][2]
         /\ \A k \in 1 .. e : made[k][2] + Hour <= now
  BY KeptMade
<1>4. Remembered'
  <2>1. Len(made) - Len(Kept) = e /\ Len(Kept) <= Len(made)
    BY <1>0, <1>3
  <2> QED BY <1>1, <1>3, <2>1 DEF Remembered
<1>5. Ordered' /\ FiredTells' /\ FiredMade' /\ LimitsHold'
  BY <1>1 DEF LimitInv, Ordered, FiredTells, FiredMade, LimitsHold, CallsBounded, RefireHeld
<1> QED BY <1>4, <1>5 DEF LimitInv

\* The last alternative of reserve, for the limits.
Calls(x) ==
    /\ ~Attempted(x) /\ Len(Kept) < MaxCalls
    /\ now' = now
    /\ fired' = Cleaned([fired EXCEPT ![x] = now])
    /\ calls' = Append(Kept, now)
    /\ made' = Append(made, <<x, now>>)

\* A call is made: it is the last, it is later than RefireAfter after the one
\* before it of the same identity, it is one of at most MaxCalls of the last hour,
\* and so are those that `fired` keeps when it is cleaned.
LEMMA LimitsCall ==
  ASSUME LimitInv, StatusInv', NEW x \in Ids, Calls(x)
  PROVE  LimitInv'
<1> DEFINE f == [fired EXCEPT ![x] = now]
           Remembers(g) == {i \in Ids : g[i] # None}
<1>l. PICK L \in Nat : L = Len(made)
  BY LimitTypes DEF LimitInv
<1>0. now \in Nat /\ L \in Nat /\ RefireAfter \in Nat /\ RefireAfter > 0 /\ Hour \in Nat
      /\ Hour > 0 /\ MaxCalls \in Nat /\ MaxFired \in Nat
  BY <1>l, LimitTypes DEF LimitInv
<1>d. DOMAIN made = 1 .. L /\ \A k \in 1 .. L : made[k][1] \in Ids /\ made[k][2] \in Nat
  BY <1>l, LimitTypes DEF LimitInv
<1>f. /\ fired \in [Ids -> 0 .. MaxNow \cup {None}]
      /\ \A i \in Ids : fired[i] # None => fired[i] \in Nat
  BY LimitTypes DEF LimitInv
<1>n. now' = now /\ ~Attempted(x) /\ Len(Kept) < MaxCalls
  BY DEF Calls
<1>1. Ordered /\ Remembered /\ FiredTells /\ FiredMade /\ CallsBounded /\ RefireHeld
      /\ Cardinality({i \in Ids : fired[i] # None}) <= MaxFired
  BY DEF LimitInv, LimitsHold
<1>2. Kept \in Seq(Nat)
  BY KeptMade
<1>3. PICK e \in 0 .. L :
         /\ Len(Kept) = L - e
         /\ \A j \in 1 .. Len(Kept) : Kept[j] = made[e + j][2]
         /\ \A k \in 1 .. e : made[k][2] + Hour <= now
  BY <1>l, KeptMade
<1>4. /\ Len(made') = L + 1 /\ DOMAIN made' = 1 .. L + 1
      /\ made'[L + 1][1] = x /\ made'[L + 1][2] = now
      /\ \A k \in 1 .. L : made'[k] = made[k]
  <2>1. made \in Seq(Ids \X (0 .. MaxNow)) /\ <<x, now>> \in Ids \X (0 .. MaxNow)
    BY DEF LimitInv, StatusInv, StatusTells, TypeOK
  <2>2. /\ Len(made') = L + 1 /\ DOMAIN made' = 1 .. L + 1 /\ made'[L + 1] = <<x, now>>
        /\ \A k \in 1 .. L : made'[k] = made[k]
    BY <1>l, <2>1 DEF Calls
  <2> QED BY <2>2
<1>5. \A i \in Ids : f[i] = IF i = x THEN now ELSE fired[i]
  BY <1>f
<1>6. /\ None \notin Nat /\ f[x] = now /\ RefireAfter <= Hour /\ MaxCalls <= MaxFired
  BY <1>5, ConstantsOK
<1>7. \A i \in Ids : f[i] # None => f[i] \in Nat
  BY <1>0, <1>f, <1>5
<1> HIDE DEF f
<1>8. \A i \in Ids : fired'[i] # None => fired'[i] = f[i]
  BY DEF Cleaned, Calls, f
<1>9. \A i \in Ids : f[i] # None /\ Recent(f[i]) => fired'[i] = f[i]
  BY DEF Cleaned, Calls, f
<1>10. Ordered'
  <2>1. /\ \A k \in 1 .. L : made[k][2] <= now
        /\ \A j, k \in 1 .. L : j < k => made[j][2] <= made[k][2]
    BY <1>l, <1>1 DEF Ordered
  <2>2. ASSUME NEW k \in 1 .. L + 1 PROVE made'[k][2] <= now
    BY <1>0, <1>4, <2>1
  <2>3. ASSUME NEW j \in 1 .. L + 1, NEW k \in 1 .. L + 1, j < k
        PROVE  made'[j][2] <= made'[k][2]
    <3>1. CASE k = L + 1
      BY <1>4, <2>2, <3>1
    <3>2. CASE k \in 1 .. L
      <4>1. j \in 1 .. L /\ made'[j] = made[j] /\ made'[k] = made[k]
        BY <1>0, <1>4, <2>3, <3>2
      <4> QED BY <2>1, <2>3, <3>2, <4>1
    <3> QED BY <1>0, <3>1, <3>2
  <2> QED BY <1>n, <1>4, <2>2, <2>3 DEF Ordered
<1>11. Remembered'
  <2>1. Len(calls') = L - e + 1 /\ calls'[L - e + 1] = now
        /\ \A j \in 1 .. L - e : calls'[j] = Kept[j]
    BY <1>0, <1>2, <1>3 DEF Calls
  <2>2. Len(made') - Len(calls') = e /\ Len(calls') <= Len(made')
    BY <1>0, <1>3, <1>4, <2>1
  <2>3. ASSUME NEW j \in 1 .. L - e + 1
        PROVE  calls'[j] = made'[e + j][2]
    <3>1. CASE j = L - e + 1
      BY <1>0, <1>3, <1>4, <2>1, <3>1
    <3>2. CASE j \in 1 .. L - e
      <4>1. e + j \in 1 .. L
        BY <1>0, <3>2
      <4>2. made'[e + j] = made[e + j] /\ calls'[j] = Kept[j] /\ Kept[j] = made[e + j][2]
        BY <1>3, <1>4, <2>1, <3>2, <4>1
      <4> QED BY <4>2
    <3> QED BY <1>0, <1>3, <3>1, <3>2
  <2>4. \A k \in 1 .. e : made'[k][2] + Hour <= now
    BY <1>0, <1>3, <1>4
  <2> QED BY <1>n, <2>1, <2>2, <2>3, <2>4 DEF Remembered
<1>12. FiredTells'
  <2>1. SUFFICES ASSUME NEW k \in 1 .. L + 1, made'[k][2] + RefireAfter > now
                 PROVE  fired'[made'[k][1]] # None /\ fired'[made'[k][1]] >= made'[k][2]
    <3>1. \A k \in 1 .. L + 1 : made'[k][2] \in Nat
      BY <1>0, <1>d, <1>4
    <3> QED BY <1>0, <1>n, <1>4, <3>1 DEF FiredTells
  <2> DEFINE i == made'[k][1]
  <2>2. i \in Ids /\ made'[k][2] \in Nat /\ made'[k][2] <= now
    BY <1>l, <1>0, <1>d, <1>n, <1>1, <1>4 DEF Ordered
  <2>3. f[i] # None /\ f[i] >= made'[k][2]
    <3>1. CASE i = x
      BY <1>0, <1>6, <2>2, <3>1
    <3>2. CASE i # x
      <4>1. k \in 1 .. L /\ made'[k] = made[k]
        BY <1>0, <1>4, <3>2
      <4>2. fired[i] # None /\ fired[i] >= made[k][2]
        BY <1>l, <1>0, <1>d, <1>1, <2>1, <4>1 DEF FiredTells
      <4> QED BY <1>5, <2>2, <3>2, <4>1, <4>2
    <3> QED BY <3>1, <3>2
  <2>4. Recent(f[i])
    BY <1>0, <1>7, <2>1, <2>2, <2>3 DEF Recent
  <2> QED BY <1>9, <2>2, <2>3, <2>4
<1>13. \A i \in Ids : f[i] # None =>
          \E k \in 1 .. L + 1 : made'[k][1] = i /\ made'[k][2] = f[i]
  <2> SUFFICES ASSUME NEW i \in Ids, f[i] # None
               PROVE  \E k \in 1 .. L + 1 : made'[k][1] = i /\ made'[k][2] = f[i]
    OBVIOUS
  <2>1. CASE i = x
    BY <1>0, <1>4, <1>6, <2>1
  <2>2. CASE i # x
    <3>1. PICK k \in 1 .. L : made[k][1] = i /\ made[k][2] = fired[i]
      BY <1>l, <1>1, <1>5, <2>2 DEF FiredMade
    <3>2. k \in 1 .. L + 1 /\ f[i] = fired[i] /\ made'[k] = made[k]
      BY <1>0, <1>4, <1>5, <2>2
    <3> QED BY <3>1, <3>2
  <2> QED BY <2>1, <2>2
<1>14. IsFiniteSet(Remembers(f)) /\ Remembers(fired') \subseteq Remembers(f)
  <2>1. IsFiniteSet(Remembers(fired) \cup {x})
    BY <1>1, FS_AddElement DEF FiredMade
  <2>2. Remembers(f) \subseteq Remembers(fired) \cup {x}
    BY <1>5
  <2>3. Remembers(fired') \subseteq Remembers(f)
    BY <1>8
  <2> HIDE DEF Remembers
  <2> QED BY <2>1, <2>2, <2>3, FS_Subset
<1>15. FiredMade'
  <2>1. IsFiniteSet(Remembers(fired'))
    <3> HIDE DEF Remembers
    <3> QED BY <1>14, FS_Subset
  <2> QED BY <1>4, <1>8, <1>13, <2>1 DEF FiredMade
<1>16. RefireHeld'
  <2>1. SUFFICES ASSUME NEW j \in 1 .. L + 1, NEW k \in 1 .. L + 1, j < k,
                        made'[j][1] = made'[k][1]
                 PROVE  made'[k][2] >= made'[j][2] + RefireAfter
    BY <1>4 DEF RefireHeld
  <2>2. CASE k \in 1 .. L
    <3>1. j \in 1 .. L /\ made'[j] = made[j] /\ made'[k] = made[k]
      BY <1>0, <1>4, <2>1, <2>2
    <3>2. j \in DOMAIN made /\ k \in DOMAIN made /\ made[j][1] = made[k][1]
      BY <1>d, <2>1, <2>2, <3>1
    <3>3. made[k][2] >= made[j][2] + RefireAfter
      BY <1>1, <2>1, <3>2 DEF RefireHeld
    <3> QED BY <3>1, <3>3
  <2>3. CASE k = L + 1
    <3>1. j \in 1 .. L /\ made'[j] = made[j] /\ made[j][1] = x /\ made'[k][2] = now
      BY <1>0, <1>4, <2>1, <2>3
    <3>2. CASE made[j][2] + RefireAfter <= now
      BY <1>0, <1>d, <3>1, <3>2
    <3>3. CASE fired[x] # None /\ fired[x] >= made[j][2]
      BY <1>0, <1>d, <1>n, <1>f, <3>1, <3>3 DEF Attempted, Recent
    <3> QED BY <1>l, <1>1, <3>1, <3>2, <3>3 DEF FiredTells
  <2> QED BY <1>0, <2>2, <2>3
<1> DEFINE W(t) == {k \in DOMAIN made' : made'[k][2] <= t /\ t < made'[k][2] + Hour}
<1>17. IsFiniteSet(W(now)) /\ Cardinality(W(now)) <= MaxCalls
  <2>1. W(now) \subseteq e + 1 .. L + 1
    <3>1. ASSUME NEW k \in 1 .. L + 1, k <= e
          PROVE  k \notin W(now)
      <4>1. k \in 1 .. e /\ made'[k] = made[k] /\ made[k][2] \in Nat
        BY <1>0, <1>d, <1>3, <1>4, <3>1
      <4>2. made'[k][2] + Hour <= now
        BY <1>3, <4>1
      <4> QED BY <1>0, <4>1, <4>2
    <3> QED BY <1>0, <1>3, <1>4, <3>1
  <2>2. IsFiniteSet(e + 1 .. L + 1) /\ Cardinality(e + 1 .. L + 1) = L + 1 - (e + 1) + 1
    <3>1. e + 1 \in Int /\ L + 1 \in Int /\ e + 1 <= L + 1
      BY <1>0, <1>3
    <3> QED BY <3>1, FS_Interval
  <2> HIDE DEF W
  <2>3. IsFiniteSet(W(now)) /\ Cardinality(W(now)) <= Cardinality(e + 1 .. L + 1)
    BY <2>1, <2>2, FS_Subset
  <2>4. Cardinality(W(now)) \in Nat
    BY <2>3, FS_CardinalityType
  <2> QED BY <1>0, <1>n, <1>3, <2>2, <2>3, <2>4
<1>18. CallsBounded'
  <2>1. SUFFICES ASSUME NEW t \in 0 .. now
                 PROVE  Cardinality(W(t)) <= MaxCalls
    BY <1>n DEF CallsBounded
  <2>2. CASE t < now
    <3>1. W(t) = Window(t)
      BY <1>0, <1>d, <1>4, <2>2 DEF Window
    <3> QED BY <1>1, <2>1, <3>1 DEF CallsBounded, Window
  <2>3. CASE t = now
    BY <1>17, <2>3
  <2> QED BY <1>0, <2>2, <2>3
<1>19. Cardinality(Remembers(fired')) <= MaxFired
  <2>1. CASE Cardinality(Remembers(f)) <= MaxFired
    <3>1. fired' = f
      BY <2>1 DEF Cleaned, Calls, f
    <3> QED BY <2>1, <3>1
  <2>2. CASE ~(Cardinality(Remembers(f)) <= MaxFired)
    <3>1. \A i \in Ids : fired'[i] # None => Recent(fired'[i])
      BY <1>8, <2>2 DEF Cleaned, Calls, f
    <3> DEFINE Call(i) == CHOOSE k \in 1 .. L + 1 : made'[k][1] = i /\ made'[k][2] = fired'[i]
               g == [i \in Remembers(fired') |-> Call(i)]
    <3>2. ASSUME NEW i \in Remembers(fired')
          PROVE  Call(i) \in W(now) /\ made'[Call(i)][1] = i
      <4>1. i \in Ids /\ fired'[i] # None /\ fired'[i] = f[i]
        BY <1>8
      <4>2. PICK k \in 1 .. L + 1 : made'[k][1] = i /\ made'[k][2] = fired'[i]
        BY <1>13, <4>1
      <4>3. Call(i) \in 1 .. L + 1 /\ made'[Call(i)][1] = i /\ made'[Call(i)][2] = fired'[i]
        BY <4>2
      <4> HIDE DEF Call
      <4>4. made'[Call(i)][2] \in Nat /\ made'[Call(i)][2] <= now
        BY <1>0, <1>d, <1>4, <1>10, <4>3 DEF Ordered
      <4>5. now < made'[Call(i)][2] + RefireAfter
        BY <3>1, <4>1, <4>3 DEF Recent
      <4> QED BY <1>0, <1>4, <1>6, <4>3, <4>4, <4>5
    <3>3. g \in Injection(Remembers(fired'), W(now))
      <4> HIDE DEF Call, W, Remembers
      <4>1. g \in [Remembers(fired') -> W(now)]
        BY <3>2
      <4>2. \A a, b \in Remembers(fired') : g[a] = g[b] => a = b
        BY <3>2
      <4> QED BY <4>1, <4>2 DEF Injection, IsInjective
    <3>4. Cardinality(Remembers(fired')) <= Cardinality(W(now))
      <4> HIDE DEF Remembers, W, g
      <4> QED BY <1>17, <3>3, FS_Injection
    <3>5. Cardinality(Remembers(fired')) \in Nat /\ Cardinality(W(now)) \in Nat
      <4> HIDE DEF Remembers, W
      <4> QED BY <1>14, <1>17, FS_Subset, FS_CardinalityType
    <3> QED BY <1>0, <1>6, <1>17, <3>4, <3>5
  <2> QED BY <2>1, <2>2
<1>20. LimitsHold'
  BY <1>16, <1>18, <1>19 DEF LimitsHold
<1> QED BY <1>10, <1>11, <1>12, <1>15, <1>20 DEF LimitInv

\* Only reserve and the clock touch what the limits are about.
LEMMA LimitInvKept ==
  LimitInv /\ [Next]_vars => LimitInv'
<1> SUFFICES ASSUME LimitInv, [Next]_vars PROVE LimitInv'
  OBVIOUS
<1>1. StatusInv'
  BY StatusInvKept DEF LimitInv
<1>2. CASE UNCHANGED <<now, limits>>
  <2>1. now' = now /\ fired' = fired /\ calls' = calls /\ made' = made
    BY <1>2 DEF limits
  <2> QED BY <1>1, <2>1 DEF LimitInv, Ordered, Remembered, FiredTells, FiredMade, LimitsHold,
                            CallsBounded, RefireHeld
<1>3. CASE Tick
  <2>1. now' = now + 1 /\ UNCHANGED limits
    BY <1>3 DEF Tick
  <2> QED BY <1>1, <2>1, LimitsTick
<1>4. ASSUME NEW p \in Procs, Reserve(p)
      PROVE  LimitInv'
  <2>1. CASE UNCHANGED limits
    BY <1>2, <1>4, <2>1 DEF Reserve
  <2>2. CASE calls' = Kept /\ UNCHANGED <<fired, made>>
    <3>1. now' = now
      BY <1>4 DEF Reserve
    <3> QED BY <1>1, <2>2, <3>1, LimitsFull
  <2>3. CASE Calls(run[p].id)
    <3>1. run[p].id \in Ids
      BY <1>4 DEF LimitInv, StatusInv, Named, Reserve, Ended
    <3> QED BY <1>1, <2>3, <3>1, LimitsCall
  <2> QED BY <1>4, <2>1, <2>2, <2>3 DEF Reserve, Calls
<1>5. ASSUME NEW p \in Procs,
             \/ \E i \in Ids : Begin(p, i)
             \/ \E a \in Accounts : Create(p, a) \/ AnswerCreated(p, a)
             \/ AnswerOther(p) \/ Check(p) \/ Arrived(p) \/ TimesOut(p) \/ Leaves(p)
             \/ Bind(p) \/ Gate(p)
      PROVE  LimitInv'
  <2>1. UNCHANGED <<now, watcher, limits>>
    BY <1>5, SignInStep DEF LimitInv
  <2> QED BY <1>2, <2>1
<1>6. CASE \/ UNCHANGED vars \/ Reload \/ (\E f \in Usable \cup {Broken} : Edit(f))
           \/ (\E a \in Accounts : Move(a))
  <2>1. UNCHANGED <<now, limits>>
    BY <1>6 DEF vars, Reload, Edit, Move
  <2> QED BY <1>2, <2>1
<1> QED BY <1>3, <1>4, <1>5, <1>6 DEF Next

\* At most MaxCallsPerHour calls in any hour, RefireAfter between two calls for one
\* identity, and a record of them that stays bounded: Provisioner.reserve.
THEOREM LimitsAlwaysHold == Spec => []LimitsHold
<1>1. Init => LimitInv
  <2> SUFFICES ASSUME Init PROVE LimitInv
    OBVIOUS
  <2>1. /\ fired = [i \in Ids |-> None] /\ calls = <<>> /\ made = <<>> /\ now = 0
        /\ Len(calls) = 0 /\ Len(made) = 0 /\ DOMAIN made = {}
    BY DEF Init
  <2>2. MaxCalls \in Nat /\ MaxFired \in Nat
    BY ConstantsOK
  <2>3. {i \in Ids : fired[i] # None} = {}
    BY <2>1
  <2>4. Ordered /\ Remembered /\ FiredTells
    BY <2>1 DEF Ordered, Remembered, FiredTells
  <2>5. FiredMade
    BY <2>1, <2>3, FS_EmptySet DEF FiredMade
  <2>6. CallsBounded
    <3>1. SUFFICES ASSUME NEW t \in 0 .. now
                   PROVE  Cardinality(Window(t)) <= MaxCalls
      BY DEF CallsBounded, Window
    <3>2. Window(t) = {}
      BY <2>1 DEF Window
    <3> QED BY <2>2, <3>2, FS_EmptySet
  <2>7. RefireHeld /\ Cardinality({i \in Ids : fired[i] # None}) <= MaxFired
    BY <2>1, <2>2, <2>3, FS_EmptySet DEF RefireHeld
  <2> QED BY <2>4, <2>5, <2>6, <2>7, StatusInvInit DEF LimitInv, LimitsHold
<1>2. LimitInv => LimitsHold
  BY DEF LimitInv
<1> QED BY <1>1, <1>2, LimitInvKept, PTL DEF Spec

=============================================================================
