--------------------------- MODULE IdentityProofs ---------------------------
(***************************************************************************)
(* The properties of Identity for any number of accounts, directory        *)
(* objects, addresses, sign-ins and requests.                              *)
(*                                                                         *)
(* What the store guards is proved of its four operations first, whoever   *)
(* calls them.  IndexesAgree is then inductive with what a sign-in carries *)
(* (Carried).  OnePerson needs the step between BySubject and AttachEmail  *)
(* besides: the account found for a subject stays the account it is pinned *)
(* to, unless it is forgotten (Found).                                     *)
(***************************************************************************)
EXTENDS Identity, SequenceTheorems, TLAPS

(* What a sign-in carries from one store call to the next.                 *)
Carried ==
    \A p \in Procs :
        /\ pc[p] # "idle" => sign[p].subject \in Subjects
        /\ pc[p] \in {"attach", "attaching", "pin"} => sign[p].account \in Accounts
        /\ pc[p] = "attaching" => sign[p].email \in Emails

(* What TypeOK says of the sign-ins and of the administrator.              *)
SigningIn == pc \in [Procs -> Labels] /\ sign \in [Procs -> Signs]

Waiting == pending \in Seq(Requests) /\ Len(pending) <= MaxPending

Others ==
    /\ holder \in [Emails -> Subjects]
    /\ admin \in [req : Requests, account : Accounts, step : {"approve", "discard"}]
                 \cup {None}
    /\ brought \in [Emails -> Subjects \cup {None}]
    /\ signedIn \in [Accounts -> SUBSET Subjects]

(* The two indexes and the records they were made from.                    *)
Maps ==
    /\ byAccount \in [Accounts -> Mappings \cup {None}]
    /\ byEmail \in [Emails -> Accounts \cup {None}]
    /\ bySubject \in [Subjects -> Accounts \cup {None}]

Addresses ==
    \A e \in Emails, a \in Accounts :
        byEmail[e] = a <=> byAccount[a] # None /\ e \in byAccount[a].emails

Objects ==
    \A s \in Subjects, a \in Accounts :
        bySubject[s] = a <=> byAccount[a] # None /\ byAccount[a].subject = s

StoreInv == Maps /\ Addresses /\ Objects

IndexInv == TypeOK /\ Carried /\ Addresses /\ Objects

(* Whose an address and an account are.                                    *)
Brought ==
    \A e \in Emails :
        (byEmail[e] # None /\ brought[e] # None) =>
            byAccount[byEmail[e]].subject = brought[e]

SignedIn ==
    \A a \in Accounts :
        signedIn[a] # {} => byAccount[a] # None /\ signedIn[a] = {byAccount[a].subject}

Found ==
    \A p \in Procs :
        (pc[p] \in {"attach", "attaching"} /\ ~sign[p].forgotten) =>
            /\ byAccount[sign[p].account] # None
            /\ byAccount[sign[p].account].subject = sign[p].subject

PersonInv == IndexInv /\ Brought /\ SignedIn /\ Found

(* What a step that is not a Forget does to a record: it keeps its pin.    *)
PinsKept ==
    \A a \in Accounts :
        byAccount[a] # None =>
            /\ byAccount'[a] # None
            /\ byAccount[a].subject # None => byAccount'[a].subject = byAccount[a].subject

AddressesKept ==
    \A e \in Emails : byEmail[e] # None => byEmail'[e] \in {byEmail[e], None}

-----------------------------------------------------------------------------
(* The operations of the store.                                            *)

(* An account's record is a mapping, and not the missing one. *)
LEMMA MappingIsNotNone ==
    \A E \in SUBSET Emails, s \in Subjects \cup {None} :
        /\ [emails |-> E, subject |-> s] \in Mappings
        /\ [emails |-> E, subject |-> s] # None
BY ConstantsOK DEF Mappings

(* A record is changed one field at a time. *)
LEMMA MappingFields ==
    ASSUME NEW m \in Mappings
    PROVE  /\ \A s : [m EXCEPT !.subject = s] = [emails |-> m.emails, subject |-> s]
           /\ \A E : [m EXCEPT !.emails = E] = [emails |-> E, subject |-> m.subject]
BY DEF Mappings

(* Pin: an account without a pin gets one, its addresses stay.             *)
LEMMA PinStore ==
    ASSUME NEW a \in Accounts, NEW s \in Subjects, StoreInv, Pinnable(a, s), Pin(a, s)
    PROVE  StoreInv' /\ PinsKept /\ AddressesKept
<1> USE DEF StoreInv
<1>1. byAccount[a] \in Mappings /\ byAccount[a].subject = None /\ bySubject[s] = None
  BY DEF Pinnable, Maps
<1>2. /\ byAccount' = [byAccount EXCEPT ![a] = [emails |-> byAccount[a].emails, subject |-> s]]
      /\ bySubject' = [bySubject EXCEPT ![s] = a]
      /\ byEmail' = byEmail
  BY <1>1, MappingFields DEF Pin
<1>3. byAccount'[a] = [emails |-> byAccount[a].emails, subject |-> s] /\ byAccount'[a] # None
  BY <1>1, <1>2, MappingIsNotNone DEF Maps, Mappings
<1>4. Maps'
  BY <1>1, <1>2, MappingIsNotNone DEF Maps, Mappings
<1>5. Addresses'
  BY <1>1, <1>2, <1>3, ConstantsOK DEF Addresses, Maps, Mappings
<1>6. Objects'
  BY <1>1, <1>2, <1>3, ConstantsOK DEF Objects, Maps
<1>7. PinsKept /\ AddressesKept
  BY <1>1, <1>2, <1>3 DEF PinsKept, AddressesKept, Maps
<1> QED BY <1>4, <1>5, <1>6, <1>7

(* Attach: an address no mapping lists joins one.                          *)
LEMMA AttachStore ==
    ASSUME NEW a \in Accounts, NEW e \in Emails, NEW s \in Subjects \cup {None},
           StoreInv, Attachable(a, e), Attach(a, e, s)
    PROVE  StoreInv' /\ PinsKept /\ AddressesKept
<1> USE DEF StoreInv
<1>1. byAccount[a] \in Mappings /\ byAccount[a] # None /\ byEmail[e] = None
  BY DEF Attachable, Maps
<1> DEFINE new == [emails |-> byAccount[a].emails \cup {e}, subject |-> byAccount[a].subject]
<1>2. /\ byAccount' = [byAccount EXCEPT ![a] = new]
      /\ byEmail' = [byEmail EXCEPT ![e] = a]
      /\ bySubject' = bySubject
  BY <1>1, MappingFields DEF Attach
<1>3. new \in Mappings /\ new # None
  BY <1>1, MappingIsNotNone DEF Mappings
<1>4. byAccount'[a] = new
  BY <1>2 DEF Maps
<1>5. Maps'
  BY <1>2, <1>3 DEF Maps
<1>6. Addresses'
  BY <1>1, <1>2, <1>3, <1>4, ConstantsOK DEF Addresses, Maps
<1>7. Objects'
  BY <1>1, <1>2, <1>3, <1>4 DEF Objects, Maps
<1>8. PinsKept /\ AddressesKept
  BY <1>1, <1>2, <1>3, <1>4 DEF PinsKept, AddressesKept, Maps
<1> QED BY <1>5, <1>6, <1>7, <1>8

(* Approve: the addresses nobody has and the subject become one account's, *)
(* which had no pin or this one.                                           *)
LEMMA ApproveStore ==
    ASSUME NEW a \in Accounts, NEW s \in Subjects, NEW E \in SUBSET Emails,
           StoreInv, Approvable(a, s, E), Approve(a, s, E)
    PROVE  /\ StoreInv' /\ PinsKept /\ AddressesKept
           /\ byAccount'[a] # None /\ byAccount'[a].subject = s
<1> USE DEF StoreInv
<1> DEFINE had == IF byAccount[a] = None THEN {} ELSE byAccount[a].emails
           more == {e \in E : byEmail[e] = None}
           new == [emails |-> had \cup more, subject |-> s]
<1>1. /\ byAccount[a] = None \/ byAccount[a] \in Mappings
      /\ had \in SUBSET Emails
  BY DEF Maps, Mappings
<1>2. /\ byAccount' = [byAccount EXCEPT ![a] = new]
      /\ byEmail' = [e \in Emails |-> IF e \in more THEN a ELSE byEmail[e]]
      /\ bySubject' = [bySubject EXCEPT ![s] = a]
  BY DEF Approve
<1>3. new \in Mappings /\ new # None /\ new.subject = s /\ new.emails = had \cup more
  BY <1>1, MappingIsNotNone
<1>4. byAccount'[a] = new
  BY <1>2 DEF Maps
<1>5. /\ \A e \in E : byEmail[e] \in {a, None}
      /\ bySubject[s] \in {a, None}
      /\ byAccount[a] # None => byAccount[a].subject \in {s, None}
  BY DEF Approvable
<1>6. \A e \in Emails : e \in had <=> byEmail[e] = a
  BY DEF Addresses
<1> HIDE DEF had, new
<1>7. Maps'
  BY <1>2, <1>3 DEF Maps
<1>8. Addresses'
  <2> SUFFICES ASSUME NEW e \in Emails, NEW b \in Accounts
               PROVE  byEmail'[e] = b <=> byAccount'[b] # None /\ e \in byAccount'[b].emails
    BY DEF Addresses
  <2>1. CASE b = a
    BY <1>2, <1>3, <1>4, <1>6, <2>1
  <2>2. CASE b # a
    BY <1>2, <2>2, ConstantsOK DEF Addresses, Maps
  <2> QED BY <2>1, <2>2
<1>9. Objects'
  <2> SUFFICES ASSUME NEW t \in Subjects, NEW b \in Accounts
               PROVE  bySubject'[t] = b <=> byAccount'[b] # None /\ byAccount'[b].subject = t
    BY DEF Objects
  <2>1. CASE b = a
    BY <1>2, <1>3, <1>4, <1>5, <2>1, ConstantsOK DEF Objects, Maps
  <2>2. CASE b # a
    BY <1>2, <1>5, <2>2, ConstantsOK DEF Objects, Maps
  <2> QED BY <2>1, <2>2
<1>10. PinsKept /\ AddressesKept
  BY <1>2, <1>3, <1>4, <1>5 DEF PinsKept, AddressesKept, Maps
<1> QED BY <1>3, <1>4, <1>7, <1>8, <1>9, <1>10

(* Forget: the record goes, and with it every line of the indexes it had.  *)
LEMMA ForgetStore ==
    ASSUME NEW a \in Accounts, StoreInv, byAccount[a] # None, Forget(a)
    PROVE  StoreInv' /\ byAccount' = [byAccount EXCEPT ![a] = None] /\ AddressesKept
<1> USE DEF StoreInv
<1>1. /\ byAccount' = [byAccount EXCEPT ![a] = None]
      /\ byEmail' = [e \in Emails |-> IF e \in byAccount[a].emails THEN None ELSE byEmail[e]]
  BY DEF Forget, Cleared
<1>2. byAccount[a] \in Mappings
  BY DEF Maps
<1>3. bySubject' = [s \in Subjects |-> IF s = byAccount[a].subject THEN None ELSE bySubject[s]]
  <2>1. bySubject = [s \in Subjects |-> bySubject[s]]
    BY DEF Maps
  <2>2. CASE byAccount[a].subject = None
    BY <2>1, <2>2, ConstantsOK DEF Forget
  <2>3. CASE byAccount[a].subject # None
    <3>1. byAccount[a].subject \in Subjects
      BY <1>2, <2>3 DEF Mappings
    <3>2. bySubject' = [bySubject EXCEPT ![byAccount[a].subject] = None]
      BY <2>3 DEF Forget
    <3> QED BY <2>1, <3>1, <3>2
  <2> QED BY <2>2, <2>3
<1>4. Maps'
  BY <1>1, <1>3 DEF Maps
<1>5. Addresses'
  BY <1>1, ConstantsOK DEF Addresses, Maps
<1>6. Objects'
  BY <1>1, <1>3, ConstantsOK DEF Objects, Maps
<1>7. AddressesKept
  BY <1>1 DEF AddressesKept
<1> QED BY <1>1, <1>4, <1>5, <1>6, <1>7

-----------------------------------------------------------------------------
(* The queue: it holds requests, and no more of them than its ceiling.     *)

(* A row taken out of the queue leaves the other rows. *)
LEMMA RemoveAtProperties ==
    ASSUME NEW q \in Seq(Requests), NEW i \in 1..Len(q)
    PROVE  RemoveAt(q, i) \in Seq(Requests) /\ Len(RemoveAt(q, i)) = Len(q) - 1
<1> DEFINE front == SubSeq(q, 1, i - 1)
           back == SubSeq(q, i + 1, Len(q))
<1>1. Len(q) \in Nat /\ \A j \in 1..Len(q) : q[j] \in Requests
  BY LenProperties, ElementOfSeq
<1>2. front \in Seq(Requests) /\ Len(front) = i - 1
  BY <1>1, SubSeqProperties
<1>3. back \in Seq(Requests) /\ Len(back) = Len(q) - i
  BY <1>1, SubSeqProperties
<1>4. RemoveAt(q, i) = front \o back
  BY DEF RemoveAt
<1> HIDE DEF front, back
<1>5. front \o back \in Seq(Requests) /\ Len(front \o back) = Len(front) + Len(back)
  BY <1>2, <1>3, ConcatProperties
<1>6. Len(front \o back) = Len(q) - 1
  BY <1>1, <1>2, <1>3, <1>5
<1> QED BY <1>4, <1>5, <1>6

(* Recording a request keeps the queue within its ceiling, and so does     *)
(* taking one out.                                                         *)
LEMMA QueueBounded ==
    ASSUME NEW s \in Subjects, NEW E \in SUBSET Emails,
           pending \in Seq(Requests), Len(pending) <= MaxPending
    PROVE  /\ Recorded(s, E) \in Seq(Requests) /\ Len(Recorded(s, E)) <= MaxPending
           /\ Without(s) \in Seq(Requests) /\ Len(Without(s)) <= MaxPending
<1>1. Len(pending) \in Nat /\ MaxPending \in Nat /\ MaxPending > 0
  BY LenProperties, ConstantsOK
<1>2. \A F \in SUBSET Emails : Request(s, F) \in Requests
  BY DEF Request, Requests
<1>3. CASE Rows(s) # {}
  <2> DEFINE others == RemoveAt(pending, Row(s))
             row == Request(s, E \cup pending[Row(s)].emails)
  <2>1. Row(s) \in 1..Len(pending)
    BY <1>3, LenProperties DEF Rows, Row
  <2>2. others \in Seq(Requests) /\ Len(others) = Len(pending) - 1
    BY <2>1, RemoveAtProperties
  <2>3. row \in Requests
    <3>1. pending[Row(s)] \in Requests
      BY <2>1, ElementOfSeq
    <3> QED BY <1>2, <3>1 DEF Requests
  <2>4. Recorded(s, E) = Append(others, row) /\ Without(s) = others
    BY <1>3 DEF Recorded, Without
  <2> HIDE DEF others, row
  <2>5. Append(others, row) \in Seq(Requests) /\ Len(Append(others, row)) = Len(others) + 1
    BY <2>2, <2>3, AppendProperties
  <2> QED BY <1>1, <2>2, <2>4, <2>5
<1>4. CASE Rows(s) = {}
  <2> DEFINE rest == IF NoRoom(pending) THEN Tail(pending) ELSE pending
  <2>1. rest \in Seq(Requests) /\ Len(rest) < MaxPending
    <3>1. CASE NoRoom(pending)
      <4>1. pending # <<>>
        BY <1>1, <3>1, EmptySeq DEF NoRoom
      <4> QED BY <1>1, <3>1, <4>1, HeadTailProperties
    <3>2. CASE ~NoRoom(pending)
      BY <1>1, <3>2 DEF NoRoom
    <3> QED BY <3>1, <3>2
  <2>2. Recorded(s, E) = Append(rest, Request(s, E)) /\ Without(s) = pending
    BY <1>4 DEF Recorded, Without
  <2> HIDE DEF rest
  <2>3. /\ Append(rest, Request(s, E)) \in Seq(Requests)
        /\ Len(Append(rest, Request(s, E))) = Len(rest) + 1
    BY <1>2, <2>1, AppendProperties
  <2>4. Len(rest) \in Nat
    BY <2>1, LenProperties
  <2> QED BY <1>1, <2>1, <2>2, <2>3, <2>4
<1> QED BY <1>3, <1>4

-----------------------------------------------------------------------------
(* Every step leaves the store whole, and only a Forget unbinds.           *)
LEMMA StoreStep ==
    ASSUME TypeOK, Carried, StoreInv, Next
    PROVE  /\ StoreInv' /\ AddressesKept
           /\ PinsKept \/ \E a \in Accounts : AdminForget(a)
<1>1. CASE UNCHANGED <<byAccount, byEmail, bySubject>>
  BY <1>1 DEF StoreInv, Maps, Addresses, Objects, AddressesKept, PinsKept
<1>2. ASSUME NEW p \in Procs, AttachEmail(p) PROVE StoreInv' /\ AddressesKept /\ PinsKept
  <2> DEFINE s == IF sign[p].forgotten THEN None ELSE sign[p].subject
  <2>1. sign[p].account \in Accounts /\ sign[p].email \in Emails /\ s \in Subjects \cup {None}
    BY <1>2 DEF AttachEmail, Carried
  <2>2. \/ Attachable(sign[p].account, sign[p].email) /\ Attach(sign[p].account, sign[p].email, s)
        \/ UNCHANGED store
    BY <1>2 DEF AttachEmail
  <2> HIDE DEF s
  <2> QED BY <1>1, <2>1, <2>2, AttachStore DEF store, AddressesKept, PinsKept
<1>3. ASSUME NEW p \in Procs, PinStep(p) PROVE StoreInv' /\ AddressesKept /\ PinsKept
  <2>1. sign[p].account \in Accounts /\ sign[p].subject \in Subjects
    BY <1>3 DEF PinStep, Carried
  <2>2. \/ Pinnable(sign[p].account, sign[p].subject) /\ Pin(sign[p].account, sign[p].subject)
        \/ UNCHANGED store
    BY <1>3 DEF PinStep
  <2> QED BY <1>1, <2>1, <2>2, PinStore DEF store, AddressesKept, PinsKept
<1>4. ASSUME NEW p \in Procs, NEW e \in Emails, Trust(p, e)
      PROVE  StoreInv' /\ AddressesKept /\ PinsKept
  <2>1. NameOf[e] \in Accounts /\ sign[p].subject \in Subjects
    BY <1>4, ConstantsOK DEF Trust, Carried
  <2>2. \/ Approvable(NameOf[e], sign[p].subject, {e}) /\ Approve(NameOf[e], sign[p].subject, {e})
        \/ UNCHANGED store
    BY <1>4 DEF Trust
  <2> QED BY <1>1, <2>1, <2>2, ApproveStore DEF store, AddressesKept, PinsKept
<1>5. ASSUME NEW p \in Procs, NEW a \in Accounts, Provision(p, a)
      PROVE  StoreInv' /\ AddressesKept /\ PinsKept
  <2>1. sign[p].emails \in SUBSET Emails /\ sign[p].subject \in Subjects
    BY <1>5 DEF Provision, Carried, TypeOK, Signs
  <2>2. \/ Approvable(a, sign[p].subject, sign[p].emails) /\ Approve(a, sign[p].subject, sign[p].emails)
        \/ UNCHANGED store
    BY <1>5 DEF Provision
  <2> QED BY <1>1, <2>1, <2>2, ApproveStore DEF store, AddressesKept, PinsKept
<1>6. CASE AdminApprove
  <2> DEFINE r == admin.req
  <2>1. admin.account \in Accounts /\ r.subject \in Subjects /\ r.emails \in SUBSET Emails
    BY <1>6 DEF AdminApprove, TypeOK, Requests
  <2>2. \/ Approvable(admin.account, r.subject, r.emails) /\ Approve(admin.account, r.subject, r.emails)
        \/ UNCHANGED store
    BY <1>6 DEF AdminApprove
  <2> QED BY <1>1, <2>1, <2>2, ApproveStore DEF store, AddressesKept, PinsKept
<1>7. ASSUME NEW a \in Accounts, AdminForget(a) PROVE StoreInv' /\ AddressesKept
  BY <1>7, ForgetStore DEF AdminForget
<1> QED
  <2>1. \/ \E p \in Procs : AttachEmail(p) \/ PinStep(p)
        \/ \E p \in Procs, e \in Emails : Trust(p, e)
        \/ \E p \in Procs, a \in Accounts : Provision(p, a)
        \/ AdminApprove
        \/ \E a \in Accounts : AdminForget(a)
        \/ UNCHANGED <<byAccount, byEmail, bySubject>>
    BY DEF Next, store, Begin, BySubject, AttachNext, AttachDone, ByEmail,
       NoEmailKnown, NobodyYet,
           Record, AdminGet, AdminApproved, AdminDiscard, Expire, Reassign
  <2> QED BY <1>1, <1>2, <1>3, <1>4, <1>5, <1>6, <1>7, <2>1

-----------------------------------------------------------------------------
(* The type invariant, by what the variables are about. *)
LEMMA TypeParts == TypeOK <=> Maps /\ SigningIn /\ Waiting /\ Others
BY DEF TypeOK, Maps, SigningIn, Waiting, Others

(* What a sign-in has found so far is changed a field at a time.           *)
LEMMA SignFields ==
    /\ NoSign \in Signs
    /\ \A w \in Signs :
          /\ \A a \in Accounts \cup {None} : [w EXCEPT !.account = a] \in Signs
          /\ \A e \in Emails : [w EXCEPT !.todo = @ \ {e}, !.email = e] \in Signs
          /\ \A e \in Emails, a \in Accounts \cup {None} :
                [w EXCEPT !.todo = @ \ {e}, !.account = a] \in Signs
          /\ \A b \in BOOLEAN : [w EXCEPT !.forgotten = b] \in Signs
BY DEF Signs, NoSign

(* Every step leaves each variable of its type and each sign-in what it     *)
(* needs for its next call.                                                *)
LEMMA TypeStep ==
    ASSUME TypeOK, Carried, Next
    PROVE  SigningIn' /\ Carried' /\ Waiting' /\ Others'
<1> USE TypeParts, ConstantsOK
<1>1. ASSUME NEW p \in Procs, NEW s \in Subjects, Begin(p, s)
      PROVE  SigningIn' /\ Carried' /\ Waiting' /\ Others'
  <2>1. SigningIn'
    BY <1>1 DEF Begin, Goto, SigningIn, Labels, Signs, NoSign, Carried
  <2>2. Carried'
    BY <1>1 DEF Begin, Goto, Carried, Labels, Signs, NoSign, SigningIn
  <2>3. Waiting'
    BY <1>1 DEF Begin, Waiting
  <2>4. Others'
    BY <1>1 DEF Begin, Goto, Others, store
  <2> QED BY <2>1, <2>2, <2>3, <2>4
<1>2. ASSUME NEW p \in Procs, BySubject(p) PROVE SigningIn' /\ Carried' /\ Waiting' /\ Others'
  <2>1. SigningIn'
    BY <1>2 DEF BySubject, Goto, SignIn, SigningIn, Labels, Signs, Maps, NoSign, Carried
  <2>2. Carried'
    BY <1>2 DEF BySubject, Goto, SignIn, Carried, Labels, Signs, Maps, NoSign, SigningIn
  <2>3. Waiting'
    BY <1>2 DEF BySubject, Waiting
  <2>4. Others'
    <3>1. sign[p].subject \in Subjects
      BY <1>2 DEF BySubject, Carried
    <3>2. bySubject[sign[p].subject] \in Accounts \cup {None}
      BY <3>1 DEF Maps
    <3>3. signedIn' \in [Accounts -> SUBSET Subjects]
      BY <1>2, <3>1, <3>2 DEF BySubject, SignIn, Others
    <3> QED BY <1>2, <3>3 DEF BySubject, Others, store
  <2> QED BY <2>1, <2>2, <2>3, <2>4
<1>3. ASSUME NEW p \in Procs, NEW e \in Emails, AttachNext(p, e)
      PROVE  SigningIn' /\ Carried' /\ Waiting' /\ Others'
  <2>1. SigningIn'
    <3>1. sign' = [sign EXCEPT ![p] = [sign[p] EXCEPT !.todo = @ \ {e}, !.email = e]]
      BY <1>3 DEF AttachNext
    <3>2. sign' \in [Procs -> Signs]
      BY <3>1, SignFields DEF SigningIn
    <3>3. pc' \in [Procs -> Labels]
      BY <1>3 DEF AttachNext, Goto, SigningIn, Labels
    <3> QED BY <3>2, <3>3 DEF SigningIn
  <2>2. Carried'
    BY <1>3 DEF AttachNext, Goto, Carried, Labels, Signs, NoSign, SigningIn
  <2>3. Waiting'
    BY <1>3 DEF AttachNext, Waiting
  <2>4. Others'
    BY <1>3 DEF AttachNext, Goto, Others, store
  <2> QED BY <2>1, <2>2, <2>3, <2>4
<1>4. ASSUME NEW p \in Procs, AttachEmail(p) PROVE SigningIn' /\ Carried' /\ Waiting' /\ Others'
  <2>1. SigningIn'
    BY <1>4 DEF AttachEmail, Attach, Goto, SigningIn, Labels, Signs, NoSign, Carried
  <2>2. Carried'
    BY <1>4 DEF AttachEmail, Attach, Goto, Carried, Labels, Signs, NoSign, SigningIn
  <2>3. Waiting'
    BY <1>4 DEF AttachEmail, Waiting
  <2>4. Others'
    BY <1>4 DEF AttachEmail, Attach, Goto, Others, store, Carried, Requests, SigningIn
  <2> QED BY <2>1, <2>2, <2>3, <2>4
<1>5. ASSUME NEW p \in Procs, AttachDone(p) PROVE SigningIn' /\ Carried' /\ Waiting' /\ Others'
  <2>1. SigningIn'
    BY <1>5 DEF AttachDone, Finish, Goto, SigningIn, Labels, Signs, NoSign, Carried
  <2>2. Carried'
    BY <1>5 DEF AttachDone, Finish, Goto, Carried, Labels, Signs, NoSign, SigningIn
  <2>3. Waiting'
    BY <1>5 DEF AttachDone, Waiting
  <2>4. Others'
    BY <1>5 DEF AttachDone, Finish, Goto, Others, store
  <2> QED BY <2>1, <2>2, <2>3, <2>4
<1>6. ASSUME NEW p \in Procs, NEW e \in Emails, ByEmail(p, e)
      PROVE  SigningIn' /\ Carried' /\ Waiting' /\ Others'
  <2>1. SigningIn'
    <3>1. sign' = [sign EXCEPT ![p] = [sign[p] EXCEPT !.todo = @ \ {e}, !.account = byEmail[e]]]
      BY <1>6 DEF ByEmail
    <3>2. byEmail[e] \in Accounts \cup {None}
      BY DEF Maps
    <3>3. sign' \in [Procs -> Signs]
      BY <3>1, <3>2, SignFields DEF SigningIn
    <3>4. pc' \in [Procs -> Labels]
      BY <1>6 DEF ByEmail, Goto, SigningIn, Labels
    <3> QED BY <3>3, <3>4 DEF SigningIn
  <2>2. Carried'
    BY <1>6 DEF ByEmail, Goto, Carried, Labels, Signs, Maps, NoSign, SigningIn
  <2>3. Waiting'
    BY <1>6 DEF ByEmail, Waiting
  <2>4. Others'
    BY <1>6 DEF ByEmail, Goto, Others, store
  <2> QED BY <2>1, <2>2, <2>3, <2>4
<1>7. ASSUME NEW p \in Procs, PinStep(p) PROVE SigningIn' /\ Carried' /\ Waiting' /\ Others'
  <2>1. SigningIn'
    <3>1. sign' = sign \/ sign' = [sign EXCEPT ![p] = NoSign]
      BY <1>7 DEF PinStep, Finish
    <3>2. sign' \in [Procs -> Signs]
      BY <3>1, SignFields DEF SigningIn
    <3>3. pc' = [pc EXCEPT ![p] = "idle"] \/ pc' = [pc EXCEPT ![p] = "queue"]
      BY <1>7 DEF PinStep, Finish, Goto
    <3>4. pc' \in [Procs -> Labels]
      BY <3>3 DEF SigningIn, Labels
    <3> QED BY <3>2, <3>4 DEF SigningIn
  <2>2. Carried'
    BY <1>7 DEF PinStep, Pin, SignIn, Finish, Goto, Carried, Labels, Signs, NoSign, SigningIn
  <2>3. Waiting'
    BY <1>7 DEF PinStep, Waiting
  <2>4. Others'
    BY <1>7 DEF PinStep, Pin, SignIn, Finish, Goto, Others, store, Carried, Requests, SigningIn
  <2> QED BY <2>1, <2>2, <2>3, <2>4
<1>8. ASSUME NEW p \in Procs, NoEmailKnown(p)
      PROVE  SigningIn' /\ Carried' /\ Waiting' /\ Others'
  <2>1. SigningIn'
    BY <1>8 DEF NoEmailKnown, Goto, SigningIn, Labels, Signs, NoSign, Carried
  <2>2. Carried'
    BY <1>8 DEF NoEmailKnown, Goto, Carried, Labels, Signs, NoSign, SigningIn
  <2>3. Waiting'
    BY <1>8 DEF NoEmailKnown, Waiting
  <2>4. Others'
    BY <1>8 DEF NoEmailKnown, Goto, Others, store
  <2> QED BY <2>1, <2>2, <2>3, <2>4
<1>9. ASSUME NEW p \in Procs, NEW e \in Emails, Trust(p, e)
      PROVE  SigningIn' /\ Carried' /\ Waiting' /\ Others'
  <2>1. SigningIn'
    <3>1. sign' = sign \/ sign' = [sign EXCEPT ![p] = NoSign]
      BY <1>9 DEF Trust, Finish
    <3>2. sign' \in [Procs -> Signs]
      BY <3>1, SignFields DEF SigningIn
    <3>3. pc' = [pc EXCEPT ![p] = "idle"] \/ pc' = [pc EXCEPT ![p] = "queue"]
      BY <1>9 DEF Trust, Finish, Goto
    <3>4. pc' \in [Procs -> Labels]
      BY <3>3 DEF SigningIn, Labels
    <3> QED BY <3>2, <3>4 DEF SigningIn
  <2>2. Carried'
    BY <1>9 DEF Trust, Approve, SignIn, Finish, Goto, Carried, Labels, Signs, NoSign, SigningIn
  <2>3. Waiting'
    BY <1>9 DEF Trust, Waiting
  <2>4. Others'
    BY <1>9 DEF Trust, Approve, SignIn, Finish, Goto, Others, store, Carried, Requests,
       SigningIn
  <2> QED BY <2>1, <2>2, <2>3, <2>4
<1>10. ASSUME NEW p \in Procs, NEW a \in Accounts, Provision(p, a)
       PROVE  SigningIn' /\ Carried' /\ Waiting' /\ Others'
  <2>1. SigningIn'
    <3>1. sign' = sign \/ sign' = [sign EXCEPT ![p] = NoSign]
      BY <1>10 DEF Provision, Finish
    <3>2. sign' \in [Procs -> Signs]
      BY <3>1, SignFields DEF SigningIn
    <3>3. pc' = [pc EXCEPT ![p] = "idle"] \/ pc' = [pc EXCEPT ![p] = "queue"]
      BY <1>10 DEF Provision, Finish, Goto
    <3>4. pc' \in [Procs -> Labels]
      BY <3>3 DEF SigningIn, Labels
    <3> QED BY <3>2, <3>4 DEF SigningIn
  <2>2. Carried'
    BY <1>10 DEF Provision, Approve, SignIn, Finish, Goto, Carried, Labels, Signs,
       NoSign, SigningIn
  <2>3. Waiting'
    BY <1>10 DEF Provision, Waiting
  <2>4. Others'
    BY <1>10 DEF Provision, Approve, SignIn, Finish, Goto, Others, store, Carried,
       Requests, SigningIn
  <2> QED BY <2>1, <2>2, <2>3, <2>4
<1>11. ASSUME NEW p \in Procs, NobodyYet(p) PROVE SigningIn' /\ Carried' /\ Waiting' /\ Others'
  <2>1. SigningIn'
    BY <1>11 DEF NobodyYet, Goto, SigningIn, Labels, Signs, NoSign, Carried
  <2>2. Carried'
    BY <1>11 DEF NobodyYet, Goto, Carried, Labels, Signs, NoSign, SigningIn
  <2>3. Waiting'
    BY <1>11 DEF NobodyYet, Waiting
  <2>4. Others'
    BY <1>11 DEF NobodyYet, Goto, Others, store
  <2> QED BY <2>1, <2>2, <2>3, <2>4
<1>12. ASSUME NEW p \in Procs, Record(p) PROVE SigningIn' /\ Carried' /\ Waiting' /\ Others'
  <2>1. SigningIn'
    BY <1>12 DEF Record, Finish, Goto, SigningIn, Labels, Signs, NoSign, Carried
  <2>2. Carried'
    BY <1>12 DEF Record, Finish, Goto, Carried, Labels, Signs, NoSign, SigningIn
  <2>3. Waiting'
    <3>1. sign[p].subject \in Subjects /\ sign[p].emails \in SUBSET Emails
      BY <1>12 DEF Record, Carried, SigningIn, Signs
    <3>2. pending' = Recorded(sign[p].subject, sign[p].emails)
      BY <1>12 DEF Record
    <3> QED BY <3>1, <3>2, QueueBounded DEF Waiting
  <2>4. Others'
    BY <1>12 DEF Record, Finish, Goto, Others, store
  <2> QED BY <2>1, <2>2, <2>3, <2>4
<1>13. ASSUME NEW i \in DOMAIN pending, NEW a \in Accounts, AdminGet(i, a)
       PROVE  SigningIn' /\ Carried' /\ Waiting' /\ Others'
  <2>1. SigningIn'
    BY <1>13 DEF AdminGet, SigningIn, Labels, Signs, NoSign, Carried
  <2>2. Carried'
    BY <1>13 DEF AdminGet, Carried, Labels, Signs, NoSign, SigningIn
  <2>3. Waiting'
    BY <1>13 DEF AdminGet, Waiting
  <2>4. Others'
    <3>1. pending[i] \in Requests
      BY ElementOfSeq, LenProperties DEF Waiting
    <3> QED BY <1>13, <3>1 DEF AdminGet, store, Others
  <2> QED BY <2>1, <2>2, <2>3, <2>4
<1>14. CASE AdminApprove
  <2>1. SigningIn'
    BY <1>14 DEF AdminApprove, Approve, SigningIn, Labels, Signs, NoSign, Carried
  <2>2. Carried'
    BY <1>14 DEF AdminApprove, Approve, Carried, Labels, Signs, NoSign, SigningIn
  <2>3. Waiting'
    BY <1>14 DEF AdminApprove, Waiting
  <2>4. Others'
    BY <1>14 DEF AdminApprove, Approve, Others, store, Carried, Requests, SigningIn
  <2> QED BY <2>1, <2>2, <2>3, <2>4
<1>15. CASE AdminApproved
  <2>1. SigningIn'
    BY <1>15 DEF AdminApproved, SigningIn, Labels, Signs, NoSign, Carried
  <2>2. Carried'
    BY <1>15 DEF AdminApproved, Carried, Labels, Signs, NoSign, SigningIn
  <2>3. Waiting'
    <3>1. admin.req.subject \in Subjects
      BY <1>15 DEF AdminApproved, Others, Requests
    <3>2. pending' = Without(admin.req.subject)
      BY <1>15 DEF AdminApproved
    <3> QED BY <3>1, <3>2, QueueBounded DEF Waiting
  <2>4. Others'
    BY <1>15 DEF AdminApproved, Others, store
  <2> QED BY <2>1, <2>2, <2>3, <2>4
<1>16. ASSUME NEW i \in DOMAIN pending, AdminDiscard(i)
       PROVE  SigningIn' /\ Carried' /\ Waiting' /\ Others'
  <2>1. SigningIn'
    BY <1>16 DEF AdminDiscard, SigningIn, Labels, Signs, NoSign, Carried
  <2>2. Carried'
    BY <1>16 DEF AdminDiscard, Carried, Labels, Signs, NoSign, SigningIn
  <2>3. Waiting'
    <3>1. pending[i] \in Requests
      BY ElementOfSeq, LenProperties DEF Waiting
    <3>2. pending[i].subject \in Subjects
      BY <3>1 DEF Requests
    <3>3. pending' = Without(pending[i].subject)
      BY <1>16 DEF AdminDiscard
    <3> QED BY <3>2, <3>3, QueueBounded DEF Waiting
  <2>4. Others'
    BY <1>16 DEF AdminDiscard, Others, store
  <2> QED BY <2>1, <2>2, <2>3, <2>4
<1>17. ASSUME NEW a \in Accounts, AdminForget(a)
       PROVE  SigningIn' /\ Carried' /\ Waiting' /\ Others'
  <2>1. SigningIn'
    <3>1. ASSUME NEW p \in Procs
          PROVE  [sign[p] EXCEPT !.forgotten = @ \/ sign[p].account = a] \in Signs
      BY SignFields DEF SigningIn, Signs
    <3>2. sign' \in [Procs -> Signs] /\ pc' = pc
      BY <1>17, <3>1 DEF AdminForget
    <3> QED BY <3>2 DEF SigningIn
  <2>2. Carried'
    <3>1. pc' = pc /\ \A p \in Procs : /\ sign'[p].subject = sign[p].subject
                                     /\ sign'[p].account = sign[p].account
                                     /\ sign'[p].email = sign[p].email
      BY <1>17 DEF AdminForget, SigningIn, Signs
    <3> QED BY <3>1 DEF Carried
  <2>3. Waiting'
    BY <1>17 DEF AdminForget, Waiting
  <2>4. Others'
    BY <1>17 DEF AdminForget, Forget, Others, store, Carried, Requests, SigningIn
  <2> QED BY <2>1, <2>2, <2>3, <2>4
<1>18. CASE Expire
  <2>1. SigningIn'
    BY <1>18 DEF Expire, SigningIn, Labels, Signs, NoSign, Carried
  <2>2. Carried'
    BY <1>18 DEF Expire, Carried, Labels, Signs, NoSign, SigningIn
  <2>3. Waiting'
    BY <1>18 DEF Expire, Waiting
  <2>4. Others'
    BY <1>18 DEF Expire, Others, store
  <2> QED BY <2>1, <2>2, <2>3, <2>4
<1>19. ASSUME NEW e \in Emails, NEW t \in Subjects, Reassign(e, t)
       PROVE  SigningIn' /\ Carried' /\ Waiting' /\ Others'
  <2>1. SigningIn'
    BY <1>19 DEF Reassign, SigningIn, Labels, Signs, NoSign, Carried
  <2>2. Carried'
    BY <1>19 DEF Reassign, Carried, Labels, Signs, NoSign, SigningIn
  <2>3. Waiting'
    BY <1>19 DEF Reassign, Waiting
  <2>4. Others'
    BY <1>19 DEF Reassign, Others, store
  <2> QED BY <2>1, <2>2, <2>3, <2>4
<1> QED BY <1>1, <1>2, <1>3, <1>4, <1>5, <1>6, <1>7, <1>8, <1>9, <1>10, <1>11, <1>12,
           <1>13, <1>14, <1>15, <1>16, <1>17, <1>18, <1>19 DEF Next

-----------------------------------------------------------------------------
(* Who the accounts and the addresses belong to.  A step that keeps the    *)
(* pins keeps what is known of the accounts, of the addresses it does not  *)
(* move and of the sign-ins under way.                                     *)

(* An address nobody moves stays bound to the subject that brought it. *)
LEMMA BroughtKept ==
    ASSUME StoreInv, Brought, PinsKept, NEW e \in Emails,
           byEmail'[e] = byEmail[e], brought'[e] = brought[e],
           byEmail'[e] # None, brought'[e] # None
    PROVE  byAccount'[byEmail'[e]].subject = brought'[e]
<1>1. byEmail[e] \in Accounts /\ byAccount[byEmail[e]] # None
  BY DEF StoreInv, Maps, Addresses
<1>2. byAccount[byEmail[e]].subject = brought[e]
  BY DEF Brought
<1> QED BY <1>1, <1>2 DEF PinsKept

(* Who has signed in to an account stays whom the account is pinned to. *)
LEMMA SignedInKept ==
    ASSUME Others, SignedIn, PinsKept, NEW a \in Accounts, signedIn[a] # {}
    PROVE  byAccount'[a] # None /\ signedIn[a] = {byAccount'[a].subject}
<1>1. byAccount[a] # None /\ signedIn[a] = {byAccount[a].subject}
  BY DEF SignedIn
<1>2. byAccount[a].subject \in Subjects
  BY <1>1 DEF Others
<1>3. byAccount[a].subject # None
  BY <1>2, ConstantsOK
<1> QED BY <1>1, <1>3 DEF PinsKept

(* An account a sign-in has found by its subject stays that subject's. *)
LEMMA FoundKept ==
    ASSUME Carried, Found, PinsKept, NEW p \in Procs,
           pc[p] \in {"attach", "attaching"}, ~sign[p].forgotten
    PROVE  /\ byAccount'[sign[p].account] # None
           /\ byAccount'[sign[p].account].subject = sign[p].subject
<1>1. sign[p].account \in Accounts /\ sign[p].subject \in Subjects
  BY DEF Carried
<1>2. /\ byAccount[sign[p].account] # None
      /\ byAccount[sign[p].account].subject = sign[p].subject
  BY DEF Found
<1> QED BY <1>1, <1>2, ConstantsOK DEF PinsKept

(* Whoever is let in as an account is whom the store has pinned to it.     *)
LEMMA NewSignIn ==
    ASSUME Others, SignedIn, PinsKept, NEW p \in Procs, NEW a \in Accounts,
           sign[p].subject \in Subjects, SignIn(p, a),
           byAccount'[a] # None, byAccount'[a].subject = sign[p].subject
    PROVE  SignedIn'
<1> SUFFICES ASSUME NEW b \in Accounts, signedIn'[b] # {}
             PROVE  byAccount'[b] # None /\ signedIn'[b] = {byAccount'[b].subject}
  BY DEF SignedIn
<1>1. CASE b = a
  <2>1. signedIn'[a] = signedIn[a] \cup {sign[p].subject}
    BY DEF SignIn, Others
  <2>2. signedIn[a] = {} \/ signedIn[a] = {byAccount'[a].subject}
    BY SignedInKept
  <2> QED BY <1>1, <2>1, <2>2
<1>2. CASE b # a
  <2>1. signedIn'[b] = signedIn[b]
    BY <1>2 DEF SignIn, Others
  <2> QED BY <2>1, SignedInKept
<1> QED BY <1>1, <1>2

(* Approve binds the addresses that were free to the subject it pins. *)
LEMMA ApproveBrought ==
    ASSUME NEW a \in Accounts, NEW s \in Subjects, NEW E \in SUBSET Emails,
           StoreInv, Others, Brought, Approvable(a, s, E), Approve(a, s, E)
    PROVE  Brought'
<1>1. PinsKept /\ byAccount'[a].subject = s
  BY ApproveStore
<1> SUFFICES ASSUME NEW e \in Emails, byEmail'[e] # None, brought'[e] # None
             PROVE  byAccount'[byEmail'[e]].subject = brought'[e]
  BY DEF Brought
<1> DEFINE more == {f \in E : byEmail[f] = None}
<1>2. /\ byEmail' = [f \in Emails |-> IF f \in more THEN a ELSE byEmail[f]]
      /\ brought' = [f \in Emails |-> IF f \in more THEN s ELSE brought[f]]
  BY DEF Approve
<1> HIDE DEF more
<1>3. CASE e \in more
  BY <1>1, <1>2, <1>3
<1>4. CASE e \notin more
  BY <1>1, <1>2, <1>4, BroughtKept
<1> QED BY <1>3, <1>4

(* Attach binds an address to the subject of the account it goes to. *)
LEMMA AttachBrought ==
    ASSUME NEW a \in Accounts, NEW e \in Emails, NEW s \in Subjects \cup {None},
           StoreInv, Others, Brought, Attachable(a, e), Attach(a, e, s),
           s # None => byAccount[a].subject = s
    PROVE  Brought'
<1>1. PinsKept
  BY AttachStore
<1>2. byAccount[a] # None
  BY DEF Attachable
<1>3. byEmail' = [byEmail EXCEPT ![e] = a] /\ brought' = [brought EXCEPT ![e] = s]
  BY DEF Attach
<1> SUFFICES ASSUME NEW f \in Emails, byEmail'[f] # None, brought'[f] # None
             PROVE  byAccount'[byEmail'[f]].subject = brought'[f]
  BY DEF Brought
<1>4. CASE f = e
  <2>1. byEmail'[f] = a /\ brought'[f] = s
    BY <1>3, <1>4 DEF StoreInv, Maps, Others
  <2> QED BY <1>1, <1>2, <2>1 DEF PinsKept
<1>5. CASE f # e
  BY <1>1, <1>3, <1>5, BroughtKept DEF StoreInv, Maps, Others
<1> QED BY <1>4, <1>5

(* An address recorded for somebody answers for that person's account.     *)
LEMMA BroughtStep ==
    ASSUME PersonInv, Next
    PROVE  Brought'
<1> USE TypeParts DEF PersonInv, IndexInv, StoreInv
<1>1. CASE UNCHANGED store
  BY <1>1 DEF store, Brought
<1>2. ASSUME NEW p \in Procs, AttachEmail(p) PROVE Brought'
  <2> DEFINE s == IF sign[p].forgotten THEN None ELSE sign[p].subject
  <2>1. sign[p].account \in Accounts /\ sign[p].email \in Emails /\ s \in Subjects \cup {None}
    BY <1>2 DEF AttachEmail, Carried
  <2>2. \/ Attachable(sign[p].account, sign[p].email) /\ Attach(sign[p].account, sign[p].email, s)
        \/ UNCHANGED store
    BY <1>2 DEF AttachEmail
  <2>3. s # None => byAccount[sign[p].account].subject = s
    BY <1>2 DEF AttachEmail, Found
  <2> HIDE DEF s
  <2> QED BY <1>1, <2>1, <2>2, <2>3, AttachBrought
<1>3. ASSUME NEW p \in Procs, PinStep(p) PROVE Brought'
  <2>1. sign[p].account \in Accounts /\ sign[p].subject \in Subjects
    BY <1>3 DEF PinStep, Carried
  <2>2. \/ Pinnable(sign[p].account, sign[p].subject) /\ Pin(sign[p].account, sign[p].subject)
        \/ UNCHANGED store
    BY <1>3 DEF PinStep
  <2>3. CASE Pinnable(sign[p].account, sign[p].subject) /\ Pin(sign[p].account, sign[p].subject)
    <3>1. PinsKept /\ byEmail' = byEmail /\ brought' = brought
      BY <2>1, <2>3, PinStore DEF Pin
    <3> QED BY <3>1, BroughtKept DEF Brought
  <2> QED BY <1>1, <2>2, <2>3
<1>4. ASSUME NEW p \in Procs, NEW e \in Emails, Trust(p, e) PROVE Brought'
  <2>1. NameOf[e] \in Accounts /\ sign[p].subject \in Subjects
    BY <1>4, ConstantsOK DEF Trust, Carried
  <2>2. \/ Approvable(NameOf[e], sign[p].subject, {e}) /\ Approve(NameOf[e], sign[p].subject, {e})
        \/ UNCHANGED store
    BY <1>4 DEF Trust
  <2> QED BY <1>1, <2>1, <2>2, ApproveBrought
<1>5. ASSUME NEW p \in Procs, NEW a \in Accounts, Provision(p, a) PROVE Brought'
  <2>1. sign[p].emails \in SUBSET Emails /\ sign[p].subject \in Subjects
    BY <1>5 DEF Provision, Carried, TypeOK, Signs
  <2>2. \/ Approvable(a, sign[p].subject, sign[p].emails) /\ Approve(a, sign[p].subject, sign[p].emails)
        \/ UNCHANGED store
    BY <1>5 DEF Provision
  <2> QED BY <1>1, <2>1, <2>2, ApproveBrought
<1>6. CASE AdminApprove
  <2> DEFINE r == admin.req
  <2>1. admin.account \in Accounts /\ r.subject \in Subjects /\ r.emails \in SUBSET Emails
    BY <1>6 DEF AdminApprove, TypeOK, Requests
  <2>2. \/ Approvable(admin.account, r.subject, r.emails) /\ Approve(admin.account, r.subject, r.emails)
        \/ UNCHANGED store
    BY <1>6 DEF AdminApprove
  <2> QED BY <1>1, <2>1, <2>2, ApproveBrought
<1>7. ASSUME NEW a \in Accounts, AdminForget(a) PROVE Brought'
  <2>1. /\ byAccount' = [byAccount EXCEPT ![a] = None]
        /\ byEmail' = [e \in Emails |-> IF e \in byAccount[a].emails THEN None ELSE byEmail[e]]
        /\ brought' = [e \in Emails |-> IF e \in byAccount[a].emails THEN None ELSE brought[e]]
        /\ byAccount[a] # None
    BY <1>7 DEF AdminForget, Forget, Cleared
  <2> QED BY <2>1 DEF Brought, Maps, Addresses
<1> QED
  <2>1. \/ \E p \in Procs : AttachEmail(p) \/ PinStep(p)
        \/ \E p \in Procs, e \in Emails : Trust(p, e)
        \/ \E p \in Procs, a \in Accounts : Provision(p, a)
        \/ AdminApprove
        \/ \E a \in Accounts : AdminForget(a)
        \/ UNCHANGED store
    BY DEF Next, Begin, BySubject, AttachNext, AttachDone, ByEmail, NoEmailKnown, NobodyYet,
           Record, AdminGet, AdminApproved, AdminDiscard, Expire, Reassign
  <2> QED BY <1>1, <1>2, <1>3, <1>4, <1>5, <1>6, <1>7, <2>1

(* Whoever has signed in as an account is whom it is pinned to.            *)
LEMMA SignedInStep ==
    ASSUME PersonInv, Next
    PROVE  SignedIn'
<1> USE TypeParts DEF PersonInv, IndexInv, StoreInv
<1>1. PinsKept \/ \E a \in Accounts : AdminForget(a)
  BY StoreStep
<1>2. CASE PinsKept /\ signedIn' = signedIn
  BY <1>2, SignedInKept DEF SignedIn
<1>3. ASSUME NEW p \in Procs, BySubject(p), PinsKept PROVE SignedIn'
  <2> DEFINE a == bySubject[sign[p].subject]
  <2>1. sign[p].subject \in Subjects /\ byAccount' = byAccount
    BY <1>3 DEF BySubject, Carried, store
  <2>2. CASE a = None
    BY <1>2, <1>3, <2>2 DEF BySubject
  <2>3. CASE a # None
    <3>1. a \in Accounts /\ byAccount[a] # None /\ byAccount[a].subject = sign[p].subject
      BY <2>1, <2>3 DEF Maps, Objects
    <3>2. SignIn(p, a)
      BY <1>3, <2>3 DEF BySubject
    <3> QED BY <1>3, <2>1, <3>1, <3>2, NewSignIn
  <2> QED BY <2>2, <2>3
<1>4. ASSUME NEW p \in Procs, PinStep(p), PinsKept PROVE SignedIn'
  <2> DEFINE a == sign[p].account
             s == sign[p].subject
  <2>1. a \in Accounts /\ s \in Subjects
    BY <1>4 DEF PinStep, Carried
  <2>2. \/ Pinnable(a, s) /\ Pin(a, s) /\ SignIn(p, a)
        \/ Pinned(a, s) /\ UNCHANGED store /\ SignIn(p, a)
        \/ UNCHANGED signedIn
    BY <1>4 DEF PinStep
  <2>3. CASE Pinnable(a, s) /\ Pin(a, s) /\ SignIn(p, a)
    <3>1. byAccount[a] \in Mappings /\ byAccount[a] # None
      BY <2>1, <2>3 DEF Pinnable, Maps
    <3>2. byAccount'[a] = [byAccount[a] EXCEPT !.subject = s]
      BY <2>1, <2>3 DEF Pin, Maps
    <3>3. byAccount'[a].subject = s
      BY <3>1, <3>2 DEF Mappings
    <3>4. byAccount'[a] # None
      BY <1>4, <2>1, <3>1 DEF PinsKept
    <3> QED BY <1>4, <2>1, <2>3, <3>3, <3>4, NewSignIn
  <2>4. CASE Pinned(a, s) /\ UNCHANGED store /\ SignIn(p, a)
    BY <1>4, <2>1, <2>4, NewSignIn DEF Pinned, store
  <2> QED BY <1>2, <1>4, <2>2, <2>3, <2>4
<1>5. ASSUME NEW p \in Procs, NEW e \in Emails, Trust(p, e), PinsKept PROVE SignedIn'
  <2>1. NameOf[e] \in Accounts /\ sign[p].subject \in Subjects
    BY <1>5, ConstantsOK DEF Trust, Carried
  <2>2. \/ /\ Approvable(NameOf[e], sign[p].subject, {e}) /\ Approve(NameOf[e], sign[p].subject, {e})
           /\ SignIn(p, NameOf[e])
        \/ UNCHANGED signedIn
    BY <1>5 DEF Trust
  <2> QED BY <1>2, <1>5, <2>1, <2>2, ApproveStore, NewSignIn
<1>6. ASSUME NEW p \in Procs, NEW a \in Accounts, Provision(p, a), PinsKept PROVE SignedIn'
  <2>1. sign[p].emails \in SUBSET Emails /\ sign[p].subject \in Subjects
    BY <1>6 DEF Provision, Carried, TypeOK, Signs
  <2>2. \/ /\ Approvable(a, sign[p].subject, sign[p].emails) /\ Approve(a, sign[p].subject, sign[p].emails)
           /\ SignIn(p, a)
        \/ UNCHANGED signedIn
    BY <1>6 DEF Provision
  <2> QED BY <1>2, <1>6, <2>1, <2>2, ApproveStore, NewSignIn
<1>7. ASSUME NEW a \in Accounts, AdminForget(a) PROVE SignedIn'
  <2>1. byAccount' = [byAccount EXCEPT ![a] = None] /\ signedIn' = [signedIn EXCEPT ![a] = {}]
    BY <1>7 DEF AdminForget, Forget
  <2> QED BY <2>1 DEF SignedIn, Maps, Others
<1> QED
  <2>1. \/ \E p \in Procs : BySubject(p) \/ PinStep(p)
        \/ \E p \in Procs, e \in Emails : Trust(p, e)
        \/ \E p \in Procs, a \in Accounts : Provision(p, a)
        \/ \E a \in Accounts : AdminForget(a)
        \/ UNCHANGED signedIn
    BY DEF Next, Begin, AttachNext, AttachEmail, AttachDone, ByEmail, NoEmailKnown, NobodyYet,
           Record, AdminGet, AdminApprove, AdminApproved, AdminDiscard, Expire, Reassign
  <2> QED BY <1>1, <1>2, <1>3, <1>4, <1>5, <1>6, <1>7, <2>1

(* The account found for a subject is pinned to it until it is forgotten.  *)
LEMMA FoundStep ==
    ASSUME PersonInv, Next
    PROVE  Found'
<1> USE TypeParts DEF PersonInv, IndexInv, StoreInv
<1> SUFFICES ASSUME NEW p \in Procs, pc'[p] \in {"attach", "attaching"}, ~sign'[p].forgotten
             PROVE  /\ byAccount'[sign'[p].account] # None
                    /\ byAccount'[sign'[p].account].subject = sign'[p].subject
  BY DEF Found
<1>1. ASSUME NEW a \in Accounts, AdminForget(a)
      PROVE  /\ byAccount'[sign'[p].account] # None
             /\ byAccount'[sign'[p].account].subject = sign'[p].subject
  <2>1. /\ byAccount' = [byAccount EXCEPT ![a] = None]
        /\ pc' = pc
        /\ sign'[p] = [sign[p] EXCEPT !.forgotten = @ \/ sign[p].account = a]
    BY <1>1 DEF AdminForget, Forget
  <2>2. /\ sign'[p].account = sign[p].account /\ sign'[p].subject = sign[p].subject
        /\ ~sign[p].forgotten /\ sign[p].account # a
    BY <2>1 DEF SigningIn, Signs
  <2> QED BY <2>1, <2>2 DEF Found, Carried, Maps
<1>2. CASE /\ PinsKept /\ pc[p] \in {"attach", "attaching"} /\ ~sign[p].forgotten
           /\ sign'[p].account = sign[p].account /\ sign'[p].subject = sign[p].subject
  BY <1>2, FoundKept
<1>3. CASE BySubject(p)
  <2>1. sign[p].subject \in Subjects /\ byAccount' = byAccount
    BY <1>3 DEF BySubject, Carried, store
  <2>2. bySubject[sign[p].subject] # None
    BY <1>3 DEF BySubject, Goto, SigningIn
  <2>3. sign'[p].account = bySubject[sign[p].subject] /\ sign'[p].subject = sign[p].subject
    BY <1>3, <2>2 DEF BySubject, SigningIn, Signs
  <2> QED BY <2>1, <2>2, <2>3 DEF Objects, Maps
<1>4. \/ BySubject(p)
      \/ \E a \in Accounts : AdminForget(a)
      \/ /\ pc[p] \in {"attach", "attaching"} /\ ~sign[p].forgotten
         /\ sign'[p].account = sign[p].account /\ sign'[p].subject = sign[p].subject
  <2> DEFINE Same(q) == pc'[q] = pc[q] /\ sign'[q] = sign[q]
             Kept == /\ pc[p] \in {"attach", "attaching"} /\ ~sign[p].forgotten
                     /\ sign'[p].account = sign[p].account /\ sign'[p].subject = sign[p].subject
  <2>1. CASE UNCHANGED <<pc, sign>>
    BY <2>1
  <2>2. ASSUME NEW q \in Procs,
               \/ \E s \in Subjects : Begin(q, s)
               \/ \E e \in Emails : ByEmail(q, e) \/ Trust(q, e)
               \/ \E a \in Accounts : Provision(q, a)
               \/ AttachDone(q) \/ PinStep(q) \/ NoEmailKnown(q) \/ NobodyYet(q) \/ Record(q)
        PROVE  Same(p)
    <3>1. pc' = [pc EXCEPT ![q] = pc'[q]] /\ sign' = [sign EXCEPT ![q] = sign'[q]]
      BY <2>2 DEF Begin, ByEmail, Trust, Provision, AttachDone, PinStep, NoEmailKnown,
         NobodyYet,
                  Record, Goto, Finish, SigningIn
    <3>2. pc'[q] \notin {"attach", "attaching"}
      BY <2>2 DEF Begin, ByEmail, Trust, Provision, AttachDone, PinStep, NoEmailKnown,
         NobodyYet,
                  Record, Goto, Finish, SigningIn
    <3> QED BY <3>1, <3>2 DEF SigningIn
  <2>3. ASSUME NEW q \in Procs, BySubject(q), q # p PROVE Same(p)
    BY <2>3 DEF BySubject, Goto, SigningIn
  <2>4. ASSUME NEW q \in Procs, NEW e \in Emails, AttachNext(q, e) PROVE Kept
    <3>1. CASE q = p
      BY <2>4, <3>1 DEF AttachNext, Goto, SigningIn, Signs
    <3>2. CASE q # p
      BY <2>4, <3>2 DEF AttachNext, Goto, SigningIn
    <3> QED BY <3>1, <3>2
  <2>5. ASSUME NEW q \in Procs, AttachEmail(q) PROVE Kept
    BY <2>5 DEF AttachEmail, Goto, SigningIn
  <2>6. \/ UNCHANGED <<pc, sign>>
        \/ \E a \in Accounts : AdminForget(a)
        \/ \E q \in Procs :
              \/ BySubject(q) \/ AttachEmail(q) \/ \E e \in Emails : AttachNext(q, e)
              \/ \E s \in Subjects : Begin(q, s)
              \/ \E e \in Emails : ByEmail(q, e) \/ Trust(q, e)
              \/ \E a \in Accounts : Provision(q, a)
              \/ AttachDone(q) \/ PinStep(q) \/ NoEmailKnown(q) \/ NobodyYet(q) \/ Record(q)
    BY DEF Next, AdminGet, AdminApprove, AdminApproved, AdminDiscard, Expire, Reassign
  <2> QED BY <2>1, <2>2, <2>3, <2>4, <2>5, <2>6
<1> QED BY <1>1, <1>2, <1>3, <1>4, StoreStep

-----------------------------------------------------------------------------
(* The theorems. *)

(* The invariant holds of a store read from a file. *)
LEMMA InitPersonInv == Init => PersonInv
<1> SUFFICES ASSUME Init PROVE PersonInv
  OBVIOUS
<1>1. \A a \in Accounts : Seed(byEmail, a) \in Mappings \cup {None}
  BY DEF Seed, Mappings
<1>2. TypeOK
  <2>1. pending = <<>> /\ Len(pending) = 0 /\ pending \in Seq(Requests)
    BY EmptySeq DEF Init
  <2>2. Waiting
    BY <2>1, ConstantsOK DEF Waiting
  <2>3. Maps
    BY <1>1 DEF Init, Maps
  <2>4. SigningIn /\ Others
    BY SignFields DEF Init, SigningIn, Others, Labels
  <2> QED BY <2>2, <2>3, <2>4, TypeParts
<1>3. Addresses
  <2> SUFFICES ASSUME NEW e \in Emails, NEW a \in Accounts
               PROVE  byEmail[e] = a <=> byAccount[a] # None /\ e \in byAccount[a].emails
    BY DEF Addresses
  <2> DEFINE mine == {f \in Emails : byEmail[f] = a}
  <2>1. CASE mine = {}
    BY <2>1 DEF Init, Seed
  <2>2. CASE mine # {}
    <3>1. byAccount[a] = [emails |-> mine, subject |-> None]
      BY <2>2 DEF Init, Seed
    <3> QED BY <3>1, MappingIsNotNone
  <2> QED BY <2>1, <2>2
<1>4. Objects
  BY ConstantsOK DEF Init, Objects, Seed
<1>5. Carried /\ Brought /\ SignedIn /\ Found
  BY DEF Init, Carried, Brought, SignedIn, Found
<1> QED BY <1>2, <1>3, <1>4, <1>5 DEF PersonInv, IndexInv

(* The invariant of the indexes is inductive. *)
LEMMA IndexInvStep == IndexInv /\ [Next]_vars => IndexInv'
<1> SUFFICES ASSUME IndexInv, [Next]_vars PROVE IndexInv'
  OBVIOUS
<1> USE TypeParts DEF IndexInv
<1>1. CASE Next
  <2>1. StoreInv'
    BY <1>1, StoreStep DEF StoreInv
  <2>2. SigningIn' /\ Carried' /\ Waiting' /\ Others'
    BY <1>1, TypeStep
  <2> QED BY <2>1, <2>2 DEF StoreInv, TypeOK, Maps, SigningIn, Waiting, Others
<1>2. CASE UNCHANGED vars
  BY <1>2 DEF vars, TypeOK, Carried, Addresses, Objects
<1> QED BY <1>1, <1>2

(* The invariant of who is who is inductive. *)
LEMMA PersonInvStep == PersonInv /\ [Next]_vars => PersonInv'
<1> SUFFICES ASSUME PersonInv, [Next]_vars PROVE PersonInv'
  OBVIOUS
<1>1. IndexInv'
  BY IndexInvStep DEF PersonInv
<1>2. CASE Next
  BY <1>1, <1>2, BroughtStep, SignedInStep, FoundStep DEF PersonInv
<1>3. CASE UNCHANGED vars
  BY <1>1, <1>3 DEF PersonInv, vars, Brought, SignedIn, Found
<1> QED BY <1>2, <1>3

(* Whatever sign-ins and administrators do at the same time, the indexes   *)
(* by address and by subject say what the records say, so no address and   *)
(* no directory object answers for two accounts (identity.Store), and the  *)
(* queue stays below its ceiling (Queue.Record).                           *)
THEOREM IndexesStayInStep == Spec => []IndexesAgree
<1>1. Init => IndexInv
  BY InitPersonInv DEF PersonInv
<1>2. IndexInv => IndexesAgree
  BY DEF IndexInv, IndexesAgree, Addresses, Objects
<1> QED BY <1>1, <1>2, IndexInvStep, PTL DEF Spec

(* However addresses move between the people of the directory, all who     *)
(* have been let in as an account are the object it is pinned to, and an   *)
(* address recorded for somebody answers for that person's account         *)
(* (resolveIdentity, Store.Pin, Store.AttachEmail, Store.Approve).         *)
THEOREM AccountIsOnePerson == Spec => []OnePerson
<1>1. PersonInv => OnePerson
  BY DEF PersonInv, Brought, SignedIn, OnePerson
<1> QED BY <1>1, InitPersonInv, PersonInvStep, PTL DEF Spec

(* What an account is bound to goes only with a Forget: nothing that was   *)
(* looked up in one store call lets a later one overwrite it (ErrTaken,    *)
(* ErrPinned).                                                             *)
THEOREM BindingsAreKept == Spec => BindingsStay
<1> DEFINE A == /\ \A a \in Accounts :
                      (byAccount[a] # None /\ byAccount[a].subject # None) =>
                          byAccount'[a] = None \/ byAccount'[a].subject = byAccount[a].subject
                /\ \A e \in Emails : byEmail[e] # None => byEmail'[e] \in {byEmail[e], None}
<1>1. Spec => []IndexInv
  BY InitPersonInv, IndexInvStep, PTL DEF Spec, PersonInv
<1>2. IndexInv /\ [Next]_vars => [A]_vars
  <2> SUFFICES ASSUME IndexInv, Next PROVE A
    OBVIOUS
  <2>1. AddressesKept /\ (PinsKept \/ \E a \in Accounts : AdminForget(a))
    BY StoreStep, TypeParts DEF IndexInv, StoreInv
  <2>2. CASE PinsKept
    BY <2>1, <2>2 DEF PinsKept, AddressesKept
  <2>3. ASSUME NEW a \in Accounts, AdminForget(a)
        PROVE  \A b \in Accounts : byAccount'[b] \in {byAccount[b], None}
    BY <2>3 DEF AdminForget, Forget, IndexInv, TypeOK
  <2> QED BY <2>1, <2>2, <2>3 DEF AddressesKept
<1> QED BY <1>1, <1>2, PTL DEF Spec, BindingsStay

=============================================================================
