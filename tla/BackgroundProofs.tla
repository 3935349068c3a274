--------------------------- MODULE BackgroundProofs ---------------------------
(***************************************************************************)
(* The safety properties of what runs beside the requests: the reader of a *)
(* helper's replies (HelperClient), the supervisor of the interface and    *)
(* the activity store with its Tail (Program).                             *)
(*                                                                         *)
(* Matched says what must never be seen; it does not say why.  That no     *)
(* channel gets a second reply needs to know where a call is while its     *)
(* request or its reply is under way, and that nobody is left behind needs *)
(* to know that whoever waits at an empty channel is registered.  That a   *)
(* shutdown costs nobody anything needs to know who can have told the      *)
(* child to go and when; that an event stays needs its place in the file   *)
(* of its day; and that an operation is on record once needs, for each     *)
(* event, the line of smbd's log it was made of, which Tail has passed.    *)
(***************************************************************************)
EXTENDS HelperClient, Program, SequenceTheorems, FiniteSetTheorems, TLAPS

(* A request is with the helper, or its reply on the socket, only once its *)
(* call has waited for it, and never both.                                 *)
Sent == {"waiting", "gaveup", "failed"}

Underway ==
    /\ \A c \in requests : pc[c] \in Sent /\ ch[c] # "reply"
    /\ \A i \in 1..Len(socket) :
          /\ pc[socket[i].id] \in Sent
          /\ ch[socket[i].id] # "reply"
          /\ socket[i].id \notin requests
    /\ \A i, j \in 1..Len(socket) : socket[i].id = socket[j].id => i = j

(* The map of Client.pending, the channels and the callers.                *)
Registered ==
    /\ \A c \in pending : pc[c] \in {"registered", "waiting", "gaveup"} /\ ch[c] = "empty"
    /\ \A c \in Calls :
          /\ pc[c] \in {"registered", "waiting"} /\ ch[c] = "empty" => c \in pending
          /\ pc[c] = "new" => ch[c] = "empty"
          /\ ch[c] = "reply" => pc[c] \in {"waiting", "gaveup"}

(* shutdown is the reader's last act, and nobody registers after it.       *)
Stopped ==
    /\ reader = "done" <=> closed
    /\ closed => pending = {}

IInv == ClientTypeOK /\ Underway /\ Registered /\ Stopped /\ DescriptorOwned

(* What the socket holds after the helper wrote a reply, and after the     *)
(* reader took one.                                                        *)
LEMMA SocketAppend ==
    ASSUME NEW s \in Seq(Replies), NEW m \in Replies
    PROVE  /\ Append(s, m) \in Seq(Replies)
           /\ Len(Append(s, m)) = Len(s) + 1
           /\ \A i \in 1..Len(s) : Append(s, m)[i] = s[i]
           /\ Append(s, m)[Len(s) + 1] = m
BY AppendProperties

(* What is left of the socket when the client has read one reply. *)
LEMMA SocketTail ==
    ASSUME NEW s \in Seq(Replies), s # <<>>
    PROVE  /\ Tail(s) \in Seq(Replies)
           /\ Len(s) \in Nat \ {0}
           /\ Len(Tail(s)) = Len(s) - 1
           /\ \A i \in 1..Len(Tail(s)) : Tail(s)[i] = s[i + 1]
           /\ Head(s) = s[1]
BY HeadTailProperties, EmptySeq

(* The replies under way, and the requests, carry ids of calls. *)
LEMMA IdsAreCalls ==
    ASSUME ClientTypeOK
    PROVE  /\ \A i \in 1..Len(socket) : socket[i].id \in Calls
           /\ requests \subseteq Calls
<1>1. socket \in Seq(Replies) /\ requests \subseteq Calls
  BY DEF ClientTypeOK
<1>2. \A i \in 1..Len(socket) : socket[i] \in Replies
  BY <1>1, ElementOfSeq
<1> QED BY <1>1, <1>2 DEF Replies

(* The invariant holds at first. *)
LEMMA InitEstablishes == ClientInit => IInv
<1> SUFFICES ASSUME ClientInit PROVE IInv
  OBVIOUS
<1> USE DEF ClientInit
<1>1. ClientTypeOK
  BY EmptySeq DEF ClientTypeOK, Chans, Places
<1>2. Underway
  BY DEF Underway
<1>3. Registered /\ Stopped /\ DescriptorOwned
  BY DEF Registered, Stopped, DescriptorOwned
<1> QED BY <1>1, <1>2, <1>3 DEF IInv

(* Client.Do.                                                              *)

(* Do enters the call in pending before it writes the frame. *)
LEMMA RegisterPreserves ==
    ASSUME IInv, NEW c \in Calls, Register(c)
    PROVE  IInv'
<1> USE DEF IInv, Register, Open
<1>1. ClientTypeOK'
  BY DEF ClientTypeOK
<1>2. Underway'
  BY IdsAreCalls DEF ClientTypeOK, Underway, Sent
<1>3. Registered'
  BY DEF ClientTypeOK, Registered
<1>4. Stopped'
  BY DEF Stopped
<1>5. DescriptorOwned'
  BY DEF ClientTypeOK, DescriptorOwned
<1> QED BY <1>1, <1>2, <1>3, <1>4, <1>5

(* Do writes the frame: the helper has the request from now on. *)
LEMMA SendPreserves ==
    ASSUME IInv, NEW c \in Calls, Send(c)
    PROVE  IInv'
<1> USE DEF IInv, Send
<1>1. ClientTypeOK'
  BY DEF ClientTypeOK
<1>2. Underway'
  <2>1. \A i \in 1..Len(socket) : socket[i].id # c
    BY DEF Underway, Sent
  <2>2. ch[c] # "reply"
    BY DEF Registered
  <2>3. c \notin requests /\ c \notin {socket[i].id : i \in 1..Len(socket)}
    BY <2>1 DEF Underway, Sent
  <2>4. \A d \in Calls \ {c} : pc'[d] = pc[d] /\ ch'[d] = ch[d]
    BY DEF ClientTypeOK
  <2>5. pc'[c] \in Sent
    BY DEF ClientTypeOK, Sent
  <2> QED BY <2>1, <2>2, <2>3, <2>4, <2>5, IdsAreCalls DEF Underway
<1>3. Registered'
  BY DEF ClientTypeOK, Registered
<1>4. Stopped'
  BY DEF Stopped
<1>5. DescriptorOwned'
  BY DEF ClientTypeOK, DescriptorOwned
<1> QED BY <1>1, <1>2, <1>3, <1>4, <1>5

(* Do takes what its channel holds and is done. *)
LEMMA ReturnPreserves ==
    ASSUME IInv, NEW c \in Calls, Return(c)
    PROVE  IInv'
<1> USE DEF IInv, Return, client
<1>1. ClientTypeOK'
  BY DEF ClientTypeOK, Taken, Chans, Places
<1>2. Underway'
  BY IdsAreCalls DEF ClientTypeOK, Underway, Sent
<1>3. Registered'
  BY DEF ClientTypeOK, Registered
<1>4. Stopped'
  BY DEF Stopped
<1>5. DescriptorOwned'
  BY DEF ClientTypeOK, DescriptorOwned, Taken
<1> QED BY <1>1, <1>2, <1>3, <1>4, <1>5

(* Do stops waiting and takes its call out of pending. *)
LEMMA GiveUpPreserves ==
    ASSUME IInv, NEW c \in Calls, GiveUp(c)
    PROVE  IInv'
<1> USE DEF IInv, GiveUp, client
<1>1. ClientTypeOK'
  BY DEF ClientTypeOK
<1>2. Underway'
  BY IdsAreCalls DEF ClientTypeOK, Underway, Sent
<1>3. Registered'
  BY DEF ClientTypeOK, Registered
<1>4. Stopped' /\ DescriptorOwned'
  BY DEF Stopped, DescriptorOwned, ClientTypeOK
<1> QED BY <1>1, <1>2, <1>3, <1>4

(* The helper.                                                             *)

(* The reply of a request is the only one with its id: until now it was a  *)
(* request.                                                                *)
LEMMA ServePreserves ==
    ASSUME IInv, NEW c \in Calls, NEW kind \in Kinds, Serve(c, kind)
    PROVE  IInv'
<1> USE DEF IInv, Serve, client, Unserved, IdOf
<1> DEFINE m == [id |-> c, kind |-> kind]
<1>0. m \in Replies /\ socket \in Seq(Replies) /\ Len(socket) \in Nat
  BY LenProperties DEF Replies, ClientTypeOK
<1>1. ClientTypeOK'
  <2>1. socket' \in Seq(Replies)
    BY <1>0, SocketAppend
  <2> QED BY <2>1 DEF ClientTypeOK, Places
<1>2. Underway'
  <2>1. CASE UNCHANGED socket
    BY <2>1 DEF Underway
  <2>2. CASE socket' = Append(socket, m)
    <3>1. /\ Len(socket') = Len(socket) + 1
          /\ \A i \in 1..Len(socket) : socket'[i] = socket[i]
          /\ socket'[Len(socket) + 1] = m
      BY <1>0, <2>2, SocketAppend
    <3>2. \A i \in 1..Len(socket) : socket[i].id # c
      BY DEF Underway
    <3>3. pc[c] \in Sent /\ ch[c] # "reply" /\ c \notin requests'
      BY DEF Underway
    <3>4. \A i \in 1..Len(socket') : i \in 1..Len(socket) \/ i = Len(socket) + 1
      BY <1>0, <3>1
    <3>5. m.id = c
      OBVIOUS
    <3> HIDE DEF m
    <3> QED BY <3>1, <3>2, <3>3, <3>4, <3>5 DEF Underway
  <2> QED BY <2>1, <2>2
<1>3. Registered' /\ Stopped'
  BY DEF Registered, Stopped
<1>4. DescriptorOwned'
  BY DEF DescriptorOwned, ClientTypeOK
<1> QED BY <1>1, <1>2, <1>3, <1>4

(* The helper ends: its replies stop coming, those on the socket stay. *)
LEMMA HelperEndsPreserves == IInv /\ HelperEnds => IInv'
<1> SUFFICES ASSUME IInv, HelperEnds PROVE IInv'
  OBVIOUS
<1> USE DEF IInv, HelperEnds, client
<1>1. ClientTypeOK'
  BY DEF ClientTypeOK
<1>2. Underway'
  BY DEF Underway
<1>3. Registered' /\ Stopped' /\ DescriptorOwned'
  BY DEF Registered, Stopped, DescriptorOwned
<1> QED BY <1>1, <1>2, <1>3

(* readLoop.                                                               *)

(* What is left of the socket was there before, in the same order.         *)
LEMMA TakenFromSocket ==
    ASSUME ClientTypeOK, socket # <<>>, socket' = Tail(socket), Underway
    PROVE  /\ socket' \in Seq(Replies)
           /\ \A i \in 1..Len(socket') :
                 /\ i + 1 \in 1..Len(socket)
                 /\ socket'[i] = socket[i + 1]
                 /\ socket'[i].id # Head(socket).id
<1>0. socket \in Seq(Replies)
  BY DEF ClientTypeOK
<1>1. /\ socket' \in Seq(Replies)
      /\ Len(socket) \in Nat \ {0}
      /\ Len(socket') = Len(socket) - 1
      /\ \A i \in 1..Len(socket') : socket'[i] = socket[i + 1]
      /\ Head(socket) = socket[1]
  BY <1>0, SocketTail
<1>2. \A i \in 1..Len(socket') : i + 1 \in 1..Len(socket) /\ i + 1 # 1
  BY <1>1
<1>3. 1 \in 1..Len(socket)
  BY <1>1
<1> QED BY <1>1, <1>2, <1>3 DEF Underway

(* readLoop hands a reply to the call it names, or drops it. *)
LEMMA DeliverPreserves ==
    ASSUME IInv, NEW c \in Calls, Deliver(c)
    PROVE  IInv'
<1> USE DEF IInv, Deliver, Unregistered
<1>0. /\ socket' \in Seq(Replies)
      /\ \A i \in 1..Len(socket') :
            /\ i + 1 \in 1..Len(socket)
            /\ socket'[i] = socket[i + 1]
            /\ socket'[i].id # c
  BY TakenFromSocket
<1>a. pc[c] \in Sent /\ c \notin requests
  <2>1. socket \in Seq(Replies) /\ Len(socket) \in Nat \ {0} /\ Head(socket) = socket[1]
    BY SocketTail DEF ClientTypeOK
  <2>2. 1 \in 1..Len(socket) /\ socket[1].id = c
    BY <2>1
  <2> QED BY <2>2 DEF Underway
<1>1. ClientTypeOK'
  BY <1>0 DEF ClientTypeOK, Chans, Places
<1>2. Underway'
  <2>1. \A d \in requests' : pc'[d] \in Sent /\ ch'[d] # "reply"
    BY <1>a DEF Underway, ClientTypeOK
  <2>2. \A i \in 1..Len(socket') : /\ pc'[socket'[i].id] \in Sent
                                   /\ ch'[socket'[i].id] # "reply"
                                   /\ socket'[i].id \notin requests'
    <3> SUFFICES ASSUME NEW i \in 1..Len(socket')
                 PROVE  /\ pc'[socket'[i].id] \in Sent
                        /\ ch'[socket'[i].id] # "reply"
                        /\ socket'[i].id \notin requests'
      OBVIOUS
    <3> DEFINE d == socket[i + 1].id
    <3>1. i + 1 \in 1..Len(socket) /\ socket'[i].id = d /\ d # c
      BY <1>0
    <3>2. d \in Calls /\ pc[d] \in Sent /\ ch[d] # "reply" /\ d \notin requests
      BY <3>1, IdsAreCalls DEF Underway
    <3>3. ch'[d] = ch[d]
      BY <3>1, <3>2 DEF ClientTypeOK
    <3> HIDE DEF d
    <3> QED BY <3>1, <3>2, <3>3
  <2>3. \A i, j \in 1..Len(socket') : socket'[i].id = socket'[j].id => i = j
    <3>1. Len(socket') \in Nat
      BY <1>0, LenProperties
    <3>2. \A i, j \in 1..Len(socket') : i + 1 = j + 1 => i = j
      BY <3>1
    <3> QED BY <1>0, <3>2 DEF Underway
  <2> QED BY <2>1, <2>2, <2>3 DEF Underway
<1>3. Registered'
  BY <1>a DEF ClientTypeOK, Registered, Sent
<1>4. Stopped'
  BY DEF Stopped
<1>5. DescriptorOwned'
  BY <1>a DEF ClientTypeOK, DescriptorOwned, Registered, Sent
<1> QED BY <1>1, <1>2, <1>3, <1>4, <1>5

(* shutdown: whoever is registered finds its channel closed, and a channel *)
(* that holds a reply belongs to nobody registered.                        *)
LEMMA ShutdownPreserves ==
    ASSUME IInv, Shutdown, UNCHANGED <<pc, requests, fds>>
    PROVE  /\ ch' \in [Calls -> Chans]
           /\ pending' \subseteq Calls
           /\ Registered' /\ Stopped' /\ DescriptorOwned'
           /\ \A c \in Calls : ch'[c] = "reply" => ch[c] = "reply"
<1> USE DEF IInv, Shutdown, Forgotten
<1>1. ch' \in [Calls -> Chans] /\ pending' \subseteq Calls
  BY DEF ClientTypeOK, Chans
<1>2. Registered' /\ Stopped'
  BY DEF ClientTypeOK, Registered, Stopped
<1>3. DescriptorOwned'
  BY DEF ClientTypeOK, DescriptorOwned, Registered
<1> QED BY <1>1, <1>2, <1>3

(* readLoop meets a frame it does not accept, and fails the client. *)
LEMMA RejectPreserves == IInv /\ Reject => IInv'
<1> SUFFICES ASSUME IInv, Reject PROVE IInv'
  OBVIOUS
<1> USE DEF IInv, Reject
<1>0. /\ socket' \in Seq(Replies)
      /\ \A i \in 1..Len(socket') : i + 1 \in 1..Len(socket) /\ socket'[i] = socket[i + 1]
  BY TakenFromSocket
<1>1. /\ ch' \in [Calls -> Chans]
      /\ pending' \subseteq Calls
      /\ Registered' /\ Stopped' /\ DescriptorOwned'
      /\ \A c \in Calls : ch'[c] = "reply" => ch[c] = "reply"
  BY ShutdownPreserves
<1>2. ClientTypeOK'
  BY <1>0, <1>1 DEF ClientTypeOK, Shutdown
<1>3. Underway'
  <2>1. \A c \in requests' : pc'[c] \in Sent /\ ch'[c] # "reply"
    BY <1>1 DEF Underway, ClientTypeOK
  <2>2. \A i \in 1..Len(socket) : socket[i].id \in Calls
    BY IdsAreCalls
  <2>3. \A i \in 1..Len(socket') : /\ pc'[socket'[i].id] \in Sent
                                   /\ ch'[socket'[i].id] # "reply"
                                   /\ socket'[i].id \notin requests'
    BY <1>0, <1>1, <2>2 DEF Underway
  <2>4. \A i, j \in 1..Len(socket') : socket'[i].id = socket'[j].id => i = j
    <3>1. Len(socket') \in Nat
      BY <1>0, LenProperties
    <3>2. \A i, j \in 1..Len(socket') : i + 1 = j + 1 => i = j
      BY <3>1
    <3> QED BY <1>0, <3>2 DEF Underway
  <2> QED BY <2>1, <2>3, <2>4 DEF Underway
<1> QED BY <1>1, <1>2, <1>3

(* readLoop meets the end of the socket, and fails the client. *)
LEMMA ReadFailsPreserves == IInv /\ ReadFails => IInv'
<1> SUFFICES ASSUME IInv, ReadFails PROVE IInv'
  OBVIOUS
<1> USE DEF IInv, ReadFails
<1>1. /\ ch' \in [Calls -> Chans]
      /\ pending' \subseteq Calls
      /\ Registered' /\ Stopped' /\ DescriptorOwned'
      /\ \A c \in Calls : ch'[c] = "reply" => ch[c] = "reply"
  BY ShutdownPreserves
<1>2. ClientTypeOK'
  BY <1>1 DEF ClientTypeOK, Shutdown
<1>3. Underway'
  <2>1. \A i \in 1..Len(socket) : socket[i].id \in Calls
    BY IdsAreCalls
  <2> QED BY <1>1, <2>1 DEF Underway, ClientTypeOK
<1> QED BY <1>1, <1>2, <1>3

(* Close fails every pending call. *)
LEMMA ClosePreserves == IInv /\ Close => IInv'
<1> SUFFICES ASSUME IInv, Close PROVE IInv'
  OBVIOUS
<1> USE DEF IInv, Close, client
<1>1. ClientTypeOK'
  BY EmptySeq DEF ClientTypeOK, InSocket, Places
<1>2. Underway'
  BY DEF Underway
<1>3. Registered' /\ Stopped'
  BY DEF Registered, Stopped
<1>4. DescriptorOwned'
  BY DEF DescriptorOwned, InSocket
<1> QED BY <1>1, <1>2, <1>3, <1>4

(* The invariant is inductive. *)
LEMMA StepPreserves == IInv /\ [ClientNext]_clientVars => IInv'
<1> SUFFICES ASSUME IInv, [ClientNext]_clientVars PROVE IInv'
  OBVIOUS
<1>1. ASSUME NEW c \in Calls, Caller(c) PROVE IInv'
  BY <1>1, RegisterPreserves, SendPreserves, ReturnPreserves DEF Caller
<1>2. ASSUME NEW c \in Calls, GiveUp(c) PROVE IInv'
  BY <1>2, GiveUpPreserves
<1>3. ASSUME NEW c \in Calls, NEW kind \in Kinds, Serve(c, kind) PROVE IInv'
  BY <1>3, ServePreserves
<1>4. CASE HelperEnds
  BY <1>4, HelperEndsPreserves
<1>5. CASE Reader
  BY <1>5, DeliverPreserves, RejectPreserves, ReadFailsPreserves DEF Reader
<1>6. CASE Close
  BY <1>6, ClosePreserves
<1>7. CASE UNCHANGED clientVars
  BY <1>7 DEF IInv, ClientTypeOK, Underway, Registered, Stopped, DescriptorOwned, clientVars
<1>8. CASE Terminated
  BY <1>7, <1>8 DEF Terminated
<1> QED BY <1>1, <1>2, <1>3, <1>4, <1>5, <1>6, <1>7, <1>8 DEF ClientNext

(* The bookkeeping of Client.Do and readLoop: registration, channels, what *)
(* is under way and what the reader has ended all agree.                   *)
THEOREM IInvHolds == ClientSpec => []IInv
<1>1. ClientInit => IInv
  BY InitEstablishes
<1> QED BY <1>1, StepPreserves, PTL DEF ClientSpec

(* readLoop and Do: replies reach the calls they answer, no send can block *)
(* or panic, nobody waits for a reader that has stopped, and a descriptor  *)
(* in a channel has a caller.                                              *)
THEOREM RepliesMatched == ClientSpec => []Matched
<1>1. IInv => Matched
  <2> SUFFICES ASSUME IInv PROVE Matched
    OBVIOUS
  <2> USE DEF IInv
  <2>1. RegisteredIsEmpty
    BY DEF Registered, RegisteredIsEmpty
  <2>2. NobodyLeftBehind
    BY DEF Registered, Stopped, NobodyLeftBehind
  <2>3. OneReplyEach
    <3> SUFFICES ASSUME NEW c \in Calls
                 PROVE  /\ Cardinality({i \in DOMAIN socket : socket[i].id = c}) <= 1
                        /\ (\E i \in DOMAIN socket : socket[i].id = c) =>
                              c \notin requests /\ ch[c] # "reply" /\ pc[c] # "answered"
                        /\ c \in requests =>
                              pc[c] \in {"waiting", "gaveup", "failed"} /\ ch[c] # "reply"
      BY DEF OneReplyEach
    <3>1. DOMAIN socket = 1..Len(socket)
      BY LenProperties DEF ClientTypeOK
    <3> DEFINE At == {i \in DOMAIN socket : socket[i].id = c}
    <3>2. Cardinality(At) <= 1
      <4>1. CASE At = {}
        BY <4>1, FS_EmptySet
      <4>2. CASE At # {}
        <5>1. PICK i \in At : TRUE
          BY <4>2
        <5>2. At = {i}
          BY <3>1, <5>1 DEF Underway
        <5>3. Cardinality({i}) = 1
          BY FS_Singleton
        <5> HIDE DEF At
        <5> QED BY <5>2, <5>3
      <4> QED BY <4>1, <4>2
    <3>3. (\E i \in DOMAIN socket : socket[i].id = c) =>
              c \notin requests /\ ch[c] # "reply" /\ pc[c] # "answered"
      BY <3>1 DEF Underway, Sent
    <3>4. c \in requests => pc[c] \in {"waiting", "gaveup", "failed"} /\ ch[c] # "reply"
      BY DEF Underway, Sent
    <3> QED BY <3>2, <3>3, <3>4
  <2> QED BY <2>1, <2>2, <2>3 DEF Matched
<1> QED BY <1>1, IInvHolds, PTL

-----------------------------------------------------------------------------
(* main: from start to exit.                                               *)

Late == {"acts", "sup", "closing", "exited"}

\* Where the loop of the interface is, and what that says of its child.
Looped ==
    /\ sup = "off" <=> ~flags.ui
    /\ sup \in {"off", "start", "ended", "pause", "done"} => child = "none"
    /\ sup \in {"grace", "reap"} => stop
    /\ child \in {"leaving", "killed"} => stop \/ phase = "killed"
    /\ phase = "killed" => child \notin {"starting", "serving"}
    /\ stop => phase \in {"closing", "exited"}
    /\ phase = "exited" => sup \in {"off", "done"}

\* Who asks for the interface, and who is still heard.
Asked ==
    /\ ~flags.ui \/ phase \in {"boot", "killed"} => \A a \in Asks : ask[a] = "none"
    /\ flags.ui /\ ~sock => phase = "exited"

\* What Drained has seen stays so: nobody comes after the signal.
Emptied == drained => phase \in Late /\ Quiet

ShutInv == UiTypeOK /\ flags \in Flags /\ phase \in Phases /\ drained \in BOOLEAN
           /\ Looped /\ Asked /\ Emptied /\ NoOrphan /\ DrainKeeps

\* The program starts with nothing running and nobody asking (uiproc.Start, run).
LEMMA UiStart ==
    ASSUME Init
    PROVE  ShutInv
<1>1. flags \in Flags /\ flags.ui \in BOOLEAN
    BY FlagsShape DEF Init
<1>2. UiTypeOK /\ flags \in Flags /\ phase \in Phases /\ drained \in BOOLEAN
    BY <1>1 DEF Init, UiInit, UiTypeOK, SupStates, ChildStates, InHand, Over, Phases
<1>3. Looped /\ Asked
    BY <1>1 DEF Init, UiInit, Looped, Asked
<1>4. Emptied /\ NoOrphan /\ DrainKeeps
    BY DEF Init, UiInit, Emptied, NoOrphan, DrainKeeps
<1> QED  BY <1>2, <1>3, <1>4 DEF ShutInv

\* Each step leaves the supervisor, the requests and main in places they have.
LEMMA UiTypesHold ==
    ASSUME UiTypeOK, flags \in Flags, phase \in Phases, drained \in BOOLEAN, [Next]_vars
    PROVE  UiTypeOK' /\ (flags \in Flags)' /\ (phase \in Phases)' /\ (drained \in BOOLEAN)'
<1>f. flags.ui \in BOOLEAN
    BY FlagsShape
<1>1. CASE MainStep
    BY <1>1, <1>f DEF MainStep, Boot, Drained, CloseActs, CloseSup, Exit, CloseSocket,
        UiTypeOK, Phases, supervisor, uiVars, SupStates, InHand, Over
<1>2. CASE BootFails \/ Killed \/ Signal \/ NotDrained
    BY <1>2 DEF BootFails, Killed, Orphaned, Alive, Signal, NotDrained, UiTypeOK, Phases,
       supervisor, uiVars, ChildStates
<1>3. CASE Interface
  <2>1. flags' = flags /\ phase' = phase /\ drained' = drained
      BY <1>3 DEF Interface, main
  <2>2. CASE SupStep
      BY <2>1, <2>2
         DEF SupStep, StartChild, StartFails, MarkRunning, Exited, Terminate, GraceOver,
          Reaped, Ended, PauseOver, RunOneReturns, FatalStart, UiTypeOK, SupStates, ChildStates
  <2>3. CASE ChildStep
      BY <2>1, <2>3 DEF ChildStep, ChildReady, ChildEnds, Alive, UiTypeOK, ChildStates,
          supervisor, InHand, Over
  <2>4. CASE \E a \in Asks : AskStep(a)
      BY <2>1, <2>4 DEF AskStep, Dial, Accept, Answer, UiTypeOK, supervisor, InHand, Over
  <2> QED  BY <1>3, <2>2, <2>3, <2>4 DEF Interface
<1>4. CASE Activity
    BY <1>4 DEF Activity, main, uiVars, supervisor, UiTypeOK
<1>5. CASE Arrive
    BY <1>5 DEF Arrive, main, uiVars, supervisor, UiTypeOK, Ask, InHand, Over
<1>6. CASE Gone \/ UNCHANGED vars
    BY <1>6 DEF Gone, vars, uiVars, supervisor, UiTypeOK
<1> QED  BY <1>1, <1>2, <1>3, <1>4, <1>5, <1>6 DEF Next

\* Nobody records what is new or asks once the listeners are closed (h.Shutdown).
LEMMA NotesAfterCancel ==
    ASSUME [Next]_vars, phase # "up"
    PROVE  /\ \A w \in Writers : note[w] = None => note'[w] = None
           /\ ~Asking => ~Asking'
<1>1. CASE Activity
  <2>1. CASE \E w \in Writers : RecordNote(w)
    <3>1. PICK w \in Writers : RecordNote(w)
        BY <2>1
    <3>2. note' = [note EXCEPT ![w] = None] /\ query' = query
        BY <3>1 DEF RecordNote
    <3> QED  BY <3>2 DEF Asking
  <2>2. CASE QueryStep
      BY <2>2 DEF QueryStep, ReadNextDay, QueryEnds, Asking, NoQuery
  <2> QED  BY <1>1, <2>1, <2>2
              DEF Asking, Activity, TailStep, TailStat, TailOpen, TailLook, TailEnd, TailRead,
              TailNote, TailEnds, Tick, SmbdStep, SmbOp, SmbWrites, RotateAway, MakeLog, web
<1>2. CASE note' = note /\ query' = query
    BY <1>2 DEF Asking
<1> QED  BY <1>1, <1>2 DEF Next, MainStep, Boot, BootFails, Killed, Drained, CloseActs, CloseSup, Exit, Signal,
            NotDrained, Interface, Arrive, Gone, vars, actVars, web

\* The invariant of the shutdown passes from each state to the next.
LEMMA ShutHolds ==
    ASSUME ShutInv, [Next]_vars
    PROVE  ShutInv'
<1>t. UiTypeOK' /\ (flags \in Flags)' /\ (phase \in Phases)' /\ (drained \in BOOLEAN)'
    BY UiTypesHold DEF ShutInv
<1>f. flags.ui \in BOOLEAN /\ flags.acts \in BOOLEAN
    BY FlagsShape DEF ShutInv
<1>g. drained => ~Asking /\ \A w \in Writers : note[w] = None
    BY DEF ShutInv, Emptied, Quiet
<1>h. phase # "up" => /\ \A w \in Writers : note[w] = None => note'[w] = None
                      /\ ~Asking => ~Asking'
    BY NotesAfterCancel
<1>q. query' = query => Asking' = Asking
    BY DEF Asking
<1> USE DEF Final, Late, Looped, Asked, Emptied, Quiet, QuietUi, NoOrphan, DrainKeeps, Phases, Over
<1>1. CASE MainStep
  <2>0. /\ sup' = sup /\ child' = child /\ flags' = flags /\ running' = running
        /\ note' = note /\ query' = query
      BY <1>1 DEF MainStep, Boot, Drained, CloseActs, CloseSup, Exit, supervisor,
         actVars, web, uiVars
  <2>1. Looped' /\ NoOrphan'
      BY <1>1, <2>0, <1>f DEF MainStep, Boot, Drained, CloseActs, CloseSup, Exit, ShutInv,
          supervisor, uiVars, UiTypeOK, SupStates
  <2>2. Asked'
      BY <1>1, <2>0, <1>f DEF MainStep, Boot, Drained, CloseActs, CloseSup, Exit, ShutInv,
          supervisor, uiVars, CloseSocket
  <2>3. Emptied' /\ DrainKeeps'
      BY <1>1, <2>0, <1>f, <1>q DEF MainStep, Boot, Drained, CloseActs, CloseSup, Exit, ShutInv,
          supervisor, uiVars, CloseSocket
  <2> QED  BY <1>t, <2>1, <2>2, <2>3 DEF ShutInv
<1>2. CASE BootFails \/ Killed \/ Signal \/ NotDrained
    BY <1>2, <1>t, <1>q DEF BootFails, Killed, Orphaned, Alive, Signal, NotDrained, uiVars,
       supervisor, actVars, web, ShutInv
<1>3. CASE Interface
  <2>1. /\ flags' = flags /\ phase' = phase /\ drained' = drained /\ note' = note
        /\ phase # "exited" /\ Asking' = Asking
      BY <1>3, <1>q DEF Interface, main, actVars, web
  <2>2. CASE SupStep /\ phase \notin Final
      BY <2>1, <2>2, <1>t, <1>f
         DEF SupStep, StartChild, StartFails, MarkRunning, Exited, Terminate, GraceOver,
          Reaped, Ended, PauseOver, RunOneReturns, FatalStart, UiTypeOK, ShutInv
  <2>3. CASE ChildStep
      BY <2>1, <2>3, <1>t, <1>f DEF ChildStep, ChildReady, ChildEnds, Alive, UiTypeOK, ShutInv,
          supervisor
  <2>4. CASE \E a \in Asks : AskStep(a)
      BY <2>1, <2>4, <1>t, <1>f DEF AskStep, Dial, Accept, Answer, UiTypeOK, ShutInv,
          supervisor
  <2> QED  BY <1>3, <2>2, <2>3, <2>4 DEF Interface
<1>4. CASE Activity
  <2>1. /\ sup' = sup /\ child' = child /\ flags' = flags /\ running' = running
        /\ stop' = stop /\ sock' = sock /\ ask' = ask
        /\ phase' = phase /\ drained' = drained
      BY <1>4 DEF Activity, main, uiVars, supervisor
  <2>2. Looped' /\ Asked' /\ NoOrphan'
      BY <2>1 DEF ShutInv
  <2>3. drained => phase # "up" /\ phase \in Late /\ QuietUi
      BY DEF ShutInv
  <2>4. ASSUME drained
        PROVE  ~Asking' /\ \A w \in Writers : note'[w] = None
      BY <2>3, <2>4, <1>g, <1>h
  <2>5. QuietUi' = QuietUi
      BY <2>1
  <2>6. Emptied'
      BY <2>1, <2>3, <2>4, <2>5
  <2>7. DrainKeeps'
      BY <2>1, <2>4 DEF ShutInv
  <2> QED  BY <1>t, <2>2, <2>6, <2>7 DEF ShutInv
<1>5. CASE Arrive
    BY <1>5, <1>t, <1>f DEF Arrive, main, uiVars, supervisor, UiTypeOK, Ask, ShutInv
<1>6. CASE Gone \/ UNCHANGED vars
    BY <1>6, <1>t, <1>q DEF Gone, vars, uiVars, supervisor, ShutInv, actVars, web
<1> QED  BY <1>1, <1>2, <1>3, <1>4, <1>5, <1>6 DEF Next

-----------------------------------------------------------------------------
(* Days, and what a reader makes of the file of one.                       *)

Actions == {"web", "cut", "mkdir", "create", "rename", "delete"}
Events == [at : Nat, action : Actions, id : Nat]
Pieces == [event : Events, whole : BOOLEAN]

\* A day is DayLen long: what the division by it gives.
LEMMA Quotient ==
    ASSUME NEW a \in Int
    PROVE  /\ Day(a) \in Int
           /\ DayLen * Day(a) <= a /\ a < DayLen * Day(a) + DayLen
BY ActivityConstants DEF Day

\* Multiples of a number are that number apart.
LEMMA Spread ==
    ASSUME NEW p \in Int, NEW q \in Int, NEW D \in Nat \ {0}, p < q
    PROVE  D * p + D <= D * q
<1>1. q = p + 1 + (q - p - 1) /\ q - p - 1 >= 0 /\ q - p - 1 \in Int
    OBVIOUS
<1>2. D * (q - p - 1) >= 0
    BY <1>1
<1>3. D * q = D * p + D + D * (q - p - 1)
    BY <1>1
<1> QED  BY <1>2, <1>3

\* A later time is not of an earlier day.
LEMMA DaysInOrder ==
    ASSUME NEW a \in Int, NEW b \in Int, a <= b
    PROVE  Day(a) \in Int /\ Day(b) \in Int /\ Day(a) <= Day(b)
<1>1. Day(a) \in Int /\ Day(b) \in Int /\ DayLen \in Nat \ {0}
    BY Quotient, ActivityConstants
<1>2. ASSUME Day(b) < Day(a) PROVE FALSE
  <2>1. DayLen * Day(b) + DayLen <= DayLen * Day(a)
      BY <1>1, <1>2, Spread
  <2>2. /\ DayLen * Day(a) <= a /\ b < DayLen * Day(b) + DayLen
      BY Quotient
  <2>3. DayLen * Day(a) \in Int /\ DayLen * Day(b) \in Int
      BY <1>1
  <2> QED  BY <2>1, <2>2, <2>3, <1>1
<1> QED  BY <1>1, <1>2

\* A set of numbers below a bound has a least one.
LEMMA Least ==
    ASSUME NEW n \in Nat, NEW T \in SUBSET (0 .. n), T # {}
    PROVE  \E x \in T : \A y \in T : x <= y
<1> DEFINE I == 1 .. n
           W == {1 .. x : x \in T}
<1>1. IsFiniteSet(I)
    BY FS_Interval
<1>2. \A x \in T : x \in Nat /\ 1 .. x \subseteq I
    OBVIOUS
<1>3. \A w \in W : w \in FiniteSubsetsOf(I)
    BY <1>1, <1>2, FS_Interval, FS_Subset DEF FiniteSubsetsOf
<1>4. W # {}
    OBVIOUS
<1>5. PICK w \in W : \A v \in W : ~(<<v, w>> \in StrictSubsetOrdering(I))
  <2> HIDE DEF W, I
  <2> QED  BY <1>3, <1>4, FS_StrictSubsetOrderingWellFounded, WFMin
<1>6. PICK x \in T : w = 1 .. x
    OBVIOUS
<1>7. ASSUME NEW y \in T PROVE x <= y
  <2>1. ~(<<1 .. y, 1 .. x>> \in StrictSubsetOrdering(I))
      BY <1>5, <1>6
  <2>2. x \in Nat /\ y \in Nat
      BY <1>2
  <2>3. SUFFICES ASSUME y < x PROVE FALSE
      BY <2>2
  <2>4. 1 .. y \subseteq 1 .. x /\ x \in 1 .. x /\ x \notin 1 .. y
      BY <2>2, <2>3
  <2> QED  BY <1>2, <2>1, <2>4 DEF StrictSubsetOrdering
<1> QED  BY <1>7

\* What holds of 0 and passes from each number to the next holds up to any number.
LEMMA UpTo ==
    ASSUME NEW n \in Nat, NEW S, 0 \in S, \A i \in 0 .. n - 1 : i \in S => i + 1 \in S
    PROVE  0 .. n \subseteq S
<1> DEFINE T == (0 .. n) \ S
<1>1. SUFFICES ASSUME T # {} PROVE FALSE
    OBVIOUS
<1>2. PICK x \in T : \A y \in T : x <= y
  <2> HIDE DEF T
  <2> SUFFICES T \in SUBSET (0 .. n)
      BY <1>1, Least
  <2> QED  BY DEF T
<1>3. x \in 1 .. n /\ x - 1 \in 0 .. n - 1 /\ x - 1 \notin T
    BY <1>2
<1> QED  BY <1>3

WholeAt(f, i) == f[i].whole /\ (i = 1 \/ f[i - 1].whole)

\* readDay, line by line: what ReadUpTo is after each piece of the file.
LEMMA ReadSteps ==
    ASSUME NEW f, Len(f) \in Nat
    PROVE  /\ ReadUpTo(f)[0] = << >>
           /\ \A n \in 1 .. Len(f) :
                 ReadUpTo(f)[n] = IF WholeAt(f, n) THEN Append(ReadUpTo(f)[n - 1], f[n].event)
                                  ELSE ReadUpTo(f)[n - 1]
<1> DEFINE More(s, n) == IF WholeAt(f, n) THEN Append(s, f[n].event) ELSE s
           Body(g, n) == IF n = 0 THEN << >> ELSE More(g[n - 1], n)
           Is(g, n) == g = [i \in 0 .. n |-> Body(g, i)]
           S == {n \in 0 .. Len(f) : \E g : Is(g, n)}
<1>1. 0 \in S
  <2> DEFINE g0 == [i \in 0 .. 0 |-> << >>]
  <2>1. Is(g0, 0)
      OBVIOUS
  <2> HIDE DEF Is, g0
  <2> QED  BY <2>1
<1> HIDE DEF More
<1>2. ASSUME NEW i \in 0 .. Len(f) - 1, i \in S
      PROVE  i + 1 \in S
  <2>1. PICK g : Is(g, i)
      BY <1>2
  <2> DEFINE h == [j \in 0 .. i + 1 |-> IF j = i + 1 THEN More(g[i], j) ELSE g[j]]
  <2>2. ASSUME NEW j \in 0 .. i + 1
        PROVE  h[j] = Body(h, j)
    <3>1. CASE j = 0
        BY <2>1, <3>1
    <3>2. CASE j \in 1 .. i
      <4>1. g[j] = Body(g, j)
          BY <2>1, <3>2
      <4>2. h[j] = g[j] /\ h[j - 1] = g[j - 1] /\ j # 0
          BY <3>2
      <4> QED  BY <4>1, <4>2
    <3>3. CASE j = i + 1
      <4>1. h[j] = More(g[i], j) /\ h[j - 1] = g[i] /\ j # 0
          BY <3>3
      <4> QED  BY <4>1
    <3> QED  BY <3>1, <3>2, <3>3
  <2>3. Is(h, i + 1)
    <3> HIDE DEF Body
    <3> QED  BY <2>2
  <2>4. i + 1 \in 0 .. Len(f)
      BY <1>2
  <2> QED  BY <2>3, <2>4
<1>3. Len(f) \in S
  <2>1. \A i \in 0 .. Len(f) - 1 : i \in S => i + 1 \in S
      BY <1>2
  <2> HIDE DEF S
  <2>2. 0 .. Len(f) \subseteq S
      BY <1>1, <2>1, UpTo
  <2> QED  BY <2>2
<1>4. ReadUpTo(f) = CHOOSE g : Is(g, Len(f))
    BY Zenon DEF ReadUpTo, More, WholeAt
<1>5. Is(ReadUpTo(f), Len(f))
  <2> HIDE DEF Is
  <2> QED  BY <1>3, <1>4
<1>6. \A n \in 0 .. Len(f) : ReadUpTo(f)[n] = Body(ReadUpTo(f), n)
  <2> HIDE DEF Body
  <2> QED  BY <1>5
<1> QED  BY <1>6 DEF More

\* A whole piece that nothing torn comes before is among what readDay returns.
LEMMA WholeIsRead ==
    ASSUME NEW f \in Seq(Pieces), NEW i \in 1 .. Len(f), WholeAt(f, i)
    PROVE  f[i].event \in Range(ReadUpTo(f)[Len(f)])
<1> DEFINE e == f[i].event
           Out(n) == ReadUpTo(f)[n]
           S == {n \in 0 .. Len(f) : /\ Out(n) \in Seq(Events)
                                     /\ n >= i => e \in Range(Out(n))}
<1>a. Len(f) \in Nat /\ i \in Nat /\ i >= 1 /\ \A n \in 1 .. Len(f) : f[n] \in Pieces
    OBVIOUS
<1>b. \A p \in Pieces : p.event \in Events
    BY DEF Pieces
<1>0. Len(f) \in Nat /\ i \in Nat /\ i >= 1 /\ e \in Events
      /\ \A n \in 1 .. Len(f) : f[n].event \in Events
    BY <1>a, <1>b
<1>1. 0 \in S
  <2>1. Out(0) = << >> /\ << >> \in Seq(Events)
      BY <1>0, ReadSteps
  <2>2. ~(0 >= i) /\ 0 \in 0 .. Len(f)
      BY <1>0
  <2> HIDE DEF Out, e
  <2> QED  BY <2>1, <2>2
<1>2. ASSUME NEW n \in 0 .. Len(f) - 1, n \in S
      PROVE  n + 1 \in S
  <2>1. /\ n + 1 \in 1 .. Len(f) /\ (n + 1) - 1 = n
        /\ Out(n + 1) = IF WholeAt(f, n + 1) THEN Append(Out(n), f[n + 1].event) ELSE Out(n)
      BY <1>0, ReadSteps
  <2>2. Out(n) \in Seq(Events) /\ (n >= i => e \in Range(Out(n)))
      BY <1>2
  <2> HIDE DEF Out, e
  <2>3. CASE WholeAt(f, n + 1)
    <3> DEFINE s == Out(n)
               x == f[n + 1].event
    <3>1. x \in Events
        BY <1>0, <2>1
    <3>2. Out(n + 1) = Append(s, x) /\ s \in Seq(Events)
        BY <2>1, <2>2, <2>3
    <3> HIDE DEF s, x
    <3>3. Append(s, x) \in Seq(Events) /\ Range(Append(s, x)) = Range(s) \cup {x}
      <4>1. Append(s, x) \in Seq(Events) /\ DOMAIN Append(s, x) = 1 .. Len(s) + 1 
            /\ DOMAIN s = 1 .. Len(s) /\ Len(s) \in Nat
            /\ Append(s, x)[Len(s) + 1] = x /\ \A j \in 1 .. Len(s) : Append(s, x)[j] = s[j]
          BY <3>1, <3>2
      <4> QED  BY <4>1 DEF Range
    <3>4. n + 1 >= i => e \in Range(s) \/ e = x
        BY <1>0, <2>1, <2>2 DEF s, x, e
    <3>5. Out(n + 1) \in Seq(Events) /\ (n + 1 >= i => e \in Range(Out(n + 1)))
        BY <3>2, <3>3, <3>4
    <3> QED  BY <1>0, <2>1, <3>5
  <2>4. CASE ~WholeAt(f, n + 1)
    <3>1. n + 1 # i
        BY <2>4
    <3> QED  BY <1>0, <2>1, <2>2, <2>4, <3>1
  <2> QED  BY <2>3, <2>4
<1>3. 0 .. Len(f) \subseteq S
  <2>1. \A n \in 0 .. Len(f) - 1 : n \in S => n + 1 \in S
      BY <1>2
  <2> HIDE DEF S
  <2> QED  BY <1>0, <1>1, <2>1, UpTo
<1> QED  BY <1>0, <1>3

-----------------------------------------------------------------------------
(* The store of events.                                                    *)

\* Times are not of the future; what a request or Tail is about to record is an event.
Timed ==
    /\ now \in 0 .. MaxNow
    /\ notes \in Nat /\ note \in [Writers -> Events \cup {None}]
    /\ \A w \in Writers : note[w] # None => note[w].at <= now
    /\ tail.pc = "note" => tail.event \in Events /\ tail.event.at <= now
    /\ acked \subseteq Events /\ \A e \in acked : e.at <= now

\* Files are of days, and hold pieces.
Filed ==
    /\ DOMAIN files \subseteq Days
    /\ files = [d \in DOMAIN files |-> files[d]]
    /\ \A d \in DOMAIN files : files[d] \in Seq(Pieces)
    /\ cur \in DOMAIN files \cup {None}

\* What was acknowledged is in the file of its day while the window lasts.
Stands ==
    \A e \in acked : Day(e.at) >= Day(now - Keep) =>
        /\ Day(e.at) \in DOMAIN files
        /\ \E i \in 1 .. Len(files[Day(e.at)]) : files[Day(e.at)][i] = Piece(e, TRUE)

StoreInv == Timed /\ Filed /\ Stands

LogPieces == [id : Nat, left : Nat, part : {"all", "rest", "head"}]
Lines == [op : {"mkdirat", "renameat", "create_file", "unlinkat"}, ok : BOOLEAN,
          type : {"", "dir", "file"}, disp : {"", "create", "overwrite_if", "open"},
          src : {"", "tmp", "in"}, to : {"tmp", "in", "out"}]
TailPlaces == {"wait", "open", "look", "read", "note", "off", "ended"}

TailRecs == [pc : TailPlaces, file : Inodes \cup {None}, off : Nat, size : Nat,
             event : Events \cup {None}, again : BOOLEAN]

LogTyped ==
    /\ log \in [Inodes -> Seq(LogPieces)]
    /\ path \in Inodes \cup {None}
    /\ done \in Seq(Ops) /\ Len(done) <= MaxOps
    /\ todo \in Seq(Lines)
    /\ todo # << >> => Len(done) > 0 /\ Len(todo) <= Len(Transcript(done[Len(done)]))

TailTyped ==
    /\ tail \in TailRecs
    /\ tail.pc \in {"look", "read", "note"} => tail.file # None
    /\ tail.pc = "open" => tail.file = None

\* What the assumptions say of the bounds, and that None is no time and no file.
LEMMA TimesAreInts ==
    /\ DayLen \in Nat \ {0} /\ Keep \in Nat \ {0} /\ MaxNow \in Nat /\ MaxOps \in Nat
    /\ \A t \in Int : t # None
    /\ None \notin Inodes
BY ActivityConstants

\* What Record makes of the files, day by day.
Grown(d, e) ==
    {Opened(d), Append(Opened(d), Piece(e, TRUE)), Append(Opened(d), Piece(e, FALSE))}

Effect(e) ==
    LET d == Day(e.at)
    IN /\ files' = [k \in DOMAIN files' |-> files'[k]]
       /\ cur' \in DOMAIN files' \cup {None}
       /\ \A k \in DOMAIN files' :
             \/ k \in DOMAIN files /\ files'[k] = files[k]
             \/ k = d /\ files'[k] \in Grown(d, e)
       /\ \A k \in DOMAIN files : k >= Day(e.at - Keep) => k \in DOMAIN files'
       /\ \/ acked' = acked
          \/ /\ acked' = acked \cup {e}
             /\ d \in DOMAIN files' /\ files'[d] = Append(Opened(d), Piece(e, TRUE))

\* Record, day by day: what is kept is as it was, and only the event's day grows.
LEMMA RecordEffect ==
    ASSUME Filed, NEW e, e.at \in Int, Record(e)
    PROVE  Effect(e)
<1> DEFINE d == Day(e.at)
           kept == Within(e.at) \cup {d}
           rolled == IF cur = d THEN files
                     ELSE [k \in kept |-> IF k = d THEN Opened(d) ELSE files[k]]
           Write(piece) == [rolled EXCEPT ![d] = Append(@, piece)]
<1>0. d \in Int /\ d # None
    BY TimesAreInts, Quotient
<1>1. rolled = [k \in DOMAIN rolled |-> rolled[k]]
    BY DEF Filed
<1>2. d \in DOMAIN rolled /\ rolled[d] = Opened(d)
    BY <1>0 DEF Filed, Opened
<1>3. \A k \in DOMAIN rolled : k # d => k \in DOMAIN files /\ rolled[k] = files[k]
    BY DEF Within
<1>4. \A k \in DOMAIN files : k >= Day(e.at - Keep) => k \in DOMAIN rolled
    BY DEF Within
<1>5. \/ /\ cur' = d /\ files' = Write(Piece(e, TRUE))
         /\ acked' = acked \cup {e}
      \/ /\ cur' = d /\ acked' = acked
         /\ files' = rolled \/ files' = Write(Piece(e, FALSE))
      \/ /\ cur' = None /\ files' = files /\ acked' = acked
    BY Zenon DEF Record, FileOf
<1> HIDE DEF rolled, d
<1>6. ASSUME NEW piece
      PROVE  /\ Write(piece) = [k \in DOMAIN Write(piece) |-> Write(piece)[k]]
             /\ DOMAIN Write(piece) = DOMAIN rolled
             /\ Write(piece)[d] = Append(Opened(d), piece)
             /\ \A k \in DOMAIN rolled : k # d => Write(piece)[k] = files[k]
    BY <1>1, <1>2, <1>3
<1>7. CASE files' = files /\ cur' = None /\ acked' = acked
    BY <1>7 DEF Effect, Filed
<1>8. CASE cur' = d /\ acked' = acked /\ files' = rolled
    BY <1>1, <1>2, <1>3, <1>4, <1>8 DEF Effect, Grown, d
<1>9. CASE cur' = d /\ acked' = acked /\ files' = Write(Piece(e, FALSE))
    BY <1>2, <1>3, <1>4, <1>6, <1>9 DEF Effect, Grown, d
<1>10. CASE cur' = d /\ acked' = acked \cup {e} /\ files' = Write(Piece(e, TRUE))
    BY <1>2, <1>3, <1>4, <1>6, <1>10 DEF Effect, Grown, d
<1> QED  BY <1>5, <1>7, <1>8, <1>9, <1>10

\* The file of a day, made if it is not there, holds pieces.
LEMMA OpenedTyped ==
    ASSUME Filed, NEW d
    PROVE  Opened(d) \in Seq(Pieces)
<1>1. << >> \in Seq(Pieces)
    OBVIOUS
<1> QED  BY <1>1 DEF Filed, Opened

\* Each piece of a day that is kept stays where it was, and what is new is of the event.
LEMMA RecordPieces ==
    ASSUME Filed, NEW e \in Events, Record(e)
    PROVE  /\ \A k \in DOMAIN files, i \in Nat :
                 k >= Day(e.at - Keep) /\ i \in 1 .. Len(files[k]) =>
                    /\ k \in DOMAIN files' /\ i \in 1 .. Len(files'[k])
                    /\ files'[k][i] = files[k][i]
           /\ \A k \in DOMAIN files', i \in Nat :
                 i \in 1 .. Len(files'[k]) =>
                    \/ k \in DOMAIN files /\ i \in 1 .. Len(files[k])
                       /\ files'[k][i] = files[k][i]
                    \/ k = Day(e.at) /\ i = Len(Opened(Day(e.at))) + 1
                       /\ files'[k][i].event = e
           /\ \A k \in DOMAIN files' : files'[k] \in Seq(Pieces)
<1>0. e.at \in Int
    BY DEF Events
<1>1. Effect(e)
    BY <1>0, RecordEffect
<1> DEFINE d == Day(e.at)
           s == Opened(d)
<1>2. s \in Seq(Pieces) /\ Len(s) \in Nat
    BY OpenedTyped
<1>3. ASSUME NEW w \in BOOLEAN
      PROVE  /\ Piece(e, w) \in Pieces
             /\ Append(s, Piece(e, w)) \in Seq(Pieces)
             /\ Len(Append(s, Piece(e, w))) = Len(s) + 1
             /\ Append(s, Piece(e, w))[Len(s) + 1].event = e
             /\ \A i \in 1 .. Len(s) : Append(s, Piece(e, w))[i] = s[i]
  <2>1. Piece(e, w) \in Pieces /\ Piece(e, w).event = e
      BY DEF Piece, Pieces
  <2> HIDE DEF s
  <2> QED  BY <1>2, <2>1
<1>4. d \in DOMAIN files => s = files[d]
    BY DEF Opened
<1>5. d \notin DOMAIN files => Len(s) = 0
    BY DEF Opened
<1>6. \A k \in DOMAIN files' :
          \/ k \in DOMAIN files /\ files'[k] = files[k]
          \/ k = d /\ files'[k] \in {s, Append(s, Piece(e, TRUE)), Append(s, Piece(e, FALSE))}
    BY <1>1 DEF Effect, Grown
<1>7. \A k \in DOMAIN files : k >= Day(e.at - Keep) => k \in DOMAIN files'
    BY <1>1 DEF Effect
<1>8. \A k \in DOMAIN files : files[k] \in Seq(Pieces)
    BY DEF Filed
<1> HIDE DEF s, d
<1>a. ASSUME NEW k \in DOMAIN files', ~(k \in DOMAIN files /\ files'[k] = files[k])
      PROVE  /\ k = d /\ files'[k] \in Seq(Pieces)
             /\ Len(files'[k]) \in {Len(s), Len(s) + 1}
             /\ \A i \in 1 .. Len(s) : files'[k][i] = s[i]
             /\ Len(files'[k]) = Len(s) + 1 => files'[k][Len(s) + 1].event = e
  <2> DEFINE new(w) == Append(s, Piece(e, w))
  <2>1. k = d /\ files'[k] \in {s, new(TRUE), new(FALSE)}
      BY <1>6, <1>a
  <2>2. \A w \in BOOLEAN :
            /\ new(w) \in Seq(Pieces) /\ Len(new(w)) = Len(s) + 1
            /\ new(w)[Len(s) + 1].event = e
            /\ \A i \in 1 .. Len(s) : new(w)[i] = s[i]
      BY <1>3
  <2> HIDE DEF new
  <2>3. CASE files'[k] = s
      BY <1>2, <2>1, <2>3
  <2>4. ASSUME NEW w \in BOOLEAN, files'[k] = new(w)
        PROVE  /\ files'[k] \in Seq(Pieces)
               /\ Len(files'[k]) = Len(s) + 1
               /\ \A i \in 1 .. Len(s) : files'[k][i] = s[i]
               /\ files'[k][Len(s) + 1].event = e
      BY <2>2, <2>4, Zenon
  <2> QED  BY <2>1, <2>3, <2>4
<1>b. ASSUME NEW k \in DOMAIN files, NEW i \in Nat,
             k >= Day(e.at - Keep), i \in 1 .. Len(files[k])
      PROVE  /\ k \in DOMAIN files' /\ i \in 1 .. Len(files'[k])
             /\ files'[k][i] = files[k][i]
  <2>1. k \in DOMAIN files'
      BY <1>7, <1>b
  <2>2. CASE files'[k] = files[k]
      BY <1>b, <2>1, <2>2
  <2>3. CASE files'[k] # files[k]
      BY <1>2, <1>4, <1>a, <1>b, <2>1, <2>3
  <2> QED  BY <2>2, <2>3
<1>c. ASSUME NEW k \in DOMAIN files', NEW i \in Nat, i \in 1 .. Len(files'[k])
      PROVE  \/ k \in DOMAIN files /\ i \in 1 .. Len(files[k])
                /\ files'[k][i] = files[k][i]
             \/ k = d /\ i = Len(s) + 1 /\ files'[k][i].event = e
  <2>1. CASE k \in DOMAIN files /\ files'[k] = files[k]
      BY <1>c, <2>1
  <2>2. CASE ~(k \in DOMAIN files /\ files'[k] = files[k])
    <3>0. Len(files'[k]) \in {Len(s), Len(s) + 1}
        BY <1>a, <2>2
    <3>1. i \in 1 .. Len(s) \/ (i = Len(s) + 1 /\ Len(files'[k]) = Len(s) + 1)
        BY <1>2, <1>c, <3>0
    <3> QED  BY <1>2, <1>4, <1>5, <1>a, <1>c, <2>2, <3>1
  <2> QED  BY <2>1, <2>2
<1>e. ASSUME NEW k \in DOMAIN files' PROVE files'[k] \in Seq(Pieces)
    BY <1>8, <1>a, <1>e
<1> QED  BY <1>b, <1>c, <1>e DEF s, d

\* What a step of the program is to the store, to smbd's log and to Tail.
Shut == cur' = None /\ UNCHANGED <<now, files, acked, web, smbd, tail>>

\* A query looks, and leaves everything as it is.
Unmoved == UNCHANGED <<now, store, note, notes, smbd, tail>>

ActMove ==
    \/ Unmoved
    \/ Shut
    \/ TailStep \/ TailEnds
    \/ \E w \in Writers : Note(w)
    \/ \E w \in Writers : RecordNote(w)
    \/ Tick
    \/ SmbdStep

\* A step of the program is one of these to the store, to smbd and to Tail, or none.
LEMMA StepIsMove ==
    ASSUME [Next]_vars
    PROVE  ActMove
<1>1. UNCHANGED actVars => Unmoved
    BY DEF actVars, web, Unmoved
<1>2. QueryStep => Unmoved
    BY DEF QueryStep, ReadNextDay, QueryEnds, Unmoved
<1>3. \A s, l : ListDays(s, l) => Unmoved
    BY DEF ListDays, Unmoved
<1>4. CASE Activity \/ Arrive
    BY <1>1, <1>2, <1>3, <1>4 DEF Activity, Arrive, ActMove
<1>5. CASE ~(Activity \/ Arrive)
    BY <1>1, <1>5 DEF Next, MainStep, Boot, BootFails, Killed, Drained, CloseActs, CloseSup, Exit,
       Signal, NotDrained, Interface, Gone, vars, ActMove, Shut
<1> QED  BY <1>4, <1>5

\* What smbd writes, operation by operation.
LEMMA Transcripts ==
    /\ Transcript("mkdir") = << Line("mkdirat", TRUE, "", "", "", "tmp"),
                                Line("renameat", TRUE, "", "", "tmp", "in"),
                                Line("create_file", TRUE, "dir", "create", "", "in") >>
    /\ Transcript("create") = << Line("create_file", TRUE, "file", "overwrite_if", "", "in") >>
    /\ Transcript("open") = << Line("create_file", TRUE, "file", "open", "", "in") >>
    /\ Transcript("rename") = << Line("create_file", TRUE, "file", "open", "", "in"),
                                 Line("renameat", TRUE, "", "", "in", "in") >>
    /\ Transcript("delete") = << Line("unlinkat", TRUE, "", "", "", "in") >>
    /\ Transcript("denied") = << Line("unlinkat", FALSE, "", "", "", "in") >>
    /\ Transcript("outside") = << Line("unlinkat", TRUE, "", "", "", "out") >>
BY DEF Transcript

\* It writes one line to three for each.
LEMMA TranscriptTyped ==
    ASSUME NEW o \in Ops
    PROVE  /\ Transcript(o) \in Seq(Lines)
           /\ Len(Transcript(o)) \in 1 .. 3
<1>1. o \in {"mkdir", "create", "open", "rename", "delete", "denied", "outside"}
    BY ActivityConstants
<1>2. ASSUME NEW x \in Lines, NEW y \in Lines, NEW z \in Lines
      PROVE  /\ <<x>> \in Seq(Lines) /\ Len(<<x>>) = 1
             /\ <<x, y>> \in Seq(Lines) /\ Len(<<x, y>>) = 2
             /\ <<x, y, z>> \in Seq(Lines) /\ Len(<<x, y, z>>) = 3
    OBVIOUS
<1>3. /\ Line("mkdirat", TRUE, "", "", "", "tmp") \in Lines
      /\ Line("renameat", TRUE, "", "", "tmp", "in") \in Lines
      /\ Line("create_file", TRUE, "dir", "create", "", "in") \in Lines
      /\ Line("create_file", TRUE, "file", "overwrite_if", "", "in") \in Lines
      /\ Line("create_file", TRUE, "file", "open", "", "in") \in Lines
      /\ Line("renameat", TRUE, "", "", "in", "in") \in Lines
      /\ Line("unlinkat", TRUE, "", "", "", "in") \in Lines
      /\ Line("unlinkat", FALSE, "", "", "", "in") \in Lines
      /\ Line("unlinkat", TRUE, "", "", "", "out") \in Lines
    BY DEF Line, Lines
<1> DEFINE Good(s) == s \in Seq(Lines) /\ Len(s) \in 1 .. 3
<1>4. \A x, y, z \in Lines : Good(<<x>>) /\ Good(<<x, y>>) /\ Good(<<x, y, z>>)
    BY <1>2
<1> HIDE DEF Good
<1>5. \A p \in {"mkdir", "create", "open", "rename", "delete", "denied", "outside"} :
          Good(Transcript(p))
    BY <1>3, <1>4, Transcripts
<1> QED  BY <1>1, <1>5 DEF Good

\* At the start the store is empty, and so is the log (activity.New, Tail).
LEMMA ActStart ==
    ASSUME Init
    PROVE  LogTyped /\ TailTyped /\ StoreInv
<1>1. << >> \in Seq(LogPieces) /\ << >> \in Seq(Lines) /\ << >> \in Seq(Ops) /\ Len(<< >>) = 0
    OBVIOUS
<1>2. flags.smb \in BOOLEAN
    BY FlagsShape DEF Init
<1>3. LogTyped
    BY <1>1, TimesAreInts DEF Init, ActInit, LogTyped
<1>4. tail.pc \in {"wait", "off"} /\ TailTyped
    BY <1>2 DEF Init, ActInit, Idle, TailTyped, TailRecs, TailPlaces
<1>5. StoreInv
    BY <1>4, TimesAreInts DEF Init, ActInit, StoreInv, Timed, Filed, Stands
<1> QED  BY <1>3, <1>4, <1>5

\* The log stays a log, and smbd is at a line of its last operation.
LEMMA LogTypesHold ==
    ASSUME LogTyped, ActMove
    PROVE  LogTyped'
<1>1. CASE UNCHANGED smbd
    BY <1>1 DEF smbd, LogTyped
<1>2. ASSUME NEW o \in Ops, SmbOp(o) PROVE LogTyped'
  <2>1. done' \in Seq(Ops) /\ Len(done') = Len(done) + 1 /\ done'[Len(done')] = o
      BY <1>2 DEF SmbOp, LogTyped
  <2>2. todo' \in Seq(Lines) /\ todo' = Transcript(o) /\ Len(todo') \in Nat
      BY <1>2, TranscriptTyped DEF SmbOp
  <2>3. log' = log /\ path' = path /\ Len(done) < MaxOps /\ Len(done) \in Nat
      BY <1>2 DEF SmbOp, LogTyped
  <2> QED  BY <2>1, <2>2, <2>3, TimesAreInts DEF LogTyped
<1>3. CASE SmbWrites
  <2>1. path \in Inodes /\ path' = path /\ done' = done /\ todo # << >>
      BY <1>3 DEF SmbWrites, LogTyped
  <2>2. PICK part \in {"all", "rest", "head"} :
            /\ log' = [log EXCEPT ![path] =
                          Append(@, [id |-> Len(done), left |-> Len(todo), part |-> part])]
            /\ todo' = IF part = "head" THEN todo ELSE Tail(todo)
      BY <1>3 DEF SmbWrites
  <2> DEFINE p == [id |-> Len(done), left |-> Len(todo), part |-> part]
  <2>3. p \in LogPieces
      BY DEF LogTyped, LogPieces
  <2>4. log' \in [Inodes -> Seq(LogPieces)]
    <3> HIDE DEF p
    <3>1. log[path] \in Seq(LogPieces) /\ Append(log[path], p) \in Seq(LogPieces)
        BY <2>1, <2>3 DEF LogTyped
    <3>2. log' = [log EXCEPT ![path] = Append(log[path], p)]
        BY <2>2 DEF p
    <3> QED  BY <2>1, <3>1, <3>2 DEF LogTyped
  <2>5. /\ todo' \in Seq(Lines) /\ Len(todo') <= Len(todo)
        /\ Len(todo') \in Nat /\ Len(todo) \in Nat
      BY <2>1, <2>2 DEF LogTyped
  <2>6. done[Len(done)] \in Ops
      BY <2>1 DEF LogTyped
  <2>7. Len(Transcript(done[Len(done)])) \in Nat
      BY <2>6, TranscriptTyped
  <2> QED  BY <2>1, <2>4, <2>5, <2>7 DEF LogTyped
<1>4. CASE RotateAway \/ MakeLog
    BY <1>4 DEF RotateAway, MakeLog, LogTyped
<1> QED  BY <1>1, <1>2, <1>3, <1>4 DEF ActMove, Unmoved, Shut, TailStep, TailStat, TailOpen,
            TailLook, TailEnd, TailRead, TailNote, TailEnds, Note, RecordNote, Tick, SmbdStep

\* What Tail reads next is the piece after those it has passed.
LEMMA NextPiece ==
    ASSUME LogTyped, TailTyped, tail.pc = "read"
    PROVE  LET s == log[tail.file]
           IN /\ tail.file \in Inodes /\ s \in Seq(LogPieces) /\ Len(s) \in Nat
              /\ Unread # << >> <=> tail.off < Len(s)
              /\ Unread # << >> => /\ Len(Unread) = Len(s) - tail.off
                                   /\ tail.off + 1 \in 1 .. Len(s)
                                   /\ Head(Unread) = s[tail.off + 1]
                                   /\ Head(Unread) \in LogPieces
<1>1. tail.file \in Inodes /\ tail.off \in Nat
    BY DEF TailTyped, TailRecs
<1> DEFINE s == log[tail.file]
           m == tail.off
<1>2. s \in Seq(LogPieces) /\ Len(s) \in Nat
    BY <1>1 DEF LogTyped
<1>3. Unread = SubSeq(s, m + 1, Len(s))
    BY DEF Unread
<1> HIDE DEF s, m
<1>4. m \in Nat
    BY <1>1 DEF m
<1>5. CASE m < Len(s)
  <2> DEFINE u == SubSeq(s, m + 1, Len(s))
  <2>a. m + 1 \in 1 .. Len(s) /\ s[m + 1] \in LogPieces
      BY <1>2, <1>4, <1>5
  <2>b. u \in Seq(LogPieces) /\ Len(u) = Len(s) - m /\ Len(u) > 0 /\ Len(u) \in Nat
      BY <1>2, <1>4, <1>5
  <2>d. u[1] = s[m + 1]
      BY <1>2, <1>4, <1>5
  <2> HIDE DEF u
  <2>c. u # << >> /\ Head(u) = u[1]
      BY <2>b
  <2>1. /\ SubSeq(s, m + 1, Len(s)) # << >> /\ Len(SubSeq(s, m + 1, Len(s))) = Len(s) - m
        /\ Head(SubSeq(s, m + 1, Len(s))) = s[m + 1]
      BY <2>a, <2>b, <2>c, <2>d DEF u
  <2> QED  BY <1>1, <1>2, <1>3, <1>5, <2>1, <2>a DEF s, m
<1>6. CASE ~(m < Len(s))
  <2>1. SubSeq(s, m + 1, Len(s)) = << >>
      BY <1>2, <1>4, <1>6
  <2> QED  BY <1>1, <1>2, <1>3, <1>6, <2>1 DEF s, m
<1> QED  BY <1>5, <1>6

\* What Tail makes of a line is an action.
LEMMA ParsedTyped ==
    ASSUME NEW piece
    PROVE  \A actions \in Parsed(piece) :
              /\ actions \subseteq Actions
              /\ actions # {} => (CHOOSE a \in actions : TRUE) \in actions
<1>1. ParseAuditLine(LineOf(piece)) \in {{}, {"delete"}, {"mkdir"}, {"rename"}, {"create"}}
    BY DEF ParseAuditLine
<1>2. \A actions \in Parsed(piece) :
          actions \in {{}, {"cut"}, {"delete"}, {"mkdir"}, {"rename"}, {"create"}}
    BY <1>1 DEF Parsed
<1> QED  BY <1>2 DEF Actions

\* Tail's locals stay of their types, and what it is about to record is of now.
LEMMA TailTypesHold ==
    ASSUME LogTyped, TailTyped, Timed, ActMove
    PROVE  /\ TailTyped'
           /\ tail'.pc = "note" => \/ tail' = tail
                                   \/ tail'.event \in Events /\ tail'.event.at = now
<1>0. None \notin Inodes
    BY TimesAreInts
<1>1. CASE tail' = tail
  <2>1. TailTyped'
      BY <1>1 DEF TailTyped
  <2> QED  BY <1>1, <2>1
<1>2. CASE TailStat
  <2>1. Len(log[path]) \in Nat
      BY <1>2 DEF TailStat, LogTyped
  <2> QED  BY <1>2, <2>1 DEF TailStat, TailTyped, TailRecs, TailPlaces
<1>3. CASE TailOpen
    BY <1>3, <1>0 DEF TailOpen, OpenAt, TailTyped, TailRecs, TailPlaces, LogTyped
<1>4. CASE TailLook
  <2>1. CASE tail' = [tail EXCEPT !.pc = "read"]
    <3>1. tail.file # None
        BY <1>4 DEF TailLook, TailTyped
    <3> QED  BY <2>1, <3>1 DEF TailTyped, TailRecs, TailPlaces
  <2>2. CASE tail' = [Idle EXCEPT !.again = TRUE]
    <3>1. tail' = [pc |-> "wait", file |-> None, off |-> 0, size |-> 0, event |-> None,
                   again |-> TRUE]
        BY <2>2 DEF Idle
    <3> QED  BY <3>1 DEF TailTyped, TailRecs, TailPlaces
  <2> QED  BY <1>4, <2>1, <2>2 DEF TailLook
<1>5. CASE TailEnd
  <2>1. \/ tail' = [tail EXCEPT !.pc = "wait"]
        \/ tail' = [tail EXCEPT !.pc = "wait", !.off = @ + 1]
      BY <1>5 DEF TailEnd
  <2>2. CASE tail' = [tail EXCEPT !.pc = "wait"]
      BY <2>2 DEF TailTyped, TailRecs, TailPlaces
  <2>3. CASE tail' = [tail EXCEPT !.pc = "wait", !.off = @ + 1]
    <3> DEFINE m == tail.off + 1
    <3>1. m \in Nat
        BY DEF TailTyped, TailRecs
    <3>2. tail' = [tail EXCEPT !.pc = "wait", !.off = m]
        BY <2>3
    <3> HIDE DEF m
    <3> QED  BY <3>1, <3>2 DEF TailTyped, TailRecs, TailPlaces
  <2> QED  BY <2>1, <2>2, <2>3
<1>6. CASE TailRead
  <2>1. tail.pc = "read" /\ Head(Unread) \in LogPieces
      BY <1>6, NextPiece DEF TailRead
  <2>2. PICK n \in {1, 2}, actions \in Parsed(Head(Unread)) :
            tail' = [tail EXCEPT
                    !.off = @ + n, !.size = @ + n,
                    !.pc = IF actions = {} THEN "read" ELSE "note",
                    !.event = IF actions = {} THEN None
                              ELSE [at |-> now, id |-> Head(Unread).id,
                                    action |-> CHOOSE a \in actions : TRUE]]
      BY <1>6 DEF TailRead
  <2> DEFINE act == CHOOSE a \in actions : TRUE
             h == Head(Unread)
  <2>3. actions # {} => act \in Actions
      BY ParsedTyped
  <2>4. h.id \in Nat /\ now \in Nat
      BY <2>1, TimesAreInts DEF LogPieces, Timed
  <2> HIDE DEF act, h
  <2>5. actions # {} => [at |-> now, id |-> h.id, action |-> act] \in Events
      BY <2>3, <2>4 DEF Events
  <2>6. tail' = [tail EXCEPT
                    !.off = @ + n, !.size = @ + n,
                    !.pc = IF actions = {} THEN "read" ELSE "note",
                    !.event = IF actions = {} THEN None
                              ELSE [at |-> now, id |-> h.id, action |-> act]]
      BY <2>2 DEF h, act
  <2>7. tail.file # None
      BY <2>1 DEF TailTyped
  <2>8. CASE actions = {}
    <3>1. tail' = [tail EXCEPT !.off = @ + n, !.size = @ + n, !.pc = "read", !.event = None]
        BY <2>6, <2>8
    <3>2. tail'.pc = "read" /\ tail'.file = tail.file
        BY <3>1 DEF TailTyped, TailRecs
    <3>3. n \in Nat
        OBVIOUS
    <3> DEFINE m == tail.off + n
               z == tail.size + n
    <3>a. m \in Nat /\ z \in Nat
        BY <3>3 DEF TailTyped, TailRecs
    <3>b. tail' = [tail EXCEPT !.off = m, !.size = z, !.pc = "read", !.event = None]
        BY <3>1
    <3> HIDE DEF m, z
    <3>4. tail' \in TailRecs
        BY <3>a, <3>b DEF TailTyped, TailRecs, TailPlaces
    <3> QED  BY <2>7, <3>2, <3>4 DEF TailTyped
  <2>9. CASE actions # {}
    <3> DEFINE e == [at |-> now, id |-> h.id, action |-> act]
    <3>1. e \in Events /\ e.at = now
        BY <2>5, <2>9
    <3>2. tail' = [tail EXCEPT !.off = @ + n, !.size = @ + n, !.pc = "note", !.event = e]
        BY <2>6, <2>9
    <3> HIDE DEF e
    <3>3. tail'.pc = "note" /\ tail'.file = tail.file /\ tail'.event = e
        BY <3>2 DEF TailTyped, TailRecs
    <3>4. n \in Nat
        OBVIOUS
    <3> DEFINE m == tail.off + n
               z == tail.size + n
    <3>a. m \in Nat /\ z \in Nat
        BY <3>4 DEF TailTyped, TailRecs
    <3>b. tail' = [tail EXCEPT !.off = m, !.size = z, !.pc = "note", !.event = e]
        BY <3>2
    <3> HIDE DEF m, z
    <3>5. tail' \in TailRecs
        BY <3>a, <3>b, <3>1 DEF TailTyped, TailRecs, TailPlaces
    <3> QED  BY <2>7, <3>1, <3>3, <3>5 DEF TailTyped
  <2> QED  BY <2>8, <2>9
<1>7. CASE TailNote
    BY <1>7 DEF TailNote, TailTyped, TailRecs, TailPlaces
<1>8. CASE TailEnds
    BY <1>8 DEF TailEnds, Idle, TailTyped, TailRecs, TailPlaces
<1> QED  BY <1>1, <1>2, <1>3, <1>4, <1>5, <1>6, <1>7, <1>8
            DEF ActMove, Unmoved, Shut, TailStep,
            Note, RecordNote, Tick, SmbdStep, SmbOp, SmbWrites, RotateAway, MakeLog

\* The events of requests that take the lock.
Recorded(e) ==
    /\ e \in Events /\ e.at <= now
    /\ Record(e) /\ now' = now

\* What was acknowledged outlives a Record: what is pruned is before the window.
LEMMA RecordKeeps ==
    ASSUME StoreInv, NEW e, Recorded(e)
    PROVE  Filed' /\ Stands' /\ (acked \subseteq Events /\ \A x \in acked : x.at <= now)'
<1>0. e \in Events /\ e.at \in Nat /\ now \in 0 .. MaxNow /\ now' = now /\ e.at <= now
    BY DEF Recorded, Events, StoreInv, Timed
<1>1. Effect(e) /\ Filed
    BY <1>0, RecordEffect DEF Recorded, StoreInv
<1> DEFINE d == Day(e.at)
<1>2. d \in Days
    BY <1>0, TimesAreInts, DaysInOrder DEF Days
<1>3. Filed'
  <2>1. \A k \in DOMAIN files' : files'[k] \in Seq(Pieces)
      BY <1>0, <1>1, RecordPieces DEF Recorded
  <2>2. DOMAIN files' \subseteq Days
      BY <1>1, <1>2 DEF Effect, Filed
  <2> QED  BY <1>1, <2>1, <2>2 DEF Effect, Filed
<1>4. (acked \subseteq Events /\ \A x \in acked : x.at <= now)'
    BY <1>0, <1>1 DEF Effect, StoreInv, Timed
<1>5. ASSUME NEW x \in acked', Day(x.at) >= Day(now - Keep)
      PROVE  /\ Day(x.at) \in DOMAIN files'
             /\ \E i \in 1 .. Len(files'[Day(x.at)]) : files'[Day(x.at)][i] = Piece(x, TRUE)
  <2>1. CASE x \in acked
    <3> DEFINE k == Day(x.at)
    <3>1. k \in DOMAIN files
        BY <1>5, <2>1 DEF StoreInv, Stands
    <3>2. PICK i \in 1 .. Len(files[k]) : files[k][i] = Piece(x, TRUE)
        BY <1>5, <2>1 DEF StoreInv, Stands
    <3>a. e.at - Keep \in Int /\ now - Keep \in Int /\ e.at - Keep <= now - Keep
        BY <1>0, TimesAreInts
    <3>3. /\ Day(e.at - Keep) <= Day(now - Keep)
          /\ Day(e.at - Keep) \in Int /\ Day(now - Keep) \in Int
        BY <3>a, DaysInOrder
    <3>4. k \in Int
        BY <1>1, <3>1 DEF Filed, Days
    <3> HIDE DEF k
    <3>5. k >= Day(e.at - Keep)
        BY <3>3, <3>4, <1>5 DEF k
    <3>6. i \in Nat
        OBVIOUS
    <3>b. Record(e) /\ i \in 1 .. Len(files[k])
        BY DEF Recorded
    <3>7. k \in DOMAIN files' /\ i \in 1 .. Len(files'[k]) /\ files'[k][i] = files[k][i]
        BY <1>0, <1>1, <3>1, <3>b, <3>5, <3>6, RecordPieces
    <3> QED  BY <3>2, <3>7 DEF k
  <2>2. CASE x = e /\ d \in DOMAIN files' /\ files'[d] = Append(Opened(d), Piece(e, TRUE))
    <3> DEFINE s == Opened(d)
    <3>1. s \in Seq(Pieces) /\ Piece(e, TRUE) \in Pieces
        BY <1>0, <1>1, OpenedTyped DEF Piece, Pieces
    <3> HIDE DEF s
    <3>2. ASSUME NEW p \in Pieces
          PROVE  /\ Len(s) + 1 \in 1 .. Len(Append(s, p))
                 /\ Append(s, p)[Len(s) + 1] = p
        BY <3>1
    <3> QED  BY <2>2, <3>1, <3>2 DEF s
  <2> QED  BY <1>1, <1>5, <2>1, <2>2 DEF Effect
<1> QED  BY <1>0, <1>3, <1>4, <1>5 DEF Stands

\* The invariant of the store passes from each state to the next.
LEMMA StoreHolds ==
    ASSUME LogTyped, TailTyped, StoreInv, ActMove
    PROVE  StoreInv'
<1>0. now \in Nat /\ MaxNow \in Nat /\ Keep \in Nat
    BY TimesAreInts DEF StoreInv, Timed
<1>1. tail'.pc = "note" => \/ tail' = tail
                           \/ tail'.event \in Events /\ tail'.event.at = now
    BY TailTypesHold DEF StoreInv
<1>2. CASE UNCHANGED <<now, files, acked, cur, note, notes>>
  <2>1. Timed'
      BY <1>0, <1>1, <1>2 DEF StoreInv, Timed
  <2>2. Filed' /\ Stands'
      BY <1>2 DEF StoreInv, Filed, Stands
  <2> QED  BY <2>1, <2>2 DEF StoreInv
<1>3. CASE Shut
    BY <1>3 DEF Shut, StoreInv, Timed, Filed, Stands, web
<1>4. CASE TailNote
  <2>1. Recorded(tail.event) /\ note' = note /\ notes' = notes
      BY <1>4 DEF TailNote, Recorded, StoreInv, Timed, web
  <2>2. tail'.pc = "read"
      BY <1>4 DEF TailNote, TailTyped
  <2>3. Filed' /\ Stands' /\ (acked \subseteq Events /\ \A x \in acked : x.at <= now)'
      BY <2>1, RecordKeeps
  <2> QED  BY <2>1, <2>2, <2>3 DEF StoreInv, Timed, Recorded
<1>5. ASSUME NEW w \in Writers, RecordNote(w) PROVE StoreInv'
  <2>1. /\ Recorded(note[w]) /\ tail' = tail
        /\ notes' = notes /\ note' = [note EXCEPT ![w] = None]
      BY <1>5 DEF RecordNote, Recorded, StoreInv, Timed
  <2>3. Filed' /\ Stands' /\ (acked \subseteq Events /\ \A x \in acked : x.at <= now)'
      BY <2>1, RecordKeeps
  <2> QED  BY <2>1, <2>3 DEF StoreInv, Timed, Recorded
<1>6. ASSUME NEW w \in Writers, Note(w) PROVE StoreInv'
  <2>1. [at |-> now, action |-> "web", id |-> MaxOps + notes + 1] \in Events
      BY <1>0, <1>6, TimesAreInts DEF Events, Actions, StoreInv, Timed
  <2>2. /\ note' = [note EXCEPT ![w] =
                        [at |-> now, action |-> "web", id |-> MaxOps + notes + 1]]
        /\ notes' = notes + 1
        /\ UNCHANGED <<now, files, acked, cur, tail>>
      BY <1>6 DEF Note, store
  <2>3. Filed' /\ Stands'
      BY <2>2 DEF StoreInv, Filed, Stands
  <2> QED  BY <1>0, <2>1, <2>2, <2>3 DEF StoreInv, Timed
<1>7. CASE Tick
  <2>1. now' = now + 1 /\ now < MaxNow /\ UNCHANGED <<files, acked, cur, note, notes, tail>>
      BY <1>7 DEF Tick, store, web
  <2>2. Timed'
    <3>1. \A e \in Events : e.at <= now => e.at <= now + 1
        BY <1>0 DEF Events
    <3> QED  BY <1>0, <2>1, <3>1 DEF StoreInv, Timed
  <2>3. Filed'
      BY <2>1 DEF StoreInv, Filed
  <2>4. Stands'
    <3>1. /\ Day(now - Keep) <= Day(now' - Keep)
          /\ Day(now - Keep) \in Int /\ Day(now' - Keep) \in Int
        BY <1>0, <2>1, DaysInOrder
    <3>2. \A e \in acked : Day(e.at) \in Int
        BY Quotient DEF StoreInv, Timed, Events
    <3>3. \A e \in acked : Day(e.at) >= Day(now' - Keep) => Day(e.at) >= Day(now - Keep)
        BY <3>1, <3>2
    <3> QED  BY <2>1, <3>3 DEF StoreInv, Stands
  <2> QED  BY <2>2, <2>3, <2>4 DEF StoreInv
<1>8. CASE TailStat \/ TailOpen \/ TailLook \/ TailEnd \/ TailRead \/ TailEnds
    BY <1>2, <1>8 DEF TailStat, TailOpen, TailLook, TailEnd, TailRead, TailEnds, store, web
<1>9. CASE SmbdStep \/ Unmoved
    BY <1>2, <1>9 DEF SmbdStep, SmbOp, SmbWrites, RotateAway, MakeLog, store, web, Unmoved
<1> QED  BY <1>3, <1>4, <1>5, <1>6, <1>7, <1>8, <1>9 DEF ActMove, TailStep

StoreTyped == LogTyped /\ TailTyped /\ StoreInv

\* The log, Tail and the store are of their types, and what was acknowledged stands.
LEMMA StoreAlways == Spec => []StoreTyped
<1>1. Init => StoreTyped
    BY ActStart DEF StoreTyped
<1>2. StoreTyped /\ [Next]_vars => StoreTyped'
    BY StepIsMove, LogTypesHold, TailTypesHold, StoreHolds DEF StoreTyped, StoreInv
<1> QED  BY <1>1, <1>2, PTL DEF Spec

\* For any requests, configurations and bounds: when the process is gone so is its
\* child, and a shutdown that was not cut short by its deadline has cost no request
\* anything (run's last lines and its deferred calls, Supervisor.Close, runOne).
THEOREM LeavesNothing == Spec => []EndsCleanly
<1>1. Init => ShutInv
    BY UiStart
<1>2. ShutInv /\ [Next]_vars => ShutInv'
    BY ShutHolds
<1>3. ShutInv /\ StoreTyped => EndsCleanly
    BY DEF ShutInv, StoreTyped, LogTyped, StoreInv, Timed, Filed, EndsCleanly, TypeOK
<1> QED  BY <1>1, <1>2, <1>3, StoreAlways, PTL DEF Spec

\* For any requests, days and window: whoever has acknowledged an event finds it in
\* the file of its day for as long as the window lasts, unless a write failed half-way
\* just before it (Record, rollLocked, pruneLocked, readDay).
THEOREM AcknowledgedStays == Spec => []AckedKept
<1>1. ASSUME StoreTyped PROVE AckedKept
  <2> SUFFICES ASSUME NEW e \in acked, Day(e.at) >= Day(now - Keep)
               PROVE  /\ Day(e.at) \in DOMAIN files
                      /\ \E i \in DOMAIN files[Day(e.at)] :
                            LET f == files[Day(e.at)]
                            IN /\ f[i] = Piece(e, TRUE)
                               /\ (i > 1 /\ ~f[i - 1].whole) \/ e \in Range(ReadDay(Day(e.at)))
      BY DEF AckedKept
  <2> DEFINE f == files[Day(e.at)]
  <2>1. Day(e.at) \in DOMAIN files
      BY <1>1 DEF StoreTyped, StoreInv, Stands
  <2>2. PICK i \in 1 .. Len(f) : f[i] = Piece(e, TRUE)
      BY <1>1 DEF StoreTyped, StoreInv, Stands
  <2>3. f \in Seq(Pieces)
      BY <1>1, <2>1 DEF StoreTyped, StoreInv, Filed
  <2>4. ReadDay(Day(e.at)) = ReadUpTo(f)[Len(f)]
      BY DEF ReadDay
  <2> HIDE DEF f
  <2>5. i \in DOMAIN f /\ i \in Nat /\ i >= 1 /\ \A j \in 1 .. Len(f) : f[j] \in Pieces
      BY <2>3
  <2>6. f[i].whole = TRUE /\ f[i].event = e
      BY <2>2 DEF Piece
  <2>7. (i > 1 /\ ~f[i - 1].whole) \/ e \in Range(ReadUpTo(f)[Len(f)])
    <3>1. SUFFICES ASSUME ~(i > 1 /\ ~f[i - 1].whole)
                   PROVE  e \in Range(ReadUpTo(f)[Len(f)])
        OBVIOUS
    <3>2. WholeAt(f, i)
        BY <2>5, <2>6, <3>1 DEF WholeAt
    <3> QED  BY <2>2, <2>3, <2>6, <3>2, WholeIsRead
  <2> QED  BY <2>1, <2>2, <2>4, <2>5, <2>7 DEF f
<1> QED  BY <1>1, StoreAlways, PTL

-----------------------------------------------------------------------------
(* smbd's log, and what Tail has made of it.                               *)

\* Each piece is of a line of an operation, and of the lines still to be written
\* only the one that is half there has one: at the end of the log at its path.
Written ==
    \A i \in Inodes : \A p \in 1 .. Len(log[i]) :
        LET l == log[i][p]
        IN /\ l.id \in 1 .. Len(done) /\ l.left \in 1 .. Len(Transcript(done[l.id]))
           /\ l.id = Len(done) => l.left >= Len(todo)
           /\ l.id = Len(done) /\ l.left = Len(todo) =>
                 i = path /\ p = Len(log[i]) /\ l.part = "head"

\* A line begins at one place of one log.
Distinct ==
    \A i, j \in Inodes : \A p \in 1 .. Len(log[i]), q \in 1 .. Len(log[j]) :
        /\ log[i][p].part # "rest" /\ log[j][q].part # "rest"
        /\ log[i][p].id = log[j][q].id /\ log[i][p].left = log[j][q].left
        => i = j /\ p = q

\* What Tail will not read again, wherever it opens a log.
Passed(i, p) ==
    /\ p \in 1 .. Len(log[i])
    /\ tail.file = i => p <= tail.off
    /\ tail.pc = "open" /\ path = i => p <= tail.size

\* The event of an operation stands for a line that has been passed.
Source(e) ==
    \E i \in Inodes : \E p \in 1 .. Len(log[i]) :
        /\ Passed(i, p)
        /\ log[i][p].part # "rest" /\ log[i][p].id = e.id
        /\ ParseAuditLine(LineOf(log[i][p])) = {e.action}

\* The events that count: of an operation, and not of what was left of a line.
Smb(e) == e.id <= MaxOps /\ e.action # "cut"

EventAt(d, i) == files[d][i].event

\* Every event on record has its line, and no two have one.
OnRecord ==
    /\ \A d \in DOMAIN files : \A i \in 1 .. Len(files[d]) :
          Smb(EventAt(d, i)) => Source(EventAt(d, i))
    /\ \A d, c \in DOMAIN files : \A i \in 1 .. Len(files[d]), j \in 1 .. Len(files[c]) :
          Smb(EventAt(d, i)) /\ Smb(EventAt(c, j)) /\ EventAt(d, i).id = EventAt(c, j).id =>
             d = c /\ i = j

\* An event that could be recorded: it has its line, and nothing on record has.
Fresh(e) ==
    /\ Source(e)
    /\ \A d \in DOMAIN files : \A i \in 1 .. Len(files[d]) :
          Smb(EventAt(d, i)) => EventAt(d, i).id # e.id

Sourced == OnRecord /\ (tail.pc = "note" /\ tail.event.action # "cut" => Fresh(tail.event))

\* The requests of the web number their events beyond those of any operation.
Numbered ==
    \A w \in Writers : note[w] # None => note[w].id > MaxOps

OnceTyped == LogTyped /\ TailTyped /\ StoreInv /\ Written /\ Distinct /\ Numbered

OnceInv == OnceTyped /\ Sourced

\* What ParseAuditLine makes of each of the lines.
LEMMA Parses ==
    /\ ParseAuditLine(Line("mkdirat", TRUE, "", "", "", "tmp")) = {}
    /\ ParseAuditLine(Line("renameat", TRUE, "", "", "tmp", "in")) = {"mkdir"}
    /\ ParseAuditLine(Line("create_file", TRUE, "dir", "create", "", "in")) = {}
    /\ ParseAuditLine(Line("create_file", TRUE, "file", "overwrite_if", "", "in")) = {"create"}
    /\ ParseAuditLine(Line("create_file", TRUE, "file", "open", "", "in")) = {}
    /\ ParseAuditLine(Line("renameat", TRUE, "", "", "in", "in")) = {"rename"}
    /\ ParseAuditLine(Line("unlinkat", TRUE, "", "", "", "in")) = {"delete"}
    /\ ParseAuditLine(Line("unlinkat", FALSE, "", "", "", "in")) = {}
    /\ ParseAuditLine(Line("unlinkat", TRUE, "", "", "", "out")) = {}
<1>1. ParseAuditLine(Line("mkdirat", TRUE, "", "", "", "tmp")) = {}
    BY DEF ParseAuditLine, Line, InRoot, IsTmp, Makes, Making
<1>2. ParseAuditLine(Line("renameat", TRUE, "", "", "tmp", "in")) = {"mkdir"}
    BY DEF ParseAuditLine, Line, InRoot, IsTmp, Makes, Making
<1>3. ParseAuditLine(Line("create_file", TRUE, "dir", "create", "", "in")) = {}
    BY DEF ParseAuditLine, Line, InRoot, IsTmp, Makes, Making
<1>4. ParseAuditLine(Line("create_file", TRUE, "file", "overwrite_if", "", "in")) = {"create"}
    BY DEF ParseAuditLine, Line, InRoot, IsTmp, Makes, Making
<1>5. ParseAuditLine(Line("create_file", TRUE, "file", "open", "", "in")) = {}
    BY DEF ParseAuditLine, Line, InRoot, IsTmp, Makes, Making
<1>6. ParseAuditLine(Line("renameat", TRUE, "", "", "in", "in")) = {"rename"}
    BY DEF ParseAuditLine, Line, InRoot, IsTmp, Makes, Making
<1>7. ParseAuditLine(Line("unlinkat", TRUE, "", "", "", "in")) = {"delete"}
    BY DEF ParseAuditLine, Line, InRoot, IsTmp, Makes, Making
<1>8. ParseAuditLine(Line("unlinkat", FALSE, "", "", "", "in")) = {}
    BY DEF ParseAuditLine, Line, InRoot, IsTmp, Makes, Making
<1>9. ParseAuditLine(Line("unlinkat", TRUE, "", "", "", "out")) = {}
    BY DEF ParseAuditLine, Line, InRoot, IsTmp, Makes, Making
<1> QED  BY <1>1, <1>2, <1>3, <1>4, <1>5, <1>6, <1>7, <1>8, <1>9

\* One line of an operation at most stands for it.
OneMeans(o) ==
    \A k, m \in 1 .. Len(Transcript(o)) :
        ParseAuditLine(Transcript(o)[k]) # {} =>
            /\ ParseAuditLine(Transcript(o)[k]) = Means(o)
            /\ ParseAuditLine(Transcript(o)[m]) # {} => k = m

\* A transcript of one line has one that counts at most.
LEMMA OneLine ==
    ASSUME NEW o, NEW x, Transcript(o) = <<x>>, ParseAuditLine(x) \in {{}, Means(o)}
    PROVE  OneMeans(o)
<1>1. Len(<<x>>) = 1 /\ <<x>>[1] = x /\ \A k \in 1 .. 1 : k = 1
    OBVIOUS
<1> QED  BY <1>1, Zenon DEF OneMeans

\* So has one of two lines of which the first says nothing.
LEMMA TwoLines ==
    ASSUME NEW o, NEW x, NEW y, Transcript(o) = <<x, y>>,
           ParseAuditLine(x) = {}, ParseAuditLine(y) = Means(o)
    PROVE  OneMeans(o)
<1>1. /\ Len(<<x, y>>) = 2 /\ <<x, y>>[1] = x /\ <<x, y>>[2] = y
      /\ \A k \in 1 .. 2 : k = 1 \/ k = 2
    OBVIOUS
<1> QED  BY <1>1, Zenon DEF OneMeans

\* And one of three lines of which the middle one counts.
LEMMA ThreeLines ==
    ASSUME NEW o, NEW x, NEW y, NEW z, Transcript(o) = <<x, y, z>>,
           ParseAuditLine(x) = {}, ParseAuditLine(y) = Means(o), ParseAuditLine(z) = {}
    PROVE  OneMeans(o)
<1>1. /\ Len(<<x, y, z>>) = 3 /\ <<x, y, z>>[1] = x /\ <<x, y, z>>[2] = y /\ <<x, y, z>>[3] = z
      /\ \A k \in 1 .. 3 : k = 1 \/ k = 2 \/ k = 3
    OBVIOUS
<1> QED  BY <1>1, Zenon DEF OneMeans

\* Of what smbd writes for an operation one line at most stands for it.
LEMMA Meaning ==
    ASSUME NEW o \in Ops
    PROVE  OneMeans(o)
<1>1. o \in {"mkdir", "create", "open", "rename", "delete", "denied", "outside"}
    BY ActivityConstants
<1>2. /\ Means("mkdir") = {"mkdir"} /\ Means("create") = {"create"} /\ Means("open") = {}
      /\ Means("rename") = {"rename"} /\ Means("delete") = {"delete"}
      /\ Means("denied") = {} /\ Means("outside") = {}
    BY DEF Means
<1>3. OneMeans("mkdir")
    BY <1>2, Transcripts, Parses, ThreeLines
<1>4. OneMeans("rename")
    BY <1>2, Transcripts, Parses, TwoLines
<1>5. /\ OneMeans("create") /\ OneMeans("open") /\ OneMeans("delete")
      /\ OneMeans("denied") /\ OneMeans("outside")
    BY <1>2, Transcripts, Parses, OneLine
<1> QED  BY <1>1, <1>3, <1>4, <1>5

\* With no line half-written, none of those still to be written has a piece.
LEMMA NothingHalf ==
    ASSUME LogTyped, Written, ~HalfWritten, NEW i \in Inodes, NEW p \in 1 .. Len(log[i]),
           log[i][p].id = Len(done)
    PROVE  log[i][p].left # Len(todo)
<1>1. SUFFICES ASSUME log[i][p].left = Len(todo) PROVE FALSE
    OBVIOUS
<1>2. i = path /\ p = Len(log[i]) /\ log[i][p].part = "head"
    BY <1>1 DEF Written
<1>3. path # None /\ log[path] \in Seq(LogPieces)
    BY <1>2, TimesAreInts DEF LogTyped
<1>4. log[path] # << >>
    BY <1>2, <1>3
<1> QED  BY <1>2, <1>3, <1>4 DEF HalfWritten, Last

\* What smbd writes, where.
Wrote(part) ==
    /\ path \in Inodes
    /\ log' = [log EXCEPT ![path] =
                  Append(log[path], [id |-> Len(done), left |-> Len(todo), part |-> part])]

\* Writing adds a piece at the end of the log that is at its path.
LEMMA LogGrows ==
    ASSUME LogTyped, NEW part \in {"all", "rest", "head"}, Wrote(part)
    PROVE  /\ \A i \in Inodes : Len(log[i]) \in Nat
           /\ Len(log'[path]) = Len(log[path]) + 1
           /\ log'[path][Len(log[path]) + 1]
                = [id |-> Len(done), left |-> Len(todo), part |-> part]
           /\ \A p \in 1 .. Len(log[path]) : log'[path][p] = log[path][p]
           /\ \A i \in Inodes : i # path => log'[i] = log[i]
<1> DEFINE new == [id |-> Len(done), left |-> Len(todo), part |-> part]
           s == log[path]
<1>1. s \in Seq(LogPieces) /\ new \in LogPieces /\ \A i \in Inodes : Len(log[i]) \in Nat
    BY DEF Wrote, LogTyped, LogPieces
<1>2. log'[path] = Append(s, new) /\ \A i \in Inodes : i # path => log'[i] = log[i]
    BY DEF Wrote, LogTyped
<1> HIDE DEF new, s
<1>3. /\ Len(Append(s, new)) = Len(s) + 1 /\ Append(s, new)[Len(s) + 1] = new
      /\ \A p \in 1 .. Len(s) : Append(s, new)[p] = s[p]
    BY <1>1
<1> QED  BY <1>1, <1>2, <1>3 DEF new, s

\* What smbd writes is the next of its lines, or the other half of the one begun.
LEMMA WriteStep ==
    ASSUME LogTyped, SmbWrites
    PROVE  \E part \in {"all", "rest", "head"} :
              /\ Wrote(part)
              /\ part # "rest" => ~HalfWritten
              /\ done' = done /\ path' = path /\ Len(done) \in Nat /\ Len(done) > 0
              /\ Len(todo) \in Nat /\ Len(todo) > 0
              /\ Len(todo) <= Len(Transcript(done[Len(done)]))
              /\ Len(Transcript(done[Len(done)])) \in Nat
              /\ Len(todo') = IF part = "head" THEN Len(todo) ELSE Len(todo) - 1
<1>1. PICK part \in {"all", "rest", "head"} :
          /\ part # "rest" => ~HalfWritten
          /\ log' = [log EXCEPT ![path] =
                        Append(@, [id |-> Len(done), left |-> Len(todo), part |-> part])]
          /\ todo' = IF part = "head" THEN todo ELSE Tail(todo)
    BY DEF SmbWrites
<1>2. Wrote(part)
    BY <1>1 DEF SmbWrites, Wrote, LogTyped
<1>3. todo \in Seq(Lines) /\ todo # << >> /\ Len(done) \in Nat /\ Len(done) > 0
      /\ Len(todo) <= Len(Transcript(done[Len(done)])) /\ done[Len(done)] \in Ops
    BY DEF SmbWrites, LogTyped
<1>4. Len(todo) \in Nat /\ Len(todo) > 0 /\ Len(Tail(todo)) = Len(todo) - 1
    BY <1>3
<1>5. Len(Transcript(done[Len(done)])) \in Nat
    BY <1>3, TranscriptTyped
<1> QED  BY <1>1, <1>2, <1>3, <1>4, <1>5 DEF SmbWrites

\* Each piece stays of its line when an operation begins, writes or the log is rotated.
LEMMA WrittenHolds ==
    ASSUME LogTyped, Written, ActMove
    PROVE  Written'
<1>1. CASE UNCHANGED smbd
    BY <1>1 DEF smbd, Written
<1>2. ASSUME NEW o \in Ops, SmbOp(o) PROVE Written'
  <2>1. /\ log' = log /\ done' = Append(done, o) /\ done \in Seq(Ops) /\ Len(done) \in Nat
        /\ Len(done') = Len(done) + 1
      BY <1>2 DEF SmbOp, LogTyped
  <2>2. \A n \in 1 .. Len(done) : done'[n] = done[n] /\ n \in 1 .. Len(done') /\ n # Len(done')
      BY <2>1
  <2> QED  BY <2>1, <2>2 DEF Written
<1>3. CASE SmbWrites
  <2>1. PICK part \in {"all", "rest", "head"} :
              /\ Wrote(part)
              /\ part # "rest" => ~HalfWritten
              /\ done' = done /\ path' = path /\ Len(done) \in Nat /\ Len(done) > 0
              /\ Len(todo) \in Nat /\ Len(todo) > 0
              /\ Len(todo) <= Len(Transcript(done[Len(done)]))
              /\ Len(Transcript(done[Len(done)])) \in Nat
              /\ Len(todo') = IF part = "head" THEN Len(todo) ELSE Len(todo) - 1
      BY <1>3, WriteStep
  <2> DEFINE new == [id |-> Len(done), left |-> Len(todo), part |-> part]
  <2>2. /\ \A i \in Inodes : Len(log[i]) \in Nat
        /\ Len(log'[path]) = Len(log[path]) + 1
        /\ log'[path][Len(log[path]) + 1] = new
        /\ \A p \in 1 .. Len(log[path]) : log'[path][p] = log[path][p]
        /\ \A i \in Inodes : i # path => log'[i] = log[i]
      BY <2>1, LogGrows
  <2> SUFFICES ASSUME NEW i \in Inodes, NEW p \in 1 .. Len(log'[i])
               PROVE  LET l == log'[i][p]
                      IN /\ l.id \in 1 .. Len(done)
                         /\ l.left \in 1 .. Len(Transcript(done[l.id]))
                         /\ l.id = Len(done) => l.left >= Len(todo')
                         /\ l.id = Len(done) /\ l.left = Len(todo') =>
                               i = path /\ p = Len(log'[i]) /\ l.part = "head"
      BY <2>1 DEF Written
  <2>3. CASE i = path /\ p = Len(log[path]) + 1
    <3>1. new.id = Len(done) /\ new.left = Len(todo) /\ new.part = part
        OBVIOUS
    <3> HIDE DEF new
    <3>2. log'[i][p] = new /\ p = Len(log'[i])
        BY <2>2, <2>3
    <3> QED  BY <2>1, <2>3, <3>1, <3>2
  <2>4. CASE ~(i = path /\ p = Len(log[path]) + 1)
    <3> HIDE DEF new
    <3>1. p \in 1 .. Len(log[i]) /\ log'[i][p] = log[i][p]
        BY <2>1, <2>2, <2>4
    <3> DEFINE l == log[i][p]
    <3>2. /\ l.id \in 1 .. Len(done) /\ l.left \in 1 .. Len(Transcript(done[l.id]))
          /\ l.id = Len(done) => l.left >= Len(todo)
        BY <3>1 DEF Written
    <3>3. part = "head" => ~(l.id = Len(done) /\ l.left = Len(todo))
        BY <2>1, <3>1, NothingHalf
    <3>a. log[i] \in Seq(LogPieces)
        BY DEF LogTyped
    <3>b. l \in LogPieces
        BY <3>1, <3>a
    <3>4. l.left \in Nat
        BY <3>b DEF LogPieces
    <3> HIDE DEF l
    <3>5. log'[i][p] = l
        BY <3>1 DEF l
    <3> QED  BY <2>1, <3>2, <3>3, <3>4, <3>5
  <2> QED  BY <2>3, <2>4
<1>4. CASE RotateAway
    BY <1>4, NothingHalf DEF RotateAway, Written
<1>5. CASE MakeLog
    BY <1>5, TimesAreInts DEF MakeLog, Written
<1> QED  BY <1>1, <1>2, <1>3, <1>4, <1>5
            DEF ActMove, Unmoved, Shut, TailStep, TailStat, TailOpen,
            TailLook, TailEnd, TailRead, TailNote, TailEnds, Note, RecordNote, Tick, SmbdStep

\* No line is begun twice.
LEMMA DistinctHolds ==
    ASSUME LogTyped, Written, Distinct, ActMove
    PROVE  Distinct'
<1>1. CASE log' = log
    BY <1>1 DEF Distinct
<1>3. CASE SmbWrites
  <2>1. PICK part \in {"all", "rest", "head"} :
              /\ Wrote(part)
              /\ part # "rest" => ~HalfWritten
      BY <1>3, WriteStep
  <2> DEFINE new == [id |-> Len(done), left |-> Len(todo), part |-> part]
             At(i, p) == i = path /\ p = Len(log[path]) + 1
  <2>2. /\ \A i \in Inodes : Len(log[i]) \in Nat
        /\ Len(log'[path]) = Len(log[path]) + 1
        /\ log'[path][Len(log[path]) + 1] = new
        /\ \A p \in 1 .. Len(log[path]) : log'[path][p] = log[path][p]
        /\ \A i \in Inodes : i # path => log'[i] = log[i]
      BY <2>1, LogGrows
  <2>3. new.id = Len(done) /\ new.left = Len(todo) /\ new.part = part /\ path \in Inodes
      BY <2>1 DEF Wrote
  <2> HIDE DEF new
  <2>4. ASSUME NEW i \in Inodes, NEW p \in 1 .. Len(log'[i])
        PROVE  \/ At(i, p) /\ log'[i][p] = new
               \/ ~At(i, p) /\ p \in 1 .. Len(log[i]) /\ log'[i][p] = log[i][p]
      BY <2>2, <2>3
  <2>5. ASSUME NEW i \in Inodes, NEW p \in 1 .. Len(log[i]),
               log[i][p].id = new.id, log[i][p].left = new.left
        PROVE  new.part = "rest"
      BY <2>1, <2>3, <2>5, NothingHalf
  <2> SUFFICES ASSUME NEW i \in Inodes, NEW j \in Inodes,
                      NEW p \in 1 .. Len(log'[i]), NEW q \in 1 .. Len(log'[j]),
                      log'[i][p].part # "rest", log'[j][q].part # "rest",
                      log'[i][p].id = log'[j][q].id, log'[i][p].left = log'[j][q].left
               PROVE  i = j /\ p = q
      BY DEF Distinct
  <2>6. CASE At(i, p) /\ At(j, q)
      BY <2>6
  <2>7. CASE At(i, p) /\ ~At(j, q)
    <3> HIDE DEF At
    <3>1. log'[i][p] = new /\ q \in 1 .. Len(log[j]) /\ log'[j][q] = log[j][q]
        BY <2>4, <2>7
    <3> QED  BY <2>5, <3>1
  <2>8. CASE ~At(i, p) /\ At(j, q)
    <3> HIDE DEF At
    <3>1. log'[j][q] = new /\ p \in 1 .. Len(log[i]) /\ log'[i][p] = log[i][p]
        BY <2>4, <2>8
    <3> QED  BY <2>5, <3>1
  <2>9. CASE ~At(i, p) /\ ~At(j, q)
    <3> HIDE DEF At
    <3>1. /\ p \in 1 .. Len(log[i]) /\ log'[i][p] = log[i][p]
          /\ q \in 1 .. Len(log[j]) /\ log'[j][q] = log[j][q]
        BY <2>4, <2>9
    <3> QED  BY <3>1 DEF Distinct
  <2> QED  BY <2>6, <2>7, <2>8, <2>9
<1> QED  BY <1>1, <1>3 DEF ActMove, Unmoved, smbd, Shut, TailStep, TailStat, TailOpen, SmbOp,
            RotateAway, MakeLog,
            TailLook, TailEnd, TailRead, TailNote, TailEnds, Note, RecordNote, Tick, SmbdStep

\* What Tail has passed it does not come back to: it opens a log at its end.
LEMMA PassedStays ==
    ASSUME LogTyped, TailTyped, ActMove, NEW i \in Inodes, NEW p \in Nat, Passed(i, p)
    PROVE  Passed(i, p)'
<1>0. /\ Len(log[i]) \in Nat /\ p \in 1 .. Len(log[i]) /\ None \notin Inodes
      /\ tail.off \in Nat /\ tail.size \in Nat
    BY TimesAreInts DEF LogTyped, TailTyped, TailRecs, Passed
<1>1. CASE UNCHANGED <<log, path, tail>>
    BY <1>1 DEF Passed
<1>2. CASE SmbWrites
  <2>1. PICK part \in {"all", "rest", "head"} : Wrote(part) /\ path' = path
      BY <1>2, WriteStep
  <2>2. Len(log'[path]) = Len(log[path]) + 1 /\ (i # path => log'[i] = log[i])
      BY <2>1, LogGrows
  <2>3. p \in 1 .. Len(log'[i]) /\ tail' = tail
      BY <1>0, <1>2, <2>2 DEF SmbWrites
  <2> QED  BY <2>1, <2>3 DEF Passed
<1>3. CASE RotateAway
    BY <1>0, <1>3 DEF RotateAway, Passed
<1>4. CASE MakeLog
  <2>1. path' = i => log[i] = << >>
      BY <1>4 DEF MakeLog
  <2>2. path' # i
      BY <1>0, <2>1
  <2> QED  BY <1>4, <2>2 DEF MakeLog, Passed
<1>5. CASE TailStat
  <2>1. tail'.file = None /\ tail'.size = Len(log[path]) /\ log' = log /\ path' = path
      BY <1>5 DEF TailStat, TailTyped, TailRecs, smbd
  <2> QED  BY <1>0, <2>1 DEF Passed
<1>6. CASE TailOpen
  <2>1. tail.pc = "open" /\ tail.file = None /\ log' = log /\ path' = path
      BY <1>6 DEF TailOpen, TailTyped, smbd
  <2>2. CASE path = None
    <3>1. tail'.file = None /\ tail'.pc = "wait"
        BY <1>6, <2>1, <2>2 DEF TailOpen, TailTyped, TailRecs
    <3> QED  BY <1>0, <2>1, <3>1 DEF Passed
  <2>3. CASE path # None
    <3>1. tail'.file = path /\ tail'.pc = "look" /\ tail'.off = tail.size
        BY <1>6, <2>1, <2>3 DEF TailOpen, TailTyped, TailRecs, OpenAt
    <3> QED  BY <1>0, <2>1, <3>1 DEF Passed
  <2> QED  BY <2>2, <2>3
<1>7. CASE TailLook
  <2>1. log' = log /\ path' = path
      BY <1>7 DEF TailLook, smbd
  <2>2. CASE tail' = [tail EXCEPT !.pc = "read"]
    <3>1. tail'.file = tail.file /\ tail'.pc = "read" /\ tail'.off = tail.off
        BY <2>2 DEF TailTyped, TailRecs
    <3> QED  BY <2>1, <3>1 DEF Passed
  <2>3. CASE tail' = [Idle EXCEPT !.again = TRUE]
    <3>1. tail'.file = None /\ tail'.pc = "wait"
        BY <2>3 DEF Idle
    <3> QED  BY <1>0, <2>1, <3>1 DEF Passed
  <2> QED  BY <1>7, <2>2, <2>3 DEF TailLook
<1>8. CASE TailEnd \/ TailNote
  <2>1. /\ tail'.file = tail.file /\ tail'.pc \in {"wait", "read"}
        /\ tail'.off = tail.off \/ tail'.off = tail.off + 1
      BY <1>8 DEF TailEnd, TailNote, TailTyped, TailRecs
  <2>2. log' = log /\ path' = path
      BY <1>8 DEF TailEnd, TailNote, smbd
  <2> QED  BY <1>0, <2>1, <2>2 DEF Passed
<1>9. CASE TailRead
  <2>1. PICK n \in {1, 2} :
            /\ tail'.file = tail.file /\ tail'.pc \in {"read", "note"}
            /\ tail'.off = tail.off + n
      BY <1>9 DEF TailRead, TailTyped, TailRecs
  <2>2. log' = log /\ path' = path
      BY <1>9 DEF TailRead, smbd
  <2> QED  BY <1>0, <2>1, <2>2 DEF Passed
<1>10. CASE TailEnds
  <2>1. tail'.file = None /\ tail'.pc = "ended"
      BY <1>10 DEF TailEnds, Idle
  <2> QED  BY <1>0, <1>10, <2>1 DEF TailEnds, smbd, Passed
<1> QED  BY <1>1, <1>2, <1>3, <1>4, <1>5, <1>6, <1>7, <1>8, <1>9, <1>10
            DEF ActMove, Unmoved, smbd, Shut, TailStep, SmbOp, SmbdStep, Note, RecordNote, Tick

\* A piece of the log, and the line it is of, stay what they were.
LEMMA PieceStays ==
    ASSUME LogTyped, Written, ActMove, NEW i \in Inodes, NEW p \in 1 .. Len(log[i])
    PROVE  /\ p \in 1 .. Len(log'[i]) /\ log'[i][p] = log[i][p]
           /\ LineOf(log[i][p])' = LineOf(log[i][p])
<1>1. log[i][p].id \in 1 .. Len(done)
    BY DEF Written
<1>2. /\ p \in 1 .. Len(log'[i]) /\ log'[i][p] = log[i][p]
  <2>1. CASE SmbWrites
    <3>1. PICK part \in {"all", "rest", "head"} : Wrote(part)
        BY <2>1, WriteStep
    <3>2. /\ Len(log[i]) \in Nat /\ Len(log'[path]) = Len(log[path]) + 1
          /\ \A q \in 1 .. Len(log[path]) : log'[path][q] = log[path][q]
          /\ i # path => log'[i] = log[i]
        BY <3>1, LogGrows
    <3> QED  BY <3>2
  <2>2. CASE log' = log
      BY <2>2
  <2> QED  BY <2>1, <2>2 DEF ActMove, Unmoved, smbd, Shut, TailStep, TailStat, TailOpen, SmbOp,
              RotateAway, MakeLog,
              TailLook, TailEnd, TailRead, TailNote, TailEnds, Note, RecordNote, Tick, SmbdStep
<1>3. done'[log[i][p].id] = done[log[i][p].id]
  <2>1. ASSUME NEW o \in Ops, SmbOp(o) PROVE done'[log[i][p].id] = done[log[i][p].id]
    <3>1. done' = Append(done, o) /\ done \in Seq(Ops)
        BY <2>1 DEF SmbOp, LogTyped
    <3> QED  BY <1>1, <3>1
  <2>2. CASE done' = done
      BY <2>2
  <2> QED  BY <2>1, <2>2 DEF ActMove, Unmoved, smbd, Shut, TailStep, TailStat, TailOpen,
              RotateAway, MakeLog, SmbWrites,
              TailLook, TailEnd, TailRead, TailNote, TailEnds, Note, RecordNote, Tick, SmbdStep
<1>4. LineOf(log[i][p])' = LineOf(log[i][p])
    BY <1>2, <1>3 DEF LineOf
<1> QED  BY <1>2, <1>4

\* An event keeps the line it was made of.
LEMMA SourceStays ==
    ASSUME LogTyped, TailTyped, Written, ActMove, NEW e, Source(e)
    PROVE  Source(e)'
<1>0. PICK i \in Inodes : \E p \in 1 .. Len(log[i]) :
          /\ Passed(i, p)
          /\ log[i][p].part # "rest" /\ log[i][p].id = e.id
          /\ ParseAuditLine(LineOf(log[i][p])) = {e.action}
    BY DEF Source
<1>1. PICK p \in 1 .. Len(log[i]) :
          /\ Passed(i, p)
          /\ log[i][p].part # "rest" /\ log[i][p].id = e.id
          /\ ParseAuditLine(LineOf(log[i][p])) = {e.action}
    BY <1>0
<1>2. p \in Nat /\ Passed(i, p)'
    BY <1>1, PassedStays
<1>3. /\ p \in 1 .. Len(log'[i]) /\ log'[i][p] = log[i][p]
      /\ LineOf(log[i][p])' = LineOf(log[i][p])
    BY PieceStays
<1>4. LineOf(log[i][p])' = LineOf(log[i][p])
    BY <1>3
<1>5. ParseAuditLine(LineOf(log[i][p]))' = {e.action}
    BY <1>1, <1>4 DEF ParseAuditLine, Makes, Making
<1> QED  BY <1>1, <1>2, <1>3, <1>5 DEF Source

\* The line of an event on record has been passed, whichever piece of it is named.
LEMMA LineUnread ==
    ASSUME LogTyped, Written, Distinct, NEW x, NEW e, Source(x), x.id = e.id,
           NEW i \in Inodes, NEW p \in 1 .. Len(log[i]),
           log[i][p].part # "rest", log[i][p].id = e.id,
           ParseAuditLine(LineOf(log[i][p])) # {}
    PROVE  Passed(i, p)
<1>0. PICK j \in Inodes : \E q \in 1 .. Len(log[j]) :
          /\ Passed(j, q)
          /\ log[j][q].part # "rest" /\ log[j][q].id = x.id
          /\ ParseAuditLine(LineOf(log[j][q])) = {x.action}
    BY DEF Source
<1>1. PICK q \in 1 .. Len(log[j]) :
          /\ Passed(j, q)
          /\ log[j][q].part # "rest" /\ log[j][q].id = x.id
          /\ ParseAuditLine(LineOf(log[j][q])) = {x.action}
    BY <1>0
<1> DEFINE a == log[i][p]
           b == log[j][q]
           o == done[a.id]
           L == Len(Transcript(o))
<1>2. /\ a.id \in 1 .. Len(done) /\ a.left \in 1 .. L
      /\ b.id = a.id /\ b.left \in 1 .. L
    BY <1>1 DEF Written
<1>3. o \in Ops
    BY <1>2 DEF LogTyped
<1>4. L \in Nat /\ OneMeans(o)
    BY <1>3, TranscriptTyped, Meaning
<1>5. /\ LineOf(a) = Transcript(o)[L - a.left + 1]
      /\ LineOf(b) = Transcript(o)[L - b.left + 1]
    BY <1>2 DEF LineOf
<1>6. ParseAuditLine(LineOf(a)) # {} /\ ParseAuditLine(LineOf(b)) # {}
    BY <1>1
<1> HIDE DEF L, o
<1>7. L - a.left + 1 \in 1 .. L /\ L - b.left + 1 \in 1 .. L
  <2>1. \A n \in 1 .. L : L - n + 1 \in 1 .. L
      BY <1>4
  <2> QED  BY <1>2, <2>1
<1>8. L - a.left + 1 = L - b.left + 1
  <2> DEFINE k == L - a.left + 1
             m == L - b.left + 1
  <2>1. k \in 1 .. L /\ m \in 1 .. L
      BY <1>7
  <2>2. ParseAuditLine(Transcript(o)[k]) # {} /\ ParseAuditLine(Transcript(o)[m]) # {}
      BY <1>5, <1>6
  <2> HIDE DEF k, m
  <2>3. k = m
      BY <1>4, <2>1, <2>2 DEF OneMeans, L
  <2> QED  BY <2>3 DEF k, m
<1>9. a.left = b.left
    BY <1>2, <1>4, <1>8
<1>10. i = j /\ p = q
    BY <1>1, <1>2, <1>9 DEF Distinct
<1> QED  BY <1>1, <1>10

\* What Tail makes of a line it has just read is not on record yet.
LEMMA ReadIsSourced ==
    ASSUME LogTyped, TailTyped, Written, Distinct, Filed, Sourced, TailRead, tail'.pc = "note",
           tail'.event.action # "cut"
    PROVE  Fresh(tail.event)'
<1>1. tail.pc = "read" /\ Unread # << >> /\ log' = log /\ path' = path /\ done' = done
    BY DEF TailRead, smbd
<1>f. PICK f \in Inodes : f = tail.file
    BY <1>1 DEF TailTyped, TailRecs
<1>p. PICK p \in Nat : p = tail.off + 1
    BY DEF TailTyped, TailRecs
<1>h. PICK h : h = Head(Unread)
    OBVIOUS
<1>2. f = tail.file /\ p \in 1 .. Len(log[f]) /\ h = log[f][p] /\ p = tail.off + 1
      /\ tail.off \in Nat
    BY <1>1, <1>f, <1>p, <1>h, NextPiece DEF TailTyped, TailRecs
<1>3. PICK n \in {1, 2}, actions \in Parsed(h) :
            tail' = [tail EXCEPT
                    !.off = @ + n, !.size = @ + n,
                    !.pc = IF actions = {} THEN "read" ELSE "note",
                    !.event = IF actions = {} THEN None
                              ELSE [at |-> now, id |-> h.id,
                                    action |-> CHOOSE a \in actions : TRUE]]
    BY <1>h DEF TailRead
<1> DEFINE act == CHOOSE a \in actions : TRUE
<1>4. /\ actions # {} /\ tail'.file = f /\ tail'.off = tail.off + n /\ tail'.pc = "note"
      /\ tail'.event = [at |-> now, id |-> h.id, action |-> act]
    BY <1>2, <1>3 DEF TailTyped, TailRecs
<1>5. tail'.event.id = h.id /\ tail'.event.action = act /\ act # "cut"
    BY <1>4
<1>6. h.part # "rest" /\ actions = ParseAuditLine(LineOf(h))
  <2>1. h.part = "rest" => actions = {} \/ actions = {"cut"}
      BY DEF Parsed
  <2>2. actions = {"cut"} => act = "cut"
      BY Zenon
  <2> QED  BY <1>4, <1>5, <2>1, <2>2 DEF Parsed
<1>7. actions = {act}
  <2>1. ParseAuditLine(LineOf(h)) \in {{}, {"delete"}, {"mkdir"}, {"rename"}, {"create"}}
      BY DEF ParseAuditLine
  <2>2. PICK c : actions = {c}
      BY <1>4, <1>6, <2>1
  <2> QED  BY <2>2
<1> HIDE DEF act
<1>8. Source(tail.event)'
  <2>1. Passed(f, p)'
      BY <1>1, <1>2, <1>4 DEF Passed
  <2>2. log'[f][p] = h /\ p \in 1 .. Len(log'[f])
      BY <1>1, <1>2
  <2>3. LineOf(log[f][p])' = LineOf(h)
      BY <1>1, <2>2 DEF LineOf
  <2>4. ParseAuditLine(LineOf(log[f][p]))' = ParseAuditLine(LineOf(h))
      BY <2>3 DEF ParseAuditLine, Makes, Making
  <2>5. ParseAuditLine(LineOf(log[f][p]))' = {tail'.event.action}
      BY <1>5, <1>6, <1>7, <2>4
  <2> QED  BY <1>2, <1>5, <1>6, <2>1, <2>2, <2>5 DEF Source
<1>9. ASSUME NEW d \in DOMAIN files, NEW i \in 1 .. Len(files[d]), Smb(EventAt(d, i)),
             EventAt(d, i).id = h.id
      PROVE  FALSE
  <2>1. Source(EventAt(d, i))
      BY <1>9 DEF Sourced, OnRecord
  <2>2. ParseAuditLine(LineOf(log[f][p])) # {}
      BY <1>2, <1>4, <1>6
  <2>3. Passed(f, p)
    <3> DEFINE e == h
    <3>1. log[f][p].part # "rest" /\ log[f][p].id = e.id
        BY <1>2, <1>6
    <3> HIDE DEF e
    <3> QED  BY <1>2, <1>9, <2>1, <2>2, <3>1, LineUnread DEF e
  <2> QED  BY <1>2, <2>3 DEF Passed
<1>10. files' = files
    BY DEF TailRead, store
<1>11. \A d \in DOMAIN files : \A i \in 1 .. Len(files[d]) :
          Smb(EventAt(d, i)) => EventAt(d, i).id # tail'.event.id
    BY <1>5, <1>9
<1> QED  BY <1>8, <1>10, <1>11 DEF Fresh, EventAt

\* An event on record keeps its line through a step.
LEMMA SourcedStays ==
    ASSUME LogTyped, TailTyped, Written, OnRecord, ActMove,
           NEW d \in DOMAIN files, NEW i \in 1 .. Len(files[d]), Smb(EventAt(d, i)),
           NEW x, x = EventAt(d, i)
    PROVE  Source(x)'
BY SourceStays DEF OnRecord

\* Recording the event of a line that has none yet, or one that does not count,
\* leaves each event its own line.
LEMMA RecordSourced ==
    ASSUME LogTyped, TailTyped, Written, Filed, OnRecord, ActMove,
           NEW e, e \in Events, Record(e), Smb(e) => Fresh(e)
    PROVE  OnRecord'
<1> DEFINE D == Day(e.at)
           L == Len(Opened(D)) + 1
           Old(d, i) == d \in DOMAIN files /\ i \in 1 .. Len(files[d])
                        /\ EventAt(d, i)' = EventAt(d, i)
           New(d, i) == d = D /\ i = L /\ EventAt(d, i)' = e
<1>1. ASSUME NEW d \in DOMAIN files', NEW i \in 1 .. Len(files'[d])
      PROVE  Old(d, i) \/ New(d, i)
  <2>1. i \in Nat
      OBVIOUS
  <2> QED  BY <2>1, RecordPieces DEF EventAt
<1> HIDE DEF D, L
<1>3. ASSUME NEW d \in DOMAIN files', NEW i \in 1 .. Len(files'[d]), Smb(EventAt(d, i)')
      PROVE  Source(EventAt(d, i))'
  <2>1. PICK x : x = EventAt(d, i)'
      OBVIOUS
  <2>2. CASE Old(d, i)
    <3>1. Source(x)'
        BY <1>3, <2>1, <2>2, SourcedStays
    <3> QED  BY <2>1, <3>1 DEF Source
  <2>3. CASE New(d, i)
    <3>1. Source(x)'
        BY <1>3, <2>1, <2>3, SourceStays DEF Fresh
    <3> QED  BY <2>1, <3>1 DEF Source
  <2> QED  BY <1>1, <2>2, <2>3
<1>4. ASSUME NEW d \in DOMAIN files', NEW c \in DOMAIN files',
             NEW i \in 1 .. Len(files'[d]), NEW j \in 1 .. Len(files'[c]),
             Smb(EventAt(d, i)'), Smb(EventAt(c, j)'),
             EventAt(d, i)'.id = EventAt(c, j)'.id
      PROVE  d = c /\ i = j
  <2>1. CASE Old(d, i) /\ Old(c, j)
      BY <1>4, <2>1 DEF OnRecord
  <2>2. CASE New(d, i) /\ New(c, j)
      BY <2>2
  <2>3. CASE Old(d, i) /\ New(c, j)
      BY <1>4, <2>3 DEF Fresh
  <2>4. CASE New(d, i) /\ Old(c, j)
      BY <1>4, <2>4 DEF Fresh
  <2> QED  BY <1>1, <2>1, <2>2, <2>3, <2>4
<1> QED  BY <1>3, <1>4 DEF OnRecord, Smb

\* Each event on record keeps its line, and no two have one.
LEMMA SourcedHolds ==
    ASSUME OnceTyped, Sourced, ActMove
    PROVE  Sourced'
<1>0. LogTyped /\ TailTyped /\ Filed /\ Timed /\ Written /\ Distinct /\ OnRecord
    BY DEF OnceTyped, StoreInv, Sourced
<1>1. files' = files => OnRecord'
  <2>0. SUFFICES ASSUME files' = files PROVE OnRecord'
      OBVIOUS
  <2>1. ASSUME NEW d \in DOMAIN files', NEW i \in 1 .. Len(files'[d]), Smb(EventAt(d, i)')
        PROVE  Source(EventAt(d, i))'
    <3>1. PICK x : x = EventAt(d, i)'
        OBVIOUS
    <3>2. x = EventAt(d, i) /\ d \in DOMAIN files /\ i \in 1 .. Len(files[d])
        BY <2>0, <3>1 DEF EventAt
    <3>3. Source(x)'
        BY <1>0, <2>1, <3>1, <3>2, SourcedStays
    <3> QED  BY <3>1, <3>3 DEF Source
  <2> QED  BY <1>0, <2>0, <2>1 DEF OnRecord, Smb, EventAt
<1>2. CASE files' = files /\ tail'.pc # "note"
    BY <1>1, <1>2 DEF Sourced
<1>3. CASE files' = files /\ tail' = tail
  <2> SUFFICES ASSUME tail'.pc = "note", tail'.event.action # "cut" PROVE Fresh(tail.event)'
      BY <1>1, <1>3 DEF Sourced
  <2>1. PICK x : x = tail.event
      OBVIOUS
  <2>2. Fresh(x)
      BY <1>3, <2>1 DEF Sourced
  <2>3. Source(x)'
      BY <1>0, <2>2, SourceStays DEF Fresh
  <2>4. Fresh(x)'
      BY <1>3, <2>2, <2>3 DEF Fresh, EventAt
  <2>5. x = tail'.event
      BY <1>3, <2>1
  <2> QED  BY <2>4, <2>5 DEF Fresh, Source
<1>4. CASE TailRead
  <2>1. files' = files
      BY <1>4 DEF TailRead, store
  <2> QED  BY <1>0, <1>1, <1>4, <2>1, ReadIsSourced DEF Sourced
<1>5. CASE TailNote
  <2>1. tail.event \in Events /\ Record(tail.event)
      BY <1>0, <1>5 DEF TailNote, Timed
  <2>2. Smb(tail.event) => Fresh(tail.event)
      BY <1>5 DEF TailNote, Sourced, Smb
  <2>3. PICK e : e = tail.event
      OBVIOUS
  <2>4. OnRecord'
      BY <1>0, <2>1, <2>2, <2>3, RecordSourced
  <2>5. tail'.pc = "read"
      BY <1>0, <1>5 DEF TailNote, TailTyped, TailRecs
  <2> QED  BY <2>4, <2>5 DEF Sourced
<1>6. ASSUME NEW w \in Writers, RecordNote(w) PROVE Sourced'
  <2>1. PICK e : e = note[w]
      OBVIOUS
  <2>2. e \in Events /\ Record(e) /\ tail' = tail
      BY <1>0, <1>6, <2>1 DEF RecordNote, Timed
  <2>3. ~Smb(e)
    <3>1. e.id > MaxOps /\ e.id \in Nat
        BY <1>6, <2>1, <2>2 DEF RecordNote, OnceTyped, Numbered, Events
    <3> QED  BY <3>1, TimesAreInts DEF Smb
  <2>4. OnRecord'
      BY <1>0, <2>2, <2>3, RecordSourced
  <2> SUFFICES ASSUME tail'.pc = "note", tail'.event.action # "cut" PROVE Fresh(tail.event)'
      BY <2>4 DEF Sourced
  <2>5. PICK x : x = tail.event
      OBVIOUS
  <2>6. Fresh(x)
      BY <2>2, <2>5 DEF Sourced
  <2>7. Source(x)'
      BY <1>0, <2>6, SourceStays DEF Fresh
  <2>8. ASSUME NEW d \in DOMAIN files', NEW i \in 1 .. Len(files'[d]), Smb(EventAt(d, i)')
        PROVE  EventAt(d, i)'.id # x.id
    <3>1. i \in Nat
        OBVIOUS
    <3>2. \/ d \in DOMAIN files /\ i \in 1 .. Len(files[d]) /\ files'[d][i] = files[d][i]
          \/ files'[d][i].event = e
        BY <1>0, <2>2, <3>1, RecordPieces
    <3> QED  BY <2>3, <2>6, <2>8, <3>2 DEF Fresh, EventAt
  <2>9. Fresh(x)'
      BY <2>7, <2>8 DEF Fresh, Smb
  <2>10. x = tail'.event
      BY <2>2, <2>5
  <2> QED  BY <2>9, <2>10 DEF Fresh, Source
<1>7. CASE TailStat \/ TailOpen \/ TailLook \/ TailEnd \/ TailEnds
  <2>1. files' = files
      BY <1>7 DEF TailStat, TailOpen, TailLook, TailEnd, TailEnds, store
  <2>2. tail'.pc # "note"
      BY <1>0, <1>7
         DEF TailStat, TailOpen, TailLook, TailEnd, TailEnds, Idle, TailTyped, TailRecs
  <2> QED  BY <1>2, <2>1, <2>2
<1>8. CASE Unmoved \/ Shut \/ (\E w \in Writers : Note(w)) \/ Tick \/ SmbdStep
    BY <1>3, <1>8 DEF Shut, Note, Tick, SmbdStep, SmbOp, SmbWrites, RotateAway, MakeLog,
        store, Unmoved
<1> QED  BY <1>4, <1>5, <1>6, <1>7, <1>8 DEF ActMove, TailStep

\* The requests of the web go on numbering beyond the operations.
LEMMA NumberedHolds ==
    ASSUME StoreInv, Numbered, ActMove
    PROVE  Numbered'
<1>1. CASE note' = note
    BY <1>1 DEF Numbered
<1>2. ASSUME NEW w \in Writers, RecordNote(w) PROVE Numbered'
  <2>1. note' = [note EXCEPT ![w] = None]
      BY <1>2 DEF RecordNote
  <2> QED  BY <2>1 DEF Numbered, StoreInv, Timed
<1>3. ASSUME NEW w \in Writers, Note(w) PROVE Numbered'
  <2> DEFINE n == MaxOps + notes + 1
             e == [at |-> now, action |-> "web", id |-> n]
  <2>1. n > MaxOps /\ e.id = n
      BY TimesAreInts DEF StoreInv, Timed
  <2>2. note' = [note EXCEPT ![w] = e]
      BY <1>3 DEF Note
  <2> HIDE DEF e, n
  <2> QED  BY <2>1, <2>2 DEF Numbered, StoreInv, Timed
<1> QED  BY <1>1, <1>2, <1>3 DEF ActMove, Unmoved, web, Shut, TailStep, TailStat, TailOpen,
            TailLook, TailEnd, TailRead, TailNote, TailEnds, Tick, SmbdStep, SmbOp, SmbWrites,
            RotateAway, MakeLog

\* At the start nothing is on record and nothing in the log.
LEMMA OnceStart ==
    ASSUME Init
    PROVE  OnceInv
<1>1. LogTyped /\ TailTyped /\ StoreInv
    BY ActStart
<1>2. /\ \A i \in Inodes : log[i] = << >> /\ Len(log[i]) = 0
      /\ DOMAIN files = {} /\ tail.pc \in {"wait", "off"}
  <2>1. flags.smb \in BOOLEAN
      BY FlagsShape DEF Init
  <2> QED  BY <2>1 DEF Init, ActInit, Idle
<1>3. Written /\ Distinct
    BY <1>2 DEF Written, Distinct
<1>4. Numbered
    BY DEF Init, ActInit, Numbered
<1>5. Sourced
    BY <1>2 DEF Sourced, OnRecord
<1> QED  BY <1>1, <1>3, <1>4, <1>5 DEF OnceInv, OnceTyped

\* For any operations, any number of log files and any bound on torn lines: an
\* operation over SMB is on record once at most and as what it was, but for what is
\* left of a line that was read in two (Tail, openLog, ParseAuditLine).
THEOREM OncePerLine == Spec => []OncePerOperation
<1>1. Init => OnceInv
    BY OnceStart
<1>2. OnceInv /\ [Next]_vars => OnceInv'
  <2> SUFFICES ASSUME OnceInv, [Next]_vars PROVE OnceInv'
      OBVIOUS
  <2>1. ActMove /\ LogTyped /\ TailTyped /\ StoreInv /\ Written /\ Distinct /\ Numbered
        /\ Sourced /\ Timed
      BY StepIsMove DEF OnceInv, OnceTyped, StoreInv
  <2>2. LogTyped' /\ TailTyped' /\ StoreInv'
      BY <2>1, LogTypesHold, TailTypesHold, StoreHolds
  <2>3. Written' /\ Distinct' /\ Numbered' /\ Sourced'
      BY <2>1, WrittenHolds, DistinctHolds, NumberedHolds, SourcedHolds DEF OnceTyped
  <2> QED  BY <2>2, <2>3 DEF OnceInv, OnceTyped
<1>3. ASSUME OnceInv PROVE OncePerOperation
  <2> DEFINE all == UNION {{<<d, i>> : i \in DOMAIN files[d]} : d \in DOMAIN files}
             E(x) == files[x[1]][x[2]].event
             smb == {x \in all : E(x).id <= MaxOps /\ E(x).action # "cut"}
  <2>1. ASSUME NEW d \in DOMAIN files, NEW i \in 1 .. Len(files[d]), Smb(EventAt(d, i))
        PROVE  EventAt(d, i).action \in Means(done[EventAt(d, i).id])
    <3>1. PICK e : e = EventAt(d, i)
        OBVIOUS
    <3>2. Source(e)
        BY <1>3, <2>1, <3>1 DEF OnceInv, Sourced, OnRecord
    <3>3. PICK j \in Inodes : \E p \in 1 .. Len(log[j]) :
              /\ Passed(j, p)
              /\ log[j][p].part # "rest" /\ log[j][p].id = e.id
              /\ ParseAuditLine(LineOf(log[j][p])) = {e.action}
        BY <3>2 DEF Source
    <3>4. PICK p \in 1 .. Len(log[j]) :
              log[j][p].id = e.id /\ ParseAuditLine(LineOf(log[j][p])) = {e.action}
        BY <3>3
    <3> DEFINE o == done[e.id]
               L == Len(Transcript(o))
               a == log[j][p]
    <3>5. e.id \in 1 .. Len(done) /\ a.left \in 1 .. L
        BY <1>3, <3>4 DEF OnceInv, OnceTyped, Written
    <3>6. o \in Ops
        BY <1>3, <3>5 DEF OnceInv, OnceTyped, LogTyped
    <3>7. L \in Nat /\ OneMeans(o)
        BY <3>6, TranscriptTyped, Meaning
    <3>8. LineOf(a) = Transcript(o)[L - a.left + 1]
        BY <3>4 DEF LineOf
    <3>9. PICK k \in 1 .. L : k = L - a.left + 1
      <4>1. \A n \in 1 .. L : L - n + 1 \in 1 .. L
          BY <3>7
      <4> QED  BY <3>5, <4>1
    <3>10. ParseAuditLine(Transcript(o)[k]) = {e.action}
        BY <3>4, <3>8, <3>9
    <3>11. {e.action} = Means(o)
        BY <3>7, <3>10 DEF OneMeans
    <3> QED  BY <3>1, <3>11
  <2>2. ASSUME NEW x \in smb
        PROVE  \E d \in DOMAIN files : \E i \in 1 .. Len(files[d]) :
                  x = <<d, i>> /\ E(x) = EventAt(d, i) /\ Smb(EventAt(d, i))
    <3>1. PICK d \in DOMAIN files : \E i \in DOMAIN files[d] : x = <<d, i>>
        OBVIOUS
    <3>2. PICK i \in DOMAIN files[d] : x = <<d, i>>
        BY <3>1
    <3>3. DOMAIN files[d] = 1 .. Len(files[d])
        BY <1>3 DEF OnceInv, OnceTyped, StoreInv, Filed
    <3>4. E(x) = EventAt(d, i)
        BY <3>2 DEF EventAt
    <3> QED  BY <3>2, <3>3, <3>4 DEF Smb
  <2> HIDE DEF smb, E
  <2>3. \A x \in smb : E(x).action \in Means(done[E(x).id])
      BY <2>1, <2>2
  <2>4. ASSUME NEW x \in smb, NEW y \in smb, E(x).id = E(y).id PROVE x = y
      BY <1>3, <2>2, <2>4 DEF OnceInv, Sourced, OnRecord
  <2> QED  BY <2>3, <2>4 DEF OncePerOperation, smb, E
<1> QED  BY <1>1, <1>2, <1>3, PTL DEF Spec
=============================================================================
