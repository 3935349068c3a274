---------------------------- MODULE HelperClient ----------------------------
(***************************************************************************)
(* internal/helperpool/client.go against internal/helper/helper.go: the    *)
(* calls in flight to one helper, the reader goroutine that matches its    *)
(* replies to them, and the descriptors that travel with the replies.      *)
(*                                                                         *)
(* A call is named by its request id (nextID never repeats one).  The      *)
(* helper serves each request in a goroutine of its own, so requests are a *)
(* set and replies leave in any order; the socket keeps the order they     *)
(* were sent in.                                                           *)
(***************************************************************************)
EXTENDS Naturals, Sequences, FiniteSets

CONSTANTS
    Calls,      \* the requests made over the client's life, by id
    GiveUps,    \* TRUE: a caller's context may end before the reply
    Breaks      \* TRUE: replies may be malformed or lose their descriptor

ASSUME ConstantsOK == {GiveUps, Breaks} \subseteq BOOLEAN

\* What a reply frame carries, as the reader finds it:
\*   plain      no descriptor, and does not claim one
\*   fd         claims a descriptor and has it
\*   truncated  claims one the kernel could not install (the server's table
\*              was full), so HasFD and the control message disagree
\*   malformed  does not parse
Kinds == {"plain", "fd"} \cup IF Breaks THEN {"truncated", "malformed"} ELSE {}
Replies == [id : Calls, kind : Kinds]

VARIABLES
    pc,         \* per call: where Client.Do is
    pending,    \* ids registered for a reply
    ch,         \* per call: its channel, of capacity one
    closed,     \* Client.closed
    reader,     \* the readLoop goroutine: "running" or "done"
    conn,       \* our end of the socket: "open" or "closed"
    helper,     \* the helper process: "serving" or "gone"
    requests,   \* requests it has been sent and not answered
    socket,     \* replies on their way, oldest first
    fds         \* per call: where the descriptor of its reply is

clientVars == <<pc, pending, ch, closed, reader, conn, helper, requests, socket, fds>>

client == <<pending, closed, reader>>

\* A channel holds nothing, one reply, or is closed (over what it holds).
Chans == {"empty", "reply", "closed"}

Places == {"none", "socket", "channel", "caller", "closed"}

ClientInit ==
    /\ pc = [c \in Calls |-> "new"]
    /\ pending = {}
    /\ ch = [c \in Calls |-> "empty"]
    /\ closed = FALSE
    /\ reader = "running"
    /\ conn = "open"
    /\ helper = "serving"
    /\ requests = {}
    /\ socket = <<>>
    /\ fds = [c \in Calls |-> "none"]

---------------------------------------------------------------------------
(* Client.Do                                                               *)

\* Mutant of Open: the call is registered without looking.
OpenUnchecked == TRUE
Open == ~ closed

Register(c) ==
    /\ pc[c] = "new"
    /\ IF Open
       THEN /\ pending' = pending \cup {c}
            /\ pc' = [pc EXCEPT ![c] = "registered"]
       ELSE /\ pc' = [pc EXCEPT ![c] = "failed"]
            /\ UNCHANGED pending
    /\ UNCHANGED <<ch, closed, reader, conn, helper, requests, socket, fds>>

\* The frame is sent, or the write fails and the id is taken back.
Send(c) ==
    /\ pc[c] = "registered"
    /\ IF conn = "open" /\ helper = "serving"
       THEN /\ requests' = requests \cup {c}
            /\ pc' = [pc EXCEPT ![c] = "waiting"]
            /\ UNCHANGED pending
       ELSE /\ pending' = pending \ {c}
            /\ pc' = [pc EXCEPT ![c] = "failed"]
            /\ UNCHANGED requests
    /\ UNCHANGED <<ch, closed, reader, conn, helper, socket, fds>>

\* Mutant of Taken: Do returns the response and forgets the file.
NotTaken(place) == place
Taken(place) == IF place = "channel" THEN "caller" ELSE place

\* The select: a reply, a closed channel, or the context.  When both are ready
\* Go takes either.
Return(c) ==
    /\ pc[c] = "waiting"
    /\ \/ /\ ch[c] = "reply"
          /\ pc' = [pc EXCEPT ![c] = "answered"]
          /\ ch' = [ch EXCEPT ![c] = "empty"]
          /\ fds' = [fds EXCEPT ![c] = Taken(@)]
       \/ /\ ch[c] = "closed"
          /\ pc' = [pc EXCEPT ![c] = "failed"]
          /\ UNCHANGED <<ch, fds>>
    /\ UNCHANGED <<client, conn, helper, requests, socket>>

GiveUp(c) ==
    /\ GiveUps
    /\ pc[c] = "waiting"
    /\ pc' = [pc EXCEPT ![c] = "gaveup"]
    /\ UNCHANGED <<client, ch, conn, helper, requests, socket, fds>>

---------------------------------------------------------------------------
(* The helper: Serve, serveOne, reply.                                     *)

\* Mutant of IdOf: the frame was marshalled before the id was set.
IdUnset(c) == 0
IdOf(c) == c

\* Mutant of Unserved: the same request is read again.
ServedAgain(c) == requests
Unserved(c) == requests \ {c}

Serve(c, kind) ==
    /\ helper = "serving"
    /\ c \in requests
    /\ requests' = Unserved(c)
    /\ IF conn = "open"
       THEN /\ socket' = Append(socket, [id |-> IdOf(c), kind |-> kind])
            /\ fds' = [fds EXCEPT ![c] = IF kind = "fd" THEN "socket" ELSE @]
       ELSE UNCHANGED <<socket, fds>>      \* the write's error is dropped
    /\ UNCHANGED <<pc, client, ch, conn, helper>>

\* Serve returns once the peer is gone; the process may also die at any time.
\* What it has already sent stays readable.
HelperEnds ==
    /\ helper = "serving"
    /\ helper' = "gone"
    /\ requests' = {}
    /\ UNCHANGED <<pc, client, ch, conn, socket, fds>>

---------------------------------------------------------------------------
(* readLoop and shutdown.                                                  *)

InSocket == {c \in Calls : fds[c] = "socket"}

\* Mutant of Forgotten: the reader stops and leaves the calls registered.
LeftRegistered == UNCHANGED <<pending, ch>>
Forgotten ==
    /\ ch' = [c \in Calls |-> IF c \in pending THEN "closed" ELSE ch[c]]
    /\ pending' = {}

\* The reader's last act, under the mutex: every registered call is failed.
Shutdown ==
    /\ closed' = TRUE
    /\ reader' = "done"
    /\ Forgotten

\* Mutant of Unregistered: the id stays in the map after its reply.
StaysRegistered(c) == pending
Unregistered(c) == pending \ {c}

\* A whole reply.  One whose id is registered goes to its channel, which has
\* room for it; any other is dropped and its descriptor closed.
Deliver(c) ==
    /\ reader = "running"
    /\ conn = "open"
    /\ socket # <<>>
    /\ Head(socket).id = c
    /\ Head(socket).kind \in {"plain", "fd"}
    /\ socket' = Tail(socket)
    /\ IF c \in pending
       THEN /\ pending' = Unregistered(c)
            /\ ch' = [ch EXCEPT ![c] = "reply"]
            /\ fds' = [fds EXCEPT ![c] = IF @ = "socket" THEN "channel" ELSE @]
       ELSE /\ fds' = [fds EXCEPT ![c] = IF @ = "socket" THEN "closed" ELSE @]
            /\ UNCHANGED <<pending, ch>>
    /\ UNCHANGED <<pc, closed, reader, conn, helper, requests>>

\* A frame that cannot be matched to a caller ends the connection.
Reject ==
    /\ reader = "running"
    /\ conn = "open"
    /\ socket # <<>>
    /\ Head(socket).kind \in {"truncated", "malformed"}
    /\ socket' = Tail(socket)
    /\ Shutdown
    /\ UNCHANGED <<pc, conn, helper, requests, fds>>

\* ReadMsgUnix fails: our end was closed, or the helper's was and nothing it
\* sent is left.
ReadFails ==
    /\ reader = "running"
    /\ conn = "closed" \/ (helper = "gone" /\ socket = <<>>)
    /\ Shutdown
    /\ UNCHANGED <<pc, conn, helper, requests, socket, fds>>

\* Client.Close (from Helper.Stop), which may be called with calls in flight:
\* the kernel discards what was not read, descriptors included.
Close ==
    /\ conn = "open"
    /\ conn' = "closed"
    /\ socket' = <<>>
    /\ fds' = [c \in Calls |-> IF c \in InSocket THEN "closed" ELSE fds[c]]
    /\ UNCHANGED <<pc, client, ch, helper, requests>>

---------------------------------------------------------------------------
Caller(c) == Register(c) \/ Send(c) \/ Return(c)

Reader == (\E c \in Calls : Deliver(c)) \/ Reject \/ ReadFails

Terminated ==
    /\ \A c \in Calls : pc[c] \in {"answered", "failed", "gaveup"}
    /\ reader = "done"
    /\ conn = "closed"
    /\ helper = "gone"
    /\ UNCHANGED clientVars

ClientNext ==
    \/ \E c \in Calls :
          \/ Caller(c) \/ GiveUp(c)
          \/ \E kind \in Kinds : Serve(c, kind)
    \/ HelperEnds
    \/ Reader
    \/ Close
    \/ Terminated

ClientSpec == ClientInit /\ [][ClientNext]_clientVars

\* The goroutines of the server run; nothing makes the helper answer, die or be
\* stopped, nor a context end.
FairClient == ClientSpec /\ WF_clientVars(Reader) /\ \A c \in Calls : WF_clientVars(Caller(c))

---------------------------------------------------------------------------
(* Properties.                                                             *)

ClientTypeOK ==
    /\ pc \in [Calls -> {"new", "registered", "waiting", "answered", "failed", "gaveup"}]
    /\ pending \subseteq Calls
    /\ ch \in [Calls -> Chans]
    /\ closed \in BOOLEAN
    /\ reader \in {"running", "done"}
    /\ conn \in {"open", "closed"}
    /\ helper \in {"serving", "gone"}
    /\ requests \subseteq Calls
    /\ socket \in Seq(Replies)
    /\ fds \in [Calls -> Places]

\* readLoop never sends on a channel that is closed or already full, which
\* would panic or block it for good: a registered call's channel is empty.
\* (client.go:103-115 and shutdown, 127-130.)
RegisteredIsEmpty == \A c \in pending : ch[c] = "empty"

\* Once the reader has stopped nobody waits for it: nothing is registered that
\* has been or will be sent (Do checks closed under the same mutex that
\* shutdown clears the map under, client.go:147-157, 119-131).
NobodyLeftBehind ==
    reader = "done" => \A c \in Calls : pc[c] = "waiting" => ch[c] # "empty"

\* Two calls never get each other's reply: what sits in a channel, and any
\* descriptor with it, was sent for that id and is nowhere else.
OneReplyEach ==
    \A c \in Calls :
        /\ Cardinality({i \in DOMAIN socket : socket[i].id = c}) <= 1
        /\ (\E i \in DOMAIN socket : socket[i].id = c) =>
               c \notin requests /\ ch[c] # "reply" /\ pc[c] # "answered"
        /\ c \in requests =>
               pc[c] \in {"waiting", "gaveup", "failed"} /\ ch[c] # "reply"

\* A descriptor that has been received has somebody who will close it: the
\* reader has dropped it, the caller has it, or a caller still waiting will
\* take it out of its channel.  Nobody closes the one a caller that gave up has
\* in its channel ("readLoop needs to find it in order to close any descriptor
\* that comes with it", client.go:177-178): no other may be in that place.
DescriptorOwned ==
    \A c \in Calls :
        fds[c] = "channel" => ch[c] = "reply" /\ pc[c] \in {"waiting", "gaveup"}

\* The calls, their channels and the socket agree at every moment.
Matched == ClientTypeOK /\ RegisteredIsEmpty /\ NobodyLeftBehind /\ OneReplyEach /\ DescriptorOwned

\* Closing the client, or losing the helper, ends every call in flight
\* ("shuts the connection down and fails every in-flight call",
\* client.go:61): none hangs on a helper that is not there.
NoCallOutlivesHelper ==
    \A c \in Calls :
        (conn = "closed" \/ helper = "gone") /\ pc[c] = "waiting" ~> pc[c] # "waiting"

=============================================================================
