------------------------------- MODULE UiProc -------------------------------
(***************************************************************************)
(* uiproc.Supervisor: one goroutine that keeps a `darak ui` child running  *)
(* on a listening socket of its own, the proxy in front of it, and the     *)
(* child.  How long a pause between two children is is left out.           *)
(***************************************************************************)
EXTENDS Naturals

CONSTANTS Asks       \* requests for the interface

VARIABLES
    sup,       \* where loop and runOne are; "off" without -ui-dir
    first,     \* loop's `first` is not nil: Start has not returned
    stop,      \* the channel `stop` is closed
    running,   \* Supervisor.running
    sock,      \* the listening socket is open
    child,     \* the process cmd stands for
    ask        \* per request: how far it is

supervisor == <<sup, first, stop, running>>
uiVars == <<supervisor, sock, child, ask>>

\* `done` is closed: loop has returned.
SupStates == {"off", "start", "started", "watch", "grace", "reap", "ended",
              "pause", "done"}
ChildStates == {"none", "starting", "serving", "leaving", "killed", "dead"}
Alive == {"starting", "serving", "leaving", "killed"}

\* "lost" is a request whose child died by itself; "cut" one that a child had
\* when it was told to go, or that was waiting when the socket was closed.
InHand == {"dial", "queued", "held"}
Over == {"none", "refused", "served", "lost", "cut"}

UiTypeOK ==
    /\ sup \in SupStates /\ child \in ChildStates
    /\ {first, stop, running, sock} \subseteq BOOLEAN
    /\ ask \in [Asks -> InHand \cup Over]

UiInit(on) ==
    /\ sup = IF on THEN "start" ELSE "off"
    /\ first = on /\ sock = on
    /\ stop = FALSE /\ running = FALSE
    /\ child = "none"
    /\ ask = [a \in Asks |-> "none"]

-----------------------------------------------------------------------------
\* A first child that cannot be started ends the loop, and with it Start.
FatalAlways == TRUE                    \* a bug: so does any later one
FatalStart == first

\* runOne: cmd.Start, which Start's caller hears of.
StartChild ==
    /\ sup = "start"
    /\ sup' = "started" /\ first' = FALSE
    /\ child' = "starting"
    /\ UNCHANGED <<stop, running, sock, ask>>

StartFails ==
    /\ sup = "start"
    /\ sup' = IF FatalStart THEN "done" ELSE "ended"
    /\ first' = FALSE
    /\ UNCHANGED <<stop, running, sock, child, ask>>

MarkRunning ==
    /\ sup = "started"
    /\ sup' = "watch" /\ running' = TRUE
    /\ UNCHANGED <<first, stop, sock, child, ask>>

\* runOne returns: cmd.Wait has.
RunOneReturns ==
    /\ sup' = "ended" /\ running' = FALSE /\ child' = "none"
    /\ UNCHANGED <<first, stop, sock, ask>>

Exited == sup = "watch" /\ child = "dead" /\ RunOneReturns

\* Close was called: SIGTERM, which a process that is gone does not get.
Terminate ==
    /\ sup = "watch" /\ stop
    /\ sup' = "grace"
    /\ child' = IF child = "dead" THEN child ELSE "leaving"
    /\ UNCHANGED <<first, stop, running, sock, ask>>

WaitOn ==                              \* a bug: the child is never killed
    FALSE /\ UNCHANGED uiVars

GiveUpOn ==                            \* a bug: it is killed and not waited for
    /\ sup = "grace"
    /\ sup' = "ended" /\ running' = FALSE
    /\ child' = IF child = "dead" THEN child ELSE "killed"
    /\ UNCHANGED <<first, stop, sock, ask>>

\* stopGrace has passed.
GraceOver ==
    /\ sup = "grace"
    /\ sup' = "reap"
    /\ child' = IF child = "dead" THEN child ELSE "killed"
    /\ UNCHANGED <<first, stop, running, sock, ask>>

Reaped == sup \in {"grace", "reap"} /\ child = "dead" /\ RunOneReturns

\* loop, after runOne.
Ended ==
    /\ sup = "ended"
    /\ sup' = IF stop THEN "done" ELSE "pause"
    /\ UNCHANGED <<first, stop, running, sock, child, ask>>

PauseOver ==
    /\ sup = "pause"
    /\ \/ sup' = "start"
       \/ stop /\ sup' = "done"
    /\ UNCHANGED <<first, stop, running, sock, child, ask>>

SupStep ==
    \/ StartChild \/ StartFails \/ MarkRunning \/ Exited \/ Terminate
    \/ GraceOver \/ Reaped \/ Ended \/ PauseOver

\* The second half of Close, once loop has returned; also of a failed Start.
CloseSocket ==
    /\ sock' = FALSE
    /\ ask' = [a \in Asks |-> IF ask[a] = "queued" THEN "cut" ELSE ask[a]]

-----------------------------------------------------------------------------
\* The child (cmd/darak/ui.go): it opens the directory and serves.  It may end
\* at any moment, and has to when it is killed; told to go it stops accepting
\* and finishes what it has, for five seconds.
ChildReady ==
    /\ child = "starting"
    /\ child' = "serving"
    /\ UNCHANGED <<supervisor, sock, ask>>

ChildEnds ==
    /\ child \in Alive
    /\ child' = "dead"
    /\ ask' = [a \in Asks |->
                 IF ask[a] # "held" THEN ask[a]
                 ELSE IF child \in {"leaving", "killed"} THEN "cut" ELSE "lost"]
    /\ UNCHANGED <<supervisor, sock>>

\* Proxy: not ready is an answer straight away.  Who gets past that connects to
\* the socket, which takes connections also while there is no child.
Ask(a) ==
    /\ ask[a] = "none"
    /\ ask' = [ask EXCEPT ![a] = IF running THEN "dial" ELSE "refused"]
    /\ UNCHANGED <<supervisor, sock, child>>

Dial(a) ==
    /\ ask[a] = "dial"
    /\ ask' = [ask EXCEPT ![a] = IF sock THEN "queued" ELSE "cut"]
    /\ UNCHANGED <<supervisor, sock, child>>

Accept(a) ==
    /\ ask[a] = "queued" /\ child = "serving"
    /\ ask' = [ask EXCEPT ![a] = "held"]
    /\ UNCHANGED <<supervisor, sock, child>>

Answer(a) ==
    /\ ask[a] = "held" /\ child \in {"serving", "leaving"}
    /\ ask' = [ask EXCEPT ![a] = "served"]
    /\ UNCHANGED <<supervisor, sock, child>>

AskStep(a) == Dial(a) \/ Accept(a) \/ Answer(a)

ChildStep == ChildReady \/ ChildEnds
=============================================================================
