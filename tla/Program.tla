------------------------------ MODULE Program ------------------------------
(***************************************************************************)
(* cmd/darak/main.go from start to exit, with the two components it starts *)
(* in the background and has to end in order: the supervisor of the        *)
(* interface, and the activity store with its Tail.  Both are optional.    *)
(***************************************************************************)
EXTENDS UiProc, ActivityLog

CONSTANTS Flags      \* configurations: what is on, and bounds of its own
                     \* [ui, acts, smb : BOOLEAN, ticks, notes : Nat,
                     \*  queries : what is asked of the record, <<since, limit>>]

ASSUME FlagsShape == Flags \subseteq [ui : BOOLEAN, acts : BOOLEAN, smb : BOOLEAN,
                                      ticks : Nat, notes : Nat,
                                      queries : SUBSET (Nat \X Nat)]

VARIABLES
    flags,     \* the one the program was started with
    phase,     \* where run is
    drained    \* Shutdown returned without its deadline passing

vars == <<uiVars, actVars, flags, phase, drained>>

Phases == {"boot", "up", "draining", "acts", "sup", "closing", "exited", "killed"}
Final == {"exited", "killed"}

\* The context of the background goroutines has ended.
Cancelled == phase \notin {"boot", "up"}

TypeOK ==
    /\ UiTypeOK
    /\ flags \in Flags /\ phase \in Phases /\ drained \in BOOLEAN
    /\ now \in 0 .. MaxNow
    /\ DOMAIN files \subseteq Days /\ cur \in DOMAIN files \cup {None}
    /\ path \in Inodes \cup {None}

Init ==
    /\ flags \in Flags
    /\ phase = "boot" /\ drained = FALSE
    /\ UiInit(flags.ui)
    /\ ActInit(flags.smb)

main == <<flags, phase, drained>>

\* uiproc.Start returns with its first child, or with that child's error.
Boot ==
    /\ phase = "boot" /\ ~first
    /\ IF sup = "done"
       THEN phase' = "exited" /\ CloseSocket
       ELSE phase' = "up" /\ UNCHANGED <<sock, ask>>
    /\ UNCHANGED <<flags, drained, supervisor, child, actVars>>

\* Something later in run fails: it returns, with its deferred calls.
BootFails ==
    /\ phase = "boot" /\ ~first /\ sup # "done"
    /\ phase' = "acts"
    /\ UNCHANGED <<flags, drained, uiVars, actVars>>

\* SIGTERM before NotifyContext, which is all but the last thing before serving:
\* the process is gone and no deferred call is made.  A child gets its Pdeathsig.
Unsignalled == child                                     \* a bug: without Pdeathsig
Orphaned == IF child \in Alive THEN "leaving" ELSE child

Killed ==
    /\ phase = "boot" /\ phase' = "killed"
    /\ child' = Orphaned
    /\ UNCHANGED <<flags, drained, supervisor, sock, ask, actVars>>

\* A bug: the interface is told to go before its requests are waited for.
SignalStops ==
    /\ phase = "up" /\ phase' = "draining"
    /\ stop' = flags.ui
    /\ UNCHANGED <<flags, drained, sup, first, running, sock, child, ask, actVars>>

\* SIGTERM: h.Shutdown, which lets in nobody and waits for who is there.
Signal ==
    /\ phase = "up" /\ phase' = "draining"
    /\ UNCHANGED <<flags, drained, uiVars, actVars>>

QuietUi == \A a \in Asks : ask[a] \in Over       \* a bug: work after an answer
Quiet == QuietUi /\ ~Asking /\ \A w \in Writers : note[w] = None

Drained ==
    /\ phase = "draining" /\ Quiet
    /\ phase' = "acts" /\ drained' = TRUE
    /\ UNCHANGED <<flags, uiVars, actVars>>

\* Thirty seconds, or a listener that failed: run returns with requests in flight.
NotDrained ==
    /\ phase \in {"up", "draining"}
    /\ phase' = "acts"
    /\ UNCHANGED <<flags, drained, uiVars, actVars>>

\* The deferred calls, last one first: the activity store, the supervisor, which
\* is waited for, the pool.
CloseActs ==
    /\ phase = "acts" /\ phase' = "sup"
    /\ cur' = None
    /\ UNCHANGED <<flags, drained, uiVars, now, files, acked, web, smbd, tail>>

CloseSup ==
    /\ phase = "sup" /\ phase' = "closing"
    /\ stop' = flags.ui
    /\ UNCHANGED <<flags, drained, sup, first, running, sock, child, ask, actVars>>

Exit ==
    /\ phase = "closing" /\ (flags.ui => sup = "done")
    /\ phase' = "exited"
    /\ CloseSocket
    /\ UNCHANGED <<flags, drained, supervisor, child, actVars>>

\* The process is gone.
Gone == phase \in Final /\ UNCHANGED vars

MainStep == Boot \/ Drained \/ CloseActs \/ CloseSup \/ Exit

Interface ==
    /\ \/ phase \notin Final /\ (SupStep \/ \E a \in Asks : AskStep(a))
       \/ phase # "exited" /\ ChildStep
    /\ UNCHANGED <<main, actVars>>

Activity ==
    /\ phase \notin {"boot"} \cup Final /\ flags.acts
    /\ \/ TailStep
       \/ Cancelled /\ TailEnds
       \/ \E w \in Writers : RecordNote(w)
       \/ QueryStep
       \/ now < flags.ticks /\ Tick
       \/ flags.smb /\ SmbdStep
    /\ UNCHANGED <<main, uiVars>>

Arrive ==
    /\ phase = "up"
    /\ \/ flags.ui /\ (\E a \in Asks : Ask(a)) /\ UNCHANGED actVars
       \/ flags.acts /\ notes < flags.notes /\ (\E w \in Writers : Note(w)) /\ UNCHANGED uiVars
       \/ flags.acts /\ (\E q \in flags.queries : ListDays(q[1], q[2])) /\ UNCHANGED uiVars
    /\ UNCHANGED main

Next ==
    \/ MainStep \/ BootFails \/ Killed \/ Signal \/ NotDrained
    \/ Interface \/ Activity \/ Arrive
    \/ Gone

Spec == Init /\ [][Next]_vars

\* main and the supervisor run on; a drain ends, by its deadline at the latest.
FairSpec ==
    /\ Spec
    /\ WF_vars(MainStep)
    /\ WF_vars(phase = "draining" /\ NotDrained)
    /\ WF_vars(phase \notin Final /\ SupStep /\ UNCHANGED <<main, actVars>>)
    /\ WF_vars(child = "killed" /\ ChildEnds /\ UNCHANGED <<main, actVars>>)
    /\ SF_vars(phase \notin Final /\ StartChild /\ UNCHANGED <<main, actVars>>)

-----------------------------------------------------------------------------
\* No child outlives the loop that started it, and no second one is started
\* beside it: runOne returns when the child has been waited for, whichever way
\* it was made to end; and one that is there when the process is killed is told to
\* go by the kernel (runOne, Close).
NoOrphan ==
    /\ sup \in {"off", "start", "ended", "pause", "done"} => child = "none"
    /\ phase = "exited" => child = "none"
    /\ phase = "killed" => child \notin {"starting", "serving"}

\* A shutdown that was not cut short by its deadline costs no request anything:
\* what was done over the web is on record or was refused by the file system,
\* and whoever had asked for the interface was answered, unless the child died
\* by itself (the order of run's last lines and of its deferred calls).
DrainKeeps ==
    /\ \A a \in Asks : ask[a] = "cut" => phase \in {"closing", "exited"} /\ ~drained
    /\ drained => \A w \in Writers : note[w] = None

\* What the process leaves behind when it goes: no child, and no request that was
\* let in and not seen to.
EndsCleanly == TypeOK /\ NoOrphan /\ DrainKeeps

\* Close returns, also when the child ignores being told to go; and until then a
\* child that is gone is replaced.
Supervised ==
    /\ phase = "closing" ~> phase = "exited"
    /\ flags.ui /\ child \in {"none", "dead"} ~> child \in Alive \/ stop \/ phase \in Final
=============================================================================
