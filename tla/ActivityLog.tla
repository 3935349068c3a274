----------------------------- MODULE ActivityLog -----------------------------
(***************************************************************************)
(* activity.Store: one file of events per day, what queries make of them,  *)
(* and Tail, which follows smbd's log and records what clients did over    *)
(* SMB.  smbd itself, with the rotation that `max log size` makes it do,   *)
(* is external.                                                            *)
(***************************************************************************)
EXTENDS Integers, Sequences, SequencesExt, FiniteSetsExt, Functions

CONSTANTS
    Writers,         \* web requests that record what they did
    Inodes,          \* the files smbd's log is, one after the other
    Ops,             \* what clients do over SMB
    None,
    DayLen,          \* ticks in a day
    Keep,            \* Store.keep, in ticks
    DefaultLimit,    \* of a query
    StatFails,       \* os.Stat may fail with the log in its place
    MaxTears,        \* bound: lines of the log that may be read in two
    MaxNow, MaxOps, MaxNotes    \* bounds: clock, SMB operations, web events

ASSUME ActivityConstants ==
    /\ {DayLen, Keep, DefaultLimit} \subseteq Nat \ {0}
    /\ {MaxNow, MaxOps, MaxNotes, MaxTears} \subseteq Nat
    /\ StatFails \in BOOLEAN
    /\ None \notin Inodes \cup Int
    /\ Ops \subseteq {"mkdir", "create", "open", "rename", "delete", "denied", "outside"}

VARIABLES
    now,
    files,    \* Store.dir: day -> what its file holds
    cur,      \* Store.file, by its day; None when it is nil
    note,     \* per web request: the event it is about to record
    notes,    \* how many there have been
    query,    \* a web request that asks what happened: Query's locals
    acked,    \* history: events whose Record returned nil
    log,      \* inode -> content
    path,     \* the inode smbd's log is at now
    todo,     \* lines smbd has still to write for the operation under way
    done,     \* operations clients have carried out, in order
    tail      \* Tail's locals

store == <<files, cur, acked>>
web == <<note, notes, query>>
smbd == <<log, path, todo, done>>
actVars == <<now, store, web, smbd, tail>>

Day(t) == t \div DayLen
Days == Day(-Keep) .. Day(MaxNow)

\* Both kinds of file are sequences of pieces.  In a day's file a piece that is
\* not whole is what a failed write left, without a newline.
Piece(e, whole) == [event |-> e, whole |-> whole]

-----------------------------------------------------------------------------
(* What smbd logs for an operation, from a captured session, and what it means. *)

Line(op, ok, type, disp, src, to) ==
    [op |-> op, ok |-> ok, type |-> type, disp |-> disp, src |-> src, to |-> to]

\* Paths: "in" the served root, a temporary name in it, or "out" of it.
Transcript(o) ==
    CASE o = "mkdir" ->
           << Line("mkdirat", TRUE, "", "", "", "tmp"),
              Line("renameat", TRUE, "", "", "tmp", "in"),
              Line("create_file", TRUE, "dir", "create", "", "in") >>
      [] o = "create" -> << Line("create_file", TRUE, "file", "overwrite_if", "", "in") >>
      [] o = "open" -> << Line("create_file", TRUE, "file", "open", "", "in") >>
      [] o = "rename" ->
           << Line("create_file", TRUE, "file", "open", "", "in"),
              Line("renameat", TRUE, "", "", "in", "in") >>
      [] o = "delete" -> << Line("unlinkat", TRUE, "", "", "", "in") >>
      [] o = "denied" -> << Line("unlinkat", FALSE, "", "", "", "in") >>
      [] o = "outside" -> << Line("unlinkat", TRUE, "", "", "", "out") >>

Means(o) == IF o \in {"mkdir", "create", "rename", "delete"} THEN {o} ELSE {}

InRoot(p) == p \in {"in", "tmp"}
IsTmp(p) == p = "tmp"

\* The dispositions that make something.  A directory has been reported already.
Making == {"create", "overwrite_if", "overwrite", "supersede"}
MakesAny(l) == l.disp \in Making                                \* a bug
Makes(l) == l.disp \in Making /\ l.type # "dir"

\* ParseAuditLine: the action of the event a line stands for, if any.
ParseAuditLine(l) ==
    IF ~l.ok THEN {}
    ELSE CASE l.op = "unlinkat" -> IF InRoot(l.to) THEN {"delete"} ELSE {}
           [] l.op = "renameat" ->
                IF ~InRoot(l.to) THEN {}
                ELSE IF IsTmp(l.src) THEN {"mkdir"}
                ELSE IF InRoot(l.src) THEN {"rename"} ELSE {}
           [] l.op = "mkdirat" -> IF InRoot(l.to) /\ ~IsTmp(l.to) THEN {"mkdir"} ELSE {}
           [] l.op = "create_file" -> IF Makes(l) /\ InRoot(l.to) THEN {"create"} ELSE {}
           [] OTHER -> {}

-----------------------------------------------------------------------------
(* Record *)

\* The days pruneLocked keeps at time `at`.
WithinToday(at) == {d \in DOMAIN files : d >= Day(at)}          \* a bug
Within(at) == {d \in DOMAIN files : d >= Day(at - Keep)}

\* The file of a day as rollLocked opens it: made if it is not there.
Truncated(d) == << >>                                           \* a bug
Opened(d) == IF d \in DOMAIN files THEN files[d] ELSE << >>

\* The day whose file gets an event: that of the event, also when a later one
\* is open already.
Latest(e) ==                                                    \* a bug
    IF cur # None /\ cur > Day(e.at) THEN cur ELSE Day(e.at)
FileOf(e) == Day(e.at)

Record(e) ==
    LET d == FileOf(e)
        kept == Within(e.at) \cup {d}
        rolled == IF cur = d THEN files
                  ELSE [k \in kept |-> IF k = d THEN Opened(d) ELSE files[k]]
        Write(piece) == [rolled EXCEPT ![d] = Append(@, piece)]
    IN \/ /\ cur' = d /\ files' = Write(Piece(e, TRUE))
          /\ acked' = acked \cup {e}
       \/ /\ cur' = d /\ UNCHANGED acked         \* the write fails, or is short
          /\ \/ files' = rolled
             \/ files' = Write(Piece(e, FALSE))
       \/ /\ cur # d /\ cur' = None              \* the day's file cannot be opened
          /\ UNCHANGED <<files, acked>>

\* A request takes the time, then the lock.
Note(w) ==
    /\ note[w] = None /\ notes < MaxNotes
    /\ notes' = notes + 1
    /\ note' = [note EXCEPT ![w] =
                 [at |-> now, action |-> "web", id |-> MaxOps + notes + 1]]
    /\ UNCHANGED <<now, store, query, smbd, tail>>

RecordNote(w) ==
    /\ note[w] # None
    /\ Record(note[w])
    /\ note' = [note EXCEPT ![w] = None]
    /\ UNCHANGED <<now, notes, query, smbd, tail>>

-----------------------------------------------------------------------------
(* Query *)

\* readDay, line by line: a piece that is not whole takes the line after it along.
ReadUpTo(f) ==
    LET Whole(i) == f[i].whole /\ (i = 1 \/ f[i - 1].whole)
        read[n \in 0 .. Len(f)] ==
            IF n = 0 THEN << >>
            ELSE IF Whole(n) THEN Append(read[n - 1], f[n].event) ELSE read[n - 1]
    IN read

ReadDay(d) == ReadUpTo(files[d])[Len(files[d])]

Matches(e, since) == e.at >= since

NewestFirst(es) ==
    LET Rank(i) == Cardinality({j \in DOMAIN es :
                      es[j].at > es[i].at \/ (es[j].at = es[i].at /\ j <= i)})
    IN [k \in DOMAIN es |-> es[CHOOSE i \in DOMAIN es : Rank(i) = k]]

AsListed(ds) == SetToSortSeq(ds, <)                             \* a bug
Ordered(ds) == SetToSortSeq(ds, >)

NoQuery == [since |-> None, limit |-> 0, days |-> << >>, out |-> << >>,
            began |-> {}]               \* began is history: what was on file
Asking == query.since # None
OnFile(d) == IF d \in DOMAIN files THEN ReadDay(d) ELSE << >>

\* The names in the directory, once, without the lock: days newest first, none
\* before that of since.
ListDays(since, limit) ==
    /\ ~Asking
    /\ query' = [NoQuery EXCEPT
                   !.since = since,
                   !.limit = IF limit = 0 THEN DefaultLimit ELSE limit,
                   !.days = Ordered({d \in DOMAIN files : d >= Day(since)}),
                   !.began = UNION {Range(ReadDay(d)) : d \in DOMAIN files}]
    /\ UNCHANGED <<now, store, note, notes, smbd, tail>>

\* Then one file after the other until there are enough; one that is not there
\* any more has been pruned since.
Answered == query.days = << >> \/ Len(query.out) >= query.limit

ReadNextDay ==
    /\ Asking /\ ~Answered
    /\ query' = [query EXCEPT
                   !.days = Tail(@),
                   !.out = @ \o SelectSeq(OnFile(Head(query.days)),
                                         LAMBDA e : Matches(e, query.since))]
    /\ UNCHANGED <<now, store, note, notes, smbd, tail>>

Found ==
    LET all == NewestFirst(query.out)
    IN SubSeq(all, 1, Min({query.limit, Len(all)}))

\* The answer, or the error of a file that cannot be read.
QueryEnds ==
    /\ Asking
    /\ query' = NoQuery
    /\ UNCHANGED <<now, store, note, notes, smbd, tail>>

QueryStep == ReadNextDay \/ QueryEnds

-----------------------------------------------------------------------------
(* smbd *)

SmbOp(o) ==
    /\ todo = << >> /\ Len(done) < MaxOps
    /\ done' = Append(done, o)
    /\ todo' = Transcript(o)
    /\ UNCHANGED <<now, store, web, log, path, tail>>

\* A line at once, or with a reader coming in between.
HalfWritten == path # None /\ log[path] # << >> /\ Last(log[path]).part = "head"

Torn(i) == {k \in DOMAIN log[i] : log[i][k].part = "head"}
MayTear == Cardinality(UNION {{<<i, k>> : k \in Torn(i)} : i \in Inodes}) < MaxTears

SmbWrites ==
    /\ todo # << >> /\ path # None
    /\ \E part \in IF HalfWritten THEN {"rest"} ELSE {"all"} \cup (IF MayTear THEN {"head"} ELSE {}) :
          /\ log' = [log EXCEPT ![path] =
                       Append(@, [id |-> Len(done), left |-> Len(todo), part |-> part])]
          /\ todo' = IF part = "head" THEN todo ELSE Tail(todo)
    /\ UNCHANGED <<now, store, web, path, done, tail>>

\* At `max log size` the log is renamed, and the next one made.
RotateAway ==
    /\ path # None /\ ~HalfWritten /\ log[path] # << >>
    /\ path' = None
    /\ UNCHANGED <<now, store, web, log, todo, done, tail>>

MakeLog ==
    /\ path = None
    /\ \E i \in DOMAIN log : log[i] = << >> /\ path' = i
    /\ UNCHANGED <<now, store, web, log, todo, done, tail>>
-----------------------------------------------------------------------------
(* Tail: one pass a second over what has been added to the log *)

Idle == [pc |-> "wait", file |-> None, off |-> 0, size |-> 0, event |-> None,
         again |-> FALSE]        \* again is history: a log was followed before

\* openLog: stat, then open and seek to the size just seen.
TailStat ==
    /\ tail.pc = "wait" /\ tail.file = None
    /\ path # None
    /\ tail' = [tail EXCEPT !.pc = "open", !.size = Len(log[path])]
    /\ UNCHANGED <<now, store, web, smbd>>

\* Where reading begins: at the end of what was there, each time.
OpenAtStart == IF tail.again THEN 0 ELSE tail.size         \* "from the start"
OpenAt == tail.size

TailOpen ==
    /\ tail.pc = "open"
    /\ tail' = IF path = None
               THEN [tail EXCEPT !.pc = "wait", !.size = 0]
               ELSE [tail EXCEPT !.pc = "look", !.file = path, !.off = OpenAt]
    /\ UNCHANGED <<now, store, web, smbd>>

\* "The file shrank or was replaced": os.Stat by name, and the size.
Replaced == path # None => Len(log[path]) < tail.size

TailLook ==
    /\ tail.pc = "look" \/ (tail.pc = "wait" /\ tail.file # None)
    /\ \/ ~Replaced /\ tail' = [tail EXCEPT !.pc = "read"]
       \/ Replaced /\ tail' = [Idle EXCEPT !.again = TRUE]
       \/ StatFails /\ tail' = [Idle EXCEPT !.again = TRUE]
    /\ UNCHANGED <<now, store, web, smbd>>

\* ReadString from the file that is open.  At the end of it the half of a line
\* is consumed and dropped, and not counted in `size`.
Unread == SubSeq(log[tail.file], tail.off + 1, Len(log[tail.file]))

TailEnd ==
    /\ tail.pc = "read"
    /\ \/ Unread = << >> /\ tail' = [tail EXCEPT !.pc = "wait"]
       \/ /\ Len(Unread) = 1 /\ Head(Unread).part = "head"
          /\ tail' = [tail EXCEPT !.pc = "wait", !.off = @ + 1]
    /\ UNCHANGED <<now, store, web, smbd>>

\* The line a piece of the log is of.
LineOf(piece) ==
    LET lines == Transcript(done[piece.id]) IN lines[Len(lines) - piece.left + 1]

\* What is left of a line read in two may still have fields enough, the first
\* of them cut short.
Parsed(piece) ==
    IF piece.part = "rest" THEN {{}, {"cut"}} ELSE {ParseAuditLine(LineOf(piece))}

TailRead ==
    /\ tail.pc = "read" /\ Unread # << >>
    /\ LET n == IF Head(Unread).part = "head" THEN 2 ELSE 1
       IN /\ n <= Len(Unread)
          /\ \E actions \in Parsed(Head(Unread)) :
                tail' = [tail EXCEPT
                    !.off = @ + n, !.size = @ + n,
                    !.pc = IF actions = {} THEN "read" ELSE "note",
                    !.event = IF actions = {} THEN None
                              ELSE [at |-> now, id |-> Head(Unread).id,
                                    action |-> CHOOSE a \in actions : TRUE]]
    /\ UNCHANGED <<now, store, web, smbd>>

TailNote ==
    /\ tail.pc = "note"
    /\ Record(tail.event)
    /\ tail' = [tail EXCEPT !.pc = "read", !.event = None]
    /\ UNCHANGED <<now, web, smbd>>

\* `done` is looked at between two passes only.
TailEnds ==
    /\ tail.pc = "wait"
    /\ tail' = [Idle EXCEPT !.pc = "ended"]
    /\ UNCHANGED <<now, store, web, smbd>>

TailStep == TailStat \/ TailOpen \/ TailLook \/ TailEnd \/ TailRead \/ TailNote

Tick ==
    /\ now < MaxNow
    /\ now' = now + 1
    /\ UNCHANGED <<store, web, smbd, tail>>

ActInit(smb) ==
    /\ now = 0
    /\ files = [d \in {} |-> << >>] /\ cur = None /\ acked = {}
    /\ note = [w \in Writers |-> None] /\ notes = 0 /\ query = NoQuery
    /\ log = [i \in Inodes |-> << >>] /\ path = None /\ todo = << >> /\ done = << >>
    /\ tail = IF smb THEN Idle ELSE [Idle EXCEPT !.pc = "off"]

SmbdStep ==
    \/ \E o \in Ops : SmbOp(o)
    \/ SmbWrites \/ RotateAway \/ MakeLog

WebStep(w) == Note(w) \/ RecordNote(w)

-----------------------------------------------------------------------------
\* Who has acknowledged an event finds it in the file of its day for as long as
\* the window lasts, unless a write failed half-way just before it and left a
\* line for it to be appended to (Record, pruneLocked).
AckedKept ==
    \A e \in acked : Day(e.at) >= Day(now - Keep) =>
        /\ Day(e.at) \in DOMAIN files
        /\ \E i \in DOMAIN files[Day(e.at)] :
              LET f == files[Day(e.at)]
              IN /\ f[i] = Piece(e, TRUE)
                 /\ (i > 1 /\ ~f[i - 1].whole) \/ e \in Range(ReadDay(Day(e.at)))

\* A query stops after the first day that has given it enough, and what it answers
\* is newest first and misses nothing newer: whatever was on file when it began and
\* still is, it has, or it is full of what is no older.  It reads file after file
\* without the lock, while they grow, are made and are pruned; but no file holds an
\* event of another day (rollLocked, Query).
QueryIsNewest ==
    Asking /\ Answered =>
        /\ Range(Found) \subseteq Range(query.out) /\ Len(Found) <= query.limit
        /\ \A i, j \in DOMAIN Found : i < j => Found[i].at >= Found[j].at
        /\ \A e \in query.began \ Range(Found) :
              e.at >= query.since /\ e \in Range(OnFile(Day(e.at))) =>
                 /\ Len(Found) = query.limit
                 /\ \A i \in DOMAIN Found : e.at <= Found[i].at

\* An operation over SMB is on record once at most and as what it was, however
\* many lines smbd wrote about it and wherever the log was opened again, but for
\* what is left of a line that was read in two (ParseAuditLine, Tail).
OncePerOperation ==
    LET all == UNION {{<<d, i>> : i \in DOMAIN files[d]} : d \in DOMAIN files}
        E(x) == files[x[1]][x[2]].event
        smb == {x \in all : E(x).id <= MaxOps /\ E(x).action # "cut"}
    IN /\ \A x \in smb : E(x).action \in Means(done[E(x).id])
       /\ \A x, y \in smb : E(x).id = E(y).id => x = y
=============================================================================
