-------------------------------- MODULE Wire --------------------------------
(***************************************************************************)
(* internal/wire: how a request and a response become one frame.           *)
(*                                                                         *)
(* A frame is its flag byte and a sequence of cells: a fixed-width field,  *)
(* a length prefix and each byte of a string are one cell, a stat is       *)
(* StatWidth of them.  The id, the errno, the flags and the mode of a      *)
(* request are fixed-width fields that nothing depends on, and left out.   *)
(***************************************************************************)
EXTENDS Naturals, Sequences, FiniteSets, SequencesExt

CONSTANTS
    MaxFrame,    \* cells in a frame, its flags included
    MaxStr,      \* the longest string whose length its prefix can hold
    Cells,       \* the values of a cell
    MaxCells,    \* how long the frames enumerated are
    MaxOp        \* operations are 1 .. MaxOp

ASSUME WireConstants ==
    /\ {MaxFrame, MaxStr, MaxCells, MaxOp} \subseteq Nat
    /\ {0, 1} \subseteq Cells /\ Cells \subseteq Nat

Flags == {"fd", "stat", "entries", "more", "value"}
StatWidth == 2

\* Encoding and decoding answer with the set of their one result, or with none.
Refused == {}

---------------------------------------------------------------------------
(* Encoding.                                                               *)

Prefixed(s) == <<Len(s)>> \o s

Optional(stat) == IF stat = <<>> THEN <<0>> ELSE <<1>> \o stat

EntryCells(e) == Prefixed(e.name) \o <<e.type>> \o Optional(e.stat)

\* The flags a response is sent with: "stat" is what r has, "entries" is only
\* ever added, since an empty directory is a listing too.
Honest(r) ==
    (r.has \ {"stat"}) \cup {x \in {"stat"} : r.stat # <<>>}
                       \cup {x \in {"entries"} : r.entries # <<>>}

Size(cells) == 1 + Len(cells)

Representable(strings) == \A s \in strings : Len(s) <= MaxStr

Encode(r) ==
    LET has == Honest(r)
        cells == r.stat
            \o (IF "entries" \in has
                THEN <<Len(r.entries)>> \o FlattenSeq([i \in DOMAIN r.entries |-> EntryCells(r.entries[i])])
                ELSE <<>>)
            \o (IF "value" \in has THEN Prefixed(r.value) ELSE <<>>)
    IN  IF /\ r.has \subseteq Flags
           /\ Representable({r.entries[i].name : i \in DOMAIN r.entries})
           /\ Size(cells) <= MaxFrame
        THEN {[has |-> has, cells |-> cells]}
        ELSE Refused

ValidOp(op) == op \in 1 .. MaxOp

EncodeRequest(q) ==
    LET cells == <<q.op>> \o Prefixed(q.path) \o Prefixed(q.path2) \o Prefixed(q.name) \o Prefixed(q.value)
    IN  IF ValidOp(q.op) /\ Representable({q.path, q.path2, q.name}) /\ Size(cells) <= MaxFrame
        THEN {cells} ELSE Refused

---------------------------------------------------------------------------
(* Decoding: a cursor is what it took, and what is left.                   *)

Short == [ok |-> FALSE, v |-> <<>>, rest |-> <<>>]

Take(c, n) ==
    IF n <= Len(c) THEN [ok |-> TRUE, v |-> SubSeq(c, 1, n), rest |-> SubSeq(c, n + 1, Len(c))]
    ELSE Short

TakeString(c) == LET n == Take(c, 1) IN IF n.ok THEN Take(n.rest, n.v[1]) ELSE Short

\* Mutant of Presence: any byte but zero means that a stat follows.
PresenceAny(byte) == TRUE
Presence(byte) == byte \in {0, 1}

TakeEntry(c) ==
    LET name == TakeString(c)
        type == Take(name.rest, 1)
        present == Take(type.rest, 1)
        stat == IF present.v = <<0>> THEN [present EXCEPT !.v = <<>>]
                ELSE Take(present.rest, StatWidth)
    IN  IF name.ok /\ type.ok /\ present.ok /\ stat.ok /\ Presence(present.v[1])
        THEN [ok |-> TRUE, rest |-> stat.rest,
              v |-> [name |-> name.v, type |-> type.v[1], stat |-> stat.v]]
        ELSE Short

\* What an entry takes at least, less one: a count is not believed beyond it.
\* Mutant of MinEntry: as if every entry had a stat.
MinEntryWithStat == 2 + StatWidth
MinEntry == 2

TakeEntries(c) ==
    LET n == Take(c, 1)
        after[k \in 0 .. n.v[1]] ==
            IF k = 0 THEN [n EXCEPT !.v = <<>>]
            ELSE LET e == TakeEntry(after[k - 1].rest) IN
                 IF after[k - 1].ok /\ e.ok THEN [e EXCEPT !.v = Append(after[k - 1].v, e.v)] ELSE Short
    IN  IF n.ok /\ n.v[1] <= Len(n.rest) \div MinEntry THEN after[n.v[1]] ELSE Short

\* Mutant of Over: what follows the last field is ignored.
OverTrailing(rest) == TRUE
Over(rest) == rest = <<>>

Absent(c) == [ok |-> TRUE, v |-> <<>>, rest |-> c]

Decode(f) ==
    LET stat == IF "stat" \in f.has THEN Take(f.cells, StatWidth) ELSE Absent(f.cells)
        ents == IF "entries" \in f.has THEN TakeEntries(stat.rest) ELSE Absent(stat.rest)
        value == IF "value" \in f.has THEN TakeString(ents.rest) ELSE Absent(ents.rest)
    IN  IF Size(f.cells) <= MaxFrame /\ f.has \subseteq Flags
           /\ stat.ok /\ ents.ok /\ value.ok /\ Over(value.rest)
        THEN {[has |-> f.has, stat |-> stat.v, entries |-> ents.v, value |-> value.v]}
        ELSE Refused

DecodeRequest(cells) ==
    LET op == Take(cells, 1)
        path == TakeString(op.rest)
        path2 == TakeString(path.rest)
        name == TakeString(path2.rest)
        value == TakeString(name.rest)
    IN  IF Size(cells) <= MaxFrame /\ value.ok /\ Over(value.rest) /\ ValidOp(op.v[1])
        THEN {[op |-> op.v[1], path |-> path.v, path2 |-> path2.v, name |-> name.v, value |-> value.v]}
        ELSE Refused

---------------------------------------------------------------------------
(* Properties of one frame, and of what is sent.                           *)

AllCells == UNION {[1 .. n -> Cells] : n \in 0 .. MaxCells}

Frames == [has : SUBSET (Flags \cup {"undefined"}), cells : AllCells]

\* No two frames decode to the same message ("a frame could not be checked by
\* re-encoding it", codec.go:317-319): one that is accepted is what its message
\* is encoded as.
Canonical(f) ==
    /\ \A r \in Decode(f) : Encode(r) = {f}
    /\ \A q \in DecodeRequest(f.cells) : EncodeRequest(q) = {f.cells}

\* A frame that ends in the middle of a field, or goes on after the last one, is
\* not taken for a message: none that is accepted is another's beginning.
SelfDelimiting(f) ==
    LET begun == Front(f.cells) IN
    f.cells # <<>> =>
        /\ Decode(f) # Refused => Decode([f EXCEPT !.cells = begun]) = Refused
        /\ DecodeRequest(f.cells) # Refused => DecodeRequest(begun) = Refused

Strings == UNION {[1 .. n -> Cells] : n \in 0 .. 1}
Stats == {<<>>, <<1, 0>>}
EntriesOf == [name : Strings, type : {1}, stat : Stats]

Responses ==
    [has : SUBSET Flags, stat : Stats, value : Strings,
     entries : UNION {[1 .. n -> EntriesOf] : n \in 0 .. 2}]

Requests == [op : 0 .. MaxOp + 1, path : Strings, path2 : Strings, name : Strings, value : Strings]

\* What the sender meant arrives: a response says what its fields hold, whatever
\* flags it was given, and a value without its flag is not sent.
RoundTrips(has) ==
    /\ \A r \in Responses : \A f \in IF r.has = has THEN Encode(r) ELSE {} :
          Decode(f) = {[r EXCEPT !.has = Honest(r), !.value = IF "value" \in r.has THEN @ ELSE <<>>]}
    /\ has = Flags => \A q \in Requests : \A c \in EncodeRequest(q) : DecodeRequest(c) = {q}
=============================================================================
