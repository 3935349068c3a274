------------------------------- MODULE Search -------------------------------
(***************************************************************************)
(* A listing and a search of one tree while others change it: readDir of   *)
(* internal/helper/ops.go, FS.ReadDir, FS.Walk of internal/vfs, and        *)
(* handleSearch of internal/server/search.go.                              *)
(*                                                                         *)
(* The helper answers a listing page by page, each one frame of Wire, read *)
(* from the directory as it is by then; a walk lists one directory after   *)
(* another, breadth first.  That a reply is that of its call is            *)
(* HelperClient's.                                                         *)
(*                                                                         *)
(* A node is a path: what comes back under a name is the same node.        *)
(***************************************************************************)
EXTENDS Wire

CONSTANTS
    Nodes,       \* the paths below the root, numbers: siblings are in name order
    Root,        \* where the search starts
    Parent,      \* [Nodes -> Nodes \cup {Root}]
    NameOf,      \* [Nodes -> Seq(Cells)], the last element of the path
    Dirs,        \* those that are directories
    Hidden,      \* temporary uploads and the trash
    Matching,    \* those whose name the query matches
    Limits,      \* [depth, visit, matches : Nat], the walk's and the handler's
    MaxEdits     \* changes to the tree, a bound of the model

VARIABLES
    present,     \* the nodes there are
    readable,    \* the directories the user may read
    edits,       \* changes made
    search,      \* the request, see Idle
    expired,     \* its context has ended: the deadline, or the client left
    frame,       \* the last frame received
    steady       \* ghost: the nodes within reach since the request began

searchVars == <<present, readable, edits, search, expired, frame, steady>>
tree == <<present, readable, edits>>

Idle ==
    [pc |-> "idle",      \* "dir", "page", "scan", "done", "gone" (nobody to answer)
     kind |-> "search",  \* or "list": the entries of one directory, with stats
     limits |-> [depth |-> 0, visit |-> 0, matches |-> 0],
     depth |-> 0, level |-> <<>>, next |-> <<>>, deeper |-> FALSE,
     cursor |-> <<>>, ents |-> <<>>,
     visited |-> 0, hits |-> <<>>, truncated |-> FALSE, error |-> "none"]

RECURSIVE Above(_)
Above(n) == IF n = Root THEN {} ELSE {Parent[n]} \cup Above(Parent[n])

\* The nodes that listing after listing would come to.
Reach(nodes, dirs) == {n \in nodes : Above(n) \subseteq dirs /\ Above(n) \ {Root} \subseteq nodes \cap Dirs}

NoFrame == [has |-> {}, cells |-> <<>>]

SearchInit ==
    /\ present = Nodes
    /\ readable = Dirs \cup {Root}
    /\ edits = 0
    /\ search = Idle
    /\ expired = FALSE
    /\ frame = NoFrame
    /\ steady = {}

---------------------------------------------------------------------------
(* The tree, changed by others.                                            *)

Edit ==
    /\ edits < MaxEdits /\ search.pc \notin {"done", "gone"}
    /\ frame = NoFrame \/ search.pc # "idle"
    /\ edits' = edits + 1
    /\ \/ \E n \in Nodes \ present :
             /\ Parent[n] \in present \cup {Root}
             /\ present' = present \cup {n}
             /\ UNCHANGED readable
       \/ \E n \in present :
             /\ present' = {m \in present \ {n} : n \notin Above(m)}
             /\ UNCHANGED readable
       \/ \E d \in Dirs \cup {Root} :
             /\ readable' = IF d \in readable THEN readable \ {d} ELSE readable \cup {d}
             /\ UNCHANGED present
    /\ UNCHANGED <<search, expired, frame>>

---------------------------------------------------------------------------
(* The helper: one page.                                                   *)

\* Mutant of Cost: the byte that says whether a stat follows is not counted.
CostNoPresence(n, stats) == 2 + Len(NameOf[n]) + IF stats THEN StatWidth ELSE 0
Cost(n, stats) == 3 + Len(NameOf[n]) + IF stats THEN StatWidth ELSE 0

\* The flags and the count of entries.
Headroom == 2

\* Mutant of Beyond: the cursor's own entry is sent again.
BeyondFrom(d, cursor) ==
    {n \in present : Parent[n] = d /\
        \A m \in Nodes : Parent[m] = d /\ NameOf[m] = cursor => n >= m}
Beyond(d, cursor) ==
    {n \in present : Parent[n] = d /\
        \A m \in Nodes : Parent[m] = d /\ NameOf[m] = cursor => n > m}

\* As many entries as there is room for, in order of name; "more" when one was
\* left out.  An entry that goes before its fstatat comes without its stat.
Page(d, cursor, stats, lost) ==
    LET ents == SetToSortSeq(Beyond(d, cursor), <)
        Room(k) == FoldLeft(LAMBDA sum, n : sum + Cost(n, stats), Headroom, SubSeq(ents, 1, k)) <= MaxFrame
        sent == CHOOSE k \in 0 .. Len(ents) : Room(k) /\ (k = Len(ents) \/ ~Room(k + 1))
    IN  [has |-> {"entries"} \cup {x \in {"more"} : sent < Len(ents)},
         stat |-> <<>>, value |-> <<>>,
         entries |-> [i \in 1 .. sent |->
             [name |-> NameOf[ents[i]], type |-> IF ents[i] \in Dirs THEN 1 ELSE 0,
              stat |-> IF stats /\ ents[i] \notin lost THEN [w \in 1 .. StatWidth |-> 0] ELSE <<>>]]]

---------------------------------------------------------------------------
(* The request.                                                            *)

Begin(kind, limits) ==
    /\ search.pc = "idle"
    /\ search' = [Idle EXCEPT !.pc = "dir", !.kind = kind, !.limits = limits, !.level = <<Root>>]
    /\ UNCHANGED <<tree, expired, frame>>

Expire ==
    /\ search.pc \in {"dir", "page", "scan"} /\ ~expired
    /\ expired' = TRUE
    /\ UNCHANGED <<tree, search, frame>>

\* Mutant of Descends: what is at the bottom is not said.
DescendsSilently(s) == [s EXCEPT !.deeper = FALSE, !.depth = @ + 1, !.level = s.next, !.next = <<>>]
\* The end of a level, and of the walk when there is no other.
Descends(s) ==
    [s EXCEPT !.truncated = @ \/ s.deeper, !.deeper = FALSE,
              !.depth = @ + 1, !.level = s.next, !.next = <<>>]

\* The next directory.  Only a walk looks at the context before it asks.
NextDir ==
    /\ search.pc = "dir"
    /\ search' =
        IF search.level = <<>>
        THEN IF search.next = <<>> THEN [Descends(search) EXCEPT !.pc = "done"] ELSE Descends(search)
        ELSE IF search.kind = "search" /\ expired
        THEN [search EXCEPT !.pc = "done", !.truncated = TRUE]
        ELSE [search EXCEPT !.pc = "page", !.cursor = <<>>, !.ents = <<>>]
    /\ UNCHANGED <<tree, expired, frame>>

Fail(why) == [search EXCEPT !.pc = "done", !.error = why]

\* A walk passes over a directory that is gone or closed to the user; what has
\* been read of it so far is dropped.
Denied ==
    IF search.kind = "list" THEN Fail("errno")
    ELSE [search EXCEPT !.pc = "dir", !.level = Tail(@)]

NodeAt(d, name) == CHOOSE n \in Nodes : Parent[n] = d /\ NameOf[n] = name

\* One round trip of ReadDir: the helper or the context may fail it, the
\* directory may refuse, and a page either ends the listing or resumes it.
ReadPage ==
    LET d == Head(search.level) IN
    /\ search.pc = "page"
    /\ \/ search' = Fail("call") /\ UNCHANGED frame
       \/ /\ ~(d \in present \cup {Root} /\ Above(d) \cup {d} \subseteq readable)
          /\ search' = Denied
          /\ UNCHANGED frame
       \/ /\ d \in present \cup {Root} /\ Above(d) \cup {d} \subseteq readable
          /\ \E lost \in IF search.kind = "list" THEN SUBSET Beyond(d, search.cursor) ELSE {{}} :
             LET sent == Encode(Page(d, search.cursor, search.kind = "list", lost)) IN
             IF sent = Refused THEN search' = Fail("overflow") /\ UNCHANGED frame
             ELSE \E f \in sent : \E resp \in Decode(f) :
                LET ents == search.ents \o [i \in DOMAIN resp.entries |-> NodeAt(d, resp.entries[i].name)] IN
                /\ frame' = f
                /\ search' =
                    IF "more" \notin resp.has THEN [search EXCEPT !.pc = "scan", !.ents = ents]
                    ELSE IF resp.entries = <<>> THEN Fail("noprogress")
                    ELSE [search EXCEPT !.ents = ents, !.cursor = NameOf[Last(ents)]]
    /\ UNCHANGED <<tree, expired>>

\* One entry of a directory that a walk has listed.
Examine(s, n) ==
    IF s.pc # "scan" \/ n \in Hidden THEN s
    ELSE IF s.visited >= s.limits.visit THEN [s EXCEPT !.pc = "done", !.truncated = TRUE]
    ELSE LET seen == [s EXCEPT !.visited = @ + 1, !.hits = IF n \in Matching THEN Append(@, n) ELSE @]
         IN  IF n \in Matching /\ Len(seen.hits) >= s.limits.matches THEN [seen EXCEPT !.pc = "done"]
             ELSE IF n \notin Dirs THEN seen
             ELSE IF s.depth < s.limits.depth THEN [seen EXCEPT !.next = Append(@, n)]
             ELSE [seen EXCEPT !.deeper = TRUE]

\* A client that has left may be noticed by the write of a match.
Scan ==
    LET after == FoldLeft(Examine, search, search.ents) IN
    /\ search.pc = "scan"
    /\ \/ search' = IF search.kind = "list" THEN [search EXCEPT !.pc = "done"]
                    ELSE IF after.pc = "done" THEN after
                    ELSE [after EXCEPT !.pc = "dir", !.level = Tail(@), !.ents = <<>>]
       \/ /\ search.kind = "search" /\ expired /\ after.hits # search.hits
          /\ search' = [search EXCEPT !.pc = "gone"]
    /\ UNCHANGED <<tree, expired, frame>>

\* What the last line says.
\* Mutant of Truncated: a search that stopped at its last match is complete.
TruncatedByWalk(s) == s.truncated
Truncated(s) == s.truncated \/ Len(s.hits) >= s.limits.matches

---------------------------------------------------------------------------
\* A peer that sends any frame at all, cell by cell.
AnyFrame ==
    /\ search.pc = "idle" /\ edits = 0
    /\ \/ /\ frame = NoFrame
          /\ \E has \in SUBSET (Flags \cup {"undefined"}) : frame' = [frame EXCEPT !.has = has]
       \/ /\ Len(frame.cells) < MaxCells
          /\ \E c \in Cells : frame' = [frame EXCEPT !.cells = Append(@, c)]
    /\ UNCHANGED <<tree, search, expired>>

SearchStep ==
    \/ Edit
    \/ frame = NoFrame /\ \E kind \in {"search", "list"}, limits \in Limits : Begin(kind, limits)
    \/ Expire \/ NextDir \/ ReadPage \/ Scan
    \/ AnyFrame

RememberSteady ==
    steady' = IF search'.pc = "idle" THEN {}
              ELSE IF search.pc = "idle" THEN Reach(present, readable)
              ELSE steady \cap Reach(present', readable')

\* The answer has been given; or a frame of the bound is complete.
Ended == search.pc \in {"done", "gone"} \/ (search.pc = "idle" /\ Len(frame.cells) = MaxCells)

SearchNext == (SearchStep /\ RememberSteady) \/ (Ended /\ UNCHANGED searchVars)

---------------------------------------------------------------------------
(* Properties.                                                             *)

Visible(n) == ({n} \cup Above(n)) \cap Hidden = {}

NoRepeat(s) == \A i, j \in DOMAIN s : s[i] = s[j] => i = j

\* A search that says it is complete is: every match that was within reach from
\* its beginning to its end, however deep, has been sent, and no match twice ("a
\* silently shortened list is indistinguishable from 'it is not here'",
\* walk.go:31-33; the last line, search.go:160-170).
SearchTells ==
    search.kind = "search" /\ search.pc = "done" /\ search.error = "none" =>
        /\ NoRepeat(search.hits)
        /\ Truncated(search) \/ \A n \in steady \cap Matching : Visible(n) => n \in Range(search.hits)

\* A listing put together from pages, between which the directory changes, has
\* every entry that stayed, each once and in order (ops.go:213-276, vfs.go:147-178).
ListingWhole ==
    search.kind = "list" /\ search.pc = "done" /\ search.error = "none" =>
        /\ \A i, j \in DOMAIN search.ents : i < j => search.ents[i] < search.ents[j]
        /\ \A n \in steady : Parent[n] = Root => n \in Range(search.ents)

\* The helper never counts a page too small to be sent ("which truncation already
\* prevents", helper.go:131) or sends one that does not advance.
PagesFit == search.error \notin {"overflow", "noprogress"}

NothingMissed == SearchTells /\ ListingWhole /\ PagesFit

\* Whatever frame arrives, the two ends agree on what it says
\* (codec.go:61-145, 252-337); and what one of them sends, with any flags at all,
\* is what the other reads.
WireSound ==
    /\ Canonical(frame) /\ SelfDelimiting(frame)
    /\ search.pc = "idle" /\ frame.cells = <<>> /\ frame.has # {} =>
          RoundTrips(frame.has \ {"undefined"})
=============================================================================
