------------------------------- MODULE Listing -------------------------------
(***************************************************************************)
(* Fs.List (backend/ocufs/ocufs.go) over ListDirectoryStream and its       *)
(* pageGuard (internal/brokerrpc/cursor.go).  The broker is external: it   *)
(* may answer a request with any page and any cursor, so the directory may *)
(* change between pages and the cursors may cycle or never end.  A path is *)
(* the sequence of its segments, as cleanPath leaves it.                   *)
(***************************************************************************)
EXTENDS Integers, Sequences

CONSTANTS Entries,      \* entries a page may carry: [arm, path]
          Dir,          \* the path of the listed directory
          Cursors,      \* the cursors the broker may hand out
          NoCursor,     \* the empty cursor
          MaxPages      \* maxListPages

ASSUME ListingAssumption ==
    /\ MaxPages \in Nat \ {0} /\ NoCursor \notin Cursors
    /\ Dir \in Seq(STRING)
    /\ \A e \in Entries : e.path \in Seq(STRING)

VARIABLES
    st,         \* calling, or how List returned
    cursor,     \* the cursor the next request echoes
    seen,       \* the guard's set of cursors
    pages,      \* the guard's page count
    listed,     \* the entries List has kept
    asked,      \* history: the cursors of the answered requests
    fetched,    \* history: how many pages came
    received    \* history: every entry they carried

guardVars   == <<seen, pages>>
historyVars == <<asked, fetched, received>>
listVars    == <<st, cursor, guardVars, listed, historyVars>>

Returns == {"ok", "notfound", "error", "ceiling", "cycle"}

ListTypeOK ==
    /\ st \in {"call"} \cup Returns
    /\ cursor \in Cursors \cup {NoCursor} /\ seen \subseteq Cursors
    /\ pages \in 0..MaxPages /\ fetched \in 0..MaxPages
    /\ asked \subseteq Cursors \cup {NoCursor}
    /\ listed \subseteq Entries /\ received \subseteq Entries

ListInit ==
    /\ st = "call" /\ cursor = NoCursor
    /\ seen = {} /\ pages = 0
    /\ listed = {} /\ asked = {} /\ fetched = 0 /\ received = {}

-----------------------------------------------------------------------------
\* Mutant: the prefix is compared, the depth is not.
ImmediateChildAnyDepth(e) ==
    /\ e.arm # "none" /\ e.path # Dir
    /\ Len(e.path) >= Len(Dir) /\ SubSeq(e.path, 1, Len(Dir)) = Dir

\* immediateChildRemote: one of the arms is there, the entry is not the directory
\* itself, it is below the directory, and no separator is left after the prefix.
ImmediateChild(e) ==
    /\ e.arm # "none" /\ e.path # Dir
    /\ Len(e.path) >= Len(Dir) /\ SubSeq(e.path, 1, Len(Dir)) = Dir
    /\ Len(SubSeq(e.path, Len(Dir) + 1, Len(e.path))) = 1

\* The request fails (throttled, refused, lost): what was kept is dropped.
PageFails ==
    /\ st = "call" /\ st' \in {"notfound", "error"}
    /\ listed' = {}
    /\ UNCHANGED <<cursor, guardVars, historyVars>>

\* yield runs on every entry of a page before its cursor is looked at.
Yield(page) ==
    /\ asked' = asked \cup {cursor} /\ fetched' = fetched + 1
    /\ received' = received \cup page

LastPage ==
    /\ st = "call" /\ st' = "ok"
    /\ \E page \in SUBSET Entries :
         Yield(page) /\ listed' = listed \cup {e \in page : ImmediateChild(e)}
    /\ UNCHANGED <<cursor, guardVars>>

\* Mutant: the ceiling admits one page more.
VerdictLate(c) ==
    IF pages + 1 > MaxPages THEN "ceiling"
    ELSE IF c \in seen THEN "cycle"
    ELSE "call"

\* Mutant: only an immediate repeat counts as a cycle.
VerdictAdjacent(c) ==
    IF pages + 1 >= MaxPages THEN "ceiling"
    ELSE IF c = cursor THEN "cycle"
    ELSE "call"

\* What admit makes of a cursor.
Verdict(c) ==
    IF pages + 1 >= MaxPages THEN "ceiling"
    ELSE IF c \in seen THEN "cycle"
    ELSE "call"

\* A page that names another: the guard admits its cursor or ends the listing.
MorePages ==
    /\ st = "call"
    /\ \E page \in SUBSET Entries, c \in Cursors :
         /\ Yield(page)
         /\ st' = Verdict(c) /\ pages' = pages + 1
         /\ IF Verdict(c) = "call"
            THEN /\ seen' = seen \cup {c} /\ cursor' = c
                 /\ listed' = listed \cup {e \in page : ImmediateChild(e)}
            ELSE /\ UNCHANGED <<seen, cursor>>
                 /\ listed' = {}

ListNext == PageFails \/ LastPage \/ MorePages

ListSpec == ListInit /\ [][ListNext]_listVars

-----------------------------------------------------------------------------
(* Properties *)

\* Never more than MaxPages pages are fetched, and the ceiling is blamed only when
\* the broker named a page after the MaxPages-th: a listing of just that many
\* pages succeeds (admit's off-by-one).
CeilingIsExact ==
    /\ fetched <= MaxPages
    /\ st = "ceiling" => fetched = MaxPages

\* No page is requested twice: a cursor that is about to be sent has not been sent
\* before, at any distance.
NoPageTwice == st = "call" => cursor \notin asked

\* A listing that succeeds has every immediate child any page carried and nothing
\* else; one that fails returns nothing, however many pages it had filtered.
ListsExactlyChildren ==
    /\ st = "ok" => listed = {e \in received : e.arm # "none" /\ \E i \in 1..Len(e.path) :
                                                e.path = Append(Dir, e.path[i])}
    /\ st \in Returns \ {"ok"} => listed = {}
=============================================================================
