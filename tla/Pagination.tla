----------------------------- MODULE Pagination -----------------------------
(***************************************************************************)
(* Cursor pages of records: one client reads page after page               *)
(* (client.rs, the recent_records handler of server.rs, search_records of  *)
(* store.rs) while records arrive, move to the archive and are evicted.    *)
(*                                                                         *)
(* A record is found by its place in the order of pages, (time in          *)
(* nanoseconds, id); the hot index is ordered by milliseconds only, so a   *)
(* scan meets the records of one millisecond in any order.                 *)
(***************************************************************************)
EXTENDS Naturals, FiniteSets, Sequences, SequencesExt, Absent

CONSTANTS
    PageRecords,      \* of one project and signal
    Rank,             \* the place of a record: (timestamp_unix_nano, id)
    Ms,               \* its time in milliseconds
    Matching,         \* the records that match the expression
    Start, End,       \* the range of the first request, in milliseconds
    Limit             \* records in a page, 1 to 500 in the code

PageAssumption ==
    /\ IsFiniteSet(PageRecords)
    /\ Rank \in [PageRecords -> Nat \ {0}]
    /\ \A r, s \in PageRecords : Rank[r] = Rank[s] => r = s
    /\ Ms \in [PageRecords -> Nat]
    /\ \A r, s \in PageRecords : Rank[r] < Rank[s] => Ms[r] <= Ms[s]
    /\ Matching \subseteq PageRecords
    /\ Start \in Nat
    /\ End \in Nat
    /\ Limit \in Nat \ {0}
    /\ None \notin Nat

VARIABLES
    hot,              \* records in the database
    cold,             \* records in the archive
    at,               \* the step the request is at
    cursor,           \* where the page starts, None for the first
    todo,             \* index entries the scan has not met
    found,            \* hot records it took
    boundary,         \* boundary_ms, None until the page is full
    seen,             \* history: the records of all pages, in order
    held              \* history: what was stored from the first page on

store == <<hot, cold>>
scan == <<todo, found, boundary>>
pageVars == <<hot, cold, at, cursor, todo, found, boundary, seen, held>>

Present == hot \cup cold

PagesInit ==
    /\ hot \in SUBSET PageRecords
    /\ cold = {}
    /\ at = "first"
    /\ cursor = None
    /\ todo = {}
    /\ found = {}
    /\ boundary = None
    /\ seen = <<>>
    /\ held = {}

-----------------------------------------------------------------------------
(* The store goes on between any two steps of a request.                   *)

Insert(r) ==
    /\ r \notin Present
    /\ hot' = hot \cup {r}
    /\ UNCHANGED <<cold, at, cursor, scan, seen, held>>

ArchiveRows(rows) ==
    /\ rows # {}
    /\ hot' = hot \ rows
    /\ cold' = cold \cup rows
    /\ UNCHANGED <<at, cursor, scan, seen, held>>

Evict(r) ==
    /\ hot' = hot \ {r}
    /\ cold' = cold \ {r}
    /\ held' = held \ {r}
    /\ UNCHANGED <<at, cursor, scan, seen>>

-----------------------------------------------------------------------------
(* A page.                                                                 *)

\* The tuple comparison with the cursor.
Beyond(r) == cursor = None \/ Rank[r] < cursor

InRange(r) == Ms[r] >= Start /\ Ms[r] <= End

\* How many of the rows are newer than r.
Newer(r, rows) == Cardinality({s \in rows : Rank[s] > Rank[r]})

\* sort_by, newest first ...
Sorted(rows) ==
    [k \in 1..Cardinality(rows) |-> CHOOSE r \in rows : Newer(r, rows) = k - 1]

\* ... and truncate.
Top(rows) == {r \in rows : Newer(r, rows) < Limit}

\* The handler takes the range from the request, later from the cursor.
BeginPage ==
    /\ at \in {"first", "between"}
    /\ at' = "scan"
    /\ todo' = hot
    /\ found' = {}
    /\ boundary' = None
    /\ held' = IF at = "first" THEN Present ELSE held
    /\ UNCHANGED <<store, cursor, seen>>

Latest(r) == r \in todo /\ \A s \in todo : Ms[s] <= Ms[r]

\* The scan goes on through the millisecond in which the page filled up.
PastBoundary(r) == boundary # None /\ Ms[r] < boundary

\* One index entry; a record that is not hot any more is skipped.
ScanEntry(r) ==
    LET taken == found \cup {r}
        takes == Ms[r] <= End /\ Beyond(r) /\ r \in Matching
    IN  /\ at = "scan"
        /\ Latest(r)
        /\ IF r \notin hot
           THEN todo' = todo \ {r} /\ UNCHANGED <<found, boundary>>
           ELSE IF Ms[r] < Start \/ PastBoundary(r)
           THEN todo' = {} /\ UNCHANGED <<found, boundary>>
           ELSE /\ todo' = todo \ {r}
                /\ found' = IF takes THEN taken ELSE found
                /\ boundary' = IF takes /\ Cardinality(taken) > Limit
                               THEN Ms[r] ELSE boundary
        /\ UNCHANGED <<store, at, cursor, seen, held>>

\* What the archive adds: the range is asked of DuckDB, the rest is filtered.
FromArchive == {r \in cold : InRange(r) /\ Beyond(r) /\ r \in Matching}

\* Mutant of HasMore: what truncating the hot records cut off is forgotten.
HasMoreHot(page) == Cardinality(page) > Limit

\* hot_has_more, or more than a page of both tiers together.
HasMore(page) == Cardinality(found) > Limit \/ Cardinality(page) > Limit

\* Both tiers merged, sorted, without doubles, cut to the limit; the cursor
\* is the last record, when there are more.
EndPage ==
    LET page == Top(found) \cup FromArchive
        items == Sorted(Top(page))
    IN  /\ at = "scan"
        /\ todo = {}
        /\ at' = IF HasMore(page) THEN "between" ELSE "last"
        /\ cursor' = IF HasMore(page) THEN Rank[Last(items)] ELSE None
        /\ seen' = seen \o items
        /\ UNCHANGED <<store, scan, held>>

Writers ==
    \/ \E r \in PageRecords : Insert(r)
    \/ \E rows \in SUBSET hot : ArchiveRows(rows)
    \/ \E r \in Present : Evict(r)

Reader == BeginPage \/ (\E r \in todo : ScanEntry(r)) \/ EndPage

PagesNext == (at # "last" /\ Writers) \/ Reader

PagesSpec == PagesInit /\ [][PagesNext]_pageVars /\ WF_pageVars(Reader)

-----------------------------------------------------------------------------
(* Properties.                                                             *)

Wanted == {r \in Matching : InRange(r)}

\* The variables keep their types, and a page its limit: all pages but the
\* last are full.
PagesTypeOK ==
    /\ hot \in SUBSET PageRecords
    /\ cold \in SUBSET PageRecords
    /\ at \in {"first", "scan", "between", "last"}
    /\ cursor \in Nat \cup {None}
    /\ todo \in SUBSET PageRecords
    /\ found \in SUBSET PageRecords
    /\ boundary \in Nat \cup {None}
    /\ seen \in Seq(PageRecords)
    /\ held \in SUBSET PageRecords
    /\ at = "between" => Len(seen) > 0 /\ Len(seen) % Limit = 0

\* Pages go on newest first, across page borders too: no record comes twice,
\* even if it moved to the archive or was evicted and sent again.
NewestFirst ==
    \A i, j \in 1..Len(seen) : i < j => Rank[seen[i]] > Rank[seen[j]]

\* The pages so far have every asked record, stored since the first page,
\* down to the cursor, and all of them with the last page: archival and
\* arrivals between or during pages make none disappear.
NoneSkipped ==
    \A r \in held \cap Wanted :
        \/ at = "last"
        \/ at = "between" /\ Rank[r] >= cursor
        => r \in ToSet(seen)

\* Only what was asked for is returned.
OnlyAsked == ToSet(seen) \subseteq Wanted

\* Pages of records go on newest first, none has a record again, they skip none
\* that was stored since the first page and have only what was asked for.
PagesAreComplete == PagesTypeOK /\ NewestFirst /\ NoneSkipped /\ OnlyAsked

\* The client gets to the last page: cursors only go down, so late arrivals
\* cannot keep it reading.  The handler runs; nothing is asked of writers.
LastPageComes == at \in {"first", "scan", "between"} ~> at = "last"

=============================================================================
