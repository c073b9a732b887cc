----------------------------- MODULE IssuePages -----------------------------
(***************************************************************************)
(* Cursor pages of issues: search_issues (src/src/store.rs) reads all      *)
(* entries of the time index in one look and then each issue, while the    *)
(* writer moves issues that are seen again to a later time.                *)
(*                                                                         *)
(* An issue is a number, its id in the order of ids.  Issues are neither   *)
(* evicted nor removed here; StoreReaders has that.                        *)
(***************************************************************************)
EXTENDS Naturals, FiniteSets, Sequences, SequencesExt

CONSTANTS
    Issues,           \* ids
    Times,            \* event times, in milliseconds
    Start, End,       \* the range of the first request
    Limit,            \* issues in a page, 1 to 500 in the code
    None

IssueAssumption ==
    /\ Issues \subseteq Nat
    /\ IsFiniteSet(Issues)
    /\ Times \subseteq Nat \ {0}
    /\ Limit \in Nat \ {0}
    /\ None \notin [time : Times, id : Issues]

VARIABLES
    last,             \* last_seen_ms of each issue, 0 when there is none yet
    at,               \* the step the request is at
    cursor,           \* where the page starts: a time and an id, or None
    todo,             \* the index entries to be looked up
    fetched,          \* what was asked for of those looked up, as it was then
    seen,             \* history: the issues of all pages, in order
    quiet             \* history: issues unchanged since the first page

vars == <<last, at, cursor, todo, fetched, seen, quiet>>

Entry == [time : Times, id : Issues]

Precedes(a, b) == a.time > b.time \/ (a.time = b.time /\ a.id > b.id)

Init ==
    /\ last \in [Issues -> {0} \cup Times]
    /\ at = "first"
    /\ cursor = None
    /\ todo = {}
    /\ fetched = <<>>
    /\ seen = <<>>
    /\ quiet = {}

\* write_records sees an issue again: last_seen_ms only grows.
Bump(i, t) ==
    /\ t > last[i]
    /\ last' = [last EXCEPT ![i] = t]
    /\ quiet' = quiet \ {i}
    /\ UNCHANGED <<at, cursor, todo, fetched, seen>>

\* An issue as it is now, and what the time index has of it.
Current(i) == [time |-> last[i], id |-> i]

Index == {Current(i) : i \in {j \in Issues : last[j] # 0}}

BeginPage ==
    /\ at \in {"first", "between"}
    /\ at' = "fetch"
    /\ todo' = Index
    /\ fetched' = <<>>
    /\ quiet' = IF at = "first" THEN {e.id : e \in Index} ELSE quiet
    /\ UNCHANGED <<last, cursor, seen>>

\* Mutant of Asked: a page may begin with the time the last one ended with.
AskedAgain(e) ==
    /\ e.time >= Start
    /\ e.time <= End
    /\ cursor = None \/ ~Precedes(e, cursor)

Asked(e) ==
    /\ e.time >= Start
    /\ e.time <= End
    /\ cursor = None \/ Precedes(cursor, e)

IsFirst(e) == \A d \in todo \ {e} : Precedes(e, d)

\* The issue as it is now, at the place its entry had, if it is asked for.
FetchIssue(e) ==
    /\ at = "fetch"
    /\ IsFirst(e)
    /\ todo' = todo \ {e}
    /\ fetched' = IF Asked(Current(e.id)) THEN Append(fetched, Current(e.id)) ELSE fetched
    /\ UNCHANGED <<last, at, cursor, seen, quiet>>

\* The last issue of a full page.
NextCursor(asked) == asked[Limit]

\* Take one more than the limit, cut.
EndPage ==
    LET more == Len(fetched) > Limit
        items == SubSeq(fetched, 1, IF more THEN Limit ELSE Len(fetched))
    IN  /\ at = "fetch"
        /\ todo = {}
        /\ at' = IF more THEN "between" ELSE "last"
        /\ cursor' = IF more THEN NextCursor(fetched) ELSE None
        /\ seen' = seen \o items
        /\ UNCHANGED <<last, todo, fetched, quiet>>

Next ==
    \/ at # "last" /\ \E i \in Issues, t \in Times : Bump(i, t)
    \/ BeginPage
    \/ \E e \in todo : FetchIssue(e)
    \/ EndPage

Spec == Init /\ [][Next]_vars

-----------------------------------------------------------------------------
(* Properties.                                                             *)

\* The variables keep their types; the cursor is the end of the last page.
TypeOK ==
    /\ last \in [Issues -> {0} \cup Times]
    /\ at \in {"first", "fetch", "between", "last"}
    /\ cursor \in Entry \cup {None}
    /\ todo \in SUBSET Entry
    /\ fetched \in Seq(Entry)
    /\ seen \in Seq(Entry)
    /\ quiet \in SUBSET Issues
    /\ at = "between" => cursor = Last(seen)

\* The pages together have every issue of the range that did not change
\* meanwhile: another one that moved up while it was read can raise the
\* cursor, never lower it.
QuietFound ==
    at = "last" =>
        \A i \in quiet :
            last[i] >= Start /\ last[i] <= End =>
                \E k \in 1..Len(seen) : seen[k].id = i

\* If nothing moves, pages list the issues newest first, each once.  (An issue
\* that is seen again during a page is listed in its old place with its new
\* time, though README.md:102 says newest first.)
QuietInOrder ==
    {i \in Issues : last[i] # 0} \subseteq quiet =>
        \A j, k \in 1..Len(seen) : j < k => Precedes(seen[j], seen[k])

\* Pages of issues have every issue that did not change meanwhile, and are in
\* order if none does.
IssuesAreListed == TypeOK /\ QuietFound /\ QuietInOrder

=============================================================================
