-------------------------------- MODULE McpGet --------------------------------
(***************************************************************************)
(* The get tool of the MCP bridge (src/src/mcp.rs): up to four requests to *)
(* the daemon, one after the other, each of which looks at the store in    *)
(* several steps, while events arrive, move to the archive and are evicted.*)
(* The id asked for is that of a record or of an issue.                    *)
(*                                                                         *)
(* One issue of one project; Records are its errors.                       *)
(***************************************************************************)
EXTENDS Naturals, FiniteSets, FiniteSetsExt

CONSTANTS
    Records,
    TimeOf,           \* the event time of a record
    Issue,            \* the id of the issue
    None,
    MaxArrivals       \* bound: records accepted, again after an eviction too

\* What is read of an issue.
IssueRow == [last : Nat, retained : Nat, latest : Records \cup {None}]

McpAssumption ==
    /\ IsFiniteSet(Records)
    /\ TimeOf \in [Records -> Nat]
    /\ Issue \notin Records /\ None \notin Records \cup {Issue} \cup IssueRow
    /\ MaxArrivals \in Nat

VARIABLES
    tier,             \* where each record is: absent, hot, archived
    received,         \* when each record was accepted last
    issue,            \* the issue's row, or None
    call,             \* the call of the tool: [at, id, target, row, listed, answer]
    held,             \* the records stored ever since it began
    moved,            \* the records that left a tier since then
    lasting           \* whether the issue was there ever since

vars == <<tier, received, issue, call, held, moved, lasting>>

Stored == {r \in Records : tier[r] # "absent"}
Arrivals == Max({0} \cup {received[r] : r \in Records})

\* What is archived, each record by its reception: a part is written once.
ArchivedParts == {<<r, received[r]>> : r \in {s \in Records : tier[s] = "archived"}}

Idle == [at |-> "idle", id |-> None, target |-> None, row |-> None,
         listed |-> {}, answer |-> None]

Init ==
    /\ tier = [r \in Records |-> "absent"]
    /\ received = [r \in Records |-> 0]
    /\ issue = None
    /\ call = Idle
    /\ held = {}
    /\ moved = {}
    /\ lasting = FALSE

-----------------------------------------------------------------------------
(* The store.                                                              *)

Seen(r) ==
    LET row == IF issue # None THEN issue
               ELSE [last |-> TimeOf[r], retained |-> 0, latest |-> None]
    IN  IF TimeOf[r] >= row.last
        THEN [last |-> TimeOf[r], retained |-> row.retained + 1, latest |-> r]
        ELSE [row EXCEPT !.retained = @ + 1]

Arrive(r) ==
    /\ tier[r] = "absent"
    /\ Arrivals < MaxArrivals
    /\ tier' = [tier EXCEPT ![r] = "hot"]
    /\ received' = [received EXCEPT ![r] = Arrivals + 1]
    /\ issue' = Seen(r)
    /\ UNCHANGED <<call, held, moved, lasting>>

\* archive_before: what happened before a time, in one batch.
Archive(time) ==
    LET old == {r \in Records : tier[r] = "hot" /\ TimeOf[r] <= time}
    IN  /\ old # {}
        /\ tier' = [r \in Records |-> IF r \in old THEN "archived" ELSE tier[r]]
        /\ moved' = moved \cup old
        /\ UNCHANGED <<received, issue, call, held, lasting>>

\* decrement_retained_issue
Unseen(records) ==
    [issue EXCEPT !.retained = @ - Cardinality(records),
                  !.latest = IF @ \in records THEN None ELSE @]

\* Eviction takes archive parts first, then the hot records longest here.
Evict(records) ==
    /\ records # {}
    /\ \/ \A r \in records : tier[r] = "archived"
       \/ /\ \A r \in Records : tier[r] # "archived"
          /\ \E r \in Records : /\ records = {r} /\ tier[r] = "hot"
                                /\ \A s \in Stored : received[r] <= received[s]
    /\ tier' = [r \in Records |-> IF r \in records THEN "absent" ELSE tier[r]]
    /\ issue' = IF issue = None THEN None ELSE Unseen(records)
    /\ held' = held \ records
    /\ moved' = moved \cup records
    /\ UNCHANGED <<received, call, lasting>>

\* ... and issues last.
EvictIssue ==
    /\ issue # None /\ Stored = {}
    /\ issue' = None
    /\ lasting' = FALSE
    /\ UNCHANGED <<tier, received, call, held, moved>>

-----------------------------------------------------------------------------
(* get_record, for the record call.target.                                 *)

Goto(at) == call' = [call EXCEPT !.at = at]
Store == <<tier, received, issue, held, moved, lasting>>

LookHot ==
    /\ call.at = "ids"
    /\ Goto(IF call.target # Issue /\ tier[call.target] = "hot" THEN "row" ELSE "archive")
    /\ UNCHANGED Store

Fetched(found) ==
    call' = [call EXCEPT !.at = IF call.row = None THEN "record" ELSE "latest",
                         !.listed = {},
                         !.answer = IF found THEN call.target ELSE None]

FetchRow ==
    /\ call.at = "row"
    /\ Fetched(tier[call.target] = "hot")
    /\ UNCHANGED Store

LookArchive ==
    /\ call.at = "archive"
    /\ IF call.target # Issue /\ tier[call.target] = "archived"
       THEN call' = [call EXCEPT !.at = "file",
                                 !.listed = {<<call.target, received[call.target]>>}]
       ELSE Fetched(FALSE)
    /\ UNCHANGED Store

\* A part that was unpublished meanwhile is missing, or fails the request.
ReadPart ==
    /\ call.at = "file"
    /\ \/ Fetched(call.listed \subseteq ArchivedParts)
       \/ ~(call.listed \subseteq ArchivedParts) /\ Goto("failed")
    /\ UNCHANGED Store

-----------------------------------------------------------------------------
(* The tool.                                                               *)

Begin(id) ==
    /\ call.at = "idle"
    /\ call' = [Idle EXCEPT !.at = "ids", !.id = id, !.target = id]
    /\ held' = Stored
    /\ moved' = {}
    /\ lasting' = (issue # None)
    /\ UNCHANGED <<tier, received, issue>>

\* Without a record of that id, an issue is looked for.
RecordAnswered ==
    /\ call.at = "record"
    /\ Goto(IF call.answer # None THEN "done" ELSE "issue")
    /\ UNCHANGED Store

\* The issue that was found is that of the id, and its latest record is read.
FindIssue ==
    /\ call.at = "issue"
    /\ IF call.id # Issue \/ issue = None THEN Goto("not found")
       ELSE call' = [call EXCEPT !.row = issue, !.target = issue.latest,
                                 !.at = IF issue.latest = None THEN "latest" ELSE "ids"]
    /\ UNCHANGED Store

\* If it is gone, the newest of those retained.
LatestAnswered ==
    /\ call.at = "latest"
    /\ Goto(IF call.answer = None /\ call.row.retained > 0 THEN "hot" ELSE "done")
    /\ UNCHANGED Store

Newest(records) ==
    IF records = {} THEN {None}
    ELSE {r \in records : \A s \in records : TimeOf[s] <= TimeOf[r]}

InTier(t) == {r \in Records : tier[r] = t}

\* search_records with limit 1: the newest hot record ...
SearchHot ==
    /\ call.at = "hot"
    /\ \E r \in Newest(InTier("hot")) : call' = [call EXCEPT !.at = "cold", !.answer = r]
    /\ UNCHANGED Store

\* ... then, for a newer one, the archive: its files are listed ...
ListArchive ==
    /\ call.at = "cold"
    /\ call' = [call EXCEPT !.at = "files", !.listed = ArchivedParts]
    /\ UNCHANGED Store

Listed == {part[1] : part \in call.listed}

\* One that was unpublished since then fails the request.
Search(records) ==
    IF call.listed \subseteq ArchivedParts
    THEN \E r \in records : call' = [call EXCEPT !.at = "done", !.answer = r]
    ELSE Goto("failed")

\* Mutant of SearchArchive: the archive is asked only for what is missing.
SearchArchiveIfEmpty ==
    /\ call.at = "files"
    /\ Search(IF call.answer = None THEN Newest(Listed) ELSE {call.answer})
    /\ UNCHANGED Store

\* ... and read.
SearchArchive ==
    /\ call.at = "files"
    /\ Search(Newest(Listed \cup ({call.answer} \ {None})))
    /\ UNCHANGED Store

Return ==
    /\ call.at \in {"done", "not found", "failed"}
    /\ call' = Idle
    /\ UNCHANGED Store

Mutate ==
    /\ \/ \E r \in Records : Arrive(r)
       \/ \E r \in Records : Archive(TimeOf[r])
       \/ \E records \in SUBSET Records : Evict(records)
       \/ EvictIssue

Tool ==
    \/ \E id \in Records \cup {Issue} : Begin(id)
    \/ LookHot \/ FetchRow \/ LookArchive \/ ReadPart
    \/ RecordAnswered \/ FindIssue \/ LatestAnswered
    \/ SearchHot \/ ListArchive \/ SearchArchive \/ Return

Next == Mutate \/ Tool

Spec == Init /\ [][Next]_vars

-----------------------------------------------------------------------------
(* Properties.                                                             *)

\* The variables keep their types, and the issue counts what is stored.
TypeOK ==
    /\ tier \in [Records -> {"absent", "hot", "archived"}]
    /\ received \in [Records -> Nat]
    /\ issue \in IssueRow \cup {None}
    /\ issue # None => issue.retained = Cardinality(Stored)
    /\ call.answer \in Records \cup {None}
    /\ held \cup moved \subseteq Records

\* A record that was stored during the whole call is found, unless archival
\* moved it meanwhile; an issue that was there the whole time is always found.
NotFoundIsRight ==
    call.at = "not found" =>
        IF call.id = Issue THEN ~lasting ELSE call.id \in held => call.id \in moved

\* An issue is shown without an event only if no event of it was stored
\* during the whole call: that the latest one was evicted, or moved between
\* two looks, is made up for by the search.
IssueHasItsEvent ==
    call.at = "done" /\ call.answer = None => held = {}

\* The event shown with an issue is the latest of those that stayed.
ShowsTheLatest ==
    call.at = "done" /\ call.id = Issue /\ call.answer # None =>
        \A r \in held : TimeOf[r] <= TimeOf[call.answer]

\* Only an eviction during the call makes it fail: that of a record whose part
\* had been listed.
FailsOnlyWhenEvicted ==
    call.at = "failed" => \E part \in call.listed : part[1] \in moved \ held

\* The get tool misses only records that moved, shows an issue with the latest
\* event that stayed, and fails only if an eviction came between.
GetFindsWhatStays ==
    TypeOK /\ NotFoundIsRight /\ IssueHasItsEvent /\ ShowsTheLatest /\ FailsOnlyWhenEvicted

=============================================================================
