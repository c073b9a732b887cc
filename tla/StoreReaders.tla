---------------------------- MODULE StoreReaders ----------------------------
(***************************************************************************)
(* The readers of the store: search_records, metric_query, get_record,     *)
(* search_issues and status (src/src/store.rs) over Archive::query and     *)
(* Archive::disk_space (src/src/archive.rs).  They take no lock: a read is *)
(* a sequence of looks at keyspaces and files, and the mutators of Store   *)
(* go on between any two of them.  One look at one keyspace is a snapshot. *)
(*                                                                         *)
(* Times, expressions and pages are left to Pagination: a query here asks  *)
(* for a project's records of one signal.                                  *)
(***************************************************************************)
EXTENDS Store

CONSTANT Reads        \* bound: the kinds of reads that are begun

VARIABLE read         \* the read in progress, or NoRead

readVars == <<vars, read>>

Kinds == {"search", "metric", "get", "issues", "status"}

\* ids are the records asked for; todo is what is still to be looked up, hot
\* and cold the rows found in the database and in files, issues those found.
\* History of the read: held are the rows served from its beginning on, ever
\* those stored at some time, moved those that left a tier meanwhile, known the
\* issues that lasted so far.
NoRead == [kind |-> "none", at |-> "idle", project |-> 0, ids |-> {},
           todo |-> {}, hot |-> {}, cold |-> {}, issues |-> {},
           held |-> {}, ever |-> {}, moved |-> {}, known |-> {}]

Reading == read.at \notin {"idle", "done", "failed"}

-----------------------------------------------------------------------------
(* The two tiers.                                                          *)

OfSignal(s) == {r \in Records : SignalOf[r] = s}

Asked(rows, p, ids) == {x \in rows : x.project = p /\ x.id \in ids}

\* The rows a project that is not being removed can be asked for.
Served(d) == {x \in Stored(d) : x.project \in Serving(d)}

ServedIssues(d, p) ==
    {i.issue : i \in {j \in Of(d.issues, p) : p \in Serving(d)}}

\* The manifests a query for some records lists: of a project and a signal.
Shelves(d, p, ids) ==
    {m \in d.manifests : m.project = p /\ \E r \in ids : m.signal = SignalOf[r]}

\* The rows that the entries of the time index name.
Indexed(d, p, ids) ==
    {x \in Asked(d.records, p, ids) : EventIndex(x) \in d.record_indexes}

\* A read begins with its first look, at todo.
Begin(kind, p, ids, at, todo) ==
    /\ ~opening
    /\ read.at = "idle"
    /\ kind \in Reads
    /\ read' = [NoRead EXCEPT
                  !.kind = kind, !.at = at, !.project = p, !.ids = ids,
                  !.todo = todo,
                  !.held = Asked(Served(db), p, ids),
                  !.ever = Asked(Stored(db), p, ids),
                  !.known = ServedIssues(db, p)]
    /\ UNCHANGED vars

Continue(at, todo) ==
    /\ read' = [read EXCEPT !.at = at, !.todo = todo]
    /\ UNCHANGED vars

-----------------------------------------------------------------------------
(* search_records and metric_query: the index, each record, the manifests, *)
(* each file.                                                              *)

BeginQuery(kind, p, s) ==
    /\ kind \in {"search", "metric"}
    /\ Begin(kind, p, OfSignal(s), "rows", Indexed(db, p, OfSignal(s)))

\* Latest first; an entry whose record is gone is skipped.
FetchRow(x) ==
    /\ read.at = "rows"
    /\ \A y \in read.todo : TimeOf[y.id] <= TimeOf[x.id]
    /\ read' = [read EXCEPT !.todo = @ \ {x},
                            !.hot = @ \cup ({x} \cap db.records)]
    /\ UNCHANGED vars

\* Mutant of ListManifests: the archive is not asked when the hot tier
\* answered.
ListManifestsIfNone ==
    /\ read.at = "rows"
    /\ read.todo = {}
    /\ Continue("files", IF read.hot = {}
                         THEN Shelves(db, read.project, read.ids) ELSE {})

\* archive_paths: the manifests of the project and the signal, after the
\* hot tier.
ListManifests ==
    /\ read.at = "rows"
    /\ read.todo = {}
    /\ Continue("files", Shelves(db, read.project, read.ids))

\* DuckDB opens one of the listed files; a missing one fails the query.
ReadFile(m) ==
    /\ read.at = "files"
    /\ Published(m) \in files
    /\ read' = [read EXCEPT !.todo = @ \ {m},
                            !.cold = @ \cup Asked(m.rows, read.project, read.ids)]
    /\ UNCHANGED vars

FileMissing(m) ==
    /\ read.at = "files"
    /\ Published(m) \notin files
    /\ Continue("failed", {m})

AllFilesRead ==
    /\ read.at = "files"
    /\ read.todo = {}
    /\ Continue("done", {})

-----------------------------------------------------------------------------
(* get_record: record_ids, then the record; or archive_ids, the manifest   *)
(* and its file.                                                           *)

BeginGet(p, r) ==
    LET key == [project |-> p, id |-> r]
    IN  IF key \in db.record_ids
        THEN Begin("get", p, {r}, "row", {x \in db.records : Key(x) = key})
        ELSE Begin("get", p, {r}, "archive_ids", {key})

\* The record record_ids named may be gone: the answer is then None.
GetRow ==
    /\ read.at = "row"
    /\ read' = [read EXCEPT !.at = "done", !.todo = {},
                            !.hot = read.todo \cap db.records]
    /\ UNCHANGED vars

GetArchiveId ==
    LET named == {a \in db.archive_ids : Key(a) \in read.todo}
    IN  /\ read.at = "archive_ids"
        /\ Continue(IF named = {} THEN "done" ELSE "manifest", named)

GetManifest ==
    LET named == {m \in db.manifests : \E a \in read.todo : a.part = m.part}
    IN  /\ read.at = "manifest"
        /\ Continue(IF named = {} THEN "done" ELSE "files", named)

-----------------------------------------------------------------------------
(* search_issues and status.                                               *)

BeginIssues(p) ==
    Begin("issues", p, {}, "issues",
          {e \in Of(db.record_indexes, p) : e.kind = "u"})

IssueNamed(e) == {i \in Of(db.issues, e.project) : i.issue = e.id}

FetchIssue(e) ==
    /\ read.at = "issues"
    /\ \A other \in read.todo : other.time <= e.time
    /\ IssueNamed(e) # {}
    /\ read' = [read EXCEPT !.todo = @ \ {e}, !.issues = @ \cup {e.id}]
    /\ UNCHANGED vars

\* "issue index points to a missing issue"
IssueMissing(e) ==
    /\ read.at = "issues"
    /\ IssueNamed(e) = {}
    /\ Continue("failed", {e})

AllIssuesFetched ==
    /\ read.at = "issues"
    /\ read.todo = {}
    /\ Continue("done", {})

\* status counts the whole store: the manifests' counters ...
BeginStatus ==
    LET listed == UNION {m.rows : m \in db.manifests}
    IN  /\ ~opening
        /\ read.at = "idle"
        /\ "status" \in Reads
        /\ read' = [NoRead EXCEPT !.kind = "status", !.at = "count",
                                  !.cold = listed,
                                  !.held = Served(db), !.ever = Stored(db)]
        /\ UNCHANGED vars

\* ... then the hot records, then the size of every file there is.
CountRecords ==
    /\ read.at = "count"
    /\ read' = [read EXCEPT !.at = "list", !.hot = db.records]
    /\ UNCHANGED vars

ListFiles ==
    /\ read.at = "list"
    /\ Continue("sizes", files)

\* A file that vanished since it was listed fails the request.
SizeFile(f) ==
    /\ read.at = "sizes"
    /\ IF f \in files THEN Continue("sizes", read.todo \ {f})
                      ELSE Continue("failed", {f})

AllSized ==
    /\ read.at = "sizes"
    /\ read.todo = {}
    /\ Continue("done", {})

-----------------------------------------------------------------------------
(* The composition.  An answer is given at once; Return forgets it.        *)

Return ==
    /\ read.at \in {"done", "failed"}
    /\ read' = NoRead
    /\ UNCHANGED vars

Ours(rows) ==
    IF read.kind = "status" THEN rows ELSE Asked(rows, read.project, read.ids)

Archive(d) == UNION {m.rows : m \in d.manifests}

\* Uuids are fresh for readers too.
Listed == {m.part : m \in IF read.at \in {"manifest", "files"} THEN read.todo
                          ELSE {}}

\* A step of a mutator, and what it does to the history of a read.
Mutate ==
    /\ read.at \notin {"done", "failed"}
    /\ Job \/ Calls \/ JobFails
    /\ \A f \in files' \ files : f.part \notin Listed
    /\ read' = IF ~Reading THEN read ELSE
         [read EXCEPT
            !.held = @ \cap Served(db'),
            !.ever = @ \cup Ours(Stored(db')),
            !.moved = @ \cup Ours(db.records \ db'.records)
                        \cup Ours(Archive(db) \ Archive(db')),
            !.known = @ \cap ServedIssues(db', read.project)]

Signals == {SignalOf[r] : r \in Records}

BeginRead ==
    \E p \in 1..MaxProjects :
        \/ \E kind \in Kinds, s \in Signals : BeginQuery(kind, p, s)
        \/ \E r \in Records : BeginGet(p, r)
        \/ BeginIssues(p)

ContinueQuery ==
    \/ \E x \in read.todo : FetchRow(x)
    \/ ListManifests
    \/ \E m \in read.todo : ReadFile(m) \/ FileMissing(m)
    \/ AllFilesRead

ContinueGet == GetRow \/ GetArchiveId \/ GetManifest

ContinueIssues ==
    \/ \E e \in read.todo : FetchIssue(e) \/ IssueMissing(e)
    \/ AllIssuesFetched

ContinueStatus ==
    \/ CountRecords
    \/ ListFiles
    \/ \E f \in read.todo : SizeFile(f)
    \/ AllSized

ReaderStep ==
    \/ BeginRead \/ BeginStatus \/ Return
    \/ ContinueQuery \/ ContinueGet \/ ContinueIssues \/ ContinueStatus

ReadersInit == Init /\ read = NoRead

ReadersNext == Mutate \/ ReaderStep

ReadersSpec == ReadersInit /\ [][ReadersNext]_readVars

-----------------------------------------------------------------------------
(* Properties.                                                             *)

Found == read.hot \cup read.cold
Answered(kinds) == read.kind \in kinds /\ read.at = "done"

\* The variable keeps its type.
ReadTypeOK ==
    /\ read.kind \in Kinds \cup {"none"}
    /\ read.at \in {"idle", "rows", "files", "row", "archive_ids", "manifest",
                    "issues", "count", "list", "sizes", "done", "failed"}
    /\ read.project \in Nat
    /\ read.ids \subseteq Records
    /\ read.hot \cup read.cold \cup read.held \cup read.ever \cup read.moved
          \subseteq RecordRow
    /\ read.issues \cup read.known \subseteq Issues

\* A query that answers has every record that was stored all the time,
\* though archival moved it between the two looks, or before the first, and
\* nothing that was not stored at some time of the read.
QueryFindsStored ==
    Answered({"search", "metric"}) =>
        /\ read.held \subseteq Found
        /\ Found \subseteq read.ever

\* metric_query adds the two tiers up without deduplication: a sample counts
\* twice only when it left a tier during the query.
MetricCountsMovedTwice ==
    Answered({"metric"}) => read.hot \cap read.cold \subseteq read.moved

\* Hot first, archive second: get_record misses a stored record only when
\* archival moved it between its first two looks.
GetFindsUnmoved ==
    Answered({"get"}) =>
        /\ Found \subseteq read.ever
        /\ Cardinality(Found) <= 1
        /\ Found = {} => read.held \subseteq read.moved

\* A listed part whose file is gone was unpublished during the read: archival
\* and cleanup alone never fail a query.
FailsOnlyWhenUnpublished ==
    [][read'.at = "failed" /\ read.at = "files" =>
          \A m \in read'.todo : \A n \in db.manifests : n.part # m.part]_readVars

\* search_issues finds every issue that was there all the time: an update
\* replaces its index entry in one batch.  (An issue evicted between the index
\* and the fetch fails the request as IssueMissing, though no index is broken.)
IssuesFindLasting ==
    Answered({"issues"}) => read.known \subseteq read.issues

\* status counts a record twice, or misses one that was always there, only if
\* it left a tier between the manifests and the records.
StatusCountsOnce ==
    Answered({"status"}) =>
        /\ read.hot \cap read.cold \subseteq read.moved
        /\ Found \subseteq read.ever
        /\ read.held \subseteq Found \cup read.moved

\* An answer has everything that stayed where it was, and nothing that was never
\* there.
AnswersAreRight ==
    /\ ReadTypeOK
    /\ QueryFindsStored /\ MetricCountsMovedTwice /\ GetFindsUnmoved
    /\ IssuesFindLasting /\ StatusCountsOnce

=============================================================================
