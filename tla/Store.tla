------------------------------- MODULE Store --------------------------------
(***************************************************************************)
(* The telemetry store (src/src/store.rs) over the archive directory       *)
(* (src/src/archive.rs): a Fjall database, the Parquet files beside it,    *)
(* and the mutators, which run one at a time under Store::mutations.       *)
(*                                                                         *)
(* A mutator is a sequence of atomic steps: database batches and file      *)
(* system calls.  pc is the step the lock holder is at; pc = "idle" means  *)
(* that the lock is free.  Between two steps the process can be killed,    *)
(* the machine can lose power, or a call can fail.                         *)
(*                                                                         *)
(* Every stored row is one logical byte.  Two records of a project have    *)
(* different ids, and a record's id stands for its source id as well.      *)
(***************************************************************************)
EXTENDS Naturals, FiniteSets, FiniteSetsExt, Absent

CONSTANTS
    Records,          \* what clients send; the id names the record
    ProjectOf,        \* the project a record was authorised for
    SignalOf,         \* its signal
    IssueOf,          \* the issue of an error record, else None
    StreamOf,         \* the stream of a cumulative sum, else None
    TimeOf,           \* its event time, in milliseconds
    Names,            \* project names
    Clock,            \* receive times
    DayLength,        \* clock ticks in a receive date
    Parts,            \* the uuids that name archive parts
    Target,           \* the logical storage target
    Safe,             \* Durability::Safe
    ChunkSize,        \* keys per batch of remove_prefix, 1000 in the code
    Crashes,          \* whether the process and the machine may die
    CallsFail,        \* whether disk and database calls may fail
    MaxProjects,      \* bound: projects ever created
    MaxSeen           \* bound: an issue's total_seen

Issues == {IssueOf[r] : r \in Records} \ {None}
Streams == {StreamOf[r] : r \in Records} \ {None}

ASSUME RecordAssumption ==
    /\ ProjectOf \in [Records -> Nat \ {0}]
    /\ TimeOf \in [Records -> Nat]
    /\ DOMAIN SignalOf = Records
    /\ DOMAIN IssueOf = Records
    /\ DOMAIN StreamOf = Records
    /\ IsFiniteSet(Records)

ASSUME BoundAssumption ==
    /\ Clock \subseteq Nat
    /\ DayLength \in Nat \ {0}
    /\ Target \in Nat \ {0}
    /\ Safe \in BOOLEAN
    /\ ChunkSize \in Nat \ {0}
    /\ Crashes \in BOOLEAN
    /\ CallsFail \in BOOLEAN
    /\ MaxProjects \in Nat
    /\ MaxSeen \in Nat

VARIABLES
    db,               \* the database, as reads see it
    recoverable,      \* the databases a power loss can leave behind
    files,            \* the files below the archive directory
    pc,               \* the step the holder of the mutation lock is at
    opening,          \* Store::open has not returned
    removing,         \* the project finish_project_removal works on
    stage,            \* the keyspace it is clearing
    cutoff,           \* archive_before's argument
    part,             \* the manifest archive_before is publishing
    doomed            \* unpublished parts whose files are still to go

vars == <<db, recoverable, files, pc, opening, removing, stage, cutoff, part,
          doomed>>

-----------------------------------------------------------------------------
(* Keyspaces.  Every row carries its project, the prefix of its key.       *)

Stages == {"records", "record_indexes", "record_ids", "source_ids",
           "cumulative_sums", "issues", "archive_ids"}

\* Mutant of After: one keyspace is forgotten.
AfterForgotten ==
    [records |-> "record_indexes", record_indexes |-> "record_ids",
     record_ids |-> "source_ids", source_ids |-> "cumulative_sums",
     cumulative_sums |-> "issues", issues |-> "manifests",
     archive_ids |-> "manifests"]

\* Mutant of After: the last keyspace leads back to the first.
AfterCycle ==
    [records |-> "record_indexes", record_indexes |-> "record_ids",
     record_ids |-> "source_ids", source_ids |-> "cumulative_sums",
     cumulative_sums |-> "issues", issues |-> "archive_ids",
     archive_ids |-> "records"]

\* The order in which finish_project_removal clears them.
After == [records |-> "record_indexes", record_indexes |-> "record_ids",
          record_ids |-> "source_ids", source_ids |-> "cumulative_sums",
          cumulative_sums |-> "issues", issues |-> "archive_ids",
          archive_ids |-> "manifests"]

ProjectRow == [id : Nat, name : Names, status : {"Active", "Deleting"}]
RecordRow == [project : Nat, id : Records, at : Nat]
IndexRow == [project : Nat, kind : {"e", "u"}, id : Records \cup Issues,
             time : Nat]
IdRow == [project : Nat, id : Records]
SumRow == [project : Nat, stream : Streams]
IssueRow == [project : Nat, issue : Issues, first : Nat, last : Nat,
             total : Nat, retained : Nat, latest : Records \cup {None}]
ArchivedRow == [project : Nat, id : Records, part : Parts]
Manifest == [project : Nat, part : Parts, signal : {SignalOf[r] : r \in Records},
             oldest : Nat, rows : SUBSET RecordRow]
Database == [projects : SUBSET ProjectRow, next : Nat,
             records : SUBSET RecordRow, record_indexes : SUBSET IndexRow,
             record_ids : SUBSET IdRow, source_ids : SUBSET IdRow,
             cumulative_sums : SUBSET SumRow, issues : SUBSET IssueRow,
             archive_ids : SUBSET ArchivedRow, manifests : SUBSET Manifest]
File == [part : Parts, ext : {"tmp", "parquet"}, rows : SUBSET RecordRow]

EmptyDatabase ==
    [projects |-> {}, next |-> 1, records |-> {}, record_indexes |-> {},
     record_ids |-> {}, source_ids |-> {}, cumulative_sums |-> {},
     issues |-> {}, archive_ids |-> {}, manifests |-> {}]

Active(d, p) == \E q \in d.projects : q.id = p /\ q.status = "Active"
Key(row) == [project |-> row.project, id |-> row.id]
EventIndex(row) == [project |-> row.project, kind |-> "e", id |-> row.id,
                    time |-> TimeOf[row.id]]
IssueIndex(issue) == [project |-> issue.project, kind |-> "u",
                      id |-> issue.issue, time |-> issue.last]
Published(m) == [part |-> m.part, ext |-> "parquet", rows |-> m.rows]


\* Store::logical_bytes: hot records, issues, cumulative sums and manifests.
Logical(d) ==
    Cardinality(d.records) + Cardinality(d.issues)
        + Cardinality(d.cumulative_sums)
        + Cardinality(UNION {{m} \X m.rows : m \in d.manifests})

-----------------------------------------------------------------------------
(* The database: a batch is atomic; a SyncAll commit also makes durable    *)
(* every earlier one, a Buffer commit only reaches the operating system.   *)

Commit(d, synced) ==
    /\ db' = d
    /\ recoverable' = IF synced THEN {d} ELSE recoverable \cup {d}

Free == pc = "idle"

Locals == <<opening, removing, stage, cutoff, part, doomed>>

Release ==
    /\ pc' = "idle"
    /\ removing' = 0
    /\ stage' = "records"
    /\ cutoff' = 0
    /\ part' = None
    /\ doomed' = {}

Init ==
    /\ db = EmptyDatabase
    /\ recoverable = {EmptyDatabase}
    /\ files = {}
    /\ pc = "resume"
    /\ opening = TRUE
    /\ removing = 0
    /\ stage = "records"
    /\ cutoff = 0
    /\ part = None
    /\ doomed = {}

-----------------------------------------------------------------------------
(* Projects and ingest.                                                    *)

\* Mutant of AddProject: the new id and the counter are not synced.
AddProjectBuffered(name) ==
    /\ Free
    /\ db.next <= MaxProjects
    /\ \A q \in db.projects : q.name # name
    /\ Commit([db EXCEPT
                 !.projects = @ \cup {[id |-> db.next, name |-> name,
                                       status |-> "Active"]},
                 !.next = @ + 1], FALSE)
    /\ UNCHANGED <<files, pc, Locals>>

AddProject(name) ==
    /\ Free
    /\ db.next <= MaxProjects
    /\ \A q \in db.projects : q.name # name
    /\ Commit([db EXCEPT
                 !.projects = @ \cup {[id |-> db.next, name |-> name,
                                       status |-> "Active"]},
                 !.next = @ + 1], TRUE)
    /\ UNCHANGED <<files, pc, Locals>>

\* What write_records keeps of a batch: records of live projects not seen.
Accepted(d, S) ==
    {r \in S : /\ Active(d, ProjectOf[r])
               /\ [project |-> ProjectOf[r], id |-> r] \notin d.source_ids}

IsOf(r, issue) == ProjectOf[r] = issue.project /\ IssueOf[r] = issue.issue

SameIssue(r, s) == ProjectOf[r] = ProjectOf[s] /\ IssueOf[r] = IssueOf[s]

\* One record per touched issue: the last one in the batch's order by time.
Newest(S) ==
    {T \in SUBSET {r \in S : IssueOf[r] # None} :
        /\ \A r \in S : IssueOf[r] # None => \E t \in T : SameIssue(r, t)
        /\ \A t \in T : \A r \in S : SameIssue(r, t) =>
              /\ TimeOf[r] <= TimeOf[t]
              /\ r \in T => r = t}

\* The issue a record updates: the row in the database or a new one.
Existing(d, t) ==
    IF \E i \in d.issues : IsOf(t, i)
    THEN CHOOSE i \in d.issues : IsOf(t, i)
    ELSE [project |-> ProjectOf[t], issue |-> IssueOf[t],
          first |-> TimeOf[t], last |-> TimeOf[t],
          total |-> 0, retained |-> 0, latest |-> None]

\* The issue row after the records of S that share t's issue, t the newest.
Bumped(d, S, t) ==
    LET new == {r \in S : SameIssue(r, t)}
        prior == Existing(d, t)
        moved == TimeOf[t] >= prior.last
    IN  [project |-> ProjectOf[t],
         issue |-> IssueOf[t],
         first |-> Min({prior.first} \cup {TimeOf[r] : r \in new}),
         last |-> IF moved THEN TimeOf[t] ELSE prior.last,
         total |-> prior.total + Cardinality(new),
         retained |-> prior.retained + Cardinality(new),
         latest |-> IF moved THEN t ELSE prior.latest]

\* Mutant of Written: an issue that moves keeps its old time index.
WrittenKeepsIndex(d, S, at, newest) ==
    LET rows == {[project |-> ProjectOf[r], id |-> r, at |-> at] : r \in S}
        old == {i \in d.issues : \E t \in newest : IsOf(t, i)}
        new == {Bumped(d, S, t) : t \in newest}
    IN  [d EXCEPT
           !.records = @ \cup rows,
           !.record_ids = @ \cup {Key(x) : x \in rows},
           !.source_ids = @ \cup {Key(x) : x \in rows},
           !.record_indexes = @ \cup {EventIndex(x) : x \in rows}
                                \cup {IssueIndex(i) : i \in new},
           !.issues = (@ \ old) \cup new,
           !.cumulative_sums = @ \cup
               {[project |-> ProjectOf[r], stream |-> StreamOf[r]] :
                   r \in {q \in S : StreamOf[q] # None}}]

Written(d, S, at, newest) ==
    LET rows == {[project |-> ProjectOf[r], id |-> r, at |-> at] : r \in S}
        old == {i \in d.issues : \E t \in newest : IsOf(t, i)}
        new == {Bumped(d, S, t) : t \in newest}
        summed == {r \in S : StreamOf[r] # None}
    IN  [d EXCEPT
           !.records = @ \cup rows,
           !.record_ids = @ \cup {Key(x) : x \in rows},
           !.source_ids = @ \cup {Key(x) : x \in rows},
           !.record_indexes = (@ \ {IssueIndex(i) : i \in old})
                                 \cup {EventIndex(x) : x \in rows}
                                 \cup {IssueIndex(i) : i \in new},
           !.issues = (@ \ old) \cup new,
           !.cumulative_sums = @ \cup
               {[project |-> ProjectOf[r], stream |-> StreamOf[r]] :
                   r \in summed}]

\* Mutant of WriteRecords: always as in fast mode.
WriteRecordsBuffered(S, at) ==
    /\ Free
    /\ \E newest \in Newest(Accepted(db, S)) :
          Commit(Written(db, Accepted(db, S), at, newest), FALSE)
    /\ \A i \in db'.issues : i.total <= MaxSeen
    /\ UNCHANGED <<files, pc, Locals>>

WriteRecords(S, at) ==
    /\ Free
    /\ \E newest \in Newest(Accepted(db, S)) :
          Commit(Written(db, Accepted(db, S), at, newest), Safe)
    /\ \A i \in db'.issues : i.total <= MaxSeen
    /\ UNCHANGED <<files, pc, Locals>>

\* Store::persist, at shutdown; it does not take the lock.
Persist ==
    /\ ~opening
    /\ Commit(db, TRUE)
    /\ UNCHANGED <<files, pc, Locals>>

-----------------------------------------------------------------------------
(* Archival: one part file and one batch per (project, signal, date).      *)

Date(at) == at \div DayLength

SameGroup(x, y) ==
    /\ x.project = y.project
    /\ SignalOf[x.id] = SignalOf[y.id]
    /\ Date(x.at) = Date(y.at)

\* Uuids are fresh: no database and no file mentions the part.
Fresh(p) ==
    /\ \A f \in files : f.part # p
    /\ \A d \in recoverable \cup {db} :
          /\ \A m \in d.manifests : m.part # p
          /\ \A a \in d.archive_ids : a.part # p

Before(time) == {x \in db.records : x.at < time}
Groups(rows) == {{y \in rows : SameGroup(x, y)} : x \in rows}
Cold == Before(cutoff)

\* The bound is Parts: the instance has a uuid for every group.
ArchiveBefore(time) ==
    /\ Free
    /\ Cardinality(Groups(Before(time)))
          <= Cardinality({p \in Parts : Fresh(p)})
    /\ pc' = "archive"
    /\ cutoff' = time
    /\ UNCHANGED <<db, recoverable, files, opening, removing, stage, part,
                   doomed>>

\* Archive::write copies a group to part-<id>.parquet.tmp ...
WriteTemporary(x, p) ==
    LET rows == {y \in Cold : SameGroup(x, y)}
    IN  /\ pc = "archive"
        /\ Fresh(p)
        /\ files' = files \cup {[part |-> p, ext |-> "tmp", rows |-> rows]}
        /\ part' = [project |-> x.project, part |-> p,
                    signal |-> SignalOf[x.id],
                    oldest |-> Min({y.at : y \in rows}), rows |-> rows]
        /\ pc' = "rename"
        /\ UNCHANGED <<db, recoverable, opening, removing, stage, cutoff,
                       doomed>>

\* Mutant of RenameTemporary: the file keeps its temporary name.
RenameTemporaryNever ==
    /\ pc = "rename"
    /\ pc' = "publish"
    /\ UNCHANGED <<db, recoverable, files, Locals>>

\* ... syncs it and renames it into place.
RenameTemporary ==
    /\ pc = "rename"
    /\ files' = {f \in files : f.part # part.part} \cup {Published(part)}
    /\ pc' = "publish"
    /\ UNCHANGED <<db, recoverable, Locals>>

\* Mutant of Archived: record_ids still says hot.
ArchivedKeepsIds(d, m) ==
    [d EXCEPT
       !.records = @ \ m.rows,
       !.record_indexes = @ \ {EventIndex(x) : x \in m.rows},
       !.archive_ids = @ \cup
           {[project |-> x.project, id |-> x.id, part |-> m.part] :
               x \in m.rows},
       !.manifests = @ \cup {m}]

Archived(d, m) ==
    [d EXCEPT
       !.records = @ \ m.rows,
       !.record_ids = @ \ {Key(x) : x \in m.rows},
       !.record_indexes = @ \ {EventIndex(x) : x \in m.rows},
       !.archive_ids = @ \cup
           {[project |-> x.project, id |-> x.id, part |-> m.part] :
               x \in m.rows},
       !.manifests = @ \cup {m}]

PublishManifest ==
    /\ pc = "publish"
    /\ Commit(Archived(db, part), TRUE)
    /\ pc' = "archive"
    /\ part' = None
    /\ UNCHANGED <<files, opening, removing, stage, cutoff, doomed>>

ArchiveDone ==
    /\ pc = "archive"
    /\ Cold = {}
    /\ Release
    /\ UNCHANGED <<db, recoverable, files, opening>>

-----------------------------------------------------------------------------
(* Retention: oldest partitions, then oldest hot records, then issues.     *)

EnforceStorageTarget ==
    /\ Free
    /\ Logical(db) > Target
    /\ pc' = "enforce"
    /\ UNCHANGED <<db, recoverable, files, Locals>>

OverTarget == pc = "enforce" /\ Logical(db) > Target

\* Mutant of Decremented: every issue pays for every row.
DecrementedAll(issues, rows) ==
    {[i EXCEPT !.retained = @ - Cardinality(rows)] : i \in issues}

\* decrement_retained_issue for every evicted row; a missing issue is skipped.
Decremented(issues, rows) ==
    LET ids(i) == {x.id : x \in {y \in rows :
                          y.project = i.project /\ IssueOf[y.id] = i.issue}}
        gone(i) == Cardinality(ids(i))
    IN  {[i EXCEPT !.retained = IF @ >= gone(i) THEN @ - gone(i) ELSE 0,
                   !.latest = IF @ \in ids(i) THEN None ELSE @] : i \in issues}

\* archive_ids rows are keyed by record id, so they go whatever their part.
WithoutPartition(d, m) ==
    [d EXCEPT
       !.archive_ids = {a \in @ : Key(a) \notin {Key(x) : x \in m.rows}},
       !.source_ids = @ \ {Key(x) : x \in m.rows},
       !.issues = Decremented(@, m.rows),
       !.manifests = @ \ {m}]

OldestPartitions ==
    {m \in db.manifests : \A n \in db.manifests :
        \/ m.oldest < n.oldest
        \/ m.oldest = n.oldest /\ m.project <= n.project}

\* Mutant of EvictPartition: the manifest's removal is not synced.
EvictPartitionBuffered(m) ==
    /\ OverTarget
    /\ Commit(WithoutPartition(db, m), FALSE)
    /\ pc' = "unlink"
    /\ doomed' = {m.part}
    /\ UNCHANGED <<files, opening, removing, stage, cutoff, part>>

EvictPartition(m) ==
    /\ OverTarget
    /\ Commit(WithoutPartition(db, m), TRUE)
    /\ pc' = "unlink"
    /\ doomed' = {m.part}
    /\ UNCHANGED <<files, opening, removing, stage, cutoff, part>>

WithoutHot(d, x) ==
    [d EXCEPT
       !.records = @ \ {x},
       !.record_ids = @ \ {Key(x)},
       !.source_ids = @ \ {Key(x)},
       !.record_indexes = @ \ {EventIndex(x)},
       !.issues = Decremented(@, {x})]

EvictHot(x) ==
    /\ OverTarget
    /\ db.manifests = {}
    /\ \A y \in db.records : x.at <= y.at
    /\ Commit(WithoutHot(db, x), TRUE)
    /\ UNCHANGED <<files, pc, Locals>>

EvictIssue(i) ==
    /\ OverTarget
    /\ db.manifests = {}
    /\ db.records = {}
    /\ \A j \in db.issues : i.first <= j.first
    /\ Commit([db EXCEPT !.issues = @ \ {i},
                         !.record_indexes = @ \ {IssueIndex(i)}], TRUE)
    /\ UNCHANGED <<files, pc, Locals>>

EnforceDone ==
    /\ pc = "enforce"
    /\ \/ Logical(db) <= Target
       \/ db.manifests = {} /\ db.records = {} /\ db.issues = {}
    /\ Release
    /\ UNCHANGED <<db, recoverable, files, opening>>

-----------------------------------------------------------------------------
(* Project removal: mark, sync, clear seven keyspaces chunk by chunk, drop  *)
(* the row, the name and the manifests in one batch, unlink the files.     *)

Removable(status) == {q \in db.projects : q.status \in status}

RemoveProject(q) ==
    /\ Free
    /\ Commit([db EXCEPT !.projects =
                  (@ \ {q}) \cup {[q EXCEPT !.status = "Deleting"]}], FALSE)
    /\ pc' = "mark"
    /\ removing' = q.id
    /\ UNCHANGED <<files, opening, stage, cutoff, part, doomed>>

SyncMark ==
    /\ pc = "mark"
    /\ Commit(db, TRUE)
    /\ pc' = "clear"
    /\ UNCHANGED <<files, Locals>>

Uncleared == {row \in db[stage] : row.project = removing}

\* remove_prefix: at most ChunkSize keys in one unsynced batch.
Chunks ==
    IF Cardinality(Uncleared) <= ChunkSize
    THEN {Uncleared} \ {{}}
    ELSE {chunk \in SUBSET Uncleared : Cardinality(chunk) = ChunkSize}

ClearChunk(chunk) ==
    /\ pc = "clear"
    /\ Commit([db EXCEPT ![stage] = @ \ chunk], FALSE)
    /\ UNCHANGED <<files, pc, Locals>>

ClearNext ==
    /\ pc = "clear"
    /\ Uncleared = {}
    /\ IF After[stage] \in Stages
       THEN stage' = After[stage] /\ UNCHANGED pc
       ELSE pc' = "drop" /\ UNCHANGED stage
    /\ UNCHANGED <<db, recoverable, files, opening, removing, cutoff, part,
                   doomed>>

DropProject ==
    LET gone == {m \in db.manifests : m.project = removing}
    IN  /\ pc = "drop"
        /\ Commit([db EXCEPT !.manifests = @ \ gone,
                             !.projects = {q \in @ : q.id # removing}], TRUE)
        /\ pc' = "unlink"
        /\ doomed' = {m.part : m \in gone}
        /\ UNCHANGED <<files, opening, removing, stage, cutoff, part>>

\* Archive::remove, after the batch that unpublished the part.
Unlink(p) ==
    /\ pc = "unlink"
    /\ files' = {f \in files : f.part # p \/ f.ext = "tmp"}
    /\ doomed' = doomed \ {p}
    /\ UNCHANGED <<db, recoverable, pc, opening, removing, stage, cutoff, part>>

\* Back to the eviction loop, to the caller, or to resume_deletions.
UnlinkDone ==
    /\ pc = "unlink"
    /\ doomed = {}
    /\ pc' = IF removing = 0 THEN "enforce"
             ELSE IF opening THEN "resume" ELSE "idle"
    /\ removing' = 0
    /\ stage' = "records"
    /\ UNCHANGED <<db, recoverable, files, opening, cutoff, part, doomed>>

-----------------------------------------------------------------------------
(* Store::open, failures and restarts.                                     *)

ResumeDeletion(q) ==
    /\ pc = "resume"
    /\ pc' = "clear"
    /\ removing' = q.id
    /\ UNCHANGED <<db, recoverable, files, opening, stage, cutoff, part, doomed>>

\* Mutant of Strays: temporaries are left alone.
StraysParquet ==
    {f \in files : f.ext = "parquet" /\ \A m \in db.manifests : m.part # f.part}

\* Archive::cleanup keeps exactly the published Parquet files.
Strays == {f \in files : f.ext = "tmp" \/
                         \A m \in db.manifests : m.part # f.part}

CleanUp(f) ==
    /\ pc = "resume"
    /\ Removable({"Deleting"}) = {}
    /\ files' = files \ {f}
    /\ UNCHANGED <<db, recoverable, pc, Locals>>

\* Mutant of OpenDone: interrupted removals are not resumed first.
OpenDoneEarly ==
    /\ pc = "resume"
    /\ Strays = {}
    /\ opening' = FALSE
    /\ Release
    /\ UNCHANGED <<db, recoverable, files>>

OpenDone ==
    /\ pc = "resume"
    /\ Removable({"Deleting"}) = {}
    /\ Strays = {}
    /\ opening' = FALSE
    /\ Release
    /\ UNCHANGED <<db, recoverable, files>>

\* A `?` on a disk, DuckDB or database error: the mutator returns early.
JobFails ==
    /\ CallsFail
    /\ ~opening
    /\ ~Free
    /\ Release
    /\ UNCHANGED <<db, recoverable, files, opening>>

Restart ==
    /\ Crashes
    /\ opening' = TRUE
    /\ pc' = "resume"
    /\ removing' = 0
    /\ stage' = "records"
    /\ cutoff' = 0
    /\ part' = None
    /\ doomed' = {}
    /\ UNCHANGED files

\* The process dies; what reached the operating system survives.
ProcessCrash ==
    /\ Restart
    /\ UNCHANGED <<db, recoverable>>

\* The machine dies: some suffix of the unsynced batches is lost.
PowerLoss(d) ==
    /\ Restart
    /\ db' = d
    /\ recoverable' = {d}

-----------------------------------------------------------------------------
(* The specification.                                                      *)

Archiver ==
    \/ \E x \in Cold, p \in Parts : WriteTemporary(x, p)
    \/ RenameTemporary
    \/ PublishManifest
    \/ ArchiveDone

Enforcer ==
    \/ \E m \in OldestPartitions : EvictPartition(m)
    \/ \E x \in db.records : EvictHot(x)
    \/ \E i \in db.issues : EvictIssue(i)
    \/ EnforceDone

Remover ==
    \/ SyncMark
    \/ \E chunk \in Chunks : ClearChunk(chunk)
    \/ ClearNext
    \/ DropProject
    \/ \E p \in doomed : Unlink(p)
    \/ UnlinkDone

Opener ==
    \/ \E q \in Removable({"Deleting"}) : ResumeDeletion(q)
    \/ \E f \in Strays : CleanUp(f)
    \/ OpenDone

\* What the holder of the lock does once it has started.
Job == Archiver \/ Enforcer \/ Remover \/ Opener

Calls ==
    \/ \E name \in Names : AddProject(name)
    \/ \E S \in SUBSET Records \ {{}}, at \in Clock : WriteRecords(S, at)
    \/ \E time \in Clock : ArchiveBefore(time + 1)
    \/ EnforceStorageTarget
    \/ \E q \in Removable({"Active", "Deleting"}) : RemoveProject(q)
    \/ Persist

Crash == ProcessCrash \/ \E d \in recoverable : PowerLoss(d)

Next == Job \/ Calls \/ JobFails \/ Crash

Spec == Init /\ [][Next]_vars

-----------------------------------------------------------------------------
(* Properties.                                                             *)

\* The variables keep their types: rows of each keyspace, the step of the
\* lock holder, and the manifest in flight.
TypeOK ==
    /\ db \in Database
    /\ recoverable \subseteq Database
    /\ files \subseteq File
    /\ pc \in {"idle", "archive", "rename", "publish", "enforce", "unlink",
               "mark", "clear", "drop", "resume"}
    /\ opening \in BOOLEAN
    /\ removing \in Nat
    /\ stage \in Stages
    /\ cutoff \in Nat
    /\ part \in Manifest \cup {None}
    /\ pc \in {"rename", "publish"} => part \in Manifest
    /\ doomed \subseteq Parts

\* Whatever a power loss leaves behind, every manifest it leaves names a
\* complete Parquet file: archive_before writes the file before the batch
\* that publishes it and deletes hot records, eviction and removal sync the
\* batch that unpublishes it before they unlink.
ManifestFilesIntact ==
    \A d \in recoverable : \A m \in d.manifests : Published(m) \in files

\* No key outlives its project row and none is filed under an id still to be
\* handed out, so a new project never shows another one's data: removal
\* drops the row only after every keyspace is clear, at every crash point.
NoOrphanKeys ==
    \A d \in recoverable :
        /\ \A q \in d.projects : q.id < d.next
        /\ \A k \in Stages \cup {"manifests"} : \A row \in d[k] :
              \E q \in d.projects : q.id = row.project

Serving(d) == {q.id : q \in {x \in d.projects : x.status = "Active"}}
Of(rows, p) == {row \in rows : row.project = p}
Homes(d, key) ==
    {[at |-> "hot", part |-> None] : x \in {y \in d.records : Key(y) = key}}
      \cup {[at |-> "archive", part |-> m.part] :
               m \in {n \in d.manifests : key \in {Key(x) : x \in n.rows}}}
Stored(d) == d.records \cup UNION {m.rows : m \in d.manifests}

\* Deduplication is exact: a source id is remembered if and only if its
\* record is stored, hot or in one archive part and never in two places, so
\* a retry is dropped while the record exists and accepted after eviction.
StoredOnce ==
    \A d \in recoverable : \A p \in Serving(d) : \A r \in Records :
        LET key == [project |-> p, id |-> r]
        IN  Cardinality(Homes(d, key)) = IF key \in d.source_ids THEN 1 ELSE 0

\* The lookup keyspaces describe the data: time indexes and record_ids the
\* hot records, archive_ids the archived ones and the part that holds each.
LookupsFit(d, p) ==
    LET hot == Of(d.records, p)
        parts == Of(d.manifests, p)
    IN  /\ Of(d.record_ids, p) = {Key(x) : x \in hot}
        /\ {e \in Of(d.record_indexes, p) : e.kind = "e"}
             = {EventIndex(x) : x \in hot}
        /\ Of(d.archive_ids, p)
             = UNION {{[project |-> p, id |-> x.id, part |-> m.part] :
                          x \in m.rows} : m \in parts}

LookupsAgree ==
    \A d \in recoverable : \A p \in Serving(d) : LookupsFit(d, p)

\* The stored records of an issue.
Grouped(d, p, issue) ==
    {x.id : x \in {y \in Of(Stored(d), p) : IssueOf[y.id] = issue}}

\* An issue counts exactly the stored records of its group through archival,
\* eviction, retries and crashes, points at a stored record or at none, and
\* has one time index; no stored error is without its issue.
IssuesFit(d, p) ==
    LET issues == Of(d.issues, p)
    IN  /\ \A i \in issues :
              /\ i.retained = Cardinality(Grouped(d, p, i.issue))
              /\ i.retained <= i.total
              /\ i.latest \in Grouped(d, p, i.issue) \cup {None}
              /\ \A j \in issues : i.issue = j.issue => i = j
        /\ \A x \in Of(Stored(d), p) : IssueOf[x.id] # None =>
              \E i \in issues : IssueOf[x.id] = i.issue
        /\ {e \in Of(d.record_indexes, p) : e.kind = "u"}
             = {IssueIndex(i) : i \in issues}

IssuesExact ==
    \A d \in recoverable : \A p \in Serving(d) : IssuesFit(d, p)

\* For every project being served, the two tiers, the lookups and the issues
\* tell of the same records.
Consistent == StoredOnce /\ LookupsAgree /\ IssuesExact

\* A project id is never handed out twice, not even across a power loss.
IdsNeverReused == [][db'.next >= db.next]_vars

\* When Store::open returns, nothing of an interrupted job is left: the
\* directory holds the published parts and no project is half removed.
OpenRepairs ==
    [][opening /\ ~opening' =>
          /\ files' = {Published(m) : m \in db'.manifests}
          /\ \A q \in db'.projects : q.status = "Active"]_vars

\* Every job ends and frees the lock, and removal, once acknowledged as
\* started, completes across restarts.  Fair steps, calls that do not fail,
\* and only finitely many crashes.
FairSpec == Spec /\ WF_vars(Job) /\ <>[][~Crash]_vars

JobEnds == pc # "idle" ~> pc = "idle"

\* The mark is synced: no power loss can take it back.
Deleting(p) ==
    \A d \in recoverable : \E q \in d.projects :
        q.id = p /\ q.status = "Deleting"

RemovalCompletes ==
    \A p \in 1..MaxProjects :
        Deleting(p) ~> \A q \in db.projects : q.id # p

\* What the store promises its users, whatever the tier a record is in.  A
\* project is closed once its mark is durable.
Retained(d) == {Key(x) : x \in {y \in Stored(d) : y.project \in Serving(d)}}
Promise == INSTANCE Retention
             WITH Projects <- 1..MaxProjects,
                  Keys <- [project : 1..MaxProjects, id : Records],
                  live <- UNION {Serving(d) : d \in recoverable},
                  kept <- UNION {Retained(d) : d \in recoverable},
                  bytes <- Logical(db)

\* Archival and restarts are invisible: only eviction over the
\* target and removal take a record away, and in safe mode no crash does.
KeepsItsPromise == Promise!Spec

\* enforce_storage_target returns at most its target.
TargetReached ==
    [][pc = "enforce" /\ pc' = "idle" => Logical(db) <= Target \/ opening']_vars

=============================================================================
