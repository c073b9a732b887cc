---------------------------- MODULE StoreProofs ----------------------------
(***************************************************************************)
(* Theorems about Store for every set of records, projects, parts and      *)
(* times, every target and either durability: no file, key or project id   *)
(* goes wrong (FilesInv, PartsInv, RowsInv); for every project being       *)
(* served the two tiers, the deduplication keys, the lookups and the       *)
(* issues tell of the same records (ConsistencyInv), whatever jobs,        *)
(* failures and crashes came before; and the store implements Retention,   *)
(* the promise without tiers, batches and files, as long as disk and       *)
(* database calls do not fail (PromiseInv): crashes, power losses and      *)
(* interrupted removals included.                                          *)
(***************************************************************************)
EXTENDS Store, FiniteSetTheorems, WellFoundedInduction, TLAPS

-----------------------------------------------------------------------------
(* The invariants.                                                         *)

\* Why these hold.  Manifests and ids change only in synced batches, so
\* all recoverable databases agree on them with the visible one; a published
\* part has a file of its own that no step in flight touches ...
SyncedAgree ==
    /\ db \in recoverable
    /\ \A d \in recoverable : /\ d.manifests = db.manifests
                              /\ d.next = db.next

FilesInv ==
    /\ SyncedAgree
    /\ \A m \in db.manifests : Published(m) \in files
    /\ \A m, n \in db.manifests : m.part = n.part => m = n
    /\ pc \in {"rename", "publish"} =>
          \A m \in db.manifests : m.part # part.part
    /\ pc = "publish" => Published(part) \in files
    /\ doomed # {} => pc = "unlink"
    /\ \A p \in doomed : \A m \in db.manifests : m.part # p

\* ... a Parquet file under a published part's name is that part, so what
\* Archive::cleanup keeps is complete as well ...
PartsInv ==
    /\ \A f \in files : \A m \in db.manifests :
          f.ext = "parquet" /\ f.part = m.part => f = Published(m)
    /\ pc \in {"rename", "publish"} => \A f \in files : f.part = part.part =>
          IF pc = "publish" THEN f = Published(part) ELSE f.ext = "tmp"

\* ... and the keyspaces a removal has passed stay clear until it is done.
Passed ==
    [records |-> {},
     record_indexes |-> {"records"},
     record_ids |-> {"records", "record_indexes"},
     source_ids |-> {"records", "record_indexes", "record_ids"},
     cumulative_sums |-> {"records", "record_indexes", "record_ids",
                          "source_ids"},
     issues |-> Stages \ {"issues", "archive_ids"},
     archive_ids |-> Stages \ {"archive_ids"}]

RowsInv ==
    /\ SyncedAgree
    /\ NoOrphanKeys
    /\ pc \in {"rename", "publish"} =>
          \A x \in part.rows \cup {part} :
              \E q \in db.projects : q.id = x.project
    /\ pc \notin {"clear", "drop", "unlink"} => stage = "records"
    /\ pc = "clear" => \A k \in Passed[stage] :
          \A row \in db[k] : row.project # removing
    /\ pc = "drop" => \A k \in Stages :
          \A row \in db[k] : row.project # removing

\* Why the tiers agree.  A project has one row, a part file one project's rows; no
\* two rows a served project has stored share a key, and its source_ids are
\* their keys.  A group in flight to the archive is still hot, and a project
\* being cleared is no longer served.
KeysOnce(d, p) ==
    LET hot == Of(d.records, p)
        parts == Of(d.manifests, p)
    IN  /\ \A x, y \in hot : x.id = y.id => x = y
        /\ \A m \in parts : \A x \in m.rows :
              /\ \A y \in hot : x.id # y.id
              /\ \A n \in parts : \A y \in n.rows : x.id = y.id => m = n
        /\ Of(d.source_ids, p) = {Key(x) : x \in Of(Stored(d), p)}

Sound(d) ==
    /\ \A q, r \in d.projects : q.id = r.id => q = r
    /\ \A m, n \in d.manifests : m.part = n.part => m = n
    /\ \A m \in d.manifests :
          m.rows # {} /\ \A x \in m.rows : x.project = m.project
    /\ \A p \in Serving(d) :
          KeysOnce(d, p) /\ LookupsFit(d, p) /\ IssuesFit(d, p)

ConsistencyInv ==
    /\ \A d \in recoverable : Sound(d)
    /\ pc \in {"rename", "publish"} =>
          /\ part.rows # {}
          /\ part.rows \subseteq db.records
          /\ \A x \in part.rows : x.project = part.project
    /\ pc \in {"mark", "clear", "drop"} => removing \notin Serving(db)

\* Why the promise holds while calls do not fail.  Only a project in removal sets the
\* recoverable databases apart, and one at a time: its mark waits for the
\* sync, then for nothing but crashes.  What else is lost with the unsynced
\* suffix is a fast write, and no project is marked before such a write.
Closing(d) == {q.id : q \in {x \in d.projects : x.status = "Deleting"}}

FiniteRows(d) ==
    /\ \A rows \in {d.records, d.issues, d.cumulative_sums, d.manifests} :
          IsFiniteSet(rows)
    /\ \A m \in d.manifests : IsFiniteSet(m.rows)

PromiseInv ==
    /\ db.next \in 1..(MaxProjects + 1)
    /\ \A q \in db.projects : q.id >= 1
    /\ Closing(db) # {} => pc \in {"mark", "clear", "drop", "resume"}
    /\ pc \in {"mark", "clear", "drop"} => Closing(db) = {removing}
    /\ \A p, q \in Closing(db) : p = q
    /\ \A d \in recoverable :
          /\ FiniteRows(d)
          /\ Closing(d) \subseteq Closing(db)
          /\ Serving(d) \cup Closing(d) = Serving(db) \cup Closing(db)
          /\ \A key \in Retained(d) :
                key.project \in Closing(db) \/ key \in Retained(db)
          /\ Safe \/ Closing(d) # {} => Retained(db) \subseteq Retained(d)
          /\ Safe => \A e \in recoverable :
                Serving(d) = Serving(e) => Retained(d) = Retained(e)

-----------------------------------------------------------------------------
(* Facts about the operators.                                              *)

\* Min picks the least element of a nonempty set of naturals.
LEMMA MinOfNaturals ==
  ASSUME NEW S, S \subseteq Nat, S # {}
  PROVE  Min(S) \in S /\ \A y \in S : Min(S) <= y
<1> DEFINE R == {ss \in Nat \X Nat : ss[1] < ss[2]}
<1>1. IsWellFoundedOn(R, Nat)
  BY NatLessThanWellFounded, Zenon DEF OpToRel
<1>2. PICK x \in S : \A y \in S : <<y, x>> \notin R
  <2> HIDE DEF R
  <2> QED  BY <1>1, WFMin, Zenon
<1>3. \A y \in S : x <= y
  <2> TAKE y \in S
  <2>1. x \in Nat /\ y \in Nat  OBVIOUS
  <2>2. ~(y < x)  BY <1>2, <2>1
  <2> QED  BY <2>1, <2>2
<1> QED  BY <1>2, <1>3 DEF Min

\* Every subset of the records has a natural number of elements.
LEMMA CountOfRecords ==
  ASSUME NEW S \in SUBSET Records
  PROVE  Cardinality(S) \in Nat
BY RecordAssumption, FS_Subset, FS_CardinalityType

\* Committing a database of the right type keeps both views well typed.
LEMMA CommitType ==
  ASSUME TypeOK, NEW d \in Database, NEW synced \in BOOLEAN, Commit(d, synced)
  PROVE  db' \in Database /\ recoverable' \subseteq Database
BY DEF TypeOK, Commit

\* An issue row of the database, or the new one, is an issue row.
LEMMA ExistingType ==
  ASSUME NEW d \in Database, NEW t \in Records, IssueOf[t] # None
  PROVE  Existing(d, t) \in IssueRow
<1>1. CASE \E i \in d.issues : IsOf(t, i)
  <2> DEFINE i == CHOOSE i \in d.issues : IsOf(t, i)
  <2>1. i \in d.issues  BY <1>1
  <2>2. Existing(d, t) = i  BY <1>1 DEF Existing
  <2> QED  BY <2>1, <2>2 DEF Database
<1>2. CASE ~ \E i \in d.issues : IsOf(t, i)
  BY <1>2, RecordAssumption DEF Existing, IssueRow, Issues
<1> QED  BY <1>1, <1>2

\* The issue row a batch leaves behind is an issue row.
LEMMA BumpedType ==
  ASSUME NEW d \in Database, NEW S \in SUBSET Records, NEW t \in Records,
         IssueOf[t] # None
  PROVE  Bumped(d, S, t) \in IssueRow
<1> DEFINE new == {r \in S : SameIssue(r, t)}
           prior == Existing(d, t)
           times == {prior.first} \cup {TimeOf[r] : r \in new}
<1>1. prior \in IssueRow  BY ExistingType
<1>2. Cardinality(new) \in Nat  BY CountOfRecords
<1>3. times \subseteq Nat  BY <1>1, RecordAssumption DEF IssueRow
<1>4. Min(times) \in Nat  BY <1>3, MinOfNaturals
<1>5. TimeOf[t] \in Nat /\ ProjectOf[t] \in Nat /\ IssueOf[t] \in Issues
  BY RecordAssumption DEF Issues
<1> HIDE DEF new, prior, times
<1>6. Bumped(d, S, t) =
        [project |-> ProjectOf[t], issue |-> IssueOf[t],
         first |-> Min(times),
         last |-> IF TimeOf[t] >= prior.last THEN TimeOf[t] ELSE prior.last,
         total |-> prior.total + Cardinality(new),
         retained |-> prior.retained + Cardinality(new),
         latest |-> IF TimeOf[t] >= prior.last THEN t ELSE prior.latest]
  BY DEF Bumped, new, prior, times
<1> QED  BY <1>1, <1>2, <1>4, <1>5, <1>6 DEF IssueRow

\* The rows write_records derives from a record have their types.
LEMMA RowTypes ==
  ASSUME NEW x \in RecordRow
  PROVE  Key(x) \in IdRow /\ EventIndex(x) \in IndexRow
BY RecordAssumption DEF RecordRow, Key, IdRow, EventIndex, IndexRow

\* The time index of an issue is an index row.
LEMMA IssueIndexType ==
  ASSUME NEW i \in IssueRow
  PROVE  IssueIndex(i) \in IndexRow
BY DEF IssueRow, IssueIndex, IndexRow

\* Newest chooses error records of the batch.
LEMMA NewestType ==
  ASSUME NEW S \in SUBSET Records, NEW T \in Newest(S)
  PROVE  T \subseteq S /\ \A t \in T : t \in Records /\ IssueOf[t] # None
BY DEF Newest

\* write_records keeps the database well typed.
LEMMA WrittenType ==
  ASSUME NEW d \in Database, NEW S \in SUBSET Records, NEW at \in Nat,
         NEW T \in Newest(S)
  PROVE  Written(d, S, at, T) \in Database
<1> DEFINE rows == {[project |-> ProjectOf[r], id |-> r, at |-> at] : r \in S}
           old == {i \in d.issues : \E t \in T : IsOf(t, i)}
           new == {Bumped(d, S, t) : t \in T}
           sums == {[project |-> ProjectOf[r], stream |-> StreamOf[r]] :
                      r \in {q \in S : StreamOf[q] # None}}
<1>1. rows \subseteq RecordRow  BY RecordAssumption DEF RecordRow
<1>2. new \subseteq IssueRow  BY BumpedType, NewestType
<1>3. sums \subseteq SumRow  BY RecordAssumption DEF SumRow, Streams
<1>4. {Key(x) : x \in rows} \subseteq IdRow  BY <1>1, RowTypes
<1>5. {EventIndex(x) : x \in rows} \subseteq IndexRow  BY <1>1, RowTypes
<1>6. {IssueIndex(i) : i \in new} \subseteq IndexRow  BY <1>2, IssueIndexType
<1> HIDE DEF rows, old, new, sums
<1>7. Written(d, S, at, T) =
        [d EXCEPT !.records = @ \cup rows,
                  !.record_ids = @ \cup {Key(x) : x \in rows},
                  !.source_ids = @ \cup {Key(x) : x \in rows},
                  !.record_indexes = (@ \ {IssueIndex(i) : i \in old})
                      \cup {EventIndex(x) : x \in rows}
                      \cup {IssueIndex(i) : i \in new},
                  !.issues = (@ \ old) \cup new,
                  !.cumulative_sums = @ \cup sums]
  BY DEF Written, rows, old, new, sums
<1> QED  BY <1>1, <1>2, <1>3, <1>4, <1>5, <1>6, <1>7 DEF Database

\* Publishing a manifest keeps the database well typed.
LEMMA ArchivedType ==
  ASSUME NEW d \in Database, NEW m \in Manifest
  PROVE  Archived(d, m) \in Database
<1>1. {[project |-> x.project, id |-> x.id, part |-> m.part] : x \in m.rows}
        \subseteq ArchivedRow
  BY DEF Manifest, RecordRow, ArchivedRow
<1> QED  BY <1>1 DEF Archived, Database

\* decrement_retained_issue keeps issue rows well typed: it never goes below 0.
LEMMA DecrementedType ==
  ASSUME NEW issues \in SUBSET IssueRow, NEW rows \in SUBSET RecordRow
  PROVE  Decremented(issues, rows) \subseteq IssueRow
<1> DEFINE ids(i) == {x.id : x \in {y \in rows :
                         y.project = i.project /\ IssueOf[y.id] = i.issue}}
           next(i) == [i EXCEPT
                         !.retained = IF @ >= Cardinality(ids(i))
                                      THEN @ - Cardinality(ids(i)) ELSE 0,
                         !.latest = IF @ \in ids(i) THEN None ELSE @]
<1>1. Decremented(issues, rows) = {next(i) : i \in issues}
  BY DEF Decremented
<1>2. ASSUME NEW i \in issues  PROVE next(i) \in IssueRow
  <2>1. ids(i) \in SUBSET Records  BY DEF RecordRow
  <2>2. Cardinality(ids(i)) \in Nat  BY <2>1, CountOfRecords
  <2>3. i \in IssueRow  OBVIOUS
  <2>4. ASSUME NEW n \in Nat, NEW gone
        PROVE  [i EXCEPT !.retained = IF @ >= n THEN @ - n ELSE 0,
                         !.latest = IF @ \in gone THEN None ELSE @]
                 \in IssueRow
    <3> DEFINE left == IF i.retained >= n THEN i.retained - n ELSE 0
               top == IF i.latest \in gone THEN None ELSE i.latest
    <3>1. left \in Nat /\ top \in Records \cup {None}
      BY <2>3 DEF IssueRow
    <3> HIDE DEF left, top
    <3>2. [i EXCEPT !.retained = left, !.latest = top] \in IssueRow
      BY <2>3, <3>1 DEF IssueRow
    <3> QED  BY <3>2 DEF left, top
  <2> QED  BY <2>2, <2>4
<1> HIDE DEF next
<1> QED  BY <1>1, <1>2

\* Evicting a partition keeps the database well typed.
LEMMA WithoutPartitionType ==
  ASSUME NEW d \in Database, NEW m \in Manifest
  PROVE  WithoutPartition(d, m) \in Database
<1>1. Decremented(d.issues, m.rows) \subseteq IssueRow
  BY DecrementedType DEF Database, Manifest
<1> QED  BY <1>1 DEF WithoutPartition, Database

\* Evicting a hot record keeps the database well typed.
LEMMA WithoutHotType ==
  ASSUME NEW d \in Database, NEW x \in d.records
  PROVE  WithoutHot(d, x) \in Database
<1>1. {x} \in SUBSET RecordRow /\ d.issues \in SUBSET IssueRow
  BY DEF Database
<1>2. Decremented(d.issues, {x}) \subseteq IssueRow
  BY <1>1, DecrementedType
<1> QED  BY <1>2 DEF WithoutHot, Database

-----------------------------------------------------------------------------
(* Type correctness.                                                       *)

\* A fresh data directory is well typed.
LEMMA InitType == Init => TypeOK
BY BoundAssumption DEF Init, TypeOK, EmptyDatabase, Database, Stages

\* The manifest of the group being archived.
LEMMA WriteTemporaryType ==
  ASSUME TypeOK, NEW x \in Cold, NEW p \in Parts, WriteTemporary(x, p)
  PROVE  files' \subseteq File /\ part' \in Manifest
<1> DEFINE rows == {y \in Cold : SameGroup(x, y)}
<1>1. Cold \subseteq RecordRow  BY DEF Cold, Before, TypeOK, Database
<1>2. x \in rows  BY DEF SameGroup
<1>3. rows \subseteq RecordRow  BY <1>1
<1>4. {y.at : y \in rows} \subseteq Nat  BY <1>3 DEF RecordRow
<1>5. Min({y.at : y \in rows}) \in Nat  BY <1>2, <1>4, MinOfNaturals
<1>6. x \in RecordRow  BY <1>1
<1> HIDE DEF rows
<1>7. /\ files' = files \cup {[part |-> p, ext |-> "tmp", rows |-> rows]}
      /\ part' = [project |-> x.project, part |-> p,
                  signal |-> SignalOf[x.id],
                  oldest |-> Min({y.at : y \in rows}), rows |-> rows]
  BY DEF WriteTemporary, rows
<1>8. x.project \in Nat /\ x.id \in Records  BY <1>6 DEF RecordRow
<1> QED  BY <1>3, <1>5, <1>7, <1>8 DEF TypeOK, File, Manifest

\* Batches of a right type.  Every commit is one of these or changes one
\* keyspace by removing rows.
LEMMA NextType == TypeOK /\ [Next]_vars => TypeOK'
<1> SUFFICES ASSUME TypeOK, [Next]_vars PROVE TypeOK'
  OBVIOUS
<1> USE BoundAssumption
<1>1. ASSUME NEW x \in Cold, NEW p \in Parts, WriteTemporary(x, p)
      PROVE  TypeOK'
  BY <1>1, WriteTemporaryType DEF WriteTemporary, TypeOK
<1>2. CASE RenameTemporary
  <2>1. part \in Manifest => Published(part) \in File
    BY DEF Published, Manifest, File
  <2> QED  BY <1>2, <2>1 DEF RenameTemporary, TypeOK, Locals
<1>3. CASE PublishManifest
  BY <1>3, ArchivedType, CommitType DEF PublishManifest, TypeOK
<1>4. CASE ArchiveDone
  BY <1>4 DEF ArchiveDone, Release, TypeOK, Stages
<1>5. ASSUME NEW m \in OldestPartitions, EvictPartition(m)
      PROVE  TypeOK'
  <2>1. m \in Manifest
    BY DEF OldestPartitions, TypeOK, Database
  <2>2. WithoutPartition(db, m) \in Database
    BY <2>1, WithoutPartitionType DEF TypeOK
  <2>3. {m.part} \subseteq Parts  BY <2>1 DEF Manifest
  <2> QED  BY <1>5, <2>2, <2>3, CommitType DEF EvictPartition, TypeOK
<1>6. ASSUME NEW x \in db.records, EvictHot(x)
      PROVE  TypeOK'
  BY <1>6, WithoutHotType, CommitType DEF EvictHot, TypeOK, Locals
<1>7. ASSUME NEW i \in db.issues, EvictIssue(i)
      PROVE  TypeOK'
  <2>1. [db EXCEPT !.issues = @ \ {i},
                   !.record_indexes = @ \ {IssueIndex(i)}] \in Database
    BY DEF TypeOK, Database
  <2> QED  BY <1>7, <2>1, CommitType DEF EvictIssue, TypeOK, Locals
<1>8. CASE EnforceDone
  BY <1>8 DEF EnforceDone, Release, TypeOK, Stages
<1>9. ASSUME NEW chunk, ClearChunk(chunk)
      PROVE  TypeOK'
  <2>1. [db EXCEPT ![stage] = @ \ chunk] \in Database
    BY DEF TypeOK, Database, Stages
  <2> QED  BY <1>9, <2>1, CommitType DEF ClearChunk, TypeOK, Locals
<1>10. CASE ClearNext
  BY <1>10 DEF ClearNext, TypeOK
<1>11. CASE DropProject
  <2> DEFINE gone == {m \in db.manifests : m.project = removing}
  <2>1. [db EXCEPT !.manifests = @ \ gone,
                   !.projects = {q \in @ : q.id # removing}] \in Database
    BY DEF TypeOK, Database
  <2>2. {m.part : m \in gone} \subseteq Parts
    BY DEF TypeOK, Database, Manifest
  <2> QED  BY <1>11, <2>1, <2>2, CommitType DEF DropProject, TypeOK
<1>12. ASSUME NEW p \in doomed, Unlink(p)
       PROVE  TypeOK'
  BY <1>12 DEF Unlink, TypeOK
<1>13. CASE UnlinkDone
  BY <1>13 DEF UnlinkDone, TypeOK, Stages
<1>14. ASSUME NEW q \in Removable({"Deleting"}), ResumeDeletion(q)
       PROVE  TypeOK'
  BY <1>14 DEF ResumeDeletion, Removable, TypeOK, Database, ProjectRow
<1>15. ASSUME NEW f \in Strays, CleanUp(f)
       PROVE  TypeOK'
  BY <1>15 DEF CleanUp, TypeOK, Locals
<1>16. CASE OpenDone
  BY <1>16 DEF OpenDone, Release, TypeOK, Stages
<1>17. ASSUME NEW name \in Names, AddProject(name)
       PROVE  TypeOK'
  <2> DEFINE row == [id |-> db.next, name |-> name, status |-> "Active"]
  <2>0. row \in ProjectRow /\ db.next + 1 \in Nat
    BY DEF TypeOK, Database, ProjectRow
  <2> HIDE DEF row
  <2>1. [db EXCEPT !.projects = @ \cup {row}, !.next = @ + 1] \in Database
    BY <2>0 DEF TypeOK, Database
  <2> USE DEF row
  <2> QED  BY <1>17, <2>1, CommitType DEF AddProject, TypeOK, Locals
<1>18. ASSUME NEW S \in SUBSET Records, NEW at \in Clock, WriteRecords(S, at)
       PROVE  TypeOK'
  <2>1. PICK T \in Newest(Accepted(db, S)) :
           Commit(Written(db, Accepted(db, S), at, T), Safe)
    BY <1>18 DEF WriteRecords
  <2>2. Accepted(db, S) \in SUBSET Records  BY DEF Accepted
  <2>3. Written(db, Accepted(db, S), at, T) \in Database
    BY <2>1, <2>2, WrittenType DEF TypeOK
  <2> QED  BY <1>18, <2>1, <2>3, CommitType DEF WriteRecords, TypeOK, Locals
<1>19. ASSUME NEW time \in Clock, ArchiveBefore(time + 1)
       PROVE  TypeOK'
  BY <1>19 DEF ArchiveBefore, TypeOK
<1>20. CASE EnforceStorageTarget
  BY <1>20 DEF EnforceStorageTarget, TypeOK, Locals
<1>21. ASSUME NEW q \in db.projects, RemoveProject(q)
       PROVE  TypeOK'
  <2>1. q \in ProjectRow  BY DEF TypeOK, Database
  <2>2. [q EXCEPT !.status = "Deleting"] \in ProjectRow
    BY <2>1 DEF ProjectRow
  <2>3. [db EXCEPT !.projects =
            (@ \ {q}) \cup {[q EXCEPT !.status = "Deleting"]}] \in Database
    BY <2>2 DEF TypeOK, Database
  <2>4. q.id \in Nat  BY <2>1 DEF ProjectRow
  <2> QED
    BY <1>21, <2>3, <2>4, CommitType DEF RemoveProject, TypeOK
<1>22. CASE Persist \/ SyncMark
  BY <1>22, CommitType DEF Persist, SyncMark, TypeOK, Locals
<1>23. CASE JobFails
  BY <1>23 DEF JobFails, Release, TypeOK, Stages
<1>24. CASE ProcessCrash
  BY <1>24 DEF ProcessCrash, Restart, TypeOK, Stages
<1>25. ASSUME NEW d \in recoverable, PowerLoss(d)
       PROVE  TypeOK'
  BY <1>25 DEF PowerLoss, Restart, TypeOK, Stages
<1>26. CASE UNCHANGED vars
  BY <1>26 DEF vars, TypeOK
<1> QED
  BY <1>1, <1>2, <1>3, <1>4, <1>5, <1>6, <1>7, <1>8, <1>9, <1>10, <1>11,
     <1>12, <1>13, <1>14, <1>15, <1>16, <1>17, <1>18, <1>19, <1>20, <1>21,
     <1>22, <1>23, <1>24, <1>25, <1>26
  DEF Next, Job, Archiver, Enforcer, Remover, Opener, Calls, Crash, Removable

\* The type invariant of the store.
THEOREM StoreTypeOK == Spec => []TypeOK
BY InitType, NextType, PTL DEF Spec

-----------------------------------------------------------------------------
(* Published parts keep their files.                                       *)

\* A buffered commit that leaves manifests and ids alone, or any synced one,
\* keeps the recoverable databases in agreement.
LEMMA CommitAgrees ==
  ASSUME SyncedAgree, NEW d, NEW synced, Commit(d, synced),
         synced \/ /\ d.manifests = db.manifests
                   /\ d.next = db.next
  PROVE  SyncedAgree'
BY DEF SyncedAgree, Commit

\* A fresh data directory has no manifest without a file.
LEMMA InitFiles == Init => FilesInv
BY DEF Init, FilesInv, SyncedAgree, EmptyDatabase

\* A step that keeps manifests and files and leaves nothing in flight.
LEMMA FilesQuiet ==
  ASSUME FilesInv, SyncedAgree', db'.manifests = db.manifests, files' = files,
         pc' \notin {"rename", "publish"}, doomed' = {}
  PROVE  FilesInv'
BY DEF FilesInv

\* Every step keeps each manifest, published or in flight, with its own file.
LEMMA NextFiles == TypeOK /\ FilesInv /\ [Next]_vars => FilesInv'
<1> SUFFICES ASSUME TypeOK, FilesInv, [Next]_vars PROVE FilesInv'
  OBVIOUS
<1> USE BoundAssumption
<1>0. SyncedAgree  BY DEF FilesInv
<1>a. ASSUME UNCHANGED <<db, recoverable>>  PROVE SyncedAgree'
  BY <1>0, <1>a DEF SyncedAgree
<1>1. ASSUME NEW x \in Cold, NEW p \in Parts, WriteTemporary(x, p)
      PROVE  FilesInv'
  <2>1. part'.part = p
    BY <1>1 DEF WriteTemporary
  <2>2. \A m \in db.manifests : m.part # p
    BY <1>1 DEF WriteTemporary, Fresh
  <2>3. files \subseteq files'
    BY <1>1 DEF WriteTemporary
  <2> QED  BY <1>1, <1>a, <2>1, <2>2, <2>3 DEF WriteTemporary, FilesInv
<1>2. CASE RenameTemporary
  <2>1. \A m \in db.manifests : Published(m) \in files'
    BY <1>2 DEF RenameTemporary, FilesInv, Published
  <2> QED  BY <1>2, <1>a, <2>1 DEF RenameTemporary, FilesInv, Locals
<1>3. CASE PublishManifest
  <2>1. db'.manifests = db.manifests \cup {part}
    BY <1>3 DEF PublishManifest, Commit, Archived, TypeOK, Database
  <2>2. SyncedAgree'
    BY <1>0, <1>3, CommitAgrees DEF PublishManifest
  <2> QED  BY <1>3, <2>1, <2>2 DEF PublishManifest, FilesInv
<1>4. CASE ArchiveDone
  BY <1>4, <1>a DEF ArchiveDone, Release, FilesInv
<1>5. ASSUME NEW m \in OldestPartitions, EvictPartition(m)
      PROVE  FilesInv'
  <2>1. db'.manifests = db.manifests \ {m}
    BY <1>5 DEF EvictPartition, Commit, WithoutPartition, TypeOK, Database
  <2>2. SyncedAgree'
    BY <1>0, <1>5, CommitAgrees DEF EvictPartition
  <2>3. m \in db.manifests  BY DEF OldestPartitions
  <2> QED  BY <1>5, <2>1, <2>2, <2>3 DEF EvictPartition, FilesInv
<1>6. ASSUME NEW x \in db.records, EvictHot(x)
      PROVE  FilesInv'
  <2>1. db'.manifests = db.manifests
    BY <1>6 DEF EvictHot, Commit, WithoutHot, TypeOK, Database
  <2>2. SyncedAgree'
    BY <1>0, <1>6, CommitAgrees DEF EvictHot
  <2> QED  BY <1>6, <2>1, <2>2 DEF EvictHot, FilesInv, Locals
<1>7. ASSUME NEW i \in db.issues, EvictIssue(i)
      PROVE  FilesInv'
  <2>1. db'.manifests = db.manifests
    BY <1>7 DEF EvictIssue, Commit, TypeOK, Database
  <2>2. SyncedAgree'
    BY <1>0, <1>7, CommitAgrees DEF EvictIssue
  <2> QED  BY <1>7, <2>1, <2>2 DEF EvictIssue, FilesInv, Locals
<1>8. CASE EnforceDone
  BY <1>8, <1>a DEF EnforceDone, Release, FilesInv
<1>9. ASSUME NEW chunk, ClearChunk(chunk)
      PROVE  FilesInv'
  <2> DEFINE d == [db EXCEPT ![stage] = @ \ chunk]
  <2>1. /\ d.manifests = db.manifests
        /\ d.projects = db.projects
        /\ d.next = db.next
    BY DEF TypeOK, Database, Stages
  <2>2. Commit(d, FALSE)  BY <1>9 DEF ClearChunk
  <2> HIDE DEF d
  <2>3. SyncedAgree'  BY <1>0, <2>1, <2>2, CommitAgrees
  <2>4. db'.manifests = db.manifests  BY <2>1, <2>2 DEF Commit
  <2> QED  BY <1>9, <2>3, <2>4 DEF ClearChunk, FilesInv, Locals
<1>10. CASE ClearNext
  BY <1>10, <1>a DEF ClearNext, FilesInv
<1>11. CASE DropProject
  <2> DEFINE gone == {m \in db.manifests : m.project = removing}
  <2>1. db'.manifests = db.manifests \ gone
    BY <1>11 DEF DropProject, Commit, TypeOK, Database
  <2>2. doomed' = {m.part : m \in gone}
    BY <1>11 DEF DropProject
  <2>3. SyncedAgree'
    BY <1>0, <1>11, CommitAgrees DEF DropProject
  <2> QED  BY <1>11, <2>1, <2>2, <2>3 DEF DropProject, FilesInv
<1>12. ASSUME NEW p \in doomed, Unlink(p)
       PROVE  FilesInv'
  <2>1. ASSUME NEW m \in db.manifests  PROVE Published(m) \in files'
    <3>1. Published(m) \in files /\ m.part # p  BY DEF FilesInv
    <3>2. Published(m).part = m.part  BY DEF Published
    <3> QED  BY <1>12, <3>1, <3>2 DEF Unlink
  <2> QED  BY <1>12, <1>a, <2>1 DEF Unlink, FilesInv
<1>13. CASE UnlinkDone
  BY <1>13, <1>a DEF UnlinkDone, FilesInv
<1>14. ASSUME NEW q \in Removable({"Deleting"}), ResumeDeletion(q)
       PROVE  FilesInv'
  BY <1>14, <1>a DEF ResumeDeletion, FilesInv
<1>15. ASSUME NEW f \in Strays, CleanUp(f)
       PROVE  FilesInv'
  <2>1. ASSUME NEW m \in db.manifests  PROVE Published(m) \in files'
    <3>1. Published(m) \in files  BY DEF FilesInv
    <3>2. Published(m).part = m.part /\ Published(m).ext = "parquet"
      BY DEF Published
    <3>3. Published(m) # f  BY <3>2 DEF Strays
    <3> QED  BY <1>15, <3>1, <3>3 DEF CleanUp
  <2> QED  BY <1>15, <1>a, <2>1 DEF CleanUp, FilesInv, Locals
<1>16. CASE OpenDone
  BY <1>16, <1>a DEF OpenDone, Release, FilesInv
<1>17. ASSUME NEW name \in Names, AddProject(name)
       PROVE  FilesInv'
  <2>1. db'.manifests = db.manifests
    BY <1>17 DEF AddProject, Commit, TypeOK, Database
  <2>2. SyncedAgree'
    BY <1>0, <1>17, CommitAgrees DEF AddProject
  <2> QED  BY <1>17, <2>1, <2>2 DEF AddProject, FilesInv, Locals
<1>18. ASSUME NEW S \in SUBSET Records, NEW at \in Clock, WriteRecords(S, at)
       PROVE  FilesInv'
  <2>1. PICK T \in Newest(Accepted(db, S)) :
           Commit(Written(db, Accepted(db, S), at, T), Safe)
    BY <1>18 DEF WriteRecords
  <2> DEFINE d == Written(db, Accepted(db, S), at, T)
  <2>2. /\ d.manifests = db.manifests
        /\ d.projects = db.projects
        /\ d.next = db.next
    BY DEF Written, TypeOK, Database
  <2> HIDE DEF d
  <2>3. Commit(d, Safe)  BY <2>1 DEF d
  <2>4. SyncedAgree'  BY <1>0, <2>2, <2>3, CommitAgrees
  <2>5. db'.manifests = db.manifests  BY <2>2, <2>3 DEF Commit
  <2> QED  BY <1>18, <2>4, <2>5 DEF WriteRecords, FilesInv, Locals
<1>19. ASSUME NEW time \in Clock, ArchiveBefore(time + 1)
       PROVE  FilesInv'
  <2>1. doomed = {} /\ pc' = "archive" /\ doomed' = {}
    BY <1>19 DEF ArchiveBefore, Free, FilesInv
  <2> QED  BY <1>19, <1>a, <2>1, FilesQuiet DEF ArchiveBefore
<1>20. CASE EnforceStorageTarget
  <2>1. doomed = {} /\ pc' = "enforce" /\ doomed' = {}
    BY <1>20 DEF EnforceStorageTarget, Free, FilesInv, Locals
  <2> QED  BY <1>20, <1>a, <2>1, FilesQuiet DEF EnforceStorageTarget
<1>21. ASSUME NEW q \in db.projects, RemoveProject(q)
       PROVE  FilesInv'
  <2> DEFINE d == [db EXCEPT !.projects =
                     (@ \ {q}) \cup {[q EXCEPT !.status = "Deleting"]}]
  <2>0. d.manifests = db.manifests /\ d.next = db.next
    BY DEF TypeOK, Database
  <2>a. Commit(d, FALSE)  BY <1>21 DEF RemoveProject
  <2> HIDE DEF d
  <2>1. db'.manifests = db.manifests
    BY <2>0, <2>a DEF Commit
  <2>2. SyncedAgree'
    BY <1>0, <2>0, <2>a, CommitAgrees
  <2>3. doomed = {} /\ pc' = "mark" /\ doomed' = {}
    BY <1>21 DEF RemoveProject, Free, FilesInv
  <2> QED  BY <1>21, <2>1, <2>2, <2>3, FilesQuiet DEF RemoveProject
<1>22. CASE Persist
  <2>1. SyncedAgree' /\ db' = db
    BY <1>0, <1>22, CommitAgrees DEF Persist, Commit
  <2>2. UNCHANGED <<files, pc, part, doomed>>
    BY <1>22 DEF Persist, Locals
  <2>3. (\A m \in db.manifests : Published(m) \in files)'
    BY <2>1, <2>2 DEF FilesInv, Published
  <2>4. (pc = "publish" => Published(part) \in files)'
    BY <2>2 DEF FilesInv, Published
  <2> QED  BY <2>1, <2>2, <2>3, <2>4 DEF FilesInv
<1>27. CASE SyncMark
  <2>1. SyncedAgree' /\ db'.manifests = db.manifests
    BY <1>0, <1>27, CommitAgrees DEF SyncMark, Commit
  <2>2. doomed = {} /\ pc' = "clear" /\ doomed' = {}
    BY <1>27 DEF SyncMark, Locals, FilesInv
  <2> QED  BY <1>27, <2>1, <2>2, FilesQuiet DEF SyncMark
<1>23. CASE JobFails
  BY <1>23, <1>a, FilesQuiet DEF JobFails, Release
<1>24. CASE ProcessCrash
  BY <1>24, <1>a, FilesQuiet DEF ProcessCrash, Restart
<1>25. ASSUME NEW d \in recoverable, PowerLoss(d)
       PROVE  FilesInv'
  <2>1. db'.manifests = db.manifests /\ SyncedAgree'
    BY <1>0, <1>25 DEF PowerLoss, SyncedAgree
  <2> QED  BY <1>25, <2>1, FilesQuiet DEF PowerLoss, Restart
<1>26. CASE UNCHANGED vars
  BY <1>26, <1>a DEF vars, FilesInv
<1> QED
  BY <1>1, <1>2, <1>3, <1>4, <1>5, <1>6, <1>7, <1>8, <1>9, <1>10, <1>11,
     <1>12, <1>13, <1>14, <1>15, <1>16, <1>17, <1>18, <1>19, <1>20, <1>21,
     <1>22, <1>23, <1>24, <1>25, <1>26, <1>27
  DEF Next, Job, Archiver, Enforcer, Remover, Opener, Calls, Crash, Removable

\* The inductive invariant gives the property.
LEMMA FilesInvIntact == FilesInv => ManifestFilesIntact
BY DEF FilesInv, SyncedAgree, ManifestFilesIntact

\* Whatever crash, failure or job comes, a manifest's file is there.
THEOREM StoreManifestFilesIntact == Spec => []ManifestFilesIntact
<1>1. Spec => []FilesInv
  BY InitFiles, NextFiles, StoreTypeOK, PTL DEF Spec
<1> QED  BY <1>1, FilesInvIntact, PTL

\* A step that publishes no part, adds no file and leaves no part in flight.
LEMMA PartsQuiet ==
  ASSUME PartsInv, db'.manifests \subseteq db.manifests, files' \subseteq files,
         pc' \notin {"rename", "publish"}
  PROVE  PartsInv'
BY DEF PartsInv

\* A commit that publishes no part.
LEMMA PartsCommit ==
  ASSUME PartsInv, NEW d, NEW synced, Commit(d, synced),
         d.manifests \subseteq db.manifests, files' = files,
         pc' \notin {"rename", "publish"}
  PROVE  PartsInv'
<1>1. db'.manifests \subseteq db.manifests  BY DEF Commit
<1> QED  BY <1>1, PartsQuiet

\* Every step keeps a published part's name for its own complete file.
LEMMA NextParts == TypeOK /\ FilesInv /\ PartsInv /\ [Next]_vars => PartsInv'
<1> SUFFICES ASSUME TypeOK, FilesInv, PartsInv, [Next]_vars PROVE PartsInv'
  OBVIOUS
<1>0. db \in Database  BY DEF TypeOK
<1>1. ASSUME NEW x \in Cold, NEW p \in Parts, WriteTemporary(x, p)
      PROVE  PartsInv'
  <2>1. part'.part = p /\ pc' = "rename" /\ db' = db
    BY <1>1 DEF WriteTemporary
  <2>2. \A f \in files : f.part # p
    BY <1>1 DEF WriteTemporary, Fresh
  <2>3. \A f \in files' : f \in files \/ (f.part = p /\ f.ext = "tmp")
    BY <1>1 DEF WriteTemporary
  <2> QED  BY <2>1, <2>2, <2>3 DEF PartsInv
<1>2. CASE RenameTemporary
  <2>1. /\ pc = "rename" /\ pc' = "publish" /\ db' = db /\ part' = part
        /\ files' = {f \in files : f.part # part.part} \cup {Published(part)}
    BY <1>2 DEF RenameTemporary, Locals
  <2>2. Published(part).part = part.part  BY DEF Published
  <2>3. \A m \in db.manifests : m.part # part.part
    BY <2>1 DEF FilesInv
  <2> QED  BY <2>1, <2>2, <2>3 DEF PartsInv
<1>3. CASE PublishManifest
  <2>1. db'.manifests = db.manifests \cup {part}
    BY <1>3 DEF PublishManifest, Commit, Archived, TypeOK, Database
  <2>2. pc = "publish" /\ pc' = "archive" /\ files' = files
    BY <1>3 DEF PublishManifest
  <2> QED  BY <2>1, <2>2 DEF PartsInv
<1>4. CASE ArchiveDone \/ EnforceDone \/ OpenDone \/ JobFails
  BY <1>4, PartsQuiet DEF ArchiveDone, EnforceDone, OpenDone, JobFails, Release
<1>5. ASSUME NEW m, EvictPartition(m)
      PROVE  PartsInv'
  <2>1. WithoutPartition(db, m).manifests \subseteq db.manifests
    BY <1>0 DEF WithoutPartition, Database
  <2> QED  BY <1>5, <2>1, PartsCommit DEF EvictPartition
<1>6. ASSUME NEW x, EvictHot(x)
      PROVE  PartsInv'
  <2>1. WithoutHot(db, x).manifests = db.manifests
    BY <1>0 DEF WithoutHot, Database
  <2> QED  BY <1>6, <2>1, PartsCommit DEF EvictHot, OverTarget
<1>7. ASSUME NEW i, EvictIssue(i)
      PROVE  PartsInv'
  <2> DEFINE d == [db EXCEPT !.issues = @ \ {i},
                             !.record_indexes = @ \ {IssueIndex(i)}]
  <2>1. d.manifests = db.manifests  BY <1>0 DEF Database
  <2>2. Commit(d, TRUE)  BY <1>7 DEF EvictIssue
  <2> HIDE DEF d
  <2> QED  BY <1>7, <2>1, <2>2, PartsCommit DEF EvictIssue, OverTarget
<1>8. ASSUME NEW chunk, ClearChunk(chunk)
      PROVE  PartsInv'
  <2> DEFINE d == [db EXCEPT ![stage] = @ \ chunk]
  <2>1. d.manifests = db.manifests  BY DEF TypeOK, Database, Stages
  <2>2. Commit(d, FALSE)  BY <1>8 DEF ClearChunk
  <2> HIDE DEF d
  <2> QED  BY <1>8, <2>1, <2>2, PartsCommit DEF ClearChunk
<1>9. CASE DropProject
  <2> DEFINE d == [db EXCEPT
                     !.manifests = @ \ {m \in db.manifests :
                                          m.project = removing},
                     !.projects = {q \in @ : q.id # removing}]
  <2>1. d.manifests \subseteq db.manifests  BY <1>0 DEF Database
  <2>2. Commit(d, TRUE)  BY <1>9 DEF DropProject
  <2> HIDE DEF d
  <2> QED  BY <1>9, <2>1, <2>2, PartsCommit DEF DropProject
<1>10. ASSUME NEW name, AddProject(name)
       PROVE  PartsInv'
  <2> DEFINE d == [db EXCEPT
                     !.projects = @ \cup {[id |-> db.next, name |-> name,
                                           status |-> "Active"]},
                     !.next = @ + 1]
  <2>1. d.manifests = db.manifests  BY <1>0 DEF Database
  <2>2. Commit(d, TRUE)  BY <1>10 DEF AddProject
  <2> HIDE DEF d
  <2> QED  BY <1>10, <2>1, <2>2, PartsCommit DEF AddProject, Free
<1>11. ASSUME NEW S, NEW at, WriteRecords(S, at)
       PROVE  PartsInv'
  <2>1. PICK T \in Newest(Accepted(db, S)) :
           Commit(Written(db, Accepted(db, S), at, T), Safe)
    BY <1>11 DEF WriteRecords
  <2>2. Written(db, Accepted(db, S), at, T).manifests = db.manifests
    BY <1>0 DEF Written, Database
  <2> QED  BY <1>11, <2>1, <2>2, PartsCommit DEF WriteRecords, Free
<1>12. ASSUME NEW q, RemoveProject(q)
       PROVE  PartsInv'
  <2> DEFINE d == [db EXCEPT !.projects =
                     (@ \ {q}) \cup {[q EXCEPT !.status = "Deleting"]}]
  <2>1. d.manifests = db.manifests  BY <1>0 DEF Database
  <2>2. Commit(d, FALSE)  BY <1>12 DEF RemoveProject
  <2> HIDE DEF d
  <2> QED  BY <1>12, <2>1, <2>2, PartsCommit DEF RemoveProject
<1>13. CASE SyncMark
  BY <1>13, PartsCommit DEF SyncMark
<1>14. CASE Persist
  <2>1. UNCHANGED <<db, files, pc, part>>
    BY <1>14 DEF Persist, Commit, Locals
  <2> QED  BY <2>1 DEF PartsInv, Published
<1>15. ASSUME NEW p, Unlink(p)
       PROVE  PartsInv'
  BY <1>15, PartsQuiet DEF Unlink
<1>16. ASSUME NEW f, CleanUp(f)
       PROVE  PartsInv'
  BY <1>16, PartsQuiet DEF CleanUp
<1>17. ASSUME NEW q, ResumeDeletion(q)
       PROVE  PartsInv'
  BY <1>17, PartsQuiet DEF ResumeDeletion
<1>18. CASE ClearNext
  BY <1>18, PartsQuiet DEF ClearNext
<1>19. CASE UnlinkDone
  BY <1>19, PartsQuiet DEF UnlinkDone
<1>20. CASE EnforceStorageTarget
  BY <1>20, PartsQuiet DEF EnforceStorageTarget
<1>21. ASSUME NEW time, ArchiveBefore(time)
       PROVE  PartsInv'
  BY <1>21, PartsQuiet DEF ArchiveBefore
<1>22. CASE ProcessCrash
  BY <1>22, PartsQuiet DEF ProcessCrash, Restart
<1>23. ASSUME NEW d \in recoverable, PowerLoss(d)
       PROVE  PartsInv'
  <2>1. db'.manifests = db.manifests
    BY <1>23 DEF PowerLoss, FilesInv, SyncedAgree
  <2> QED  BY <1>23, <2>1, PartsQuiet DEF PowerLoss, Restart
<1>24. CASE UNCHANGED vars
  BY <1>24 DEF vars, PartsInv, Published
<1> QED
  BY <1>1, <1>2, <1>3, <1>4, <1>5, <1>6, <1>7, <1>8, <1>9, <1>10, <1>11,
     <1>12, <1>13, <1>14, <1>15, <1>16, <1>17, <1>18, <1>19, <1>20, <1>21,
     <1>22, <1>23, <1>24
  DEF Next, Job, Archiver, Enforcer, Remover, Opener, Calls, Crash

\* Only the end of Store::open ends the opening.
LEMMA OpeningEnds ==
  ASSUME opening, ~opening', [Next]_vars
  PROVE  OpenDone
<1>1. CASE Archiver
  BY <1>1 DEF Archiver, WriteTemporary, RenameTemporary, PublishManifest,
              ArchiveDone, Locals
<1>2. CASE Enforcer
  BY <1>2 DEF Enforcer, EvictPartition, EvictHot, EvictIssue, EnforceDone,
              Locals
<1>3. CASE Remover
  BY <1>3 DEF Remover, SyncMark, ClearChunk, ClearNext, DropProject, Unlink,
              UnlinkDone, Locals
<1>4. CASE Opener
  BY <1>4 DEF Opener, ResumeDeletion, CleanUp, Locals
<1>5. CASE Calls
  BY <1>5 DEF Calls, AddProject, WriteRecords, ArchiveBefore,
              EnforceStorageTarget, RemoveProject, Persist, Locals
<1>6. CASE JobFails \/ Crash \/ UNCHANGED vars
  BY <1>6 DEF JobFails, Crash, ProcessCrash, PowerLoss, Restart, vars
<1> QED  BY <1>1, <1>2, <1>3, <1>4, <1>5, <1>6 DEF Next, Job

\* Once Store::open returns, the directory holds exactly the published parts
\* and every project is served, whatever was interrupted before.
THEOREM StoreOpenRepairs == Spec => OpenRepairs
<1> DEFINE Repaired == opening /\ ~opening' =>
             /\ files' = {Published(m) : m \in db'.manifests}
             /\ \A q \in db'.projects : q.status = "Active"
<1>1. TypeOK /\ FilesInv /\ PartsInv /\ [Next]_vars => Repaired
  <2> SUFFICES ASSUME TypeOK, FilesInv, PartsInv, [Next]_vars,
                      opening, ~opening'
               PROVE  /\ files' = {Published(m) : m \in db'.manifests}
                      /\ \A q \in db'.projects : q.status = "Active"
    OBVIOUS
  <2>1. OpenDone  BY OpeningEnds
  <2>2. /\ Removable({"Deleting"}) = {} /\ Strays = {}
        /\ UNCHANGED <<db, files>>
    BY <2>1 DEF OpenDone
  <2>3. \A f \in files : f.ext = "parquet" /\ \E m \in db.manifests :
           f.part = m.part
    BY <2>2 DEF Strays, TypeOK, File
  <2>4. \A f \in files : \E m \in db.manifests : f = Published(m)
    BY <2>3 DEF PartsInv
  <2>5. \A m \in db.manifests : Published(m) \in files  BY DEF FilesInv
  <2>6. files = {Published(m) : m \in db.manifests}  BY <2>4, <2>5
  <2>7. \A q \in db.projects : q.status = "Active"
    BY <2>2 DEF Removable, TypeOK, Database, ProjectRow
  <2> QED  BY <2>2, <2>6, <2>7
<1>2. Init => PartsInv  BY DEF Init, PartsInv
<1>3. Spec => []FilesInv
  BY InitFiles, NextFiles, StoreTypeOK, PTL DEF Spec
<1>4. Spec => []PartsInv
  BY <1>2, <1>3, NextParts, StoreTypeOK, PTL DEF Spec
<1> QED  BY <1>1, <1>3, <1>4, StoreTypeOK, PTL DEF Spec, OpenRepairs

\* An id is never handed out again: ids change only in synced batches.
THEOREM StoreIdsNeverReused == Spec => IdsNeverReused
<1>1. TypeOK /\ FilesInv /\ [Next]_vars => [db'.next >= db.next]_vars
  <2> SUFFICES ASSUME TypeOK, FilesInv, Next  PROVE db'.next >= db.next
    BY DEF TypeOK, Database, vars
  <2>1. db.next \in Nat  BY DEF TypeOK, Database
  <2>2. ASSUME NEW d, NEW synced, Commit(d, synced), d.next = db.next
        PROVE  db'.next >= db.next
    BY <2>1, <2>2 DEF Commit
  <2>3. CASE UNCHANGED db
    BY <2>1, <2>3
  <2>4. ASSUME NEW name \in Names, AddProject(name)  PROVE db'.next >= db.next
    BY <2>1, <2>4 DEF AddProject, Commit, TypeOK, Database
  <2>5. ASSUME NEW m, EvictPartition(m)  PROVE db'.next >= db.next
    <3>1. WithoutPartition(db, m).next = db.next
      BY DEF WithoutPartition, TypeOK, Database
    <3> QED  BY <2>2, <2>5, <3>1 DEF EvictPartition
  <2>6. ASSUME NEW x, EvictHot(x)  PROVE db'.next >= db.next
    <3>1. WithoutHot(db, x).next = db.next
      BY DEF WithoutHot, TypeOK, Database
    <3> QED  BY <2>2, <2>6, <3>1 DEF EvictHot
  <2>7. ASSUME NEW i, EvictIssue(i)  PROVE db'.next >= db.next
    BY <2>1, <2>7 DEF EvictIssue, Commit, TypeOK, Database
  <2>8. CASE PublishManifest
    <3>1. Archived(db, part).next = db.next
      BY DEF Archived, TypeOK, Database
    <3> QED  BY <2>2, <2>8, <3>1 DEF PublishManifest
  <2>12. CASE DropProject
    <3> DEFINE e == [db EXCEPT
                       !.manifests = @ \ {m \in db.manifests :
                                            m.project = removing},
                       !.projects = {q \in @ : q.id # removing}]
    <3>1. e.next = db.next  BY DEF TypeOK, Database
    <3>2. Commit(e, TRUE)  BY <2>12 DEF DropProject
    <3> HIDE DEF e
    <3> QED  BY <2>2, <3>1, <3>2
  <2>13. ASSUME NEW chunk, ClearChunk(chunk)  PROVE db'.next >= db.next
    <3>1. [db EXCEPT ![stage] = @ \ chunk].next = db.next
      BY DEF TypeOK, Database, Stages
    <3> QED  BY <2>2, <2>13, <3>1 DEF ClearChunk
  <2>14. ASSUME NEW S, NEW at, WriteRecords(S, at)  PROVE db'.next >= db.next
    <3>1. PICK T \in Newest(Accepted(db, S)) :
             Commit(Written(db, Accepted(db, S), at, T), Safe)
      BY <2>14 DEF WriteRecords
    <3>2. Written(db, Accepted(db, S), at, T).next = db.next
      BY DEF Written, TypeOK, Database
    <3> QED  BY <2>2, <3>1, <3>2
  <2>9. ASSUME NEW q, RemoveProject(q)  PROVE db'.next >= db.next
    BY <2>1, <2>9 DEF RemoveProject, Commit, TypeOK, Database
  <2>10. CASE Persist \/ SyncMark
    BY <2>1, <2>10 DEF Persist, SyncMark, Commit
  <2>11. ASSUME NEW d \in recoverable, PowerLoss(d)
         PROVE  db'.next >= db.next
    BY <2>1, <2>11 DEF PowerLoss, FilesInv, SyncedAgree
  <2> QED
    BY <2>3, <2>4, <2>5, <2>6, <2>7, <2>8, <2>9, <2>10, <2>11, <2>12,
       <2>13, <2>14
    DEF Next, Job, Archiver, Enforcer, Remover, Opener, Calls, Crash,
        WriteTemporary, RenameTemporary, ArchiveDone, EnforceDone, ClearNext,
        Unlink, UnlinkDone, ResumeDeletion, CleanUp, OpenDone, JobFails,
        ProcessCrash, ArchiveBefore, EnforceStorageTarget
<1>2. Spec => []FilesInv
  BY InitFiles, NextFiles, StoreTypeOK, PTL DEF Spec
<1> QED  BY <1>1, <1>2, StoreTypeOK, PTL DEF Spec, IdsNeverReused

-----------------------------------------------------------------------------
(* No key outlives its project.                                            *)

Homed(d) ==
    /\ \A q \in d.projects : q.id < d.next
    /\ \A k \in Stages \cup {"manifests"} : \A row \in d[k] :
          \E q \in d.projects : q.id = row.project

Has(d, row) == \E q \in d.projects : q.id = row.project

\* Rows that all have a project row, keyspace by keyspace, leave no orphan.
LEMMA HomedByRows ==
  ASSUME NEW d,
         \A q \in d.projects : q.id < d.next,
         \A row \in d.records : Has(d, row),
         \A row \in d.record_indexes : Has(d, row),
         \A row \in d.record_ids : Has(d, row),
         \A row \in d.source_ids : Has(d, row),
         \A row \in d.cumulative_sums : Has(d, row),
         \A row \in d.issues : Has(d, row),
         \A row \in d.archive_ids : Has(d, row),
         \A row \in d.manifests : Has(d, row)
  PROVE  Homed(d)
BY DEF Homed, Has, Stages

\* Without orphans, every row of every keyspace has its project row.
LEMMA HomedRows ==
  ASSUME NEW d, Homed(d)
  PROVE  /\ \A q \in d.projects : q.id < d.next
         /\ \A row \in d.records : Has(d, row)
         /\ \A row \in d.record_indexes : Has(d, row)
         /\ \A row \in d.record_ids : Has(d, row)
         /\ \A row \in d.source_ids : Has(d, row)
         /\ \A row \in d.cumulative_sums : Has(d, row)
         /\ \A row \in d.issues : Has(d, row)
         /\ \A row \in d.archive_ids : Has(d, row)
         /\ \A row \in d.manifests : Has(d, row)
BY DEF Homed, Has, Stages

\* Committing a database without orphans leaves none to be recovered.
LEMMA CommitHomed ==
  ASSUME NoOrphanKeys, NEW d, NEW synced, Commit(d, synced), Homed(d)
  PROVE  NoOrphanKeys'
BY DEF NoOrphanKeys, Commit, Homed

\* Accepted records are filed under a live project.
LEMMA WrittenHomed ==
  ASSUME NEW d \in Database, Homed(d), NEW R \in SUBSET Records, NEW at,
         NEW T \in Newest(Accepted(d, R))
  PROVE  Homed(Written(d, Accepted(d, R), at, T))
<1> DEFINE S == Accepted(d, R)
           e == Written(d, S, at, T)
           rows == {[project |-> ProjectOf[r], id |-> r, at |-> at] : r \in S}
           old == {i \in d.issues : \E t \in T : IsOf(t, i)}
           new == {Bumped(d, S, t) : t \in T}
           sums == {[project |-> ProjectOf[r], stream |-> StreamOf[r]] :
                      r \in {q \in S : StreamOf[q] # None}}
<1>1. \A r \in S : \E q \in d.projects : q.id = ProjectOf[r]
  BY DEF Accepted, Active
<1>2. T \subseteq S  BY DEF Newest
<1>3. \A row \in rows : Has(d, row)  BY <1>1 DEF Has
<1>4. \A row \in sums : Has(d, row)  BY <1>1 DEF Has
<1>5. \A row \in new : Has(d, row)
  <2> SUFFICES ASSUME NEW t \in T  PROVE Has(d, Bumped(d, S, t))
    OBVIOUS
  <2>1. Bumped(d, S, t).project = ProjectOf[t]  BY DEF Bumped
  <2> QED  BY <1>1, <1>2, <2>1 DEF Has
<1>6. /\ \A row \in {Key(x) : x \in rows} : Has(d, row)
      /\ \A row \in {EventIndex(x) : x \in rows} : Has(d, row)
  BY <1>3 DEF Has, Key, EventIndex
<1>7. \A row \in {IssueIndex(i) : i \in new} : Has(d, row)
  BY <1>5 DEF Has, IssueIndex
<1> HIDE DEF rows, old, new, sums
<1>8. e = [d EXCEPT
             !.records = @ \cup rows,
             !.record_ids = @ \cup {Key(x) : x \in rows},
             !.source_ids = @ \cup {Key(x) : x \in rows},
             !.record_indexes = (@ \ {IssueIndex(i) : i \in old})
                 \cup {EventIndex(x) : x \in rows}
                 \cup {IssueIndex(i) : i \in new},
             !.issues = (@ \ old) \cup new,
             !.cumulative_sums = @ \cup sums]
  BY DEF Written, rows, old, new, sums
<1> HIDE DEF e
<1>9. /\ e.records = d.records \cup rows
      /\ e.record_ids = d.record_ids \cup {Key(x) : x \in rows}
      /\ e.source_ids = d.source_ids \cup {Key(x) : x \in rows}
      /\ e.record_indexes \subseteq d.record_indexes
            \cup {EventIndex(x) : x \in rows} \cup {IssueIndex(i) : i \in new}
      /\ e.issues \subseteq d.issues \cup new
      /\ e.cumulative_sums = d.cumulative_sums \cup sums
      /\ e.archive_ids = d.archive_ids
      /\ e.manifests = d.manifests
      /\ e.projects = d.projects
      /\ e.next = d.next
  BY <1>8 DEF Database
<1>10. \A row : Has(e, row) <=> Has(d, row)  BY <1>9 DEF Has
<1>11. Homed(e)
  BY <1>3, <1>4, <1>5, <1>6, <1>7, <1>9, <1>10, HomedRows, HomedByRows
<1> QED  BY <1>11 DEF e

\* Publishing a manifest of a known project leaves no orphan.
LEMMA ArchivedHomed ==
  ASSUME NEW d \in Database, Homed(d), NEW m,
         \A x \in m.rows \cup {m} : Has(d, x)
  PROVE  Homed(Archived(d, m))
<1> DEFINE e == Archived(d, m)
           moved == {[project |-> x.project, id |-> x.id, part |-> m.part] :
                       x \in m.rows}
<1>1. \A row \in moved : Has(d, row)  BY DEF Has
<1> HIDE DEF moved
<1>2. /\ e.records \subseteq d.records
      /\ e.record_ids \subseteq d.record_ids
      /\ e.source_ids = d.source_ids
      /\ e.record_indexes \subseteq d.record_indexes
      /\ e.issues = d.issues
      /\ e.cumulative_sums = d.cumulative_sums
      /\ e.archive_ids = d.archive_ids \cup moved
      /\ e.manifests = d.manifests \cup {m}
      /\ e.projects = d.projects
      /\ e.next = d.next
  BY DEF Archived, Database, moved
<1> HIDE DEF e
<1>3. \A row : Has(e, row) <=> Has(d, row)  BY <1>2 DEF Has
<1>4. Homed(e)  BY <1>1, <1>2, <1>3, HomedRows, HomedByRows
<1> QED  BY <1>4 DEF e

\* Decrementing issues keeps them in their projects.
LEMMA DecrementedHomed ==
  ASSUME NEW d \in Database, NEW rows
  PROVE  \A j \in Decremented(d.issues, rows) : \E i \in d.issues :
            j.project = i.project
<1>1. d.issues \subseteq IssueRow  BY DEF Database
<1>2. ASSUME NEW i \in d.issues, NEW left, NEW top
      PROVE  [i EXCEPT !.retained = left, !.latest = top].project = i.project
  BY <1>1 DEF IssueRow
<1>3. SUFFICES ASSUME NEW j \in Decremented(d.issues, rows)
               PROVE  \E i \in d.issues : j.project = i.project
  OBVIOUS
<1>4. PICK i \in d.issues :
         \E left, top : j = [i EXCEPT !.retained = left, !.latest = top]
  BY <1>3, Zenon DEF Decremented
<1> QED  BY <1>2, <1>4

\* A database with fewer rows, whose issues stay where they are.
LEMMA FewerHomed ==
  ASSUME NEW d, Homed(d), NEW e,
         e.records \subseteq d.records,
         e.record_indexes \subseteq d.record_indexes,
         e.record_ids \subseteq d.record_ids,
         e.source_ids \subseteq d.source_ids,
         e.cumulative_sums \subseteq d.cumulative_sums,
         e.archive_ids \subseteq d.archive_ids,
         e.manifests \subseteq d.manifests,
         \A j \in e.issues : \E i \in d.issues : j.project = i.project,
         e.projects = d.projects, e.next = d.next
  PROVE  Homed(e)
<1>1. \A row : Has(e, row) <=> Has(d, row)  BY DEF Has
<1>2. \A row \in e.issues : Has(d, row)  BY HomedRows DEF Has
<1> QED  BY <1>1, <1>2, HomedRows, HomedByRows

\* A fresh data directory has no orphan and no removal under way.
LEMMA InitRows == Init => RowsInv
BY BoundAssumption
DEF Init, RowsInv, SyncedAgree, NoOrphanKeys, EmptyDatabase, Stages

\* A step that ends, starts or continues a job without work in flight.
LEMMA RowsQuiet ==
  ASSUME SyncedAgree', NoOrphanKeys',
         pc' \notin {"rename", "publish", "clear", "drop"},
         pc' # "unlink" => stage' = "records"
  PROVE  RowsInv'
BY DEF RowsInv

\* A commit in such a step.
LEMMA RowsCommit ==
  ASSUME RowsInv, NEW d, NEW synced, Commit(d, synced), Homed(d),
         synced \/ /\ d.manifests = db.manifests
                   /\ d.next = db.next
  PROVE  SyncedAgree' /\ NoOrphanKeys'
BY CommitAgrees, CommitHomed DEF RowsInv

\* Every step keeps keys with their project, and passed keyspaces clear.
LEMMA NextRows == TypeOK /\ RowsInv /\ [Next]_vars => RowsInv'
<1> SUFFICES ASSUME TypeOK, RowsInv, [Next]_vars PROVE RowsInv'
  OBVIOUS
<1> USE BoundAssumption
<1>0. SyncedAgree /\ NoOrphanKeys /\ Homed(db) /\ db \in Database
  BY DEF RowsInv, SyncedAgree, NoOrphanKeys, Homed, TypeOK
<1>a. ASSUME UNCHANGED <<db, recoverable>>
      PROVE  SyncedAgree' /\ NoOrphanKeys'
  BY <1>0, <1>a DEF SyncedAgree, NoOrphanKeys
<1>b. pc \notin {"clear", "drop", "unlink"} => stage = "records"
  BY DEF RowsInv
<1>1. ASSUME NEW x \in Cold, NEW p \in Parts, WriteTemporary(x, p)
      PROVE  RowsInv'
  <2>1. \A y \in part'.rows : y \in db.records /\ part'.project = x.project
    BY <1>1 DEF WriteTemporary, Cold, Before
  <2>2. \A y \in db.records : Has(db, y)  BY <1>0, HomedRows
  <2>3. part'.project = x.project /\ x \in db.records
    BY <1>1 DEF WriteTemporary, Cold, Before
  <2>4. \A y \in part'.rows \cup {part'} :
           \E q \in db'.projects : q.id = y.project
    BY <1>1, <2>1, <2>2, <2>3 DEF WriteTemporary, Has
  <2>5. pc' = "rename" /\ stage' = "records"
    BY <1>1, <1>b DEF WriteTemporary
  <2> QED  BY <1>1, <1>a, <2>4, <2>5 DEF WriteTemporary, RowsInv
<1>2. CASE RenameTemporary
  BY <1>2, <1>a DEF RenameTemporary, RowsInv, Locals
<1>3. CASE PublishManifest
  <2>1. \A x \in part.rows \cup {part} : Has(db, x)
    BY <1>3 DEF PublishManifest, RowsInv, Has
  <2>2. Homed(Archived(db, part))  BY <1>0, <2>1, ArchivedHomed
  <2>3. SyncedAgree' /\ NoOrphanKeys'
    BY <1>3, <2>2, RowsCommit DEF PublishManifest
  <2> QED  BY <1>3, <1>b, <2>3, RowsQuiet DEF PublishManifest
<1>4. CASE ArchiveDone
  BY <1>4, <1>a, RowsQuiet DEF ArchiveDone, Release
<1>5. ASSUME NEW m \in OldestPartitions, EvictPartition(m)
      PROVE  RowsInv'
  <2> DEFINE e == WithoutPartition(db, m)
  <2>1. /\ e.issues = Decremented(db.issues, m.rows)
        /\ e.records = db.records
        /\ e.record_indexes = db.record_indexes
        /\ e.record_ids = db.record_ids
        /\ e.source_ids \subseteq db.source_ids
        /\ e.cumulative_sums = db.cumulative_sums
        /\ e.archive_ids \subseteq db.archive_ids
        /\ e.manifests \subseteq db.manifests
        /\ e.projects = db.projects
        /\ e.next = db.next
    BY <1>0 DEF WithoutPartition, Database
  <2>2. Commit(e, TRUE)  BY <1>5 DEF EvictPartition
  <2> HIDE DEF e
  <2>3. \A j \in e.issues : \E i \in db.issues : j.project = i.project
    BY <1>0, <2>1, DecrementedHomed
  <2>4. Homed(e)  BY <1>0, <2>1, <2>3, FewerHomed
  <2>5. SyncedAgree' /\ NoOrphanKeys'  BY <2>2, <2>4, RowsCommit
  <2> QED  BY <1>5, <2>5, RowsQuiet DEF EvictPartition
<1>6. ASSUME NEW x \in db.records, EvictHot(x)
      PROVE  RowsInv'
  <2> DEFINE e == WithoutHot(db, x)
  <2>1. /\ e.issues = Decremented(db.issues, {x})
        /\ e.records \subseteq db.records
        /\ e.record_indexes \subseteq db.record_indexes
        /\ e.record_ids \subseteq db.record_ids
        /\ e.source_ids \subseteq db.source_ids
        /\ e.cumulative_sums = db.cumulative_sums
        /\ e.archive_ids = db.archive_ids
        /\ e.manifests = db.manifests
        /\ e.projects = db.projects
        /\ e.next = db.next
    BY <1>0 DEF WithoutHot, Database
  <2>2. Commit(e, TRUE)  BY <1>6 DEF EvictHot
  <2> HIDE DEF e
  <2>3. \A j \in e.issues : \E i \in db.issues : j.project = i.project
    BY <1>0, <2>1, DecrementedHomed
  <2>4. Homed(e)  BY <1>0, <2>1, <2>3, FewerHomed
  <2>5. SyncedAgree' /\ NoOrphanKeys'  BY <2>2, <2>4, RowsCommit
  <2>6. pc' = "enforce" /\ stage' = "records"
    BY <1>6, <1>b DEF EvictHot, OverTarget, Locals
  <2> QED  BY <2>5, <2>6, RowsQuiet
<1>7. ASSUME NEW i \in db.issues, EvictIssue(i)
      PROVE  RowsInv'
  <2> DEFINE e == [db EXCEPT !.issues = @ \ {i},
                             !.record_indexes = @ \ {IssueIndex(i)}]
  <2>1. /\ e.issues \subseteq db.issues
        /\ e.records = db.records
        /\ e.record_indexes \subseteq db.record_indexes
        /\ e.record_ids = db.record_ids
        /\ e.source_ids = db.source_ids
        /\ e.cumulative_sums = db.cumulative_sums
        /\ e.archive_ids = db.archive_ids
        /\ e.manifests = db.manifests
        /\ e.projects = db.projects
        /\ e.next = db.next
    BY <1>0 DEF Database
  <2>2. Commit(e, TRUE)  BY <1>7 DEF EvictIssue
  <2> HIDE DEF e
  <2>3. Homed(e)  BY <1>0, <2>1, FewerHomed
  <2>4. SyncedAgree' /\ NoOrphanKeys'  BY <2>2, <2>3, RowsCommit
  <2>5. pc' = "enforce" /\ stage' = "records"
    BY <1>7, <1>b DEF EvictIssue, OverTarget, Locals
  <2> QED  BY <2>4, <2>5, RowsQuiet
<1>8. CASE EnforceDone
  BY <1>8, <1>a, RowsQuiet DEF EnforceDone, Release
<1>9. ASSUME NEW chunk, ClearChunk(chunk)
      PROVE  RowsInv'
  <2> DEFINE e == [db EXCEPT ![stage] = @ \ chunk]
  <2>1. /\ \A k \in Stages \cup {"manifests"} : e[k] \subseteq db[k]
        /\ e.manifests = db.manifests
        /\ e.projects = db.projects
        /\ e.next = db.next
    BY <1>0 DEF TypeOK, Database, Stages
  <2>2. Commit(e, FALSE)  BY <1>9 DEF ClearChunk
  <2> HIDE DEF e
  <2>3. Homed(e)  BY <1>0, <2>1 DEF Homed
  <2>4. SyncedAgree' /\ NoOrphanKeys'  BY <2>1, <2>2, <2>3, RowsCommit
  <2>5. /\ \A k \in Stages : db'[k] \subseteq db[k]
        /\ pc = "clear" /\ pc' = "clear" /\ UNCHANGED <<stage, removing>>
    BY <1>9, <2>1, <2>2 DEF ClearChunk, Commit, Locals
  <2>6. \A k \in Passed[stage] : k \in Stages
    BY DEF TypeOK, Stages, Passed
  <2> QED  BY <2>4, <2>5, <2>6 DEF RowsInv
<1>10. CASE ClearNext
  <2>1. /\ pc = "clear" /\ Uncleared = {} /\ stage \in Stages
        /\ UNCHANGED <<db, removing>>
    BY <1>10 DEF ClearNext, TypeOK
  <2>2. \A k \in Passed[stage] \cup {stage} : \A row \in db[k] :
           row.project # removing
    BY <2>1 DEF RowsInv, Uncleared
  <2>3. After[stage] \in Stages =>
           Passed[After[stage]] = Passed[stage] \cup {stage}
    BY <2>1 DEF After, Passed, Stages
  <2>4. After[stage] \notin Stages => Stages = Passed[stage] \cup {stage}
    BY <2>1 DEF After, Passed, Stages
  <2>5. CASE After[stage] \in Stages
    <3>1. pc' = "clear" /\ Passed[stage'] = Passed[stage] \cup {stage}
      BY <1>10, <2>1, <2>3, <2>5 DEF ClearNext
    <3> QED  BY <1>10, <1>a, <2>1, <2>2, <3>1 DEF ClearNext, RowsInv
  <2>6. CASE After[stage] \notin Stages
    <3>1. pc' = "drop"  BY <1>10, <2>6 DEF ClearNext
    <3> QED  BY <1>10, <1>a, <2>1, <2>2, <2>4, <2>6, <3>1
             DEF ClearNext, RowsInv
  <2> QED  BY <2>5, <2>6
<1>11. CASE DropProject
  <2> DEFINE e == [db EXCEPT
                     !.manifests = @ \ {m \in db.manifests :
                                          m.project = removing},
                     !.projects = {q \in @ : q.id # removing}]
  <2>1. /\ \A k \in Stages : e[k] = db[k]
        /\ e.manifests = {m \in db.manifests : m.project # removing}
        /\ e.projects = {q \in db.projects : q.id # removing}
        /\ e.next = db.next
    BY <1>0 DEF Database, Stages
  <2>2. Commit(e, TRUE) /\ pc = "drop" /\ pc' = "unlink"
    BY <1>11 DEF DropProject
  <2> HIDE DEF e
  <2>3. \A k \in Stages \cup {"manifests"} : \A row \in e[k] :
           row \in db[k] /\ row.project # removing
    BY <2>1, <2>2 DEF RowsInv, Stages
  <2>4. Homed(e)  BY <1>0, <2>1, <2>3 DEF Homed
  <2>5. SyncedAgree' /\ NoOrphanKeys'  BY <2>2, <2>4, RowsCommit
  <2> QED  BY <2>2, <2>5, RowsQuiet
<1>12. ASSUME NEW p \in doomed, Unlink(p)
       PROVE  RowsInv'
  BY <1>12, <1>a, RowsQuiet DEF Unlink
<1>13. CASE UnlinkDone
  BY <1>13, <1>a, RowsQuiet DEF UnlinkDone
<1>14. ASSUME NEW q \in Removable({"Deleting"}), ResumeDeletion(q)
       PROVE  RowsInv'
  <2>1. pc' = "clear" /\ stage' = "records"
    BY <1>14, <1>b DEF ResumeDeletion
  <2>2. Passed[stage'] = {}  BY <2>1 DEF Passed
  <2> QED  BY <1>14, <1>a, <2>1, <2>2 DEF ResumeDeletion, RowsInv
<1>15. ASSUME NEW f \in Strays, CleanUp(f)
       PROVE  RowsInv'
  BY <1>15, <1>a, <1>b, RowsQuiet DEF CleanUp, Locals
<1>16. CASE OpenDone
  BY <1>16, <1>a, RowsQuiet DEF OpenDone, Release
<1>17. ASSUME NEW name \in Names, AddProject(name)
       PROVE  RowsInv'
  <2> DEFINE row == [id |-> db.next, name |-> name, status |-> "Active"]
             e == [db EXCEPT !.projects = @ \cup {row}, !.next = @ + 1]
  <2>0. row.id = db.next /\ db.next \in Nat
    BY <1>0 DEF Database
  <2> HIDE DEF row
  <2>1. /\ \A k \in Stages \cup {"manifests"} : e[k] = db[k]
        /\ e.projects = db.projects \cup {row}
        /\ e.next = db.next + 1
    BY <1>0 DEF Database, Stages
  <2>2. Commit(e, TRUE)  BY <1>17 DEF AddProject, row
  <2> HIDE DEF e
  <2>3. \A q \in db.projects : q.id \in Nat /\ q.id < db.next
    BY <1>0 DEF Homed, Database, ProjectRow
  <2>4. Homed(e)  BY <1>0, <2>0, <2>1, <2>3 DEF Homed
  <2>5. SyncedAgree' /\ NoOrphanKeys'  BY <2>2, <2>4, RowsCommit
  <2>6. pc' = "idle" /\ stage' = "records"
    BY <1>17, <1>b DEF AddProject, Free, Locals
  <2> QED  BY <2>5, <2>6, RowsQuiet
<1>18. ASSUME NEW S \in SUBSET Records, NEW at \in Clock, WriteRecords(S, at)
       PROVE  RowsInv'
  <2>1. PICK T \in Newest(Accepted(db, S)) :
           Commit(Written(db, Accepted(db, S), at, T), Safe)
    BY <1>18 DEF WriteRecords
  <2> DEFINE d == Written(db, Accepted(db, S), at, T)
  <2>2. /\ d.manifests = db.manifests
        /\ d.projects = db.projects
        /\ d.next = db.next
    BY <1>0 DEF Written, Database
  <2>3. Homed(d)  BY <1>0, <2>1, WrittenHomed
  <2> HIDE DEF d
  <2>4. Commit(d, Safe)  BY <2>1 DEF d
  <2>5. SyncedAgree' /\ NoOrphanKeys'  BY <2>2, <2>3, <2>4, RowsCommit
  <2>6. pc' = "idle" /\ stage' = "records"
    BY <1>18, <1>b DEF WriteRecords, Free, Locals
  <2> QED  BY <2>5, <2>6, RowsQuiet
<1>19. ASSUME NEW time \in Clock, ArchiveBefore(time + 1)
       PROVE  RowsInv'
  BY <1>19, <1>a, <1>b, RowsQuiet DEF ArchiveBefore, Free
<1>20. CASE EnforceStorageTarget
  BY <1>20, <1>a, <1>b, RowsQuiet DEF EnforceStorageTarget, Free, Locals
<1>21. ASSUME NEW q \in db.projects, RemoveProject(q)
       PROVE  RowsInv'
  <2> DEFINE now == (db.projects \ {q}) \cup {[q EXCEPT !.status = "Deleting"]}
             e == [db EXCEPT !.projects = now]
  <2>a. [q EXCEPT !.status = "Deleting"].id = q.id
    BY <1>0 DEF Database, ProjectRow
  <2>0. \A r \in now : \E s \in db.projects : r.id = s.id
    BY <2>a
  <2>1. \A s \in db.projects : \E r \in now : r.id = s.id
    BY <2>a, Zenon
  <2>2. Commit(e, FALSE)  BY <1>21 DEF RemoveProject
  <2> HIDE DEF now
  <2>3. /\ \A k \in Stages \cup {"manifests"} : e[k] = db[k]
        /\ e.projects = now
        /\ e.manifests = db.manifests
        /\ e.next = db.next
    BY <1>0 DEF Database, Stages
  <2> HIDE DEF e
  <2>4. Homed(e)  BY <1>0, <2>0, <2>1, <2>3 DEF Homed
  <2>5. SyncedAgree' /\ NoOrphanKeys'  BY <2>2, <2>3, <2>4, RowsCommit
  <2>6. pc' = "mark" /\ stage' = "records"
    BY <1>21, <1>b DEF RemoveProject, Free
  <2> QED  BY <2>5, <2>6, RowsQuiet
<1>22. CASE Persist
  <2>1. UNCHANGED <<db, pc, Locals>>  BY <1>22 DEF Persist, Commit
  <2>2. SyncedAgree' /\ NoOrphanKeys'
    BY <1>0, <1>22, RowsCommit DEF Persist
  <2> QED  BY <2>1, <2>2 DEF RowsInv, Locals
<1>27. CASE SyncMark
  <2>1. pc' = "clear" /\ stage' = "records"
    BY <1>27, <1>b DEF SyncMark, Locals
  <2>2. Passed[stage'] = {}  BY <2>1 DEF Passed
  <2>3. SyncedAgree' /\ NoOrphanKeys'
    BY <1>0, <1>27, RowsCommit DEF SyncMark
  <2> QED  BY <2>1, <2>2, <2>3 DEF RowsInv
<1>23. CASE JobFails
  BY <1>23, <1>a, RowsQuiet DEF JobFails, Release
<1>24. CASE ProcessCrash
  BY <1>24, <1>a, RowsQuiet DEF ProcessCrash, Restart
<1>25. ASSUME NEW d \in recoverable, PowerLoss(d)
       PROVE  RowsInv'
  <2>1. SyncedAgree' /\ NoOrphanKeys'
    BY <1>0, <1>25 DEF PowerLoss, SyncedAgree, NoOrphanKeys
  <2> QED  BY <1>25, <2>1, RowsQuiet DEF PowerLoss, Restart
<1>26. CASE UNCHANGED vars
  BY <1>26, <1>a DEF vars, RowsInv
<1> QED
  BY <1>1, <1>2, <1>3, <1>4, <1>5, <1>6, <1>7, <1>8, <1>9, <1>10, <1>11,
     <1>12, <1>13, <1>14, <1>15, <1>16, <1>17, <1>18, <1>19, <1>20, <1>21,
     <1>22, <1>23, <1>24, <1>25, <1>26, <1>27
  DEF Next, Job, Archiver, Enforcer, Remover, Opener, Calls, Crash, Removable

\* A removal interrupted anywhere leaves no key without its project.
THEOREM StoreNoOrphanKeys == Spec => []NoOrphanKeys
<1>1. Spec => []RowsInv
  BY InitRows, NextRows, StoreTypeOK, PTL DEF Spec
<1>2. RowsInv => NoOrphanKeys
  BY DEF RowsInv
<1> QED  BY <1>1, <1>2, PTL

-----------------------------------------------------------------------------
(* One project's rows.                                                     *)

\* Disjoint sets count apart.
LEMMA CountDisjoint ==
  ASSUME NEW A, NEW B, IsFiniteSet(A), IsFiniteSet(B), A \cap B = {}
  PROVE  /\ IsFiniteSet(A \cup B)
         /\ Cardinality(A \cup B) = Cardinality(A) + Cardinality(B)
<1>1. Cardinality(A) \in Nat /\ Cardinality(B) \in Nat
  BY FS_CardinalityType
<1>2. /\ IsFiniteSet(A \cup B)
      /\ Cardinality(A \cup B) =
            Cardinality(A) + Cardinality(B) - Cardinality(A \cap B)
  BY FS_Union
<1>3. Cardinality(A \cap B) = 0  BY FS_EmptySet
<1> QED  BY <1>1, <1>2, <1>3

Fit(d, p) == KeysOnce(d, p) /\ LookupsFit(d, p) /\ IssuesFit(d, p)

\* A project whose rows a step leaves alone.
SameRows(d, e, p) ==
    /\ Of(e.records, p) = Of(d.records, p)
    /\ Of(e.record_indexes, p) = Of(d.record_indexes, p)
    /\ Of(e.record_ids, p) = Of(d.record_ids, p)
    /\ Of(e.source_ids, p) = Of(d.source_ids, p)
    /\ Of(e.issues, p) = Of(d.issues, p)
    /\ Of(e.archive_ids, p) = Of(d.archive_ids, p)
    /\ Of(e.manifests, p) = Of(d.manifests, p)

\* Every part file holds the rows of the project its manifest names.
PartsHomed(d) == \A m \in d.manifests : \A x \in m.rows : x.project = m.project

\* What a project has stored is what is hot and what its parts hold.
LEMMA StoredOf ==
  ASSUME NEW d, PartsHomed(d), NEW p
  PROVE  Of(Stored(d), p) =
            Of(d.records, p) \cup UNION {m.rows : m \in Of(d.manifests, p)}
BY DEF Of, Stored, PartsHomed

\* The issue part of Fit is about the project's rows alone.
LEMMA IssuesSame ==
  ASSUME NEW d, NEW e, NEW p, IssuesFit(d, p),
         Of(Stored(e), p) = Of(Stored(d), p),
         Of(e.issues, p) = Of(d.issues, p),
         {i \in Of(e.record_indexes, p) : i.kind = "u"}
           = {i \in Of(d.record_indexes, p) : i.kind = "u"}
  PROVE  IssuesFit(e, p)
<1>1. \A u : Grouped(e, p, u) = Grouped(d, p, u)  BY DEF Grouped
<1> QED  BY <1>1 DEF IssuesFit

\* A project whose rows stay as they are stays in order.
LEMMA FitSame ==
  ASSUME NEW d, NEW e, NEW p, Fit(d, p), SameRows(d, e, p),
         PartsHomed(d), PartsHomed(e)
  PROVE  Fit(e, p)
<1>1. Of(Stored(e), p) = Of(Stored(d), p)
  BY StoredOf DEF SameRows
<1>2. IssuesFit(e, p)
  BY <1>1, IssuesSame DEF SameRows, Fit
<1>3. KeysOnce(e, p)
  BY <1>1 DEF KeysOnce, SameRows, Fit
<1>4. LookupsFit(e, p)
  BY DEF LookupsFit, SameRows, Fit
<1> QED  BY <1>2, <1>3, <1>4 DEF Fit

\* A new project has no rows: it is in order.
LEMMA FitEmpty ==
  ASSUME NEW d, NEW p, PartsHomed(d),
         \A k \in Stages \cup {"manifests"} : Of(d[k], p) = {}
  PROVE  Fit(d, p)
<1>1. /\ Of(d.records, p) = {}
      /\ Of(d.record_indexes, p) = {}
      /\ Of(d.record_ids, p) = {}
      /\ Of(d.source_ids, p) = {}
      /\ Of(d.issues, p) = {}
      /\ Of(d.archive_ids, p) = {}
      /\ Of(d.manifests, p) = {}
  BY DEF Stages
<1>2. Of(Stored(d), p) = {}  BY <1>1, StoredOf
<1>3. KeysOnce(d, p)  BY <1>1, <1>2 DEF KeysOnce
<1>4. LookupsFit(d, p)  BY <1>1 DEF LookupsFit
<1>5. IssuesFit(d, p)  BY <1>1, <1>2 DEF IssuesFit
<1> QED  BY <1>3, <1>4, <1>5 DEF Fit

-----------------------------------------------------------------------------
(* Eviction.                                                               *)

\* The rows among G of an issue of a project.
Lost(G, p, issue) ==
    {x.id : x \in {y \in G : y.project = p /\ IssueOf[y.id] = issue}}

\* The issue row after G is gone, and after nothing is.
Paid(G, i) ==
    [i EXCEPT !.retained = IF @ >= Cardinality(Lost(G, i.project, i.issue))
                           THEN @ - Cardinality(Lost(G, i.project, i.issue))
                           ELSE 0,
              !.latest = IF @ \in Lost(G, i.project, i.issue) THEN None ELSE @]

\* decrement_retained_issue rewrites every issue, each on its own.
LEMMA DecrementedIsPaid ==
  ASSUME NEW issues, NEW G
  PROVE  Decremented(issues, G) = {Paid(G, i) : i \in issues}
BY Zenon DEF Decremented, Paid, Lost

\* What paying changes of an issue row, and what it does not.
LEMMA PaidFields ==
  ASSUME NEW G, NEW i \in IssueRow
  PROVE  /\ Paid(G, i).project = i.project
         /\ Paid(G, i).issue = i.issue
         /\ Paid(G, i).last = i.last
         /\ Paid(G, i).total = i.total
         /\ Paid(G, i).retained =
               IF i.retained >= Cardinality(Lost(G, i.project, i.issue))
               THEN i.retained - Cardinality(Lost(G, i.project, i.issue))
               ELSE 0
         /\ Paid(G, i).latest =
               IF i.latest \in Lost(G, i.project, i.issue)
               THEN None ELSE i.latest
<1> DEFINE lost == Lost(G, i.project, i.issue)
           left == IF i.retained >= Cardinality(lost)
                   THEN i.retained - Cardinality(lost) ELSE 0
           top == IF i.latest \in lost THEN None ELSE i.latest
<1>1. Paid(G, i) = [i EXCEPT !.retained = left, !.latest = top]
  BY DEF Paid
<1> HIDE DEF lost, left, top
<1>2. /\ Paid(G, i).project = i.project
      /\ Paid(G, i).issue = i.issue
      /\ Paid(G, i).last = i.last
      /\ Paid(G, i).total = i.total
      /\ Paid(G, i).retained = left
      /\ Paid(G, i).latest = top
  BY <1>1 DEF IssueRow
<1> QED  BY <1>2 DEF left, top, lost

\* An issue pays for exactly the records it loses.
LEMMA IssuesPaid ==
  ASSUME NEW d \in Database, NEW e, NEW p, IssuesFit(d, p),
         NEW G \in SUBSET RecordRow,
         Of(G, p) \subseteq Of(Stored(d), p),
         Of(Stored(e), p) = Of(Stored(d), p) \ G,
         \A x \in Of(G, p) : \A y \in Of(Stored(d), p) \ G : x.id # y.id,
         e.issues = Decremented(d.issues, G),
         {i \in Of(e.record_indexes, p) : i.kind = "u"}
           = {i \in Of(d.record_indexes, p) : i.kind = "u"}
  PROVE  IssuesFit(e, p)
<1>1. ASSUME NEW u
      PROVE  /\ Lost(G, p, u) \subseteq Grouped(d, p, u)
             /\ Grouped(e, p, u) = Grouped(d, p, u) \ Lost(G, p, u)
  BY DEF Lost, Grouped, Of
<1>2. d.issues \subseteq IssueRow  BY DEF Database
<1>3. \A i \in d.issues : /\ Paid(G, i).project = i.project
                          /\ Paid(G, i).issue = i.issue
                          /\ IssueIndex(Paid(G, i)) = IssueIndex(i)
  BY <1>2, PaidFields DEF IssueIndex
<1>4. Of(e.issues, p) = {Paid(G, i) : i \in Of(d.issues, p)}
  <2>1. e.issues = {Paid(G, i) : i \in d.issues}  BY DecrementedIsPaid
  <2> QED  BY <1>3, <2>1 DEF Of
<1>5. \A u : Grouped(d, p, u) \in SUBSET Records
  BY DEF Grouped, Of, Stored, Database, RecordRow, Manifest
<1>6. ASSUME NEW i \in Of(d.issues, p)
      PROVE  LET j == Paid(G, i)
             IN  /\ j.retained = Cardinality(Grouped(e, p, j.issue))
                 /\ j.retained <= j.total
                 /\ j.latest \in Grouped(e, p, j.issue) \cup {None}
  <2> DEFINE A == Grouped(d, p, i.issue)
             B == Lost(G, p, i.issue)
  <2>1. i \in IssueRow /\ i.project = p  BY <1>2 DEF Of
  <2>2. i.retained = Cardinality(A) /\ i.retained <= i.total
        /\ i.latest \in A \cup {None}
    BY DEF IssuesFit
  <2>3. IsFiniteSet(A)  BY <1>5, RecordAssumption, FS_Subset
  <2>4. B \subseteq A /\ Grouped(e, p, i.issue) = A \ B  BY <1>1
  <2>5. Cardinality(A \ B) = Cardinality(A) - Cardinality(B)
    <3>1. A \cap B = B  BY <2>4
    <3> HIDE DEF A, B
    <3> QED  BY <2>3, <3>1, FS_Difference
  <2>6. Cardinality(A) \in Nat /\ Cardinality(B) \in Nat
        /\ Cardinality(B) <= Cardinality(A)
    <3> HIDE DEF A, B
    <3> QED  BY <2>3, <2>4, FS_Subset, FS_CardinalityType
  <2>7. /\ Paid(G, i).retained = IF i.retained >= Cardinality(B)
                                 THEN i.retained - Cardinality(B) ELSE 0
        /\ Paid(G, i).latest = IF i.latest \in B THEN None ELSE i.latest
        /\ Paid(G, i).total = i.total
        /\ Paid(G, i).issue = i.issue
    BY <2>1, PaidFields
  <2>8. i.total \in Nat  BY <2>1 DEF IssueRow
  <2> HIDE DEF A, B
  <2> DEFINE j == Paid(G, i)
  <2>9. j.issue = i.issue /\ j.total = i.total  BY <2>7
  <2>10. j.retained = Cardinality(A) - Cardinality(B)
    BY <2>2, <2>6, <2>7
  <2>11. j.latest \in (A \ B) \cup {None}  BY <2>2, <2>7
  <2>12. j.retained <= j.total
    BY <2>2, <2>6, <2>8, <2>9, <2>10
  <2> HIDE DEF j
  <2>13. /\ j.retained = Cardinality(Grouped(e, p, j.issue))
         /\ j.latest \in Grouped(e, p, j.issue) \cup {None}
    BY <2>4, <2>5, <2>9, <2>10, <2>11
  <2> QED  BY <2>12, <2>13 DEF j
<1>7. ASSUME NEW i \in Of(d.issues, p), NEW j \in Of(d.issues, p),
             Paid(G, i).issue = Paid(G, j).issue
      PROVE  i = j
  BY <1>3, <1>7 DEF Of, IssuesFit
<1>8. \A x \in Of(Stored(e), p) : IssueOf[x.id] # None =>
        \E j \in Of(e.issues, p) : IssueOf[x.id] = j.issue
  <2> SUFFICES ASSUME NEW x \in Of(Stored(e), p), IssueOf[x.id] # None
               PROVE  \E j \in Of(e.issues, p) : IssueOf[x.id] = j.issue
    OBVIOUS
  <2>1. PICK i \in Of(d.issues, p) : IssueOf[x.id] = i.issue
    BY DEF IssuesFit
  <2>2. Paid(G, i).issue = i.issue  BY <1>3 DEF Of
  <2> QED  BY <1>4, <2>1, <2>2
<1>9. {i \in Of(e.record_indexes, p) : i.kind = "u"}
        = {IssueIndex(j) : j \in Of(e.issues, p)}
  <2>1. {i \in Of(e.record_indexes, p) : i.kind = "u"}
          = {IssueIndex(i) : i \in Of(d.issues, p)}
    BY DEF IssuesFit
  <2>2. \A i \in Of(d.issues, p) : IssueIndex(Paid(G, i)) = IssueIndex(i)
    BY <1>3 DEF Of
  <2> QED  BY <1>4, <2>1, <2>2
<1> QED  BY <1>4, <1>6, <1>7, <1>8, <1>9 DEF IssuesFit

\* The fields of the database after a partition is evicted.
LEMMA WithoutPartitionFields ==
  ASSUME NEW d \in Database, NEW m
  PROVE  LET e == WithoutPartition(d, m)
         IN  /\ e.records = d.records
             /\ e.record_indexes = d.record_indexes
             /\ e.record_ids = d.record_ids
             /\ e.source_ids = d.source_ids \ {Key(x) : x \in m.rows}
             /\ e.archive_ids =
                  {a \in d.archive_ids : Key(a) \notin {Key(x) : x \in m.rows}}
             /\ e.issues = Decremented(d.issues, m.rows)
             /\ e.cumulative_sums = d.cumulative_sums
             /\ e.manifests = d.manifests \ {m}
             /\ e.projects = d.projects
             /\ e.next = d.next
BY DEF WithoutPartition, Database

\* A key names its project and its record.
LEMMA KeyFields ==
  ASSUME NEW x, NEW y
  PROVE  /\ Key(x).project = x.project
         /\ Key(x) = Key(y) <=> x.project = y.project /\ x.id = y.id
BY DEF Key

\* Evicting a partition leaves every project in order.
LEMMA PartitionFit ==
  ASSUME NEW d \in Database, PartsHomed(d), NEW m \in d.manifests,
         NEW p, Fit(d, p)
  PROVE  Fit(WithoutPartition(d, m), p)
<1> DEFINE e == WithoutPartition(d, m)
<1>1. /\ e.records = d.records
      /\ e.record_indexes = d.record_indexes
      /\ e.record_ids = d.record_ids
      /\ e.source_ids = d.source_ids \ {Key(x) : x \in m.rows}
      /\ e.archive_ids =
           {a \in d.archive_ids : Key(a) \notin {Key(x) : x \in m.rows}}
      /\ e.issues = Decremented(d.issues, m.rows)
      /\ e.manifests = d.manifests \ {m}
  BY WithoutPartitionFields
<1> HIDE DEF e
<1>2. PartsHomed(e)  BY <1>1 DEF PartsHomed
<1>3. \A x \in m.rows : x.project = m.project  BY DEF PartsHomed
<1>4. m.rows \in SUBSET RecordRow  BY DEF Database, Manifest
<1>5. Of(m.rows, p) \subseteq Of(Stored(d), p)
  BY DEF Of, Stored
<1>6. /\ Of(Stored(e), p) = Of(Stored(d), p) \ m.rows
      /\ \A x \in Of(m.rows, p) : \A y \in Of(Stored(d), p) \ m.rows :
            x.id # y.id
  <2>1. CASE p # m.project
    <3>1. Of(m.rows, p) = {}  BY <1>3, <2>1 DEF Of
    <3>2. Of(e.manifests, p) = Of(d.manifests, p)  BY <1>1, <2>1 DEF Of
    <3>3. Of(Stored(e), p) = Of(Stored(d), p)
      BY <1>1, <1>2, <3>2, StoredOf
    <3> QED  BY <3>1, <3>3 DEF Of
  <2>2. CASE p = m.project
    <3>1. m \in Of(d.manifests, p)  BY <2>2 DEF Of
    <3>2. /\ \A x \in m.rows : \A y \in Of(d.records, p) : x.id # y.id
          /\ \A n \in Of(d.manifests, p) : n # m =>
                \A x \in m.rows : \A y \in n.rows : x.id # y.id
      BY <3>1 DEF Fit, KeysOnce
    <3>3. Of(e.manifests, p) = Of(d.manifests, p) \ {m}  BY <1>1 DEF Of
    <3>4. Of(Stored(d), p) =
            Of(d.records, p) \cup UNION {n.rows : n \in Of(d.manifests, p)}
      BY StoredOf
    <3>5. Of(Stored(e), p) = Of(d.records, p)
            \cup UNION {n.rows : n \in Of(d.manifests, p) \ {m}}
      BY <1>1, <1>2, <3>3, StoredOf
    <3> QED  BY <3>2, <3>4, <3>5 DEF Of
  <2> QED  BY <2>1, <2>2
<1>7. IssuesFit(e, p)
  BY <1>1, <1>4, <1>5, <1>6, IssuesPaid DEF Fit
<1>8. Of(e.manifests, p) \subseteq Of(d.manifests, p)  BY <1>1 DEF Of
<1>9. KeysOnce(e, p)
  <2>1. Of(d.source_ids, p) = {Key(x) : x \in Of(Stored(d), p)}
    BY DEF Fit, KeysOnce
  <2>2. Of(e.source_ids, p)
          = Of(d.source_ids, p) \ {Key(x) : x \in m.rows}
    BY <1>1 DEF Of
  <2>3. \A x \in Of(Stored(d), p) :
           Key(x) \in {Key(y) : y \in m.rows} <=> x \in m.rows
    <3> SUFFICES ASSUME NEW x \in Of(Stored(d), p),
                        NEW y \in m.rows, Key(x) = Key(y)
                 PROVE  x \in m.rows
      BY DEF Of
    <3>1. y.project = p /\ x.id = y.id  BY KeyFields DEF Of
    <3> QED  BY <1>6, <3>1 DEF Of
  <2>4. Of(e.source_ids, p) = {Key(x) : x \in Of(Stored(e), p)}
    BY <1>6, <2>1, <2>2, <2>3
  <2> QED  BY <1>1, <1>8, <2>4 DEF Fit, KeysOnce
<1>10. LookupsFit(e, p)
  <2>1. Of(e.archive_ids, p) =
          {a \in Of(d.archive_ids, p) :
              Key(a) \notin {Key(x) : x \in m.rows}}
    BY <1>1 DEF Of
  <2>2. \A a : a \in Of(d.archive_ids, p) <=>
           \E n \in Of(d.manifests, p) : \E x \in n.rows :
              a = [project |-> p, id |-> x.id, part |-> n.part]
    BY DEF Fit, LookupsFit
  <2>3. ASSUME NEW n \in Of(d.manifests, p), NEW x \in n.rows
        PROVE  Key([project |-> p, id |-> x.id, part |-> n.part])
                  \in {Key(y) : y \in m.rows} <=> n = m
    <3>1. x.project = p  BY DEF Of, PartsHomed
    <3>2. Key([project |-> p, id |-> x.id, part |-> n.part]) = Key(x)
      BY <3>1 DEF Key
    <3>3. ASSUME NEW y \in m.rows, Key(x) = Key(y)  PROVE n = m
      <4>1. y.project = p /\ x.id = y.id  BY <3>1, <3>3, KeyFields
      <4>2. m \in Of(d.manifests, p)  BY <1>3, <4>1 DEF Of
      <4> QED  BY <4>1, <4>2 DEF Fit, KeysOnce
    <3> QED  BY <3>2, <3>3
  <2>4. Of(e.manifests, p) = Of(d.manifests, p) \ {m}  BY <1>1 DEF Of
  <2>5. \A a : a \in Of(e.archive_ids, p) <=>
           \E n \in Of(e.manifests, p) : \E x \in n.rows :
              a = [project |-> p, id |-> x.id, part |-> n.part]
    <3> TAKE a
    <3>1. ASSUME a \in Of(e.archive_ids, p)
          PROVE  \E n \in Of(e.manifests, p) : \E x \in n.rows :
                    a = [project |-> p, id |-> x.id, part |-> n.part]
      <4>1. a \in Of(d.archive_ids, p)
            /\ Key(a) \notin {Key(x) : x \in m.rows}
        BY <2>1, <3>1
      <4>2. PICK n \in Of(d.manifests, p) : \E x \in n.rows :
               a = [project |-> p, id |-> x.id, part |-> n.part]
        BY <2>2, <4>1
      <4>3. n # m  BY <2>3, <4>1, <4>2
      <4> QED  BY <2>4, <4>2, <4>3
    <3>2. ASSUME NEW n \in Of(e.manifests, p),
                 NEW x \in n.rows,
                 a = [project |-> p, id |-> x.id, part |-> n.part]
          PROVE  a \in Of(e.archive_ids, p)
      <4>1. n \in Of(d.manifests, p) /\ n # m  BY <2>4
      <4>2. a \in Of(d.archive_ids, p)  BY <2>2, <3>2, <4>1
      <4>3. Key(a) \notin {Key(y) : y \in m.rows}  BY <2>3, <3>2, <4>1
      <4> QED  BY <2>1, <4>2, <4>3
    <3> QED  BY <3>1, <3>2
  <2>6. Of(e.archive_ids, p)
          = UNION {{[project |-> p, id |-> x.id, part |-> n.part] :
                       x \in n.rows} : n \in Of(e.manifests, p)}
    BY <2>5
  <2> QED  BY <1>1, <2>6 DEF Fit, LookupsFit
<1> QED  BY <1>7, <1>9, <1>10 DEF Fit, e

\* The fields of the database after a hot record is evicted.
LEMMA WithoutHotFields ==
  ASSUME NEW d \in Database, NEW x
  PROVE  LET e == WithoutHot(d, x)
         IN  /\ e.records = d.records \ {x}
             /\ e.record_indexes = d.record_indexes \ {EventIndex(x)}
             /\ e.record_ids = d.record_ids \ {Key(x)}
             /\ e.source_ids = d.source_ids \ {Key(x)}
             /\ e.archive_ids = d.archive_ids
             /\ e.issues = Decremented(d.issues, {x})
             /\ e.cumulative_sums = d.cumulative_sums
             /\ e.manifests = d.manifests
             /\ e.projects = d.projects
             /\ e.next = d.next
BY DEF WithoutHot, Database

\* An event index names its project, its record and its kind.
LEMMA EventIndexFields ==
  ASSUME NEW x, NEW y
  PROVE  /\ EventIndex(x).project = x.project
         /\ EventIndex(x).kind = "e"
         /\ EventIndex(x) = EventIndex(y)
              <=> x.project = y.project /\ x.id = y.id
BY DEF EventIndex

\* Evicting a hot record leaves every project in order.
LEMMA HotFit ==
  ASSUME NEW d \in Database, PartsHomed(d), NEW x \in d.records,
         NEW p, Fit(d, p)
  PROVE  Fit(WithoutHot(d, x), p)
<1> DEFINE e == WithoutHot(d, x)
<1>1. /\ e.records = d.records \ {x}
      /\ e.record_indexes = d.record_indexes \ {EventIndex(x)}
      /\ e.record_ids = d.record_ids \ {Key(x)}
      /\ e.source_ids = d.source_ids \ {Key(x)}
      /\ e.archive_ids = d.archive_ids
      /\ e.issues = Decremented(d.issues, {x})
      /\ e.manifests = d.manifests
  BY WithoutHotFields
<1> HIDE DEF e
<1>2. PartsHomed(e)  BY <1>1 DEF PartsHomed
<1>3. {x} \in SUBSET RecordRow  BY DEF Database
<1>4. Of({x}, p) \subseteq Of(Stored(d), p)
  BY DEF Of, Stored
<1>5. \A y \in Of(Stored(d), p) : x.project = p /\ y # x => y.id # x.id
  <2>1. x.project = p => x \in Of(d.records, p)  BY DEF Of
  <2>2. Of(Stored(d), p) =
          Of(d.records, p) \cup UNION {n.rows : n \in Of(d.manifests, p)}
    BY StoredOf
  <2> QED  BY <2>1, <2>2 DEF Fit, KeysOnce
<1>6. Of(e.manifests, p) = Of(d.manifests, p)
      /\ Of(e.records, p) = Of(d.records, p) \ {x}
  BY <1>1 DEF Of
<1>7. Of(Stored(e), p) = Of(Stored(d), p) \ {x}
  <2>1. Of(Stored(d), p) =
          Of(d.records, p) \cup UNION {n.rows : n \in Of(d.manifests, p)}
    BY StoredOf
  <2>2. Of(Stored(e), p) = (Of(d.records, p) \ {x})
          \cup UNION {n.rows : n \in Of(d.manifests, p)}
    BY <1>2, <1>6, StoredOf
  <2>3. \A n \in Of(d.manifests, p) : x \notin n.rows
    <3> SUFFICES ASSUME NEW n \in Of(d.manifests, p), x \in n.rows
                 PROVE  FALSE
      OBVIOUS
    <3>1. x.project = p  BY DEF Of, PartsHomed
    <3>2. x \in Of(d.records, p)  BY <3>1 DEF Of
    <3> QED  BY <3>2 DEF Fit, KeysOnce
  <2> QED  BY <2>1, <2>2, <2>3
<1>8. IssuesFit(e, p)
  <2>1. {i \in Of(e.record_indexes, p) : i.kind = "u"}
          = {i \in Of(d.record_indexes, p) : i.kind = "u"}
    BY <1>1, EventIndexFields DEF Of
  <2>2. \A z \in Of({x}, p) : \A y \in Of(Stored(d), p) \ {x} : z.id # y.id
    BY <1>5 DEF Of
  <2>3. IssuesFit(d, p)  BY DEF Fit
  <2>4. e.issues = Decremented(d.issues, {x})  BY <1>1
  <2> DEFINE G == {x}
  <2> HIDE DEF G
  <2> QED  BY <1>3, <1>4, <1>7, <2>1, <2>2, <2>3, <2>4, IssuesPaid DEF G
<1>9. \A y \in Of(Stored(d), p) : Key(y) = Key(x) <=> y = x
  BY <1>5, KeyFields DEF Of
<1>10. KeysOnce(e, p)
  <2>1. Of(e.source_ids, p) = Of(d.source_ids, p) \ {Key(x)}
    BY <1>1 DEF Of
  <2>2. Of(e.source_ids, p) = {Key(y) : y \in Of(Stored(e), p)}
    BY <1>7, <1>9, <2>1 DEF Fit, KeysOnce
  <2> QED  BY <1>6, <2>2 DEF Fit, KeysOnce
<1>11. LookupsFit(e, p)
  <2>1. \A y \in Of(d.records, p) : /\ Key(y) = Key(x) <=> y = x
                                    /\ EventIndex(y) = EventIndex(x) <=> y = x
    BY <1>9, KeyFields, EventIndexFields DEF Of, Stored
  <2>2. Of(e.record_ids, p) = {Key(y) : y \in Of(e.records, p)}
    <3>1. Of(e.record_ids, p) = Of(d.record_ids, p) \ {Key(x)}
      BY <1>1 DEF Of
    <3> QED  BY <1>6, <2>1, <3>1 DEF Fit, LookupsFit
  <2>3. {i \in Of(e.record_indexes, p) : i.kind = "e"}
          = {EventIndex(y) : y \in Of(e.records, p)}
    <3>1. {i \in Of(e.record_indexes, p) : i.kind = "e"}
            = {i \in Of(d.record_indexes, p) : i.kind = "e"} \ {EventIndex(x)}
      BY <1>1 DEF Of
    <3> QED  BY <1>6, <2>1, <3>1 DEF Fit, LookupsFit
  <2>4. Of(e.archive_ids, p) = Of(d.archive_ids, p)
    BY <1>1 DEF Of
  <2> QED  BY <1>6, <2>2, <2>3, <2>4 DEF Fit, LookupsFit
<1> QED  BY <1>8, <1>10, <1>11 DEF Fit, e

\* Evicting an issue once no record is left keeps every project in order.
LEMMA IssueFit ==
  ASSUME NEW d \in Database, d.records = {}, d.manifests = {},
         NEW i \in d.issues, NEW p, Fit(d, p)
  PROVE  Fit([d EXCEPT !.issues = @ \ {i},
                       !.record_indexes = @ \ {IssueIndex(i)}], p)
<1> DEFINE e == [d EXCEPT !.issues = @ \ {i},
                          !.record_indexes = @ \ {IssueIndex(i)}]
<1>1. /\ e.records = {}
      /\ e.record_indexes = d.record_indexes \ {IssueIndex(i)}
      /\ e.record_ids = d.record_ids
      /\ e.source_ids = d.source_ids
      /\ e.archive_ids = d.archive_ids
      /\ e.issues = d.issues \ {i}
      /\ e.manifests = {}
  BY DEF Database
<1> HIDE DEF e
<1>2. /\ Of(Stored(e), p) = {} /\ Of(Stored(d), p) = {}
      /\ Of(e.records, p) = {} /\ Of(d.records, p) = {}
      /\ Of(e.manifests, p) = {} /\ Of(d.manifests, p) = {}
  BY <1>1 DEF Of, Stored
<1>3. KeysOnce(e, p)
  BY <1>1, <1>2 DEF KeysOnce, Fit, Of
<1>4. IssueIndex(i).kind = "u"  BY DEF IssueIndex
<1>5. LookupsFit(e, p)
  <2>1. {x \in Of(e.record_indexes, p) : x.kind = "e"}
          = {x \in Of(d.record_indexes, p) : x.kind = "e"}
    BY <1>1, <1>4 DEF Of
  <2>2. Of(e.record_ids, p) = Of(d.record_ids, p)
        /\ Of(e.archive_ids, p) = Of(d.archive_ids, p)
    BY <1>1
  <2> QED  BY <1>2, <2>1, <2>2 DEF LookupsFit, Fit
<1>6. IssuesFit(e, p)
  <2>1. Of(e.issues, p) = Of(d.issues, p) \ {i}  BY <1>1 DEF Of
  <2>2. \A u : Grouped(e, p, u) = Grouped(d, p, u)
    BY <1>2 DEF Grouped
  <2>3. \A j \in Of(d.issues, p) : IssueIndex(j) = IssueIndex(i) => j = i
    <3> SUFFICES ASSUME NEW j \in Of(d.issues, p),
                        IssueIndex(j) = IssueIndex(i)
                 PROVE  j = i
      OBVIOUS
    <3>1. j.project = i.project /\ j.issue = i.issue  BY DEF IssueIndex
    <3>2. i \in Of(d.issues, p)  BY <3>1 DEF Of
    <3> QED  BY <3>1, <3>2 DEF Fit, IssuesFit
  <2>4. {x \in Of(e.record_indexes, p) : x.kind = "u"}
          = {IssueIndex(j) : j \in Of(e.issues, p)}
    <3>1. {x \in Of(e.record_indexes, p) : x.kind = "u"}
            = {x \in Of(d.record_indexes, p) : x.kind = "u"} \ {IssueIndex(i)}
      BY <1>1 DEF Of
    <3>2. {x \in Of(d.record_indexes, p) : x.kind = "u"}
            = {IssueIndex(j) : j \in Of(d.issues, p)}
      BY DEF Fit, IssuesFit
    <3>3. \A j \in Of(d.issues, p) \ {i} : IssueIndex(j) # IssueIndex(i)
      BY <2>3
    <3> QED  BY <2>1, <3>1, <3>2, <3>3
  <2> QED  BY <1>2, <2>1, <2>2, <2>4 DEF Fit, IssuesFit
<1> QED  BY <1>3, <1>5, <1>6 DEF Fit, e

-----------------------------------------------------------------------------
(* Archival.                                                               *)

\* The rows archive_ids gets for a part.
Located(m) == {[project |-> x.project, id |-> x.id, part |-> m.part] :
                  x \in m.rows}

\* The fields of the database after a part is published.
LEMMA ArchivedFields ==
  ASSUME NEW d \in Database, NEW m
  PROVE  LET e == Archived(d, m)
         IN  /\ e.records = d.records \ m.rows
             /\ e.record_indexes =
                  d.record_indexes \ {EventIndex(x) : x \in m.rows}
             /\ e.record_ids = d.record_ids \ {Key(x) : x \in m.rows}
             /\ e.source_ids = d.source_ids
             /\ e.archive_ids = d.archive_ids \cup Located(m)
             /\ e.issues = d.issues
             /\ e.cumulative_sums = d.cumulative_sums
             /\ e.manifests = d.manifests \cup {m}
             /\ e.projects = d.projects
             /\ e.next = d.next
BY DEF Archived, Database, Located

\* Moving hot rows of a project to a part leaves every project in order.
LEMMA ArchivedFit ==
  ASSUME NEW d \in Database, PartsHomed(d), NEW m,
         m.rows \subseteq d.records,
         \A x \in m.rows : x.project = m.project,
         NEW p, Fit(d, p)
  PROVE  Fit(Archived(d, m), p)
<1> DEFINE e == Archived(d, m)
<1>1. /\ e.records = d.records \ m.rows
      /\ e.record_indexes = d.record_indexes \ {EventIndex(x) : x \in m.rows}
      /\ e.record_ids = d.record_ids \ {Key(x) : x \in m.rows}
      /\ e.source_ids = d.source_ids
      /\ e.archive_ids = d.archive_ids \cup Located(m)
      /\ e.issues = d.issues
      /\ e.manifests = d.manifests \cup {m}
  BY ArchivedFields
<1> HIDE DEF e
<1>2. PartsHomed(e)  BY <1>1 DEF PartsHomed
<1>3. Stored(e) = Stored(d)
  BY <1>1 DEF Stored
<1>4. /\ Of(e.records, p) = Of(d.records, p) \ m.rows
      /\ Of(e.issues, p) = Of(d.issues, p)
      /\ Of(e.source_ids, p) = Of(d.source_ids, p)
      /\ Of(e.record_ids, p) = Of(d.record_ids, p) \ {Key(x) : x \in m.rows}
  BY <1>1 DEF Of
<1>5. IssuesFit(e, p)
  <2>1. {i \in Of(e.record_indexes, p) : i.kind = "u"}
          = {i \in Of(d.record_indexes, p) : i.kind = "u"}
    BY <1>1, EventIndexFields DEF Of
  <2> QED  BY <1>3, <1>4, <2>1, IssuesSame DEF Fit
<1>6. \A x \in m.rows, y \in Of(d.records, p) :
         /\ Key(y) = Key(x) <=> y = x
         /\ EventIndex(y) = EventIndex(x) <=> y = x
  <2> SUFFICES ASSUME NEW x \in m.rows, NEW y \in Of(d.records, p),
                      y.project = x.project, y.id = x.id
               PROVE  y = x
    BY KeyFields, EventIndexFields
  <2>1. x \in Of(d.records, p)  BY DEF Of
  <2> QED  BY <2>1 DEF Fit, KeysOnce
<1>7. m.project = p => \A x \in m.rows : x \in Of(d.records, p)
  BY DEF Of
<1>8. Of(e.manifests, p) =
        IF m.project = p THEN Of(d.manifests, p) \cup {m}
        ELSE Of(d.manifests, p)
  BY <1>1 DEF Of
<1>9. KeysOnce(e, p)
  <2>1. \A x, y \in Of(e.records, p) : x.id = y.id => x = y
    BY <1>4 DEF Fit, KeysOnce
  <2>2. ASSUME NEW n \in Of(e.manifests, p), NEW x \in n.rows,
               NEW y \in Of(e.records, p)
        PROVE  x.id # y.id
    BY <1>4, <1>7, <1>8 DEF Fit, KeysOnce
  <2>3. ASSUME NEW n \in Of(e.manifests, p), NEW x \in n.rows,
               NEW o \in Of(e.manifests, p), NEW y \in o.rows, x.id = y.id
        PROVE  n = o
    BY <1>7, <1>8, <2>3 DEF Fit, KeysOnce
  <2>4. Of(e.source_ids, p) = {Key(x) : x \in Of(Stored(e), p)}
    BY <1>3, <1>4 DEF Fit, KeysOnce
  <2> QED  BY <2>1, <2>2, <2>3, <2>4 DEF KeysOnce
<1>10. LookupsFit(e, p)
  <2>1. Of(e.record_ids, p) = {Key(y) : y \in Of(e.records, p)}
    BY <1>4, <1>6 DEF Fit, LookupsFit
  <2>2. {i \in Of(e.record_indexes, p) : i.kind = "e"}
          = {EventIndex(y) : y \in Of(e.records, p)}
    <3>1. {i \in Of(e.record_indexes, p) : i.kind = "e"}
            = {i \in Of(d.record_indexes, p) : i.kind = "e"}
                \ {EventIndex(x) : x \in m.rows}
      BY <1>1 DEF Of
    <3> QED  BY <1>4, <1>6, <3>1 DEF Fit, LookupsFit
  <2>3. Of(e.archive_ids, p)
          = UNION {{[project |-> p, id |-> x.id, part |-> n.part] :
                       x \in n.rows} : n \in Of(e.manifests, p)}
    <3> DEFINE located(n) == {[project |-> p, id |-> x.id, part |-> n.part] :
                                 x \in n.rows}
    <3>1. Of(d.archive_ids, p) = UNION {located(n) : n \in Of(d.manifests, p)}
      BY DEF Fit, LookupsFit
    <3>2. CASE m.project = p
      <4>1. Located(m) = located(m)  BY <3>2 DEF Located
      <4>2. Of(e.archive_ids, p) = Of(d.archive_ids, p) \cup Located(m)
        BY <1>1, <3>2 DEF Of, Located
      <4> HIDE DEF located
      <4>3. Of(e.archive_ids, p)
              = UNION {located(n) : n \in Of(e.manifests, p)}
        BY <1>8, <3>1, <3>2, <4>1, <4>2
      <4> QED  BY <4>3 DEF located
    <3>3. CASE m.project # p
      <4>1. Of(Located(m), p) = {}  BY <3>3 DEF Located, Of
      <4>2. Of(e.archive_ids, p) = Of(d.archive_ids, p)
        BY <1>1, <4>1 DEF Of
      <4> QED  BY <1>8, <3>1, <3>3, <4>2
    <3> QED  BY <3>2, <3>3
  <2> QED  BY <2>1, <2>2, <2>3 DEF LookupsFit
<1> QED  BY <1>5, <1>9, <1>10 DEF Fit, e

-----------------------------------------------------------------------------
(* Ingest.                                                                 *)

\* The rows a batch adds, the issues it touches and the ones it leaves.
NewRows(S, at) == {[project |-> ProjectOf[r], id |-> r, at |-> at] : r \in S}
OldIssues(d, T) == {i \in d.issues : \E t \in T : IsOf(t, i)}
NewIssues(d, S, T) == {Bumped(d, S, t) : t \in T}
NewSums(S) == {[project |-> ProjectOf[r], stream |-> StreamOf[r]] :
                  r \in {q \in S : StreamOf[q] # None}}

\* The fields of the database after a batch of records.
LEMMA WrittenFields ==
  ASSUME NEW d \in Database, NEW S, NEW at, NEW T
  PROVE  LET e == Written(d, S, at, T)
             rows == NewRows(S, at)
         IN  /\ e.records = d.records \cup rows
             /\ e.record_indexes =
                  (d.record_indexes \ {IssueIndex(i) : i \in OldIssues(d, T)})
                     \cup {EventIndex(x) : x \in rows}
                     \cup {IssueIndex(i) : i \in NewIssues(d, S, T)}
             /\ e.record_ids = d.record_ids \cup {Key(x) : x \in rows}
             /\ e.source_ids = d.source_ids \cup {Key(x) : x \in rows}
             /\ e.archive_ids = d.archive_ids
             /\ e.issues = (d.issues \ OldIssues(d, T)) \cup NewIssues(d, S, T)
             /\ e.cumulative_sums = d.cumulative_sums \cup NewSums(S)
             /\ e.manifests = d.manifests
             /\ e.projects = d.projects
             /\ e.next = d.next
<1> DEFINE rows == NewRows(S, at)
           old == OldIssues(d, T)
           new == NewIssues(d, S, T)
           sums == NewSums(S)
<1>1. Written(d, S, at, T) =
        [d EXCEPT !.records = @ \cup rows,
                  !.record_ids = @ \cup {Key(x) : x \in rows},
                  !.source_ids = @ \cup {Key(x) : x \in rows},
                  !.record_indexes = (@ \ {IssueIndex(i) : i \in old})
                      \cup {EventIndex(x) : x \in rows}
                      \cup {IssueIndex(i) : i \in new},
                  !.issues = (@ \ old) \cup new,
                  !.cumulative_sums = @ \cup sums]
  BY DEF Written, NewRows, OldIssues, NewIssues, NewSums
<1> HIDE DEF rows, old, new, sums
<1>2. LET e == Written(d, S, at, T)
      IN  /\ e.records = d.records \cup rows
          /\ e.record_indexes = (d.record_indexes \ {IssueIndex(i) : i \in old})
                 \cup {EventIndex(x) : x \in rows}
                 \cup {IssueIndex(i) : i \in new}
          /\ e.record_ids = d.record_ids \cup {Key(x) : x \in rows}
          /\ e.source_ids = d.source_ids \cup {Key(x) : x \in rows}
          /\ e.archive_ids = d.archive_ids
          /\ e.issues = (d.issues \ old) \cup new
          /\ e.cumulative_sums = d.cumulative_sums \cup sums
          /\ e.manifests = d.manifests
          /\ e.projects = d.projects
          /\ e.next = d.next
  BY <1>1 DEF Database
<1> QED  BY <1>2 DEF rows, old, new, sums

\* The records of a batch that belong to an issue of a project.
Touching(S, p, issue) == {r \in S : ProjectOf[r] = p /\ IssueOf[r] = issue}

\* The row a record's issue had, or the one it starts from, counts what is
\* stored of the issue.
LEMMA PriorFits ==
  ASSUME NEW d \in Database, NEW t \in Records, IssueOf[t] # None,
         IssuesFit(d, ProjectOf[t])
  PROVE  LET i == Existing(d, t)
             stored == Grouped(d, ProjectOf[t], IssueOf[t])
         IN  /\ i.retained = Cardinality(stored)
             /\ i.retained <= i.total
             /\ i.latest \in stored \cup {None}
<1> DEFINE p == ProjectOf[t]
<1>1. CASE \E i \in d.issues : IsOf(t, i)
  <2> DEFINE i == CHOOSE i \in d.issues : IsOf(t, i)
  <2>1. i \in d.issues /\ IsOf(t, i)  BY <1>1
  <2>2. Existing(d, t) = i  BY <1>1 DEF Existing
  <2> HIDE DEF i
  <2>3. i \in Of(d.issues, p) /\ i.issue = IssueOf[t]
    BY <2>1 DEF IsOf, Of
  <2> QED  BY <2>2, <2>3 DEF IssuesFit
<1>2. CASE ~ \E i \in d.issues : IsOf(t, i)
  <2>1. Grouped(d, p, IssueOf[t]) = {}
    BY <1>2 DEF Grouped, IssuesFit, IsOf, Of
  <2>2. LET i == Existing(d, t)
        IN  i.retained = 0 /\ i.total = 0 /\ i.latest = None
    BY <1>2 DEF Existing
  <2> QED  BY <2>1, <2>2, FS_EmptySet
<1> QED  BY <1>1, <1>2

\* What a batch makes of an issue's row.
LEMMA BumpedFields ==
  ASSUME NEW d, NEW S, NEW t
  PROVE  /\ Bumped(d, S, t).project = ProjectOf[t]
         /\ Bumped(d, S, t).issue = IssueOf[t]
         /\ Bumped(d, S, t).total = Existing(d, t).total
               + Cardinality(Touching(S, ProjectOf[t], IssueOf[t]))
         /\ Bumped(d, S, t).retained = Existing(d, t).retained
               + Cardinality(Touching(S, ProjectOf[t], IssueOf[t]))
         /\ Bumped(d, S, t).latest \in {t, Existing(d, t).latest}
<1>1. {r \in S : SameIssue(r, t)} = Touching(S, ProjectOf[t], IssueOf[t])
  BY DEF SameIssue, Touching
<1> QED  BY <1>1, Zenon DEF Bumped

\* Writing a batch leaves every project in order.
LEMMA WrittenFit ==
  ASSUME NEW d \in Database, PartsHomed(d), NEW R \in SUBSET Records, NEW at,
         NEW T \in Newest(Accepted(d, R)), NEW p, Fit(d, p)
  PROVE  Fit(Written(d, Accepted(d, R), at, T), p)
<1> DEFINE S == Accepted(d, R)
           e == Written(d, S, at, T)
           rows == NewRows(S, at)
           old == OldIssues(d, T)
           new == NewIssues(d, S, T)
<1>1. /\ e.records = d.records \cup rows
      /\ e.record_indexes =
           (d.record_indexes \ {IssueIndex(i) : i \in old})
              \cup {EventIndex(x) : x \in rows}
              \cup {IssueIndex(i) : i \in new}
      /\ e.record_ids = d.record_ids \cup {Key(x) : x \in rows}
      /\ e.source_ids = d.source_ids \cup {Key(x) : x \in rows}
      /\ e.archive_ids = d.archive_ids
      /\ e.issues = (d.issues \ old) \cup new
      /\ e.manifests = d.manifests
  BY WrittenFields
<1> HIDE DEF e
<1>2. /\ S \in SUBSET Records
      /\ \A r \in S : [project |-> ProjectOf[r], id |-> r] \notin d.source_ids
  BY DEF Accepted
<1>3. /\ T \subseteq S
      /\ \A t \in T : t \in Records /\ IssueOf[t] # None
      /\ \A r \in S : IssueOf[r] # None => \E t \in T : SameIssue(r, t)
      /\ \A t \in T, s \in T : SameIssue(s, t) => s = t
  BY <1>2 DEF Newest
<1> HIDE DEF S
<1>4. PartsHomed(e)  BY <1>1 DEF PartsHomed
<1>5. Stored(e) = Stored(d) \cup rows  BY <1>1 DEF Stored
<1>6. \A x \in rows : /\ x.id \in S
                      /\ x.project = ProjectOf[x.id]
                      /\ x.at = at
  BY DEF NewRows
<1>7. \A r \in S : [project |-> ProjectOf[r], id |-> r, at |-> at] \in rows
  BY DEF NewRows
<1>8. \A x \in Of(rows, p), y \in Of(Stored(d), p) : x.id # y.id
  <2> SUFFICES ASSUME NEW x \in Of(rows, p), NEW y \in Of(Stored(d), p),
                      x.id = y.id
               PROVE  FALSE
    OBVIOUS
  <2>1. x.project = p /\ x.project = ProjectOf[x.id] /\ x.id \in S
    BY <1>6 DEF Of
  <2>2. Key(y) = [project |-> ProjectOf[x.id], id |-> x.id]
    BY <2>1 DEF Key, Of
  <2>3. Key(y) \in d.source_ids  BY DEF Fit, KeysOnce, Of
  <2> QED  BY <1>2, <2>1, <2>2, <2>3
<1>9. \A x, y \in Of(rows, p) : x.id = y.id => x = y
  BY DEF NewRows, Of
<1>10. /\ Of(e.records, p) = Of(d.records, p) \cup Of(rows, p)
       /\ Of(e.manifests, p) = Of(d.manifests, p)
       /\ Of(Stored(e), p) = Of(Stored(d), p) \cup Of(rows, p)
       /\ Of(e.archive_ids, p) = Of(d.archive_ids, p)
  BY <1>1, <1>5 DEF Of
<1>11. Of({Key(x) : x \in rows}, p) = {Key(x) : x \in Of(rows, p)}
  BY KeyFields DEF Of
<1>12. Of(d.records, p) \subseteq Of(Stored(d), p)
       /\ \A m \in Of(d.manifests, p) : \A x \in m.rows :
             x \in Of(Stored(d), p)
  BY StoredOf
<1> HIDE DEF rows
<1>13. KeysOnce(e, p)
  <2>1. \A x, y \in Of(e.records, p) : x.id = y.id => x = y
    BY <1>8, <1>9, <1>10, <1>12 DEF Fit, KeysOnce
  <2>2. \A m \in Of(e.manifests, p) : \A x \in m.rows :
          /\ \A y \in Of(e.records, p) : x.id # y.id
          /\ \A n \in Of(e.manifests, p) : \A y \in n.rows :
                x.id = y.id => m = n
    BY <1>8, <1>10, <1>12 DEF Fit, KeysOnce
  <2>3. Of(e.source_ids, p)
          = Of(d.source_ids, p) \cup Of({Key(x) : x \in rows}, p)
    BY <1>1 DEF Of
  <2>4. Of(e.source_ids, p) = {Key(x) : x \in Of(Stored(e), p)}
    BY <1>10, <1>11, <2>3 DEF Fit, KeysOnce
  <2> QED  BY <2>1, <2>2, <2>4 DEF KeysOnce
<1>14. LookupsFit(e, p)
  <2>1. Of(e.record_ids, p)
          = Of(d.record_ids, p) \cup Of({Key(x) : x \in rows}, p)
    BY <1>1 DEF Of
  <2>2. {i \in Of(e.record_indexes, p) : i.kind = "e"}
          = {i \in Of(d.record_indexes, p) : i.kind = "e"}
               \cup {EventIndex(x) : x \in Of(rows, p)}
    <3>1. \A i : IssueIndex(i).kind = "u"  BY DEF IssueIndex
    <3>2. Of({EventIndex(x) : x \in rows}, p)
            = {EventIndex(x) : x \in Of(rows, p)}
      BY EventIndexFields DEF Of
    <3>3. \A i \in {EventIndex(x) : x \in Of(rows, p)} : i.kind = "e"
      BY EventIndexFields
    <3>4. \A i \in {IssueIndex(j) : j \in old} \cup {IssueIndex(j) : j \in new} :
             i.kind = "u"
      BY <3>1
    <3> QED  BY <1>1, <3>2, <3>3, <3>4 DEF Of
  <2>3. Of(e.record_ids, p) = {Key(x) : x \in Of(e.records, p)}
    BY <1>10, <1>11, <2>1 DEF Fit, LookupsFit
  <2>4. {i \in Of(e.record_indexes, p) : i.kind = "e"}
          = {EventIndex(x) : x \in Of(e.records, p)}
    BY <1>10, <2>2 DEF Fit, LookupsFit
  <2> QED  BY <1>10, <2>3, <2>4 DEF Fit, LookupsFit
<1> DEFINE mine == {t \in T : ProjectOf[t] = p}
<1>15. Of(e.issues, p)
         = (Of(d.issues, p) \ old) \cup {Bumped(d, S, t) : t \in mine}
  BY <1>1, BumpedFields DEF Of, NewIssues
<1>16. \A u : Grouped(e, p, u) = Grouped(d, p, u) \cup Touching(S, p, u)
              /\ Grouped(d, p, u) \cap Touching(S, p, u) = {}
  <2> TAKE u
  <2>1. \A r : r \in Touching(S, p, u)
           <=> \E x \in Of(rows, p) : x.id = r /\ IssueOf[x.id] = u
    BY <1>6, <1>7 DEF Touching, Of
  <2> QED  BY <1>8, <1>10, <2>1 DEF Grouped
<1>17. \A i \in d.issues : i \in IssueRow /\ i.issue # None
  BY DEF Database, IssueRow, Issues
<1>18. ASSUME NEW i \in Of(d.issues, p)
       PROVE  i \in old <=> \E t \in mine : IssueOf[t] = i.issue
  BY DEF OldIssues, IsOf, Of
<1>19. ASSUME NEW i \in Of(d.issues, p) \ old
       PROVE  Grouped(e, p, i.issue) = Grouped(d, p, i.issue)
  <2>1. Touching(S, p, i.issue) = {}
    <3> SUFFICES ASSUME NEW r \in S, ProjectOf[r] = p, IssueOf[r] = i.issue
                 PROVE  FALSE
      BY DEF Touching
    <3>1. IssueOf[r] # None  BY <1>17 DEF Of
    <3>2. PICK t \in T : SameIssue(r, t)  BY <1>3, <3>1
    <3>3. t \in mine /\ IssueOf[t] = i.issue  BY <3>2 DEF SameIssue
    <3> QED  BY <1>18, <3>3
  <2> QED  BY <1>16, <2>1
<1>20. ASSUME NEW t \in mine
       PROVE  LET b == Bumped(d, S, t)
              IN  /\ b.project = p
                  /\ b.issue = IssueOf[t]
                  /\ b.retained = Cardinality(Grouped(e, p, b.issue))
                  /\ b.retained <= b.total
                  /\ b.latest \in Grouped(e, p, b.issue) \cup {None}
  <2> DEFINE A == Grouped(d, p, IssueOf[t])
             B == Touching(S, p, IssueOf[t])
             b == Bumped(d, S, t)
             i == Existing(d, t)
  <2>1. t \in Records /\ IssueOf[t] # None /\ ProjectOf[t] = p /\ t \in S
    BY <1>3
  <2>2. /\ i.retained = Cardinality(A)
        /\ i.retained <= i.total
        /\ i.latest \in A \cup {None}
    BY <2>1, PriorFits DEF Fit
  <2>3. i \in IssueRow  BY <2>1, ExistingType
  <2>4. A \in SUBSET Records /\ B \in SUBSET Records
    BY <1>2 DEF Grouped, Touching, Of, Stored, Database, RecordRow, Manifest
  <2>5. /\ b.project = p
        /\ b.issue = IssueOf[t]
        /\ b.total = i.total + Cardinality(B)
        /\ b.retained = i.retained + Cardinality(B)
        /\ b.latest \in {t, i.latest}
    BY <2>1, BumpedFields
  <2>6. A \cap B = {} /\ Grouped(e, p, IssueOf[t]) = A \cup B
    BY <1>16
  <2>7. t \in B  BY <2>1 DEF Touching
  <2> HIDE DEF A, B, b, i
  <2>8. Cardinality(A) \in Nat /\ Cardinality(B) \in Nat
    BY <2>4, CountOfRecords
  <2>9. Cardinality(A \cup B) = Cardinality(A) + Cardinality(B)
    <3>1. IsFiniteSet(A) /\ IsFiniteSet(B)
      BY <2>4, RecordAssumption, FS_Subset
    <3> QED  BY <2>6, <3>1, CountDisjoint
  <2>10. i.total \in Nat  BY <2>3 DEF IssueRow
  <2>11. b.retained = Cardinality(A \cup B) /\ b.retained <= b.total
    BY <2>2, <2>5, <2>8, <2>9, <2>10
  <2>12. b.latest \in (A \cup B) \cup {None}
    BY <2>2, <2>5, <2>7
  <2>13. /\ b.project = p
         /\ b.issue = IssueOf[t]
         /\ b.retained = Cardinality(Grouped(e, p, b.issue))
         /\ b.retained <= b.total
         /\ b.latest \in Grouped(e, p, b.issue) \cup {None}
    BY <2>5, <2>6, <2>11, <2>12
  <2> QED  BY <2>13 DEF b
<1>21. IssuesFit(e, p)
  <2>1. ASSUME NEW i \in Of(e.issues, p)
        PROVE  /\ i.retained = Cardinality(Grouped(e, p, i.issue))
               /\ i.retained <= i.total
               /\ i.latest \in Grouped(e, p, i.issue) \cup {None}
    <3>1. CASE i \in Of(d.issues, p) \ old
      BY <1>19, <3>1 DEF Fit, IssuesFit
    <3>2. CASE \E t \in mine : i = Bumped(d, S, t)
      BY <1>20, <3>2
    <3> QED  BY <1>15, <3>1, <3>2
  <2>2. ASSUME NEW i \in Of(e.issues, p), NEW j \in Of(e.issues, p),
               i.issue = j.issue
        PROVE  i = j
    <3>1. CASE i \in Of(d.issues, p) \ old /\ j \in Of(d.issues, p) \ old
      BY <2>2, <3>1 DEF Fit, IssuesFit
    <3>2. ASSUME NEW k \in Of(d.issues, p) \ old, NEW t \in mine,
                 k.issue = Bumped(d, S, t).issue
          PROVE  FALSE
      BY <1>18, <1>20, <3>2
    <3>3. ASSUME NEW s \in mine, NEW t \in mine,
                 Bumped(d, S, s).issue = Bumped(d, S, t).issue
          PROVE  s = t
      BY <1>3, <1>20, <3>3 DEF SameIssue
    <3> QED  BY <1>15, <2>2, <3>1, <3>2, <3>3
  <2>3. ASSUME NEW x \in Of(Stored(e), p), IssueOf[x.id] # None
        PROVE  \E i \in Of(e.issues, p) : IssueOf[x.id] = i.issue
    <3>1. ASSUME NEW t \in mine, IssueOf[t] = IssueOf[x.id]
          PROVE  \E i \in Of(e.issues, p) : IssueOf[x.id] = i.issue
      BY <1>15, <1>20, <3>1
    <3>2. CASE x \in Of(Stored(d), p)
      <4>1. PICK i \in Of(d.issues, p) : IssueOf[x.id] = i.issue
        BY <2>3, <3>2 DEF Fit, IssuesFit
      <4>2. CASE i \in old
        BY <1>18, <3>1, <4>1, <4>2
      <4> QED  BY <1>15, <4>1, <4>2
    <3>3. CASE x \in Of(rows, p)
      <4>1. x.id \in S /\ ProjectOf[x.id] = p
        BY <1>6, <3>3 DEF Of
      <4>2. PICK t \in T : SameIssue(x.id, t)  BY <1>3, <2>3, <4>1
      <4> QED  BY <3>1, <4>1, <4>2 DEF SameIssue
    <3> QED  BY <1>10, <3>2, <3>3
  <2>4. {i \in Of(e.record_indexes, p) : i.kind = "u"}
          = {IssueIndex(i) : i \in Of(e.issues, p)}
    <3> DEFINE of(X) == {IssueIndex(i) : i \in X}
    <3>1. \A i : IssueIndex(i).kind = "u" /\ IssueIndex(i).project = i.project
      BY DEF IssueIndex
    <3>2. \A x : EventIndex(x).kind = "e"  BY EventIndexFields
    <3>3. Of(of(new), p) = of({Bumped(d, S, t) : t \in mine})
      BY <3>1, BumpedFields DEF Of, NewIssues
    <3>4. of(Of(d.issues, p)) = {i \in Of(d.record_indexes, p) : i.kind = "u"}
      BY DEF Fit, IssuesFit
    <3>5. \A i \in Of(d.issues, p), j \in old :
             IssueIndex(i) = IssueIndex(j) => i = j
      <4> SUFFICES ASSUME NEW i \in Of(d.issues, p), NEW j \in old,
                          IssueIndex(i) = IssueIndex(j)
                   PROVE  i = j
        OBVIOUS
      <4>1. i.project = j.project /\ i.issue = j.issue  BY DEF IssueIndex
      <4>2. j \in Of(d.issues, p)  BY <4>1 DEF Of, OldIssues
      <4> QED  BY <4>1, <4>2 DEF Fit, IssuesFit
    <3>6. of(Of(d.issues, p)) \ of(old) = of(Of(d.issues, p) \ old)
      BY <3>5
    <3>7. {i \in Of(e.record_indexes, p) : i.kind = "u"}
            = ({i \in Of(d.record_indexes, p) : i.kind = "u"} \ of(old))
                 \cup Of(of(new), p)
      <4>1. \A i \in of(new) : i.kind = "u"  BY <3>1
      <4>2. \A i \in {EventIndex(x) : x \in rows} : i.kind = "e"  BY <3>2
      <4> HIDE DEF of
      <4>3. e.record_indexes = (d.record_indexes \ of(old))
               \cup {EventIndex(x) : x \in rows} \cup of(new)
        BY <1>1 DEF of
      <4> QED  BY <4>1, <4>2, <4>3 DEF Of
    <3>8. of(Of(e.issues, p)) = of(Of(d.issues, p) \ old)
                                  \cup of({Bumped(d, S, t) : t \in mine})
      BY <1>15
    <3> QED  BY <3>3, <3>4, <3>6, <3>7, <3>8
  <2> QED  BY <2>1, <2>2, <2>3, <2>4 DEF IssuesFit
<1> QED  BY <1>13, <1>14, <1>21 DEF Fit, e, S

-----------------------------------------------------------------------------
(* One database.                                                           *)

\* Sound, by its parts.
LEMMA SoundIs ==
  ASSUME NEW d
  PROVE  Sound(d) <=>
           /\ \A q, r \in d.projects : q.id = r.id => q = r
           /\ \A m, n \in d.manifests : m.part = n.part => m = n
           /\ \A m \in d.manifests : m.rows # {}
           /\ PartsHomed(d)
           /\ \A p \in Serving(d) : Fit(d, p)
BY DEF Sound, PartsHomed, Fit

\* A batch of records.
LEMMA WrittenSound ==
  ASSUME NEW d \in Database, Sound(d), NEW R \in SUBSET Records, NEW at,
         NEW T \in Newest(Accepted(d, R))
  PROVE  Sound(Written(d, Accepted(d, R), at, T))
<1> DEFINE e == Written(d, Accepted(d, R), at, T)
<1>1. e.manifests = d.manifests /\ e.projects = d.projects
  BY WrittenFields
<1>2. Serving(e) = Serving(d) /\ (PartsHomed(d) => PartsHomed(e))
  BY <1>1 DEF Serving, PartsHomed
<1>3. \A p \in Serving(d) : Fit(e, p)
  BY SoundIs, WrittenFit
<1> HIDE DEF e
<1>4. Sound(e)  BY <1>1, <1>2, <1>3, SoundIs
<1> QED  BY <1>4 DEF e

\* A part published.
LEMMA ArchivedSound ==
  ASSUME NEW d \in Database, Sound(d), NEW m,
         m.rows # {}, m.rows \subseteq d.records,
         \A x \in m.rows : x.project = m.project,
         \A n \in d.manifests : n.part # m.part
  PROVE  Sound(Archived(d, m))
<1> DEFINE e == Archived(d, m)
<1>1. e.manifests = d.manifests \cup {m} /\ e.projects = d.projects
  BY ArchivedFields
<1>2. Serving(e) = Serving(d) /\ (PartsHomed(d) => PartsHomed(e))
  BY <1>1 DEF Serving, PartsHomed
<1>3. \A p \in Serving(d) : Fit(e, p)
  BY SoundIs, ArchivedFit
<1> HIDE DEF e
<1>4. Sound(e)  BY <1>1, <1>2, <1>3, SoundIs
<1> QED  BY <1>4 DEF e

\* A partition evicted.
LEMMA PartitionSound ==
  ASSUME NEW d \in Database, Sound(d), NEW m \in d.manifests
  PROVE  Sound(WithoutPartition(d, m))
<1> DEFINE e == WithoutPartition(d, m)
<1>1. e.manifests = d.manifests \ {m} /\ e.projects = d.projects
  BY WithoutPartitionFields
<1>2. Serving(e) = Serving(d) /\ (PartsHomed(d) => PartsHomed(e))
  BY <1>1 DEF Serving, PartsHomed
<1>3. \A p \in Serving(d) : Fit(e, p)
  BY SoundIs, PartitionFit
<1> HIDE DEF e
<1>4. Sound(e)  BY <1>1, <1>2, <1>3, SoundIs
<1> QED  BY <1>4 DEF e

\* A hot record evicted.
LEMMA HotSound ==
  ASSUME NEW d \in Database, Sound(d), NEW x \in d.records
  PROVE  Sound(WithoutHot(d, x))
<1> DEFINE e == WithoutHot(d, x)
<1>1. e.manifests = d.manifests /\ e.projects = d.projects
  BY WithoutHotFields
<1>2. Serving(e) = Serving(d) /\ (PartsHomed(d) => PartsHomed(e))
  BY <1>1 DEF Serving, PartsHomed
<1>3. \A p \in Serving(d) : Fit(e, p)
  BY SoundIs, HotFit
<1> HIDE DEF e
<1>4. Sound(e)  BY <1>1, <1>2, <1>3, SoundIs
<1> QED  BY <1>4 DEF e

\* An issue evicted.
LEMMA IssueSound ==
  ASSUME NEW d \in Database, Sound(d), d.records = {}, d.manifests = {},
         NEW i \in d.issues
  PROVE  Sound([d EXCEPT !.issues = @ \ {i},
                         !.record_indexes = @ \ {IssueIndex(i)}])
<1> DEFINE e == [d EXCEPT !.issues = @ \ {i},
                          !.record_indexes = @ \ {IssueIndex(i)}]
<1>1. e.manifests = d.manifests /\ e.projects = d.projects
  BY DEF Database
<1>2. Serving(e) = Serving(d) /\ (PartsHomed(d) => PartsHomed(e))
  BY <1>1 DEF Serving, PartsHomed
<1>3. ASSUME NEW p \in Serving(d)  PROVE Fit(e, p)
  <2>1. PartsHomed(d) /\ Fit(d, p)  BY SoundIs
  <2> QED  BY <2>1, IssueFit, Zenon
<1> HIDE DEF e
<1>4. Sound(e)  BY <1>1, <1>2, <1>3, SoundIs
<1> QED  BY <1>4 DEF e

\* Rows of a project that is no longer served are gone, and perhaps the
\* project itself.
LEMMA LessSound ==
  ASSUME NEW d, Sound(d), NEW e, NEW gone,
         \A k \in Stages \cup {"manifests"} :
            /\ e[k] \subseteq d[k]
            /\ \A row \in d[k] \ e[k] : row.project = gone,
         e.projects \subseteq d.projects,
         gone \notin Serving(e)
  PROVE  Sound(e)
<1>1. Serving(e) \subseteq Serving(d)  BY DEF Serving
<1>2. e.manifests \subseteq d.manifests  BY DEF Stages
<1>3. PartsHomed(d) /\ PartsHomed(e)  BY <1>2, SoundIs DEF PartsHomed
<1>4. ASSUME NEW p \in Serving(e)  PROVE Fit(e, p)
  <2>1. p # gone  OBVIOUS
  <2>2. \A k \in Stages \cup {"manifests"} : Of(e[k], p) = Of(d[k], p)
    BY <2>1 DEF Of
  <2>3. SameRows(d, e, p)  BY <2>2 DEF SameRows, Stages
  <2>4. Fit(d, p)  BY <1>1, SoundIs
  <2> QED  BY <1>3, <2>3, <2>4, FitSame
<1>5. /\ \A q, r \in e.projects : q.id = r.id => q = r
      /\ \A m, n \in e.manifests : m.part = n.part => m = n
      /\ \A m \in e.manifests : m.rows # {}
  BY <1>2, SoundIs
<1> QED  BY <1>3, <1>4, <1>5, SoundIs

\* A project marked for removal.
LEMMA MarkedSound ==
  ASSUME NEW d \in Database, Sound(d), NEW q \in d.projects
  PROVE  LET e == [d EXCEPT !.projects =
                     (@ \ {q}) \cup {[q EXCEPT !.status = "Deleting"]}]
         IN  Sound(e) /\ q.id \notin Serving(e)
<1> DEFINE mark == [q EXCEPT !.status = "Deleting"]
           e == [d EXCEPT !.projects = (@ \ {q}) \cup {mark}]
<1>1. mark.id = q.id /\ mark.status = "Deleting"
  BY DEF Database, ProjectRow
<1> HIDE DEF mark
<1>2. e.projects = (d.projects \ {q}) \cup {mark}
      /\ \A k \in Stages \cup {"manifests"} : e[k] = d[k]
  BY DEF Database, Stages
<1> HIDE DEF e
<1>3. \A r, s \in d.projects : r.id = s.id => r = s  BY SoundIs
<1>4. /\ \A r, s \in e.projects : r.id = s.id => r = s
      /\ Serving(e) \subseteq Serving(d)
      /\ q.id \notin Serving(e)
  <2>1. mark.status # "Active"  BY <1>1
  <2>2. \A r \in e.projects :
           r = mark \/ (r \in d.projects /\ r # q /\ r.id # q.id)
    BY <1>2, <1>3
  <2>3. \A r, s \in e.projects : r.id = s.id => r = s
    BY <1>1, <1>3, <2>2
  <2>4. \A r \in e.projects : r.status = "Active" =>
           r \in d.projects /\ r.id # q.id
    BY <2>1, <2>2
  <2> QED  BY <2>3, <2>4, Zenon DEF Serving
<1>5. e.manifests = d.manifests  BY <1>2
<1>6. PartsHomed(d) /\ PartsHomed(e)  BY <1>5, SoundIs DEF PartsHomed
<1>7. ASSUME NEW p \in Serving(e)  PROVE Fit(e, p)
  <2>1. SameRows(d, e, p)  BY <1>2 DEF SameRows, Stages
  <2>2. Fit(d, p)  BY <1>4, SoundIs
  <2> QED  BY <1>6, <2>1, <2>2, FitSame
<1>8. Sound(e)  BY <1>4, <1>5, <1>6, <1>7, SoundIs
<1> QED  BY <1>4, <1>8 DEF e, mark

\* A project created: no row is filed under its id yet.
LEMMA CreatedSound ==
  ASSUME NEW d \in Database, Sound(d), Homed(d), NEW name \in Names
  PROVE  Sound([d EXCEPT !.projects = @ \cup {[id |-> d.next, name |-> name,
                                              status |-> "Active"]},
                         !.next = @ + 1])
<1> DEFINE row == [id |-> d.next, name |-> name, status |-> "Active"]
           e == [d EXCEPT !.projects = @ \cup {row}, !.next = @ + 1]
<1>1. row.id = d.next /\ d.next \in Nat  BY DEF Database
<1> HIDE DEF row
<1>2. e.projects = d.projects \cup {row}
      /\ \A k \in Stages \cup {"manifests"} : e[k] = d[k]
  BY DEF Database, Stages
<1> HIDE DEF e
<1>3. \A q \in d.projects : q.id \in Nat /\ q.id < d.next
  BY DEF Homed, Database, ProjectRow
<1>4. \A q \in d.projects : q.id # d.next  BY <1>1, <1>3
<1>5. \A q, r \in e.projects : q.id = r.id => q = r
  BY <1>1, <1>2, <1>4, SoundIs
<1>6. e.manifests = d.manifests  BY <1>2
<1>7. PartsHomed(d) /\ PartsHomed(e)  BY <1>6, SoundIs DEF PartsHomed
<1>8. ASSUME NEW p \in Serving(e)  PROVE Fit(e, p)
  <2>1. CASE p \in Serving(d)
    <3>1. SameRows(d, e, p)  BY <1>2 DEF SameRows, Stages
    <3>2. Fit(d, p)  BY <2>1, SoundIs
    <3> QED  BY <1>7, <3>1, <3>2, FitSame
  <2>2. CASE p \notin Serving(d)
    <3>1. p = d.next  BY <1>1, <1>2, <2>2 DEF Serving
    <3>2. \A k \in Stages \cup {"manifests"} : Of(e[k], p) = {}
      BY <1>2, <1>4, <3>1 DEF Homed, Of
    <3> QED  BY <1>7, <3>2, FitEmpty
  <2> QED  BY <2>1, <2>2
<1>9. Sound(e)  BY <1>5, <1>6, <1>7, <1>8, SoundIs
<1> QED  BY <1>9 DEF e, row

-----------------------------------------------------------------------------
(* Every step.                                                             *)

AllSound == \A d \in recoverable : Sound(d)

\* A fresh data directory is in order.
LEMMA InitConsistency == Init => ConsistencyInv
<1> SUFFICES ASSUME Init  PROVE ConsistencyInv
  OBVIOUS
<1>1. /\ EmptyDatabase.projects = {}
      /\ EmptyDatabase.manifests = {}
  BY DEF EmptyDatabase
<1>2. Sound(EmptyDatabase)
  <2>1. Serving(EmptyDatabase) = {}  BY <1>1 DEF Serving
  <2> QED  BY <1>1, <2>1 DEF Sound
<1> QED  BY <1>2 DEF Init, ConsistencyInv

\* Committing a sound database leaves only sound ones to be recovered.
LEMMA CommitSound ==
  ASSUME AllSound, NEW d, NEW synced, Commit(d, synced), Sound(d)
  PROVE  AllSound'
BY DEF AllSound, Commit

\* A step that ends, starts or continues a job that has no part in flight
\* and no project to clear.
LEMMA ConsistencyQuiet ==
  ASSUME AllSound',
         pc' \notin {"rename", "publish", "mark", "clear", "drop"}
  PROVE  ConsistencyInv'
BY DEF ConsistencyInv, AllSound

\* Every step keeps the recoverable databases in order.
LEMMA NextConsistency ==
  TypeOK /\ FilesInv /\ RowsInv /\ ConsistencyInv /\ [Next]_vars
    => ConsistencyInv'
<1> SUFFICES ASSUME TypeOK, FilesInv, RowsInv, ConsistencyInv, [Next]_vars
             PROVE  ConsistencyInv'
  OBVIOUS
<1>0. AllSound /\ Sound(db) /\ db \in Database /\ Homed(db)
  BY DEF ConsistencyInv, AllSound, RowsInv, SyncedAgree, NoOrphanKeys, Homed,
         TypeOK
<1>a. ASSUME UNCHANGED <<db, recoverable>>  PROVE AllSound'
  BY <1>0, <1>a DEF AllSound
<1>1. ASSUME NEW x \in Cold, NEW p \in Parts, WriteTemporary(x, p)
      PROVE  ConsistencyInv'
  <2> DEFINE rows == {y \in Cold : SameGroup(x, y)}
  <2>1. x \in rows /\ rows \subseteq db.records
        /\ \A y \in rows : y.project = x.project
    BY DEF SameGroup, Cold, Before
  <2>2. part'.rows = rows /\ part'.project = x.project
        /\ pc' = "rename" /\ UNCHANGED <<db, recoverable>>
    BY <1>1 DEF WriteTemporary
  <2> HIDE DEF rows
  <2> QED  BY <1>a, <2>1, <2>2 DEF ConsistencyInv, AllSound
<1>2. CASE RenameTemporary
  BY <1>2, <1>a DEF RenameTemporary, ConsistencyInv, AllSound, Locals
<1>3. CASE PublishManifest
  <2>1. /\ part.rows # {}
        /\ part.rows \subseteq db.records
        /\ \A x \in part.rows : x.project = part.project
        /\ \A n \in db.manifests : n.part # part.part
    BY <1>3 DEF PublishManifest, ConsistencyInv, FilesInv
  <2>2. Sound(Archived(db, part))  BY <1>0, <2>1, ArchivedSound
  <2>3. AllSound'  BY <1>0, <1>3, <2>2, CommitSound DEF PublishManifest
  <2> QED  BY <1>3, <2>3, ConsistencyQuiet DEF PublishManifest
<1>4. CASE ArchiveDone
  BY <1>4, <1>a, ConsistencyQuiet DEF ArchiveDone, Release
<1>5. ASSUME NEW m \in OldestPartitions, EvictPartition(m)
      PROVE  ConsistencyInv'
  <2>1. Sound(WithoutPartition(db, m))
    BY <1>0, PartitionSound DEF OldestPartitions
  <2>2. AllSound'  BY <1>0, <1>5, <2>1, CommitSound DEF EvictPartition
  <2> QED  BY <1>5, <2>2, ConsistencyQuiet DEF EvictPartition
<1>6. ASSUME NEW x \in db.records, EvictHot(x)
      PROVE  ConsistencyInv'
  <2>1. Sound(WithoutHot(db, x))  BY <1>0, HotSound
  <2>2. AllSound'  BY <1>0, <1>6, <2>1, CommitSound DEF EvictHot
  <2> QED  BY <1>6, <2>2, ConsistencyQuiet DEF EvictHot, OverTarget
<1>7. ASSUME NEW i \in db.issues, EvictIssue(i)
      PROVE  ConsistencyInv'
  <2> DEFINE e == [db EXCEPT !.issues = @ \ {i},
                             !.record_indexes = @ \ {IssueIndex(i)}]
  <2>0. db.records = {} /\ db.manifests = {}  BY <1>7 DEF EvictIssue
  <2>1. Sound(e)  BY <1>0, <2>0, IssueSound, Zenon
  <2>2. Commit(e, TRUE)  BY <1>7 DEF EvictIssue
  <2> HIDE DEF e
  <2>3. AllSound'  BY <1>0, <2>1, <2>2, CommitSound
  <2> QED  BY <1>7, <2>3, ConsistencyQuiet DEF EvictIssue, OverTarget
<1>8. CASE EnforceDone
  BY <1>8, <1>a, ConsistencyQuiet DEF EnforceDone, Release
<1>9. ASSUME NEW chunk \in Chunks, ClearChunk(chunk)
      PROVE  ConsistencyInv'
  <2> DEFINE e == [db EXCEPT ![stage] = @ \ chunk]
  <2>1. chunk \subseteq Uncleared  BY DEF Chunks
  <2>2. \A k \in Stages \cup {"manifests"} :
           /\ e[k] \subseteq db[k]
           /\ \A row \in db[k] \ e[k] : row.project = removing
    BY <1>0, <2>1 DEF TypeOK, Database, Stages, Uncleared
  <2>3. e.projects = db.projects  BY <1>0 DEF TypeOK, Database, Stages
  <2>4. pc = "clear" /\ Commit(e, FALSE)  BY <1>9 DEF ClearChunk
  <2> HIDE DEF e
  <2>5. removing \notin Serving(db) /\ Serving(e) = Serving(db)
    BY <2>3, <2>4 DEF ConsistencyInv, Serving
  <2>6. Sound(e)  BY <1>0, <2>2, <2>3, <2>5, LessSound
  <2>7. AllSound'  BY <1>0, <2>4, <2>6, CommitSound
  <2>8. db' = e /\ pc' = pc /\ removing' = removing
    BY <1>9, <2>4 DEF ClearChunk, Commit, Locals
  <2> QED  BY <2>4, <2>5, <2>7, <2>8 DEF ConsistencyInv, AllSound
<1>10. CASE ClearNext
  <2>1. pc = "clear" /\ pc' \in {"clear", "drop"}
        /\ UNCHANGED <<db, recoverable, removing>>
    BY <1>10 DEF ClearNext
  <2> QED  BY <1>a, <2>1 DEF ConsistencyInv, AllSound
<1>11. CASE DropProject
  <2> DEFINE e == [db EXCEPT
                     !.manifests = @ \ {m \in db.manifests :
                                          m.project = removing},
                     !.projects = {q \in @ : q.id # removing}]
  <2>1. /\ \A k \in Stages : e[k] = db[k]
        /\ e.manifests = {m \in db.manifests : m.project # removing}
        /\ e.projects = {q \in db.projects : q.id # removing}
    BY <1>0 DEF Database, Stages
  <2>2. Commit(e, TRUE) /\ pc' = "unlink"
    BY <1>11 DEF DropProject
  <2> HIDE DEF e
  <2>3. \A k \in Stages \cup {"manifests"} :
           /\ e[k] \subseteq db[k]
           /\ \A row \in db[k] \ e[k] : row.project = removing
    BY <2>1 DEF Stages
  <2>4. e.projects \subseteq db.projects /\ removing \notin Serving(e)
    BY <2>1 DEF Serving
  <2>5. Sound(e)  BY <1>0, <2>3, <2>4, LessSound
  <2>6. AllSound'  BY <1>0, <2>2, <2>5, CommitSound
  <2> QED  BY <2>2, <2>6, ConsistencyQuiet
<1>12. ASSUME NEW p \in doomed, Unlink(p)
       PROVE  ConsistencyInv'
  BY <1>12, <1>a, ConsistencyQuiet DEF Unlink
<1>13. CASE UnlinkDone
  BY <1>13, <1>a, ConsistencyQuiet DEF UnlinkDone
<1>14. ASSUME NEW q \in Removable({"Deleting"}), ResumeDeletion(q)
       PROVE  ConsistencyInv'
  <2>1. q \in db.projects /\ q.status = "Deleting"  BY DEF Removable
  <2>2. q.id \notin Serving(db)
    BY <1>0, <2>1, SoundIs DEF Serving
  <2> QED  BY <1>14, <1>a, <2>2 DEF ResumeDeletion, ConsistencyInv, AllSound
<1>15. ASSUME NEW f \in Strays, CleanUp(f)
       PROVE  ConsistencyInv'
  BY <1>15, <1>a, ConsistencyQuiet DEF CleanUp
<1>16. CASE OpenDone
  BY <1>16, <1>a, ConsistencyQuiet DEF OpenDone, Release
<1>17. ASSUME NEW name \in Names, AddProject(name)
       PROVE  ConsistencyInv'
  <2> DEFINE e == [db EXCEPT
                     !.projects = @ \cup {[id |-> db.next, name |-> name,
                                           status |-> "Active"]},
                     !.next = @ + 1]
  <2>1. Sound(e)  BY <1>0, CreatedSound, Zenon
  <2>2. Commit(e, TRUE)  BY <1>17 DEF AddProject
  <2> HIDE DEF e
  <2>3. AllSound'  BY <1>0, <2>1, <2>2, CommitSound
  <2> QED  BY <1>17, <2>3, ConsistencyQuiet DEF AddProject, Free
<1>18. ASSUME NEW S \in SUBSET Records, NEW at \in Clock, WriteRecords(S, at)
       PROVE  ConsistencyInv'
  <2>1. PICK T \in Newest(Accepted(db, S)) :
           Commit(Written(db, Accepted(db, S), at, T), Safe)
    BY <1>18 DEF WriteRecords
  <2>2. Sound(Written(db, Accepted(db, S), at, T))
    BY <1>0, WrittenSound
  <2>3. AllSound'  BY <1>0, <2>1, <2>2, CommitSound
  <2> QED  BY <1>18, <2>3, ConsistencyQuiet DEF WriteRecords, Free
<1>19. ASSUME NEW time \in Clock, ArchiveBefore(time + 1)
       PROVE  ConsistencyInv'
  BY <1>19, <1>a, ConsistencyQuiet DEF ArchiveBefore
<1>20. CASE EnforceStorageTarget
  BY <1>20, <1>a, ConsistencyQuiet DEF EnforceStorageTarget
<1>21. ASSUME NEW q \in db.projects, RemoveProject(q)
       PROVE  ConsistencyInv'
  <2> DEFINE e == [db EXCEPT !.projects =
                     (@ \ {q}) \cup {[q EXCEPT !.status = "Deleting"]}]
  <2>1. Sound(e) /\ q.id \notin Serving(e)  BY <1>0, MarkedSound
  <2>2. Commit(e, FALSE)  BY <1>21 DEF RemoveProject
  <2> HIDE DEF e
  <2>3. AllSound'  BY <1>0, <2>1, <2>2, CommitSound
  <2>4. db' = e /\ pc' = "mark" /\ removing' = q.id
    BY <1>21, <2>2 DEF RemoveProject, Commit
  <2> QED  BY <2>1, <2>3, <2>4 DEF ConsistencyInv, AllSound
<1>22. CASE Persist
  <2>1. UNCHANGED <<db, pc, Locals>>  BY <1>22 DEF Persist, Commit
  <2>2. AllSound'  BY <1>0, <1>22, CommitSound DEF Persist
  <2> QED  BY <2>1, <2>2 DEF ConsistencyInv, AllSound, Locals
<1>27. CASE SyncMark
  <2>1. db' = db /\ removing' = removing /\ pc = "mark" /\ pc' = "clear"
    BY <1>27 DEF SyncMark, Commit, Locals
  <2>2. AllSound'  BY <1>0, <1>27, CommitSound DEF SyncMark
  <2> QED  BY <2>1, <2>2 DEF ConsistencyInv, AllSound
<1>23. CASE JobFails
  BY <1>23, <1>a, ConsistencyQuiet DEF JobFails, Release
<1>24. CASE ProcessCrash
  BY <1>24, <1>a, ConsistencyQuiet DEF ProcessCrash, Restart
<1>25. ASSUME NEW d \in recoverable, PowerLoss(d)
       PROVE  ConsistencyInv'
  <2>1. AllSound'  BY <1>0, <1>25 DEF PowerLoss, AllSound
  <2> QED  BY <1>25, <2>1, ConsistencyQuiet DEF PowerLoss, Restart
<1>26. CASE UNCHANGED vars
  BY <1>26, <1>a DEF vars, ConsistencyInv, AllSound
<1> QED
  BY <1>1, <1>2, <1>3, <1>4, <1>5, <1>6, <1>7, <1>8, <1>9, <1>10, <1>11,
     <1>12, <1>13, <1>14, <1>15, <1>16, <1>17, <1>18, <1>19, <1>20, <1>21,
     <1>22, <1>23, <1>24, <1>25, <1>26, <1>27
  DEF Next, Job, Archiver, Enforcer, Remover, Opener, Calls, Crash, Removable

\* A stored key is in one place, an unstored one in none.
LEMMA KeyHomes ==
  ASSUME NEW d, PartsHomed(d), NEW p, KeysOnce(d, p), NEW r \in Records
  PROVE  LET key == [project |-> p, id |-> r]
         IN  Cardinality(Homes(d, key)) = IF key \in d.source_ids THEN 1 ELSE 0
<1> DEFINE key == [project |-> p, id |-> r]
           hot == [at |-> "hot", part |-> None]
           archived(m) == [at |-> "archive", part |-> m.part]
<1>1. \A x : Key(x) = key <=> x.project = p /\ x.id = r
  BY DEF Key
<1>2. \A y : y \in Homes(d, key) <=>
         \/ y = hot /\ \E x \in Of(d.records, p) : x.id = r
         \/ \E m \in Of(d.manifests, p) :
               y = archived(m) /\ \E x \in m.rows : x.id = r
  <2>1. \A m \in d.manifests :
           key \in {Key(x) : x \in m.rows}
             <=> m.project = p /\ \E x \in m.rows : x.id = r
    BY <1>1 DEF PartsHomed
  <2>2. (\E x \in d.records : Key(x) = key)
           <=> \E x \in Of(d.records, p) : x.id = r
    BY <1>1 DEF Of
  <2> QED  BY <2>1, <2>2 DEF Homes, Of
<1>3. key \in d.source_ids <=>
         \/ \E x \in Of(d.records, p) : x.id = r
         \/ \E m \in Of(d.manifests, p) : \E x \in m.rows : x.id = r
  <2>1. key \in d.source_ids <=> key \in Of(d.source_ids, p)  BY DEF Of
  <2>2. key \in Of(d.source_ids, p)
          <=> \E x \in Of(Stored(d), p) : Key(x) = key
    BY DEF KeysOnce
  <2>3. \A x \in Of(Stored(d), p) : x.project = p  BY DEF Of
  <2> QED  BY <1>1, <2>1, <2>2, <2>3, StoredOf
<1>4. CASE \E x \in Of(d.records, p) : x.id = r
  <2>1. \A m \in Of(d.manifests, p) : ~ \E x \in m.rows : x.id = r
    BY <1>4 DEF KeysOnce
  <2>2. Homes(d, key) = {hot}  BY <1>2, <1>4, <2>1
  <2> QED  BY <1>3, <1>4, <2>2, FS_Singleton
<1>5. ASSUME NEW m \in Of(d.manifests, p), \E x \in m.rows : x.id = r,
             ~ \E x \in Of(d.records, p) : x.id = r
      PROVE  Cardinality(Homes(d, key)) =
                IF key \in d.source_ids THEN 1 ELSE 0
  <2>1. \A n \in Of(d.manifests, p) : (\E x \in n.rows : x.id = r) => n = m
    BY <1>5 DEF KeysOnce
  <2> HIDE DEF archived
  <2>2. Homes(d, key) = {archived(m)}  BY <1>2, <1>5, <2>1
  <2> QED  BY <1>3, <1>5, <2>2, FS_Singleton
<1>6. CASE /\ ~ \E x \in Of(d.records, p) : x.id = r
           /\ ~ \E m \in Of(d.manifests, p) : \E x \in m.rows : x.id = r
  <2>1. Homes(d, key) = {}  BY <1>2, <1>6
  <2> QED  BY <1>3, <1>6, <2>1, FS_EmptySet
<1> QED  BY <1>4, <1>5, <1>6

\* The inductive invariant gives the property.
LEMMA ConsistencyInvConsistent == ConsistencyInv => Consistent
<1> SUFFICES ASSUME ConsistencyInv, NEW d \in recoverable,
                    NEW p \in Serving(d)
             PROVE  /\ \A r \in Records :
                         LET key == [project |-> p, id |-> r]
                         IN  Cardinality(Homes(d, key))
                               = IF key \in d.source_ids THEN 1 ELSE 0
                    /\ LookupsFit(d, p)
                    /\ IssuesFit(d, p)
  BY Zenon DEF Consistent, StoredOnce, LookupsAgree, IssuesExact
<1>1. Sound(d)  BY DEF ConsistencyInv
<1>2. PartsHomed(d) /\ Fit(d, p)  BY <1>1, SoundIs
<1> QED  BY <1>2, KeyHomes DEF Fit

\* The inductive invariant holds in every reachable state.
LEMMA StoreConsistencyInv == Spec => [](RowsInv /\ ConsistencyInv)
<1>1. Spec => []RowsInv
  BY InitRows, NextRows, StoreTypeOK, PTL DEF Spec
<1>2. Spec => []FilesInv
  BY InitFiles, NextFiles, StoreTypeOK, PTL DEF Spec
<1> QED
  BY <1>1, <1>2, InitConsistency, NextConsistency, StoreTypeOK, PTL DEF Spec

\* Hot rows, parts, keys, lookups and issues of a served project agree in
\* every state, and in every state a power loss can go back to.
THEOREM StoreConsistent == Spec => []Consistent
BY StoreConsistencyInv, ConsistencyInvConsistent, PTL

-----------------------------------------------------------------------------
(* Finite keyspaces.                                                       *)

\* The image of a finite set under a function.
LEMMA FiniteRange ==
  ASSUME NEW S, IsFiniteSet(S), NEW f, DOMAIN f = S
  PROVE  /\ IsFiniteSet({f[x] : x \in S})
         /\ Cardinality({f[x] : x \in S}) <= Cardinality(S)
<1> DEFINE T == {f[x] : x \in S}
           g == [x \in S |-> f[x]]
<1>1. g \in Surjection(S, T)  BY DEF Surjection
<1> QED  BY <1>1, FS_Surjection

\* The rows, sums and issues a batch adds are finitely many.
LEMMA FiniteBatch ==
  ASSUME NEW d, NEW S \in SUBSET Records, NEW at, NEW T \in SUBSET Records
  PROVE  /\ IsFiniteSet(NewRows(S, at))
         /\ IsFiniteSet(NewSums(S))
         /\ IsFiniteSet(NewIssues(d, S, T))
<1>1. IsFiniteSet(S) /\ IsFiniteSet(T)
      /\ IsFiniteSet({q \in S : StreamOf[q] # None})
  BY RecordAssumption, FS_Subset
<1>2. IsFiniteSet(NewRows(S, at))
  <2> DEFINE f == [r \in S |-> [project |-> ProjectOf[r], id |-> r,
                                at |-> at]]
  <2>1. NewRows(S, at) = {f[r] : r \in S}  BY DEF NewRows
  <2>2. DOMAIN f = S  OBVIOUS
  <2> HIDE DEF f
  <2> QED  BY <1>1, <2>1, <2>2, FiniteRange
<1>3. IsFiniteSet(NewSums(S))
  <2> DEFINE U == {q \in S : StreamOf[q] # None}
             f == [r \in U |-> [project |-> ProjectOf[r],
                                stream |-> StreamOf[r]]]
  <2>1. NewSums(S) = {f[r] : r \in U}  BY DEF NewSums
  <2>2. DOMAIN f = U  OBVIOUS
  <2> HIDE DEF f
  <2> QED  BY <1>1, <2>1, <2>2, FiniteRange
<1>4. IsFiniteSet(NewIssues(d, S, T))
  <2> DEFINE f == [t \in T |-> Bumped(d, S, t)]
  <2>1. NewIssues(d, S, T) = {f[t] : t \in T}  BY DEF NewIssues
  <2>2. DOMAIN f = T  OBVIOUS
  <2> HIDE DEF f
  <2> QED  BY <1>1, <2>1, <2>2, FiniteRange
<1> QED  BY <1>2, <1>3, <1>4

\* Decrementing issues leaves no more of them.
LEMMA DecrementedCount ==
  ASSUME NEW issues, IsFiniteSet(issues), NEW G
  PROVE  /\ IsFiniteSet(Decremented(issues, G))
         /\ Cardinality(Decremented(issues, G)) <= Cardinality(issues)
<1> DEFINE f == [i \in issues |-> Paid(G, i)]
<1>1. Decremented(issues, G) = {f[i] : i \in issues}
  BY DecrementedIsPaid
<1>2. DOMAIN f = issues  OBVIOUS
<1> HIDE DEF f
<1> QED  BY <1>1, <1>2, FiniteRange

\* FiniteRows, keyspace by keyspace.
LEMMA FiniteRowsIs ==
  ASSUME NEW d
  PROVE  FiniteRows(d) <=> /\ IsFiniteSet(d.records)
                           /\ IsFiniteSet(d.issues)
                           /\ IsFiniteSet(d.cumulative_sums)
                           /\ IsFiniteSet(d.manifests)
                           /\ \A m \in d.manifests : IsFiniteSet(m.rows)
BY DEF FiniteRows

\* A database with no more rows than a finite one.
LEMMA FewerRows ==
  ASSUME NEW d, FiniteRows(d), NEW e,
         e.records \subseteq d.records,
         e.issues \subseteq d.issues,
         e.cumulative_sums \subseteq d.cumulative_sums,
         e.manifests \subseteq d.manifests
  PROVE  FiniteRows(e)
BY FiniteRowsIs, FS_Subset

\* A batch of records is finite.
LEMMA WrittenFinite ==
  ASSUME NEW d \in Database, FiniteRows(d), NEW R \in SUBSET Records, NEW at,
         NEW T \in Newest(Accepted(d, R))
  PROVE  FiniteRows(Written(d, Accepted(d, R), at, T))
<1> DEFINE S == Accepted(d, R)
           e == Written(d, S, at, T)
<1>1. S \in SUBSET Records /\ T \in SUBSET Records
  BY DEF Accepted, Newest
<1>2. /\ e.records = d.records \cup NewRows(S, at)
      /\ e.issues = (d.issues \ OldIssues(d, T)) \cup NewIssues(d, S, T)
      /\ e.cumulative_sums = d.cumulative_sums \cup NewSums(S)
      /\ e.manifests = d.manifests
  BY WrittenFields
<1> HIDE DEF S, e
<1>3. /\ IsFiniteSet(NewRows(S, at))
      /\ IsFiniteSet(NewSums(S))
      /\ IsFiniteSet(NewIssues(d, S, T))
  BY <1>1, FiniteBatch
<1>4. IsFiniteSet(d.issues \ OldIssues(d, T))
  BY FiniteRowsIs, FS_Difference
<1>5. IsFiniteSet(e.records) /\ IsFiniteSet(e.issues)
      /\ IsFiniteSet(e.cumulative_sums)
  <2>1. IsFiniteSet(d.records) /\ IsFiniteSet(d.cumulative_sums)
    BY FiniteRowsIs
  <2>2. IsFiniteSet(d.records \cup NewRows(S, at))
    BY <1>3, <2>1, FS_Union
  <2>3. IsFiniteSet(d.cumulative_sums \cup NewSums(S))
    BY <1>3, <2>1, FS_Union
  <2>4. IsFiniteSet((d.issues \ OldIssues(d, T)) \cup NewIssues(d, S, T))
    BY <1>3, <1>4, FS_Union
  <2> QED  BY <1>2, <2>2, <2>3, <2>4
<1>6. FiniteRows(e)  BY <1>2, <1>5, FiniteRowsIs
<1> QED  BY <1>6 DEF e, S

\* So is a published part: its rows were hot.
LEMMA ArchivedFinite ==
  ASSUME NEW d \in Database, FiniteRows(d), NEW m, m.rows \subseteq d.records
  PROVE  FiniteRows(Archived(d, m))
<1> DEFINE e == Archived(d, m)
<1>1. /\ e.records = d.records \ m.rows
      /\ e.issues = d.issues
      /\ e.cumulative_sums = d.cumulative_sums
      /\ e.manifests = d.manifests \cup {m}
  BY ArchivedFields
<1> HIDE DEF e
<1>0. IsFiniteSet(d.records) /\ IsFiniteSet(d.manifests)  BY FiniteRowsIs
<1>2. IsFiniteSet(e.records)
  <2>1. IsFiniteSet(d.records \ m.rows)  BY <1>0, FS_Subset
  <2> QED  BY <1>1, <2>1
<1>3. IsFiniteSet(m.rows)  BY <1>0, FS_Subset
<1>4. IsFiniteSet(e.manifests)
  <2>1. IsFiniteSet(d.manifests \cup {m})  BY <1>0, FS_AddElement
  <2> QED  BY <1>1, <2>1
<1>5. FiniteRows(e)  BY <1>1, <1>2, <1>3, <1>4, FiniteRowsIs
<1> QED  BY <1>5 DEF e

\* Eviction leaves finite keyspaces.
LEMMA EvictedFinite ==
  ASSUME NEW d \in Database, FiniteRows(d), NEW e, NEW G,
         e.records \subseteq d.records,
         e.issues = Decremented(d.issues, G),
         e.cumulative_sums = d.cumulative_sums,
         e.manifests \subseteq d.manifests
  PROVE  FiniteRows(e)
BY FiniteRowsIs, FS_Subset, DecrementedCount

-----------------------------------------------------------------------------
(* What a batch of database changes does to the count of logical bytes.    *)

ArchivedPairs(d) == UNION {{m} \X m.rows : m \in d.manifests}

\* The rows of the parts are finitely many, and so are all logical bytes.
LEMMA LogicalCounts ==
  ASSUME NEW d, FiniteRows(d)
  PROVE  /\ IsFiniteSet(ArchivedPairs(d))
         /\ Cardinality(d.records) \in Nat
         /\ Cardinality(d.issues) \in Nat
         /\ Cardinality(d.cumulative_sums) \in Nat
         /\ Cardinality(ArchivedPairs(d)) \in Nat
         /\ Logical(d) = Cardinality(d.records) + Cardinality(d.issues)
                           + Cardinality(d.cumulative_sums)
                           + Cardinality(ArchivedPairs(d))
         /\ Logical(d) \in Nat
<1>1. /\ IsFiniteSet(d.records) /\ IsFiniteSet(d.issues)
      /\ IsFiniteSet(d.cumulative_sums) /\ IsFiniteSet(d.manifests)
      /\ \A m \in d.manifests : IsFiniteSet(m.rows)
  BY FiniteRowsIs
<1>2. IsFiniteSet(ArchivedPairs(d))
  <2> DEFINE f == [m \in d.manifests |-> {m} \X m.rows]
             T == {f[m] : m \in d.manifests}
  <2>1. DOMAIN f = d.manifests  OBVIOUS
  <2>2. T = {{m} \X m.rows : m \in d.manifests}  OBVIOUS
  <2>3. \A m \in d.manifests : IsFiniteSet({m} \X m.rows)
    BY <1>1, FS_Singleton, FS_Product
  <2>4. \A U \in T : IsFiniteSet(U)  BY <2>3
  <2>5. IsFiniteSet(T)
    <3> HIDE DEF f
    <3> QED  BY <1>1, <2>1, FiniteRange
  <2> HIDE DEF T
  <2>6. IsFiniteSet(UNION T)  BY <2>4, <2>5, FS_UNION
  <2> QED  BY <2>2, <2>6 DEF ArchivedPairs
<1>3. Logical(d) = Cardinality(d.records) + Cardinality(d.issues)
                     + Cardinality(d.cumulative_sums)
                     + Cardinality(ArchivedPairs(d))
  BY DEF Logical, ArchivedPairs
<1>4. /\ Cardinality(d.records) \in Nat
      /\ Cardinality(d.issues) \in Nat
      /\ Cardinality(d.cumulative_sums) \in Nat
      /\ Cardinality(ArchivedPairs(d)) \in Nat
  BY <1>1, <1>2, FS_CardinalityType
<1> QED  BY <1>2, <1>3, <1>4

Counts(d) ==
    /\ Cardinality(d.records) \in Nat
    /\ Cardinality(d.issues) \in Nat
    /\ Cardinality(d.cumulative_sums) \in Nat
    /\ Cardinality(ArchivedPairs(d)) \in Nat
    /\ Logical(d) = Cardinality(d.records) + Cardinality(d.issues)
                      + Cardinality(d.cumulative_sums)
                      + Cardinality(ArchivedPairs(d))

\* Keyspaces that grow, and one of them for certain, take more bytes.
LEMMA LogicalGrows ==
  ASSUME NEW d, NEW e, FiniteRows(d), FiniteRows(e),
         d.records \subseteq e.records,
         Cardinality(d.issues) <= Cardinality(e.issues),
         d.cumulative_sums \subseteq e.cumulative_sums,
         d.manifests = e.manifests,
         NEW x \in e.records, x \notin d.records
  PROVE  Logical(d) < Logical(e)
<1>1. IsFiniteSet(e.records) /\ IsFiniteSet(e.cumulative_sums)
  BY FiniteRowsIs
<1>2. Cardinality(d.records) <= Cardinality(e.records)
      /\ Cardinality(d.records) # Cardinality(e.records)
      /\ Cardinality(d.cumulative_sums) <= Cardinality(e.cumulative_sums)
  BY <1>1, FS_Subset
<1>3. ArchivedPairs(d) = ArchivedPairs(e)  BY DEF ArchivedPairs
<1>4. Counts(d) /\ Counts(e)  BY LogicalCounts DEF Counts
<1> QED  BY <1>2, <1>3, <1>4 DEF Counts

\* A hot record less, and no issue more.
LEMMA LogicalFewerHot ==
  ASSUME NEW d, NEW e, FiniteRows(d), FiniteRows(e),
         NEW x \in d.records, e.records = d.records \ {x},
         Cardinality(e.issues) <= Cardinality(d.issues),
         d.cumulative_sums = e.cumulative_sums,
         d.manifests = e.manifests
  PROVE  Logical(e) < Logical(d)
<1>1. IsFiniteSet(d.records)  BY FiniteRowsIs
<1>2. Cardinality(d.records \ {x}) = Cardinality(d.records) - 1
  BY <1>1, FS_RemoveElement
<1>3. ArchivedPairs(d) = ArchivedPairs(e)  BY DEF ArchivedPairs
<1>4. Counts(d) /\ Counts(e)  BY LogicalCounts DEF Counts
<1>5. Cardinality(e.records) < Cardinality(d.records)
  BY <1>2, <1>4 DEF Counts
<1>6. Cardinality(e.cumulative_sums) = Cardinality(d.cumulative_sums)
      /\ Cardinality(ArchivedPairs(e)) = Cardinality(ArchivedPairs(d))
  BY <1>3
<1> HIDE DEF ArchivedPairs
<1> QED  BY <1>4, <1>5, <1>6 DEF Counts

\* A part less, and no issue more: a part has rows.
LEMMA LogicalFewerParts ==
  ASSUME NEW d, NEW e, FiniteRows(d), FiniteRows(e),
         NEW m \in d.manifests, m.rows # {}, e.manifests = d.manifests \ {m},
         Cardinality(e.issues) <= Cardinality(d.issues),
         d.cumulative_sums = e.cumulative_sums,
         d.records = e.records
  PROVE  Logical(e) < Logical(d)
<1>1. IsFiniteSet(ArchivedPairs(d))  BY LogicalCounts
<1>2. PICK x \in m.rows : TRUE  OBVIOUS
<1>3. ArchivedPairs(e) \subseteq ArchivedPairs(d)  BY DEF ArchivedPairs
<1>4. <<m, x>> \in ArchivedPairs(d) /\ <<m, x>> \notin ArchivedPairs(e)
  BY DEF ArchivedPairs
<1>5. Cardinality(ArchivedPairs(e)) <= Cardinality(ArchivedPairs(d))
      /\ Cardinality(ArchivedPairs(e)) # Cardinality(ArchivedPairs(d))
  BY <1>1, <1>3, <1>4, FS_Subset
<1>6. Counts(d) /\ Counts(e)  BY LogicalCounts DEF Counts
<1> QED  BY <1>5, <1>6 DEF Counts

\* An issue less.
LEMMA LogicalFewerIssues ==
  ASSUME NEW d, NEW e, FiniteRows(d), FiniteRows(e),
         NEW i \in d.issues, e.issues = d.issues \ {i},
         d.cumulative_sums = e.cumulative_sums,
         d.records = e.records,
         d.manifests = e.manifests
  PROVE  Logical(e) < Logical(d)
<1>1. IsFiniteSet(d.issues)  BY FiniteRowsIs
<1>2. Cardinality(e.issues) <= Cardinality(d.issues)
      /\ Cardinality(e.issues) # Cardinality(d.issues)
  BY <1>1, FS_Subset
<1>3. ArchivedPairs(d) = ArchivedPairs(e)  BY DEF ArchivedPairs
<1>4. Counts(d) /\ Counts(e)  BY LogicalCounts DEF Counts
<1> QED  BY <1>2, <1>3, <1>4 DEF Counts

-----------------------------------------------------------------------------
(* What a database shows: the projects it serves and closes, and the keys  *)
(* it retains for the served ones.                                         *)

ClosingInv ==
    /\ Closing(db) # {} => pc \in {"mark", "clear", "drop", "resume"}
    /\ pc \in {"mark", "clear", "drop"} => Closing(db) = {removing}
    /\ \A p, q \in Closing(db) : p = q

\* The keys of the stored rows of served projects.
LEMMA RetainedIs ==
  ASSUME NEW d, NEW key
  PROVE  key \in Retained(d) <=>
            \E x \in Stored(d) : x.project \in Serving(d) /\ key = Key(x)
BY DEF Retained

\* Retained keys are keys of served projects.
LEMMA RetainedServed ==
  ASSUME NEW d, NEW key \in Retained(d)
  PROVE  key.project \in Serving(d)
BY RetainedIs, KeyFields

\* A project is either served or closing.
LEMMA OneStatus ==
  ASSUME NEW d \in Database, Sound(d)
  PROVE  /\ Serving(d) \cap Closing(d) = {}
         /\ \A q \in d.projects : q.id \in Serving(d) \cup Closing(d)
<1>1. \A q, r \in d.projects : q.id = r.id => q = r  BY SoundIs
<1>2. \A q \in d.projects : q.status \in {"Active", "Deleting"}
  BY DEF Database, ProjectRow
<1> QED  BY <1>1, <1>2 DEF Serving, Closing

\* Served and closing projects are a matter of the project rows.
LEMMA SameProjects ==
  ASSUME NEW d, NEW e, e.projects = d.projects
  PROVE  Serving(e) = Serving(d) /\ Closing(e) = Closing(d)
BY DEF Serving, Closing

\* A step outside removal and recovery that leaves the project rows alone.
LEMMA ClosingQuiet ==
  ASSUME ClosingInv, pc \notin {"mark", "clear", "drop", "resume"},
         Closing(db)' = Closing(db), pc' \notin {"mark", "clear", "drop"}
  PROVE  ClosingInv'
BY DEF ClosingInv

\* One database to recover is in agreement with itself.
LEMMA PromiseAlone ==
  ASSUME recoverable' = {db'}, FiniteRows(db'),
         db'.next \in 1..(MaxProjects + 1),
         \A q \in db'.projects : q.id >= 1,
         ClosingInv'
  PROVE  PromiseInv'
<1>1. ASSUME NEW d \in recoverable'  PROVE d = db'
  OBVIOUS
<1>2. \A key \in Retained(db') :
         key.project \in Closing(db') \/ key \in Retained(db')
  OBVIOUS
<1>3. \A d \in recoverable' :
         /\ FiniteRows(d)
         /\ Closing(d) \subseteq Closing(db')
         /\ Serving(d) \cup Closing(d) = Serving(db') \cup Closing(db')
         /\ \A key \in Retained(d) :
               key.project \in Closing(db') \/ key \in Retained(db')
         /\ Safe \/ Closing(d) # {} => Retained(db') \subseteq Retained(d)
         /\ Safe => \A e \in recoverable' :
               Serving(d) = Serving(e) => Retained(d) = Retained(e)
  BY <1>1, <1>2, Zenon
<1> QED  BY <1>3 DEF PromiseInv, ClosingInv

\* A step that commits nothing.
LEMMA PromiseSame ==
  ASSUME PromiseInv, UNCHANGED <<db, recoverable>>, ClosingInv'
  PROVE  PromiseInv'
BY DEF PromiseInv, ClosingInv

\* Two recoverable databases as PromiseInv wants them.
Agree(d, e) == Safe => (Serving(d) = Serving(e) => Retained(d) = Retained(e))
Follows(d, e) ==
    /\ FiniteRows(d)
    /\ Closing(d) \subseteq Closing(e)
    /\ Serving(d) \cup Closing(d) = Serving(e) \cup Closing(e)
    /\ \A key \in Retained(d) :
          key.project \in Closing(e) \/ key \in Retained(e)
    /\ Safe \/ Closing(d) # {} => Retained(e) \subseteq Retained(d)

\* PromiseInv, by its parts.
LEMMA PromiseIs ==
  PromiseInv <=> /\ db.next \in 1..(MaxProjects + 1)
                 /\ \A q \in db.projects : q.id >= 1
                 /\ ClosingInv
                 /\ \A d \in recoverable : Follows(d, db)
                 /\ \A d, e \in recoverable : Agree(d, e)
BY DEF PromiseInv, ClosingInv, Follows, Agree

LEMMA PromiseIsNext ==
  PromiseInv' <=> /\ db'.next \in 1..(MaxProjects + 1)
                  /\ \A q \in db'.projects : q.id >= 1
                  /\ ClosingInv'
                  /\ \A d \in recoverable' : Follows(d, db')
                  /\ \A d, e \in recoverable' : Agree(d, e)
BY DEF PromiseInv, ClosingInv, Follows, Agree

\* A batch that shows what the database showed before.
LEMMA PromiseSeen ==
  ASSUME PromiseInv, SyncedAgree, NEW e, Commit(e, FALSE), FiniteRows(e),
         e.next = db.next, e.projects = db.projects,
         Retained(e) = Retained(db), ClosingInv'
  PROVE  PromiseInv'
<1>1. Serving(e) = Serving(db) /\ Closing(e) = Closing(db)
  BY SameProjects
<1>2. db' = e /\ recoverable' = recoverable \cup {e}  BY DEF Commit
<1>3. ASSUME NEW d \in recoverable'
      PROVE  /\ Follows(d, e)
             /\ \E f \in recoverable : /\ Serving(d) = Serving(f)
                                       /\ Retained(d) = Retained(f)
  <2>1. CASE d = e
    <3>1. db \in recoverable  BY DEF SyncedAgree
    <3>2. Follows(e, e)  BY DEF Follows
    <3> QED  BY <1>1, <2>1, <3>1, <3>2
  <2>2. CASE d \in recoverable
    BY <1>1, <2>2, PromiseIs DEF Follows
  <2> QED  BY <1>2, <2>1, <2>2
<1>4. \A d, f \in recoverable' : Agree(d, f)
  BY <1>3, PromiseIs DEF Agree
<1> QED  BY <1>2, <1>3, <1>4, PromiseIs, PromiseIsNext

-----------------------------------------------------------------------------
(* What each batch changes of it.                                          *)

\* The stored rows of served projects decide what is retained.
LEMMA RetainedLess ==
  ASSUME NEW d, NEW e, Serving(e) \subseteq Serving(d),
         \A x \in Stored(e) : x.project \in Serving(e) => x \in Stored(d)
  PROVE  Retained(e) \subseteq Retained(d)
BY RetainedIs

\* A project created.
LEMMA CreatedShows ==
  ASSUME NEW d \in Database, Homed(d), Sound(d), NEW e, NEW row,
         row.id = d.next, row.status = "Active",
         e.records = d.records,
         e.manifests = d.manifests,
         e.projects = d.projects \cup {row}
  PROVE  /\ Serving(e) = Serving(d) \cup {d.next}
         /\ d.next \notin Serving(d)
         /\ Closing(e) = Closing(d)
         /\ Retained(e) = Retained(d)
<1>1. \A q \in d.projects : q.id # d.next
  BY DEF Homed, Database, ProjectRow
<1>2. Serving(e) = Serving(d) \cup {d.next} /\ Closing(e) = Closing(d)
  BY DEF Serving, Closing
<1>3. d.next \notin Serving(d)  BY <1>1 DEF Serving
<1>4. \A x \in Stored(d) : x.project # d.next
  <2>1. \A m \in d.manifests : \A x \in m.rows : x.project = m.project
    BY SoundIs DEF PartsHomed
  <2>2. \A x \in d.records \cup d.manifests : x.project # d.next
    BY <1>1 DEF Homed, Stages
  <2> QED  BY <2>1, <2>2 DEF Stored
<1>5. Stored(e) = Stored(d)  BY DEF Stored
<1>6. Retained(e) = Retained(d)
  <2>1. ASSUME NEW key  PROVE key \in Retained(e) <=> key \in Retained(d)
    BY <1>2, <1>4, <1>5, RetainedIs
  <2> QED  BY <2>1
<1> QED  BY <1>2, <1>3, <1>6

\* A project marked for removal.
LEMMA MarkedShows ==
  ASSUME NEW d, Sound(d), NEW q \in d.projects, NEW e, NEW mark,
         mark.id = q.id, mark.status = "Deleting",
         e.records = d.records,
         e.manifests = d.manifests,
         e.projects = (d.projects \ {q}) \cup {mark}
  PROVE  /\ \A r \in e.projects : \E s \in d.projects : r.id = s.id
         /\ Serving(e) = Serving(d) \ {q.id}
         /\ Closing(e) = Closing(d) \cup {q.id}
         /\ Retained(e) = {key \in Retained(d) : key.project # q.id}
<1>3. \A r, s \in d.projects : r.id = s.id => r = s  BY SoundIs
<1>4. \A r \in e.projects :
         r = mark \/ (r \in d.projects /\ r # q /\ r.id # q.id)
  BY <1>3
<1>5. \A r \in d.projects : r = q \/ (r \in e.projects /\ r.id # q.id)
  BY <1>3
<1>6. mark \in e.projects  OBVIOUS
<1>7. Serving(e) = Serving(d) \ {q.id}
  <2>1. \A r \in e.projects : r.status = "Active" =>
           r \in d.projects /\ r.id # q.id
    BY <1>4
  <2> QED  BY <1>5, <2>1 DEF Serving
<1>8. Closing(e) = Closing(d) \cup {q.id}
  <2>1. q.id \in Closing(e)  BY <1>6 DEF Closing
  <2>2. Closing(e) \subseteq Closing(d) \cup {q.id}
    BY <1>4 DEF Closing
  <2>3. Closing(d) \subseteq Closing(e) \cup {q.id}
    BY <1>5 DEF Closing
  <2> QED  BY <2>1, <2>2, <2>3
<1>9. Stored(e) = Stored(d)  BY DEF Stored
<1>10. Retained(e) = {key \in Retained(d) : key.project # q.id}
  <2>1. ASSUME NEW key
        PROVE  key \in Retained(e) <=>
                  key \in Retained(d) /\ key.project # q.id
    <3>1. \A x : Key(x).project = x.project  BY KeyFields
    <3>2. \A x \in Stored(d) : key = Key(x) => key.project = x.project
      BY <3>1
    <3>3. key \in Retained(e) <=>
             \E x \in Stored(d) : x.project \in Serving(e) /\ key = Key(x)
      BY <1>9, RetainedIs
    <3>4. key \in Retained(d) <=>
             \E x \in Stored(d) : x.project \in Serving(d) /\ key = Key(x)
      BY RetainedIs
    <3> QED  BY <1>7, <3>2, <3>3, <3>4
  <2> QED  BY <2>1
<1>11. \A r \in e.projects : \E s \in d.projects : r.id = s.id
  BY <1>4
<1> QED  BY <1>7, <1>8, <1>10, <1>11

\* A batch of records written.
LEMMA WrittenShows ==
  ASSUME NEW d \in Database, NEW S, NEW at, NEW T,
         \A r \in S : Active(d, ProjectOf[r])
  PROVE  LET e == Written(d, S, at, T)
         IN  /\ Serving(e) = Serving(d)
             /\ Closing(e) = Closing(d)
             /\ Retained(e) = Retained(d) \cup
                  {[project |-> ProjectOf[r], id |-> r] : r \in S}
<1> DEFINE e == Written(d, S, at, T)
           rows == NewRows(S, at)
           new == {[project |-> ProjectOf[r], id |-> r] : r \in S}
<1>1. /\ e.projects = d.projects
      /\ e.records = d.records \cup rows
      /\ e.manifests = d.manifests
  BY WrittenFields
<1>2. new = {Key(x) : x \in rows} /\ \A x \in rows : x.project \in Serving(d)
  <2>1. \A r \in S : ProjectOf[r] \in Serving(d)
    BY DEF Serving, Active
  <2>2. \A r \in S : Key([project |-> ProjectOf[r], id |-> r, at |-> at])
                       = [project |-> ProjectOf[r], id |-> r]
    BY DEF Key
  <2> DEFINE row(r) == [project |-> ProjectOf[r], id |-> r, at |-> at]
  <2>3. \A r : row(r).project = ProjectOf[r]  OBVIOUS
  <2>4. rows = {row(r) : r \in S}  BY DEF NewRows
  <2>5. \A r \in S : Key(row(r)) = [project |-> ProjectOf[r], id |-> r]
    BY <2>2
  <2> HIDE DEF row, rows
  <2>6. \A x \in rows : x.project \in Serving(d)
    BY <2>1, <2>3, <2>4
  <2>7. new = {Key(x) : x \in rows}  BY <2>4, <2>5
  <2> QED  BY <2>6, <2>7
<1> HIDE DEF e, rows, new
<1>3. Stored(e) = Stored(d) \cup rows  BY <1>1 DEF Stored
<1>4. Serving(e) = Serving(d) /\ Closing(e) = Closing(d)
  BY <1>1, SameProjects
<1>5. Retained(e) = Retained(d) \cup new
  <2>1. ASSUME NEW key
        PROVE  key \in Retained(e) <=> key \in Retained(d) \cup new
    <3>1. \A x \in rows : x.project \in Serving(e)  BY <1>2, <1>4
    <3>2. key \in new <=> \E x \in rows : key = Key(x)  BY <1>2
    <3> QED  BY <1>3, <1>4, <3>1, <3>2, RetainedIs
  <2> QED  BY <2>1
<1> QED  BY <1>4, <1>5 DEF e, new

\* Hot rows moved to a part.
LEMMA ArchivedShows ==
  ASSUME NEW d \in Database, NEW m, m.rows \subseteq d.records
  PROVE  LET e == Archived(d, m)
         IN  /\ Serving(e) = Serving(d)
             /\ Closing(e) = Closing(d)
             /\ Retained(e) = Retained(d)
<1> DEFINE e == Archived(d, m)
<1>1. /\ e.projects = d.projects
      /\ e.records = d.records \ m.rows
      /\ e.manifests = d.manifests \cup {m}
  BY ArchivedFields
<1> HIDE DEF e
<1>2. Stored(e) = Stored(d)  BY <1>1 DEF Stored
<1>3. Serving(e) = Serving(d) /\ Closing(e) = Closing(d)
  BY <1>1, SameProjects
<1>4. Retained(e) \subseteq Retained(d) /\ Retained(d) \subseteq Retained(e)
  BY <1>2, <1>3, RetainedLess
<1> QED  BY <1>3, <1>4 DEF e

\* Stored rows evicted.
LEMMA EvictedShows ==
  ASSUME NEW d, NEW e,
         e.records \subseteq d.records,
         e.manifests \subseteq d.manifests,
         e.projects = d.projects
  PROVE  /\ Serving(e) = Serving(d)
         /\ Closing(e) = Closing(d)
         /\ Retained(e) \subseteq Retained(d)
<1>1. Serving(e) = Serving(d) /\ Closing(e) = Closing(d)
  BY SameProjects
<1>2. Stored(e) \subseteq Stored(d)  BY DEF Stored
<1> QED  BY <1>1, <1>2, RetainedLess

\* Rows and parts of a project that is not served, cleared.
LEMMA ClearedShows ==
  ASSUME NEW d, Sound(d), NEW e, NEW gone,
         e.records \subseteq d.records,
         e.manifests \subseteq d.manifests,
         \A x \in d.records \ e.records : x.project = gone,
         \A m \in d.manifests \ e.manifests : m.project = gone,
         gone \notin Serving(d), Serving(e) = Serving(d)
  PROVE  Retained(e) = Retained(d)
<1>1. \A m \in d.manifests : \A x \in m.rows : x.project = m.project
  BY SoundIs DEF PartsHomed
<1>2. Stored(e) \subseteq Stored(d)  BY DEF Stored
<1>3. ASSUME NEW x \in Stored(d), x.project \in Serving(d)
      PROVE  x \in Stored(e)
  <2>1. x.project # gone  BY <1>3
  <2>2. CASE x \in d.records  BY <2>1, <2>2 DEF Stored
  <2>3. ASSUME NEW m \in d.manifests, x \in m.rows  PROVE x \in Stored(e)
    <3>1. m.project # gone  BY <1>1, <2>1, <2>3
    <3>2. m \in e.manifests  BY <3>1
    <3> QED  BY <2>3, <3>2 DEF Stored
  <2> QED  BY <2>2, <2>3 DEF Stored
<1>4. Retained(e) \subseteq Retained(d)  BY <1>2, RetainedLess
<1>5. Retained(d) \subseteq Retained(e)  BY <1>3, RetainedLess
<1> QED  BY <1>4, <1>5

\* A project dropped: its row and its parts.
LEMMA DroppedShows ==
  ASSUME NEW d, NEW gone, Sound(d), gone \notin Serving(d),
         NEW e,
         e.records = d.records,
         e.manifests = {m \in d.manifests : m.project # gone},
         e.projects = {q \in d.projects : q.id # gone}
  PROVE  /\ Serving(e) = Serving(d)
         /\ Closing(e) = Closing(d) \ {gone}
         /\ Retained(e) = Retained(d)
<1>1. Serving(e) = Serving(d) /\ Closing(e) = Closing(d) \ {gone}
  BY DEF Serving, Closing
<1>2. Retained(e) = Retained(d)  BY <1>1, ClearedShows
<1> QED  BY <1>1, <1>2

\* A batch leaves no fewer issues: it replaces rows one for one.
LEMMA WrittenCount ==
  ASSUME NEW d \in Database, Sound(d), FiniteRows(d), NEW R \in SUBSET Records,
         NEW at, NEW T \in Newest(Accepted(d, R))
  PROVE  Cardinality(d.issues)
            <= Cardinality(Written(d, Accepted(d, R), at, T).issues)
<1> DEFINE S == Accepted(d, R)
           e == Written(d, S, at, T)
           old == OldIssues(d, T)
           new == NewIssues(d, S, T)
           by(i) == CHOOSE t \in T : IsOf(t, i)
           f == [i \in d.issues |-> IF i \in old THEN Bumped(d, S, by(i))
                                    ELSE i]
<1>1. e.issues = (d.issues \ old) \cup new  BY WrittenFields
<1>2. IsFiniteSet(e.issues)  BY WrittenFinite, FiniteRowsIs
<1>3. ASSUME NEW i \in old
      PROVE  /\ by(i) \in T /\ IsOf(by(i), i)
             /\ i \in d.issues
             /\ Bumped(d, S, by(i)).project = i.project
             /\ Bumped(d, S, by(i)).issue = i.issue
             /\ Bumped(d, S, by(i)) \in new
             /\ i.project \in Serving(d)
  <2>1. i \in d.issues /\ \E t \in T : IsOf(t, i)  BY DEF OldIssues
  <2>2. by(i) \in T /\ IsOf(by(i), i)  BY <2>1
  <2> DEFINE t == by(i)
  <2> HIDE DEF t
  <2>3. t \in T /\ ProjectOf[t] = i.project /\ IssueOf[t] = i.issue
    BY <2>2 DEF IsOf, t
  <2>4. ProjectOf[t] \in Serving(d)
    BY <2>3 DEF Newest, Accepted, Active, Serving
  <2>5. Bumped(d, S, t) \in new  BY <2>3 DEF NewIssues
  <2>6. Bumped(d, S, t).project = i.project
        /\ Bumped(d, S, t).issue = i.issue
    BY <2>3, BumpedFields
  <2> QED  BY <2>1, <2>2, <2>3, <2>4, <2>5, <2>6 DEF t
<1>4. ASSUME NEW i \in old, NEW j \in d.issues,
             i.project = j.project, i.issue = j.issue
      PROVE  i = j
  <2>1. i \in Of(d.issues, i.project) /\ j \in Of(d.issues, i.project)
    BY <1>3, <1>4 DEF Of
  <2>2. IssuesFit(d, i.project)  BY <1>3, SoundIs DEF Fit
  <2> QED  BY <1>4, <2>1, <2>2 DEF IssuesFit
<1>5. \A i \in d.issues : f[i] \in e.issues
                          /\ f[i].project = i.project /\ f[i].issue = i.issue
  <2> SUFFICES ASSUME NEW i \in d.issues
               PROVE  f[i] \in e.issues
                      /\ f[i].project = i.project /\ f[i].issue = i.issue
    OBVIOUS
  <2>1. CASE i \in old
    <3>1. f[i] = Bumped(d, S, by(i))  BY <2>1
    <3> HIDE DEF f, by, e, S, old, new
    <3> QED  BY <1>1, <1>3, <2>1, <3>1
  <2>2. CASE i \notin old
    <3>1. f[i] = i  BY <2>2
    <3> HIDE DEF f, by, e, S, old, new
    <3> QED  BY <1>1, <2>2, <3>1
  <2> QED  BY <2>1, <2>2
<1>6. \A i, j \in d.issues : f[i] = f[j] => i = j
  <2> SUFFICES ASSUME NEW i \in d.issues, NEW j \in d.issues, f[i] = f[j]
               PROVE  i = j
    OBVIOUS
  <2>1. i.project = j.project /\ i.issue = j.issue  BY <1>5
  <2>2. CASE i \in old  BY <1>4, <2>1, <2>2
  <2>3. CASE j \in old  BY <1>4, <2>1, <2>3
  <2>4. CASE i \notin old /\ j \notin old  BY <2>4
  <2> QED  BY <2>2, <2>3, <2>4
<1>7. DOMAIN f = d.issues /\ f = [i \in d.issues |-> f[i]]  OBVIOUS
<1> HIDE DEF f, e, S
<1>8. f \in Injection(d.issues, e.issues)
  BY <1>5, <1>6, <1>7 DEF Injection, IsInjective
<1>9. Cardinality(d.issues) <= Cardinality(e.issues)
  BY <1>2, <1>8, FS_Injection
<1> QED  BY <1>9 DEF e, S

-----------------------------------------------------------------------------
(* Every step keeps PromiseInv.                                            *)

\* A fresh data directory serves and closes nothing.
LEMMA InitPromise == Init => PromiseInv
<1> SUFFICES ASSUME Init  PROVE PromiseInv
  OBVIOUS
<1>1. /\ db = EmptyDatabase /\ recoverable = {db} /\ pc = "resume"
      /\ db.projects = {} /\ db.next = 1
      /\ db.records = {} /\ db.issues = {}
      /\ db.cumulative_sums = {} /\ db.manifests = {}
  BY DEF Init, EmptyDatabase
<1>2. FiniteRows(db)  BY <1>1, FS_EmptySet, FiniteRowsIs
<1>3. Closing(db) = {}  BY <1>1 DEF Closing
<1>4. Follows(db, db) /\ Agree(db, db)  BY <1>2 DEF Follows, Agree
<1>5. ClosingInv  BY <1>1, <1>3 DEF ClosingInv
<1>6. db.next \in 1..(MaxProjects + 1)  BY <1>1, BoundAssumption
<1> QED  BY <1>1, <1>4, <1>5, <1>6, PromiseIs

\* A synced batch that leaves the project rows and the counter alone.
LEMMA PromiseSynced ==
  ASSUME PromiseInv, NEW e, Commit(e, TRUE), FiniteRows(e),
         e.next = db.next, e.projects = db.projects, ClosingInv'
  PROVE  PromiseInv'
<1>1. recoverable' = {db'} /\ db' = e  BY DEF Commit
<1> QED  BY <1>1, PromiseIs, PromiseAlone

\* Every step keeps the recoverable databases within one removal of the
\* visible one, as long as calls do not fail.
LEMMA NextPromise ==
  ASSUME ~CallsFail
  PROVE  TypeOK /\ RowsInv /\ ConsistencyInv /\ PromiseInv /\ [Next]_vars
           => PromiseInv'
<1> SUFFICES ASSUME TypeOK, RowsInv, ConsistencyInv, PromiseInv, [Next]_vars
             PROVE  PromiseInv'
  OBVIOUS
<1> USE BoundAssumption
<1>0. /\ SyncedAgree /\ Sound(db) /\ db \in Database /\ Homed(db)
      /\ db \in recoverable
  BY DEF ConsistencyInv, RowsInv, SyncedAgree, NoOrphanKeys, Homed, TypeOK
<1>a. ClosingInv /\ FiniteRows(db)  BY <1>0, PromiseIs DEF Follows
<1>b. pc \notin {"mark", "clear", "drop", "resume"} => Closing(db) = {}
  BY <1>a DEF ClosingInv
<1>1. ASSUME NEW x \in Cold, NEW p \in Parts, WriteTemporary(x, p)
      PROVE  PromiseInv'
  BY <1>1, <1>a, PromiseSame, ClosingQuiet DEF WriteTemporary
<1>2. CASE RenameTemporary
  BY <1>2, <1>a, PromiseSame, ClosingQuiet DEF RenameTemporary
<1>3. CASE PublishManifest
  <2>1. part.rows \subseteq db.records
    BY <1>3 DEF PublishManifest, ConsistencyInv
  <2>2. FiniteRows(Archived(db, part))
    BY <1>0, <1>a, <2>1, ArchivedFinite
  <2>3. Commit(Archived(db, part), TRUE) /\ pc = "publish"
        /\ pc' = "archive"
    BY <1>3 DEF PublishManifest
  <2>4. Archived(db, part).next = db.next
        /\ Archived(db, part).projects = db.projects
    BY <1>0, ArchivedFields
  <2>5. Closing(db)' = Closing(db)
    BY <2>3, <2>4, SameProjects DEF Commit
  <2>6. ClosingInv'  BY <1>a, <2>3, <2>5, ClosingQuiet
  <2> QED  BY <2>2, <2>3, <2>4, <2>6, PromiseSynced
<1>4. CASE ArchiveDone
  BY <1>4, <1>a, PromiseSame, ClosingQuiet DEF ArchiveDone, Release
<1>5. ASSUME NEW m \in OldestPartitions, EvictPartition(m)
      PROVE  PromiseInv'
  <2> DEFINE e == WithoutPartition(db, m)
  <2>1. /\ e.records = db.records
        /\ e.issues = Decremented(db.issues, m.rows)
        /\ e.cumulative_sums = db.cumulative_sums
        /\ e.manifests \subseteq db.manifests
        /\ e.projects = db.projects
        /\ e.next = db.next
    BY <1>0, WithoutPartitionFields
  <2>2. Commit(e, TRUE) /\ pc = "enforce" /\ pc' = "unlink"
    BY <1>5 DEF EvictPartition, OverTarget
  <2> HIDE DEF e
  <2>3. FiniteRows(e)  BY <1>0, <1>a, <2>1, EvictedFinite
  <2>4. Closing(db)' = Closing(db)
    BY <2>1, <2>2, SameProjects DEF Commit
  <2>5. ClosingInv'  BY <1>a, <2>2, <2>4, ClosingQuiet
  <2> QED  BY <2>1, <2>2, <2>3, <2>5, PromiseSynced
<1>6. ASSUME NEW x \in db.records, EvictHot(x)
      PROVE  PromiseInv'
  <2> DEFINE e == WithoutHot(db, x)
  <2>1. /\ e.records = db.records \ {x}
        /\ e.issues = Decremented(db.issues, {x})
        /\ e.cumulative_sums = db.cumulative_sums
        /\ e.manifests = db.manifests
        /\ e.projects = db.projects
        /\ e.next = db.next
    BY <1>0, WithoutHotFields
  <2>2. Commit(e, TRUE) /\ pc = "enforce" /\ pc' = "enforce"
    BY <1>6 DEF EvictHot, OverTarget
  <2> HIDE DEF e
  <2>3. FiniteRows(e)  BY <1>0, <1>a, <2>1, EvictedFinite
  <2>4. Closing(db)' = Closing(db)
    BY <2>1, <2>2, SameProjects DEF Commit
  <2>5. ClosingInv'  BY <1>a, <2>2, <2>4, ClosingQuiet
  <2> QED  BY <2>1, <2>2, <2>3, <2>5, PromiseSynced
<1>7. ASSUME NEW i \in db.issues, EvictIssue(i)
      PROVE  PromiseInv'
  <2> DEFINE e == [db EXCEPT !.issues = @ \ {i},
                             !.record_indexes = @ \ {IssueIndex(i)}]
  <2>1. /\ e.records = db.records
        /\ e.issues \subseteq db.issues
        /\ e.cumulative_sums = db.cumulative_sums
        /\ e.manifests = db.manifests
        /\ e.projects = db.projects
        /\ e.next = db.next
    BY <1>0 DEF Database
  <2>2. Commit(e, TRUE) /\ pc = "enforce" /\ pc' = "enforce"
    BY <1>7 DEF EvictIssue, OverTarget
  <2> HIDE DEF e
  <2>3. FiniteRows(e)  BY <1>a, <2>1, FewerRows
  <2>4. Closing(db)' = Closing(db)
    BY <2>1, <2>2, SameProjects DEF Commit
  <2>5. ClosingInv'  BY <1>a, <2>2, <2>4, ClosingQuiet
  <2> QED  BY <2>1, <2>2, <2>3, <2>5, PromiseSynced
<1>8. CASE EnforceDone
  BY <1>8, <1>a, PromiseSame, ClosingQuiet DEF EnforceDone, Release
<1>9. ASSUME NEW chunk \in Chunks, ClearChunk(chunk)
      PROVE  PromiseInv'
  <2> DEFINE e == [db EXCEPT ![stage] = @ \ chunk]
  <2>1. chunk \subseteq Uncleared  BY DEF Chunks
  <2>2. /\ e.records \subseteq db.records
        /\ e.issues \subseteq db.issues
        /\ e.cumulative_sums \subseteq db.cumulative_sums
        /\ e.manifests = db.manifests
        /\ e.projects = db.projects
        /\ e.next = db.next
        /\ \A x \in db.records \ e.records : x.project = removing
    BY <1>0, <2>1 DEF TypeOK, Database, Stages, Uncleared
  <2>3. pc = "clear" /\ Commit(e, FALSE) /\ pc' = pc /\ removing' = removing
    BY <1>9 DEF ClearChunk, Locals
  <2> HIDE DEF e
  <2>4. removing \notin Serving(db)  BY <2>3 DEF ConsistencyInv
  <2>5. Retained(e) = Retained(db)
    BY <1>0, <2>2, <2>4, ClearedShows, SameProjects
  <2>6. FiniteRows(e)  BY <1>a, <2>2, FewerRows
  <2>7. Closing(db)' = Closing(db)
    BY <2>2, <2>3, SameProjects DEF Commit
  <2>8. ClosingInv'  BY <1>a, <2>3, <2>7 DEF ClosingInv
  <2> QED  BY <1>0, <2>2, <2>3, <2>5, <2>6, <2>8, PromiseSeen
<1>10. CASE ClearNext
  <2>1. pc = "clear" /\ pc' \in {"clear", "drop"}
        /\ UNCHANGED <<db, recoverable, removing>>
    BY <1>10 DEF ClearNext
  <2> QED  BY <1>a, <2>1, PromiseSame DEF ClosingInv
<1>11. CASE DropProject
  <2> DEFINE e == [db EXCEPT
                     !.manifests = @ \ {m \in db.manifests :
                                          m.project = removing},
                     !.projects = {q \in @ : q.id # removing}]
  <2>1. pc = "drop" /\ Commit(e, TRUE) /\ pc' = "unlink"
    BY <1>11 DEF DropProject
  <2>2. removing \notin Serving(db)  BY <2>1 DEF ConsistencyInv
  <2>3. /\ e.records = db.records
        /\ e.issues = db.issues
        /\ e.cumulative_sums = db.cumulative_sums
        /\ e.manifests = {m \in db.manifests : m.project # removing}
        /\ e.next = db.next
        /\ e.projects = {q \in db.projects : q.id # removing}
    BY <1>0 DEF Database
  <2> HIDE DEF e
  <2>9. Closing(e) = Closing(db) \ {removing}
    BY <1>0, <2>2, <2>3, DroppedShows
  <2>4. FiniteRows(e)  BY <1>a, <2>3, FewerRows
  <2>5. db' = e /\ recoverable' = {db'}  BY <2>1 DEF Commit
  <2>6. Closing(db)' = {}
    BY <1>a, <2>1, <2>5, <2>9 DEF ClosingInv
  <2>7. ClosingInv'  BY <2>1, <2>6 DEF ClosingInv
  <2>8. db'.next \in 1..(MaxProjects + 1)
        /\ \A q \in db'.projects : q.id >= 1
    BY <2>3, <2>5, PromiseIs
  <2> QED  BY <2>4, <2>5, <2>7, <2>8, PromiseAlone
<1>12. ASSUME NEW p \in doomed, Unlink(p)
       PROVE  PromiseInv'
  BY <1>12, <1>a, PromiseSame, ClosingQuiet DEF Unlink
<1>13. CASE UnlinkDone
  BY <1>13, <1>a, PromiseSame, ClosingQuiet DEF UnlinkDone
<1>14. ASSUME NEW q \in Removable({"Deleting"}), ResumeDeletion(q)
       PROVE  PromiseInv'
  <2>1. q.id \in Closing(db)  BY DEF Removable, Closing
  <2>2. Closing(db) = {q.id}  BY <1>a, <2>1 DEF ClosingInv
  <2> QED  BY <1>14, <1>a, <2>2, PromiseSame DEF ResumeDeletion, ClosingInv
<1>15. ASSUME NEW f \in Strays, CleanUp(f)
       PROVE  PromiseInv'
  BY <1>15, <1>a, PromiseSame DEF CleanUp, ClosingInv, Locals
<1>16. CASE OpenDone
  <2>1. Closing(db) = {}  BY <1>16 DEF OpenDone, Removable, Closing
  <2> QED  BY <1>16, <1>a, <2>1, PromiseSame DEF OpenDone, Release, ClosingInv
<1>17. ASSUME NEW name \in Names, AddProject(name)
       PROVE  PromiseInv'
  <2> DEFINE row == [id |-> db.next, name |-> name, status |-> "Active"]
             e == [db EXCEPT !.projects = @ \cup {row}, !.next = @ + 1]
  <2>0. row.id = db.next /\ row.status = "Active"  OBVIOUS
  <2>1. /\ e.records = db.records
        /\ e.issues = db.issues
        /\ e.cumulative_sums = db.cumulative_sums
        /\ e.manifests = db.manifests
        /\ e.next = db.next + 1
        /\ e.projects = db.projects \cup {row}
    BY <1>0 DEF Database
  <2>2. Commit(e, TRUE) /\ db.next <= MaxProjects /\ pc = "idle" /\ pc' = pc
    BY <1>17 DEF AddProject, Free
  <2> HIDE DEF row, e
  <2>8. Closing(e) = Closing(db)
    BY <1>0, <2>0, <2>1, CreatedShows
  <2>3. FiniteRows(e)  BY <1>a, <2>1, FewerRows
  <2>4. db' = e /\ recoverable' = {db'}  BY <2>2 DEF Commit
  <2>5. ClosingInv'  BY <1>a, <2>2, <2>4, <2>8, ClosingQuiet
  <2>6. db.next \in 1..(MaxProjects + 1)
        /\ \A q \in db.projects : q.id >= 1
    BY PromiseIs
  <2>7. db'.next \in 1..(MaxProjects + 1)
        /\ \A q \in db'.projects : q.id >= 1
    BY <1>0, <2>0, <2>1, <2>2, <2>4, <2>6 DEF Database
  <2> QED  BY <2>3, <2>4, <2>5, <2>7, PromiseAlone
<1>18. ASSUME NEW S \in SUBSET Records, NEW at \in Clock, WriteRecords(S, at)
       PROVE  PromiseInv'
  <2>1. PICK T \in Newest(Accepted(db, S)) :
           Commit(Written(db, Accepted(db, S), at, T), Safe)
    BY <1>18 DEF WriteRecords
  <2> DEFINE e == Written(db, Accepted(db, S), at, T)
  <2>2. pc = "idle" /\ pc' = pc  BY <1>18 DEF WriteRecords, Free
  <2>3. FiniteRows(e)  BY <1>0, <1>a, WrittenFinite
  <2>4. e.next = db.next /\ e.projects = db.projects
    BY <1>0, WrittenFields
  <2>5. Retained(db) \subseteq Retained(e)
    <3>1. \A r \in Accepted(db, S) : Active(db, ProjectOf[r])
      BY DEF Accepted
    <3> QED  BY <1>0, <3>1, WrittenShows
  <2>6. Commit(e, Safe)  BY <2>1
  <2> HIDE DEF e
  <2>7. Serving(e) = Serving(db) /\ Closing(e) = Closing(db)
    BY <2>4, SameProjects
  <2>8. ClosingInv'
    BY <1>a, <2>2, <2>6, <2>7, ClosingQuiet DEF Commit
  <2>9. CASE Safe
    BY <2>3, <2>4, <2>6, <2>8, <2>9, PromiseSynced DEF Commit
  <2>10. CASE ~Safe
    <3>1. Closing(db) = {}  BY <1>b, <2>2
    <3>2. db' = e /\ recoverable' = recoverable \cup {e}
      BY <2>6, <2>10 DEF Commit
    <3>3. ASSUME NEW d \in recoverable'  PROVE Follows(d, e)
      <4>1. CASE d = e
        <5>1. Follows(e, e)  BY <2>3 DEF Follows
        <5> QED  BY <4>1, <5>1
      <4>2. CASE d \in recoverable
        <5>1. Follows(d, db)  BY <4>2, PromiseIs
        <5> QED  BY <2>5, <2>7, <2>10, <3>1, <5>1 DEF Follows
      <4> QED  BY <3>2, <4>1, <4>2
    <3>4. \A d, f \in recoverable' : Agree(d, f)  BY <2>10 DEF Agree
    <3> QED  BY <2>4, <2>8, <3>2, <3>3, <3>4, PromiseIs, PromiseIsNext
  <2> QED  BY <2>9, <2>10
<1>19. ASSUME NEW time \in Clock, ArchiveBefore(time + 1)
       PROVE  PromiseInv'
  BY <1>19, <1>a, PromiseSame, ClosingQuiet DEF ArchiveBefore, Free
<1>20. CASE EnforceStorageTarget
  BY <1>20, <1>a, PromiseSame, ClosingQuiet DEF EnforceStorageTarget, Free
<1>21. ASSUME NEW q \in db.projects, RemoveProject(q)
       PROVE  PromiseInv'
  <2> DEFINE mark == [q EXCEPT !.status = "Deleting"]
             e == [db EXCEPT !.projects = (@ \ {q}) \cup {mark}]
  <2>0. mark.id = q.id /\ mark.status = "Deleting"
    BY <1>0 DEF Database, ProjectRow
  <2>1. /\ e.records = db.records
        /\ e.issues = db.issues
        /\ e.cumulative_sums = db.cumulative_sums
        /\ e.manifests = db.manifests
        /\ e.next = db.next
        /\ e.projects = (db.projects \ {q}) \cup {mark}
    BY <1>0 DEF Database
  <2>2. Commit(e, FALSE) /\ pc = "idle" /\ pc' = "mark" /\ removing' = q.id
    BY <1>21 DEF RemoveProject, Free
  <2> HIDE DEF mark, e
  <2>12. /\ \A r \in e.projects : \E s \in db.projects : r.id = s.id
         /\ Serving(e) = Serving(db) \ {q.id}
         /\ Closing(e) = Closing(db) \cup {q.id}
         /\ Retained(e) = {key \in Retained(db) : key.project # q.id}
    BY <1>0, <2>0, <2>1, MarkedShows
  <2>3. Closing(db) = {}  BY <1>b, <2>2
  <2>4. q.id \in Serving(db)
    BY <1>0, <2>3, OneStatus
  <2>5. FiniteRows(e)  BY <1>a, <2>1, FewerRows
  <2>6. db' = e /\ recoverable' = recoverable \cup {e}
    BY <2>2 DEF Commit
  <2>7. ClosingInv'  BY <2>12, <2>2, <2>3, <2>6 DEF ClosingInv
  <2>8. ASSUME NEW d \in recoverable
        PROVE  /\ Follows(d, e)
               /\ Serving(d) = Serving(db)
    <3>1. Follows(d, db)  BY <2>8, PromiseIs
    <3>2. Closing(d) = {} /\ Serving(d) = Serving(db)
      BY <2>3, <3>1 DEF Follows
    <3>3. \A key \in Retained(d) : key.project \in Closing(e)
                                   \/ key \in Retained(e)
      BY <2>12, <2>3, <3>1 DEF Follows
    <3> QED  BY <2>12, <2>3, <2>4, <3>1, <3>2, <3>3 DEF Follows
  <2>9. \A d \in recoverable' : Follows(d, e)
    <3>1. Follows(e, e)  BY <2>5 DEF Follows
    <3> QED  BY <2>6, <2>8, <3>1
  <2>10. \A d, f \in recoverable' : Agree(d, f)
    <3>1. \A d \in recoverable : Serving(d) # Serving(e)
      BY <2>12, <2>4, <2>8
    <3>2. \A d, f \in recoverable : Agree(d, f)  BY PromiseIs
    <3> QED  BY <2>6, <3>1, <3>2 DEF Agree
  <2>11. db'.next \in 1..(MaxProjects + 1)
         /\ \A r \in db'.projects : r.id >= 1
    BY <2>1, <2>6, <2>12, PromiseIs
  <2> QED  BY <2>6, <2>7, <2>9, <2>10, <2>11, PromiseIsNext
<1>22. CASE Persist \/ SyncMark
  <2>1. Commit(db, TRUE)  BY <1>22 DEF Persist, SyncMark
  <2>2. db' = db  BY <2>1 DEF Commit
  <2>3. ClosingInv'
    BY <1>22, <1>a, <2>2 DEF Persist, SyncMark, ClosingInv, Locals
  <2> QED  BY <1>a, <2>1, <2>3, PromiseSynced
<1>23. CASE JobFails
  BY <1>23 DEF JobFails
<1>24. CASE ProcessCrash
  BY <1>24, <1>a, PromiseSame DEF ProcessCrash, Restart, ClosingInv
<1>25. ASSUME NEW d \in recoverable, PowerLoss(d)
       PROVE  PromiseInv'
  <2>1. db' = d /\ recoverable' = {db'} /\ pc' = "resume"
    BY <1>25 DEF PowerLoss, Restart
  <2>2. Follows(d, db) /\ d \in Database /\ Sound(d) /\ d.next = db.next
    BY <1>0, PromiseIs DEF TypeOK, ConsistencyInv, SyncedAgree
  <2>3. FiniteRows(d) /\ Closing(d) \subseteq Closing(db)
    BY <2>2 DEF Follows
  <2>4. ClosingInv'  BY <1>a, <2>1, <2>3 DEF ClosingInv
  <2>5. \A q \in d.projects : q.id >= 1
    <3>1. \A p \in Serving(db) \cup Closing(db) : p >= 1
      BY PromiseIs DEF Serving, Closing
    <3>2. \A q \in d.projects : q.id \in Serving(db) \cup Closing(db)
      BY <2>2, OneStatus DEF Follows
    <3> QED  BY <3>1, <3>2
  <2>6. db'.next \in 1..(MaxProjects + 1)
    BY <2>1, <2>2, PromiseIs
  <2> QED  BY <2>1, <2>3, <2>4, <2>5, <2>6, PromiseAlone
<1>26. CASE UNCHANGED vars
  BY <1>26, <1>a, PromiseSame DEF vars, ClosingInv
<1> QED
  BY <1>1, <1>2, <1>3, <1>4, <1>5, <1>6, <1>7, <1>8, <1>9, <1>10, <1>11,
     <1>12, <1>13, <1>14, <1>15, <1>16, <1>17, <1>18, <1>19, <1>20, <1>21,
     <1>22, <1>23, <1>24, <1>25, <1>26
  DEF Next, Job, Archiver, Enforcer, Remover, Opener, Calls, Crash, Removable

-----------------------------------------------------------------------------
(* Every step is one of Retention's.                                       *)

LiveOf(R) == UNION {Serving(d) : d \in R}
KeptOf(R) == UNION {Retained(d) : d \in R}
Live == LiveOf(recoverable)
Kept == KeptOf(recoverable)

\* The steps of Retention, in the terms of the store.
LEMMA AsCreate ==
  ASSUME NEW p \in 1..MaxProjects, p \notin Live, Live' = Live \cup {p},
         Kept' = Kept, Logical(db)' = Logical(db)
  PROVE  Promise!Next
BY DEF Promise!Next, Promise!Create, Live, Kept, LiveOf, KeptOf

LEMMA AsAccept ==
  ASSUME NEW new, new # {},
         new \subseteq [project : 1..MaxProjects, id : Records] \ Kept,
         \A key \in new : key.project \in Live,
         Live' = Live, Kept' = Kept \cup new, Logical(db)' > Logical(db)
  PROVE  Promise!Next
BY DEF Promise!Next, Promise!Accept, Live, Kept, LiveOf, KeptOf

LEMMA AsEvict ==
  ASSUME Logical(db) > Target, Live' = Live, Kept' \subseteq Kept,
         Logical(db)' < Logical(db)
  PROVE  Promise!Next
BY DEF Promise!Next, Promise!Evict, Live, Kept, LiveOf, KeptOf

LEMMA AsClose ==
  ASSUME NEW p \in Live, Live' = Live \ {p},
         Kept' = {key \in Kept : key.project # p}, Logical(db)' \in Nat
  PROVE  Promise!Next
BY DEF Promise!Next, Promise!Close, Live, Kept, LiveOf, KeptOf

LEMMA AsReclaim ==
  ASSUME Live' = Live, Kept' = Kept, Logical(db)' \in Nat
  PROVE  Promise!Next
BY DEF Promise!Next, Promise!Reclaim, Live, Kept, LiveOf, KeptOf

LEMMA AsLose ==
  ASSUME ~Safe, Live' = Live, Kept' \subseteq Kept, Logical(db)' \in Nat
  PROVE  Promise!Next
BY DEF Promise!Next, Promise!Lose, Live, Kept, LiveOf, KeptOf

\* While no project is closing, the visible database shows all there is.
LEMMA Settled ==
  ASSUME NEW R, NEW e \in R, Closing(e) = {}, \A d \in R : Follows(d, e)
  PROVE  LiveOf(R) = Serving(e) /\ KeptOf(R) = Retained(e)
<1>1. \A d \in R : Serving(d) = Serving(e) /\ Retained(d) \subseteq Retained(e)
  BY DEF Follows
<1> QED  BY <1>1 DEF LiveOf, KeptOf

\* While one is, only its own rows may show in other databases.
LEMMA Around ==
  ASSUME NEW R, NEW e \in R, NEW p, Closing(e) = {p}, p \notin Serving(e),
         \A d \in R : Follows(d, e)
  PROVE  /\ Serving(e) = LiveOf(R) \ {p}
         /\ Retained(e) = {key \in KeptOf(R) : key.project # p}
         /\ p \notin LiveOf(R) => KeptOf(R) = Retained(e)
<1>1. \A d \in R : Serving(d) \subseteq Serving(e) \cup {p}
  BY DEF Follows
<1>2. Serving(e) = LiveOf(R) \ {p}  BY <1>1 DEF LiveOf
<1>3. \A d \in R : \A key \in Retained(d) :
         key.project = p \/ key \in Retained(e)
  BY DEF Follows
<1>4. \A key \in Retained(e) : key.project # p
  BY RetainedServed
<1>5. Retained(e) = {key \in KeptOf(R) : key.project # p}
  BY <1>3, <1>4 DEF KeptOf
<1>6. ASSUME p \notin LiveOf(R)  PROVE KeptOf(R) = Retained(e)
  <2>1. \A d \in R : \A key \in Retained(d) : key.project \in Serving(d)
    BY RetainedServed
  <2>2. \A d \in R : \A key \in Retained(d) : key.project # p
    BY <1>6, <2>1 DEF LiveOf
  <2> QED  BY <1>3, <2>2 DEF KeptOf
<1> QED  BY <1>2, <1>5, <1>6

\* One database shows what it shows.
LEMMA AloneShows ==
  ASSUME NEW e
  PROVE  LiveOf({e}) = Serving(e) /\ KeptOf({e}) = Retained(e)
BY DEF LiveOf, KeptOf

\* A synced batch that shows what the visible database showed closes the
\* project in removal, if another database still served it.
LEMMA SettlingStep ==
  ASSUME SyncedAgree, Sound(db), db \in Database, PromiseInv,
         recoverable' = {db'}, FiniteRows(db'),
         Serving(db') = Serving(db), Retained(db') = Retained(db)
  PROVE  Promise!Next
<1>1. db \in recoverable /\ \A d \in recoverable : Follows(d, db)
  BY PromiseIs DEF SyncedAgree
<1>2. Live' = Serving(db) /\ Kept' = Retained(db)
  BY AloneShows DEF Live, Kept
<1>3. Logical(db)' \in Nat  BY LogicalCounts
<1>4. CASE Closing(db) = {}
  BY <1>1, <1>2, <1>3, <1>4, Settled, AsReclaim DEF Live, Kept
<1>5. CASE Closing(db) # {}
  <2>1. PICK p : Closing(db) = {p}
    BY <1>5, PromiseIs DEF ClosingInv
  <2>2. p \notin Serving(db)  BY <2>1, OneStatus
  <2>3. /\ Serving(db) = Live \ {p}
        /\ Retained(db) = {key \in Kept : key.project # p}
        /\ p \notin Live => Kept = Retained(db)
    BY <1>1, <2>1, <2>2, Around DEF Live, Kept
  <2>4. CASE p \in Live  BY <1>2, <1>3, <2>3, <2>4, AsClose
  <2>5. CASE p \notin Live
    <3>1. Live' = Live /\ Kept' = Kept  BY <1>2, <2>3, <2>5
    <3> QED  BY <1>3, <3>1, AsReclaim
  <2> QED  BY <2>4, <2>5
<1> QED  BY <1>4, <1>5

\* A step between two states in which no project is closing.
LEMMA SettledStep ==
  ASSUME SyncedAgree, SyncedAgree', PromiseInv, PromiseInv',
         Closing(db) = {}, Closing(db') = {}
  PROVE  /\ Live = Serving(db) /\ Live' = Serving(db')
         /\ Kept = Retained(db) /\ Kept' = Retained(db')
<1>1. db \in recoverable /\ db' \in recoverable'
  BY DEF SyncedAgree
<1>2. Live = Serving(db) /\ Kept = Retained(db)
  BY <1>1, PromiseIs, Settled DEF Live, Kept
<1>3. \A d \in recoverable' : Follows(d, db')  BY PromiseIsNext
<1>4. LiveOf(recoverable') = Serving(db')
      /\ KeptOf(recoverable') = Retained(db')
  BY <1>1, <1>3, Settled
<1> QED  BY <1>2, <1>4 DEF Live, Kept

\* Losing power takes the store to one of the recoverable databases.
LEMMA PowerLossStep ==
  ASSUME TypeOK, SyncedAgree, AllSound, PromiseInv,
         NEW d \in recoverable, PowerLoss(d)
  PROVE  Promise!Next
<1>0. /\ db \in recoverable /\ Sound(db) /\ db \in Database
      /\ Sound(d) /\ d \in Database
      /\ \A e \in recoverable : Follows(e, db)
      /\ \A e, f \in recoverable : Agree(e, f)
  BY PromiseIs DEF SyncedAgree, AllSound, TypeOK
<1>1. db' = d /\ recoverable' = {db'}  BY DEF PowerLoss
<1>2. Live' = Serving(d) /\ Kept' = Retained(d)
  BY <1>1, AloneShows DEF Live, Kept
<1>3. FiniteRows(d) /\ Follows(d, db)  BY <1>0 DEF Follows
<1>4. Logical(db)' \in Nat  BY <1>1, <1>3, LogicalCounts
<1>5. ASSUME NEW e \in recoverable, Closing(e) = Closing(db)
      PROVE  Serving(e) = Serving(db)
  <2>1. Serving(e) \cap Closing(e) = {} /\ Serving(db) \cap Closing(db) = {}
    BY <1>0, OneStatus DEF AllSound, TypeOK
  <2>2. Serving(e) \cup Closing(e) = Serving(db) \cup Closing(db)
    BY <1>0 DEF Follows
  <2> QED  BY <1>5, <2>1, <2>2
<1>6. CASE Closing(db) = {}
  <2>1. Live = Serving(db) /\ Kept = Retained(db)
    BY <1>0, <1>6, Settled DEF Live, Kept
  <2>2. Serving(d) = Serving(db) /\ Retained(d) \subseteq Retained(db)
    BY <1>3, <1>6 DEF Follows
  <2>3. Safe => Retained(d) = Retained(db)  BY <1>0, <2>2 DEF Agree
  <2> QED  BY <1>2, <1>4, <2>1, <2>2, <2>3, AsReclaim, AsLose
<1>7. CASE Closing(db) # {} /\ Closing(d) = Closing(db)
  <2>1. Serving(d) = Serving(db)  BY <1>5, <1>7
  <2>2. Retained(db) \subseteq Retained(d)  BY <1>3, <1>7 DEF Follows
  <2>3. Retained(d) \subseteq Retained(db)
    <3>1. \A key \in Retained(d) : key.project \notin Closing(db)
      BY <1>0, <2>1, RetainedServed, OneStatus
    <3> QED  BY <1>3, <3>1 DEF Follows
  <2> QED  BY <1>0, <1>1, <1>3, <2>1, <2>2, <2>3, SettlingStep
<1>8. CASE Closing(db) # {} /\ Closing(d) # Closing(db)
  <2>1. Closing(d) = {} /\ Serving(d) = Serving(db) \cup Closing(db)
    BY <1>3, <1>8, PromiseIs DEF Follows, ClosingInv
  <2>2. \A e \in recoverable : Serving(e) \subseteq Serving(d)
    BY <1>0, <2>1 DEF Follows
  <2>3. Live = Serving(d)  BY <2>2 DEF Live, LiveOf
  <2>4. Retained(d) \subseteq Kept  BY DEF Kept, KeptOf
  <2>5. ASSUME Safe  PROVE Kept = Retained(d)
    <3>1. ASSUME NEW e \in recoverable  PROVE Retained(e) \subseteq Retained(d)
      <4>1. CASE Closing(e) = {}
        <5>1. Serving(e) = Serving(d)  BY <1>0, <2>1, <4>1 DEF Follows
        <5> QED  BY <1>0, <2>5, <5>1 DEF Agree
      <4>2. CASE Closing(e) # {}
        <5>1. Closing(e) = Closing(db)
          BY <1>0, <4>2, PromiseIs DEF Follows, ClosingInv
        <5>2. Retained(e) = Retained(db)
          BY <1>0, <1>5, <2>5, <5>1 DEF Agree
        <5>3. Retained(db) \subseteq Retained(d)
          BY <1>3, <2>5 DEF Follows
        <5> QED  BY <5>2, <5>3
      <4> QED  BY <4>1, <4>2
    <3> QED  BY <2>4, <3>1 DEF Kept, KeptOf
  <2> QED  BY <1>2, <1>4, <2>3, <2>4, <2>5, AsReclaim, AsLose
<1> QED  BY <1>6, <1>7, <1>8

\* What a batch accepts is not stored yet, and it is filed under projects
\* being served.
LEMMA AcceptedIsNew ==
  ASSUME NEW d, Sound(d), NEW R, NEW r \in Accepted(d, R)
  PROVE  /\ [project |-> ProjectOf[r], id |-> r] \notin Retained(d)
         /\ ProjectOf[r] \in Serving(d)
<1> DEFINE p == ProjectOf[r]
           key == [project |-> p, id |-> r]
<1>1. p \in Serving(d) /\ key \notin d.source_ids
  BY DEF Accepted, Active, Serving
<1>2. Of(d.source_ids, p) = {Key(x) : x \in Of(Stored(d), p)}
  BY <1>1, SoundIs DEF Fit, KeysOnce
<1>3. ASSUME NEW x \in Stored(d), key = Key(x)  PROVE FALSE
  <2>1. x.project = p  BY <1>3 DEF Key
  <2>2. key \in Of(d.source_ids, p)  BY <1>2, <1>3, <2>1 DEF Of
  <2> QED  BY <1>1, <2>2 DEF Of
<1>4. key \notin Retained(d)  BY <1>3, RetainedIs
<1> QED  BY <1>1, <1>4

\* Writing a batch accepts its new records, or shows nothing new.
LEMMA WriteStep ==
  ASSUME SyncedAgree, SyncedAgree', Sound(db), db \in Database, Homed(db),
         PromiseInv, PromiseInv', Closing(db) = {},
         NEW R \in SUBSET Records, NEW at, NEW T \in Newest(Accepted(db, R)),
         db' = Written(db, Accepted(db, R), at, T)
  PROVE  Promise!Next
<1> DEFINE S == Accepted(db, R)
           e == Written(db, S, at, T)
           new == {[project |-> ProjectOf[r], id |-> r] : r \in S}
<1>0. /\ FiniteRows(db)
      /\ db.next \in 1..(MaxProjects + 1)
      /\ \A q \in db.projects : q.id >= 1
  BY PromiseIs DEF SyncedAgree, Follows
<1>1. /\ Serving(e) = Serving(db)
      /\ Closing(e) = Closing(db)
      /\ Retained(e) = Retained(db) \cup new
  <2>1. \A r \in S : Active(db, ProjectOf[r])  BY DEF Accepted
  <2> QED  BY <2>1, WrittenShows
<1>2. /\ e.records = db.records \cup NewRows(S, at)
      /\ e.cumulative_sums = db.cumulative_sums \cup NewSums(S)
      /\ e.manifests = db.manifests
  BY WrittenFields
<1>3. FiniteRows(e)  BY <1>0, WrittenFinite
<1>4. Cardinality(db.issues) <= Cardinality(e.issues)
  BY <1>0, WrittenCount
<1>5. db' = e  OBVIOUS
<1>6. S \subseteq Records  BY DEF Accepted
<1>7. \A r \in S : /\ [project |-> ProjectOf[r], id |-> r] \notin Retained(db)
                   /\ ProjectOf[r] \in Serving(db)
  BY AcceptedIsNew
<1> HIDE DEF e, S
<1>8. /\ Live = Serving(db) /\ Live' = Serving(db)
      /\ Kept = Retained(db) /\ Kept' = Retained(db) \cup new
  BY <1>1, <1>5, SettledStep
<1>9. CASE S = {}
  <2>1. new = {}  BY <1>9
  <2>2. Logical(db)' \in Nat  BY <1>3, <1>5, LogicalCounts
  <2> QED  BY <1>8, <2>1, <2>2, AsReclaim
<1>10. CASE S # {}
  <2>1. PICK r \in S : TRUE  BY <1>10
  <2> DEFINE x == [project |-> ProjectOf[r], id |-> r, at |-> at]
  <2>2. x \in NewRows(S, at)  BY <2>1 DEF NewRows
  <2>3. x \notin db.records
    <3>1. Key(x) = [project |-> ProjectOf[r], id |-> r]
          /\ x.project = ProjectOf[r]
      BY DEF Key
    <3> HIDE DEF x
    <3>2. x.project \in Serving(db) /\ Key(x) \notin Retained(db)
      BY <1>7, <2>1, <3>1
    <3> QED  BY <3>2, RetainedIs DEF Stored
  <2> HIDE DEF x
  <2>4. Logical(db) < Logical(e)
    BY <1>0, <1>2, <1>3, <1>4, <2>2, <2>3, LogicalGrows
  <2>5. Logical(db) \in Nat /\ Logical(e) \in Nat
    BY <1>0, <1>3, LogicalCounts
  <2>6. Logical(db)' > Logical(db)  BY <1>5, <2>4, <2>5
  <2>7. \A p \in Serving(db) : p \in 1..MaxProjects
    <3>1. \A q \in db.projects : q.id \in Nat /\ q.id < db.next
      BY DEF Homed, Database, ProjectRow
    <3>2. \A q \in db.projects : q.id \in 1..MaxProjects
      BY <1>0, <3>1, BoundAssumption
    <3> QED  BY <3>2 DEF Serving
  <2>8. new \subseteq [project : 1..MaxProjects, id : Records] \ Kept
    <3>1. \A q \in S : ProjectOf[q] \in 1..MaxProjects /\ q \in Records
      BY <1>6, <1>7, <2>7
    <3>2. new \subseteq [project : 1..MaxProjects, id : Records]
      BY <3>1
    <3>3. \A key \in new : key \notin Kept  BY <1>7, <1>8
    <3> QED  BY <3>2, <3>3
  <2>9. \A key \in new : key.project \in Live  BY <1>7, <1>8
  <2>10. new # {}  BY <2>1
  <2> HIDE DEF new
  <2> QED  BY <1>8, <2>6, <2>8, <2>9, <2>10, AsAccept
<1> QED  BY <1>9, <1>10

\* The variables of Retention stay as they are when the databases do.
LEMMA SameShows ==
  ASSUME UNCHANGED <<db, recoverable>>
  PROVE  [Promise!Next]_(Promise!vars)
BY DEF Promise!vars

\* Every step of the store is a step of Retention, or changes nothing of it.
LEMMA NextImplements ==
  ASSUME ~CallsFail
  PROVE  TypeOK /\ RowsInv /\ ConsistencyInv /\ PromiseInv
           /\ RowsInv' /\ PromiseInv' /\ [Next]_vars
         => [Promise!Next]_(Promise!vars)
<1> SUFFICES ASSUME TypeOK, RowsInv, ConsistencyInv, PromiseInv,
                    RowsInv', PromiseInv', [Next]_vars
             PROVE  [Promise!Next]_(Promise!vars)
  OBVIOUS
<1>0. /\ SyncedAgree /\ AllSound /\ Sound(db) /\ db \in Database /\ Homed(db)
      /\ db \in recoverable /\ SyncedAgree' /\ db' \in recoverable'
  BY DEF ConsistencyInv, AllSound, RowsInv, SyncedAgree, NoOrphanKeys, Homed,
         TypeOK
<1>a. /\ ClosingInv /\ FiniteRows(db) /\ FiniteRows(db')
      /\ db.next \in 1..(MaxProjects + 1)
  BY <1>0, PromiseIs, PromiseIsNext DEF Follows
<1>b. pc \notin {"mark", "clear", "drop", "resume"} => Closing(db) = {}
  BY <1>a DEF ClosingInv
<1>c. Logical(db)' \in Nat /\ Logical(db) \in Nat  BY <1>a, LogicalCounts
<1>d. ASSUME pc \notin {"mark", "clear", "drop", "resume"},
             db'.projects = db.projects
      PROVE  /\ Closing(db) = {} /\ Closing(db') = {}
             /\ Serving(db') = Serving(db)
             /\ Live' = Live
             /\ Kept = Retained(db) /\ Kept' = Retained(db')
  BY <1>0, <1>b, <1>d, SameProjects, SettledStep
<1>1. ASSUME NEW x \in Cold, NEW p \in Parts, WriteTemporary(x, p)
      PROVE  [Promise!Next]_(Promise!vars)
  BY <1>1, SameShows DEF WriteTemporary
<1>2. CASE RenameTemporary
  BY <1>2, SameShows DEF RenameTemporary
<1>3. CASE PublishManifest
  <2>1. part.rows \subseteq db.records
    BY <1>3 DEF PublishManifest, ConsistencyInv
  <2>2. db' = Archived(db, part) /\ pc = "publish"
    BY <1>3 DEF PublishManifest, Commit
  <2>3. db'.projects = db.projects /\ Retained(db') = Retained(db)
    BY <1>0, <2>1, <2>2, ArchivedFields, ArchivedShows
  <2> QED  BY <1>c, <1>d, <2>2, <2>3, AsReclaim
<1>4. CASE ArchiveDone
  BY <1>4, SameShows DEF ArchiveDone
<1>5. ASSUME NEW m \in OldestPartitions, EvictPartition(m)
      PROVE  [Promise!Next]_(Promise!vars)
  <2> DEFINE e == WithoutPartition(db, m)
  <2>1. /\ e.records = db.records
        /\ e.issues = Decremented(db.issues, m.rows)
        /\ e.cumulative_sums = db.cumulative_sums
        /\ e.manifests = db.manifests \ {m}
        /\ e.projects = db.projects
    BY <1>0, WithoutPartitionFields
  <2>2. db' = e /\ pc = "enforce" /\ Logical(db) > Target
    BY <1>5 DEF EvictPartition, OverTarget, Commit
  <2> HIDE DEF e
  <2>3. m \in db.manifests /\ m.rows # {}
    BY <1>0, SoundIs DEF OldestPartitions
  <2>4. Cardinality(e.issues) <= Cardinality(db.issues)
    BY <1>a, <2>1, FiniteRowsIs, DecrementedCount
  <2>5. Logical(db') < Logical(db)
    BY <1>a, <2>1, <2>2, <2>3, <2>4, LogicalFewerParts
  <2>6. Retained(db') \subseteq Retained(db)
    BY <2>1, <2>2, EvictedShows
  <2> QED  BY <1>d, <2>1, <2>2, <2>5, <2>6, AsEvict
<1>6. ASSUME NEW x \in db.records, EvictHot(x)
      PROVE  [Promise!Next]_(Promise!vars)
  <2> DEFINE e == WithoutHot(db, x)
  <2>1. /\ e.records = db.records \ {x}
        /\ e.issues = Decremented(db.issues, {x})
        /\ e.cumulative_sums = db.cumulative_sums
        /\ e.manifests = db.manifests
        /\ e.projects = db.projects
    BY <1>0, WithoutHotFields
  <2>2. db' = e /\ pc = "enforce" /\ Logical(db) > Target
    BY <1>6 DEF EvictHot, OverTarget, Commit
  <2> HIDE DEF e
  <2>4. Cardinality(e.issues) <= Cardinality(db.issues)
    BY <1>a, <2>1, FiniteRowsIs, DecrementedCount
  <2>5. Logical(db') < Logical(db)
    BY <1>a, <2>1, <2>2, <2>4, LogicalFewerHot
  <2>6. Retained(db') \subseteq Retained(db)
    BY <2>1, <2>2, EvictedShows
  <2> QED  BY <1>d, <2>1, <2>2, <2>5, <2>6, AsEvict
<1>7. ASSUME NEW i \in db.issues, EvictIssue(i)
      PROVE  [Promise!Next]_(Promise!vars)
  <2> DEFINE e == [db EXCEPT !.issues = @ \ {i},
                             !.record_indexes = @ \ {IssueIndex(i)}]
  <2>1. /\ e.records = db.records
        /\ e.issues = db.issues \ {i}
        /\ e.cumulative_sums = db.cumulative_sums
        /\ e.manifests = db.manifests
        /\ e.projects = db.projects
    BY <1>0 DEF Database
  <2>2. db' = e /\ pc = "enforce" /\ Logical(db) > Target
    BY <1>7 DEF EvictIssue, OverTarget, Commit
  <2> HIDE DEF e
  <2>5. Logical(db') < Logical(db)
    BY <1>a, <2>1, <2>2, LogicalFewerIssues
  <2>6. Retained(db') \subseteq Retained(db)
    BY <2>1, <2>2, EvictedShows
  <2> QED  BY <1>d, <2>1, <2>2, <2>5, <2>6, AsEvict
<1>8. CASE EnforceDone
  BY <1>8, SameShows DEF EnforceDone
<1>9. ASSUME NEW chunk \in Chunks, ClearChunk(chunk)
      PROVE  [Promise!Next]_(Promise!vars)
  <2> DEFINE e == [db EXCEPT ![stage] = @ \ chunk]
  <2>1. chunk \subseteq Uncleared  BY DEF Chunks
  <2>2. /\ e.records \subseteq db.records
        /\ e.manifests = db.manifests
        /\ e.projects = db.projects
        /\ \A x \in db.records \ e.records : x.project = removing
    BY <1>0, <2>1 DEF TypeOK, Database, Stages, Uncleared
  <2>3. pc = "clear" /\ recoverable' = recoverable \cup {e}
    BY <1>9 DEF ClearChunk, Commit
  <2> HIDE DEF e
  <2>4. removing \notin Serving(db)  BY <2>3 DEF ConsistencyInv
  <2>5. Serving(e) = Serving(db) /\ Retained(e) = Retained(db)
    BY <1>0, <2>2, <2>4, ClearedShows, SameProjects
  <2>6. Live' = Live /\ Kept' = Kept
    BY <1>0, <2>3, <2>5 DEF Live, Kept, LiveOf, KeptOf
  <2> QED  BY <1>c, <2>6, AsReclaim
<1>10. CASE ClearNext
  BY <1>10, SameShows DEF ClearNext
<1>11. CASE DropProject
  <2> DEFINE e == [db EXCEPT
                     !.manifests = @ \ {m \in db.manifests :
                                          m.project = removing},
                     !.projects = {q \in @ : q.id # removing}]
  <2>1. pc = "drop" /\ db' = e /\ recoverable' = {db'}
    BY <1>11 DEF DropProject, Commit
  <2>2. removing \notin Serving(db)  BY <2>1 DEF ConsistencyInv
  <2>3. /\ e.records = db.records
        /\ e.manifests = {m \in db.manifests : m.project # removing}
        /\ e.projects = {q \in db.projects : q.id # removing}
    BY <1>0 DEF Database
  <2> HIDE DEF e
  <2>4. Serving(e) = Serving(db) /\ Retained(e) = Retained(db)
    BY <1>0, <2>2, <2>3, DroppedShows
  <2> QED  BY <1>0, <1>a, <2>1, <2>4, SettlingStep
<1>12. ASSUME NEW p \in doomed, Unlink(p)
       PROVE  [Promise!Next]_(Promise!vars)
  BY <1>12, SameShows DEF Unlink
<1>13. CASE UnlinkDone
  BY <1>13, SameShows DEF UnlinkDone
<1>14. ASSUME NEW q \in Removable({"Deleting"}), ResumeDeletion(q)
       PROVE  [Promise!Next]_(Promise!vars)
  BY <1>14, SameShows DEF ResumeDeletion
<1>15. ASSUME NEW f \in Strays, CleanUp(f)
       PROVE  [Promise!Next]_(Promise!vars)
  BY <1>15, SameShows DEF CleanUp
<1>16. CASE OpenDone
  BY <1>16, SameShows DEF OpenDone
<1>17. ASSUME NEW name \in Names, AddProject(name)
       PROVE  [Promise!Next]_(Promise!vars)
  <2> DEFINE row == [id |-> db.next, name |-> name, status |-> "Active"]
             e == [db EXCEPT !.projects = @ \cup {row}, !.next = @ + 1]
  <2>0. row.id = db.next /\ row.status = "Active"  OBVIOUS
  <2>1. /\ e.records = db.records
        /\ e.issues = db.issues
        /\ e.cumulative_sums = db.cumulative_sums
        /\ e.manifests = db.manifests
        /\ e.projects = db.projects \cup {row}
    BY <1>0 DEF Database
  <2>2. db' = e /\ db.next <= MaxProjects /\ pc = "idle"
    BY <1>17 DEF AddProject, Free, Commit
  <2> HIDE DEF row, e
  <2>3. /\ Serving(e) = Serving(db) \cup {db.next}
        /\ db.next \notin Serving(db)
        /\ Closing(e) = Closing(db)
        /\ Retained(e) = Retained(db)
    BY <1>0, <2>0, <2>1, CreatedShows
  <2>4. /\ Live = Serving(db) /\ Live' = Serving(e)
        /\ Kept = Retained(db) /\ Kept' = Retained(e)
    BY <1>0, <1>b, <2>2, <2>3, SettledStep
  <2>5. Logical(db)' = Logical(db)  BY <2>1, <2>2 DEF Logical
  <2>6. db.next \in 1..MaxProjects
    BY <1>a, <2>2, BoundAssumption
  <2> QED  BY <2>3, <2>4, <2>5, <2>6, AsCreate
<1>18. ASSUME NEW S \in SUBSET Records, NEW at \in Clock, WriteRecords(S, at)
       PROVE  [Promise!Next]_(Promise!vars)
  <2>1. PICK T \in Newest(Accepted(db, S)) :
           Commit(Written(db, Accepted(db, S), at, T), Safe)
    BY <1>18 DEF WriteRecords
  <2>2. pc = "idle"  BY <1>18 DEF WriteRecords, Free
  <2> QED  BY <1>0, <1>b, <2>1, <2>2, WriteStep DEF Commit
<1>19. ASSUME NEW time \in Clock, ArchiveBefore(time + 1)
       PROVE  [Promise!Next]_(Promise!vars)
  BY <1>19, SameShows DEF ArchiveBefore
<1>20. CASE EnforceStorageTarget
  BY <1>20, SameShows DEF EnforceStorageTarget
<1>21. ASSUME NEW q \in db.projects, RemoveProject(q)
       PROVE  [Promise!Next]_(Promise!vars)
  <2> DEFINE mark == [q EXCEPT !.status = "Deleting"]
             e == [db EXCEPT !.projects = (@ \ {q}) \cup {mark}]
  <2>0. mark.id = q.id /\ mark.status = "Deleting"
    BY <1>0 DEF Database, ProjectRow
  <2>1. /\ e.records = db.records
        /\ e.manifests = db.manifests
        /\ e.projects = (db.projects \ {q}) \cup {mark}
    BY <1>0 DEF Database
  <2>2. recoverable' = recoverable \cup {e}
    BY <1>21 DEF RemoveProject, Commit
  <2> HIDE DEF mark, e
  <2>3. Serving(e) \subseteq Serving(db) /\ Retained(e) \subseteq Retained(db)
    BY <1>0, <2>0, <2>1, MarkedShows
  <2>4. Live' = Live /\ Kept' = Kept
    BY <1>0, <2>2, <2>3 DEF Live, Kept, LiveOf, KeptOf
  <2> QED  BY <1>c, <2>4, AsReclaim
<1>22. CASE Persist \/ SyncMark
  <2>1. db' = db /\ recoverable' = {db'}
    BY <1>22 DEF Persist, SyncMark, Commit
  <2> QED  BY <1>0, <1>a, <2>1, SettlingStep
<1>23. CASE JobFails
  BY <1>23, SameShows DEF JobFails
<1>24. CASE ProcessCrash
  BY <1>24, SameShows DEF ProcessCrash
<1>25. ASSUME NEW d \in recoverable, PowerLoss(d)
       PROVE  [Promise!Next]_(Promise!vars)
  BY <1>0, <1>25, PowerLossStep
<1>26. CASE UNCHANGED vars
  BY <1>26, SameShows DEF vars
<1> QED
  BY <1>1, <1>2, <1>3, <1>4, <1>5, <1>6, <1>7, <1>8, <1>9, <1>10, <1>11,
     <1>12, <1>13, <1>14, <1>15, <1>16, <1>17, <1>18, <1>19, <1>20, <1>21,
     <1>22, <1>23, <1>24, <1>25, <1>26
  DEF Next, Job, Archiver, Enforcer, Remover, Opener, Calls, Crash, Removable

\* A fresh data directory serves, keeps and occupies nothing.
LEMMA InitImplements == Init => Promise!Init
<1> SUFFICES ASSUME Init  PROVE Promise!Init
  OBVIOUS
<1>1. /\ recoverable = {db}
      /\ db.projects = {} /\ db.records = {} /\ db.issues = {}
      /\ db.cumulative_sums = {} /\ db.manifests = {}
  BY DEF Init, EmptyDatabase
<1>2. Serving(db) = {}  BY <1>1 DEF Serving
<1>3. Retained(db) = {}  BY <1>2 DEF Retained
<1>4. Logical(db) = 0
  <2>1. UNION {{m} \X m.rows : m \in db.manifests} = {}  BY <1>1
  <2> QED  BY <1>1, <2>1, FS_EmptySet DEF Logical
<1> QED  BY <1>1, <1>2, <1>3, <1>4 DEF Promise!Init

\* The store implements Retention: archival, restarts and the clearing of a
\* removed project are invisible, only eviction over the target and removal
\* take a record away, and in safe mode no crash and no power loss does.
\* Without the condition it is false: a mark whose sync failed becomes
\* durable with whatever batch is synced next, and that batch then closes a
\* project besides what it does itself.
THEOREM StoreKeepsItsPromise ==
  ASSUME ~CallsFail
  PROVE  Spec => KeepsItsPromise
<1>1. Spec => [](RowsInv /\ ConsistencyInv)  BY StoreConsistencyInv
<1>2. Init => PromiseInv  BY InitPromise
<1>3. TypeOK /\ RowsInv /\ ConsistencyInv /\ PromiseInv /\ [Next]_vars
        => PromiseInv'
  BY NextPromise
<1>4. TypeOK /\ RowsInv /\ ConsistencyInv /\ PromiseInv
        /\ RowsInv' /\ PromiseInv' /\ [Next]_vars
        => [Promise!Next]_(Promise!vars)
  BY NextImplements
<1>5. Init => Promise!Init  BY InitImplements
<1> QED
  BY <1>1, <1>2, <1>3, <1>4, <1>5, StoreTypeOK, PTL
  DEF Spec, KeepsItsPromise, Promise!Spec

=============================================================================
