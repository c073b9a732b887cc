---------------------------- MODULE ReaderProofs ----------------------------
(***************************************************************************)
(* Proofs about StoreReaders: that a read, which takes no lock, answers    *)
(* rightly whatever mutators do between two of its looks.  The argument:   *)
(* a row is in one place and moves one way, from the hot tier into a part  *)
(* (OneHome); a read looks in that order, so that what it has still to     *)
(* find never slips behind it (ReadInv).                                   *)
(***************************************************************************)
EXTENDS StoreReaders, StoreProofs

\* Why these hold.  Whatever becomes of its project, a stored row is in one
\* place and has its key for itself, a part file holds rows of one signal, and
\* an entry of archive_ids names a part that has the row ...
OneHome(d) ==
    /\ \A x, y \in Stored(d) : Key(x) = Key(y) => x = y
    /\ \A m \in d.manifests :
          /\ m.rows \cap d.records = {}
          /\ \A n \in d.manifests : m # n => m.rows \cap n.rows = {}
          /\ \A x \in m.rows : SignalOf[x.id] = m.signal
    /\ \A a \in d.archive_ids : \E m \in d.manifests :
          a.part = m.part /\ \E x \in m.rows : Key(x) = Key(a)

HomesInv ==
    /\ OneHome(db)
    /\ pc \in {"rename", "publish"} =>
          \A x \in part.rows : SignalOf[x.id] = part.signal

\* ... and of what a read is to find, a row is found already, is still to be
\* looked up, or waits in the tier that the read looks at later.
HistoryInv ==
    /\ read.held \subseteq Ours(Served(db))
    /\ Ours(Stored(db)) \subseteq read.ever
    /\ read.ever = Ours(read.ever)
    /\ read.known \subseteq ServedIssues(db, read.project)

RowsRead ==
    /\ read.kind \in {"search", "metric"}
    /\ read.cold = {}
    /\ read.todo \cup read.hot \subseteq read.ever
    /\ read.hot \subseteq db.records \cup read.moved
    /\ read.held \subseteq read.todo \cup read.hot \cup Archive(db)

ToRead == UNION {Asked(m.rows, read.project, read.ids) : m \in read.todo}

FilesRead ==
    /\ read.kind \in {"search", "metric", "get"}
    /\ Found \cup ToRead \subseteq read.ever
    /\ read.hot \cap (read.cold \cup ToRead) \subseteq read.moved
    /\ read.held \subseteq Found \cup ToRead
    /\ read.kind = "get" => \A x, y \in Found \cup ToRead : x = y
    /\ \A m \in read.todo : \A n \in db.manifests : n.part = m.part => n = m

RowRead ==
    /\ read.kind = "get"
    /\ read.cold = {}
    /\ read.held \subseteq read.todo
    /\ read.todo \subseteq read.ever \cap (db.records \cup read.moved)
    /\ \A x, y \in read.todo : x = y

IdRead ==
    /\ read.kind = "get"
    /\ read.hot = {} /\ read.cold = {}
    /\ \E r \in Records :
          /\ read.ids = {r}
          /\ read.todo = {[project |-> read.project, id |-> r]}
    /\ read.held \subseteq Archive(db)

ManifestRead ==
    /\ read.kind = "get"
    /\ read.hot = {} /\ read.cold = {}
    /\ \E r \in Records : read.ids = {r}
    /\ \A a, b \in read.todo : a.part = b.part
    /\ \A x \in read.held : \E m \in db.manifests :
          x \in m.rows /\ \E a \in read.todo : a.part = m.part

CountRead ==
    /\ read.kind = "status"
    /\ read.cold \subseteq read.ever \cap (Archive(db) \cup read.moved)
    /\ read.held \subseteq read.cold \cup db.records \cup read.moved

SizeRead ==
    /\ read.kind = "status"
    /\ read.hot \cap read.cold \subseteq read.moved
    /\ Found \subseteq read.ever
    /\ read.held \subseteq Found \cup read.moved

ReadInv ==
    /\ DOMAIN read = DOMAIN NoRead
    /\ AnswersAreRight
    /\ Reading => HistoryInv
    /\ read.at = "idle" => read.kind = "none"
    /\ read.at = "rows" => RowsRead
    /\ read.at = "files" => FilesRead
    /\ read.at = "row" => RowRead
    /\ read.at = "archive_ids" => IdRead
    /\ read.at = "manifest" => ManifestRead
    /\ read.at = "issues" =>
          /\ read.kind = "issues"
          /\ read.known \subseteq read.issues \cup {e.id : e \in read.todo}
    /\ read.at = "count" => CountRead
    /\ read.at \in {"list", "sizes"} => SizeRead
    /\ pc \in {"rename", "publish"} => part.part \notin Listed

-----------------------------------------------------------------------------
(* What mutators do to the rows.                                           *)

\* Rows, parts and archive_ids go; those of a part that goes go with it.
Less(d, e) ==
    /\ e.records \subseteq d.records
    /\ e.manifests \subseteq d.manifests
    /\ e.archive_ids \subseteq d.archive_ids
    /\ \A m \in d.manifests \ e.manifests : \A x \in m.rows :
          \A a \in e.archive_ids : Key(a) # Key(x)

\* Rows come that have keys of their own.
More(d, e) ==
    /\ e.manifests = d.manifests
    /\ e.archive_ids = d.archive_ids
    /\ d.records \subseteq e.records
    /\ \A x \in e.records \ d.records :
          /\ \A y \in Stored(d) : Key(x) # Key(y)
          /\ \A y \in e.records \ d.records : Key(x) = Key(y) => x = y

\* The rows of the part in flight move into it.
Moves(d, e) == pc = "publish" /\ e = Archived(d, part)

\* Rows that go leave the others where they are.
LEMMA LessHome ==
  ASSUME NEW d, NEW e, OneHome(d), Less(d, e)
  PROVE  OneHome(e)
<1>1. Stored(e) \subseteq Stored(d)  BY DEF Less, Stored
<1>2. \A m \in e.manifests : m \in d.manifests  BY DEF Less
<1>3. \A a \in e.archive_ids : \E m \in e.manifests :
        a.part = m.part /\ \E x \in m.rows : Key(x) = Key(a)
  BY DEF Less, OneHome
<1> QED  BY <1>1, <1>2, <1>3 DEF OneHome, Less

\* New rows take no other's key.
LEMMA MoreHome ==
  ASSUME NEW d, NEW e, OneHome(d), More(d, e)
  PROVE  OneHome(e)
<1>1. Stored(e) = Stored(d) \cup (e.records \ d.records)
  BY DEF More, Stored
<1>2. \A x, y \in Stored(e) : Key(x) = Key(y) => x = y
  BY <1>1 DEF More, OneHome
<1>3. ASSUME NEW m \in e.manifests  PROVE m.rows \cap e.records = {}
  <2>1. m.rows \subseteq Stored(d)  BY DEF More, Stored
  <2>2. \A x \in e.records \ d.records : x \notin m.rows
    BY <2>1 DEF More
  <2> QED  BY <2>2 DEF More, OneHome
<1> QED  BY <1>2, <1>3 DEF More, OneHome

\* What moves into a part was in one place before, and is in one after.
LEMMA MovesHome ==
  ASSUME TypeOK, HomesInv, ConsistencyInv, NEW e, Moves(db, e)
  PROVE  OneHome(e) /\ Stored(e) = Stored(db)
<1>1. /\ e.records = db.records \ part.rows
      /\ e.archive_ids = db.archive_ids \cup Located(part)
      /\ e.manifests = db.manifests \cup {part}
  BY ArchivedFields DEF TypeOK, Moves
<1>2. part.rows \subseteq db.records  BY DEF ConsistencyInv, Moves
<1>3. Stored(e) = Stored(db)  BY <1>1, <1>2 DEF Stored
<1>4. OneHome(db) /\ \A x \in part.rows : SignalOf[x.id] = part.signal
  BY DEF HomesInv, Moves
<1>5. ASSUME NEW m \in e.manifests
      PROVE  /\ m.rows \cap e.records = {}
             /\ \A n \in e.manifests : m # n => m.rows \cap n.rows = {}
             /\ \A x \in m.rows : SignalOf[x.id] = m.signal
  BY <1>1, <1>2, <1>4 DEF OneHome
<1>6. \A a \in Located(part) :
        a.part = part.part /\ \E x \in part.rows : Key(x) = Key(a)
  BY DEF Located, Key
<1>7. \A a \in e.archive_ids : \E m \in e.manifests :
        a.part = m.part /\ \E x \in m.rows : Key(x) = Key(a)
  BY <1>1, <1>4, <1>6 DEF OneHome
<1>8. \A x, y \in Stored(e) : Key(x) = Key(y) => x = y
  BY <1>3, <1>4 DEF OneHome
<1> QED  BY <1>3, <1>5, <1>7, <1>8 DEF OneHome

\* A batch accepts only source ids that its project does not have.
LEMMA AcceptedMore ==
  ASSUME TypeOK, ConsistencyInv, FilesInv, NEW S \in SUBSET Records,
         NEW at \in Clock, NEW T
  PROVE  More(db, Written(db, Accepted(db, S), at, T))
<1> DEFINE e == Written(db, Accepted(db, S), at, T)
           rows == NewRows(Accepted(db, S), at)
<1>1. /\ e.records = db.records \cup rows
      /\ e.manifests = db.manifests
      /\ e.archive_ids = db.archive_ids
  BY WrittenFields DEF TypeOK
<1> HIDE DEF e
<1>2. Sound(db)  BY DEF ConsistencyInv, FilesInv, SyncedAgree
<1>3. \A x, y \in rows : Key(x) = Key(y) => x = y
  BY DEF NewRows, Key
<1>4. ASSUME NEW x \in rows, NEW y \in Stored(db)  PROVE Key(x) # Key(y)
  <2>1. PICK r \in Accepted(db, S) :
           x = [project |-> ProjectOf[r], id |-> r, at |-> at]
    BY DEF NewRows
  <2>2. ProjectOf[r] \in Serving(db) /\ Key(x) \notin db.source_ids
        /\ x.project = ProjectOf[r]
    BY <2>1 DEF Accepted, Active, Serving, Key
  <2>3. SUFFICES ASSUME Key(x) = Key(y)  PROVE FALSE
    OBVIOUS
  <2>4. y \in Of(Stored(db), x.project)  BY <2>3, KeyFields DEF Of
  <2>5. Of(db.source_ids, x.project)
          = {Key(z) : z \in Of(Stored(db), x.project)}
    BY <1>2, <2>2 DEF Sound, KeysOnce
  <2> QED  BY <2>2, <2>3, <2>4, <2>5 DEF Of
<1> QED  BY <1>1, <1>3, <1>4 DEF More, e


\* Whatever a mutator does in a step, rows only go, only come, or move.
LEMMA MutatorRows ==
  ASSUME TypeOK, FilesInv, RowsInv, ConsistencyInv, Job \/ Calls \/ JobFails
  PROVE  Less(db, db') \/ More(db, db') \/ Moves(db, db')
<1>0. /\ DOMAIN db = {"projects", "next", "records", "record_indexes",
                      "record_ids", "source_ids", "cumulative_sums", "issues",
                      "archive_ids", "manifests"}
      /\ Sound(db) /\ db \in Database
  BY DEF TypeOK, Database, ConsistencyInv, FilesInv, SyncedAgree
<1>a. ASSUME db'.records = db.records, db'.manifests = db.manifests,
             db'.archive_ids = db.archive_ids
      PROVE  Less(db, db')
  BY <1>a DEF Less
<1>b. ASSUME db' = db  PROVE Less(db, db')
  BY <1>a, <1>b
<1>1. CASE PublishManifest
  BY <1>1 DEF PublishManifest, Commit, Moves
<1>2. ASSUME NEW m \in OldestPartitions, EvictPartition(m)
      PROVE  Less(db, db')
  <2>1. db' = WithoutPartition(db, m)  BY <1>2 DEF EvictPartition, Commit
  <2>2. /\ db'.records = db.records
        /\ db'.archive_ids =
             {a \in db.archive_ids : Key(a) \notin {Key(x) : x \in m.rows}}
        /\ db'.manifests = db.manifests \ {m}
    BY <1>0, <2>1, WithoutPartitionFields
  <2> QED  BY <2>2 DEF Less
<1>3. ASSUME NEW x \in db.records, EvictHot(x)
      PROVE  Less(db, db')
  <2>1. db' = WithoutHot(db, x)  BY <1>3 DEF EvictHot, Commit
  <2>2. /\ db'.records = db.records \ {x}
        /\ db'.archive_ids = db.archive_ids
        /\ db'.manifests = db.manifests
    BY <1>0, <2>1, WithoutHotFields
  <2> QED  BY <2>2 DEF Less
<1>4. ASSUME NEW i \in db.issues, EvictIssue(i)
      PROVE  Less(db, db')
  BY <1>0, <1>a, <1>4 DEF EvictIssue, Commit
<1>5. ASSUME NEW chunk, ClearChunk(chunk)
      PROVE  Less(db, db')
  <2>1. db' = [db EXCEPT ![stage] = @ \ chunk]
    BY <1>5 DEF ClearChunk, Commit
  <2>2. /\ db'.records \subseteq db.records
        /\ db'.archive_ids \subseteq db.archive_ids
        /\ db'.manifests = db.manifests
    BY <1>0, <2>1 DEF TypeOK, Stages
  <2> QED  BY <2>2 DEF Less
<1>6. CASE DropProject
  <2> DEFINE gone == {m \in db.manifests : m.project = removing}
  <2>1. db' = [db EXCEPT !.manifests = @ \ gone,
                         !.projects = {q \in @ : q.id # removing}]
    BY <1>6 DEF DropProject, Commit
  <2>2. /\ db'.records = db.records /\ db'.archive_ids = db.archive_ids
        /\ db'.manifests = db.manifests \ gone
    BY <1>0, <2>1
  <2>3. \A a \in db.archive_ids : a.project # removing
    <3>1. pc = "drop"  BY <1>6 DEF DropProject
    <3> QED  BY <3>1 DEF RowsInv, Stages
  <2>4. \A m \in gone : \A x \in m.rows : x.project = removing
    BY <1>0 DEF Sound
  <2>5. \A m \in gone : \A x \in m.rows : \A a \in db.archive_ids :
          Key(a) # Key(x)
    BY <2>3, <2>4, KeyFields
  <2> HIDE DEF gone
  <2> QED  BY <2>2, <2>5 DEF Less
<1>7. ASSUME NEW name \in Names, AddProject(name)
      PROVE  Less(db, db')
  BY <1>0, <1>a, <1>7 DEF AddProject, Commit
<1>8. ASSUME NEW S \in SUBSET Records, NEW at \in Clock, WriteRecords(S, at)
      PROVE  More(db, db')
  <2>1. PICK T \in Newest(Accepted(db, S)) :
           db' = Written(db, Accepted(db, S), at, T)
    BY <1>8 DEF WriteRecords, Commit
  <2> QED  BY <2>1, AcceptedMore
<1>9. ASSUME NEW q \in db.projects, RemoveProject(q)
      PROVE  Less(db, db')
  BY <1>0, <1>a, <1>9 DEF RemoveProject, Commit
<1>10. CASE ArchiveDone \/ RenameTemporary
            \/ \E x \in Cold, p \in Parts : WriteTemporary(x, p)
  BY <1>b, <1>10 DEF ArchiveDone, RenameTemporary, WriteTemporary
<1>11. CASE EnforceDone \/ ClearNext \/ UnlinkDone
            \/ \E p \in doomed : Unlink(p)
  BY <1>b, <1>11 DEF EnforceDone, ClearNext, UnlinkDone, Unlink
<1>12. CASE SyncMark \/ Persist
  BY <1>b, <1>12 DEF SyncMark, Persist, Commit
<1>13. CASE Opener
  BY <1>b, <1>13 DEF Opener, ResumeDeletion, CleanUp, OpenDone
<1>14. CASE JobFails \/ EnforceStorageTarget
            \/ \E time \in Clock : ArchiveBefore(time + 1)
  BY <1>b, <1>14 DEF JobFails, EnforceStorageTarget, ArchiveBefore
<1> QED
  BY <1>1, <1>2, <1>3, <1>4, <1>5, <1>6, <1>7, <1>8, <1>9, <1>10, <1>11,
     <1>12, <1>13, <1>14
  DEF Job, Archiver, Enforcer, Remover, Calls, Removable

\* A part in flight was named by the step that wrote its file.
LEMMA InFlight ==
  ASSUME TypeOK, Job \/ Calls \/ JobFails, pc' \in {"rename", "publish"}
  PROVE  \/ part' = part /\ pc \in {"rename", "publish"}
         \/ \E x \in Cold, p \in Parts : WriteTemporary(x, p)
<1>1. CASE Archiver
  BY <1>1 DEF Archiver, RenameTemporary, Locals, PublishManifest, ArchiveDone,
              Release
<1>2. CASE Enforcer
  BY <1>2 DEF Enforcer, EvictPartition, EvictHot, EvictIssue, EnforceDone,
              Locals, Release, OverTarget
<1>3. CASE Remover
  BY <1>3 DEF Remover, SyncMark, ClearChunk, ClearNext, DropProject, Unlink,
              UnlinkDone, Locals
<1>4. CASE Opener
  BY <1>4 DEF Opener, ResumeDeletion, CleanUp, OpenDone, Release
<1>5. CASE Calls
  BY <1>5 DEF Calls, AddProject, WriteRecords, ArchiveBefore,
              EnforceStorageTarget, RemoveProject, Persist, Locals, Free
<1>6. CASE JobFails
  BY <1>6 DEF JobFails, Release
<1> QED  BY <1>1, <1>2, <1>3, <1>4, <1>5, <1>6 DEF Job

\* Every step of a mutator keeps each row in one place.
LEMMA MutatorHomes ==
  ASSUME TypeOK, FilesInv, RowsInv, ConsistencyInv, HomesInv,
         Job \/ Calls \/ JobFails
  PROVE  HomesInv'
<1>1. OneHome(db')
  <2>1. OneHome(db)  BY DEF HomesInv
  <2> QED  BY <2>1, MutatorRows, LessHome, MoreHome, MovesHome
<1>2. ASSUME pc' \in {"rename", "publish"}
      PROVE  \A x \in part'.rows : SignalOf[x.id] = part'.signal
  <2>1. CASE part' = part /\ pc \in {"rename", "publish"}
    BY <2>1 DEF HomesInv
  <2>2. ASSUME NEW x \in Cold, NEW p \in Parts, WriteTemporary(x, p)
        PROVE  \A y \in part'.rows : SignalOf[y.id] = part'.signal
    <3>1. /\ part'.signal = SignalOf[x.id]
          /\ part'.rows = {y \in Cold : SameGroup(x, y)}
      BY <2>2 DEF WriteTemporary
    <3> QED  BY <3>1 DEF SameGroup
  <2> QED  BY <1>2, <2>1, <2>2, InFlight
<1> QED  BY <1>1, <1>2 DEF HomesInv


-----------------------------------------------------------------------------
(* What a step of a mutator does to a read.                                *)

StoreInv == TypeOK /\ FilesInv /\ RowsInv /\ ConsistencyInv

\* An archived row that is still stored is still in its part.
LEMMA ArchivedStays ==
  ASSUME StoreInv, HomesInv, Job \/ Calls \/ JobFails,
         NEW m \in db.manifests, NEW x \in m.rows, x \in Stored(db')
  PROVE  m \in db'.manifests
<1>1. OneHome(db)  BY DEF HomesInv
<1>2. CASE Less(db, db')
  BY <1>1, <1>2 DEF Less, OneHome, Stored
<1>3. CASE More(db, db')
  BY <1>3 DEF More
<1>4. CASE Moves(db, db')
  BY <1>4, ArchivedFields DEF Moves, StoreInv, TypeOK
<1> QED  BY <1>2, <1>3, <1>4, MutatorRows DEF StoreInv

\* Only the part in flight becomes a new manifest.
LEMMA NewManifest ==
  ASSUME StoreInv, Job \/ Calls \/ JobFails, NEW m \in db'.manifests
  PROVE  m \in db.manifests \/ (m = part /\ pc = "publish")
<1>1. CASE Less(db, db')
  <2>1. db'.manifests \subseteq db.manifests  BY <1>1 DEF Less
  <2> QED  BY <2>1
<1>3. CASE More(db, db')
  <2>1. db'.manifests = db.manifests  BY <1>3 DEF More
  <2> QED  BY <2>1
<1>2. CASE Moves(db, db')
  BY <1>2, ArchivedFields DEF Moves, StoreInv, TypeOK
<1> QED  BY <1>1, <1>2, <1>3, MutatorRows DEF StoreInv

\* While a read waits, a mutator changes only what the read's history says.
LEMMA MutateFields ==
  ASSUME ReadInv, Mutate, Reading
  PROVE  /\ DOMAIN read' = DOMAIN NoRead
         /\ read'.kind = read.kind /\ read'.at = read.at
         /\ read'.project = read.project /\ read'.ids = read.ids
         /\ read'.todo = read.todo /\ read'.hot = read.hot
         /\ read'.cold = read.cold /\ read'.issues = read.issues
         /\ read'.held = read.held \cap Served(db')
         /\ read'.ever = read.ever \cup Ours(Stored(db'))
         /\ read'.moved = read.moved \cup Ours(db.records \ db'.records)
                             \cup Ours(Archive(db) \ Archive(db'))
         /\ read'.known = read.known \cap ServedIssues(db', read.project)
<1>1. DOMAIN read = {"kind", "at", "project", "ids", "todo", "hot", "cold",
                     "issues", "held", "ever", "moved", "known"}
  BY DEF ReadInv, NoRead
<1>2. read' = [read EXCEPT
                 !.held = @ \cap Served(db'),
                 !.ever = @ \cup Ours(Stored(db')),
                 !.moved = @ \cup Ours(db.records \ db'.records)
                             \cup Ours(Archive(db) \ Archive(db')),
                 !.known = @ \cap ServedIssues(db', read.project)]
  BY DEF Mutate
<1> QED  BY <1>1, <1>2 DEF NoRead

\* A step of a mutator leaves every read in progress on its way.
LEMMA MutateKeeps ==
  ASSUME StoreInv, TypeOK', HomesInv, ReadInv, Mutate, Reading
  PROVE  ReadInv'
<1> DEFINE ours(X) == IF read.kind = "status" THEN X
                      ELSE Asked(X, read.project, read.ids)
           left == ours(db.records \ db'.records)
           unpublished == ours(Archive(db) \ Archive(db'))
<1>1. /\ DOMAIN read' = DOMAIN NoRead
      /\ read'.kind = read.kind /\ read'.at = read.at
      /\ read'.project = read.project /\ read'.ids = read.ids
      /\ read'.todo = read.todo /\ read'.hot = read.hot
      /\ read'.cold = read.cold /\ read'.issues = read.issues
      /\ read'.held = read.held \cap Served(db')
      /\ read'.ever = read.ever \cup ours(Stored(db'))
      /\ read'.moved = read.moved \cup left \cup unpublished
      /\ read'.known = read.known \cap ServedIssues(db', read.project)
  BY MutateFields DEF Ours
<1>2. \A X : ours(X) \subseteq X
  BY DEF Asked
<1>3. \A X, Y : ours(X \cup Y) = ours(X) \cup ours(Y)
  BY DEF Asked
<1>4. \A X, Y : \A x : x \in ours(X) /\ x \in Y => x \in ours(Y)
  BY DEF Asked
<1>5. /\ read.held \subseteq ours(Served(db))
      /\ ours(Stored(db)) \subseteq read.ever
      /\ read.ever = ours(read.ever)
      /\ read.known \subseteq ServedIssues(db, read.project)
  BY DEF ReadInv, HistoryInv, Ours
<1> HIDE DEF ours, left, unpublished
<1>6. HistoryInv'
  <2>1. read'.held \subseteq ours(Served(db'))  BY <1>1, <1>4, <1>5
  <2>2. read'.ever = ours(read'.ever)
    BY <1>1, <1>2, <1>3, <1>4, <1>5
  <2> QED  BY <1>1, <2>1, <2>2 DEF HistoryInv, Ours, ours
<1>7. \A x \in read.ever \cap db.records : x \in db'.records \cup read'.moved
  BY <1>1, <1>4, <1>5 DEF left
<1>8. ASSUME NEW x \in read'.held, NEW m \in db.manifests, x \in m.rows
      PROVE  m \in db'.manifests
  BY <1>1, <1>8, ArchivedStays DEF Mutate, Served
<1>9. read'.held \cap Archive(db) \subseteq Archive(db')
  BY <1>8 DEF Archive
<1>10. AnswersAreRight'
  <2>1. Stored(db') \subseteq RecordRow /\ db.records \subseteq RecordRow
        /\ Archive(db) \subseteq RecordRow
    BY DEF StoreInv, TypeOK, Database, Stored, Archive, Manifest
  <2>2. ReadTypeOK  BY DEF ReadInv, AnswersAreRight
  <2>3. read'.hot \cup read'.cold \cup read'.held \cup read'.ever
           \cup read'.moved \subseteq RecordRow
    BY <1>1, <1>2, <2>1, <2>2 DEF ReadTypeOK, left, unpublished
  <2>4. ReadTypeOK'
    BY <1>1, <2>2, <2>3 DEF ReadTypeOK
  <2>5. read'.at # "done"  BY <1>1 DEF Reading
  <2> QED
    BY <2>4, <2>5 DEF AnswersAreRight, QueryFindsStored, Answered,
         MetricCountsMovedTwice, GetFindsUnmoved, IssuesFindLasting,
         StatusCountsOnce
<1>11. Listed' = Listed  BY <1>1 DEF Listed
<1>12. pc' \in {"rename", "publish"} => part'.part \notin Listed'
  <2>1. ASSUME NEW x \in Cold, NEW p \in Parts, WriteTemporary(x, p)
        PROVE  part'.part \notin Listed
    <3> DEFINE rows == {y \in Cold : SameGroup(x, y)}
               new == [part |-> p, ext |-> "tmp", rows |-> rows]
    <3>1. new \in files' /\ part'.part = p
      BY <2>1 DEF WriteTemporary
    <3>2. new.part = p /\ new \notin files
      BY <2>1 DEF WriteTemporary, Fresh
    <3> QED  BY <3>1, <3>2 DEF Mutate
  <2>2. part' = part /\ pc \in {"rename", "publish"}
           => part'.part \notin Listed
    BY DEF ReadInv
  <2> QED  BY <1>11, <2>1, <2>2, InFlight DEF Mutate, StoreInv
<1>13. read.at = "rows" => RowsRead'
  <2> SUFFICES ASSUME read.at = "rows"  PROVE RowsRead'
    OBVIOUS
  <2>1. RowsRead  BY DEF ReadInv
  <2> QED  BY <1>1, <1>7, <1>9, <2>1 DEF RowsRead
<1>14. read.at = "files" => FilesRead'
  <2> SUFFICES ASSUME read.at = "files"  PROVE FilesRead'
    OBVIOUS
  <2>1. FilesRead  BY DEF ReadInv
  <2>2. Found' = Found /\ ToRead' = ToRead  BY <1>1 DEF Found, ToRead
  <2>3. ASSUME NEW m \in read.todo, NEW n \in db'.manifests, n.part = m.part
        PROVE  n = m
    <3>1. m.part \in Listed  BY DEF Listed
    <3>2. n \in db.manifests
      BY <2>3, <3>1, NewManifest DEF Mutate, ReadInv
    <3> QED  BY <2>1, <2>3, <3>2 DEF FilesRead
  <2> QED  BY <1>1, <2>1, <2>2, <2>3 DEF FilesRead
<1>15. read.at = "row" => RowRead'
  <2> SUFFICES ASSUME read.at = "row"  PROVE RowRead'
    OBVIOUS
  <2>1. RowRead  BY DEF ReadInv
  <2> QED  BY <1>1, <1>7, <2>1 DEF RowRead
<1>16. read.at = "archive_ids" => IdRead'
  BY <1>1, <1>9 DEF ReadInv, IdRead
<1>17. read.at = "manifest" => ManifestRead'
  <2> SUFFICES ASSUME read.at = "manifest"  PROVE ManifestRead'
    OBVIOUS
  <2>1. ManifestRead  BY DEF ReadInv
  <2> QED  BY <1>1, <1>8, <2>1 DEF ManifestRead
<1>18. read.at = "issues" => read'.kind = "issues"
          /\ read'.known \subseteq read'.issues \cup {e.id : e \in read'.todo}
  BY <1>1 DEF ReadInv
<1>19. read.at = "count" => CountRead'
  <2> SUFFICES ASSUME read.at = "count"  PROVE CountRead'
    OBVIOUS
  <2>1. CountRead  BY DEF ReadInv
  <2>2. \A X : ours(X) = X  BY <2>1 DEF CountRead, ours
  <2> QED
    BY <1>1, <2>1, <2>2 DEF CountRead, left, unpublished
<1>20. read.at \in {"list", "sizes"} => SizeRead'
  BY <1>1 DEF ReadInv, SizeRead, Found
<1>21. read.at # "idle"  BY DEF Reading
<1> QED
  BY <1>1, <1>6, <1>10, <1>11, <1>12, <1>13, <1>14, <1>15, <1>16, <1>17,
     <1>18, <1>19, <1>20, <1>21 DEF ReadInv


-----------------------------------------------------------------------------
(* What a look of a reader does.                                           *)

Fields == {"kind", "at", "project", "ids", "todo", "hot", "cold", "issues",
           "held", "ever", "moved", "known"}

\* The fields of a read are those of NoRead.
LEMMA ReadFields == DOMAIN NoRead = Fields
BY DEF NoRead, Fields

\* The store and what the read remembers of it stay as they are.
SameHistory ==
    /\ UNCHANGED vars
    /\ DOMAIN read' = DOMAIN NoRead
    /\ read'.kind = read.kind /\ read'.project = read.project
    /\ read'.ids = read.ids /\ read'.held = read.held
    /\ read'.ever = read.ever /\ read'.moved = read.moved
    /\ read'.known = read.known

\* A read goes on to its next look.
LEMMA ContinueFields ==
  ASSUME ReadInv, NEW at, NEW todo, Continue(at, todo)
  PROVE  /\ SameHistory
         /\ read'.at = at /\ read'.todo = todo /\ read'.hot = read.hot
         /\ read'.cold = read.cold /\ read'.issues = read.issues
<1>1. DOMAIN read = Fields /\ DOMAIN NoRead = Fields
  BY ReadFields DEF ReadInv
<1> QED  BY <1>1 DEF Continue, SameHistory, Fields

\* A read begins with nothing found.
LEMMA BeginFields ==
  ASSUME NEW kind, NEW p, NEW ids, NEW at, NEW todo,
         Begin(kind, p, ids, at, todo)
  PROVE  /\ ~opening /\ read.at = "idle" /\ kind \in Reads /\ UNCHANGED vars
         /\ DOMAIN read' = DOMAIN NoRead
         /\ read'.kind = kind /\ read'.at = at /\ read'.project = p
         /\ read'.ids = ids /\ read'.todo = todo
         /\ read'.hot = {} /\ read'.cold = {} /\ read'.issues = {}
         /\ read'.held = Asked(Served(db), p, ids)
         /\ read'.ever = Asked(Stored(db), p, ids)
         /\ read'.moved = {}
         /\ read'.known = ServedIssues(db, p)
BY DEF Begin, NoRead

\* Before its last look a read has answered nothing.
LEMMA NotAnswered ==
  ASSUME ReadTypeOK', read'.at # "done"
  PROVE  AnswersAreRight'
BY DEF AnswersAreRight, QueryFindsStored, Answered, MetricCountsMovedTwice,
       GetFindsUnmoved, IssuesFindLasting, StatusCountsOnce

\* A look keeps the types and what the read remembers.
LEMMA LookKeeps ==
  ASSUME ReadInv, Reading, SameHistory,
         read'.hot \cup read'.cold \subseteq RecordRow,
         read'.issues \subseteq Issues,
         read'.at \in {"rows", "files", "row", "archive_ids", "manifest",
                       "issues", "count", "list", "sizes", "done", "failed"}
  PROVE  HistoryInv' /\ ReadTypeOK'
<1>1. ReadTypeOK /\ HistoryInv  BY DEF ReadInv, AnswersAreRight
<1>2. db' = db  BY DEF SameHistory, vars
<1>3. HistoryInv'  BY <1>1, <1>2 DEF HistoryInv, SameHistory, Ours
<1>4. ReadTypeOK'  BY <1>1 DEF ReadTypeOK, SameHistory
<1> QED  BY <1>3, <1>4

\* A read that begins knows what is stored.
LEMMA BeginKeeps ==
  ASSUME StoreInv, NEW kind \in Kinds \ {"status"}, NEW p \in Nat,
         NEW ids \in SUBSET Records,
         NEW at \in {"rows", "row", "archive_ids", "issues"}, NEW todo,
         Begin(kind, p, ids, at, todo)
  PROVE  HistoryInv' /\ AnswersAreRight'
<1>1. /\ db' = db
      /\ read'.kind = kind /\ read'.at = at /\ read'.project = p
      /\ read'.ids = ids /\ read'.hot = {} /\ read'.cold = {}
      /\ read'.issues = {}
      /\ read'.held = Asked(Served(db), p, ids)
      /\ read'.ever = Asked(Stored(db), p, ids)
      /\ read'.moved = {} /\ read'.known = ServedIssues(db, p)
  BY BeginFields DEF vars
<1>2. HistoryInv'
  <2>1. Served(db) \subseteq Stored(db)  BY DEF Served
  <2> QED  BY <1>1, <2>1 DEF HistoryInv, Ours, Asked
<1>3. Stored(db) \subseteq RecordRow /\ db.issues \subseteq IssueRow
  BY DEF StoreInv, TypeOK, Database, Stored, Manifest
<1>4. ReadTypeOK'
  <2>1. read'.known \subseteq Issues
    BY <1>1, <1>3 DEF ServedIssues, Of, IssueRow
  <2>2. read'.held \cup read'.ever \subseteq RecordRow
    BY <1>1, <1>3 DEF Asked, Served
  <2> QED  BY <1>1, <2>1, <2>2 DEF ReadTypeOK
<1>5. read'.at # "done"  BY <1>1
<1> QED  BY <1>2, <1>4, <1>5, NotAnswered

\* The served projects of the database are in order.
LEMMA ServedFit ==
  ASSUME StoreInv, NEW p \in Serving(db)
  PROVE  LookupsFit(db, p) /\ IssuesFit(db, p)
BY DEF StoreInv, ConsistencyInv, FilesInv, SyncedAgree, Sound

\* A query begins with the hot rows its index names: all of a served project.
LEMMA BeginQueryKeeps ==
  ASSUME StoreInv, HomesInv, ReadInv, NEW p \in Nat, NEW kind, NEW s,
         BeginQuery(kind, p, s)
  PROVE  ReadInv'
<1> DEFINE ids == OfSignal(s)
           todo == Indexed(db, p, ids)
<1>1. Begin(kind, p, ids, "rows", todo) /\ kind \in {"search", "metric"}
  BY DEF BeginQuery
<1>2. ids \in SUBSET Records  BY DEF OfSignal
<1> HIDE DEF ids
<1>3. /\ db' = db /\ pc' = pc /\ part' = part
      /\ DOMAIN read' = DOMAIN NoRead
      /\ read'.kind = kind /\ read'.at = "rows" /\ read'.todo = todo
      /\ read'.hot = {} /\ read'.cold = {}
      /\ read'.held = Asked(Served(db), p, ids)
      /\ read'.ever = Asked(Stored(db), p, ids)
  BY <1>1, BeginFields DEF vars
<1>4. HistoryInv' /\ AnswersAreRight'
  BY <1>1, <1>2, BeginKeeps DEF Kinds
<1>5. todo \subseteq Asked(Stored(db), p, ids)
  BY DEF Indexed, Asked, Stored
<1>6. ASSUME NEW x \in Asked(Served(db), p, ids)
      PROVE  x \in todo \cup Archive(db)
  <2>1. x.project = p /\ p \in Serving(db) /\ x.id \in ids
        /\ x \in Stored(db)
    BY DEF Asked, Served
  <2>2. CASE x \in db.records
    <3>1. EventIndex(x) \in {EventIndex(y) : y \in Of(db.records, p)}
      BY <2>1, <2>2 DEF Of
    <3>2. EventIndex(x) \in Of(db.record_indexes, p)
      BY <2>1, <3>1, ServedFit DEF LookupsFit
    <3> QED  BY <2>1, <2>2, <3>2 DEF Of, Indexed, Asked
  <2>3. CASE x \notin db.records
    BY <2>1, <2>3 DEF Stored, Archive
  <2> QED  BY <2>2, <2>3
<1> HIDE DEF todo
<1>7. RowsRead'
  BY <1>1, <1>3, <1>5, <1>6 DEF RowsRead
<1>8. Listed' = {}  BY <1>3 DEF Listed
<1> QED  BY <1>3, <1>4, <1>7, <1>8 DEF ReadInv

\* record_ids tells where a stored record is.
LEMMA BeginGetKeeps ==
  ASSUME StoreInv, HomesInv, ReadInv, NEW p \in Nat, NEW r \in Records,
         BeginGet(p, r)
  PROVE  ReadInv'
<1> DEFINE key == [project |-> p, id |-> r]
           hot == {x \in db.records : Key(x) = key}
<1>1. \A x : Key(x) = key <=> x.project = p /\ x.id = r
  BY DEF Key
<1>2. \A x \in Asked(Served(db), p, {r}) :
        x.project = p /\ p \in Serving(db) /\ x \in Stored(db) /\ Key(x) = key
  BY <1>1 DEF Asked, Served
<1>3. ASSUME NEW x \in Asked(Served(db), p, {r})
      PROVE  key \in db.record_ids <=> x \in db.records
  <2>1. Of(db.record_ids, p) = {Key(y) : y \in Of(db.records, p)}
    BY <1>2, ServedFit DEF LookupsFit
  <2>2. key \in db.record_ids <=> key \in Of(db.record_ids, p)
    BY DEF Of
  <2>3. ASSUME key \in db.record_ids  PROVE x \in db.records
    <3>1. PICK y \in db.records : Key(y) = key
      BY <2>1, <2>2, <2>3 DEF Of
    <3>2. y \in Stored(db)  BY DEF Stored
    <3>3. x = y  BY <1>2, <3>1, <3>2 DEF HomesInv, OneHome
    <3> QED  BY <3>3
  <2>4. ASSUME x \in db.records  PROVE key \in db.record_ids
    <3>1. x \in Of(db.records, p)  BY <1>2, <2>4 DEF Of
    <3> QED  BY <1>2, <2>1, <2>2, <3>1
  <2> QED  BY <2>3, <2>4
<1> HIDE DEF key
<1>4. ASSUME NEW at \in {"row", "archive_ids"}, NEW todo,
             Begin("get", p, {r}, at, todo)
      PROVE  /\ db' = db /\ pc' = pc /\ part' = part
             /\ DOMAIN read' = DOMAIN NoRead
             /\ read'.kind = "get" /\ read'.at = at /\ read'.todo = todo
             /\ read'.project = p /\ read'.ids = {r}
             /\ read'.hot = {} /\ read'.cold = {}
             /\ read'.held = Asked(Served(db), p, {r})
             /\ read'.ever = Asked(Stored(db), p, {r})
             /\ Listed' = {}
             /\ HistoryInv' /\ AnswersAreRight'
  <2>1. "get" \in Kinds \ {"status"}  BY DEF Kinds
  <2>2. /\ db' = db /\ pc' = pc /\ part' = part
        /\ DOMAIN read' = DOMAIN NoRead
        /\ read'.kind = "get" /\ read'.at = at /\ read'.todo = todo
        /\ read'.project = p /\ read'.ids = {r}
        /\ read'.hot = {} /\ read'.cold = {}
        /\ read'.held = Asked(Served(db), p, {r})
        /\ read'.ever = Asked(Stored(db), p, {r})
    BY <1>4, BeginFields DEF vars
  <2>3. HistoryInv' /\ AnswersAreRight'
    BY <1>4, <2>1, BeginKeeps
  <2>4. Listed' = {}  BY <2>2 DEF Listed
  <2> QED  BY <2>2, <2>3, <2>4
<1>5. CASE key \in db.record_ids
  <2>1. Begin("get", p, {r}, "row", hot)
    BY <1>5 DEF BeginGet, key
  <2>2. hot \subseteq db.records /\ hot \subseteq Asked(Stored(db), p, {r})
    BY <1>1 DEF Asked, Stored
  <2>3. \A x, y \in hot : x = y
    BY DEF HomesInv, OneHome, Stored
  <2>4. Asked(Served(db), p, {r}) \subseteq hot
    BY <1>2, <1>3, <1>5
  <2> HIDE DEF hot
  <2>5. RowRead'
    BY <1>4, <2>1, <2>2, <2>3, <2>4 DEF RowRead
  <2> QED  BY <1>4, <2>1, <2>5 DEF ReadInv
<1>6. CASE key \notin db.record_ids
  <2>1. Begin("get", p, {r}, "archive_ids", {key})
    BY <1>6 DEF BeginGet, key
  <2>2. Asked(Served(db), p, {r}) \subseteq Archive(db)
    BY <1>2, <1>3, <1>6 DEF Stored, Archive
  <2>3. IdRead'
    BY <1>4, <2>1, <2>2 DEF IdRead, key
  <2> QED  BY <1>4, <2>1, <2>3 DEF ReadInv
<1> QED  BY <1>5, <1>6


\* Every issue of a served project has its time index.
LEMMA BeginIssuesKeeps ==
  ASSUME StoreInv, ReadInv, NEW p \in Nat, BeginIssues(p)
  PROVE  ReadInv'
<1> DEFINE todo == {e \in Of(db.record_indexes, p) : e.kind = "u"}
<1>1. Begin("issues", p, {}, "issues", todo)  BY DEF BeginIssues
<1>2. /\ db' = db /\ pc' = pc /\ part' = part
      /\ DOMAIN read' = DOMAIN NoRead
      /\ read'.kind = "issues" /\ read'.at = "issues" /\ read'.todo = todo
      /\ read'.known = ServedIssues(db, p)
  BY <1>1, BeginFields DEF vars
<1>3. HistoryInv' /\ AnswersAreRight'
  BY <1>1, BeginKeeps DEF Kinds
<1>4. ASSUME NEW u \in ServedIssues(db, p)
      PROVE  u \in {e.id : e \in todo}
  <2>1. PICK i \in Of(db.issues, p) : i.issue = u /\ p \in Serving(db)
    BY DEF ServedIssues
  <2>2. todo = {IssueIndex(j) : j \in Of(db.issues, p)}
    BY <2>1, ServedFit DEF IssuesFit
  <2>3. IssueIndex(i) \in todo /\ IssueIndex(i).id = u
    BY <2>1, <2>2 DEF IssueIndex
  <2> QED  BY <2>3
<1> HIDE DEF todo
<1>5. Listed' = {}  BY <1>2 DEF Listed
<1> QED  BY <1>2, <1>3, <1>4, <1>5 DEF ReadInv

\* Each stored row is in the manifests or among the hot records.
LEMMA BeginStatusKeeps ==
  ASSUME StoreInv, ReadInv, BeginStatus
  PROVE  ReadInv'
<1>1. /\ db' = db /\ pc' = pc /\ part' = part
      /\ DOMAIN read' = DOMAIN NoRead
      /\ read'.kind = "status" /\ read'.at = "count" /\ read'.project = 0
      /\ read'.ids = {} /\ read'.hot = {} /\ read'.cold = Archive(db)
      /\ read'.issues = {} /\ read'.held = Served(db)
      /\ read'.ever = Stored(db) /\ read'.moved = {} /\ read'.known = {}
  BY DEF BeginStatus, NoRead, Archive, vars
<1>2. Served(db) \subseteq Stored(db)
      /\ Stored(db) = db.records \cup Archive(db)
  BY DEF Served, Stored, Archive
<1>3. Stored(db) \subseteq RecordRow
  BY DEF StoreInv, TypeOK, Database, Stored, Manifest
<1>4. HistoryInv'  BY <1>1, <1>2 DEF HistoryInv, Ours
<1>5. ReadTypeOK'  BY <1>1, <1>2, <1>3 DEF ReadTypeOK, Kinds
<1>6. AnswersAreRight'  BY <1>1, <1>5, NotAnswered
<1>7. CountRead'  BY <1>1, <1>2 DEF CountRead
<1>8. Listed' = {}  BY <1>1 DEF Listed
<1> QED  BY <1>1, <1>4, <1>6, <1>7, <1>8 DEF ReadInv

\* No read is in progress.
LEMMA ReturnKeeps ==
  ASSUME read' = NoRead
  PROVE  ReadInv'
<1>1. /\ DOMAIN read' = DOMAIN NoRead
      /\ read'.kind = "none" /\ read'.at = "idle" /\ read'.project = 0
      /\ read'.ids = {} /\ read'.hot = {} /\ read'.cold = {}
      /\ read'.issues = {} /\ read'.held = {} /\ read'.ever = {}
      /\ read'.moved = {} /\ read'.known = {}
  BY DEF NoRead
<1>2. ReadTypeOK'  BY <1>1 DEF ReadTypeOK
<1>3. AnswersAreRight'  BY <1>1, <1>2, NotAnswered
<1>4. Listed' = {}  BY <1>1 DEF Listed
<1> QED  BY <1>1, <1>3, <1>4 DEF ReadInv, Reading

\* A row that the index named is found, or it has left for the archive.
LEMMA FetchRowKeeps ==
  ASSUME StoreInv, ReadInv, NEW x \in read.todo, FetchRow(x)
  PROVE  ReadInv'
<1>1. RowsRead /\ Reading /\ HistoryInv /\ ReadTypeOK
  BY DEF FetchRow, ReadInv, Reading, AnswersAreRight
<1>2. DOMAIN read = Fields /\ DOMAIN NoRead = Fields
  BY ReadFields DEF ReadInv
<1>3. /\ SameHistory /\ db' = db
      /\ read.at = "rows" /\ read'.at = "rows"
      /\ read'.todo = read.todo \ {x}
      /\ read'.hot = read.hot \cup ({x} \cap db.records)
      /\ read'.cold = read.cold /\ read'.issues = read.issues
  BY <1>2 DEF FetchRow, SameHistory, Fields, vars
<1>4. x \in read.held => x \in db.records \cup Archive(db)
  BY <1>1 DEF HistoryInv, Ours, Asked, Served, Stored, Archive
<1>5. db.records \subseteq RecordRow
  BY DEF StoreInv, TypeOK, Database
<1>6. HistoryInv' /\ ReadTypeOK'
  <2>1. read'.hot \cup read'.cold \subseteq RecordRow
        /\ read'.issues \subseteq Issues
    BY <1>1, <1>3, <1>5 DEF ReadTypeOK
  <2> QED  BY <1>1, <1>3, <2>1, LookKeeps
<1>7. RowsRead'
  BY <1>1, <1>3, <1>4 DEF RowsRead, SameHistory
<1>8. AnswersAreRight'  BY <1>3, <1>6, NotAnswered
<1>9. Listed' = {}  BY <1>3 DEF Listed
<1> QED  BY <1>3, <1>6, <1>7, <1>8, <1>9 DEF ReadInv, SameHistory

\* What has left the hot tier is in a part that is listed afterwards.
LEMMA ListManifestsKeeps ==
  ASSUME StoreInv, HomesInv, ReadInv, ListManifests
  PROVE  ReadInv'
<1> DEFINE todo == Shelves(db, read.project, read.ids)
<1>1. RowsRead /\ Reading /\ HistoryInv /\ ReadTypeOK
      /\ read.at = "rows" /\ read.todo = {}
  BY DEF ListManifests, ReadInv, Reading, AnswersAreRight
<1>2. /\ SameHistory /\ db' = db /\ pc' = pc /\ part' = part
      /\ read'.at = "files" /\ read'.todo = todo
      /\ read'.hot = read.hot /\ read'.cold = {}
      /\ read'.issues = read.issues
  BY <1>1, ContinueFields DEF ListManifests, SameHistory, vars, RowsRead
<1>3. HistoryInv' /\ ReadTypeOK'
  <2>1. read'.hot \cup read'.cold \subseteq RecordRow
        /\ read'.issues \subseteq Issues
    BY <1>1, <1>2 DEF ReadTypeOK
  <2> QED  BY <1>1, <1>2, <2>1, LookKeeps
<1>4. \A m \in todo : m \in db.manifests  BY DEF Shelves
<1>5. /\ ToRead' = UNION {Asked(m.rows, read.project, read.ids) : m \in todo}
      /\ Found' = read.hot
  BY <1>2 DEF ToRead, Found, SameHistory
<1>6. ASSUME NEW x \in read.held, x \in Archive(db)
      PROVE  x \in ToRead'
  <2>1. PICK m \in db.manifests : x \in m.rows  BY <1>6 DEF Archive
  <2>2. x \in Asked(m.rows, read.project, read.ids)
    BY <1>1, <2>1 DEF HistoryInv, RowsRead, Ours, Asked
  <2>3. m.signal = SignalOf[x.id] /\ m.project = x.project
    BY <2>1 DEF HomesInv, OneHome, StoreInv, ConsistencyInv, FilesInv,
                SyncedAgree, Sound
  <2>4. m \in todo  BY <2>2, <2>3 DEF Shelves, Asked
  <2> QED  BY <1>5, <2>2, <2>4
<1>7. ToRead' \subseteq read.ever
  <2>1. \A m \in todo : Asked(m.rows, read.project, read.ids)
                           \subseteq Ours(Stored(db))
    BY <1>1, <1>4 DEF Ours, RowsRead, Asked, Stored
  <2> QED  BY <1>1, <1>5, <2>1 DEF HistoryInv
<1>8. read.hot \cap ToRead' \subseteq read.moved
  <2>1. ToRead' \cap db.records = {}
    BY <1>4, <1>5 DEF Asked, HomesInv, OneHome
  <2> QED  BY <1>1, <2>1 DEF RowsRead
<1>9. \A m \in todo : \A n \in db.manifests : n.part = m.part => n = m
  BY <1>4 DEF StoreInv, FilesInv
<1>10. pc \in {"rename", "publish"} => part.part \notin {m.part : m \in todo}
  BY <1>4 DEF StoreInv, FilesInv
<1>11. Listed' = {m.part : m \in todo}  BY <1>2 DEF Listed
<1> HIDE DEF todo
<1>12. FilesRead'
  <2>1. read'.held \subseteq Found' \cup ToRead'
    BY <1>1, <1>2, <1>5, <1>6 DEF SameHistory, RowsRead
  <2>2. Found' \cup ToRead' \subseteq read'.ever
        /\ read'.hot \cap (read'.cold \cup ToRead') \subseteq read'.moved
    BY <1>1, <1>2, <1>5, <1>7, <1>8 DEF SameHistory, RowsRead
  <2>3. read'.kind \in {"search", "metric"}
    BY <1>1, <1>2 DEF SameHistory, RowsRead
  <2> QED  BY <1>2, <1>9, <2>1, <2>2, <2>3 DEF FilesRead
<1>13. AnswersAreRight'  BY <1>2, <1>3, NotAnswered
<1> QED
  BY <1>2, <1>3, <1>10, <1>11, <1>12, <1>13 DEF ReadInv, SameHistory


\* At most one element.
LEMMA AtMostOne ==
  ASSUME NEW S, \A x, y \in S : x = y
  PROVE  Cardinality(S) <= 1
<1>1. CASE S = {}  BY <1>1, FS_EmptySet
<1>2. ASSUME NEW x \in S  PROVE Cardinality(S) <= 1
  <2>1. S = {x}  BY <1>2
  <2> QED  BY <2>1, FS_Singleton
<1> QED  BY <1>1, <1>2

\* A file that is read holds what its manifest listed.
LEMMA ReadFileKeeps ==
  ASSUME StoreInv, ReadInv, NEW m \in read.todo, ReadFile(m)
  PROVE  ReadInv'
<1> DEFINE rows == Asked(m.rows, read.project, read.ids)
<1>1. FilesRead /\ Reading /\ HistoryInv /\ ReadTypeOK
      /\ read.at = "files"
  BY DEF ReadFile, ReadInv, Reading, AnswersAreRight
<1>2. DOMAIN read = Fields /\ DOMAIN NoRead = Fields
  BY ReadFields DEF ReadInv
<1>3. /\ SameHistory /\ db' = db /\ pc' = pc /\ part' = part
      /\ read'.at = "files" /\ read'.todo = read.todo \ {m}
      /\ read'.hot = read.hot /\ read'.cold = read.cold \cup rows
      /\ read'.issues = read.issues
  BY <1>1, <1>2 DEF ReadFile, SameHistory, Fields, vars
<1>4. rows \subseteq ToRead  BY DEF ToRead
<1>5. ToRead' \subseteq ToRead /\ ToRead \subseteq ToRead' \cup rows
  BY <1>3 DEF ToRead, SameHistory
<1> HIDE DEF rows
<1>6. Found' = Found \cup rows  BY <1>3 DEF Found
<1>7. HistoryInv' /\ ReadTypeOK'
  <2>1. read'.hot \cup read'.cold \subseteq RecordRow
        /\ read'.issues \subseteq Issues
    BY <1>1, <1>3, <1>4 DEF ReadTypeOK, FilesRead
  <2> QED  BY <1>1, <1>3, <2>1, LookKeeps
<1>8. FilesRead'
  <2>1. Found' \cup ToRead' = Found \cup ToRead
    BY <1>4, <1>5, <1>6
  <2>2. read'.cold \cup ToRead' = read.cold \cup ToRead
    BY <1>3, <1>4, <1>5
  <2> QED  BY <1>1, <1>3, <2>1, <2>2 DEF FilesRead, SameHistory
<1>9. AnswersAreRight'  BY <1>3, <1>7, NotAnswered
<1>10. Listed' \subseteq Listed  BY <1>1, <1>3 DEF Listed
<1> QED
  BY <1>3, <1>7, <1>8, <1>9, <1>10 DEF ReadInv, SameHistory

\* A read that fails answers nothing.
LEMMA FailureKeeps ==
  ASSUME ReadInv, Reading, NEW todo, Continue("failed", todo)
  PROVE  ReadInv'
<1>1. /\ SameHistory /\ read'.at = "failed"
      /\ read'.hot = read.hot /\ read'.cold = read.cold
      /\ read'.issues = read.issues
  BY ContinueFields
<1>2. HistoryInv' /\ ReadTypeOK'
  <2>1. read'.hot \cup read'.cold \subseteq RecordRow
        /\ read'.issues \subseteq Issues
    BY <1>1 DEF ReadInv, AnswersAreRight, ReadTypeOK
  <2> QED  BY <1>1, <2>1, LookKeeps
<1>3. AnswersAreRight'  BY <1>1, <1>2, NotAnswered
<1>4. Listed' = {}  BY <1>1 DEF Listed
<1> QED  BY <1>1, <1>2, <1>3, <1>4 DEF ReadInv, SameHistory

\* A read that answers is right when its kind's answer is.
LEMMA AnswerKeeps ==
  ASSUME ReadInv, Reading, SameHistory, read'.at = "done",
         read'.hot \cup read'.cold \subseteq RecordRow,
         read'.issues \subseteq Issues,
         \/ /\ read'.kind \in {"search", "metric"}
            /\ read'.held \subseteq Found' /\ Found' \subseteq read'.ever
            /\ read'.hot \cap read'.cold \subseteq read'.moved
         \/ /\ read'.kind = "get" /\ Found' \subseteq read'.ever
            /\ \A x, y \in Found' : x = y
            /\ Found' = {} => read'.held \subseteq read'.moved
         \/ read'.kind = "issues" /\ read'.known \subseteq read'.issues
         \/ /\ read'.kind = "status" /\ Found' \subseteq read'.ever
            /\ read'.hot \cap read'.cold \subseteq read'.moved
            /\ read'.held \subseteq Found' \cup read'.moved
  PROVE  ReadInv'
<1>1. HistoryInv' /\ ReadTypeOK'  BY LookKeeps
<1>2. read'.kind = "get" => Cardinality(Found') <= 1
  BY AtMostOne
<1>3. QueryFindsStored' /\ MetricCountsMovedTwice'
  BY DEF QueryFindsStored, MetricCountsMovedTwice, Answered
<1>4. GetFindsUnmoved'
  BY <1>2 DEF GetFindsUnmoved, Answered
<1>5. IssuesFindLasting' /\ StatusCountsOnce'
  BY DEF IssuesFindLasting, StatusCountsOnce, Answered
<1>6. AnswersAreRight'
  BY <1>1, <1>3, <1>4, <1>5 DEF AnswersAreRight
<1>7. Listed' = {}  BY DEF Listed
<1> QED  BY <1>1, <1>6, <1>7 DEF ReadInv, SameHistory

\* Once every listed file is read, the answer is complete.
LEMMA AllFilesReadKeeps ==
  ASSUME ReadInv, AllFilesRead
  PROVE  ReadInv'
<1>1. FilesRead /\ Reading /\ ReadTypeOK /\ read.todo = {}
  BY DEF AllFilesRead, ReadInv, Reading, AnswersAreRight
<1>2. /\ SameHistory /\ read'.at = "done" /\ read'.hot = read.hot
      /\ read'.cold = read.cold /\ read'.issues = read.issues
  BY ContinueFields DEF AllFilesRead
<1>3. Found' = Found /\ ToRead = {}
  BY <1>1, <1>2 DEF Found, ToRead
<1>4. read'.hot \cup read'.cold \subseteq RecordRow
      /\ read'.issues \subseteq Issues
  BY <1>1, <1>2 DEF ReadTypeOK
<1>5. /\ read'.held \subseteq Found' /\ Found' \subseteq read'.ever
      /\ read'.hot \cap read'.cold \subseteq read'.moved
      /\ read'.kind \in {"search", "metric", "get"}
      /\ read'.kind = "get" => \A x, y \in Found' : x = y
  BY <1>1, <1>2, <1>3 DEF FilesRead, SameHistory
<1> QED  BY <1>1, <1>2, <1>4, <1>5, AnswerKeeps

\* The row that record_ids named is found, or it has left for the archive.
LEMMA GetRowKeeps ==
  ASSUME StoreInv, ReadInv, GetRow
  PROVE  ReadInv'
<1>1. RowRead /\ Reading /\ ReadTypeOK
  BY DEF GetRow, ReadInv, Reading, AnswersAreRight
<1>2. DOMAIN read = Fields /\ DOMAIN NoRead = Fields
  BY ReadFields DEF ReadInv
<1>3. /\ SameHistory /\ read'.at = "done"
      /\ read'.hot = read.todo \cap db.records
      /\ read'.cold = read.cold /\ read'.issues = read.issues
  BY <1>2 DEF GetRow, SameHistory, Fields, vars
<1>4. Found' = read.todo \cap db.records
  BY <1>1, <1>3 DEF Found, RowRead
<1>5. read'.hot \cup read'.cold \subseteq RecordRow
      /\ read'.issues \subseteq Issues
  BY <1>1, <1>3 DEF ReadTypeOK, StoreInv, TypeOK, Database
<1>6. /\ read'.kind = "get" /\ Found' \subseteq read'.ever
      /\ \A x, y \in Found' : x = y
      /\ Found' = {} => read'.held \subseteq read'.moved
  BY <1>1, <1>3, <1>4 DEF RowRead, SameHistory
<1> QED  BY <1>1, <1>3, <1>5, <1>6, AnswerKeeps

\* An archived row that a served project still has is named by archive_ids.
LEMMA ArchivedIsNamed ==
  ASSUME StoreInv, NEW x \in Archive(db), x \in Served(db)
  PROVE  \E m \in db.manifests, a \in db.archive_ids :
            x \in m.rows /\ a.part = m.part /\ Key(a) = Key(x)
<1>1. PICK m \in db.manifests : x \in m.rows  BY DEF Archive
<1>2. m.project = x.project
  BY <1>1 DEF StoreInv, ConsistencyInv, FilesInv, SyncedAgree, Sound
<1> DEFINE p == x.project
           a == [project |-> p, id |-> x.id, part |-> m.part]
<1>3. p \in Serving(db)  BY DEF Served
<1>4. m \in Of(db.manifests, p)  BY <1>2 DEF Of
<1>5. a \in UNION {{[project |-> p, id |-> y.id, part |-> n.part] :
                       y \in n.rows} : n \in Of(db.manifests, p)}
  BY <1>1, <1>4
<1>6. a \in Of(db.archive_ids, p)  BY <1>3, <1>5, ServedFit DEF LookupsFit
<1>7. a \in db.archive_ids /\ a.part = m.part /\ Key(a) = Key(x)
  BY <1>6 DEF Of, Key
<1> QED  BY <1>1, <1>7


\* The entries of archive_ids for a key name one part, the one that has it.
LEMMA GetArchiveIdKeeps ==
  ASSUME StoreInv, HomesInv, ReadInv, GetArchiveId
  PROVE  ReadInv'
<1> DEFINE named == {a \in db.archive_ids : Key(a) \in read.todo}
           at == IF named = {} THEN "done" ELSE "manifest"
<1>1. IdRead /\ Reading /\ HistoryInv /\ ReadTypeOK
  BY DEF GetArchiveId, ReadInv, Reading, AnswersAreRight
<1>2. Continue(at, named)  BY DEF GetArchiveId
<1> HIDE DEF at
<1>3. /\ SameHistory /\ db' = db /\ pc' = pc /\ part' = part
      /\ read'.at = at /\ read'.todo = named /\ read'.hot = {}
      /\ read'.cold = {} /\ read'.issues = read.issues
  BY <1>1, <1>2, ContinueFields DEF SameHistory, vars, IdRead
<1>4. \A x \in read.held : x \in Archive(db) /\ x \in Served(db)
                           /\ Key(x) \in read.todo
  BY <1>1 DEF IdRead, HistoryInv, Ours, Asked, Key
<1>5. ASSUME NEW x \in read.held
      PROVE  \E m \in db.manifests :
                x \in m.rows /\ \E a \in named : a.part = m.part
  BY <1>4, ArchivedIsNamed
<1>6. \A a \in named : \E m \in db.manifests :
        a.part = m.part /\ \E x \in m.rows : Key(x) = Key(a)
  BY DEF HomesInv, OneHome
<1>7. ASSUME NEW a \in named, NEW b \in named  PROVE a.part = b.part
  <2>1. PICK m \in db.manifests :
           a.part = m.part /\ \E x \in m.rows : Key(x) = Key(a)
    BY <1>6
  <2>2. PICK n \in db.manifests :
           b.part = n.part /\ \E y \in n.rows : Key(y) = Key(b)
    BY <1>6
  <2>3. Key(a) = Key(b)  BY <1>1 DEF IdRead
  <2>4. PICK x \in m.rows, y \in n.rows : Key(x) = Key(y)
    BY <2>1, <2>2, <2>3
  <2>5. x \in Stored(db) /\ y \in Stored(db)  BY DEF Stored
  <2>6. m = n  BY <2>4, <2>5 DEF HomesInv, OneHome
  <2> QED  BY <2>1, <2>2, <2>6
<1>8. read'.hot \cup read'.cold \subseteq RecordRow
      /\ read'.issues \subseteq Issues
  BY <1>1, <1>3 DEF ReadTypeOK
<1>9. CASE named = {}
  <2>1. read'.at = "done" /\ read'.held = {} /\ Found' = {}
        /\ read'.kind = "get"
    BY <1>1, <1>3, <1>5, <1>9 DEF at, SameHistory, Found, IdRead
  <2> QED  BY <1>1, <1>3, <1>8, <2>1, AnswerKeeps
<1>10. CASE named # {}
  <2>1. read'.at = "manifest"  BY <1>3, <1>10 DEF at
  <2>2. HistoryInv' /\ ReadTypeOK'
    BY <1>1, <1>3, <1>8, <2>1, LookKeeps
  <2>3. AnswersAreRight'  BY <2>1, <2>2, NotAnswered
  <2>4. Listed' = {a.part : a \in named}  BY <1>3, <2>1 DEF Listed
  <2>5. pc \in {"rename", "publish"} => part.part \notin Listed'
    BY <1>6, <2>4 DEF StoreInv, FilesInv
  <2> HIDE DEF named
  <2>6. ManifestRead'
    BY <1>1, <1>3, <1>5, <1>7 DEF ManifestRead, IdRead, SameHistory
  <2> QED
    BY <1>3, <2>1, <2>2, <2>3, <2>5, <2>6 DEF ReadInv, SameHistory
<1> QED  BY <1>9, <1>10

\* The part's manifest, if it is still there, has the row once.
LEMMA GetManifestKeeps ==
  ASSUME StoreInv, HomesInv, ReadInv, GetManifest
  PROVE  ReadInv'
<1> DEFINE named == {m \in db.manifests : \E a \in read.todo :
                                             a.part = m.part}
           at == IF named = {} THEN "done" ELSE "files"
<1>1. ManifestRead /\ Reading /\ HistoryInv /\ ReadTypeOK
  BY DEF GetManifest, ReadInv, Reading, AnswersAreRight
<1>2. Continue(at, named)  BY DEF GetManifest
<1> HIDE DEF at
<1>3. /\ SameHistory /\ db' = db /\ pc' = pc /\ part' = part
      /\ read'.at = at /\ read'.todo = named /\ read'.hot = {}
      /\ read'.cold = {} /\ read'.issues = read.issues
  BY <1>1, <1>2, ContinueFields DEF SameHistory, vars, ManifestRead
<1>4. \A x \in read.held : \E m \in named : x \in m.rows
  BY <1>1 DEF ManifestRead
<1>5. read'.hot \cup read'.cold \subseteq RecordRow
      /\ read'.issues \subseteq Issues
  BY <1>1, <1>3 DEF ReadTypeOK
<1>6. CASE named = {}
  <2>1. read'.at = "done" /\ read'.held = {} /\ Found' = {}
        /\ read'.kind = "get"
    BY <1>1, <1>3, <1>4, <1>6 DEF at, SameHistory, Found, ManifestRead
  <2> QED  BY <1>1, <1>3, <1>5, <2>1, AnswerKeeps
<1>7. CASE named # {}
  <2>1. read'.at = "files"  BY <1>3, <1>7 DEF at
  <2>2. HistoryInv' /\ ReadTypeOK'
    BY <1>1, <1>3, <1>5, <2>1, LookKeeps
  <2>3. AnswersAreRight'  BY <2>1, <2>2, NotAnswered
  <2>4. Listed' = {m.part : m \in named}  BY <1>3, <2>1 DEF Listed
  <2>5. /\ pc \in {"rename", "publish"} => part.part \notin Listed'
        /\ \A m \in named : \A n \in db.manifests : n.part = m.part => n = m
    BY <2>4 DEF StoreInv, FilesInv
  <2>6. \A m, n \in named : m = n
    BY <1>1 DEF ManifestRead, StoreInv, FilesInv
  <2>7. PICK r \in Records : read.ids = {r}  BY <1>1 DEF ManifestRead
  <2>8. /\ Found' = {}
        /\ ToRead' = UNION {Asked(m.rows, read.project, {r}) : m \in named}
    BY <1>3, <2>7 DEF Found, ToRead, SameHistory
  <2>9. \A m \in named : m.rows \subseteq Stored(db)  BY DEF Stored
  <2>10. ASSUME NEW x \in ToRead'
         PROVE  x \in Stored(db) /\ x \in read.ever
                /\ x.project = read.project /\ x.id = r
    <3>1. x \in Stored(db) /\ x.project = read.project /\ x.id = r
      BY <2>8, <2>9 DEF Asked
    <3> QED
      BY <1>1, <2>7, <3>1 DEF HistoryInv, Ours, Asked, ManifestRead
  <2>11. \A x, y \in ToRead' : x = y
    BY <2>10, KeyFields DEF HomesInv, OneHome
  <2>12. \A x \in read.held : x \in ToRead'
    <3>1. \A x \in read.held : x.project = read.project /\ x.id = r
      BY <1>1, <2>7 DEF HistoryInv, Ours, Asked, ManifestRead
    <3> QED  BY <1>4, <2>8, <3>1 DEF Asked
  <2>13. read'.kind = "get"  BY <1>1, <1>3 DEF SameHistory, ManifestRead
  <2> HIDE DEF named
  <2>14. FilesRead'
    BY <1>3, <2>5, <2>8, <2>10, <2>11, <2>12, <2>13
    DEF FilesRead, SameHistory
  <2> QED
    BY <1>3, <2>1, <2>2, <2>3, <2>5, <2>14 DEF ReadInv, SameHistory
<1> QED  BY <1>6, <1>7

\* An issue that lasted is fetched, or its index entry is still to be.
LEMMA FetchIssueKeeps ==
  ASSUME StoreInv, ReadInv, NEW e \in read.todo, FetchIssue(e)
  PROVE  ReadInv'
<1>1. Reading /\ ReadTypeOK /\ read.at = "issues" /\ read.kind = "issues"
      /\ read.known \subseteq read.issues \cup {i.id : i \in read.todo}
  BY DEF FetchIssue, ReadInv, Reading, AnswersAreRight
<1>2. DOMAIN read = Fields /\ DOMAIN NoRead = Fields
  BY ReadFields DEF ReadInv
<1>3. /\ SameHistory /\ read'.at = "issues"
      /\ read'.todo = read.todo \ {e}
      /\ read'.hot = read.hot /\ read'.cold = read.cold
      /\ read'.issues = read.issues \cup {e.id}
  BY <1>1, <1>2 DEF FetchIssue, SameHistory, Fields, vars
<1>4. e.id \in Issues
  BY DEF FetchIssue, IssueNamed, Of, StoreInv, TypeOK, Database, IssueRow
<1>5. HistoryInv' /\ ReadTypeOK'
  <2>1. read'.hot \cup read'.cold \subseteq RecordRow
        /\ read'.issues \subseteq Issues
    BY <1>1, <1>3, <1>4 DEF ReadTypeOK
  <2> QED  BY <1>1, <1>3, <2>1, LookKeeps
<1>6. read'.known \subseteq read'.issues \cup {i.id : i \in read'.todo}
  BY <1>1, <1>3 DEF SameHistory
<1>7. AnswersAreRight'  BY <1>3, <1>5, NotAnswered
<1>8. Listed' = {}  BY <1>3 DEF Listed
<1> QED
  BY <1>1, <1>3, <1>5, <1>6, <1>7, <1>8 DEF ReadInv, SameHistory

\* Once every entry is followed, every issue that lasted is found.
LEMMA AllIssuesKeeps ==
  ASSUME ReadInv, AllIssuesFetched
  PROVE  ReadInv'
<1>1. Reading /\ ReadTypeOK /\ read.kind = "issues"
      /\ read.known \subseteq read.issues
  BY DEF AllIssuesFetched, ReadInv, Reading, AnswersAreRight
<1>2. /\ SameHistory /\ read'.at = "done" /\ read'.hot = read.hot
      /\ read'.cold = read.cold /\ read'.issues = read.issues
  BY ContinueFields DEF AllIssuesFetched
<1>3. read'.hot \cup read'.cold \subseteq RecordRow
      /\ read'.issues \subseteq Issues
  BY <1>1, <1>2 DEF ReadTypeOK
<1>4. read'.kind = "issues" /\ read'.known \subseteq read'.issues
  BY <1>1, <1>2 DEF SameHistory
<1> QED  BY <1>1, <1>2, <1>3, <1>4, AnswerKeeps

\* A row that was listed and is hot now has left its part, one that was not
\* and is not has left the hot tier before it was counted.
LEMMA CountRecordsKeeps ==
  ASSUME StoreInv, HomesInv, ReadInv, CountRecords
  PROVE  ReadInv'
<1>1. Reading /\ ReadTypeOK /\ CountRead /\ HistoryInv
  BY DEF CountRecords, ReadInv, Reading, AnswersAreRight
<1>2. DOMAIN read = Fields /\ DOMAIN NoRead = Fields
  BY ReadFields DEF ReadInv
<1>3. /\ SameHistory /\ db' = db /\ read'.at = "list"
      /\ read'.hot = db.records /\ read'.cold = read.cold
      /\ read'.issues = read.issues
  BY <1>2 DEF CountRecords, SameHistory, Fields, vars
<1>4. HistoryInv' /\ ReadTypeOK'
  <2>1. read'.hot \cup read'.cold \subseteq RecordRow
        /\ read'.issues \subseteq Issues
    BY <1>1, <1>3 DEF ReadTypeOK, StoreInv, TypeOK, Database
  <2> QED  BY <1>1, <1>3, <2>1, LookKeeps
<1>5. db.records \cap Archive(db) = {}
  BY DEF HomesInv, OneHome, Archive
<1>6. db.records \subseteq read.ever
  BY <1>1 DEF HistoryInv, CountRead, Ours, Stored
<1>7. SizeRead'
  BY <1>1, <1>3, <1>5, <1>6 DEF SizeRead, CountRead, SameHistory, Found
<1>8. AnswersAreRight'  BY <1>3, <1>4, NotAnswered
<1>9. Listed' = {}  BY <1>3 DEF Listed
<1> QED
  BY <1>3, <1>4, <1>7, <1>8, <1>9 DEF ReadInv, SameHistory

\* Sizing files changes no count.
LEMMA SizesKeep ==
  ASSUME ReadInv, read.at \in {"list", "sizes"}, NEW todo,
         Continue("sizes", todo) \/ Continue("done", todo)
  PROVE  ReadInv'
<1>1. Reading /\ ReadTypeOK /\ SizeRead
  BY DEF ReadInv, Reading, AnswersAreRight
<1>2. /\ SameHistory /\ read'.at \in {"sizes", "done"}
      /\ read'.hot = read.hot /\ read'.cold = read.cold
      /\ read'.issues = read.issues
  BY ContinueFields
<1>3. read'.hot \cup read'.cold \subseteq RecordRow
      /\ read'.issues \subseteq Issues
  BY <1>1, <1>2 DEF ReadTypeOK
<1>4. SizeRead'  BY <1>1, <1>2 DEF SizeRead, SameHistory, Found
<1>5. CASE read'.at = "sizes"
  <2>1. HistoryInv' /\ ReadTypeOK'
    BY <1>1, <1>2, <1>3, LookKeeps
  <2>2. AnswersAreRight'  BY <1>5, <2>1, NotAnswered
  <2>3. Listed' = {}  BY <1>5 DEF Listed
  <2> QED  BY <1>2, <1>4, <1>5, <2>1, <2>2, <2>3 DEF ReadInv, SameHistory
<1>6. CASE read'.at = "done"
  BY <1>1, <1>2, <1>3, <1>4, <1>6, AnswerKeeps DEF SizeRead
<1> QED  BY <1>2, <1>5, <1>6


-----------------------------------------------------------------------------
(* The composition.                                                        *)

\* At first nothing is stored and nothing is read.
LEMMA InitReads == ReadersInit => HomesInv /\ ReadInv
<1> SUFFICES ASSUME ReadersInit  PROVE HomesInv /\ ReadInv
  OBVIOUS
<1>1. HomesInv
  BY DEF ReadersInit, Init, EmptyDatabase, HomesInv, OneHome, Stored
<1>2. read = NoRead /\ pc = "resume"  BY DEF ReadersInit, Init
<1>3. ReadTypeOK  BY <1>2 DEF NoRead, ReadTypeOK
<1>4. AnswersAreRight
  BY <1>2, <1>3 DEF NoRead, AnswersAreRight, QueryFindsStored, Answered,
       MetricCountsMovedTwice, GetFindsUnmoved, IssuesFindLasting,
       StatusCountsOnce
<1> QED  BY <1>1, <1>2, <1>4 DEF NoRead, ReadInv, Reading

\* A step of a mutator keeps the invariant, whether a read is under way or not.
LEMMA MutateReads ==
  ASSUME StoreInv, TypeOK', HomesInv, ReadInv, Mutate
  PROVE  HomesInv' /\ ReadInv'
<1>1. HomesInv'  BY MutatorHomes DEF StoreInv, Mutate
<1>2. CASE ~Reading
  <2>1. read.at = "idle" /\ read' = read
    BY <1>2 DEF Mutate, Reading
  <2>2. AnswersAreRight'
    BY <2>1 DEF ReadInv, AnswersAreRight, ReadTypeOK, QueryFindsStored,
         Answered, MetricCountsMovedTwice, GetFindsUnmoved,
         IssuesFindLasting, StatusCountsOnce, Found
  <2>3. Listed' = {}  BY <2>1 DEF Listed
  <2> QED  BY <1>1, <2>1, <2>2, <2>3 DEF ReadInv, Reading
<1> QED  BY <1>1, <1>2, MutateKeeps

\* So does every look of a reader.
LEMMA ReaderReads ==
  ASSUME StoreInv, HomesInv, ReadInv, ReaderStep
  PROVE  HomesInv' /\ ReadInv'
<1>1. UNCHANGED vars
  BY DEF ReaderStep, BeginRead, BeginQuery, BeginGet, BeginIssues, Begin,
         BeginStatus, Return, ContinueQuery, FetchRow, ListManifests,
         ReadFile, FileMissing, AllFilesRead, ContinueGet, GetRow,
         GetArchiveId, GetManifest, ContinueIssues, FetchIssue, IssueMissing,
         AllIssuesFetched, ContinueStatus, CountRecords, ListFiles, SizeFile,
         AllSized, Continue
<1>2. HomesInv'
  BY <1>1 DEF vars, HomesInv, OneHome, Stored
<1> SUFFICES ReadInv'  BY <1>2
<1>3. CASE BeginRead
  <2>1. PICK p \in 1..MaxProjects :
           \/ \E kind \in Kinds, s \in Signals : BeginQuery(kind, p, s)
           \/ \E r \in Records : BeginGet(p, r)
           \/ BeginIssues(p)
    BY <1>3 DEF BeginRead
  <2>2. p \in Nat  BY BoundAssumption
  <2> QED  BY <2>1, <2>2, BeginQueryKeeps, BeginGetKeeps, BeginIssuesKeeps
<1>4. CASE BeginStatus  BY <1>4, BeginStatusKeeps
<1>5. CASE Return  BY <1>5, ReturnKeeps DEF Return
<1>6. CASE ContinueQuery
  <2>1. ASSUME NEW m \in read.todo, FileMissing(m)  PROVE ReadInv'
    BY <2>1, FailureKeeps DEF FileMissing, Reading
  <2> QED
    BY <1>6, <2>1, FetchRowKeeps, ListManifestsKeeps, ReadFileKeeps,
       AllFilesReadKeeps DEF ContinueQuery
<1>7. CASE ContinueGet
  BY <1>7, GetRowKeeps, GetArchiveIdKeeps, GetManifestKeeps DEF ContinueGet
<1>8. CASE ContinueIssues
  <2>1. ASSUME NEW e \in read.todo, IssueMissing(e)  PROVE ReadInv'
    BY <2>1, FailureKeeps DEF IssueMissing, Reading
  <2> QED
    BY <1>8, <2>1, FetchIssueKeeps, AllIssuesKeeps DEF ContinueIssues
<1>9. CASE ContinueStatus
  <2>1. CASE ListFiles
    BY <2>1, SizesKeep DEF ListFiles
  <2>2. ASSUME NEW f \in read.todo, SizeFile(f)  PROVE ReadInv'
    <3>1. CASE f \in files
      BY <2>2, <3>1, SizesKeep DEF SizeFile
    <3>2. CASE f \notin files
      BY <2>2, <3>2, FailureKeeps DEF SizeFile, Reading
    <3> QED  BY <3>1, <3>2
  <2>3. CASE AllSized  BY <2>3, SizesKeep DEF AllSized
  <2> QED  BY <1>9, <2>1, <2>2, <2>3, CountRecordsKeeps DEF ContinueStatus
<1> QED
  BY <1>3, <1>4, <1>5, <1>6, <1>7, <1>8, <1>9 DEF ReaderStep

\* Every step of the composition keeps the invariant.
LEMMA NextReads ==
  ASSUME StoreInv, TypeOK', HomesInv, ReadInv, [ReadersNext]_readVars
  PROVE  HomesInv' /\ ReadInv'
<1>1. CASE Mutate  BY <1>1, MutateReads
<1>2. CASE ReaderStep  BY <1>2, ReaderReads
<1>3. CASE UNCHANGED readVars
  <2>1. UNCHANGED <<db, pc, part, read>>  BY <1>3 DEF readVars, vars
  <2>2. HomesInv'  BY <2>1 DEF HomesInv, OneHome, Stored
  <2>3. ReadInv'
    BY <2>1 DEF ReadInv, AnswersAreRight, ReadTypeOK, QueryFindsStored,
         Answered, MetricCountsMovedTwice, GetFindsUnmoved,
         IssuesFindLasting, StatusCountsOnce, Found, Reading, HistoryInv,
         Ours, RowsRead, FilesRead, ToRead, RowRead, IdRead, ManifestRead,
         CountRead, SizeRead, Listed, Archive
  <2> QED  BY <2>2, <2>3
<1> QED  BY <1>1, <1>2, <1>3 DEF ReadersNext

\* Readers change nothing: beside them the store behaves as it does alone.
LEMMA ReadersImplementStore == ReadersSpec => Spec
<1>1. ReadersInit => Init  BY DEF ReadersInit
<1>2. [ReadersNext]_readVars => [Next]_vars
  <2>1. Mutate => Next  BY DEF Mutate, Next
  <2>2. ReaderStep => UNCHANGED vars
    BY DEF ReaderStep, BeginRead, BeginQuery, BeginGet, BeginIssues, Begin,
           BeginStatus, Return, ContinueQuery, FetchRow, ListManifests,
           ReadFile, FileMissing, AllFilesRead, ContinueGet, GetRow,
           GetArchiveId, GetManifest, ContinueIssues, FetchIssue,
           IssueMissing, AllIssuesFetched, ContinueStatus, CountRecords,
           ListFiles, SizeFile, AllSized, Continue
  <2> QED  BY <2>1, <2>2 DEF ReadersNext, readVars
<1> QED  BY <1>1, <1>2, PTL DEF ReadersSpec, Spec

\* The inductive invariant holds in every reachable state.
LEMMA ReadersInvariant == ReadersSpec => [](StoreInv /\ HomesInv /\ ReadInv)
<1>1. Spec => []FilesInv
  BY InitFiles, NextFiles, StoreTypeOK, PTL DEF Spec
<1>2. Spec => [](TypeOK /\ FilesInv /\ RowsInv /\ ConsistencyInv)
  BY <1>1, StoreTypeOK, StoreConsistencyInv, PTL
<1>3. ReadersSpec => []StoreInv
  BY <1>2, ReadersImplementStore, PTL DEF StoreInv
<1>4. StoreInv => TypeOK  BY DEF StoreInv
<1>5. StoreInv /\ StoreInv' /\ HomesInv /\ ReadInv /\ [ReadersNext]_readVars
        => HomesInv' /\ ReadInv'
  BY NextReads DEF StoreInv
<1> QED
  BY <1>3, <1>5, InitReads, PTL DEF ReadersSpec

\* Whatever mutators do between two looks, an answer has everything that
\* stayed where it was and nothing that was never there: for every number of
\* records, parts and projects, and with calls that fail.
THEOREM ReadersAnswerRight == ReadersSpec => []AnswersAreRight
<1>1. ReadInv => AnswersAreRight  BY DEF ReadInv
<1> QED  BY <1>1, ReadersInvariant, PTL

\* A query finds a listed file missing only when its part was unpublished
\* while it read: archival and cleanup never take a file that is still listed.
THEOREM ReadersFailRightly == ReadersSpec => FailsOnlyWhenUnpublished
<1> DEFINE Unpublished ==
             read'.at = "failed" /\ read.at = "files" =>
               \A m \in read'.todo : \A n \in db.manifests : n.part # m.part
<1>1. StoreInv /\ ReadInv /\ [ReadersNext]_readVars => [Unpublished]_readVars
  <2> SUFFICES ASSUME StoreInv, ReadInv, ReadersNext,
                      read'.at = "failed", read.at = "files",
                      NEW m \in read'.todo, NEW n \in db.manifests,
                      n.part = m.part
               PROVE  FALSE
    OBVIOUS
  <2>1. ~Mutate
    BY MutateFields DEF Reading
  <2>2. FilesRead  BY DEF ReadInv
  <2>3. ASSUME NEW at, NEW todo, Continue(at, todo)
        PROVE  read'.at = at /\ read'.todo = todo
    BY <2>3, ContinueFields
  <2>4. PICK f \in read.todo : FileMissing(f)
    <3>1. ReaderStep  BY <2>1 DEF ReadersNext
    <3>2. ~BeginRead
      BY DEF BeginRead, BeginQuery, BeginGet, BeginIssues, Begin
    <3>3. ~BeginStatus /\ ~Return /\ ~ContinueGet /\ ~ContinueIssues
             /\ ~ContinueStatus
      BY DEF BeginStatus, Return, ContinueGet, GetRow, GetArchiveId,
             GetManifest, ContinueIssues, FetchIssue, IssueMissing,
             AllIssuesFetched, ContinueStatus, CountRecords, ListFiles,
             SizeFile, AllSized
    <3>4. ASSUME NEW f \in read.todo, ReadFile(f)  PROVE FALSE
      <4>1. "at" \in DOMAIN read
        BY ReadFields DEF ReadInv, Fields
      <4> QED  BY <3>4, <4>1 DEF ReadFile
    <3>5. ~AllFilesRead  BY <2>3 DEF AllFilesRead
    <3>6. ContinueQuery  BY <3>1, <3>2, <3>3 DEF ReaderStep
    <3> QED
      BY <3>4, <3>5, <3>6 DEF ContinueQuery, FetchRow, ListManifests
  <2>5. read'.todo = {f} /\ Published(f) \notin files
    BY <2>3, <2>4 DEF FileMissing
  <2>6. n = f  BY <2>2, <2>4, <2>5 DEF FilesRead
  <2>7. Published(n) \in files  BY DEF StoreInv, FilesInv
  <2> QED  BY <2>5, <2>6, <2>7
<1> QED
  BY <1>1, ReadersInvariant, PTL DEF ReadersSpec, FailsOnlyWhenUnpublished

=============================================================================
