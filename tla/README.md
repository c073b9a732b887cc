# A TLA+ model of ntry

ntry is a single-process telemetry server: SDKs send errors, logs, metrics and
traces over three ingest protocols; a single writer task commits them to an
embedded database; a periodic task moves old records to Parquet files and evicts
what exceeds a storage target; a control API reads both tiers and manages
projects; a web page follows changes over a live stream. This directory models
its logic component by component, checks it with TLC and proves theorems about
it with TLAPS. Source paths below are relative to the
repository root (`src/store.rs` is `src/src/store.rs` in `PROJECT.json`).

## 1. Inventory

| Component | State | Operations | Correct when | Modules |
|---|---|---|---|---|
| **Store** `src/store.rs` | 12 Fjall keyspaces: metadata (schema, next project id), projects, project_names, records, record_indexes, record_ids, source_ids, issues, archive_manifests, archive_ids, diagnostics, cumulative_sums; one mutex `mutations` | `open`, `add_project`, `write_records`, `increment_diagnostic`, `persist`, `archive_before`, `enforce_storage_target`, `remove_project` | a record is stored once, found by every lookup, counted by its issue; nothing disappears but by eviction or removal; crashes are repaired on open | `Store`, `Retention` |
| **Archive** `src/archive.rs` | Parquet files and `.parquet.tmp` files below `archive/`; one DuckDB thread with a command channel | `write` (temporary, fsync, rename, fsync directory), `query`, `remove`, `cleanup`, `disk_space` | every published manifest has its complete file; no file without a manifest survives `open` | `Store`, `StoreReaders` |
| **Store readers** `search_records`, `get_record`, `metric_query`, `search_issues`, `status` | none; unlocked reads of several keyspaces, then a DuckDB scan | read only | an answer has what stayed where it was, and nothing that was never there; a cursor repeats and skips nothing | `StoreReaders`, `Pagination`, `IssuePages` |
| **Ingest writer** `src/writer.rs` | bounded message queue (1024), unbounded diagnostics channel, the batch being gathered (at most 100) | `submit`, `diagnostic`, `shutdown`, `run_writer` | success means durable (safe mode) or queued (fast mode); every request is answered; shutdown flushes | `IngestWriter` |
| **Server lifecycle** `src/server.rs` | listeners, shutdown watch, maintenance task, writer task | `serve`, `spawn_http`, `supervise_servers` | the daemon ends after a signal or a listener's end, in order, and says who failed | `Supervisor` |
| **Live events** `live_events`, `web/src/main.tsx` | broadcast channel of 256 changes; the page's stream, timer and read | subscribe, forward, refresh | a stream has no gap; the page comes to show what it heard | `LiveEvents` |
| **Ingest protocols** `src/ingest/*.rs` | none | authorise, decode, derive records and ids, submit, answer | answers are true; no item is lost to another; a repetition adds nothing | `IngestHandlers`, `SentryEnvelope`, `TelemetryExport` |
| **Cumulative sums** in `write_records` | last point of each stream | difference, reset, redelivery | the differences of a counter never exceed its growth | `CumulativeSums` |
| **Query language** `src/query.rs` | none (pure) | `tokenize`, `parse`, `parse_atom`, `matches`, `wildcard`, `index_hint` | a query means what its grammar says; hints hide no match | `QueryParser`, `SearchAtoms`, `Wildcard`, `SearchHints` |
| **Metric aggregation** `src/query.rs` | none (pure) | `aggregate_metrics`, `automatic_interval` | every sample is in its bucket, once | `MetricQuery`, `Intervals` |
| **Client, MCP bridge** | one tool call | the `get` tool, cursors; other methods send one request each | `get` finds what stays | `McpGet`, `Pagination` |
| **Data types, command line, web rendering** | none | translate | | see "Not modelled" |
| **Fjall, DuckDB** | external | atomic batches, `SyncAll`/`Buffer`; Parquet reads and writes | as documented by their use | `Store`, `StoreReaders` |

How they interact. Ingest handlers call `IngestWriter::submit` and get an
acknowledgement over a oneshot channel; the writer calls `Store::write_records`
on a blocking thread and broadcasts what changed; the maintenance task calls `archive_before` and then
`enforce_storage_target`; the control API calls `add_project` and
`remove_project` and the readers. All mutators but `increment_diagnostic` and
`persist` take the one mutex for their whole duration; readers take none. The
database and the archive directory are two stores without a common
transaction: their consistency is a matter of the order of steps.

Hard behaviours: a kill or a power loss between any two steps of a mutator;
mutators that give up half way (`?`) and leave their partial work to the next
one; unsynced batches lost by the machine (fast mode, `remove_prefix`, the
removal mark); clients that retry after timeouts, 429, 500 or a crash; the
bounded queue and the shutdown message; unlocked readers; cursors over a store
that moves; a live page whose announcements, timer and reads race. `PROJECT.json`
"hazards" lists each of them at its line, with the properties that cover it.

## 2. Modules

| Module | What it is |
|---|---|
| `Store` | the store and the archive directory: every mutator, step by step, with crashes and failures |
| `Retention` | what the store promises, without tiers, indexes, files or batches; `Store` implements it |
| `StoreReaders` | extends `Store`: each reader as its sequence of unlocked looks, between all steps of the mutators |
| `Pagination`, `IssuePages` | a client that follows cursors of records or issues while the store moves on |
| `IngestWriter` | requests, queue, writer, counters and shutdown, around an abstract store |
| `IngestHandlers` | the HTTP handlers of the three protocols, around an abstract writer, while the project is removed |
| `SentryEnvelope` | how a body is cut into items, whole or broken off |
| `TelemetryExport` | validation, records and ids of all item kinds, redeliveries included |
| `CumulativeSums` | the differences stored for a running total |
| `QueryParser`, `SearchAtoms`, `Wildcard`, `SearchHints` | tokens to tree; characters to atoms and values; the pattern loop; matching and the choice of an index |
| `MetricQuery`, `Intervals` | records to samples, buckets, series, ranking; the interval when none is named |
| `LiveEvents` | from a commit over the broadcast channel and the stream to the page |
| `McpGet` | the `get` tool: four requests, each of several looks |
| `Supervisor` | listeners, maintenance and writer as tasks of the daemon |
| `MCStore`, `MCIngestWriter` | instances of these two for TLC |
| `MCProtocols`, `MCReads`, `MCQueries`, `MCProgress` | suites: several modules in one run |
| `ProtocolSuite`, `ReadSuite`, `QuerySuite`, `Suite` | the parts of these that theorems are about as well; what they have in common |
| `Absent` | `None`, which the modules of a run share |
| `StoreProofs`, `ReaderProofs` | theorems about the store: types, files, keys and repair, one story in all keyspaces, and `Retention`; about its readers |
| `IngestProofs`, `ProtocolProofs`, `MetricProofs` | theorems about the writer; handlers, exports and envelopes; sums and intervals |
| `QueryProofs` | theorems about pages of records and issues, the `get` tool and the pattern loop |
| `SupervisorProofs`, `LiveProofs` | theorems about the daemon; the live page |

**Suites.** A suite takes several modules, some extended and some as instances,
and adds a variable `subject` that never changes. In an initial state the
subject's variables are as its module's `Init` says; those of other instances
are the model value `off`, and those of other extended modules keep one of their
initial values. A step is a step of the subject and leaves the rest alone. The
parts share no state in the suite, so the behaviours of one subject are exactly
those of its module: the numbers of states add up and nothing is multiplied or
hidden. A property of an extended module is checked as it is (it holds of the
values the module starts with, too), that of an instance as
`subject = "..." => ...`.

`ProtocolSuite`, `ReadSuite` and `QuerySuite` hold the instances and properties
that a theorem states too; the suites and the modules of proofs extend them, so
that both speak of the same definition. There `subject` is any value, which makes
the theorem about `subject = "..." => ...` one about the instance.

**What composes what.** `StoreReaders` runs the readers against the whole of
`Store`. `Retention` is the abstract specification of `Store`. Where a component
uses another only by its contract, the contract is in the model instead and the
other module checks it: `IngestWriter` uses of the store that a batch is atomic
and deduplicated (`Store`); `IngestHandlers` of the writer that a batch is
written or fails and is then answered (`IngestWriter`); `TelemetryExport` of the
store that the first record with an id of its source stays; `CumulativeSums`
of the store that a batch commits as a whole. `IngestWriter` assumes that a
listener's end means the end of its handlers; `Supervisor` has the other case, a
listener that fails and leaves its handlers behind, and `NoneCutOff` says that
they are the only ones without an answer.

### Store

The database is a record of sets of rows, one per keyspace, every row with the
project of its key prefix (`db`; `project_names` is part of `projects`).
`recoverable` is the set of databases a power loss can leave behind: a `Buffer`
commit adds one, a `SyncAll` commit (or `persist`) makes the present one the
only one, because Fjall's journal is written in order. `files` are the files
below the archive directory. `pc` is the step the holder of the mutex is at;
`"idle"` is the free mutex, and `removing`, `stage`, `cutoff`, `part`, `doomed`
are the locals of the mutator that holds it.

| Code | Actions |
|---|---|
| `add_project` | `AddProject` (one synced batch) |
| `write_records` | `WriteRecords` (one batch; `Accepted`, `Bumped`, `Written`) |
| `persist` | `Persist` |
| `archive_before` | `ArchiveBefore`, then per group `WriteTemporary`, `RenameTemporary`, `PublishManifest`; `ArchiveDone` |
| `enforce_storage_target` | `EnforceStorageTarget`, then `EvictPartition` (+ `Unlink`), `EvictHot`, `EvictIssue`; `EnforceDone` |
| `remove_project` | `RemoveProject` (the mark), `SyncMark`, then `finish_project_removal`: `ClearChunk`, `ClearNext` per keyspace, `DropProject`, `Unlink`, `UnlinkDone` |
| `open` | `Restart` (entry), `ResumeDeletion`, `CleanUp`, `OpenDone` |
| an early return by `?` | `JobFails` (before any step of a running job) |
| death of process / machine | `ProcessCrash`, `PowerLoss` |

Abstractions. A row is one logical byte. Record ids are unique in a project and
stand for the source id too. Where the code breaks a tie by a sort key the
model leaves out (part id, record id, equal event times), the model allows any
order, which covers the code's. Groups are archived in any order. Eviction's
running `saturating_sub` is the same number as `logical_bytes` of what is left,
since a row is one byte. The schema check, project keys, titles, levels and
values are left out; of the record indexes the time index is kept, and the
level, issue and trace indexes, written and removed in the same batches, are
not (`SearchHints` has them). A failed commit changes nothing. Unlinks are not
fsynced in the code: a file that a power loss brings back is a stray that the
next `open` sweeps, so the model lets an unlink last. A directory is durable
once a synced file in it is.

### Retention

`live` projects, `kept` record keys, `bytes`. A record is kept from the write
that accepts it until an eviction over the target or the end of its project;
without safe durability a power loss may also take records. The refinement
mapping takes what any recoverable database serves and stores, so that a mark
that is not yet synced does not close a project. Archival, restarts, resumed
removals and clearing map to stutters or to `Reclaim`. The refinement is checked
in safe mode: in fast mode `Retention` permits any loss, and says little.

### StoreReaders

`read` is one read in progress: what it asks for, the looks still to come
(`todo`), the rows found in each tier, and its history, which the properties
compare the answer with: the rows served from its beginning on (`held`), those
stored at some time (`ever`), those that left a tier meanwhile (`moved`).

| Code | Actions |
|---|---|
| `search_records`, `metric_query` | `BeginQuery` (the index), `FetchRow` per entry, `ListManifests` (`archive_paths`), `ReadFile`/`FileMissing` per file, `AllFilesRead` |
| `get_record` | `BeginGet` (`record_ids`), `GetRow`, `GetArchiveId`, `GetManifest`, then the file |
| `search_issues` | `BeginIssues`, `FetchIssue`/`IssueMissing` per entry, `AllIssuesFetched` |
| `status` | `BeginStatus` (manifests), `CountRecords`, `ListFiles`, `SizeFile` per file, `AllSized` |

One look at one keyspace is a snapshot, as Fjall's iterators are. A query asks
for a project's records of one signal; ranges, cursors and expressions are in
the modules below.

### Pagination and IssuePages

`Pagination`: `BeginPage` takes the range (the handler: from the request, later
from the cursor), `ScanEntry` is one entry of the hot index with the stop after
the millisecond in which the page fills up, `EndPage` merges both tiers, sorts,
cuts and makes the cursor. Between any two, records are inserted, archived or
evicted. A record is its place in the order (nanoseconds, id) and its
millisecond; whether it matches is a set. `IssuePages`: `BeginPage` reads the
whole index in one look, `FetchIssue` the issue as it is by then, `EndPage`
filters and cuts, while `Bump` moves issues to later times.

### IngestWriter

One client per batch sends it until it is told success (`Request`); its handler
refuses it (`Reject`), finds the queue full (`SubmitFull`, 429) or submits it
(`Submit`: in fast mode it answers at once, in safe mode it waits). `Disconnect`
drops a handler, not its message. The writer's steps are those of `run_writer`:
`SelectMessage`/`SelectDiagnostic`, the 5 ms wait during which anything can
happen, `GatherMessages`, `GatherDiagnostics`, `WriteRecords` or `WriteFails`
and `Report` (`increment_diagnostic`), `Answer`, and `Persist` after the batch
that held the shutdown message. `BeginShutdown` and `SendShutdown` are
`supervise_servers`. `Restart`, `ProcessCrash` and `PowerLoss` start the next
process. The store is what `write_records` makes of it here: a set of records
never stored twice and three counters.

Abstractions. Diagnostics are indistinguishable, only their number counts. A
batch's `skipped` counters are left out; change notifications are in
`LiveEvents`. A handler that finds the channel closed answers 503: the writer
outlives the handlers, so only a crash (`"unavailable"`) does that; for the
same reason the `break` of `run_writer` when all senders are gone is unreachable
under `serve`. OTLP answers an empty batch without the queue; batches here are
not empty.

### IngestHandlers, SentryEnvelope, TelemetryExport

`IngestHandlers`: per protocol the checks in their order, a stage each, since
the project may be removed between reading it and the write: `SentryProject`,
`SentryBody`; `DatadogProject`, `DatadogBody`; `OtlpProject`, `OtlpBody`;
then `Submit`, `SubmitFull`, `SubmitClosed`, `Write`, `WriteFails`,
`Disconnect`, and the removal as its mark and its end. A key is the project's,
another one or missing; a body is good, malformed or empty. `durability` is
chosen at the start, as the process is started with one: in safe mode `Submit`
waits, and `Write` or `WriteFails` answers; in fast mode `Submit` answers 200 once
the batch is in the queue (`src/writer.rs:77`), nobody is told what becomes of it,
and `failed` keeps the batches whose write failed (the code counts them). So a
success means stored in safe mode, and queued, stored or failed in fast mode;
that what is queued gets written at a shutdown is `WriterShutdownFlushes` of
`IngestWriter`, which also has the crashes that this module leaves out: in fast
mode a crash loses the queue.

`SentryEnvelope`: a body is a sequence of signs (newline, letter, headers), one
byte each; `ReadEnvelopeHeader`, `ReadItem` and `Accept` are `parse_envelope`
with `read_line` and `read_payload`. Before that the client adds one item after
the other to its body (`Add`) and sends it whole or cut off anywhere (`Send`).

`TelemetryExport`: from the items of a request to records, with the rejections
of single items, the faults that spoil a whole request, the errors that spans
and logs bring along, and the ids. A hash is the tuple of what goes into it,
so that two ids are equal exactly if their inputs are (collisions of the
hash function are left out). The entry of a Sentry batch hashes the header of its
envelope too (`sentry.rs:295`), so only a repetition with the same header is
recognised. `Deliver` writes a request, again and again if the client wants:
of its records that the store does not know it takes one for each source and id.
The code sorts by time and takes the earliest; the model allows any of them.
`Refuse` writes nothing. Two OTLP logs that are alike in all that is hashed are one
record: the hash knows no place in the request (`src/ingest/otlp.rs:519`), and
the properties ask for one record of both. The entries of a Sentry batch and the
exceptions of a span have their place in their id, and are counted.

### CumulativeSums

`Export` is the client's counter (external), `Begin` takes any exported points
into a batch, `Take` is one turn of the loop of `write_records` (sorted by
time, fresh or not, difference, state), the last one commits. `Evict` forgets a
record and its id, not the state. `PowerLoss` goes back to the durable database.
`credited` and `base` are history: what was filed, and where the counter
stood when the stream became known. Values are integers, not floats.

### Query language and metrics

`QueryParser` types every sequence of tokens and parses it as `parse_or`,
`parse_and` and `parse_unary` do; the reference is an independent grammar
and its meaning for every assignment of truth to atoms. `SearchAtoms` types
every sequence of characters; the scanner's state is that of `tokenize`,
`ParseAtom` is `parse_atom` with `unquote`, `parse_literal` and the list
syntax. `Wildcard` has an action per branch of the loop of `wildcard` for every
value and pattern, against the meaning of a pattern. `SearchHints` builds
expressions and compares what the hot tier reads for them (`index_hint`,
`record_index_keys`) with what matches. Comparison is abstract there: strings
are numbers, one string stands for a pattern.

`MetricQuery` reads records one by one (`Skip`, `Take`, `NoValue`) in any order
and finishes with the series, as exact fractions: rounding of floats is left
out. Name, unit and expression are one question, whether a record is asked
for. An answer of more than `MaxPoints` points (100,000) is refused. `Intervals`
is `automatic_interval` with the code's numbers.

### LiveEvents

`WriteBatch` and `Announce` are the writer's batch and its broadcasts; `Subscribe`,
`Forward`, `EndLagging` and `EndAtShutdown` the stream of `live_events`
(`take_until` looks at the shutdown first; a lag ends the stream);
`Break` a lost connection; `Connect`, `Receive`, `Closed`, `Refresh`,
`ReadTable`, `Show`, `ReadFails` and `Switch` the effects of the page with its
timer of 150 ms. A table is a project and a signal, its contents the number
of batches written to it. The time an announcement takes to fire the timer is
arbitrary; see the fairness.

### McpGet

`Begin` and the looks `LookHot`, `FetchRow`, `LookArchive`, `ReadPart` are the
request for a record; `FindIssue` the one for an issue; then the latest record
is read in the same way and, if it is gone, `SearchHot`, `ListArchive` and
`SearchArchive` look for the newest. `listed` are the archive parts that a look
has listed and not read yet: one that is unpublished meanwhile fails the request.
Between them errors arrive, are archived, evicted, sent again, and the issue is
bumped, decremented and evicted. One issue of one project; `moved` and `held` are
history as in `StoreReaders`.

### Supervisor

`Bind`, `BindFails`, `MaintainFirst` are `serve` up to the spawns; `Accept`,
`Respond`, `Drain` and `Fail` a listener of `spawn_http`, which tells the
supervisor over `done` how it ended; `OpenStream` and `CloseStream` are a client
of MCP, whose streams at the web listener (`src/mcp.rs:274`) the graceful shutdown
waits for and does not end; `Signal` is possible once `supervise_servers` listens
for it (before, a signal kills the process, which nothing outlasts);
`BeginMaintenance`/`EndMaintenance` the
periodic job, which runs on when its task is aborted (it is a blocking thread);
`SelectSignal`, `SelectDone`, `Join`, `AskWriter`, `Return` are
`supervise_servers`. Requests are counted per listener. After the shutdown
message the writer answers nothing: `cut` records whose requests that met.

## 3. Runs

| Run | Question | Distinct states |
|---|---|---|
| `store_safe` | safe mode, jobs that fail half way, kill or power loss anywhere: types, files, orphans, both tiers with lookups and issues, ids, repair | 443,005 |
| `store_fast` | fast mode, two projects, three records, power loss: the two tiers, lookups and issues still agree | 314,428 |
| `store_liveness` | two projects: jobs end, removals complete, `Store` implements `Retention` | 72,626 |
| `store_target` | finding: the target is not always reached | violation |
| `ingest_safe` | safe mode, failures, retries, crashes, shutdown | 151,640 |
| `ingest_diagnostics` | finding: diagnostics lost at shutdown | violation |
| `protocols` | sums, envelopes, exports, handlers in both durabilities, and the writer in fast mode | 3,067,418 |
| `reads` | readers, pages, issues, the live page, `get` | 1,435,273 |
| `queries` | parser, atoms, patterns, hints, metric queries | 2,576,270 |
| `progress` | what must end: daemon, live stream, cursors, pattern loop | 97,759 |
| `wildcard_stars` | finding: a star in a value | violation |
| `atoms_ids` | finding: an id that reads as a number | violation |

### What the properties say

Store.

* `ManifestFilesIntact`: in every database a power loss can leave, each manifest
  has its complete file. `OpenRepairs`: when `open` returns, the directory holds
  exactly the published files and no project is half removed.
* `NoOrphanKeys`: no key of any keyspace outlives its project row, and none is
  filed under an id that is still to be handed out. `IdsNeverReused`: the
  counter never goes back, not even across a power loss.
* `Consistent` is three statements about projects being served (a removal in
  progress clears one keyspace after the other). `StoredOnce`: a source id is
  remembered if and only if its record is stored, in exactly one place.
  `LookupsAgree`: the time index, `record_ids` and `archive_ids` are exactly
  those of the stored records. `IssuesExact`: an issue counts exactly the stored
  records of its group, points at one of them or none, and has one time index.
* `KeepsItsPromise`: `Retention`, for calls that do not fail. `JobEnds`,
  `RemovalCompletes`: the lock is always freed; a durable mark leads to the end
  of the project across restarts.

Reads.

* `AnswersAreRight`: a query has every record that was stored all the time, also
  one that archival moved while it looked, and nothing else
  (`QueryFindsStored`); a metric sample counts twice, a record of `status` twice
  or not at all, and `get_record` misses a record, only if it left a tier during
  the read (`MetricCountsMovedTwice`, `StatusCountsOnce`, `GetFindsUnmoved`);
  an issue that lasted is listed (`IssuesFindLasting`).
  `FailsOnlyWhenUnpublished`: archival alone fails no query.
* `PagesAreComplete` (`NewestFirst`, `NoneSkipped`, `OnlyAsked`),
  `IssuesAreListed` (`QuietFound`, `QuietInOrder`): see the modules' comments for
  what may be missed. `LastPageComes` (in `LoopsEnd`): the client gets done.
* `LivePageIsCurrent`: `NoGaps`, `HeardIsShown`, `ShowsItsTable`.
  `LiveHeardComesToShow`, `LiveShutdownCompletes`: their liveness.
* `GetFindsWhatStays`: `NotFoundIsRight`, `IssueHasItsEvent`, `ShowsTheLatest`,
  `FailsOnlyWhenEvicted`.

Ingest.

* `SyncedBeforeSuccess`, `WriterShutdownFlushes`: what a
  client was told is accepted survives any later power loss (safe mode; fast
  mode after a shutdown). `AcceptedCountsStored`: the accepted counter is the
  number of stored records, through retries and overlapping batches.
  `NothingForgotten`: a waiting request's message is in the queue or with the
  writer (`NoLostRequest`), nothing is queued behind the shutdown message
  (`ShutdownIsLast`). `EveryRequestAnswered`, `ShutdownCompletes`.
* `HandlersAnswerTruly`: only what has the key is stored (`OnlyWithItsKey`), what
  was refused is neither stored nor queued (`RefusedIsNotStored`), and a success is
  stored, or in fast mode queued or counted as failed (`SuccessIsTrue`).
  `HandlersNothingAfterRemoval`.
* `EnvelopeIsUnderstood` (`CompleteIsUnderstood`, `CutIsAPrefix`).
* `ExportKeepsItems`: for every record of an accepted item one is stored that says
  the same and belongs to the same span or log (`NoItemIsLost`; `StandsFor` has what
  "the same" is: an event of Sentry is known by its event id, an exception by its
  span and time, and anything else by its content); exceptions and batch entries
  that look alike are as many as were sent (`ExceptionsAreCounted`,
  `EntriesAreCounted`); ids that two sources share are of one span
  (`SharedIdIsOneSpan`); no error is without what it came with
  (`ErrorsHaveTheirSource`). `ExportRepeatAddsNothing`.
* `NeverOvercounts`; `DifferencesAreRight` (`ExactWithoutRestart`,
  `DecreaseMeansHiddenRestart`).

Queries.

* `ParserIsRight` (`AcceptsGrammar`, `MeansWhatItSays`,
  `PhrasesAreNeighbours`), `AtomsAreRead` (`QuotedIdIsFound`,
  `ListsKeepTheirValues`, `SpacesSeparate`), `WildcardIsRight` (`YesIsRight`,
  `NoIsRightWithoutStars`), `HintsHiddenOnlyInLists`, `MetricsAddUp`
  (`PointsAccountForRecords`, `PointsOnTheGrid`, `TopGroupsKept`,
  `PercentilesInOrder`).

Daemon.

* `EndsInOrder`: a daemon that ends has flushed and left nothing running
  (`EndsClean`), its error names a listener that failed by itself
  (`ErrorsNameTheCulprit`), and only requests of such a listener are without an
  answer (`NoneCutOff`). `Ends`: after a signal or the end of a listener the
  shutdown begins; once no stream of MCP is open, or the web listener has failed,
  the daemon ends.

### Bounds, and why they are enough

Store. Two or three records (two errors of one issue with different event times
and a point of a cumulative sum) meet in one batch, in two batches, in one
archive group, in two groups of a project, and in two projects. Two receive
times give one or two dates and a cutoff that separates hot from cold. Two parts
are two manifests at a time; `Fresh` frees a part when nothing mentions it, so
archival goes on after eviction. `Target` is small enough that each of the three
eviction loops runs and stops half way. `ChunkSize` 1 or 2 (1,000 in the code)
gives removals of several chunks per keyspace. `MaxProjects` (2) lets a removed
name be created again under the next id, `MaxSeen` caps the only other counter
that grows. Parts are symmetric: they are only compared for equality; runs with
temporal properties use no symmetry.

Ingest. Capacity 2 (1,024), batches of at most 2 items (100), two or three
client batches, two of which share a record, at most two attempts each and one
failed write: the queue fills, the batch fills, a retry meets its own first
message, and the shutdown message waits for a slot. Failures are bounded per
process and on disk by `MaxFailures`.

Protocols. Sums: a counter, one whose points hide restarts and one that may
fall; three points, batches of two, in every order and again. Envelopes: up to
three items, empty, plain, with newlines, with text like a header, cut at every
byte. Exports: 17 requests of all item kinds, valid and not, five deliveries in
every order; two exceptions of one span with one time are among them. Handlers:
both durabilities; one client sends any of the requests that differ in key,
envelope key, media type, encoding and body, the other a good one.

Reads. The store with two records, two parts and a target that evicts; every
kind of read meets every step of every job once. Pages: five records in four
milliseconds, two of them in one, with both ends of the range outside, in pages
of two, so that a page border may lie inside a millisecond. Three issues, three
times, pages of two. The live page:
two tables, a channel of one change (256), one break, one failed read, one
switch. `get`: three errors, two of one time, four arrivals, so that an evicted one
may come back and be archived again.

Queries. All queries of up to 6 tokens; all texts of up to 4 of the 9 characters
the scanner looks at; all values and patterns of up to 4 bytes; expressions of
up to 3 predicates over strings, numbers, lists and absent fields; up to 3 or 4
records at both ends of the range and of a bucket; `MaxPoints` 2 or 3, so that an
answer of three points is refused in one instance and given in the other.

Progress. Three listeners, two of them ingest, three requests and streams
altogether.

Deadlock is checked for the store and the writer. The suites say
`CHECK_DEADLOCK FALSE`: a parser that has answered, a daemon that has ended and a
client at its last page do stop.

### Fairness

`Store`'s `FairSpec`: the job that holds the lock takes its steps, crashes stop
at some point (a server that is killed for ever finishes nothing) and, in the
run, calls do not fail. A job is a thread in a loop whose every step the code
takes unconditionally, and the lock excludes every other mutator. Nothing
is assumed of callers.

`IngestWriter`'s `FairSpec`: handlers run (`Handle(b)`, tokio tasks that are
ready), the writer runs (`RunWriter`, including its 5 ms timer and the
blocking write, which ends in success or failure) and the shutdown message is
sent once a slot is free (`SendShutdown`, a `send().await`). Nothing is assumed
of clients, and weak fairness is enough: nothing but a crash disables these
steps, or what disables them answers the request.

`Supervisor`: the supervisor, the writer, a maintenance job and the responses of
each listener go on: a handler waits for the writer at most, and a live stream ends
with the shutdown (`take_until`). Nothing makes a signal come or a listener fail,
and nothing makes a client of MCP close its stream: `CloseStream` has no fairness,
and `Ends` says of the end only what holds once no such stream is open.

`LiveEvents`: the server's tasks run, bytes arrive or the connection breaks, and
the page's timer fires and its reads end. The timer is set anew by every change
(`main.tsx:873`): under announcements less than 150 ms apart that never stop it
would never fire. Here announcements are finitely many (`MaxCommits`), so the
liveness claim is about a load that pauses.

`Pagination`: the handler and the client go on; `Wildcard`: the loop runs.

## 4. Proofs

All for every value of the constants under the modules' named assumptions
(`RecordAssumption`, `BoundAssumption`, `IngestAssumption`, `SumAssumption`,
`SupervisorAssumption`, `LiveAssumption`, `HandlerAssumption`,
`ExportAssumption`, `EnvelopeAssumption`, `PageAssumption`, `IssueAssumption`,
`McpAssumption`, `StarAssumption`: numbers are naturals, the target, the chunk,
the capacity, the batch and the page are positive, sets of records, tables and
listeners are finite, the web listener is not one of ingest, requests have the fields of a request, the order of
records is a total one that agrees with their milliseconds). TLC evaluates
each of them on the instances of the runs. Two theorems have a condition of
their own, stated in the table.

| Theorem | States |
|---|---|
| `StoreTypeOK` | `Spec => []TypeOK` |
| `StoreManifestFilesIntact` | `Spec => []ManifestFilesIntact` |
| `StoreIdsNeverReused` | `Spec => IdsNeverReused` |
| `StoreNoOrphanKeys` | `Spec => []NoOrphanKeys` |
| `StoreOpenRepairs` | `Spec => OpenRepairs` |
| `StoreConsistent` | `Spec => []Consistent` |
| `StoreKeepsItsPromise` | `Spec => KeepsItsPromise`: `Store` implements `Retention`, if calls do not fail |
| `ReadersAnswerRight` | `StoreReaders`: `ReadersSpec => []AnswersAreRight` |
| `ReadersFailRightly` | `ReadersSpec => FailsOnlyWhenUnpublished` |
| `IngestTypeOK` | `Spec => []TypeOK` (queue and batch bounds included) |
| `IngestSyncedBeforeSuccess` | `Spec => []SyncedBeforeSuccess` |
| `AcceptedIsStored` | `Spec => []AcceptedCountsStored` |
| `ShutdownComesLast`, `NoRequestLost`, `NothingIsForgotten` | `Spec => []NothingForgotten` and its two parts |
| `AcceptedIsFlushed` | `Spec => []WriterShutdownFlushes`, in safe mode always, in fast mode if no call fails and no process dies |
| `StoredHasItsKey`, `AnswersAreTrue` | `IngestHandlers`: `HandlersSpec => []OnlyWithItsKey`, `HandlersSpec => []HandlersAnswerTruly` |
| `RemovedProjectsGetNothing` | `HandlersSpec => HandlersNothingAfterRemoval` |
| `ExportsAreKept`, `RepeatsAddNothing` | `TelemetryExport`: `Spec => []ExportKeepsItems`, `Spec => ExportRepeatAddsNothing` |
| `EnvelopesAreUnderstood` | `SentryEnvelope`: `Spec => []EnvelopeIsUnderstood` |
| `TypesKept`, `NoOvercount`, `ExactDifferences` | `CumulativeSums`: `Spec => []TypeOK`, `Spec => []NeverOvercounts`, `Spec => []DifferencesAreRight` |
| `IntervalIsShortest`, `FewBuckets` | for every range, the interval spans it in 299 buckets or is the longest one, no shorter one spans it, and a longer range gets no finer buckets; at most 300 buckets for ranges up to 299 of the longest interval |
| `LiveTypesKept`, `StreamHasNoGaps`, `PageShowsWhatItHeard`, `PageShowsItsTable` | `LiveEvents`: `LiveSpec => []` of `LiveTypeOK`, `NoGaps`, `HeardIsShown`, `ShowsItsTable` |
| `LivePagesAreCurrent` | `LiveSpec => []LivePageIsCurrent`, the four together |
| `RecordPagesAreComplete` | `Pagination`: `PagesSpec => []PagesAreComplete` |
| `IssuePagesListAll` | `IssuePages`: `Spec => []IssuesAreListed` |
| `GetToolFindsWhatStays` | `McpGet`: `Spec => []GetFindsWhatStays` |
| `MatcherIsRight` | `Wildcard`: `Spec => []WildcardIsRight` |
| `DaemonEndsInOrder` | `Supervisor`: `Spec => []EndsInOrder` |

**Store.** `ManifestFilesIntact` is not inductive: a power loss may go back to
any recoverable database, and an unlink removes a file that some manifest might
name. `FilesInv` adds why neither hurts: manifests and the id counter change
only in synced batches, so all recoverable databases agree on them
(`SyncedAgree`); a part has one manifest; the part being written is fresh and
its file is complete when the manifest is published; doomed parts have no
manifest any more. `NoOrphanKeys` needs that a removal has cleared every
keyspace when it drops the row: `RowsInv` adds that the keyspaces it has passed
(`Passed`) stay clear while it goes on, and that the manifest in flight belongs
to a project. One lemma per operator on the database (`WrittenHomed`,
`ArchivedHomed`, `DecrementedHomed`, `FewerHomed`) says that it adds no key
of an unknown project. `OpenRepairs` adds to `FilesInv` that a Parquet file under
the name of a published part is that part (`PartsInv`): what `cleanup` keeps by
name is complete, also after a rename that no manifest followed.

**Consistent.** `Sound(d)` says of one database what `Consistent` says, and what
it depends on: project ids and parts are unique, a part file is not empty and
holds rows of one project, and in a served project no two stored rows share a
key, in whatever tier, with `source_ids` as exactly their keys (`KeysOnce`).
`ConsistencyInv` asks it of all recoverable databases, and of the group in
flight that it is still hot, and of a removal under way that its project is
not served. A mutator then changes the rows of one project, and one lemma per
mutator shows that keys, lookups and the counts of issues move with them
(write, archival, the three evictions, the removal's chunks).
`IssuesExact` is arithmetic over cardinalities: a batch's new records of a
group are disjoint from those its issue counts.

**Retention.** The abstraction takes the union over the recoverable databases: a
project is live, and a record kept, as long as some of them has it, so a step
that only makes things durable is a stutter, and a power loss takes what the
survivor lacks. `PromiseInv` says how far recoverable databases can differ: in
one project in removal at most, and in what a fast write added. From it every
step maps: `AddProject` to `Create`, `WriteRecords` to `Accept` (or a stutter),
the evictions to `Evict`, the first synced batch after a mark (`SyncMark` when no
call fails) to `Close`, what moves or drops rows that no longer count (publishing
a part, the chunks of a removal, dropping the project) to `Reclaim`, a power loss
to `Lose` or, when it decides the fate of a mark, to `Close` or `Reclaim`; files,
restart and cleanup are stutters. The condition
is needed: when the sync of a mark fails, the mark is visible but may be lost,
and the next synced batch of any other mutator makes it durable, which closes a
project in the same step as what the batch does itself.

**Readers.** `ReadersImplementStore`: readers leave the store alone, so every
theorem of the store holds beside them. `HomesInv` strengthens what a reader may
rely on to projects that are not served as well: a row is in one place, has its
key for itself, is filed with its signal, and an entry of `archive_ids` names a
part that has it. `ReadInv` has one statement for each place a read can be at: of
what it is to find, a row is found already, is still to be looked up, or waits
in the tier that is read later. Archival moves rows hot to cold and readers
look hot first; the mutators' lemma (`MutatorHomes`) says that nothing moves
back. Eviction and removal put what they take into `moved`, which is the
exception each answer allows.

**Ingest.** `SyncedBeforeSuccess` needs `SyncedInv`: in safe mode every commit
is synced, so the visible database is the only recoverable one, and a batch
about to be answered with success is in it. `AcceptedCountsStored` needs
`CountInv`: every database, the durable ones too, counts its own records, which
are among the finitely many there are. `ShutdownIsLast` needs `LastInv`: one shutdown message at
most, the phase it belongs to, and no pending request once it is sent.
`NoLostRequest` is then inductive: what takes a message from the queue puts it
into the batch, and the batch ends in an answer. `WriterShutdownFlushes` needs
`FlushInv`: an accepted batch is stored, queued, or with the writer before its
write, and when the shutdown message has been taken nothing is queued.

**Handlers.** `HandlerInv`: a handler that goes on has found the right key as far
as it has read keys, a batch in the queue or the store has no wrong one, and
stage, status, queue and store of a client fit, in each durability. The invariant is one of each
client for itself (`ClientInv`); only the removal of the project concerns all.
`HandlersNothingAfterRemoval` needs no invariant: the writer reads the project
again in the step that commits, and no step unmarks it.

**Exports.** `ExportInv`: of every delivered request each record is known to the
store, by its id from its source or as the same span; what is stored was
derived from a delivered request; and a source has an id once. Records of
different items share an id only as the properties allow, which is a matter of
what goes into each hash: one lemma per item kind says what a record derived
from it has as source and id.

**Envelopes.** `Layout` gives each item the place in the body where it begins:
header, newline, payload, newline. `EnvelopeInv` says that what arrived is a
prefix of the body, that the server's cursor is at the place of the next item or
at the end of what arrived, and that the items read are those before it
(`Understood`). A header is one line because no newline is in it (`LineEndIs`);
a payload with a length ends where its length says and one without at the first
newline, which by `IsLine` is its own (`ReadIs`). The server gives up only in a
body that is short by more than its last newline.

**Pages of records.** `SeenInv`: what was stored all the time, is asked for and
not beyond the cursor was shown. `ScanInv` and `MissInv` carry it through a page:
the scan meets the hot index newest first and stops at a millisecond only with
more than a page in hand, so what it leaves out is older than the page's last
record. Archival between scan and merge moves a record from one tier to the one
read later. What a page is, the newest `Limit` of what both tiers gave, is a
count of the records before each of them (`NewerOrders`).

**Pages of issues.** Issues only move up. `LookupInv`: an issue that is quiet is
still where the index had it, to be fetched or among those fetched, and the
fetched precede the rest in the order of the index; `ShownInv` and `OrderInv` say
what the pages so far have of them down to the cursor.

**The `get` tool.** `LookInv`: a record that stays is where the next look goes,
unless archival took it from the hot tier between index and row. `EventInv`: the
issue's row tells of everything that stays, and what the search of the hot tier
did not beat is in the archive, which is searched next. `LeftInv`: a part that
was listed is there, or its record was evicted during the call. `IssueInv` relates
the row of an issue to the events behind it.

**The pattern loop.** `MatchedInv`: the pattern up to the loop's place describes
the value up to it, and up to the last star up to the checkpoint, so a yes is
right. `FirstInv` is why a no is right for a value without stars: no match of the
whole pattern ends its last star before the checkpoint. That a match
is a function from the pattern to ends in the value keeps recursion out of it.

**Sums.** What makes `NeverOvercounts` true is a fact about clients: an exported
point lies behind its counter, and one of an earlier run by as much as the
counter has grown since (`PointsInv`, `Behind`). `StateInv` carries it to the
store: the state of a stream is an exported point, and no more was credited
than the counter had grown up to it. Both hold in the visible, the durable and
the half-written database, so eviction, redelivery and power losses need no case
of their own. `DifferencesAreRight` needs two more: within a run that tells its
start the exported points of a monotonic counter only grow, and until the first
restart a point's value is its total (`RunsInv`); and what a stream without a
restart was credited is exactly the total of its state's point, less its base,
with no filed point later than that (`ExactInv`).

**Live page.** `LiveInv`: the places on the wire follow the one heard last and
the one to be forwarded follows them (`StreamInv`), no announcement tells of more
than its table has (`AnnouncedInv`), and each place heard since the stream began
is shown, read, about to be read, or given up with an error (`PageInv`). Without
the first a message could step over a change of the page's table.

**Supervisor.** `EndsInOrder` speaks of the end; `StageInv` says what runs at each
stage on the way there, `RequestInv` that open requests belong to tasks that
have served, and `FailedInv` that whoever ended while it was needed is on record
as failed. `SelectDone` needs both: what is read first, before any shutdown, is
a failure.

TLC checked the inductive invariants before they were proved: `ConsistencyInv`,
`PartsInv` and `PromiseInv` on the instances of the store runs, `ReadInv`,
`HomesInv`, `GetInv`, `PageInv` and `ListInv` on those of `reads`,
`DifferenceInv`, `HandlerInv`, `ExportInv` and `EnvelopeInv` (with the places of
the items given) on those of `protocols`, `MatchInv` on that of
`queries`, `FlushInv` and `LiveInv` on instances a size larger than those of the
runs.

Only model-checked, and why:

* Liveness, since the provers have no `ENABLED` reasoning: `JobEnds`,
  `RemovalCompletes`, `EveryRequestAnswered`, `ShutdownCompletes`, `Ends`,
  `LiveShutdownCompletes`, `LiveHeardComesToShow`, `LoopsEnd`.
* `ParserIsRight` and `HintsHiddenOnlyInLists`: trees of any depth, parsed and
  evaluated by recursive operators, which the provers do not support.
* `AtomsAreRead`: the scanner folds over the characters of any text, and
  `MetricsAddUp` sums over any number of samples; what a fold computes takes
  induction over data.

## 5. Findings

* `store_target`: `enforce_storage_target` can return more than its target with
  nothing left to evict. `logical_bytes` counts `cumulative_sums`, no eviction
  loop removes any; once they alone exceed the target, every record is evicted
  at the next pass. The test at `src/store.rs:1491` asserts that the call
  returns at most its target.
* `ingest_diagnostics`: diagnostics only fill what messages leave of a batch,
  and the writer returns after the batch that holds the shutdown message, so a
  burst of refusals before a shutdown is missing from the persisted counters.
  The test `listener_failure_shuts_down_and_flushes_writer` asserts the flush
  for one diagnostic.
* `wildcard_stars`: a `*` in the value consumes the `*` of the pattern as a
  literal (`src/query.rs:886`), no checkpoint is kept, and the value `*a` is not
  matched by `*`. `README.md:94` offers `message:*timeout`.
* `atoms_ids`: an unquoted id that reads as a number (all digits, or digits
  around one `e`) becomes a number and equals no stored string
  (`src/query.rs:823`). `README.md:95` offers `trace_id:TRACE_ID`.

Met while modelling, and written into the properties as what the code does:

* An open stream of MCP holds up the end of the daemon: the graceful shutdown waits
  for it and does not end it (`src/server.rs:304`, `src/mcp.rs:274`).
* In fast mode a client is told success although its write may fail afterwards; the
  failure shows in a counter only (`src/writer.rs:189`).
* `search_issues` fails as a whole when an issue is evicted between the index
  and its fetch (`src/store.rs:934`, `IssueMissing`).
* An issue that is seen again during a page keeps its old place in the list with
  its new time, and the cursor is made from that (`src/store.rs:953`).
* `get_record`, and `get` of the MCP bridge with it, may miss a record, and a
  metric query count one twice, while archival moves it.
* Changes that are committed while a page has no stream open are not announced
  to it (`main.tsx:868`), and `onopen` reads nothing.
* A search of the hot tier misses a value that is not the first of a list, which
  the same search finds in the archive (`HintsHiddenOnlyInLists`).
* A colon inside quotes splits an atom into field and value
  (`src/query.rs:771`), as `SearchAtoms` has it.
* `create_dir_all` may create several directories, only the innermost is synced
  (`src/archive.rs:175`); the model takes directories for durable.

## 6. Plan

Done: the store with its contract, its readers, pages over both tiers; the
ingest path from the body to the commit; the query language and metric queries;
the live page; the daemon. Every safety property of the store, its readers and
their pages, the writer, the handlers, envelopes and exports, the sums, the live
page, the `get` tool, the pattern loop and the daemon is proved, and that the
store implements `Retention`.

Left, in this order:

1. `Retention`'s promise with failing calls, for which `Close` has to be joined
   to the step of another mutator.
2. `Store` with the level, issue and trace indexes, so that `SearchHints` runs
   over the rows of a store that moves.

## 7. Not modelled

* The command line and its printing, the transport of the MCP bridge and its
  tools other than `get`: one request each, no state.
* Rendering, routing and details of the web interface.
* Protobuf, msgpack, JSON and gzip decoding (libraries; a body is well-formed or
  not), field normalisation and issue fingerprints of `src/ingest/`, titles,
  raw payloads, logging: data the properties do not tell apart.
* `validate_fields`, a list of names.
* HTTP routing, static files, bind validation.
* DuckDB's 30 s watchdog is a failing call (`CallsFail`); its thread serves one
  command after the other, and the interleavings of the commands are those of
  the callers.
* Fjall and DuckDB are external: only what the code relies on is assumed.
* Floating-point rounding and hash collisions.

## 8. Running

    tlc -workers 2 -config MCStore_safe.cfg MCStore
    tlc -workers 2 -config MCReads.cfg MCReads
    tlc -workers 2 -config Wildcard_stars.cfg Wildcard
    tlapm StoreProofs.tla
