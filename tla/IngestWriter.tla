---------------------------- MODULE IngestWriter ----------------------------
(***************************************************************************)
(* The ingest path from HTTP request to database: handlers of the ingest   *)
(* listeners (src/src/ingest), the bounded queue, the single writer task   *)
(* that commits what it gathers (src/src/writer.rs), and the shutdown of   *)
(* the server around them (src/src/server.rs).                             *)
(*                                                                         *)
(* A client sends one batch of records until it is told that the batch is  *)
(* accepted.  The store is what write_records makes of it: a set of records *)
(* that are never stored twice, and counters.  A handler that finds the    *)
(* writer gone answers 503: the writer outlives the handlers, so here only *)
(* a crash does that.                                                      *)
(***************************************************************************)
EXTENDS Naturals, Sequences, FiniteSets

CONSTANTS
    Batches,              \* what clients send
    Records,              \* the records in them, named by their source ids
    RecordsOf,            \* the records of a batch
    None,
    Safe,                 \* Durability::Safe
    QueueCapacity,        \* QUEUE_CAPACITY
    MaxBatchMessages,     \* MAX_BATCH_MESSAGES
    CallsFail,            \* whether database calls may fail
    Crashes,              \* whether the process and the machine may die
    MaxAttempts,          \* bound: requests a client makes for its batch
    MaxFailures           \* bound: batches that fail, in a process and on disk

ASSUME IngestAssumption ==
    /\ RecordsOf \in [Batches -> SUBSET Records]
    /\ IsFiniteSet(Records)
    /\ None \notin Batches
    /\ Safe \in BOOLEAN
    /\ QueueCapacity \in Nat \ {0}
    /\ MaxBatchMessages \in Nat \ {0}
    /\ CallsFail \in BOOLEAN
    /\ Crashes \in BOOLEAN
    /\ MaxAttempts \in Nat
    /\ MaxFailures \in Nat

VARIABLES
    clients,          \* each batch's request: its state and its number
    phase,            \* the server: serving, draining, flushing, stopped
    queue,            \* the bounded channel of messages
    diagnostics,      \* how many names the unbounded channel holds
    pc,               \* the step the writer task is at
    taken,            \* the messages it has gathered
    extra,            \* the diagnostics it has gathered
    outcome,          \* what write_records returned
    db,               \* the database, as reads see it
    recoverable,      \* the databases a power loss can leave behind
    process           \* ProcessStats, the counters of this process

vars == <<clients, phase, queue, diagnostics, pc, taken, extra, outcome, db,
          recoverable, process>>

States == {"new", "handling", "waiting", "ok", "busy", "error", "rejected",
           "unavailable", "gone"}
Client == [state : States, attempt : Nat]
Shutdown == [batch |-> None, attempt |-> 0]
Message == [batch : Batches, attempt : Nat] \cup {Shutdown}
Outcome == [ok : BOOLEAN, accepted : Nat]
Database == [stored : SUBSET Records, accepted : Nat, failed : Nat,
             counted : Nat]
Process == [accepted : Nat, failed : Nat, rejected : Nat]

EmptyDatabase == [stored |-> {}, accepted |-> 0, failed |-> 0, counted |-> 0]
NewProcess == [accepted |-> 0, failed |-> 0, rejected |-> 0]
NoOutcome == [ok |-> FALSE, accepted |-> 0]

Writer == <<pc, taken, extra, outcome>>
Stored == <<db, recoverable>>

Lesser(m, n) == IF m <= n THEN m ELSE n
Attempt(b) == [batch |-> b, attempt |-> clients[b].attempt]
Become(b, state) == clients' = [clients EXCEPT ![b].state = state]

Commit(d, synced) ==
    /\ db' = d
    /\ recoverable' = IF synced THEN {d} ELSE recoverable \cup {d}

Init ==
    /\ clients = [b \in Batches |-> [state |-> "new", attempt |-> 0]]
    /\ phase = "serving"
    /\ queue = <<>>
    /\ diagnostics = 0
    /\ pc = "select"
    /\ taken = {}
    /\ extra = 0
    /\ outcome = NoOutcome
    /\ db = EmptyDatabase
    /\ recoverable = {EmptyDatabase}
    /\ process = NewProcess

-----------------------------------------------------------------------------
(* Requests and their handlers.                                            *)

\* A client sends its batch, or sends it again after anything but success.
Request(b) ==
    /\ phase = "serving"
    /\ clients[b].state \notin {"handling", "waiting", "ok", "rejected"}
    /\ clients[b].attempt < MaxAttempts
    /\ clients' = [clients EXCEPT ![b] = [state |-> "handling",
                                          attempt |-> @.attempt + 1]]
    /\ UNCHANGED <<phase, queue, diagnostics, Writer, Stored, process>>

\* A refusal is counted by the process and, through the writer, on disk.
Diagnostic ==
    /\ diagnostics' = diagnostics + 1
    /\ process' = [process EXCEPT !.rejected = @ + 1]

\* Malformed or unauthorised.
Reject(b) ==
    /\ clients[b].state = "handling"
    /\ Become(b, "rejected")
    /\ Diagnostic
    /\ UNCHANGED <<phase, queue, Writer, Stored>>

\* IngestWriter::submit: in fast mode success is to be in the queue.
Submit(b) ==
    /\ clients[b].state = "handling"
    /\ Len(queue) < QueueCapacity
    /\ queue' = Append(queue, Attempt(b))
    /\ Become(b, IF Safe THEN "waiting" ELSE "ok")
    /\ UNCHANGED <<phase, diagnostics, Writer, Stored, process>>

SubmitFull(b) ==
    /\ clients[b].state = "handling"
    /\ Len(queue) >= QueueCapacity
    /\ Become(b, "busy")
    /\ Diagnostic
    /\ UNCHANGED <<phase, queue, Writer, Stored>>

\* The client hangs up and its handler is dropped; the message is not.
Disconnect(b) ==
    /\ clients[b].state \in {"handling", "waiting"}
    /\ Become(b, "gone")
    /\ UNCHANGED <<phase, queue, diagnostics, Writer, Stored, process>>

-----------------------------------------------------------------------------
(* run_writer: take one item, wait, gather up to a full batch, write it.   *)

Take(messages, names) ==
    /\ taken' = taken \cup {queue[i] : i \in 1..messages}
    /\ queue' = SubSeq(queue, messages + 1, Len(queue))
    /\ extra' = extra + names
    /\ diagnostics' = diagnostics - names
    /\ UNCHANGED <<clients, phase, outcome, Stored, process>>

\* Mutant of Room: a batch takes one item more.
RoomAndOne == MaxBatchMessages + 1 - (Cardinality(taken) + extra)

Room == MaxBatchMessages - (Cardinality(taken) + extra)

\* Mutant of SelectMessage: the writer waits for company.
SelectTwoMessages ==
    /\ pc = "select"
    /\ Len(queue) >= 2
    /\ Take(1, 0)
    /\ pc' = "messages"

\* select! picks a ready channel at random.
SelectMessage ==
    /\ pc = "select"
    /\ queue # <<>>
    /\ Take(1, 0)
    /\ pc' = "messages"

SelectDiagnostic ==
    /\ pc = "select"
    /\ diagnostics > 0
    /\ Take(0, 1)
    /\ pc' = "messages"

GatherMessages ==
    /\ pc = "messages"
    /\ Take(Lesser(Len(queue), Room), 0)
    /\ pc' = "diagnostics"

GatherDiagnostics ==
    /\ pc = "diagnostics"
    /\ Take(0, Lesser(diagnostics, Room))
    /\ pc' = "write"

\* Mutant of New: source ids are not looked up.
AllTaken == UNION {RecordsOf[m.batch] : m \in taken \ {Shutdown}}

\* The records of the gathered batches that the store does not have.
New == (UNION {RecordsOf[m.batch] : m \in taken \ {Shutdown}}) \ db.stored

\* Mutant of WriteRecords: the durability is not passed on.
WriteRecordsBuffered ==
    /\ pc = "write"
    /\ Commit([db EXCEPT !.stored = @ \cup New,
                         !.accepted = @ + Cardinality(New),
                         !.counted = @ + extra], FALSE)
    /\ outcome' = [ok |-> TRUE, accepted |-> Cardinality(New)]
    /\ pc' = "answer"
    /\ UNCHANGED <<clients, phase, queue, diagnostics, taken, extra, process>>

\* Store::write_records; rows and counters go in one batch.
WriteRecords ==
    /\ pc = "write"
    /\ Commit([db EXCEPT !.stored = @ \cup New,
                         !.accepted = @ + Cardinality(New),
                         !.counted = @ + extra], Safe)
    /\ outcome' = [ok |-> TRUE, accepted |-> Cardinality(New)]
    /\ pc' = "answer"
    /\ UNCHANGED <<clients, phase, queue, diagnostics, taken, extra, process>>

WriteFails ==
    /\ pc = "write"
    /\ CallsFail
    /\ db.failed < MaxFailures /\ process.failed < MaxFailures
    /\ outcome' = NoOutcome
    /\ process' = [process EXCEPT !.failed = @ + 1]
    /\ pc' = "report"
    /\ UNCHANGED <<clients, phase, queue, diagnostics, taken, extra, Stored>>

\* Store::increment_diagnostic, whose own failure is ignored.
Report ==
    /\ pc = "report"
    /\ \/ Commit([db EXCEPT !.failed = @ + 1], Safe)
       \/ UNCHANGED Stored
    /\ pc' = "answer"
    /\ UNCHANGED <<clients, phase, queue, diagnostics, taken, extra, outcome,
                   process>>

\* Every request of the batch that is still waiting gets the same answer.
Answered(answer) ==
    [b \in Batches |->
        IF clients[b].state = "waiting" /\ Attempt(b) \in taken
        THEN [clients[b] EXCEPT !.state = answer]
        ELSE clients[b]]

\* Mutant of Answer: the shutdown message is forgotten.
AnswerAndGoOn ==
    /\ pc = "answer"
    /\ clients' = Answered(IF outcome.ok THEN "ok" ELSE "error")
    /\ process' = [process EXCEPT !.accepted = @ + outcome.accepted]
    /\ pc' = "select"
    /\ taken' = {}
    /\ extra' = 0
    /\ outcome' = NoOutcome
    /\ UNCHANGED <<phase, queue, diagnostics, Stored>>

Answer ==
    /\ pc = "answer"
    /\ clients' = Answered(IF outcome.ok THEN "ok" ELSE "error")
    /\ process' = [process EXCEPT !.accepted = @ + outcome.accepted]
    /\ pc' = IF Shutdown \in taken THEN "persist" ELSE "select"
    /\ taken' = {}
    /\ extra' = 0
    /\ outcome' = NoOutcome
    /\ UNCHANGED <<phase, queue, diagnostics, Stored>>

\* Mutant of Persist: the writer returns without it.
StopWithoutPersist ==
    /\ pc = "persist"
    /\ pc' = "stopped"
    /\ phase' = "stopped"
    /\ queue' = <<>>
    /\ diagnostics' = 0
    /\ UNCHANGED <<clients, taken, extra, outcome, Stored, process>>

\* The final Store::persist; the writer returns and its channels are closed.
Persist ==
    /\ pc = "persist"
    /\ \/ Commit(db, TRUE)
       \/ CallsFail /\ UNCHANGED Stored
    /\ pc' = "stopped"
    /\ phase' = "stopped"
    /\ queue' = <<>>
    /\ diagnostics' = 0
    /\ UNCHANGED <<clients, taken, extra, outcome, process>>

-----------------------------------------------------------------------------
(* The server around the writer.                                           *)

\* A signal or the end of a listener; no new connection is accepted.
BeginShutdown ==
    /\ phase = "serving"
    /\ phase' = "draining"
    /\ UNCHANGED <<clients, queue, diagnostics, Writer, Stored, process>>

\* Mutant of SendShutdown: handlers may still be running.
SendShutdownAtOnce ==
    /\ phase = "draining"
    /\ Len(queue) < QueueCapacity
    /\ queue' = Append(queue, Shutdown)
    /\ phase' = "flushing"
    /\ UNCHANGED <<clients, diagnostics, Writer, Stored, process>>

\* IngestWriter::shutdown, once the listeners' tasks have ended.
SendShutdown ==
    /\ phase = "draining"
    /\ \A b \in Batches : clients[b].state \notin {"handling", "waiting"}
    /\ Len(queue) < QueueCapacity
    /\ queue' = Append(queue, Shutdown)
    /\ phase' = "flushing"
    /\ UNCHANGED <<clients, diagnostics, Writer, Stored, process>>

\* The next process: memory is new, open requests were cut off.
Start ==
    /\ clients' = [b \in Batches |->
                      IF clients[b].state \in {"handling", "waiting"}
                      THEN [clients[b] EXCEPT !.state = "unavailable"]
                      ELSE clients[b]]
    /\ phase' = "serving"
    /\ queue' = <<>>
    /\ diagnostics' = 0
    /\ pc' = "select"
    /\ taken' = {}
    /\ extra' = 0
    /\ outcome' = NoOutcome
    /\ process' = NewProcess

Restart ==
    /\ phase = "stopped"
    /\ Start
    /\ UNCHANGED Stored

ProcessCrash ==
    /\ Crashes
    /\ phase # "stopped"
    /\ Start
    /\ UNCHANGED Stored

PowerLoss(d) ==
    /\ Crashes
    /\ Start
    /\ db' = d
    /\ recoverable' = {d}

-----------------------------------------------------------------------------
(* The specification.                                                      *)

Handle(b) == Reject(b) \/ Submit(b) \/ SubmitFull(b)

RunWriter ==
    \/ SelectMessage
    \/ SelectDiagnostic
    \/ GatherMessages
    \/ GatherDiagnostics
    \/ WriteRecords
    \/ WriteFails
    \/ Report
    \/ Answer
    \/ Persist

Next ==
    \/ \E b \in Batches : Request(b) \/ Handle(b) \/ Disconnect(b)
    \/ RunWriter
    \/ BeginShutdown
    \/ SendShutdown
    \/ Restart
    \/ ProcessCrash
    \/ \E d \in recoverable : PowerLoss(d)

Spec == Init /\ [][Next]_vars

-----------------------------------------------------------------------------
(* Properties.                                                             *)

\* The variables keep their types and no batch outgrows MAX_BATCH_MESSAGES.
TypeOK ==
    /\ clients \in [Batches -> Client]
    /\ phase \in {"serving", "draining", "flushing", "stopped"}
    /\ queue \in Seq(Message)
    /\ Len(queue) <= QueueCapacity
    /\ diagnostics \in Nat
    /\ pc \in {"select", "messages", "diagnostics", "write", "report",
               "answer", "persist", "stopped"}
    /\ taken \subseteq Message
    /\ extra \in Nat
    /\ Cardinality(taken) + extra <= MaxBatchMessages
    /\ outcome \in Outcome
    /\ db \in Database
    /\ recoverable \subseteq Database
    /\ process \in Process

\* "Safe durability ... syncs accepted batches before HTTP success": a power
\* loss at any later moment leaves the batch of a client that was told ok.
SyncedBeforeSuccess ==
    Safe => \A b \in Batches : clients[b].state = "ok" =>
        \A d \in recoverable : RecordsOf[b] \subseteq d.stored

\* "Normal shutdown still flushes it": when the server has stopped, a power
\* loss leaves every batch a client was told was accepted, in fast mode too.
WriterShutdownFlushes ==
    phase = "stopped" => \A b \in Batches : clients[b].state = "ok" =>
        \A d \in recoverable : RecordsOf[b] \subseteq d.stored

\* Retries, overlapping batches and crashes never make the accepted counter
\* drift from what is stored: rows and counters are one commit, and a record
\* is counted by the first batch that has it.
AcceptedCountsStored ==
    \A d \in recoverable : d.accepted = Cardinality(d.stored)

\* A waiting request's message is always in the queue or with the writer, so
\* that the writer cannot forget to answer it.
NoLostRequest ==
    \A b \in Batches : clients[b].state = "waiting" =>
        \/ \E i \in 1..Len(queue) : queue[i] = Attempt(b)
        \/ Attempt(b) \in taken /\ pc \notin {"select", "persist", "stopped"}

\* The writer is the only task that takes messages and SendShutdown waits
\* for the handlers: nothing is queued behind the shutdown message and no
\* request is pending when the writer stops.
ShutdownIsLast ==
    /\ phase = "flushing" =>
          \/ queue # <<>> /\ queue[Len(queue)] = Shutdown
          \/ queue = <<>> /\ (Shutdown \in taken \/ pc = "persist")
    /\ phase \in {"flushing", "stopped"} =>
          \A b \in Batches : clients[b].state \notin {"handling", "waiting"}

\* Nothing that was admitted is forgotten: waiting requests have their message,
\* and the shutdown overtakes none.
NothingForgotten == NoLostRequest /\ ShutdownIsLast

\* The listener-failure test, for every history: after a normal shutdown of
\* the first process every refusal it counted is counted on disk.
DiagnosticsFlushed == phase = "stopped" => db.counted >= process.rejected

\* Handlers run, the writer runs and the shutdown message is sent.
FairSpec ==
    /\ Spec
    /\ \A b \in Batches : WF_vars(Handle(b))
    /\ WF_vars(RunWriter)
    /\ WF_vars(SendShutdown)

\* Every request is answered, whatever else is queued, failing or stopping.
EveryRequestAnswered ==
    \A b \in Batches :
        clients[b].state \in {"handling", "waiting"}
            ~> clients[b].state \notin {"handling", "waiting"}

\* A shutdown comes to its end, unless the process dies first.
ShutdownCompletes ==
    phase \in {"draining", "flushing"} ~> phase \in {"stopped", "serving"}

=============================================================================
