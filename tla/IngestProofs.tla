---------------------------- MODULE IngestProofs ----------------------------
(***************************************************************************)
(* Theorems about IngestWriter for every set of batches, queue capacity,   *)
(* batch size and bound.                                                   *)
(***************************************************************************)
EXTENDS IngestWriter, FiniteSetTheorems, SequenceTheorems, TLAPS

\* What the writer gathers is finite, and nothing between two batches.
GatherInv ==
    /\ IsFiniteSet(taken)
    /\ pc \in {"select", "persist", "stopped"} => taken = {} /\ extra = 0

\* The first n messages of the queue are at most n.
LEMMA FirstMessages ==
  ASSUME NEW q \in Seq(Message), NEW n \in Nat, n <= Len(q)
  PROVE  LET S == {q[i] : i \in 1..n}
         IN  /\ IsFiniteSet(S)
             /\ Cardinality(S) \in Nat
             /\ Cardinality(S) <= n
             /\ S \subseteq Message
<1>1. IsFiniteSet(1..n) /\ Cardinality(1..n) = n
  BY FS_Interval
<1> DEFINE S == {q[i] : i \in 1..n}
<1>2. IsFiniteSet(S) /\ Cardinality(S) <= Cardinality(1..n)
  <2> DEFINE f == [i \in 1..n |-> q[i]]
  <2>1. f \in Surjection(1..n, S)
    BY DEF Surjection, Range
  <2> QED  BY <1>1, <2>1, FS_Surjection
<1>3. S \subseteq Message
  OBVIOUS
<1> QED  BY <1>1, <1>2, <1>3, FS_CardinalityType

\* Taking messages and names that fit keeps the types and the batch bound.
LEMMA TakeType ==
  ASSUME TypeOK, GatherInv, NEW messages \in Nat, NEW names \in Nat,
         messages <= Len(queue), names <= diagnostics,
         Cardinality(taken) + extra + messages + names <= MaxBatchMessages,
         Take(messages, names)
  PROVE  /\ taken' \subseteq Message
         /\ IsFiniteSet(taken')
         /\ extra' \in Nat
         /\ Cardinality(taken') + extra' <= MaxBatchMessages
         /\ queue' \in Seq(Message)
         /\ Len(queue') <= QueueCapacity
         /\ diagnostics' \in Nat
<1> USE IngestAssumption
<1> DEFINE S == {queue[i] : i \in 1..messages}
<1>1. queue \in Seq(Message) /\ Len(queue) \in Nat /\ Len(queue) <= QueueCapacity
  BY DEF TypeOK
<1>2. IsFiniteSet(S) /\ Cardinality(S) \in Nat /\ Cardinality(S) <= messages
      /\ S \subseteq Message
  BY <1>1, FirstMessages
<1>3. IsFiniteSet(taken) /\ Cardinality(taken) \in Nat
  BY FS_CardinalityType DEF GatherInv
<1>4. taken' = taken \cup S /\ extra' = extra + names
      /\ diagnostics' = diagnostics - names
      /\ queue' = SubSeq(queue, messages + 1, Len(queue))
  BY DEF Take
<1> HIDE DEF S
<1>5. /\ IsFiniteSet(taken \cup S)
      /\ Cardinality(taken \cup S) <= Cardinality(taken) + Cardinality(S)
  <2>1. /\ IsFiniteSet(taken \cup S)
        /\ Cardinality(taken \cup S) =
              Cardinality(taken) + Cardinality(S) - Cardinality(taken \cap S)
    BY <1>2, <1>3, FS_Union
  <2>2. Cardinality(taken \cap S) \in Nat
    BY <1>2, FS_Intersection, FS_CardinalityType
  <2> QED  BY <1>2, <1>3, <2>1, <2>2
<1>6. Cardinality(taken \cup S) \in Nat
  BY <1>5, FS_CardinalityType
<1>7. queue' \in Seq(Message) /\ Len(queue') <= Len(queue)
  BY <1>1, <1>4
<1> QED  BY <1>1, <1>2, <1>3, <1>4, <1>5, <1>6, <1>7 DEF TypeOK

\* A new server is well typed and its writer has gathered nothing.
LEMMA InitIngestType == Init => TypeOK /\ GatherInv
BY IngestAssumption, FS_EmptySet
DEF Init, TypeOK, GatherInv, Client, States, NoOutcome, Outcome,
    EmptyDatabase, Database, NewProcess, Process

\* The message of a request is a message.
LEMMA AttemptType ==
  ASSUME TypeOK, NEW b \in Batches
  PROVE  Attempt(b) \in Message /\ Attempt(b).batch = b /\ Attempt(b) # Shutdown
BY IngestAssumption DEF TypeOK, Attempt, Message, Client, Shutdown

\* A request takes one of the states.
LEMMA BecomeType ==
  ASSUME TypeOK, NEW b \in Batches, NEW s \in States, Become(b, s)
  PROVE  clients' \in [Batches -> Client]
BY DEF TypeOK, Become, Client

\* What a commit adds is a finite set of records.
LEMMA NewType ==
  ASSUME TypeOK
  PROVE  New \subseteq Records /\ Cardinality(New) \in Nat
<1>1. ASSUME NEW m \in taken \ {Shutdown}
      PROVE  RecordsOf[m.batch] \subseteq Records
  <2>1. m.batch \in Batches  BY DEF TypeOK, Message
  <2> QED  BY <2>1, IngestAssumption
<1>2. New \subseteq Records  BY <1>1 DEF New
<1> QED  BY <1>2, IngestAssumption, FS_Subset, FS_CardinalityType

\* While the writer gathers, the room left in a batch is a natural number.
LEMMA RoomType ==
  ASSUME TypeOK, GatherInv
  PROVE  /\ Room \in Nat
         /\ Cardinality(taken) \in Nat
         /\ Cardinality(taken) + extra + Room = MaxBatchMessages
<1>1. Cardinality(taken) \in Nat  BY FS_CardinalityType DEF GatherInv
<1>2. extra \in Nat /\ MaxBatchMessages \in Nat
      /\ Cardinality(taken) + extra <= MaxBatchMessages
  BY IngestAssumption DEF TypeOK
<1> QED  BY <1>1, <1>2 DEF Room

\* Every step keeps the types and the bounds of queue and batch.
LEMMA NextIngestType == TypeOK /\ GatherInv /\ [Next]_vars => TypeOK' /\ GatherInv'
<1> SUFFICES ASSUME TypeOK, GatherInv, [Next]_vars PROVE TypeOK' /\ GatherInv'
  OBVIOUS
<1> USE IngestAssumption
<1>1. ASSUME NEW b \in Batches, Request(b)  PROVE TypeOK' /\ GatherInv'
  <2>1. clients' \in [Batches -> Client]
    BY <1>1 DEF Request, TypeOK, Client, States
  <2> QED  BY <1>1, <2>1 DEF Request, TypeOK, GatherInv, Writer, Stored
<1>2. ASSUME NEW b \in Batches, Reject(b) \/ SubmitFull(b)
      PROVE  TypeOK' /\ GatherInv'
  <2>1. clients' \in [Batches -> Client]
    BY <1>2, BecomeType DEF Reject, SubmitFull, States
  <2>2. diagnostics' \in Nat /\ process' \in Process
    BY <1>2 DEF Reject, SubmitFull, Diagnostic, TypeOK, Process
  <2> QED
    BY <1>2, <2>1, <2>2
    DEF Reject, SubmitFull, TypeOK, GatherInv, Writer, Stored
<1>3. ASSUME NEW b \in Batches, Submit(b)  PROVE TypeOK' /\ GatherInv'
  <2>1. clients' \in [Batches -> Client]
    BY <1>3, BecomeType DEF Submit, States
  <2>2. queue' \in Seq(Message) /\ Len(queue') <= QueueCapacity
    BY <1>3, AttemptType DEF Submit, TypeOK
  <2> QED
    BY <1>3, <2>1, <2>2 DEF Submit, TypeOK, GatherInv, Writer, Stored
<1>4. ASSUME NEW b \in Batches, Disconnect(b)  PROVE TypeOK' /\ GatherInv'
  <2>1. clients' \in [Batches -> Client]
    BY <1>4, BecomeType DEF Disconnect, States
  <2> QED  BY <1>4, <2>1 DEF Disconnect, TypeOK, GatherInv, Writer, Stored
<1>5. ASSUME SelectMessage \/ SelectDiagnostic  PROVE TypeOK' /\ GatherInv'
  <2>1. taken = {} /\ extra = 0 /\ Cardinality(taken) = 0
    BY <1>5, FS_EmptySet DEF GatherInv, SelectMessage, SelectDiagnostic
  <2>2. PICK m \in {0, 1}, n \in {0, 1} :
           /\ Take(m, n) /\ m + n = 1 /\ m <= Len(queue) /\ n <= diagnostics
    <3>1. queue \in Seq(Message) /\ (queue # <<>> => 1 <= Len(queue))
      BY DEF TypeOK
    <3> QED
      BY <1>5, <3>1 DEF SelectMessage, SelectDiagnostic, TypeOK
  <2>3. Cardinality(taken) + extra + m + n <= MaxBatchMessages
    BY <2>1, <2>2
  <2>4. pc' = "messages" /\ UNCHANGED <<clients, phase, outcome, Stored, process>>
    BY <1>5 DEF SelectMessage, SelectDiagnostic, Take
  <2> QED  BY <2>2, <2>3, <2>4, TakeType DEF TypeOK, GatherInv, Stored
<1>6. ASSUME GatherMessages  PROVE TypeOK' /\ GatherInv'
  <2> DEFINE n == Lesser(Len(queue), Room)
  <2>1. n \in Nat /\ n <= Len(queue) /\ n <= Room
    BY RoomType DEF Lesser, TypeOK
  <2> HIDE DEF n
  <2>2. Take(n, 0) /\ Cardinality(taken) + extra + n + 0 <= MaxBatchMessages
    BY <1>6, <2>1, RoomType DEF GatherMessages, n, TypeOK
  <2>3. 0 <= diagnostics  BY DEF TypeOK
  <2>4. pc' = "diagnostics"
        /\ UNCHANGED <<clients, phase, outcome, Stored, process>>
    BY <1>6 DEF GatherMessages, Take
  <2> QED  BY <2>1, <2>2, <2>3, <2>4, TakeType DEF TypeOK, GatherInv, Stored
<1>7. ASSUME GatherDiagnostics  PROVE TypeOK' /\ GatherInv'
  <2> DEFINE n == Lesser(diagnostics, Room)
  <2>1. n \in Nat /\ n <= diagnostics /\ n <= Room
    BY RoomType DEF Lesser, TypeOK
  <2> HIDE DEF n
  <2>2. Take(0, n) /\ Cardinality(taken) + extra + 0 + n <= MaxBatchMessages
    BY <1>7, <2>1, RoomType DEF GatherDiagnostics, n, TypeOK
  <2>3. 0 <= Len(queue)  BY DEF TypeOK
  <2>4. pc' = "write" /\ UNCHANGED <<clients, phase, outcome, Stored, process>>
    BY <1>7 DEF GatherDiagnostics, Take
  <2> QED  BY <2>1, <2>2, <2>3, <2>4, TakeType DEF TypeOK, GatherInv, Stored
<1>8. ASSUME WriteRecords  PROVE TypeOK' /\ GatherInv'
  <2> DEFINE d == [db EXCEPT !.stored = @ \cup New,
                             !.accepted = @ + Cardinality(New),
                             !.counted = @ + extra]
  <2>1. db.accepted + Cardinality(New) \in Nat /\ db.counted + extra \in Nat
        /\ Cardinality(New) \in Nat
    BY NewType DEF TypeOK, Database
  <2>2. d \in Database
    BY <2>1, NewType DEF TypeOK, Database
  <2>3. Commit(d, Safe) /\ outcome' = [ok |-> TRUE, accepted |-> Cardinality(New)]
    BY <1>8 DEF WriteRecords
  <2> HIDE DEF d
  <2>4. db' \in Database /\ recoverable' \subseteq Database
    BY <2>2, <2>3 DEF Commit, TypeOK
  <2>5. outcome' \in Outcome  BY <2>1, <2>3 DEF Outcome
  <2> QED  BY <1>8, <2>4, <2>5 DEF WriteRecords, TypeOK, GatherInv
<1>9. ASSUME WriteFails  PROVE TypeOK' /\ GatherInv'
  <2>1. process' \in Process  BY <1>9 DEF WriteFails, TypeOK, Process
  <2> QED
    BY <1>9, <2>1
    DEF WriteFails, NoOutcome, Outcome, TypeOK, GatherInv, Stored
<1>10. ASSUME Report  PROVE TypeOK' /\ GatherInv'
  <2>1. [db EXCEPT !.failed = @ + 1] \in Database
    BY DEF TypeOK, Database
  <2>2. db' \in Database /\ recoverable' \subseteq Database
    BY <1>10, <2>1 DEF Report, Commit, Stored, TypeOK
  <2> QED  BY <1>10, <2>2 DEF Report, TypeOK, GatherInv
<1>11. ASSUME Answer  PROVE TypeOK' /\ GatherInv'
  <2>1. ASSUME NEW s \in States  PROVE Answered(s) \in [Batches -> Client]
    BY DEF Answered, TypeOK, Client
  <2>2. clients' \in [Batches -> Client]
    BY <1>11, <2>1 DEF Answer, States
  <2>3. process' \in Process
    BY <1>11 DEF Answer, TypeOK, Process, Outcome
  <2> QED
    BY <1>11, <2>2, <2>3, FS_EmptySet
    DEF Answer, NoOutcome, Outcome, TypeOK, GatherInv, Stored
<1>12. ASSUME Persist  PROVE TypeOK' /\ GatherInv'
  <2>1. db' \in Database /\ recoverable' \subseteq Database
    BY <1>12 DEF Persist, Commit, Stored, TypeOK
  <2> QED  BY <1>12, <2>1 DEF Persist, TypeOK, GatherInv
<1>13. ASSUME BeginShutdown  PROVE TypeOK' /\ GatherInv'
  BY <1>13 DEF BeginShutdown, TypeOK, GatherInv, Writer, Stored
<1>14. ASSUME SendShutdown  PROVE TypeOK' /\ GatherInv'
  <2>1. queue' \in Seq(Message) /\ Len(queue') <= QueueCapacity
    BY <1>14 DEF SendShutdown, TypeOK, Message
  <2> QED
    BY <1>14, <2>1 DEF SendShutdown, TypeOK, GatherInv, Writer, Stored
<1>15. ASSUME Start, db' \in Database, recoverable' \subseteq Database
       PROVE  TypeOK' /\ GatherInv'
  <2>1. clients' \in [Batches -> Client]
    BY <1>15 DEF Start, TypeOK, Client, States
  <2> QED
    BY <1>15, <2>1, FS_EmptySet
    DEF Start, NoOutcome, Outcome, NewProcess, Process, TypeOK, GatherInv
<1>16. ASSUME Restart \/ ProcessCrash  PROVE TypeOK' /\ GatherInv'
  BY <1>15, <1>16 DEF Restart, ProcessCrash, Stored, TypeOK
<1>17. ASSUME NEW d \in recoverable, PowerLoss(d)  PROVE TypeOK' /\ GatherInv'
  BY <1>15, <1>17 DEF PowerLoss, TypeOK
<1>18. CASE UNCHANGED vars
  BY <1>18 DEF vars, TypeOK, GatherInv, Writer, Stored
<1> QED
  BY <1>1, <1>2, <1>3, <1>4, <1>5, <1>6, <1>7, <1>8, <1>9, <1>10, <1>11,
     <1>12, <1>13, <1>14, <1>16, <1>17, <1>18
  DEF Next, Handle, RunWriter

\* The type invariant of the ingest path, and the bound on a batch.
THEOREM IngestTypeOK == Spec => []TypeOK
<1>1. Spec => [](TypeOK /\ GatherInv)
  BY InitIngestType, NextIngestType, PTL DEF Spec
<1> QED  BY <1>1, PTL

-----------------------------------------------------------------------------
(* Success means durable.                                                  *)

\* In safe mode every commit is synced, so a power loss loses none; a batch
\* about to be answered is stored, and what is stored stays.
SyncedInv ==
    Safe =>
        /\ recoverable = {db}
        /\ \A b \in Batches : clients[b].state = "ok" =>
              RecordsOf[b] \subseteq db.stored
        /\ pc = "report" => ~outcome.ok
        /\ pc = "answer" /\ outcome.ok =>
              \A m \in taken \ {Shutdown} :
                  RecordsOf[m.batch] \subseteq db.stored

\* Every step keeps what is acknowledged, in safe mode, in every database.
LEMMA NextSynced == TypeOK /\ SyncedInv /\ [Next]_vars => SyncedInv'
<1> SUFFICES ASSUME TypeOK, SyncedInv, Safe, [Next]_vars PROVE SyncedInv'
  BY DEF SyncedInv
<1> USE IngestAssumption
<1>0. db \in Database /\ clients \in [Batches -> Client]
  BY DEF TypeOK
<1>1. ASSUME NEW b \in Batches, NEW s, s # "ok", Become(b, s),
             UNCHANGED <<Writer, Stored>>
      PROVE  SyncedInv'
  BY <1>0, <1>1 DEF Become, SyncedInv, Writer, Stored
<1>2. ASSUME NEW b \in Batches, Request(b)  PROVE SyncedInv'
  BY <1>0, <1>2 DEF Request, SyncedInv, Writer, Stored
<1>3. ASSUME NEW b \in Batches, Handle(b) \/ Disconnect(b)  PROVE SyncedInv'
  BY <1>1, <1>3 DEF Handle, Reject, Submit, SubmitFull, Disconnect
<1>4. ASSUME UNCHANGED <<clients, Stored>>, pc' # "answer",
             pc' = "report" => ~outcome'.ok
      PROVE  SyncedInv'
  BY <1>4 DEF SyncedInv, Stored
<1>5. CASE SelectMessage \/ SelectDiagnostic \/ GatherMessages
           \/ GatherDiagnostics \/ WriteFails
  BY <1>4, <1>5
  DEF SelectMessage, SelectDiagnostic, GatherMessages, GatherDiagnostics,
      WriteFails, NoOutcome, Take
<1>6. CASE WriteRecords
  <2> DEFINE d == [db EXCEPT !.stored = @ \cup New,
                             !.accepted = @ + Cardinality(New),
                             !.counted = @ + extra]
  <2>1. d.stored = db.stored \cup New  BY <1>0 DEF Database
  <2>2. Commit(d, TRUE) /\ UNCHANGED <<clients, taken>>
    BY <1>6 DEF WriteRecords
  <2> HIDE DEF d
  <2>3. \A m \in taken \ {Shutdown} : RecordsOf[m.batch] \subseteq d.stored
    <3> SUFFICES ASSUME NEW m \in taken \ {Shutdown},
                        NEW x \in RecordsOf[m.batch], x \notin db.stored
                 PROVE  x \in New
      BY <2>1
    <3>1. x \in UNION {RecordsOf[n.batch] : n \in taken \ {Shutdown}}
      OBVIOUS
    <3> QED  BY <3>1 DEF New
  <2> QED  BY <1>6, <2>1, <2>2, <2>3 DEF Commit, SyncedInv, WriteRecords
<1>7. CASE Report
  <2>1. /\ recoverable' = {db'}
        /\ db'.stored = db.stored
    BY <1>0, <1>7 DEF Report, Commit, Stored, SyncedInv, Database
  <2>2. UNCHANGED <<clients, taken, outcome>> /\ pc' = "answer"
    BY <1>7 DEF Report
  <2>3. ~outcome.ok  BY <1>7 DEF Report, SyncedInv
  <2> QED  BY <2>1, <2>2, <2>3 DEF SyncedInv
<1>8. CASE Answer
  <2>1. ASSUME NEW b \in Batches, clients'[b].state = "ok"
        PROVE  RecordsOf[b] \subseteq db.stored
    <3>1. clients[b].state = "ok" \/ (outcome.ok /\ Attempt(b) \in taken)
      BY <1>0, <1>8, <2>1 DEF Answer, Answered, Client
    <3>2. CASE clients[b].state = "ok"
      BY <3>2 DEF SyncedInv
    <3>3. CASE outcome.ok /\ Attempt(b) \in taken
      BY <1>8, <3>3, AttemptType DEF Answer, SyncedInv
    <3> QED  BY <3>1, <3>2, <3>3
  <2> QED  BY <1>8, <2>1 DEF Answer, SyncedInv, Stored
<1>9. CASE Persist
  BY <1>9 DEF Persist, Commit, SyncedInv, Stored
<1>10. CASE BeginShutdown \/ SendShutdown
  BY <1>10 DEF BeginShutdown, SendShutdown, SyncedInv, Writer, Stored
<1>11. ASSUME Start, UNCHANGED Stored  PROVE SyncedInv'
  <2>1. \A b \in Batches : clients'[b].state = "ok" => clients[b].state = "ok"
    BY <1>0, <1>11 DEF Start, Client
  <2> QED  BY <1>11, <2>1 DEF Start, Stored, SyncedInv
<1>12. CASE Restart \/ ProcessCrash \/ \E d \in recoverable : PowerLoss(d)
  BY <1>11, <1>12 DEF Restart, ProcessCrash, PowerLoss, Stored, SyncedInv
<1>13. CASE UNCHANGED vars
  BY <1>13 DEF vars, SyncedInv, Writer, Stored
<1> QED
  BY <1>2, <1>3, <1>5, <1>6, <1>7, <1>8, <1>9, <1>10, <1>12, <1>13
  DEF Next, RunWriter

\* A success in safe mode survives whatever happens next.
THEOREM IngestSyncedBeforeSuccess == Spec => []SyncedBeforeSuccess
<1>1. Init => SyncedInv
  BY DEF Init, SyncedInv
<1>2. Spec => []SyncedInv
  BY <1>1, NextSynced, IngestTypeOK, PTL DEF Spec
<1>3. SyncedInv => SyncedBeforeSuccess
  BY DEF SyncedInv, SyncedBeforeSuccess
<1> QED  BY <1>2, <1>3, PTL

-----------------------------------------------------------------------------
(* The accepted counter.                                                   *)

\* The database is one of those a power loss can leave, and in each the
\* counter is the number of records.
CountInv ==
    /\ db \in recoverable
    /\ \A d \in recoverable : /\ d.accepted = Cardinality(d.stored)
                              /\ d.stored \subseteq Records

\* Every step keeps counter and records together.
LEMMA NextCounts == TypeOK /\ CountInv /\ [Next]_vars => CountInv'
<1> SUFFICES ASSUME TypeOK, CountInv, [Next]_vars PROVE CountInv'
  OBVIOUS
<1> USE IngestAssumption
<1>1. ASSUME NEW d, d.accepted = Cardinality(d.stored), d.stored \subseteq Records,
             NEW synced \in BOOLEAN, Commit(d, synced)
      PROVE  CountInv'
  BY <1>1 DEF CountInv, Commit
<1>2. CASE UNCHANGED Stored
  BY <1>2 DEF Stored, CountInv
<1>3. CASE WriteRecords
  <2> DEFINE d == [db EXCEPT !.stored = @ \cup New,
                             !.accepted = @ + Cardinality(New),
                             !.counted = @ + extra]
  <2>1. d.stored = db.stored \cup New /\ d.accepted = db.accepted + Cardinality(New)
    BY DEF TypeOK, Database
  <2>2. Commit(d, Safe)
    BY <1>3 DEF WriteRecords
  <2> HIDE DEF d
  <2>3. New \subseteq Records /\ New \cap db.stored = {}
    BY NewType DEF New
  <2>4. IsFiniteSet(New) /\ IsFiniteSet(db.stored)
    BY <2>3, FS_Subset DEF CountInv
  <2>5. Cardinality(db.stored \cup New) = Cardinality(db.stored) + Cardinality(New)
    <3>1. Cardinality(db.stored \cup New) =
             Cardinality(db.stored) + Cardinality(New) - Cardinality(db.stored \cap New)
      BY <2>4, FS_Union
    <3>2. Cardinality(db.stored \cap New) = 0
      <4>1. db.stored \cap New = {}  BY <2>3
      <4> QED  BY <4>1, FS_EmptySet
    <3>3. Cardinality(db.stored) \in Nat /\ Cardinality(New) \in Nat
      BY <2>4, FS_CardinalityType
    <3> QED  BY <3>1, <3>2, <3>3
  <2> QED  BY <1>1, <2>1, <2>2, <2>3, <2>5 DEF CountInv
<1>4. CASE Report
  <2> DEFINE d == [db EXCEPT !.failed = @ + 1]
  <2>1. d.stored = db.stored /\ d.accepted = db.accepted
    BY DEF TypeOK, Database
  <2>2. Commit(d, Safe) \/ UNCHANGED Stored
    BY <1>4 DEF Report
  <2> HIDE DEF d
  <2> QED  BY <1>1, <1>2, <2>1, <2>2 DEF CountInv
<1>5. CASE Persist
  BY <1>1, <1>2, <1>5 DEF Persist, CountInv
<1>6. CASE \E d \in recoverable : PowerLoss(d)
  BY <1>6 DEF PowerLoss, CountInv
<1> QED
  BY <1>2, <1>3, <1>4, <1>5, <1>6
  DEF Next, Handle, RunWriter, Request, Reject, Submit, SubmitFull, Disconnect,
      SelectMessage, SelectDiagnostic, GatherMessages, GatherDiagnostics, Take, WriteFails,
      Answer, BeginShutdown, SendShutdown, Restart, ProcessCrash, Stored, vars

\* Whatever is retried, fails or crashes, the accepted counter on disk is the
\* number of records stored.
THEOREM AcceptedIsStored == Spec => []AcceptedCountsStored
<1>1. Init => CountInv
  BY FS_EmptySet DEF Init, CountInv, EmptyDatabase
<1>2. Spec => []CountInv
  BY <1>1, NextCounts, IngestTypeOK, PTL DEF Spec
<1>3. CountInv => AcceptedCountsStored
  BY DEF CountInv, AcceptedCountsStored
<1> QED  BY <1>2, <1>3, PTL

-----------------------------------------------------------------------------
(* The end of the queue.                                                   *)

Pending(b) == clients[b].state \in {"handling", "waiting"}

\* Until it is sent there is no shutdown message; then it is the last one,
\* with the writer, or done with; and no request is pending.
LastInv ==
    /\ phase \in {"serving", "draining"} =>
          /\ \A i \in 1..Len(queue) : queue[i] # Shutdown
          /\ Shutdown \notin taken
          /\ pc \notin {"persist", "stopped"}
    /\ phase = "flushing" =>
          \/ /\ queue # <<>> /\ queue[Len(queue)] = Shutdown
             /\ \A i \in 1..Len(queue) - 1 : queue[i] # Shutdown
             /\ Shutdown \notin taken
             /\ pc \notin {"persist", "stopped"}
          \/ /\ queue = <<>>
             /\ \/ Shutdown \in taken /\ pc \notin {"select", "persist", "stopped"}
                \/ pc = "persist"
    /\ phase = "stopped" => queue = <<>> /\ pc = "stopped" /\ taken = {}
    /\ phase \in {"flushing", "stopped"} => \A b \in Batches : ~Pending(b)

\* What a message taken from the head of the queue leaves behind.
LEMMA TakeLast ==
  ASSUME TypeOK, GatherInv, LastInv, NEW messages \in Nat, NEW names \in Nat,
         messages <= Len(queue), Take(messages, names),
         pc \in {"select", "messages", "diagnostics"},
         pc' \in {"messages", "diagnostics", "write"}
  PROVE  LastInv'
<1>1. queue \in Seq(Message) /\ Len(queue) \in Nat
  BY DEF TypeOK
<1>2. /\ queue' = SubSeq(queue, messages + 1, Len(queue))
      /\ taken' = taken \cup {queue[i] : i \in 1..messages}
      /\ UNCHANGED <<phase, clients>>
  BY DEF Take
<1>3. /\ Len(queue') = Len(queue) - messages
      /\ \A i \in 1..Len(queue') : queue'[i] = queue[i + messages]
  BY <1>1, <1>2
<1>4. CASE phase \in {"serving", "draining"}
  <2>1. /\ \A i \in 1..Len(queue) : queue[i] # Shutdown
        /\ Shutdown \notin taken
    BY <1>4 DEF LastInv
  <2>2. Shutdown \notin taken'
    BY <1>1, <1>2, <2>1
  <2>3. \A i \in 1..Len(queue') : queue'[i] # Shutdown
    BY <1>1, <1>3, <2>1
  <2> QED  BY <1>2, <1>4, <2>2, <2>3 DEF LastInv
<1>5. CASE phase = "flushing"
  <2>0. \A b \in Batches : ~Pending(b)'
    BY <1>2, <1>5 DEF LastInv, Pending
  <2>1. CASE queue = <<>>
    <3>1. messages = 0 /\ queue' = <<>> /\ Shutdown \in taken
      BY <1>1, <1>2, <1>3, <1>5, <2>1 DEF LastInv
    <3> QED  BY <1>2, <1>5, <2>0, <3>1 DEF LastInv
  <2>2. CASE queue # <<>> /\ messages = Len(queue)
    <3>1. queue' = <<>>
      BY <1>1, <1>2, <1>3, <2>2
    <3>2. queue[Len(queue)] = Shutdown /\ Len(queue) \in 1..messages
      BY <1>1, <1>5, <2>2 DEF LastInv
    <3>3. Shutdown \in taken'
      BY <1>2, <3>2
    <3> QED  BY <1>2, <1>5, <2>0, <3>1, <3>3 DEF LastInv
  <2>3. CASE queue # <<>> /\ messages < Len(queue)
    <3>1. /\ queue[Len(queue)] = Shutdown
          /\ \A i \in 1..Len(queue) - 1 : queue[i] # Shutdown
          /\ Shutdown \notin taken
      BY <1>1, <1>5, <2>3 DEF LastInv
    <3>2. Shutdown \notin taken'
      BY <1>1, <1>2, <2>3, <3>1
    <3>3. Len(queue') \in Nat \ {0} /\ queue'[Len(queue')] = Shutdown
      BY <1>1, <1>3, <2>3, <3>1
    <3>4. \A i \in 1..Len(queue') - 1 : queue'[i] # Shutdown
      BY <1>1, <1>3, <2>3, <3>1
    <3>5. queue' # <<>>
      BY <3>3
    <3> QED  BY <1>2, <1>5, <2>0, <3>1, <3>2, <3>3, <3>4, <3>5 DEF LastInv
  <2> QED  BY <1>1, <2>1, <2>2, <2>3
<1>6. CASE phase = "stopped"
  BY <1>6 DEF LastInv
<1>7. phase \in {"serving", "draining", "flushing", "stopped"}
  BY DEF TypeOK
<1> QED  BY <1>4, <1>5, <1>6, <1>7

\* No step queues anything behind the shutdown message.
LEMMA NextLast == TypeOK /\ GatherInv /\ LastInv /\ [Next]_vars => LastInv'
<1> SUFFICES ASSUME TypeOK, GatherInv, LastInv, [Next]_vars PROVE LastInv'
  OBVIOUS
<1> USE IngestAssumption
<1>1. CASE \E b \in Batches : Request(b)
  BY <1>1 DEF Request, LastInv, Writer, Pending
<1>2. ASSUME NEW b \in Batches, NEW s, Become(b, s), s \notin {"handling", "waiting"},
             UNCHANGED <<phase, queue, pc, taken>>
      PROVE  LastInv'
  <2>1. \A c \in Batches : Pending(c)' => Pending(c)
    BY <1>2 DEF Become, Pending, TypeOK
  <2> QED  BY <1>2, <2>1 DEF LastInv
<1>3. CASE \E b \in Batches : Reject(b) \/ SubmitFull(b) \/ Disconnect(b)
  BY <1>2, <1>3 DEF Reject, SubmitFull, Disconnect, Writer
<1>4. ASSUME NEW b \in Batches, Submit(b)  PROVE LastInv'
  <2>1. phase \in {"serving", "draining"} /\ phase' = phase
    BY <1>4 DEF Submit, LastInv, Pending, TypeOK
  <2>2. queue \in Seq(Message) /\ queue' = Append(queue, Attempt(b))
        /\ Attempt(b) # Shutdown /\ UNCHANGED <<pc, taken>>
    BY <1>4, AttemptType DEF Submit, TypeOK, Writer
  <2>3. \A i \in 1..Len(queue') : queue'[i] # Shutdown
    BY <2>1, <2>2 DEF LastInv
  <2> QED  BY <2>1, <2>2, <2>3 DEF LastInv
<1>5. CASE SelectMessage
  <2>1. 1 <= Len(queue)
    BY <1>5 DEF SelectMessage, TypeOK
  <2> QED  BY <1>5, <2>1, TakeLast DEF SelectMessage
<1>6. CASE SelectDiagnostic
  <2>1. 0 <= Len(queue)
    BY DEF TypeOK
  <2> QED  BY <1>6, <2>1, TakeLast DEF SelectDiagnostic
<1>7. CASE GatherMessages
  <2>1. Lesser(Len(queue), Room) \in Nat /\ Lesser(Len(queue), Room) <= Len(queue)
    BY RoomType DEF Lesser, TypeOK
  <2> QED  BY <1>7, <2>1, TakeLast DEF GatherMessages
<1>8. CASE GatherDiagnostics
  <2>1. Lesser(diagnostics, Room) \in Nat /\ 0 <= Len(queue)
    BY RoomType DEF Lesser, TypeOK
  <2> QED  BY <1>8, <2>1, TakeLast DEF GatherDiagnostics
<1>9. CASE WriteRecords \/ WriteFails \/ Report
  BY <1>9 DEF WriteRecords, WriteFails, Report, LastInv, Pending
<1>10. CASE Answer
  <2>1. \A b \in Batches : Pending(b)' => Pending(b)
    BY <1>10 DEF Answer, Answered, Pending, TypeOK, Client
  <2>2. taken' = {} /\ UNCHANGED <<phase, queue>> /\ pc = "answer"
    BY <1>10 DEF Answer
  <2>3. CASE Shutdown \in taken
    <3>1. pc' = "persist"  BY <1>10, <2>3 DEF Answer
    <3>2. phase = "flushing" /\ queue = <<>>
      BY <2>2, <2>3 DEF LastInv, TypeOK
    <3> QED  BY <2>1, <2>2, <3>1, <3>2 DEF LastInv
  <2>4. CASE Shutdown \notin taken
    <3>1. pc' = "select"  BY <1>10, <2>4 DEF Answer
    <3> QED  BY <2>1, <2>2, <2>4, <3>1 DEF LastInv
  <2> QED  BY <2>3, <2>4
<1>11. CASE Persist
  <2>1. phase \in {"flushing", "stopped"} /\ taken = {}
    BY <1>11 DEF Persist, LastInv, TypeOK, GatherInv
  <2> QED  BY <1>11, <2>1 DEF Persist, LastInv, Pending
<1>12. CASE BeginShutdown
  BY <1>12 DEF BeginShutdown, LastInv, Writer
<1>13. CASE SendShutdown
  <2>1. queue \in Seq(Message) /\ queue' = Append(queue, Shutdown)
        /\ UNCHANGED <<clients, pc, taken>> /\ phase = "draining" /\ phase' = "flushing"
    BY <1>13 DEF SendShutdown, TypeOK, Writer
  <2>2. Len(queue') = Len(queue) + 1 /\ queue'[Len(queue')] = Shutdown
        /\ \A i \in 1..Len(queue) : queue'[i] = queue[i]
    BY <2>1
  <2>3. queue' # <<>> /\ Len(queue') - 1 = Len(queue)
    BY <2>1, <2>2
  <2>4. \A b \in Batches : ~Pending(b)'
    BY <1>13 DEF SendShutdown, Pending
  <2> QED  BY <2>1, <2>2, <2>3, <2>4 DEF LastInv
<1>14. CASE Restart \/ ProcessCrash \/ \E d \in recoverable : PowerLoss(d)
  BY <1>14 DEF Restart, ProcessCrash, PowerLoss, Start, LastInv
<1>15. CASE UNCHANGED vars
  BY <1>15 DEF vars, LastInv, Writer, Pending
<1> QED
  BY <1>1, <1>3, <1>4, <1>5, <1>6, <1>7, <1>8, <1>9, <1>10, <1>11, <1>12, <1>13, <1>14, <1>15
  DEF Next, Handle, RunWriter

\* The invariants of the ingest path that the next theorems need.
LEMMA IngestInvariants == Spec => [](TypeOK /\ GatherInv /\ LastInv)
<1>1. Init => LastInv
  BY DEF Init, LastInv
<1> QED  BY <1>1, InitIngestType, NextIngestType, NextLast, PTL DEF Spec

\* Nothing is queued behind the shutdown message, nor pending when the writer
\* stops.
THEOREM ShutdownComesLast == Spec => []ShutdownIsLast
<1>1. LastInv => ShutdownIsLast
  BY DEF LastInv, ShutdownIsLast, Pending
<1> QED  BY <1>1, IngestInvariants, PTL

-----------------------------------------------------------------------------
(* No request is forgotten.                                                *)

\* A batch that waits has its message in the queue or with the writer.
LEMMA NextNoLost ==
  TypeOK /\ GatherInv /\ LastInv /\ NoLostRequest /\ [Next]_vars => NoLostRequest'
<1> SUFFICES ASSUME TypeOK, GatherInv, LastInv, NoLostRequest, [Next]_vars
             PROVE  NoLostRequest'
  OBVIOUS
<1> USE IngestAssumption
<1>0. clients \in [Batches -> Client] /\ queue \in Seq(Message)
  BY DEF TypeOK
\* What a step must keep of a batch that waits after it.
<1> DEFINE Kept(b) ==
      /\ clients[b].state = "waiting" /\ Attempt(b)' = Attempt(b)
      /\ (\E i \in 1..Len(queue) : queue[i] = Attempt(b))
            => \/ \E i \in 1..Len(queue') : queue'[i] = Attempt(b)
               \/ Attempt(b) \in taken' /\ pc' \notin {"select", "persist", "stopped"}
      /\ Attempt(b) \in taken /\ pc \notin {"select", "persist", "stopped"}
            => Attempt(b) \in taken' /\ pc' \notin {"select", "persist", "stopped"}
<1>1. ASSUME NEW b \in Batches, Kept(b)
      PROVE  \/ \E i \in 1..Len(queue') : queue'[i] = Attempt(b)'
             \/ Attempt(b)' \in taken' /\ pc' \notin {"select", "persist", "stopped"}
  <2>1. \/ \E i \in 1..Len(queue) : queue[i] = Attempt(b)
        \/ Attempt(b) \in taken /\ pc \notin {"select", "persist", "stopped"}
    BY <1>1 DEF NoLostRequest
  <2> QED  BY <1>1, <2>1
<1>2. ASSUME \A b \in Batches : clients'[b].state = "waiting" => Kept(b)
      PROVE  NoLostRequest'
  BY <1>1, <1>2 DEF NoLostRequest
<1>3. ASSUME UNCHANGED <<queue, pc, taken>>, NEW b \in Batches,
             \A c \in Batches \ {b} : clients'[c] = clients[c],
             clients'[b].state # "waiting"
      PROVE  NoLostRequest'
  BY <1>2, <1>3 DEF Attempt
<1>4. CASE \E b \in Batches : Request(b)
  <2> PICK b \in Batches : Request(b)  BY <1>4
  <2>1. clients'[b].state = "handling" /\ \A c \in Batches \ {b} : clients'[c] = clients[c]
    BY <1>0 DEF Request
  <2> QED  BY <1>3, <2>1 DEF Request, Writer
<1>5. CASE \E b \in Batches : Reject(b) \/ SubmitFull(b) \/ Disconnect(b)
  <2> PICK b \in Batches : Reject(b) \/ SubmitFull(b) \/ Disconnect(b)  BY <1>5
  <2>1. clients'[b].state # "waiting" /\ \A c \in Batches \ {b} : clients'[c] = clients[c]
    BY <1>0 DEF Reject, SubmitFull, Disconnect, Become, Client
  <2> QED  BY <1>3, <2>1 DEF Reject, SubmitFull, Disconnect, Writer
<1>6. CASE \E b \in Batches : Submit(b)
  <2> PICK b \in Batches : Submit(b)  BY <1>6
  <2>1. queue' = Append(queue, Attempt(b)) /\ UNCHANGED <<pc, taken>>
        /\ \A c \in Batches \ {b} : clients'[c] = clients[c]
    BY <1>0 DEF Submit, Become, Writer
  <2>2. \A i \in 1..Len(queue) : i \in 1..Len(queue') /\ queue'[i] = queue[i]
    BY <1>0, <2>1, AttemptType
  <2>3. Len(queue') \in 1..Len(queue') /\ queue'[Len(queue')] = Attempt(b)
    BY <1>0, <2>1, AttemptType
  <2>4. Attempt(b)' = Attempt(b)
    BY <1>0 DEF Submit, Become, Attempt, Client
  <2>5. ASSUME NEW c \in Batches \ {b}, clients'[c].state = "waiting"
        PROVE  Kept(c)
    BY <2>1, <2>2, <2>5 DEF Attempt
  <2>6. ASSUME NEW c \in Batches \ {b}, clients'[c].state = "waiting"
        PROVE  \/ \E i \in 1..Len(queue') : queue'[i] = Attempt(c)'
               \/ Attempt(c)' \in taken' /\ pc' \notin {"select", "persist", "stopped"}
    BY <1>1, <2>5, <2>6
  <2> QED  BY <2>3, <2>4, <2>6 DEF NoLostRequest
<1>7. ASSUME NEW m \in Nat, NEW n \in Nat, m <= Len(queue), Take(m, n),
             pc' \notin {"select", "persist", "stopped"}
      PROVE  NoLostRequest'
  <2>1. /\ taken' = taken \cup {queue[i] : i \in 1..m}
        /\ queue' = SubSeq(queue, m + 1, Len(queue))
        /\ UNCHANGED clients
    BY <1>7 DEF Take
  <2>2. Len(queue') = Len(queue) - m /\ \A i \in 1..Len(queue') : queue'[i] = queue[i + m]
    BY <1>0, <1>7, <2>1
  <2>3. \A i \in 1..Len(queue) :
           queue[i] \in taken' \/ \E j \in 1..Len(queue') : queue'[j] = queue[i]
    <3> TAKE i \in 1..Len(queue)
    <3>1. CASE i \in 1..m
      BY <2>1, <3>1
    <3>2. CASE i \notin 1..m
      <4>1. i - m \in 1..Len(queue') /\ (i - m) + m = i
        BY <1>0, <1>7, <2>2, <3>2
      <4>2. queue'[i - m] = queue[i]
        BY <2>2, <4>1
      <4> QED  BY <4>1, <4>2
    <3> QED  BY <3>1, <3>2
  <2> QED  BY <1>2, <1>7, <2>1, <2>3 DEF Attempt
<1>8. CASE SelectMessage
  <2>1. 1 <= Len(queue)
    BY <1>0, <1>8 DEF SelectMessage
  <2> QED  BY <1>7, <1>8, <2>1 DEF SelectMessage
<1>9. CASE SelectDiagnostic
  <2>1. 0 <= Len(queue)  BY <1>0
  <2> QED  BY <1>7, <1>9, <2>1 DEF SelectDiagnostic
<1>10. CASE GatherMessages
  <2>1. Lesser(Len(queue), Room) \in Nat /\ Lesser(Len(queue), Room) <= Len(queue)
    BY RoomType DEF Lesser, TypeOK
  <2> QED  BY <1>7, <1>10, <2>1 DEF GatherMessages
<1>11. CASE GatherDiagnostics
  <2>1. Lesser(diagnostics, Room) \in Nat /\ 0 <= Len(queue)
    BY RoomType DEF Lesser, TypeOK
  <2> QED  BY <1>7, <1>11, <2>1 DEF GatherDiagnostics
<1>12. CASE WriteRecords \/ WriteFails \/ Report
  BY <1>2, <1>12 DEF WriteRecords, WriteFails, Report, Attempt
<1>13. CASE Answer
  <2>1. ASSUME NEW b \in Batches, clients'[b].state = "waiting"
        PROVE  clients'[b] = clients[b] /\ Attempt(b) \notin taken
    BY <1>0, <1>13, <2>1 DEF Answer, Answered, Client
  <2>2. UNCHANGED queue  BY <1>13 DEF Answer
  <2> QED  BY <1>2, <2>1, <2>2 DEF Attempt
<1>14. CASE Persist
  <2>1. phase \in {"flushing", "stopped"}
    BY <1>14 DEF Persist, LastInv, TypeOK
  <2>2. \A b \in Batches : clients'[b].state # "waiting"
    BY <1>14, <2>1 DEF Persist, LastInv, Pending
  <2> QED  BY <2>2 DEF NoLostRequest
<1>15. CASE BeginShutdown
  BY <1>2, <1>15 DEF BeginShutdown, Writer, Attempt
<1>16. CASE SendShutdown
  <2>1. \A b \in Batches : clients'[b].state # "waiting"
    BY <1>16 DEF SendShutdown
  <2> QED  BY <2>1 DEF NoLostRequest
<1>17. CASE Restart \/ ProcessCrash \/ \E d \in recoverable : PowerLoss(d)
  <2>1. \A b \in Batches : clients'[b].state # "waiting"
    BY <1>0, <1>17 DEF Restart, ProcessCrash, PowerLoss, Start, Client
  <2> QED  BY <2>1 DEF NoLostRequest
<1>18. CASE UNCHANGED vars
  BY <1>2, <1>18 DEF vars, Writer, Attempt
<1> QED
  BY <1>4, <1>5, <1>6, <1>8, <1>9, <1>10, <1>11, <1>12, <1>13, <1>14, <1>15, <1>16, <1>17,
     <1>18
  DEF Next, Handle, RunWriter

\* The writer cannot forget to answer a request.
THEOREM NoRequestLost == Spec => []NoLostRequest
<1>1. Init => NoLostRequest
  BY DEF Init, NoLostRequest
<1> QED  BY <1>1, NextNoLost, IngestInvariants, PTL DEF Spec

\* Neither a request nor the shutdown is forgotten: the message of a waiting
\* request is in the queue or in the batch at work, and nothing comes behind
\* the shutdown message, for any number of clients and any size of the queue.
THEOREM NothingIsForgotten == Spec => []NothingForgotten
  BY NoRequestLost, ShutdownComesLast, PTL DEF NothingForgotten

-----------------------------------------------------------------------------
(* Shutdown flushes.                                                       *)

\* While no call fails and no process dies, a batch whose client was told ok
\* is stored, queued or with the writer before its write, in fast mode as in
\* safe mode; what is about to be answered is stored; and the last persist
\* has synced what the writer stored.
FlushInv ==
    /\ phase = "stopped" => recoverable = {db}
    /\ \A b \in Batches : clients[b].state = "ok" =>
          \/ RecordsOf[b] \subseteq db.stored
          \/ \E i \in 1..Len(queue) : queue[i] = Attempt(b)
          \/ Attempt(b) \in taken /\ pc \in {"messages", "diagnostics", "write"}
    /\ pc # "report"
    /\ pc = "answer" =>
          \A m \in taken \ {Shutdown} : RecordsOf[m.batch] \subseteq db.stored

\* Every step keeps an accepted batch on its way to the database.
LEMMA NextFlush ==
  ASSUME ~CallsFail, ~Crashes
  PROVE  TypeOK /\ GatherInv /\ LastInv /\ FlushInv /\ [Next]_vars => FlushInv'
<1> SUFFICES ASSUME TypeOK, GatherInv, LastInv, FlushInv, [Next]_vars  PROVE FlushInv'
  OBVIOUS
<1> USE IngestAssumption
<1>0. /\ clients \in [Batches -> Client] /\ queue \in Seq(Message)
      /\ db \in Database
  BY DEF TypeOK
<1>1. phase' = "stopped" => recoverable' = {db'}
  BY DEF FlushInv, LastInv, Next, RunWriter, Handle, Request, Reject, Submit,
     SubmitFull, Diagnostic, Disconnect, SelectMessage, SelectDiagnostic,
     GatherMessages, GatherDiagnostics, Take, WriteRecords, WriteFails,
     Report, Answer, Persist, BeginShutdown, SendShutdown, Restart,
     ProcessCrash, PowerLoss, Start, Commit, Stored, Writer, vars
\* A batch on its way.
<1> DEFINE Kept(b) ==
      \/ RecordsOf[b] \subseteq db.stored
      \/ \E i \in 1..Len(queue) : queue[i] = Attempt(b)
      \/ Attempt(b) \in taken /\ pc \in {"messages", "diagnostics", "write"}
<1>2. ASSUME \A b \in Batches : clients'[b].state = "ok" => Kept(b)',
             pc' # "report",
             pc' = "answer" => pc = "answer" /\ UNCHANGED <<taken, db>>
      PROVE  FlushInv'
  BY <1>1, <1>2 DEF FlushInv
<1>3. ASSUME UNCHANGED <<queue, pc, taken, db>>,
             \A b \in Batches : clients'[b].state = "ok" => clients'[b] = clients[b]
      PROVE  FlushInv'
  BY <1>2, <1>3 DEF FlushInv, Attempt
<1>4. CASE \E b \in Batches : Request(b)
  BY <1>0, <1>3, <1>4 DEF Request, Writer, Stored
<1>5. CASE \E b \in Batches : Reject(b) \/ SubmitFull(b) \/ Disconnect(b)
  BY <1>0, <1>3, <1>5 DEF Reject, SubmitFull, Disconnect, Become, Client,
     Writer, Stored
<1>6. CASE \E b \in Batches : Submit(b)
  <2> PICK b \in Batches : Submit(b)  BY <1>6
  <2>1. /\ queue' = Append(queue, Attempt(b)) /\ UNCHANGED <<pc, taken, db>>
        /\ \A c \in Batches \ {b} : clients'[c] = clients[c]
    BY <1>0 DEF Submit, Become, Writer, Stored
  <2>2. \A i \in 1..Len(queue) : i \in 1..Len(queue') /\ queue'[i] = queue[i]
    BY <1>0, <2>1, AttemptType
  <2>3. Len(queue') \in 1..Len(queue') /\ queue'[Len(queue')] = Attempt(b)
    BY <1>0, <2>1, AttemptType
  <2>4. Attempt(b)' = Attempt(b)
    BY <1>0 DEF Submit, Become, Attempt, Client
  <2>5. ASSUME NEW c \in Batches \ {b}, clients'[c].state = "ok"
        PROVE  Kept(c)'
    BY <2>1, <2>2, <2>5 DEF FlushInv, Attempt
  <2> QED  BY <1>2, <2>1, <2>3, <2>4, <2>5 DEF FlushInv
<1>7. ASSUME NEW m \in Nat, NEW n \in Nat, m <= Len(queue), Take(m, n),
             pc \in {"select", "messages", "diagnostics"},
             pc' \in {"messages", "diagnostics", "write"}
      PROVE  FlushInv'
  <2>1. /\ taken' = taken \cup {queue[i] : i \in 1..m}
        /\ queue' = SubSeq(queue, m + 1, Len(queue))
        /\ UNCHANGED <<clients, db>>
    BY <1>7 DEF Take, Stored
  <2>2. Len(queue') = Len(queue) - m /\ \A i \in 1..Len(queue') : queue'[i] = queue[i + m]
    BY <1>0, <1>7, <2>1
  <2>3. \A i \in 1..Len(queue) :
           queue[i] \in taken' \/ \E j \in 1..Len(queue') : queue'[j] = queue[i]
    <3> TAKE i \in 1..Len(queue)
    <3>1. CASE i \in 1..m
      BY <2>1, <3>1
    <3>2. CASE i \notin 1..m
      <4>1. i - m \in 1..Len(queue') /\ (i - m) + m = i
        BY <1>0, <1>7, <2>2, <3>2
      <4> QED  BY <2>2, <4>1
    <3> QED  BY <3>1, <3>2
  <2>4. ASSUME NEW b \in Batches, clients'[b].state = "ok"  PROVE Kept(b)'
    <3>1. Attempt(b)' = Attempt(b) /\ clients[b].state = "ok"
      BY <2>1, <2>4 DEF Attempt
    <3>2. Kept(b)  BY <3>1 DEF FlushInv
    <3> QED  BY <1>7, <2>1, <2>3, <3>1, <3>2
  <2> QED  BY <1>2, <1>7, <2>4
<1>8. CASE SelectMessage
  <2>1. 1 <= Len(queue)  BY <1>0, <1>8 DEF SelectMessage
  <2> QED  BY <1>7, <1>8, <2>1 DEF SelectMessage
<1>9. CASE SelectDiagnostic
  <2>1. 0 <= Len(queue)  BY <1>0
  <2> QED  BY <1>7, <1>9, <2>1 DEF SelectDiagnostic
<1>10. CASE GatherMessages
  <2>1. Lesser(Len(queue), Room) \in Nat /\ Lesser(Len(queue), Room) <= Len(queue)
    BY RoomType DEF Lesser, TypeOK
  <2> QED  BY <1>7, <1>10, <2>1 DEF GatherMessages
<1>11. CASE GatherDiagnostics
  <2>1. Lesser(diagnostics, Room) \in Nat /\ 0 <= Len(queue)
    BY RoomType DEF Lesser, TypeOK
  <2> QED  BY <1>7, <1>11, <2>1 DEF GatherDiagnostics
<1>12. CASE WriteRecords
  <2>1. db'.stored = db.stored \cup New /\ UNCHANGED <<clients, queue, taken>>
    BY <1>0, <1>12 DEF WriteRecords, Commit, Database
  <2>2. \A m \in taken \ {Shutdown} : RecordsOf[m.batch] \subseteq db'.stored
    <3> SUFFICES ASSUME NEW m \in taken \ {Shutdown},
                        NEW x \in RecordsOf[m.batch], x \notin db.stored
                 PROVE  x \in New
      BY <2>1
    <3>1. x \in UNION {RecordsOf[n.batch] : n \in taken \ {Shutdown}}
      OBVIOUS
    <3> QED  BY <3>1 DEF New
  <2>3. ASSUME NEW b \in Batches, clients'[b].state = "ok"  PROVE Kept(b)'
    <3>1. Attempt(b)' = Attempt(b) /\ Kept(b)
      BY <2>1, <2>3 DEF Attempt, FlushInv
    <3> QED  BY <2>1, <2>2, <3>1, AttemptType
  <2>4. pc' = "answer"  BY <1>12 DEF WriteRecords
  <2> QED  BY <1>1, <2>1, <2>2, <2>3, <2>4 DEF FlushInv
<1>13. CASE WriteFails  BY <1>13 DEF WriteFails
<1>14. CASE Report  BY <1>14 DEF Report, FlushInv
<1>15. CASE Answer
  <2>1. /\ UNCHANGED <<queue, db>> /\ pc = "answer"
        /\ pc' \notin {"answer", "report"}
    BY <1>15 DEF Answer, Stored
  <2>2. ASSUME NEW b \in Batches, clients'[b].state = "ok"  PROVE Kept(b)'
    <3>1. (clients[b].state = "ok" /\ clients'[b] = clients[b]) \/ Attempt(b) \in taken
      BY <1>0, <1>15, <2>2 DEF Answer, Answered, Client
    <3>2. CASE clients[b].state = "ok" /\ clients'[b] = clients[b]
      BY <2>1, <3>2 DEF FlushInv, Attempt
    <3>3. CASE Attempt(b) \in taken
      BY <2>1, <3>3, AttemptType DEF FlushInv
    <3> QED  BY <3>1, <3>2, <3>3
  <2> QED  BY <1>2, <2>1, <2>2
<1>16. CASE Persist
  <2>1. queue = <<>> /\ UNCHANGED clients /\ pc = "persist"
    BY <1>16 DEF Persist, LastInv, TypeOK
  <2>2. db' = db  BY <1>16 DEF Persist, Commit
  <2> QED  BY <1>2, <1>16, <2>1, <2>2 DEF FlushInv, Attempt, Persist
<1>17. CASE BeginShutdown
  BY <1>3, <1>17 DEF BeginShutdown, Writer, Stored
<1>18. CASE SendShutdown
  <2>1. /\ queue' = Append(queue, Shutdown) /\ UNCHANGED <<clients, pc, taken, db>>
    BY <1>18 DEF SendShutdown, Writer, Stored
  <2>2. \A i \in 1..Len(queue) : i \in 1..Len(queue') /\ queue'[i] = queue[i]
    BY <1>0, <2>1 DEF Message
  <2> QED  BY <1>2, <2>1, <2>2 DEF FlushInv, Attempt
<1>19. CASE Restart
  <2>1. phase = "stopped" /\ queue = <<>> /\ pc = "stopped"
    BY <1>19 DEF Restart, LastInv
  <2>2. ASSUME NEW b \in Batches, clients'[b].state = "ok"
        PROVE  RecordsOf[b] \subseteq db.stored
    <3>1. clients[b].state = "ok"
      BY <1>0, <1>19, <2>2 DEF Restart, Start, Client
    <3> QED  BY <2>1, <3>1 DEF FlushInv
  <2> QED  BY <1>2, <1>19, <2>2 DEF Restart, Start, Stored
<1>20. CASE ProcessCrash \/ \E d \in recoverable : PowerLoss(d)
  BY <1>20 DEF ProcessCrash, PowerLoss
<1>21. CASE UNCHANGED vars
  BY <1>3, <1>21 DEF vars, Writer, Stored
<1> QED
  BY <1>4, <1>5, <1>6, <1>8, <1>9, <1>10, <1>11, <1>12, <1>13, <1>14,
     <1>15, <1>16, <1>17, <1>18, <1>19, <1>20, <1>21
  DEF Next, Handle, RunWriter

\* "Normal shutdown still flushes it": when the server has stopped, every batch
\* that a client was told is accepted survives a power loss.  Safe mode needs
\* no condition; in fast mode success is to be queued, so that a failed write
\* or a crash in between may lose the batch.
THEOREM AcceptedIsFlushed ==
  ASSUME Safe \/ (~CallsFail /\ ~Crashes)
  PROVE  Spec => []WriterShutdownFlushes
<1>1. CASE Safe
  <2>1. SyncedBeforeSuccess => WriterShutdownFlushes
    BY <1>1 DEF SyncedBeforeSuccess, WriterShutdownFlushes
  <2> QED  BY <2>1, IngestSyncedBeforeSuccess, PTL
<1>2. CASE ~CallsFail /\ ~Crashes
  <2>1. Init => FlushInv
    BY DEF Init, FlushInv
  <2>2. TypeOK /\ GatherInv /\ LastInv /\ FlushInv /\ [Next]_vars => FlushInv'
    BY <1>2, NextFlush
  <2>3. LastInv /\ FlushInv => WriterShutdownFlushes
    BY DEF LastInv, FlushInv, WriterShutdownFlushes
  <2> QED  BY <2>1, <2>2, <2>3, IngestInvariants, PTL DEF Spec
<1> QED  BY <1>1, <1>2

=============================================================================
