--------------------------- MODULE CumulativeSums ---------------------------
(***************************************************************************)
(* Cumulative sums in Store::write_records (src/src/store.rs): a client    *)
(* exports the running total of a counter; the store keeps one state per   *)
(* stream and files each point with the difference to the previous one.    *)
(*                                                                         *)
(* The client's counter is external: it grows, restarts from zero, and its *)
(* points reach the store late, twice, in any order or never.  A batch is  *)
(* the loop of write_records, one step per record, and commits as a whole. *)
(***************************************************************************)
EXTENDS Integers, FiniteSets, Absent

CONSTANTS
    Streams,          \* project, source and stream id, the key of a state
    Monotonic,        \* streams whose points say that they only grow
    StartSent,        \* streams whose points carry the start of their run
    Safe,             \* Durability::Safe
    Growth,           \* what an up-and-down counter may change by in a step
    MaxTime,          \* bound: points a client exports
    MaxBatch          \* bound: points in a batch

ASSUME SumAssumption ==
    /\ Monotonic \subseteq Streams
    /\ StartSent \subseteq Streams
    /\ Safe \in BOOLEAN
    /\ Growth \subseteq Int
    /\ None \notin [last : Nat, start : Nat, value : Int]
    /\ MaxTime \in Nat
    /\ MaxBatch \in Nat

VARIABLES
    counter,          \* the client's counter, per stream
    emitted,          \* the points clients have exported
    time,             \* of the last export
    db,               \* what the store has committed
    durable,          \* what a power loss leaves of it
    todo,             \* the batch being written: points not looked at yet
    draft             \* the database as the batch will leave it

vars == <<counter, emitted, time, db, durable, todo, draft>>

Point == [stream : Streams, time : Nat, start : Nat, value : Int, total : Int]
State == [last : Nat, start : Nat, value : Int]

\* sums is the keyspace; seen the source ids; credited the sum of the stored
\* differences, base the client's total when the stream became known (both
\* are history); decreases the streams accused of a monotonic decrease.
Database == [sums : [Streams -> State \cup {None}], seen : SUBSET Point,
             credited : [Streams -> Int], base : [Streams -> Int],
             decreases : SUBSET Streams]

Empty == [sums |-> [s \in Streams |-> None], seen |-> {},
          credited |-> [s \in Streams |-> 0], base |-> [s \in Streams |-> 0],
          decreases |-> {}]

Init ==
    /\ counter = [s \in Streams |->
                    [start |-> 0, value |-> 0, total |-> 0, restarts |-> 0]]
    /\ emitted = {}
    /\ time = 0
    /\ db = Empty
    /\ durable = Empty
    /\ todo = {}
    /\ draft = Empty

-----------------------------------------------------------------------------
(* The client.                                                             *)

Grows(s) == IF s \in Monotonic THEN Growth \cap Nat ELSE Growth

\* The counter moves, perhaps after a restart, and is exported.
Export(s, n, restarted) ==
    LET c == counter[s]
        t == time + 1
        now == [start |-> IF restarted /\ s \in StartSent THEN t ELSE c.start,
                value |-> (IF restarted THEN 0 ELSE c.value) + n,
                total |-> c.total + n,
                restarts |-> c.restarts + IF restarted THEN 1 ELSE 0]
    IN  /\ time < MaxTime
        /\ time' = t
        /\ counter' = [counter EXCEPT ![s] = now]
        /\ emitted' = emitted \cup
             {[stream |-> s, time |-> t, start |-> now.start,
               value |-> now.value, total |-> now.total]}
        /\ UNCHANGED <<db, durable, todo, draft>>

-----------------------------------------------------------------------------
(* The store.                                                              *)

Idle == todo = {}

\* write_records takes the lock; any exported points, old ones included.
Begin(batch) ==
    /\ Idle
    /\ batch # {}
    /\ Cardinality(batch) <= MaxBatch
    /\ todo' = batch
    /\ draft' = db
    /\ UNCHANGED <<counter, emitted, time, db, durable>>

NewState(p) == [last |-> p.time, start |-> p.start, value |-> p.value]

\* Mutant of Difference: the first point counts in full.
DifferenceCountsFirst(previous, p) ==
    IF previous = None \/ previous.start # p.start THEN p.value
    ELSE p.value - previous.value

\* What a point adds to its stream: nothing when it is the first one, all of
\* its value when the counter restarted, else what it grew by.
Difference(previous, p) ==
    CASE previous = None -> 0
      [] previous # None /\ previous.start # p.start -> p.value
      [] OTHER -> p.value - previous.value

\* Mutant of Fresh: a point as old as the state is taken again.
FreshAlways(previous, p) == TRUE

\* Only a point later than the state counts: not one that was overtaken.
Fresh(previous, p) == previous = None \/ p.time > previous.last

Decreases(previous, p) ==
    /\ previous # None
    /\ previous.start = p.start
    /\ p.stream \in Monotonic
    /\ p.value < previous.value

\* The state of a stream after a point, and what its record is filed with.
Counted(d, p) ==
    LET previous == d.sums[p.stream]
    IN  IF ~Fresh(previous, p) THEN d
        ELSE IF Decreases(previous, p)
        THEN [d EXCEPT !.decreases = @ \cup {p.stream}]
        ELSE [d EXCEPT !.sums[p.stream] = NewState(p),
                       !.credited[p.stream] = @ + Difference(previous, p),
                       !.base[p.stream] = IF previous = None THEN p.total ELSE @]

\* The batch is sorted by time.
Earliest(p) == p \in todo /\ \A q \in todo : p.time <= q.time

\* One record of the batch; the last one commits it.
Take(p) ==
    LET next == IF p \in draft.seen THEN draft
                ELSE Counted([draft EXCEPT !.seen = @ \cup {p}], p)
    IN  /\ Earliest(p)
        /\ todo' = todo \ {p}
        /\ draft' = next
        /\ db' = IF todo = {p} THEN next ELSE db
        /\ durable' = IF todo = {p} /\ Safe THEN next ELSE durable
        /\ UNCHANGED <<counter, emitted, time>>

\* Retention forgets a stored record and its source id, not the state.
Evict(p) ==
    /\ Idle
    /\ db' = [db EXCEPT !.seen = @ \ {p}]
    /\ durable' = db'
    /\ draft' = db'
    /\ UNCHANGED <<counter, emitted, time, todo>>

\* The machine dies: in fast mode the last batches are gone, as a whole.
PowerLoss ==
    /\ db' = durable
    /\ draft' = durable
    /\ todo' = {}
    /\ UNCHANGED <<counter, emitted, time, durable>>

Client == \E s \in Streams, restarted \in BOOLEAN :
             \E n \in Grows(s) : Export(s, n, restarted)

Next ==
    \/ Client
    \/ \E batch \in SUBSET emitted : Begin(batch)
    \/ \E p \in todo : Take(p)
    \/ \E p \in db.seen : Evict(p)
    \/ PowerLoss

Spec == Init /\ [][Next]_vars

-----------------------------------------------------------------------------
(* Properties.                                                             *)

\* The variables keep their types.
TypeOK ==
    /\ counter \in [Streams -> [start : Nat, value : Int, total : Int,
                                restarts : Nat]]
    /\ emitted \in SUBSET Point
    /\ time \in Nat
    /\ db \in Database
    /\ durable \in Database
    /\ draft \in Database
    /\ todo \in SUBSET emitted

Databases == {db, durable, draft}

\* The differences filed for a monotonic counter never add up to more than
\* it grew since the store first saw it, however its points are duplicated,
\* overtaken, evicted and sent again, and wherever it restarted.
NeverOvercounts ==
    \A d \in Databases : \A s \in Monotonic :
        d.sums[s] # None => d.credited[s] <= counter[s].total - d.base[s]

\* Without a restart nothing is lost either: once the latest point is filed,
\* the differences add up to the growth, for counters that may fall as well.
ExactWithoutRestart ==
    \A d \in Databases : \A p \in d.seen :
        LET s == p.stream
        IN  /\ d.sums[s] # None
            /\ counter[s].restarts = 0 /\ p.time >= d.sums[s].last =>
                  d.credited[s] = p.total - d.base[s]

\* The decrease diagnostic accuses a client only when it hid a restart.
DecreaseMeansHiddenRestart ==
    \A d \in Databases : \A s \in d.decreases :
        s \notin StartSent /\ counter[s].restarts > 0

\* Differences are exact where they can be, and say so where they cannot.
DifferencesAreRight == ExactWithoutRestart /\ DecreaseMeansHiddenRestart

=============================================================================
