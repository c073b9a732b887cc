---------------------------- MODULE MetricProofs ----------------------------
(***************************************************************************)
(* Proofs about metrics.  Cumulative sums: types, that the differences     *)
(* filed for a monotonic counter never exceed its growth, and that a       *)
(* difference is exact unless a restart was hidden.  The argument:         *)
(* exported points lie behind their counter by what it grew (PointsInv),   *)
(* those of one run by what it has grown since (RunsInv), and every state  *)
(* the store keeps is one of them (StateInv, ExactInv).  Then what the     *)
(* interval chosen by the server guarantees, for every range.              *)
(***************************************************************************)
EXTENDS CumulativeSums, Intervals, TLAPS

\* Why these hold: an exported point lies behind its counter, and one of an
\* earlier run by as much as the counter has grown since ...
Behind(p, now) ==
    /\ p.total <= now.total
    /\ now.value - p.value <= now.total - p.total
    /\ p.start # now.start => now.value <= now.total - p.total

PointsInv ==
    /\ \A s \in Monotonic : counter[s].value >= 0
    /\ \A p \in emitted : p.time <= time
    /\ \A p \in emitted : p.stream \in Monotonic =>
          p.value >= 0 /\ Behind(p, counter[p.stream])
    /\ \A p, q \in emitted :
          p.stream = q.stream /\ p.stream \in Monotonic /\ p.time < q.time
             => Behind(p, q)

\* ... and the state of a stream is an exported point, up to which no more
\* was credited than the counter had grown.
StateInv(d) ==
    \A s \in Monotonic :
        IF d.sums[s] = None THEN d.credited[s] = 0
        ELSE \E p \in emitted :
                /\ p.stream = s
                /\ d.sums[s] = NewState(p)
                /\ d.credited[s] <= p.total - d.base[s]

SumInv == PointsInv /\ \A d \in Databases : StateInv(d)

\* And why differences are exact: while a counter has not restarted a point's
\* value is its total, and the points of a run, where they tell it, only
\* grow ...
Tells(s) == s \in StartSent \/ counter[s].restarts = 0

RunsInv ==
    /\ \A s \in Streams : /\ counter[s].start <= time
                          /\ counter[s].restarts = 0 =>
                                /\ counter[s].start = 0
                                /\ counter[s].value = counter[s].total
    /\ \A p \in emitted :
          /\ p.start <= time /\ p.time <= time
          /\ counter[p.stream].restarts = 0 => p.start = 0 /\ p.value = p.total
          /\ p.stream \in Monotonic /\ Tells(p.stream)
                /\ p.start = counter[p.stream].start
                   => p.value <= counter[p.stream].value
    /\ \A p, q \in emitted :
          /\ p.time = q.time => p = q
          /\ p.stream = q.stream /\ p.stream \in Monotonic /\ Tells(p.stream)
                /\ p.start = q.start /\ p.time < q.time => p.value <= q.value

\* ... and up to the point its state is taken from, which no filed point is
\* later than, a stream was credited with all the growth.
ExactInv(d) ==
    /\ \A s \in Streams :
          IF d.sums[s] = None THEN d.credited[s] = 0
          ELSE \E p \in emitted :
                  /\ p.stream = s
                  /\ d.sums[s] = NewState(p)
                  /\ counter[s].restarts = 0 =>
                        d.credited[s] = p.total - d.base[s]
    /\ \A p \in d.seen :
          /\ p \in emitted
          /\ d.sums[p.stream] # None
          /\ counter[p.stream].restarts = 0 => p.time <= d.sums[p.stream].last
    /\ \A s \in d.decreases : s \notin StartSent /\ counter[s].restarts > 0

DifferenceInv == RunsInv /\ \A d \in Databases : ExactInv(d)

\* A point changes only the state of its own stream, and keeps the types.
LEMMA CountedType ==
    ASSUME NEW d \in Database, NEW p \in Point
    PROVE  Counted(d, p) \in Database
  <1>1. NewState(p) \in State
    BY DEF NewState, Point, State
  <1>2. ASSUME d.sums[p.stream] # None
        PROVE  Difference(d.sums[p.stream], p) \in Int
    BY <1>2 DEF Difference, Database, Point, State
  <1>3. ASSUME d.sums[p.stream] = None
        PROVE  Difference(d.sums[p.stream], p) = 0
    BY <1>3 DEF Difference
  <1>4. Difference(d.sums[p.stream], p) \in Int
    BY <1>2, <1>3
  <1> DEFINE prior == d.sums[p.stream]
  <1>5. CASE ~Fresh(prior, p)
    BY <1>5 DEF Counted
  <1>6. CASE Fresh(prior, p) /\ Decreases(prior, p)
    <2>1. Counted(d, p) = [d EXCEPT !.decreases = @ \cup {p.stream}]
      BY <1>6 DEF Counted
    <2> QED
      BY <2>1 DEF Database, Point
  <1>7. CASE Fresh(prior, p) /\ ~Decreases(prior, p)
    <2> DEFINE credit == d.credited[p.stream] + Difference(prior, p)
               base == IF prior = None THEN p.total ELSE d.base[p.stream]
    <2>1. Counted(d, p) =
            [d EXCEPT !.sums = [d.sums EXCEPT ![p.stream] = NewState(p)],
                      !.credited = [d.credited EXCEPT ![p.stream] = credit],
                      !.base = [d.base EXCEPT ![p.stream] = base]]
      BY <1>7 DEF Counted, Database
    <2>2. credit \in Int /\ base \in Int
      BY <1>4 DEF Database, Point
    <2> HIDE DEF credit, base, prior
    <2>3. /\ [d.sums EXCEPT ![p.stream] = NewState(p)]
                \in [Streams -> State \cup {None}]
          /\ [d.credited EXCEPT ![p.stream] = credit] \in [Streams -> Int]
          /\ [d.base EXCEPT ![p.stream] = base] \in [Streams -> Int]
      BY <1>1, <2>2 DEF Database, Point
    <2> QED
      BY <2>1, <2>3 DEF Database
  <1> QED
    BY <1>5, <1>6, <1>7

\* The initial state has the right types.
LEMMA InitType == Init => TypeOK
  BY SumAssumption DEF Init, TypeOK, Empty, Database, State, Point

\* Every step keeps the types.
LEMMA NextType ==
    ASSUME TypeOK, [Next]_vars
    PROVE  TypeOK'
  <1> USE DEF TypeOK
  <1>1. CASE Client
    <2>1. PICK s \in Streams, restarted \in BOOLEAN :
             \E n \in Grows(s) : Export(s, n, restarted)
      BY <1>1 DEF Client
    <2>2. PICK n \in Grows(s) : Export(s, n, restarted)
      BY <2>1
    <2>3. n \in Int
      BY SumAssumption DEF Grows
    <2> DEFINE t == time + 1
               c == counter[s]
               now == [start |-> IF restarted /\ s \in StartSent THEN t
                                 ELSE c.start,
                       value |-> (IF restarted THEN 0 ELSE c.value) + n,
                       total |-> c.total + n,
                       restarts |-> c.restarts + IF restarted THEN 1 ELSE 0]
               p == [stream |-> s, time |-> t, start |-> now.start,
                     value |-> now.value, total |-> now.total]
    <2>4. now \in [start : Nat, value : Int, total : Int, restarts : Nat]
      BY <2>3
    <2>5. p \in Point
      BY <2>4 DEF Point
    <2>6. /\ time' = t
          /\ counter' = [counter EXCEPT ![s] = now]
          /\ emitted' = emitted \cup {p}
          /\ UNCHANGED <<db, durable, todo, draft>>
      BY <2>2 DEF Export
    <2> QED
      BY <2>4, <2>5, <2>6
  <1>2. ASSUME NEW batch \in SUBSET emitted, Begin(batch) PROVE TypeOK'
    BY <1>2 DEF Begin
  <1>3. ASSUME NEW p \in todo, Take(p) PROVE TypeOK'
    <2>1. p \in Point
      OBVIOUS
    <2>2. [draft EXCEPT !.seen = @ \cup {p}] \in Database
      BY <2>1 DEF Database
    <2>3. Counted([draft EXCEPT !.seen = @ \cup {p}], p) \in Database
      BY <2>1, <2>2, CountedType
    <2> QED
      BY <1>3, <2>3 DEF Take
  <1>4. ASSUME NEW p \in db.seen, Evict(p) PROVE TypeOK'
    <2>1. [db EXCEPT !.seen = @ \ {p}] \in Database
      BY DEF Database
    <2> QED
      BY <1>4, <2>1 DEF Evict
  <1>5. CASE PowerLoss
    BY <1>5 DEF PowerLoss
  <1>6. CASE UNCHANGED vars
    BY <1>6 DEF vars
  <1> QED
    BY <1>1, <1>2, <1>3, <1>4, <1>5, <1>6 DEF Next

\* The variables keep their types, for every set of streams and clients.
THEOREM TypesKept == Spec => []TypeOK
  <1>1. Init => TypeOK
    BY InitType
  <1>2. TypeOK /\ [Next]_vars => TypeOK'
    BY NextType
  <1> QED
    BY <1>1, <1>2, PTL DEF Spec

-----------------------------------------------------------------------------

\* A counter that moves stays ahead of every point it has exported.
LEMMA ExportKeepsPoints ==
    ASSUME TypeOK, PointsInv, NEW s \in Streams, NEW restarted \in BOOLEAN,
           NEW n \in Grows(s), Export(s, n, restarted)
    PROVE  PointsInv'
  <1> USE DEF TypeOK
  <1> DEFINE t == time + 1
             c == counter[s]
             now == [start |-> IF restarted /\ s \in StartSent THEN t
                               ELSE c.start,
                     value |-> (IF restarted THEN 0 ELSE c.value) + n,
                     total |-> c.total + n,
                     restarts |-> c.restarts + IF restarted THEN 1 ELSE 0]
             new == [stream |-> s, time |-> t, start |-> now.start,
                     value |-> now.value, total |-> now.total]
  <1>1. n \in Int /\ (s \in Monotonic => n \in Nat)
    BY SumAssumption DEF Grows
  <1>2. /\ time' = t
        /\ counter' = [counter EXCEPT ![s] = now]
        /\ emitted' = emitted \cup {new}
    BY DEF Export
  <1>3. counter'[s] = now /\ \A r \in Streams \ {s} : counter'[r] = counter[r]
    BY <1>2
  <1>4. c \in [start : Nat, value : Int, total : Int, restarts : Nat]
    OBVIOUS
  <1>5. emitted \subseteq Point /\ Monotonic \subseteq Streams
    BY SumAssumption
  <1>6. s \in Monotonic => c.value >= 0 /\ now.value >= 0
    BY <1>1, <1>4 DEF PointsInv
  <1>7. ASSUME NEW p \in emitted, p.stream = s, s \in Monotonic
        PROVE  Behind(p, now)
    <2>1. /\ p.total <= c.total
          /\ c.value - p.value <= c.total - p.total
          /\ p.start # c.start => c.value <= c.total - p.total
          /\ p.value >= 0
          /\ p \in Point
      BY <1>5, <1>7 DEF PointsInv, Behind, Point
    <2> HIDE DEF now
    <2>2. /\ now.total = c.total + n
          /\ now.value = (IF restarted THEN 0 ELSE c.value) + n
          /\ now.start = IF restarted /\ s \in StartSent THEN t ELSE c.start
      BY DEF now
    <2>3. /\ p.total \in Int /\ p.value \in Int /\ p.start \in Nat
          /\ c.total \in Int /\ c.value \in Int /\ n \in Nat
      BY <1>1, <1>4, <1>7, <2>1 DEF Point
    <2>4. CASE restarted
      BY <2>1, <2>2, <2>3, <2>4 DEF Behind
    <2>5. CASE ~restarted
      BY <2>1, <2>2, <2>3, <2>5 DEF Behind
    <2> QED
      BY <2>4, <2>5
  <1>8. s \in Monotonic => Behind(new, now)
    BY <1>1, <1>4 DEF Behind
  <1>9. \A r \in Monotonic : counter'[r].value >= 0
    BY <1>3, <1>5, <1>6 DEF PointsInv
  <1>10. \A p \in emitted' : p.time <= time'
    BY <1>2, <1>5 DEF PointsInv, Point
  <1>11. \A p \in emitted' : p.stream \in Monotonic =>
            p.value >= 0 /\ Behind(p, counter'[p.stream])
    <2> SUFFICES ASSUME NEW p \in emitted', p.stream \in Monotonic
                 PROVE  p.value >= 0 /\ Behind(p, counter'[p.stream])
      OBVIOUS
    <2>1. CASE p = new
      BY <2>1, <1>3, <1>6, <1>8
    <2>2. CASE p \in emitted /\ p.stream = s
      BY <2>2, <1>3, <1>7 DEF PointsInv
    <2>3. CASE p \in emitted /\ p.stream # s
      BY <2>3, <1>3, <1>5 DEF PointsInv
    <2> QED
      BY <1>2, <2>1, <2>2, <2>3
  <1>12. \A p, q \in emitted' :
            p.stream = q.stream /\ p.stream \in Monotonic /\ p.time < q.time
               => Behind(p, q)
    <2> SUFFICES ASSUME NEW p \in emitted', NEW q \in emitted',
                        p.stream = q.stream, p.stream \in Monotonic,
                        p.time < q.time
                 PROVE  Behind(p, q)
      OBVIOUS
    <2>1. p \in emitted
      <3> SUFFICES ASSUME p = new PROVE FALSE
        BY <1>2
      <3>1. q.time <= t
        BY <1>2, <1>10
      <3> QED
        BY <3>1, <1>2, <1>5 DEF Point
    <2>2. CASE q \in emitted
      BY <2>1, <2>2 DEF PointsInv
    <2>3. CASE q = new
      BY <2>1, <2>3, <1>7 DEF Behind
    <2> QED
      BY <1>2, <2>2, <2>3
  <1> QED
    BY <1>9, <1>10, <1>11, <1>12 DEF PointsInv

\* A point no later than the state, or one that falls, leaves the sums alone;
\* any other one credits its stream with no more than its counter grew.
LEMMA CountedKeeps ==
    ASSUME TypeOK, PointsInv, NEW d \in Database, StateInv(d), NEW p \in emitted
    PROVE  StateInv(Counted(d, p))
  <1> USE DEF TypeOK
  <1> DEFINE prior == d.sums[p.stream]
             e == Counted(d, p)
  <1>1. p \in Point
    OBVIOUS
  <1>2. CASE ~Fresh(prior, p)
    BY <1>2 DEF Counted
  <1>3. CASE Fresh(prior, p) /\ Decreases(prior, p)
    BY <1>3 DEF Counted, StateInv, Database
  <1>4. CASE Fresh(prior, p) /\ ~Decreases(prior, p)
    <2>1. /\ e.sums = [d.sums EXCEPT ![p.stream] = NewState(p)]
          /\ e.credited = [d.credited EXCEPT ![p.stream] =
                              @ + Difference(prior, p)]
          /\ e.base = [d.base EXCEPT ![p.stream] =
                          IF prior = None THEN p.total ELSE @]
      BY <1>4 DEF Counted, Database
    <2> SUFFICES ASSUME NEW s \in Monotonic
                 PROVE  IF e.sums[s] = None THEN e.credited[s] = 0
                        ELSE \E q \in emitted :
                               /\ q.stream = s
                               /\ e.sums[s] = NewState(q)
                               /\ e.credited[s] <= q.total - e.base[s]
      BY DEF StateInv
    <2>2. s \in Streams
      BY SumAssumption
    <2>3. CASE s # p.stream
      BY <2>1, <2>2, <2>3 DEF StateInv, Database
    <2>4. CASE s = p.stream
      <3> SUFFICES e.credited[s] <= p.total - e.base[s]
        <4>1. e.sums[s] = NewState(p) /\ NewState(p) # None
          BY <2>1, <2>2, <2>4, SumAssumption DEF Database, NewState, Point
        <4> QED
          BY <4>1, <2>4
      <3>1. CASE prior = None
        <4>1. d.credited[s] = 0 /\ Difference(prior, p) = 0
          BY <3>1, <2>4 DEF StateInv, Difference
        <4>2. e.credited[s] = 0 /\ e.base[s] = p.total
          BY <4>1, <2>1, <2>2, <2>4, <3>1 DEF Database
        <4> QED
          BY <4>2, <1>1 DEF Point
      <3>2. CASE prior # None
        <4>1. PICK q \in emitted :
                 /\ q.stream = s
                 /\ prior = NewState(q)
                 /\ d.credited[s] <= q.total - d.base[s]
          BY <3>2, <2>4 DEF StateInv
        <4>2. q \in Point
          OBVIOUS
        <4>3. q.time < p.time
          BY <1>4, <3>2, <4>1, <4>2, <1>1 DEF Fresh, NewState, Point
        <4>4. Behind(q, p)
          BY <4>1, <4>3, <2>4 DEF PointsInv
        <4>5. Difference(prior, p) =
                 IF q.start # p.start THEN p.value ELSE p.value - q.value
          BY <3>2, <4>1 DEF Difference, NewState
        <4>6. Difference(prior, p) <= p.total - q.total
          BY <4>4, <4>5, <4>2, <1>1 DEF Behind, Point
        <4>7. /\ e.credited[s] = d.credited[s] + Difference(prior, p)
              /\ e.base[s] = d.base[s]
          BY <2>1, <2>2, <2>4, <3>2 DEF Database
        <4>8. Difference(prior, p) \in Int
          BY <4>5, <4>2, <1>1 DEF Point
        <4> QED
          BY <4>1, <4>2, <4>6, <4>7, <4>8, <1>1, <2>2 DEF Database, Point
      <3> QED
        BY <3>1, <3>2
    <2> QED
      BY <2>3, <2>4
  <1> QED
    BY <1>2, <1>3, <1>4

-----------------------------------------------------------------------------

\* More exported points never take away a state's point.
LEMMA StateInvGrows ==
    ASSUME NEW d \in Database, StateInv(d), emitted \subseteq emitted'
    PROVE  StateInv(d)'
  BY DEF StateInv

\* The invariant holds before anything was exported.
LEMMA InitSum == Init => SumInv
  BY SumAssumption DEF Init, SumInv, PointsInv, StateInv, Databases, Empty

\* Every step keeps the invariant.
LEMMA NextSum ==
    ASSUME TypeOK, SumInv, [Next]_vars
    PROVE  SumInv'
  <1> USE DEF SumInv
  <1>0. /\ db \in Database /\ durable \in Database /\ draft \in Database
        /\ StateInv(db) /\ StateInv(durable) /\ StateInv(draft)
    BY DEF TypeOK, Databases
  <1>1. CASE Client
    <2>1. PICK s \in Streams, restarted \in BOOLEAN :
             \E n \in Grows(s) : Export(s, n, restarted)
      BY <1>1 DEF Client
    <2>2. PICK n \in Grows(s) : Export(s, n, restarted)
      BY <2>1
    <2>3. PointsInv'
      BY <2>2, ExportKeepsPoints
    <2>4. emitted \subseteq emitted' /\ UNCHANGED <<db, durable, draft>>
      BY <2>2 DEF Export
    <2>5. StateInv(db)' /\ StateInv(durable)' /\ StateInv(draft)'
      BY <1>0, <2>4, StateInvGrows DEF StateInv
    <2> QED
      BY <2>3, <2>5 DEF Databases
  <1>2. ASSUME NEW batch \in SUBSET emitted, Begin(batch) PROVE SumInv'
    BY <1>0, <1>2 DEF Begin, Databases, PointsInv, StateInv, Behind
  <1>3. ASSUME NEW p \in todo, Take(p) PROVE SumInv'
    <2> DEFINE before == [draft EXCEPT !.seen = @ \cup {p}]
               next == IF p \in draft.seen THEN draft ELSE Counted(before, p)
    <2>1. p \in emitted /\ p \in Point
      BY DEF TypeOK
    <2>2. before \in Database /\ StateInv(before)
      BY <1>0, <2>1 DEF Database, StateInv
    <2>3. StateInv(next)
      BY <1>0, <2>1, <2>2, CountedKeeps
    <2>4. /\ draft' = next
          /\ db' = IF todo = {p} THEN next ELSE db
          /\ durable' = IF todo = {p} /\ Safe THEN next ELSE durable
          /\ UNCHANGED <<counter, emitted, time>>
      BY <1>3 DEF Take
    <2> HIDE DEF next
    <2>5. PointsInv'
      BY <2>4 DEF PointsInv, Behind
    <2>6. \A d \in {draft, db, durable}' : StateInv(d)
      BY <1>0, <2>3, <2>4
    <2> QED
      BY <2>4, <2>5, <2>6 DEF Databases, StateInv
  <1>4. ASSUME NEW p \in db.seen, Evict(p) PROVE SumInv'
    <2> DEFINE next == [db EXCEPT !.seen = @ \ {p}]
    <2>1. StateInv(next)
      BY <1>0 DEF StateInv, Database
    <2>2. /\ db' = next /\ durable' = next /\ draft' = next
          /\ UNCHANGED <<counter, emitted, time>>
      BY <1>4 DEF Evict
    <2>3. PointsInv'
      BY <2>2 DEF PointsInv, Behind
    <2> QED
      BY <2>1, <2>2, <2>3 DEF Databases, StateInv
  <1>5. CASE PowerLoss
    BY <1>0, <1>5 DEF PowerLoss, Databases, PointsInv, StateInv, Behind
  <1>6. CASE UNCHANGED vars
    BY <1>0, <1>6 DEF vars, Databases, PointsInv, StateInv, Behind
  <1> QED
    BY <1>1, <1>2, <1>3, <1>4, <1>5, <1>6 DEF Next

\* What is credited up to a counted point is at most what the counter has
\* grown to by now.
LEMMA SumImplies == TypeOK /\ SumInv => NeverOvercounts
  <1> SUFFICES ASSUME TypeOK, SumInv, NEW d \in Databases, NEW s \in Monotonic,
                      d.sums[s] # None
               PROVE  d.credited[s] <= counter[s].total - d.base[s]
    BY DEF NeverOvercounts
  <1>1. PICK p \in emitted : /\ p.stream = s
                             /\ d.credited[s] <= p.total - d.base[s]
    BY DEF SumInv, StateInv
  <1>2. p.total <= counter[s].total
    BY <1>1 DEF SumInv, PointsInv, Behind
  <1>3. /\ d \in Database /\ p \in Point /\ s \in Streams
        /\ counter[s].total \in Int
    BY SumAssumption DEF TypeOK, Databases
  <1> QED
    BY <1>1, <1>2, <1>3 DEF Database, Point

\* For every number of streams, points and batches, in both durability modes:
\* the differences filed for a monotonic counter never exceed its growth.
THEOREM NoOvercount == Spec => []NeverOvercounts
  <1>1. Init => TypeOK /\ SumInv
    BY InitType, InitSum
  <1>2. TypeOK /\ SumInv /\ [Next]_vars => (TypeOK /\ SumInv)'
    BY NextType, NextSum
  <1>3. TypeOK /\ SumInv => NeverOvercounts
    BY SumImplies
  <1> QED
    BY <1>1, <1>2, <1>3, PTL DEF Spec

-----------------------------------------------------------------------------

\* A counter that moves keeps the runs of its points apart, where they tell.
LEMMA ExportKeepsRuns ==
    ASSUME TypeOK, RunsInv, NEW s \in Streams, NEW restarted \in BOOLEAN,
           NEW n \in Grows(s), Export(s, n, restarted)
    PROVE  RunsInv'
  <1> USE DEF TypeOK
  <1> DEFINE t == time + 1
             c == counter[s]
             now == [start |-> IF restarted /\ s \in StartSent THEN t
                               ELSE c.start,
                     value |-> (IF restarted THEN 0 ELSE c.value) + n,
                     total |-> c.total + n,
                     restarts |-> c.restarts + IF restarted THEN 1 ELSE 0]
             new == [stream |-> s, time |-> t, start |-> now.start,
                     value |-> now.value, total |-> now.total]
  <1>1. n \in Int /\ (s \in Monotonic => n \in Nat)
    BY SumAssumption DEF Grows
  <1>2. /\ time' = t
        /\ counter' = [counter EXCEPT ![s] = now]
        /\ emitted' = emitted \cup {new}
    BY DEF Export
  <1>3. counter'[s] = now /\ \A r \in Streams \ {s} : counter'[r] = counter[r]
    BY <1>2
  <1>4. c \in [start : Nat, value : Int, total : Int, restarts : Nat]
    OBVIOUS
  <1>5. emitted \subseteq Point /\ time \in Nat
    OBVIOUS
  <1>6. /\ now.start = IF restarted /\ s \in StartSent THEN t ELSE c.start
        /\ now.value = (IF restarted THEN 0 ELSE c.value) + n
        /\ now.total = c.total + n
        /\ now.restarts = c.restarts + IF restarted THEN 1 ELSE 0
        /\ new.stream = s /\ new.time = t /\ new.start = now.start
        /\ new.value = now.value /\ new.total = now.total
    OBVIOUS
  <1>7. c.start <= time /\ (c.restarts = 0 => c.start = 0 /\ c.value = c.total)
    BY DEF RunsInv
  <1> HIDE DEF now, new, c
  <1>8. now.restarts = 0 => ~restarted /\ c.restarts = 0
    BY <1>4, <1>6
  <1>9. /\ now.start <= t
        /\ now.restarts = 0 => now.start = 0 /\ now.value = now.total
    BY <1>1, <1>4, <1>5, <1>6, <1>7, <1>8
  <1>10. ASSUME NEW p \in emitted, p.stream = s, s \in Monotonic,
                s \in StartSent \/ now.restarts = 0, p.start = now.start
         PROVE  p.value <= now.value
    <2>1. p.start <= time /\ p.start \in Nat /\ p.value \in Int
      BY <1>5, <1>10 DEF RunsInv, Point
    <2>2. ~restarted
      BY <1>5, <1>6, <1>8, <1>10, <2>1
    <2>3. p.start = c.start
      BY <1>6, <1>10, <2>2
    <2>4. Tells(s)
      BY <1>8, <1>10 DEF Tells, c
    <2>5. p.value <= c.value
      BY <1>10, <2>3, <2>4 DEF RunsInv, c
    <2> QED
      BY <1>1, <1>4, <1>6, <1>10, <2>1, <2>2, <2>5
  <1>11. \A r \in Streams : /\ counter'[r].start <= time'
                            /\ counter'[r].restarts = 0 =>
                                  /\ counter'[r].start = 0
                                  /\ counter'[r].value = counter'[r].total
    <2> SUFFICES ASSUME NEW r \in Streams
                 PROVE  /\ counter'[r].start <= time'
                        /\ counter'[r].restarts = 0 =>
                              /\ counter'[r].start = 0
                              /\ counter'[r].value = counter'[r].total
      OBVIOUS
    <2>1. CASE r = s
      BY <1>2, <1>3, <1>9, <2>1
    <2>2. CASE r # s
      <3>1. counter'[r] = counter[r] /\ counter[r].start \in Nat
        BY <1>3, <2>2
      <3>2. counter[r].start <= time
            /\ (counter[r].restarts = 0 =>
                  counter[r].start = 0 /\ counter[r].value = counter[r].total)
        BY DEF RunsInv
      <3> QED
        BY <1>2, <1>5, <3>1, <3>2
    <2> QED
      BY <2>1, <2>2
  <1>12. \A p \in emitted :
            /\ p.stream \in Streams /\ p.start \in Nat /\ p.time \in Nat
            /\ p.start <= time /\ p.time <= time
            /\ counter[p.stream].restarts = 0 => p.start = 0 /\ p.value = p.total
            /\ p.stream \in Monotonic /\ Tells(p.stream)
                  /\ p.start = counter[p.stream].start
                     => p.value <= counter[p.stream].value
    BY <1>5 DEF RunsInv, Point
  <1>13. ASSUME NEW p \in emitted'
         PROVE  /\ p.start <= time' /\ p.time <= time'
                /\ counter'[p.stream].restarts = 0 =>
                      p.start = 0 /\ p.value = p.total
                /\ p.stream \in Monotonic /\ Tells(p.stream)'
                      /\ p.start = counter'[p.stream].start
                         => p.value <= counter'[p.stream].value
    <2>1. CASE p = new
      <3>1. p.value \in Int
        BY <1>1, <1>4, <1>6, <2>1
      <3> QED
        BY <1>2, <1>3, <1>5, <1>6, <1>9, <2>1, <3>1
    <2>2. CASE p \in emitted /\ p.stream = s
      <3>1. c.restarts = 0 => p.start = 0 /\ p.value = p.total
        BY <1>12, <2>2 DEF c
      <3> QED
        BY <1>2, <1>3, <1>5, <1>8, <1>10, <1>12, <2>2, <3>1 DEF Tells
    <2>3. CASE p \in emitted /\ p.stream # s
      <3>1. counter'[p.stream] = counter[p.stream]
        BY <1>3, <1>12, <2>3
      <3> QED
        BY <1>2, <1>5, <1>12, <2>3, <3>1 DEF Tells
    <2> QED
      BY <1>2, <2>1, <2>2, <2>3
  <1>14. ASSUME NEW p \in emitted', NEW q \in emitted'
         PROVE  /\ p.time = q.time => p = q
                /\ p.stream = q.stream /\ p.stream \in Monotonic
                      /\ Tells(p.stream)' /\ p.start = q.start
                      /\ p.time < q.time => p.value <= q.value
    <2>1. CASE p \in emitted /\ q \in emitted
      <3>1. Tells(p.stream)' => Tells(p.stream)
        <4>1. counter'[p.stream].restarts = 0 => counter[p.stream].restarts = 0
          BY <1>3, <1>8, <1>12, <2>1 DEF c
        <4> QED
          BY <4>1 DEF Tells
      <3> QED
        BY <2>1, <3>1 DEF RunsInv
    <2>2. CASE p = new /\ q \in emitted
      BY <1>5, <1>6, <1>12, <2>2
    <2>3. CASE p \in emitted /\ q = new
      <3>1. p.time # q.time
        BY <1>5, <1>6, <1>12, <2>3
      <3> QED
        BY <1>3, <1>6, <1>10, <2>3, <3>1 DEF Tells
    <2>4. CASE p = new /\ q = new
      BY <1>5, <1>6, <2>4
    <2> QED
      BY <1>2, <2>1, <2>2, <2>3, <2>4
  <1> QED
    BY <1>11, <1>13, <1>14 DEF RunsInv

\* A point the store files moves its stream to exactly where the counter was,
\* and accuses it of a decrease only when that hid a restart.
LEMMA CountedExact ==
    ASSUME TypeOK, RunsInv, NEW d \in Database, ExactInv(d),
           NEW p \in emitted
    PROVE  ExactInv(Counted([d EXCEPT !.seen = @ \cup {p}], p))
  <1> USE DEF TypeOK
  <1> DEFINE b == [d EXCEPT !.seen = @ \cup {p}]
             e == Counted(b, p)
             prior == d.sums[p.stream]
             o == p.stream
  <1>1. p \in Point /\ p.stream \in Streams
    BY DEF Point
  <1>2. /\ b \in Database
        /\ b.sums = d.sums /\ b.credited = d.credited /\ b.base = d.base
        /\ b.decreases = d.decreases /\ b.seen = d.seen \cup {p}
    BY <1>1 DEF Database
  <1>3. \A r \in d.seen : r \in emitted
    BY DEF ExactInv
  <1>4. prior # None => \E q \in emitted :
            /\ q.stream = o
            /\ prior = NewState(q)
            /\ counter[o].restarts = 0 => d.credited[o] = q.total - d.base[o]
    BY <1>1 DEF ExactInv
  <1>5. ASSUME ~Fresh(prior, p) PROVE ExactInv(e)
    <2> HIDE DEF b
    <2>1. e = b
      BY <1>2, <1>5 DEF Counted
    <2>2. prior # None /\ p.time <= prior.last
      <3>1. prior # None /\ ~(p.time > prior.last)
        BY <1>5 DEF Fresh
      <3>2. prior \in State
        BY <1>1, <3>1 DEF Database
      <3> QED
        BY <1>1, <3>1, <3>2 DEF State, Point
    <2> HIDE DEF e
    <2> QED
      BY <1>2, <2>1, <2>2 DEF ExactInv
  <1>6. ASSUME Fresh(prior, p), Decreases(prior, p) PROVE ExactInv(e)
    <2>1. e = [b EXCEPT !.decreases = @ \cup {p.stream}]
      BY <1>2, <1>6 DEF Counted
    <2> HIDE DEF b
    <2>2. /\ e.sums = d.sums /\ e.credited = d.credited /\ e.base = d.base
          /\ e.decreases = d.decreases \cup {o} /\ e.seen = d.seen \cup {p}
      BY <1>2, <2>1 DEF Database
    <2>3. prior # None
      BY <1>6 DEF Decreases
    <2>4. PICK q \in emitted : q.stream = o /\ prior = NewState(q)
      BY <1>4, <2>3
    <2>5. /\ q.start = p.start /\ p.stream \in Monotonic /\ p.value < q.value
          /\ q.time < p.time /\ q \in Point
      BY <1>1, <1>6, <2>3, <2>4 DEF Fresh, Decreases, NewState, Point
    <2>6. ~Tells(o)
      <3>1. Tells(q.stream) => q.value <= p.value
        BY <2>4, <2>5 DEF RunsInv
      <3>2. p.value \in Int /\ q.value \in Int
        BY <1>1, <2>5 DEF Point
      <3> QED
        BY <2>4, <2>5, <3>1, <3>2
    <2>7. o \notin StartSent /\ counter[o].restarts > 0
          /\ counter[o].restarts # 0
      BY <1>1, <2>6 DEF Tells
    <2> HIDE DEF e
    <2> QED
      BY <1>3, <2>2, <2>3, <2>7 DEF ExactInv
  <1>7. ASSUME Fresh(prior, p), ~Decreases(prior, p) PROVE ExactInv(e)
    <2>1. e = [b EXCEPT !.sums = [b.sums EXCEPT ![o] = NewState(p)],
                        !.credited = [b.credited EXCEPT ![o] =
                                         @ + Difference(prior, p)],
                        !.base = [b.base EXCEPT ![o] =
                                     IF prior = None THEN p.total ELSE @]]
      BY <1>2, <1>7 DEF Counted, Database
    <2> HIDE DEF b
    <2>2. /\ e.sums = [d.sums EXCEPT ![o] = NewState(p)]
          /\ e.credited = [d.credited EXCEPT ![o] = @ + Difference(prior, p)]
          /\ e.base = [d.base EXCEPT ![o] =
                          IF prior = None THEN p.total ELSE @]
          /\ e.seen = d.seen \cup {p} /\ e.decreases = d.decreases
      BY <1>2, <2>1 DEF Database
    <2> HIDE DEF e
    <2>3. /\ DOMAIN d.sums = Streams /\ DOMAIN d.credited = Streams
          /\ DOMAIN d.base = Streams
          /\ d.credited[o] \in Int /\ d.base[o] \in Int
      BY <1>1 DEF Database
    <2>4. /\ e.sums[o] = NewState(p) /\ NewState(p) # None
          /\ NewState(p).last = p.time
          /\ e.credited[o] = d.credited[o] + Difference(prior, p)
          /\ e.base[o] = IF prior = None THEN p.total ELSE d.base[o]
      BY <1>1, <2>2, <2>3, SumAssumption DEF NewState, Point
    <2>5. \A s \in Streams \ {o} : /\ e.sums[s] = d.sums[s]
                                   /\ e.credited[s] = d.credited[s]
                                   /\ e.base[s] = d.base[s]
      BY <2>2, <2>3
    <2>6. counter[o].restarts = 0 => e.credited[o] = p.total - e.base[o]
      <3> SUFFICES ASSUME counter[o].restarts = 0
                   PROVE  e.credited[o] = p.total - e.base[o]
        OBVIOUS
      <3>1. p.start = 0 /\ p.value = p.total /\ p.total \in Int
        BY <1>1 DEF RunsInv, Point
      <3>2. CASE prior = None
        <4>1. d.credited[o] = 0 /\ Difference(prior, p) = 0
          BY <1>1, <3>2 DEF ExactInv, Difference
        <4> QED
          BY <2>4, <3>1, <3>2, <4>1
      <3>3. CASE prior # None
        <4>1. PICK q \in emitted : /\ q.stream = o /\ prior = NewState(q)
                                   /\ d.credited[o] = q.total - d.base[o]
          BY <1>4, <3>3
        <4>2. q.start = 0 /\ q.value = q.total /\ q.total \in Int
          BY <4>1 DEF RunsInv, Point
        <4>3. Difference(prior, p) = p.total - q.total
          BY <3>1, <3>3, <4>1, <4>2 DEF Difference, NewState
        <4> QED
          BY <2>3, <2>4, <3>1, <3>3, <4>1, <4>2, <4>3
      <3> QED
        BY <3>2, <3>3
    <2>7. \A s \in Streams :
             IF e.sums[s] = None THEN e.credited[s] = 0
             ELSE \E q \in emitted :
                     /\ q.stream = s
                     /\ e.sums[s] = NewState(q)
                     /\ counter[s].restarts = 0 =>
                           e.credited[s] = q.total - e.base[s]
      BY <2>4, <2>5, <2>6 DEF ExactInv
    <2>8. ASSUME NEW r \in e.seen
          PROVE  /\ r \in emitted
                 /\ e.sums[r.stream] # None
                 /\ counter[r.stream].restarts = 0 =>
                       r.time <= e.sums[r.stream].last
      <3>0. r \in emitted /\ r \in Point
        BY <1>3, <2>2, <2>8
      <3>1. CASE r = p
        BY <1>1, <2>4, <3>1 DEF Point
      <3>2. CASE r \in d.seen /\ r.stream # o
        <4>1. r.stream \in Streams \ {o}
          BY <3>0, <3>2 DEF Point
        <4>2. e.sums[r.stream] = d.sums[r.stream]
          BY <2>5, <4>1
        <4> QED
          BY <3>0, <3>2, <4>2 DEF ExactInv
      <3>3. CASE r \in d.seen /\ r.stream = o
        <4>1. prior # None
              /\ (counter[o].restarts = 0 => r.time <= prior.last)
          BY <3>3 DEF ExactInv
        <4>2. prior.last < p.time /\ prior.last \in Nat /\ p.time \in Nat
              /\ r.time \in Nat
          <5>1. prior \in State
            BY <1>1, <4>1 DEF Database
          <5>2. p.time > prior.last
            BY <1>7, <4>1 DEF Fresh
          <5> QED
            BY <1>1, <3>0, <5>1, <5>2 DEF State, Point
        <4> QED
          BY <2>4, <3>0, <3>3, <4>1, <4>2
      <3> QED
        BY <2>2, <2>8, <3>1, <3>2, <3>3
    <2>9. \A s \in e.decreases : s \notin StartSent /\ counter[s].restarts > 0
      BY <2>2 DEF ExactInv
    <2> QED
      BY <2>7, <2>8, <2>9 DEF ExactInv
  <1> QED
    BY <1>5, <1>6, <1>7


\* More exported points and more restarts never make a state wrong.
LEMMA ExactInvGrows ==
    ASSUME TypeOK, TypeOK', NEW d \in Database, ExactInv(d),
           emitted \subseteq emitted',
           \A s \in Streams : counter[s].restarts <= counter'[s].restarts
    PROVE  ExactInv(d)'
  <1>1. \A s \in Streams :
           /\ counter'[s].restarts = 0 => counter[s].restarts = 0
           /\ counter[s].restarts > 0 => counter'[s].restarts > 0
    <2> SUFFICES ASSUME NEW s \in Streams
                 PROVE  /\ counter'[s].restarts = 0 => counter[s].restarts = 0
                        /\ counter[s].restarts > 0 => counter'[s].restarts > 0
      OBVIOUS
    <2>1. counter[s].restarts \in Nat /\ counter'[s].restarts \in Nat
          /\ counter[s].restarts <= counter'[s].restarts
      BY DEF TypeOK
    <2> QED
      BY <2>1
  <1>2. \A p \in d.seen : p.stream \in Streams
    BY DEF Database, Point
  <1>3. \A s \in d.decreases : s \in Streams
    BY DEF Database
  <1> QED
    BY <1>1, <1>2, <1>3 DEF ExactInv

\* The invariant holds before anything was exported.
LEMMA InitDifference == Init => DifferenceInv
  BY SumAssumption DEF Init, DifferenceInv, RunsInv, ExactInv, Databases, Empty

\* Every step keeps the invariant.
LEMMA NextDifference ==
    ASSUME TypeOK, DifferenceInv, [Next]_vars
    PROVE  DifferenceInv'
  <1> USE DEF DifferenceInv
  <1>0. /\ db \in Database /\ durable \in Database /\ draft \in Database
        /\ ExactInv(db) /\ ExactInv(durable) /\ ExactInv(draft)
        /\ TypeOK'
    BY NextType DEF TypeOK, Databases
  <1>1. CASE Client
    <2>1. PICK s \in Streams, restarted \in BOOLEAN :
             \E n \in Grows(s) : Export(s, n, restarted)
      BY <1>1 DEF Client
    <2>2. PICK n \in Grows(s) : Export(s, n, restarted)
      BY <2>1
    <2>3. RunsInv'
      BY <2>2, ExportKeepsRuns
    <2>4. emitted \subseteq emitted' /\ UNCHANGED <<db, durable, draft>>
      BY <2>2 DEF Export
    <2>5. ASSUME NEW r \in Streams
          PROVE  counter[r].restarts <= counter'[r].restarts
      <3>1. counter[r].restarts \in Nat /\ DOMAIN counter = Streams
        BY DEF TypeOK
      <3>2. /\ counter'[s].restarts
                  = counter[s].restarts + IF restarted THEN 1 ELSE 0
            /\ r # s => counter'[r] = counter[r]
        BY <2>2, <3>1 DEF Export
      <3> QED
        BY <3>1, <3>2
    <2>6. ExactInv(db)' /\ ExactInv(durable)' /\ ExactInv(draft)'
      BY <1>0, <2>4, <2>5, ExactInvGrows DEF ExactInv
    <2> QED
      BY <2>3, <2>6 DEF Databases
  <1>2. ASSUME NEW batch \in SUBSET emitted, Begin(batch) PROVE DifferenceInv'
    <2>1. /\ draft' = db /\ db' = db /\ durable' = durable
          /\ UNCHANGED <<counter, emitted, time>>
      BY <1>2 DEF Begin
    <2> QED
      BY <1>0, <2>1 DEF Databases, RunsInv, ExactInv, Tells
  <1>3. ASSUME NEW p \in todo, Take(p) PROVE DifferenceInv'
    <2> DEFINE before == [draft EXCEPT !.seen = @ \cup {p}]
               next == IF p \in draft.seen THEN draft ELSE Counted(before, p)
    <2>1. p \in emitted
      BY DEF TypeOK
    <2>2. ExactInv(next)
      BY <1>0, <2>1, CountedExact
    <2>3. /\ draft' = next
          /\ db' = IF todo = {p} THEN next ELSE db
          /\ durable' = IF todo = {p} /\ Safe THEN next ELSE durable
          /\ UNCHANGED <<counter, emitted, time>>
      BY <1>3 DEF Take
    <2> HIDE DEF next
    <2>4. RunsInv'
      BY <2>3 DEF RunsInv, Tells
    <2>5. \A d \in {draft, db, durable}' : ExactInv(d)
      BY <1>0, <2>2, <2>3
    <2> QED
      BY <2>3, <2>4, <2>5 DEF Databases, ExactInv
  <1>4. ASSUME NEW p \in db.seen, Evict(p) PROVE DifferenceInv'
    <2> DEFINE next == [db EXCEPT !.seen = @ \ {p}]
    <2>1. /\ next.sums = db.sums /\ next.credited = db.credited
          /\ next.base = db.base /\ next.decreases = db.decreases
          /\ next.seen \subseteq db.seen
      BY <1>0 DEF Database
    <2>2. /\ db' = next /\ durable' = next /\ draft' = next
          /\ UNCHANGED <<counter, emitted, time>>
      BY <1>4 DEF Evict
    <2> HIDE DEF next
    <2>3. ExactInv(next)
      BY <1>0, <2>1 DEF ExactInv
    <2>4. RunsInv'
      BY <2>2 DEF RunsInv, Tells
    <2> QED
      BY <2>2, <2>3, <2>4 DEF Databases, ExactInv
  <1>5. CASE PowerLoss
    <2>1. /\ db' = durable /\ draft' = durable /\ durable' = durable
          /\ UNCHANGED <<counter, emitted, time>>
      BY <1>5 DEF PowerLoss
    <2> QED
      BY <1>0, <2>1 DEF Databases, RunsInv, ExactInv, Tells
  <1>6. CASE UNCHANGED vars
    <2>1. UNCHANGED <<counter, emitted, time, db, durable, draft>>
      BY <1>6 DEF vars
    <2> QED
      BY <1>0, <2>1 DEF Databases, RunsInv, ExactInv, Tells
  <1> QED
    BY <1>1, <1>2, <1>3, <1>4, <1>5, <1>6 DEF Next

\* Without a restart the latest filed point is the one the state was taken
\* from, so the growth up to it was credited in full.
LEMMA DifferenceImplies == TypeOK /\ DifferenceInv => DifferencesAreRight
  <1> SUFFICES ASSUME TypeOK, DifferenceInv
               PROVE  ExactWithoutRestart /\ DecreaseMeansHiddenRestart
    BY DEF DifferencesAreRight
  <1>1. \A d \in Databases : ExactInv(d) /\ d \in Database
    BY DEF DifferenceInv, Databases, TypeOK
  <1>2. ASSUME NEW d \in Databases, NEW p \in d.seen
        PROVE  /\ d.sums[p.stream] # None
               /\ counter[p.stream].restarts = 0
                     /\ p.time >= d.sums[p.stream].last =>
                     d.credited[p.stream] = p.total - d.base[p.stream]
    <2> DEFINE s == p.stream
    <2>1. /\ p \in emitted /\ p \in Point /\ s \in Streams
          /\ d.sums[s] # None
          /\ counter[s].restarts = 0 => p.time <= d.sums[s].last
      BY <1>1 DEF ExactInv, TypeOK, Point
    <2>2. PICK q \in emitted :
             /\ d.sums[s] = NewState(q)
             /\ counter[s].restarts = 0 => d.credited[s] = q.total - d.base[s]
      BY <1>1, <2>1 DEF ExactInv
    <2>3. d.sums[s].last = q.time /\ q \in Point
      BY <2>2 DEF NewState, TypeOK
    <2>4. p.time = q.time => p = q
      BY <2>1, <2>2 DEF DifferenceInv, RunsInv
    <2>5. p.time \in Nat /\ q.time \in Nat
      BY <2>1, <2>3 DEF Point
    <2> QED
      BY <2>1, <2>2, <2>3, <2>4, <2>5
  <1>3. ExactWithoutRestart
    BY <1>2 DEF ExactWithoutRestart
  <1>4. DecreaseMeansHiddenRestart
    BY <1>1 DEF DecreaseMeansHiddenRestart, ExactInv
  <1> QED
    BY <1>3, <1>4

\* For every number of streams, points and batches: while a counter does not
\* restart its filed differences add up to exactly what it grew, and only a
\* client that hid a restart is accused of a decrease.
THEOREM ExactDifferences == Spec => []DifferencesAreRight
  <1>1. Init => TypeOK /\ DifferenceInv
    BY InitType, InitDifference
  <1>2. TypeOK /\ DifferenceInv /\ [Next]_vars => (TypeOK /\ DifferenceInv)'
    BY NextType, NextDifference
  <1>3. TypeOK /\ DifferenceInv => DifferencesAreRight
    BY DifferenceImplies
  <1> QED
    BY <1>1, <1>2, <1>3, PTL DEF Spec

-----------------------------------------------------------------------------
(* The interval of a metric query that names none.                         *)

\* A target is long enough: 299 of them span the range.
LEMMA TargetSpans ==
    ASSUME NEW range \in Nat
    PROVE  Target(range) \in Nat \ {0} /\ 299 * Target(range) >= range
  BY DEF Target

\* Some fitting interval is the shortest of them.
LEMMA ShortestExists ==
    ASSUME NEW range \in Nat,
           {i \in NamedIntervals : i >= Target(range)} # {}
    PROVE  \E i \in {i \in NamedIntervals : i >= Target(range)} :
              \A j \in {j \in NamedIntervals : j >= Target(range)} : i <= j
  <1>1. Target(range) \in Nat
    BY TargetSpans
  <1> QED
    BY <1>1 DEF NamedIntervals, Minute, Hour, Day

\* The interval chosen spans the range in 299 buckets or is the longest there is,
\* and whatever is shorter does not: for ranges that the list reaches and for those
\* beyond it.
LEMMA IntervalReaches ==
    ASSUME NEW range \in Nat
    PROVE  /\ AutomaticInterval(range) \in NamedIntervals \cup {Longest}
           /\ 299 * AutomaticInterval(range) >= range \/ AutomaticInterval(range) = Longest
           /\ \A i \in NamedIntervals \cup {Longest} :
                 i < AutomaticInterval(range) => 299 * i < range
  <1> DEFINE fitting == {i \in NamedIntervals : i >= Target(range)}
  <1>1. \A i \in NamedIntervals : i \in Nat /\ 1 <= i /\ i < Longest
    BY DEF NamedIntervals, Longest, Minute, Hour, Day
  <1>2. Target(range) \in Nat /\ 299 * Target(range) >= range
    BY TargetSpans
  <1>3. ASSUME NEW i \in Nat, 1 <= i, i < Target(range)  PROVE 299 * i < range
    <2>1. range # 0  BY <1>3 DEF Target
    <2>2. 299 * Target(range) <= range + 298  BY <2>1 DEF Target
    <2> QED  BY <1>2, <1>3, <2>2
  <1>4. CASE fitting = {}
    <2>1. AutomaticInterval(range) = Longest
      BY <1>4 DEF AutomaticInterval
    <2>2. \A i \in NamedIntervals : i < Target(range)
      BY <1>1, <1>2, <1>4
    <2> QED  BY <1>1, <1>3, <2>1, <2>2 DEF Longest, Day, Hour, Minute
  <1>5. CASE fitting # {}
    <2>1. AutomaticInterval(range) \in fitting
          /\ \A j \in fitting : AutomaticInterval(range) <= j
      BY <1>5, ShortestExists DEF AutomaticInterval
    <2>2. 299 * AutomaticInterval(range) >= range
      BY <1>1, <1>2, <2>1
    <2>3. ASSUME NEW i \in NamedIntervals, i < AutomaticInterval(range)
          PROVE  299 * i < range
      <3>1. i < Target(range)  BY <1>1, <1>2, <2>1, <2>3
      <3> QED  BY <1>1, <1>3, <3>1
    <2>4. ~(Longest < AutomaticInterval(range))
      BY <1>1, <2>1 DEF Longest, Day, Hour, Minute
    <2> QED  BY <2>1, <2>2, <2>3, <2>4
  <1> QED
    BY <1>4, <1>5

\* The interval of a query is the shortest that spans its range in 299 buckets, or
\* the longest one, when none does; and a wider range never gets finer buckets.
THEOREM IntervalIsShortest ==
    ASSUME NEW range \in Nat
    PROVE  /\ 299 * AutomaticInterval(range) >= range \/ AutomaticInterval(range) = Longest
           /\ \A i \in NamedIntervals \cup {Longest} :
                 i < AutomaticInterval(range) => 299 * i < range
           /\ \A wider \in Nat :
                 range <= wider => AutomaticInterval(range) <= AutomaticInterval(wider)
  <1>1. \A i \in NamedIntervals \cup {Longest} : i \in Nat /\ i <= Longest
    BY DEF NamedIntervals, Longest, Minute, Hour, Day
  <1>2. ASSUME NEW wider \in Nat, range <= wider,
               AutomaticInterval(wider) < AutomaticInterval(range)
        PROVE  FALSE
    <2>1. /\ AutomaticInterval(range) \in Nat /\ AutomaticInterval(range) <= Longest
          /\ AutomaticInterval(wider) \in Nat
      BY <1>1, <1>2, IntervalReaches
    <2>2. 299 * AutomaticInterval(wider) < range
      BY <1>2, IntervalReaches
    <2>3. AutomaticInterval(wider) = Longest
      BY <1>2, <2>1, <2>2, IntervalReaches
    <2> QED  BY <1>1, <1>2, <2>1, <2>3
  <1>3. \A wider \in Nat : /\ AutomaticInterval(range) \in Nat
                            /\ AutomaticInterval(wider) \in Nat
    BY <1>1, IntervalReaches
  <1> QED
    BY <1>2, <1>3, IntervalReaches

\* A metric query that names no interval gets at most 300 points for each of
\* its series, if its range is not longer than 299 times 30 days.
THEOREM FewBuckets ==
    ASSUME NEW range \in Nat, range <= 299 * Longest
    PROVE  range \div AutomaticInterval(range) < 300
  <1> DEFINE interval == AutomaticInterval(range)
  <1>1. interval \in NamedIntervals \cup {Longest} /\ 299 * interval >= range
    BY IntervalReaches
  <1> HIDE DEF interval
  <1>2. range \div interval < 300
    BY <1>1 DEF NamedIntervals, Longest, Minute, Hour, Day
  <1> QED
    BY <1>2 DEF interval

=============================================================================
