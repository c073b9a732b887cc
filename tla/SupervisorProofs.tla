--------------------------- MODULE SupervisorProofs ---------------------------
(***************************************************************************)
(* Theorems about Supervisor for every set of listeners and any number of  *)
(* requests.                                                               *)
(***************************************************************************)
EXTENDS Supervisor, TLAPS

\* The counts of requests; open requests are of tasks that have served.
RequestInv ==
    /\ served \in 0..MaxRequests /\ streams <= served
    /\ \A l \in Listeners : /\ open[l] <= served
                            /\ task[l] \in {"none", "bound"} => open[l] = 0
    /\ cut \subseteq Listeners

\* What runs at which stage.
StageInv ==
    /\ main \in {"binding", "supervising"} => error = None /\ ~shutdown
    /\ main = "binding" =>
          /\ \A l \in Listeners : task[l] \in {"none", "bound"}
          /\ done = <<>> /\ cut = {} /\ writer = "none" /\ maintenance = "none"
    /\ main \in {"supervising", "joining"} =>
          writer = "running" /\ \A l \in Listeners : task[l] \in {"serving", "ended"}
    /\ \A l \in joined : task[l] = "ended"
    /\ main = "flushing" =>
          /\ writer \in {"asked", "stopped"} /\ maintenance \in {"none", "left"}
          /\ \A l \in Listeners : task[l] = "ended"

\* Whoever ended while it was needed is on record.
FailedInv ==
    /\ \A l \in Listeners : task[l] = "ended" /\ open[l] > 0 => Failed(l)
    /\ ~shutdown => \A k \in DOMAIN done : done[k].how = "failed"
    /\ main \in {"joining", "flushing"} /\ error = None => signalled
    /\ error # None => /\ error \in [name : Listeners \cup {None}, how : Ways]
                       /\ error.name # None => error.how = "failed"

\* Everything the steps keep together.
Inv == /\ TypeOK /\ RequestInv /\ StageInv /\ FailedInv
       /\ NoneCutOff /\ EndsClean /\ ErrorsNameTheCulprit

\* What a listener sends when it ends.
Note == [name : Listeners, how : {"stopped", "failed"}]

\* Another end does not hide a failure.
LEMMA AppendKeepsFailed ==
  ASSUME done \in Seq(Note), NEW e \in Note, done' = Append(done, e), error' = error,
         NEW l \in Listeners, Failed(l)
  PROVE  Failed(l)'
<1>1. CASE error # None /\ error.name = l
  BY <1>1 DEF Failed
<1>2. CASE \E k \in DOMAIN done : done[k] = [name |-> l, how |-> "failed"]
  <2>1. PICK k \in DOMAIN done : done[k] = [name |-> l, how |-> "failed"]
    BY <1>2
  <2>2. k \in DOMAIN done' /\ done'[k] = done[k]
    BY <2>1
  <2> QED  BY <2>1, <2>2 DEF Failed
<1> QED  BY <1>1, <1>2 DEF Failed

\* Nor does reading the first failure: it is the error then.
LEMMA HeadKeepsFailed ==
  ASSUME done \in Seq(Note), done # <<>>, done' = Tail(done), error' = Head(done), error = None,
         NEW l \in Listeners, Failed(l)
  PROVE  Failed(l)'
<1> USE SupervisorAssumption
<1>1. PICK k \in DOMAIN done : done[k] = [name |-> l, how |-> "failed"]
  BY DEF Failed
<1>2. CASE k = 1
  <2>1. error' = [name |-> l, how |-> "failed"]
    BY <1>1, <1>2
  <2>2. error' # None /\ error'.name = l
    BY <2>1 DEF Ways
  <2> QED  BY <2>2 DEF Failed
<1>3. CASE k # 1
  <2>1. k - 1 \in DOMAIN done' /\ done'[k - 1] = done[k]
    BY <1>1, <1>3
  <2> QED  BY <1>1, <2>1 DEF Failed
<1> QED  BY <1>2, <1>3

\* l binds its address.
LEMMA BindKeeps ==
  ASSUME Inv, NEW l \in Listeners, Bind(l)
  PROVE  Inv'
<1> USE SupervisorAssumption
<1>1. TypeOK'
  BY DEF Inv, Bind, TypeOK, tasks
<1>2. RequestInv'
  BY DEF Inv, Bind, RequestInv, TypeOK, tasks
<1>3. StageInv'
  BY DEF Inv, Bind, StageInv, TypeOK, tasks
<1>4. FailedInv'
  BY DEF Inv, Bind, FailedInv, TypeOK, StageInv, Failed, Ways, tasks
<1>5. NoneCutOff'
  BY DEF Inv, Bind, NoneCutOff, StageInv, Failed, tasks
<1>6. EndsClean'
  BY DEF Inv, Bind, EndsClean, StageInv, TypeOK, tasks
<1>7. ErrorsNameTheCulprit'
  BY DEF Inv, Bind, ErrorsNameTheCulprit, FailedInv, StageInv, Ways, tasks
<1> QED  BY <1>1, <1>2, <1>3, <1>4, <1>5, <1>6, <1>7 DEF Inv

\* A request comes.
LEMMA AcceptKeeps ==
  ASSUME Inv, NEW l \in Listeners, Accept(l)
  PROVE  Inv'
<1> USE SupervisorAssumption
<1>1. TypeOK'
  BY DEF Inv, Accept, TypeOK, RequestInv, tasks
<1>2. RequestInv'
  BY DEF Inv, Accept, RequestInv, TypeOK, tasks
<1>3. StageInv'
  BY DEF Inv, Accept, StageInv, TypeOK, tasks
<1>4. FailedInv'
  BY DEF Inv, Accept, FailedInv, TypeOK, StageInv, Failed, Ways, tasks
<1>5. NoneCutOff'
  BY DEF Inv, Accept, NoneCutOff, StageInv, Failed, tasks
<1>6. EndsClean'
  BY DEF Inv, Accept, EndsClean, StageInv, TypeOK, tasks
<1>7. ErrorsNameTheCulprit'
  BY DEF Inv, Accept, ErrorsNameTheCulprit, FailedInv, StageInv, Ways, tasks
<1> QED  BY <1>1, <1>2, <1>3, <1>4, <1>5, <1>6, <1>7 DEF Inv

\* A client of MCP opens a stream, or closes one.
LEMMA StreamKeeps ==
  ASSUME Inv, OpenStream \/ CloseStream
  PROVE  Inv'
<1> USE SupervisorAssumption
<1>1. TypeOK'
  BY DEF Inv, OpenStream, CloseStream, TypeOK, RequestInv
<1>2. RequestInv'
  BY DEF Inv, OpenStream, CloseStream, RequestInv, TypeOK
<1>3. StageInv'
  BY DEF Inv, OpenStream, CloseStream, StageInv
<1>4. FailedInv'
  BY DEF Inv, OpenStream, CloseStream, FailedInv, Failed
<1>5. NoneCutOff'
  BY DEF Inv, OpenStream, CloseStream, NoneCutOff, Failed
<1>6. EndsClean'
  BY DEF Inv, OpenStream, CloseStream, EndsClean
<1>7. ErrorsNameTheCulprit'
  BY DEF Inv, OpenStream, CloseStream, ErrorsNameTheCulprit
<1> QED  BY <1>1, <1>2, <1>3, <1>4, <1>5, <1>6, <1>7 DEF Inv

\* One ends: if the writer no longer answers, its listener has failed.
LEMMA RespondKeeps ==
  ASSUME Inv, NEW l \in Listeners, Respond(l)
  PROVE  Inv'
<1> USE SupervisorAssumption
<1>1. TypeOK'
  BY DEF Inv, Respond, TypeOK, tasks
<1>2. RequestInv'
  BY DEF Inv, Respond, RequestInv, TypeOK, tasks
<1>3. StageInv'
  BY DEF Inv, Respond, StageInv, TypeOK, RequestInv, tasks
<1>4. FailedInv'
  BY DEF Inv, Respond, FailedInv, TypeOK, StageInv, Failed, Ways, tasks
<1>5. NoneCutOff'
  <2> SUFFICES ASSUME NEW m \in cut'
               PROVE  Failed(m)'
    BY DEF NoneCutOff
  <2>1. CASE m \in cut
    BY <2>1 DEF Inv, Respond, NoneCutOff, Failed
  <2>2. CASE m \notin cut
    <3>1. m = l /\ open[l] > 0 /\ writer # "running"
      BY <2>2 DEF Respond
    <3>2. task[l] = "ended"
      BY <3>1 DEF Inv, TypeOK, RequestInv, StageInv, EndsClean
    <3> QED  BY <3>1, <3>2 DEF Inv, Respond, FailedInv, Failed
  <2> QED  BY <2>1, <2>2
<1>6. EndsClean'
  BY DEF Inv, Respond, EndsClean, StageInv, TypeOK, tasks
<1>7. ErrorsNameTheCulprit'
  BY DEF Inv, Respond, ErrorsNameTheCulprit, FailedInv, StageInv, Ways, tasks
<1> QED  BY <1>1, <1>2, <1>3, <1>4, <1>5, <1>6, <1>7 DEF Inv

\* A listener drains: nothing of it is open.
LEMMA DrainKeeps ==
  ASSUME Inv, NEW l \in Listeners, Drain(l)
  PROVE  Inv'
<1> USE SupervisorAssumption
<1>1. TypeOK'
  BY DEF Inv, Drain, EndOf, TypeOK, tasks
<1>2. RequestInv'
  BY DEF Inv, Drain, EndOf, RequestInv, TypeOK, tasks
<1>3. StageInv'
  BY DEF Inv, Drain, EndOf, StageInv, TypeOK, tasks
<1>4. FailedInv'
  <2>1. ASSUME NEW m \in Listeners, task'[m] = "ended", open'[m] > 0
        PROVE  Failed(m)'
    <3>1. m # l /\ task[m] = "ended" /\ open[m] > 0
      BY <2>1 DEF Inv, Drain, EndOf, TypeOK
    <3>2. Failed(m)
      BY <3>1 DEF Inv, FailedInv
    <3> QED  BY <3>2, AppendKeepsFailed DEF Inv, Drain, EndOf, TypeOK, Note
  <2> QED  BY <2>1 DEF Inv, Drain, FailedInv
<1>5. NoneCutOff'
  <2>1. ASSUME NEW m \in cut
        PROVE  Failed(m)'
    <3>1. m \in Listeners /\ Failed(m)
      BY DEF Inv, NoneCutOff, RequestInv
    <3> QED  BY <3>1, AppendKeepsFailed DEF Inv, Drain, EndOf, TypeOK, Note
  <2> QED  BY <2>1 DEF Drain, NoneCutOff
<1>6. EndsClean'
  BY DEF Inv, Drain, EndOf, EndsClean, StageInv, TypeOK, tasks
<1>7. ErrorsNameTheCulprit'
  BY DEF Inv, Drain, EndOf, ErrorsNameTheCulprit, FailedInv, StageInv, Ways, tasks
<1> QED  BY <1>1, <1>2, <1>3, <1>4, <1>5, <1>6, <1>7 DEF Inv

\* A listener fails, and is on record from here on.
LEMMA FailKeeps ==
  ASSUME Inv, NEW l \in Listeners, Fail(l)
  PROVE  Inv'
<1> USE SupervisorAssumption
<1>1. TypeOK'
  BY DEF Inv, Fail, EndOf, TypeOK, tasks
<1>2. RequestInv'
  BY DEF Inv, Fail, EndOf, RequestInv, TypeOK, tasks
<1>3. StageInv'
  BY DEF Inv, Fail, EndOf, StageInv, TypeOK, tasks
<1>4. FailedInv'
  <2> DEFINE e == [name |-> l, how |-> "failed"]
  <2>1. e \in Note /\ done' = Append(done, e) /\ error' = error /\ done \in Seq(Note)
    BY DEF Inv, Fail, EndOf, TypeOK, Note
  <2>2. ASSUME NEW m \in Listeners, task'[m] = "ended", open'[m] > 0
        PROVE  Failed(m)'
    <3>1. CASE m = l
      <4>1. Len(done) + 1 \in DOMAIN done' /\ done'[Len(done) + 1] = e
        BY <2>1
      <4> QED  BY <3>1, <4>1 DEF Failed
    <3>2. CASE m # l
      <4>1. Failed(m)
        BY <2>2, <3>2 DEF Inv, Fail, EndOf, TypeOK, FailedInv
      <4> QED  BY <2>1, <4>1, AppendKeepsFailed
    <3> QED  BY <3>1, <3>2
  <2>3. ~shutdown => \A k \in DOMAIN done' : done'[k].how = "failed"
    BY <2>1 DEF Inv, FailedInv
  <2> QED  BY <2>2, <2>3 DEF Inv, Fail, FailedInv
<1>5. NoneCutOff'
  <2>1. ASSUME NEW m \in cut
        PROVE  Failed(m)'
    <3>1. m \in Listeners /\ Failed(m)
      BY DEF Inv, NoneCutOff, RequestInv
    <3> QED  BY <3>1, AppendKeepsFailed DEF Inv, Fail, EndOf, TypeOK, Note
  <2> QED  BY <2>1 DEF Fail, NoneCutOff
<1>6. EndsClean'
  BY DEF Inv, Fail, EndOf, EndsClean, StageInv, TypeOK, tasks
<1>7. ErrorsNameTheCulprit'
  BY DEF Inv, Fail, EndOf, ErrorsNameTheCulprit, FailedInv, StageInv, Ways, tasks
<1> QED  BY <1>1, <1>2, <1>3, <1>4, <1>5, <1>6, <1>7 DEF Inv

\* No listener starts.
LEMMA BindFailsKeeps ==
  ASSUME Inv, BindFails
  PROVE  Inv'
<1> USE SupervisorAssumption
<1>1. TypeOK'
  BY DEF Inv, BindFails, StartFails, TypeOK, tasks
<1>2. RequestInv'
  BY DEF Inv, BindFails, StartFails, RequestInv, TypeOK, StageInv, tasks
<1>3. StageInv'
  BY DEF Inv, BindFails, StartFails, StageInv, TypeOK, tasks
<1>4. FailedInv'
  BY DEF Inv, BindFails, StartFails, FailedInv, TypeOK, StageInv, Failed, Ways, tasks
<1>5. NoneCutOff'
  BY DEF Inv, BindFails, StartFails, NoneCutOff, StageInv, Failed, tasks
<1>6. EndsClean'
  BY DEF Inv, BindFails, StartFails, EndsClean, StageInv, TypeOK, tasks
<1>7. ErrorsNameTheCulprit'
  BY DEF Inv, BindFails, StartFails, ErrorsNameTheCulprit, FailedInv, StageInv, Ways, tasks
<1> QED  BY <1>1, <1>2, <1>3, <1>4, <1>5, <1>6, <1>7 DEF Inv

\* All start, or none.
LEMMA MaintainFirstKeeps ==
  ASSUME Inv, MaintainFirst
  PROVE  Inv'
<1> USE SupervisorAssumption
<1>1. TypeOK'
  BY DEF Inv, MaintainFirst, StartFails, TypeOK, tasks
<1>2. RequestInv'
  BY DEF Inv, MaintainFirst, StartFails, RequestInv, TypeOK, tasks
<1>3. StageInv'
  BY DEF Inv, MaintainFirst, StartFails, StageInv, TypeOK, tasks
<1>4. FailedInv'
  BY DEF Inv, MaintainFirst, StartFails, FailedInv, TypeOK, StageInv, Failed, Ways, tasks
<1>5. NoneCutOff'
  BY DEF Inv, MaintainFirst, StartFails, NoneCutOff, StageInv, Failed, tasks
<1>6. EndsClean'
  BY DEF Inv, MaintainFirst, StartFails, EndsClean, StageInv, TypeOK, tasks
<1>7. ErrorsNameTheCulprit'
  BY DEF Inv, MaintainFirst, StartFails, ErrorsNameTheCulprit, FailedInv, StageInv, Ways, tasks
<1> QED  BY <1>1, <1>2, <1>3, <1>4, <1>5, <1>6, <1>7 DEF Inv

\* The periodic maintenance starts.
LEMMA BeginMaintenanceKeeps ==
  ASSUME Inv, BeginMaintenance
  PROVE  Inv'
<1> USE SupervisorAssumption
<1>1. TypeOK'
  BY DEF Inv, BeginMaintenance, TypeOK, tasks
<1>2. RequestInv'
  BY DEF Inv, BeginMaintenance, RequestInv, TypeOK, tasks
<1>3. StageInv'
  BY DEF Inv, BeginMaintenance, StageInv, TypeOK, tasks
<1>4. FailedInv'
  BY DEF Inv, BeginMaintenance, FailedInv, TypeOK, StageInv, Failed, Ways, tasks
<1>5. NoneCutOff'
  BY DEF Inv, BeginMaintenance, NoneCutOff, StageInv, Failed, tasks
<1>6. EndsClean'
  BY DEF Inv, BeginMaintenance, EndsClean, StageInv, TypeOK, tasks
<1>7. ErrorsNameTheCulprit'
  BY DEF Inv, BeginMaintenance, ErrorsNameTheCulprit, FailedInv, StageInv, Ways, tasks
<1> QED  BY <1>1, <1>2, <1>3, <1>4, <1>5, <1>6, <1>7 DEF Inv

\* It ends, after an abort too.
LEMMA EndMaintenanceKeeps ==
  ASSUME Inv, EndMaintenance
  PROVE  Inv'
<1> USE SupervisorAssumption
<1>1. TypeOK'
  BY DEF Inv, EndMaintenance, TypeOK, tasks
<1>2. RequestInv'
  BY DEF Inv, EndMaintenance, RequestInv, TypeOK, tasks
<1>3. StageInv'
  BY DEF Inv, EndMaintenance, StageInv, TypeOK, tasks
<1>4. FailedInv'
  BY DEF Inv, EndMaintenance, FailedInv, TypeOK, StageInv, Failed, Ways, tasks
<1>5. NoneCutOff'
  BY DEF Inv, EndMaintenance, NoneCutOff, StageInv, Failed, tasks
<1>6. EndsClean'
  BY DEF Inv, EndMaintenance, EndsClean, StageInv, TypeOK, tasks
<1>7. ErrorsNameTheCulprit'
  BY DEF Inv, EndMaintenance, ErrorsNameTheCulprit, FailedInv, StageInv, Ways, tasks
<1> QED  BY <1>1, <1>2, <1>3, <1>4, <1>5, <1>6, <1>7 DEF Inv

\* The writer has flushed.
LEMMA StopWriterKeeps ==
  ASSUME Inv, StopWriter
  PROVE  Inv'
<1> USE SupervisorAssumption
<1>1. TypeOK'
  BY DEF Inv, StopWriter, TypeOK, tasks
<1>2. RequestInv'
  BY DEF Inv, StopWriter, RequestInv, TypeOK, tasks
<1>3. StageInv'
  BY DEF Inv, StopWriter, StageInv, TypeOK, tasks
<1>4. FailedInv'
  BY DEF Inv, StopWriter, FailedInv, TypeOK, StageInv, Failed, Ways, tasks
<1>5. NoneCutOff'
  BY DEF Inv, StopWriter, NoneCutOff, StageInv, Failed, tasks
<1>6. EndsClean'
  BY DEF Inv, StopWriter, EndsClean, StageInv, TypeOK, tasks
<1>7. ErrorsNameTheCulprit'
  BY DEF Inv, StopWriter, ErrorsNameTheCulprit, FailedInv, StageInv, Ways, tasks
<1> QED  BY <1>1, <1>2, <1>3, <1>4, <1>5, <1>6, <1>7 DEF Inv

\* A signal comes.
LEMMA SignalKeeps ==
  ASSUME Inv, Signal
  PROVE  Inv'
<1> USE SupervisorAssumption
<1>1. TypeOK'
  BY DEF Inv, Signal, TypeOK, tasks
<1>2. RequestInv'
  BY DEF Inv, Signal, RequestInv, TypeOK, tasks
<1>3. StageInv'
  BY DEF Inv, Signal, StageInv, TypeOK, tasks
<1>4. FailedInv'
  BY DEF Inv, Signal, FailedInv, TypeOK, StageInv, Failed, Ways, tasks
<1>5. NoneCutOff'
  BY DEF Inv, Signal, NoneCutOff, StageInv, Failed, tasks
<1>6. EndsClean'
  BY DEF Inv, Signal, EndsClean, StageInv, TypeOK, tasks
<1>7. ErrorsNameTheCulprit'
  BY DEF Inv, Signal, ErrorsNameTheCulprit, FailedInv, StageInv, Ways, tasks
<1> QED  BY <1>1, <1>2, <1>3, <1>4, <1>5, <1>6, <1>7 DEF Inv

\* The supervisor takes the signal.
LEMMA SelectSignalKeeps ==
  ASSUME Inv, SelectSignal
  PROVE  Inv'
<1> USE SupervisorAssumption
<1>1. TypeOK'
  BY DEF Inv, SelectSignal, TypeOK, tasks
<1>2. RequestInv'
  BY DEF Inv, SelectSignal, RequestInv, TypeOK, tasks
<1>3. StageInv'
  BY DEF Inv, SelectSignal, StageInv, TypeOK, tasks
<1>4. FailedInv'
  BY DEF Inv, SelectSignal, FailedInv, TypeOK, StageInv, Failed, Ways, tasks
<1>5. NoneCutOff'
  BY DEF Inv, SelectSignal, NoneCutOff, StageInv, Failed, tasks
<1>6. EndsClean'
  BY DEF Inv, SelectSignal, EndsClean, StageInv, TypeOK, tasks
<1>7. ErrorsNameTheCulprit'
  BY DEF Inv, SelectSignal, ErrorsNameTheCulprit, FailedInv, StageInv, Ways, tasks
<1> QED  BY <1>1, <1>2, <1>3, <1>4, <1>5, <1>6, <1>7 DEF Inv

\* The supervisor takes the first end, a failure, for its error.
LEMMA SelectDoneKeeps ==
  ASSUME Inv, SelectDone
  PROVE  Inv'
<1> USE SupervisorAssumption
<1>1. TypeOK'
  BY DEF Inv, SelectDone, TypeOK, tasks
<1>2. RequestInv'
  BY DEF Inv, SelectDone, RequestInv, TypeOK, tasks
<1>3. StageInv'
  BY DEF Inv, SelectDone, StageInv, TypeOK, tasks
<1>4. FailedInv'
  <2>1. done \in Seq(Note) /\ done # <<>> /\ done' = Tail(done) /\ error' = Head(done)
        /\ error = None /\ ~shutdown
    BY DEF Inv, SelectDone, TypeOK, StageInv, Note
  <2>2. ASSUME NEW m \in Listeners, task'[m] = "ended", open'[m] > 0
        PROVE  Failed(m)'
    <3>1. Failed(m)
      BY <2>2 DEF Inv, SelectDone, FailedInv
    <3> QED  BY <2>1, <3>1, HeadKeepsFailed
  <2>3. error' \in Note /\ error'.how = "failed"
    BY <2>1 DEF Inv, FailedInv
  <2>4. error' \in [name : Listeners \cup {None}, how : Ways]
    BY <2>3 DEF Note, Ways
  <2>5. error' # None /\ shutdown'
    BY <2>4 DEF SelectDone
  <2> QED  BY <2>2, <2>3, <2>4, <2>5 DEF FailedInv
<1>5. NoneCutOff'
  <2>1. ASSUME NEW m \in cut
        PROVE  Failed(m)'
    <3>1. m \in Listeners /\ Failed(m)
      BY DEF Inv, NoneCutOff, RequestInv
    <3> QED  BY <3>1, HeadKeepsFailed DEF Inv, SelectDone, TypeOK, StageInv, Note
  <2> QED  BY <2>1 DEF SelectDone, NoneCutOff
<1>6. EndsClean'
  BY DEF Inv, SelectDone, EndsClean, StageInv, TypeOK, tasks
<1>7. ErrorsNameTheCulprit'
  BY DEF Inv, SelectDone, ErrorsNameTheCulprit, FailedInv, StageInv, Ways, tasks
<1> QED  BY <1>1, <1>2, <1>3, <1>4, <1>5, <1>6, <1>7 DEF Inv

\* All have ended when the writer is told.
LEMMA AskWriterKeeps ==
  ASSUME Inv, AskWriter
  PROVE  Inv'
<1> USE SupervisorAssumption
<1>1. TypeOK'
  BY DEF Inv, AskWriter, TypeOK, tasks
<1>2. RequestInv'
  BY DEF Inv, AskWriter, RequestInv, TypeOK, tasks
<1>3. StageInv'
  BY DEF Inv, AskWriter, StageInv, TypeOK, tasks
<1>4. FailedInv'
  BY DEF Inv, AskWriter, FailedInv, TypeOK, StageInv, Failed, Ways, tasks
<1>5. NoneCutOff'
  BY DEF Inv, AskWriter, NoneCutOff, StageInv, Failed, tasks
<1>6. EndsClean'
  BY DEF Inv, AskWriter, EndsClean, StageInv, TypeOK, tasks
<1>7. ErrorsNameTheCulprit'
  BY DEF Inv, AskWriter, ErrorsNameTheCulprit, FailedInv, StageInv, Ways, tasks
<1> QED  BY <1>1, <1>2, <1>3, <1>4, <1>5, <1>6, <1>7 DEF Inv

\* Everything has.
LEMMA ReturnKeeps ==
  ASSUME Inv, Return
  PROVE  Inv'
<1> USE SupervisorAssumption
<1>1. TypeOK'
  BY DEF Inv, Return, TypeOK, tasks
<1>2. RequestInv'
  BY DEF Inv, Return, RequestInv, TypeOK, tasks
<1>3. StageInv'
  BY DEF Inv, Return, StageInv, TypeOK, tasks
<1>4. FailedInv'
  BY DEF Inv, Return, FailedInv, TypeOK, StageInv, Failed, Ways, tasks
<1>5. NoneCutOff'
  BY DEF Inv, Return, NoneCutOff, StageInv, Failed, tasks
<1>6. EndsClean'
  BY DEF Inv, Return, EndsClean, StageInv, TypeOK, tasks
<1>7. ErrorsNameTheCulprit'
  BY DEF Inv, Return, ErrorsNameTheCulprit, FailedInv, StageInv, Ways, tasks
<1> QED  BY <1>1, <1>2, <1>3, <1>4, <1>5, <1>6, <1>7 DEF Inv

\* The supervisor awaits a task that has ended.
LEMMA JoinKeeps ==
  ASSUME Inv, NEW l \in Listeners, Join(l)
  PROVE  Inv'
<1> USE SupervisorAssumption
<1>1. TypeOK'
  BY DEF Inv, Join, TypeOK, tasks
<1>2. RequestInv'
  BY DEF Inv, Join, RequestInv, TypeOK, tasks
<1>3. StageInv'
  BY DEF Inv, Join, StageInv, TypeOK, tasks
<1>4. FailedInv'
  BY DEF Inv, Join, FailedInv, TypeOK, StageInv, Failed, Ways, tasks
<1>5. NoneCutOff'
  BY DEF Inv, Join, NoneCutOff, StageInv, Failed, tasks
<1>6. EndsClean'
  BY DEF Inv, Join, EndsClean, StageInv, TypeOK, tasks
<1>7. ErrorsNameTheCulprit'
  BY DEF Inv, Join, ErrorsNameTheCulprit, FailedInv, StageInv, Ways, tasks
<1> QED  BY <1>1, <1>2, <1>3, <1>4, <1>5, <1>6, <1>7 DEF Inv

\* At first nothing runs, and every step keeps what the stages guarantee.
LEMMA Invariance == Spec => []Inv
<1>1. Init => Inv
  BY SupervisorAssumption DEF Init, Inv, TypeOK, RequestInv, StageInv, FailedInv, NoneCutOff,
     EndsClean, ErrorsNameTheCulprit
<1>2. Inv /\ [Next]_vars => Inv'
  <2> SUFFICES ASSUME Inv, [Next]_vars
               PROVE  Inv'
    OBVIOUS
  <2>1. CASE UNCHANGED vars
    BY <2>1 DEF vars, tasks, Inv, TypeOK, RequestInv, StageInv, FailedInv, NoneCutOff, Failed,
       EndsClean, ErrorsNameTheCulprit
  <2>2. CASE Supervise
    BY <2>2, SelectSignalKeeps, SelectDoneKeeps, AskWriterKeeps, ReturnKeeps, JoinKeeps
       DEF Supervise
  <2>3. CASE \E l \in Listeners : Bind(l) \/ Accept(l) \/ Respond(l) \/ Drain(l) \/ Fail(l)
    BY <2>3, BindKeeps, AcceptKeeps, RespondKeeps, DrainKeeps, FailKeeps
  <2>4. CASE BindFails \/ MaintainFirst
    BY <2>4, BindFailsKeeps, MaintainFirstKeeps
  <2>5. CASE OpenStream \/ CloseStream
    BY <2>5, StreamKeeps
  <2>6. CASE BeginMaintenance \/ EndMaintenance \/ StopWriter \/ Signal
    BY <2>6, BeginMaintenanceKeeps, EndMaintenanceKeeps, StopWriterKeeps, SignalKeeps
  <2> QED  BY <2>1, <2>2, <2>3, <2>4, <2>5, <2>6 DEF Next
<1> QED  BY <1>1, <1>2, PTL DEF Spec

\* However many listeners there are, whichever of them fail, whatever is open
\* and whenever the signal comes: a daemon that ends has flushed and left
\* nothing running, its error names who failed, and every request the writer
\* did not answer was of a listener that had failed.
THEOREM DaemonEndsInOrder == Spec => []EndsInOrder
<1>1. Inv => EndsInOrder
  BY DEF Inv, EndsInOrder
<1> QED  BY <1>1, Invariance, PTL
=============================================================================
