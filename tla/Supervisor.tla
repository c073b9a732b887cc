------------------------------ MODULE Supervisor ------------------------------
(***************************************************************************)
(* The tasks of the daemon (src/src/server.rs): serve binds the listeners, *)
(* maintains the store once and spawns a task for each listener, for the   *)
(* periodic maintenance and for the writer; supervise_servers waits for a  *)
(* signal or for the end of a listener, and takes everything down.         *)
(* A request of an ingest listener is open until the writer answers it; a  *)
(* stream of MCP at the web listener until its client lets go of it.       *)
(***************************************************************************)
EXTENDS Naturals, Sequences, FiniteSets

CONSTANTS
    Listeners,        \* web/API and the enabled ingest listeners
    Ingest,           \* those that submit to the writer
    Control,          \* the web/API listener, which serves MCP
    None,
    MaxRequests       \* bound: requests and streams altogether

\* How a listener, or the start, ends.
Ways == {"stopped", "failed", "bind", "maintenance"}

ASSUME SupervisorAssumption ==
    /\ Ingest \subseteq Listeners /\ IsFiniteSet(Listeners)
    /\ Control \in Listeners \ Ingest
    /\ None \notin Listeners
    /\ None \notin [name : Listeners \cup {None}, how : Ways]
    /\ MaxRequests \in Nat

VARIABLES
    main,             \* where serve and supervise_servers are
    task,             \* the task of each listener
    open,             \* its open requests
    streams,          \* the open streams of MCP
    served,           \* how many there were of both altogether
    cut,              \* the listeners of requests that the writer did not answer
    done,             \* the channel of listeners that have ended
    shutdown,         \* the watch that says so
    joined,           \* the tasks awaited so far
    signalled,        \* a signal has come
    maintenance,      \* none, idle, running, or left: running though aborted
    writer,           \* none, running, asked, stopped
    error             \* what is to be returned: None or [name, how]

tasks == <<task, open, streams, served, cut, done>>
vars == <<main, tasks, shutdown, joined, signalled, maintenance, writer, error>>

Init ==
    /\ main = "binding"
    /\ task = [l \in Listeners |-> "none"]
    /\ open = [l \in Listeners |-> 0]
    /\ streams = 0
    /\ served = 0
    /\ cut = {}
    /\ done = <<>>
    /\ shutdown = FALSE
    /\ joined = {}
    /\ signalled = FALSE
    /\ maintenance = "none"
    /\ writer = "none"
    /\ error = None

-----------------------------------------------------------------------------
(* serve.                                                                  *)

Bind(l) ==
    /\ main = "binding"
    /\ task[l] = "none"
    /\ task' = [task EXCEPT ![l] = "bound"]
    /\ UNCHANGED <<main, open, streams, served, cut, done, shutdown, joined, signalled,
                   maintenance, writer, error>>

StartFails(how) ==
    /\ error' = [name |-> None, how |-> how]
    /\ main' = "returned"
    /\ task' = [l \in Listeners |-> "none"]
    /\ UNCHANGED <<open, streams, served, cut, done, shutdown, joined, signalled,
                   maintenance, writer>>

\* An address in use: the other listeners are dropped.
BindFails ==
    /\ main = "binding"
    /\ \E l \in Listeners : task[l] = "none"
    /\ StartFails("bind")

\* The first maintenance happens before anything is served.
MaintainFirst ==
    /\ main = "binding"
    /\ \A l \in Listeners : task[l] = "bound"
    /\ \/ /\ main' = "supervising"
          /\ task' = [l \in Listeners |-> "serving"]
          /\ maintenance' = "idle"
          /\ writer' = "running"
          /\ UNCHANGED <<open, streams, served, cut, done, shutdown, joined, signalled, error>>
       \/ StartFails("maintenance")

-----------------------------------------------------------------------------
(* The tasks.                                                              *)

\* A connection is accepted, also one from before the start.
Accept(l) ==
    /\ task[l] = "serving" /\ ~shutdown
    /\ served < MaxRequests
    /\ open' = [open EXCEPT ![l] = @ + 1]
    /\ served' = served + 1
    /\ UNCHANGED <<main, task, streams, cut, done, shutdown, joined, signalled, maintenance,
                   writer, error>>

\* A client of MCP opens a stream, which is its own to close: the service is not
\* told of the shutdown.
OpenStream ==
    /\ task[Control] = "serving" /\ ~shutdown
    /\ served < MaxRequests
    /\ streams' = streams + 1
    /\ served' = served + 1
    /\ UNCHANGED <<main, task, open, cut, done, shutdown, joined, signalled, maintenance,
                   writer, error>>

CloseStream ==
    /\ streams > 0
    /\ streams' = streams - 1
    /\ UNCHANGED <<main, task, open, served, cut, done, shutdown, joined, signalled,
                   maintenance, writer, error>>

\* A response ends, a live stream by the shutdown if not before.  Ingest waits
\* for the writer, which answers nothing behind the shutdown message.
Respond(l) ==
    /\ open[l] > 0
    /\ open' = [open EXCEPT ![l] = @ - 1]
    /\ cut' = IF l \in Ingest /\ writer # "running" THEN cut \cup {l} ELSE cut
    /\ UNCHANGED <<main, task, streams, served, done, shutdown, joined, signalled,
                   maintenance, writer, error>>

EndOf(l, how) ==
    /\ task' = [task EXCEPT ![l] = "ended"]
    /\ done' = Append(done, [name |-> l, how |-> how])

\* The graceful shutdown waits for the open requests and streams, however long.
Drain(l) ==
    /\ task[l] = "serving" /\ shutdown
    /\ open[l] = 0
    /\ l = Control => streams = 0
    /\ EndOf(l, "stopped")
    /\ UNCHANGED <<main, open, streams, served, cut, shutdown, joined, signalled,
                   maintenance, writer, error>>

\* A listener ends of itself, by a panic, say: its requests go on without it.
Fail(l) ==
    /\ task[l] = "serving"
    /\ EndOf(l, "failed")
    /\ UNCHANGED <<main, open, streams, served, cut, shutdown, joined, signalled,
                   maintenance, writer, error>>

BeginMaintenance ==
    /\ maintenance = "idle"
    /\ maintenance' = "running"
    /\ UNCHANGED <<main, tasks, shutdown, joined, signalled, writer, error>>

\* Errors are logged; an aborted task's job runs to its end.
EndMaintenance ==
    /\ maintenance \in {"running", "left"}
    /\ maintenance' = IF maintenance = "running" THEN "idle" ELSE "none"
    /\ UNCHANGED <<main, tasks, shutdown, joined, signalled, writer, error>>

\* The writer comes to the shutdown message and persists.
StopWriter ==
    /\ writer = "asked"
    /\ writer' = "stopped"
    /\ UNCHANGED <<main, tasks, shutdown, joined, signalled, maintenance, error>>

-----------------------------------------------------------------------------
(* supervise_servers.                                                      *)

\* Before this the signal has no handler and kills the process; later ones are not
\* looked at.
Signal ==
    /\ ~signalled /\ main = "supervising"
    /\ signalled' = TRUE
    /\ UNCHANGED <<main, tasks, shutdown, joined, maintenance, writer, error>>

\* Mutant of SelectDone: the end of a listener is not waited for.
SelectNothing ==
    /\ main = "supervising"
    /\ signalled /\ done # <<>>
    /\ error' = Head(done)
    /\ done' = Tail(done)
    /\ shutdown' = TRUE
    /\ main' = "joining"
    /\ UNCHANGED <<task, open, streams, served, cut, joined, signalled, maintenance, writer>>

\* select!: whichever is ready, either if both are.
SelectSignal ==
    /\ main = "supervising"
    /\ signalled
    /\ shutdown' = TRUE
    /\ main' = "joining"
    /\ UNCHANGED <<tasks, joined, signalled, maintenance, writer, error>>

SelectDone ==
    /\ main = "supervising"
    /\ done # <<>>
    /\ error' = Head(done)
    /\ done' = Tail(done)
    /\ shutdown' = TRUE
    /\ main' = "joining"
    /\ UNCHANGED <<task, open, streams, served, cut, joined, signalled, maintenance, writer>>

Join(l) ==
    /\ main = "joining"
    /\ task[l] = "ended"
    /\ l \notin joined
    /\ joined' = joined \cup {l}
    /\ UNCHANGED <<main, tasks, shutdown, signalled, maintenance, writer, error>>

\* Mutant of AskWriter: the first task that has ended is enough.
AskWriterEarly ==
    /\ main = "joining"
    /\ joined # {}
    /\ maintenance' = IF maintenance = "running" THEN "left" ELSE "none"
    /\ writer' = "asked"
    /\ main' = "flushing"
    /\ UNCHANGED <<tasks, shutdown, joined, signalled, error>>

\* The maintenance task is aborted, then the writer is told.
AskWriter ==
    /\ main = "joining"
    /\ joined = Listeners
    /\ maintenance' = IF maintenance = "running" THEN "left" ELSE "none"
    /\ writer' = "asked"
    /\ main' = "flushing"
    /\ UNCHANGED <<tasks, shutdown, joined, signalled, error>>

\* The writer's task has returned; the runtime waits for the blocking job.
Return ==
    /\ main = "flushing"
    /\ writer = "stopped"
    /\ maintenance = "none"
    /\ main' = "returned"
    /\ UNCHANGED <<tasks, shutdown, joined, signalled, maintenance, writer, error>>

Supervise == \/ SelectSignal \/ SelectDone \/ AskWriter \/ Return
             \/ \E l \in Listeners : Join(l)

Next ==
    \/ \E l \in Listeners : Bind(l) \/ Accept(l) \/ Respond(l) \/ Drain(l) \/ Fail(l)
    \/ OpenStream
    \/ CloseStream
    \/ BindFails
    \/ MaintainFirst
    \/ BeginMaintenance
    \/ EndMaintenance
    \/ StopWriter
    \/ Signal
    \/ Supervise

Spec == Init /\ [][Next]_vars

\* Tasks run, requests are answered and a maintenance job ends.  Nothing makes a
\* client close its streams.
FairSpec ==
    /\ Spec
    /\ WF_vars(Supervise) /\ WF_vars(StopWriter) /\ WF_vars(EndMaintenance)
    /\ \A l \in Listeners : WF_vars(Respond(l)) /\ WF_vars(Drain(l))

-----------------------------------------------------------------------------
(* Properties.                                                             *)

\* The variables keep their types.
TypeOK ==
    /\ main \in {"binding", "supervising", "joining", "flushing", "returned"}
    /\ task \in [Listeners -> {"none", "bound", "serving", "ended"}]
    /\ open \in [Listeners -> 0..MaxRequests]
    /\ streams \in 0..MaxRequests
    /\ done \in Seq([name : Listeners, how : {"stopped", "failed"}])
    /\ joined \subseteq Listeners
    /\ maintenance \in {"none", "idle", "running", "left"}
    /\ writer \in {"none", "running", "asked", "stopped"}

\* The daemon ends without an error only after a signal, and the listener that
\* an error names failed by itself: it did not end because another one had.
ErrorsNameTheCulprit ==
    main = "returned" =>
        /\ error = None => signalled
        /\ error # None /\ error.name # None => error.how = "failed"

\* A daemon that ends has left nothing behind: the writer has flushed, no
\* maintenance is at work, and no listener serves.
EndsClean ==
    main = "returned" =>
        /\ writer \in {"none", "stopped"} /\ maintenance = "none"
        /\ \A l \in Listeners : task[l] \in {"none", "ended"}

\* Whether by signal or by the end of one listener, the shutdown begins; and once
\* the clients of MCP have closed their streams, or their listener has failed, the
\* daemon ends: neither live streams nor requests that wait for the writer hold it
\* up.
Ends ==
    /\ (main = "supervising" /\ (signalled \/ done # <<>>)) ~> shutdown
    /\ (shutdown /\ (streams = 0 \/ task[Control] = "ended")) ~> main = "returned"

\* The failure of a listener is what the daemon ends with, or still to be read.
Failed(l) ==
    \/ error # None /\ error.name = l
    \/ \E k \in DOMAIN done : done[k] = [name |-> l, how |-> "failed"]

\* The writer answers every request of a listener that drained: it leaves out
\* only those of a listener that failed and left its requests behind.
NoneCutOff == \A l \in cut : Failed(l)

\* However it ends, the daemon ends in order.
EndsInOrder == TypeOK /\ ErrorsNameTheCulprit /\ EndsClean /\ NoneCutOff

=============================================================================
