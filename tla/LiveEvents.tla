------------------------------ MODULE LiveEvents ------------------------------
(***************************************************************************)
(* From a commit to the page that shows it: the writer announces what it   *)
(* wrote on a broadcast channel (src/src/writer.rs), the live endpoint     *)
(* streams the announcements (src/src/server.rs), and the web page reads   *)
(* its table again when one concerns it (src/web/src/main.tsx).  The       *)
(* listener drains while streams are open.                                 *)
(*                                                                         *)
(* One page, at one of several tables at a time: the signals of projects.  *)
(***************************************************************************)
EXTENDS Naturals, Sequences, FiniteSets, SequencesExt, Absent

CONSTANTS
    Tables,           \* pairs of a project and a signal
    Requested,        \* a read that has not been answered
    Capacity,         \* of the broadcast channel: 256
    WireCapacity,     \* bound: messages between the server and the page
    MaxCommits,       \* bound: batches written
    MaxSwitches,      \* bound: tables the user turns to
    MaxBreaks,        \* bound: connections lost
    MaxFailures       \* bound: reads of the table that fail

LiveAssumption ==
    /\ Tables # {} /\ IsFiniteSet(Tables)
    /\ None # Requested /\ None \notin Nat /\ Requested \notin Nat
    /\ {Capacity, WireCapacity} \subseteq Nat \ {0}
    /\ {MaxCommits, MaxSwitches, MaxBreaks, MaxFailures} \subseteq Nat

VARIABLES
    committed,        \* how many records of each table the store has
    unsent,           \* changes of the last batch that wait to be announced
    sent,             \* all changes announced; a place is a sequence number
    position,         \* the place a stream of the server comes to next, or None
    since,            \* the place it began at
    wire,             \* places on their way to the page
    heard,            \* the last place the page has heard of from this stream
    stream,           \* what the page's EventSource is: closed, asked, open
    table,            \* the table of the page
    timer,            \* whether a refresh is due
    fetch,            \* the page's request: None, Requested, or what was read
    shown,            \* how many records the table shows
    failed,           \* whether an error is shown instead of fresh rows
    listener,         \* serving, draining, stopped
    bounds            \* commits, switches, breaks and failures so far

Server == <<committed, unsent, sent>>
Stream == <<position, since, wire, heard, stream>>
Page == <<table, timer, fetch, shown, failed>>
liveVars == <<Server, Stream, Page, listener, bounds>>

Count(what) == bounds' = [bounds EXCEPT ![what] = @ + 1]

LiveInit ==
    /\ committed = [t \in Tables |-> 0]
    /\ unsent = <<>>
    /\ sent = <<>>
    /\ position = None
    /\ since = 1
    /\ wire = <<>>
    /\ heard = 0
    /\ stream = "closed"
    /\ table \in Tables
    /\ timer = FALSE
    /\ fetch = Requested
    /\ shown = 0
    /\ failed = FALSE
    /\ listener = "serving"
    /\ bounds = [commits |-> 0, switches |-> 0, breaks |-> 0, failures |-> 0]

-----------------------------------------------------------------------------
(* The writer.                                                             *)

\* A batch adds records to the changed tables: one announcement for each.
WriteBatch(changed) ==
    /\ unsent = <<>>
    /\ listener # "stopped"
    /\ bounds.commits < MaxCommits
    /\ Count("commits")
    /\ committed' = [t \in Tables |-> committed[t] + (IF t \in changed THEN 1 ELSE 0)]
    /\ unsent' = SetToSeq({[table |-> t, upto |-> committed'[t]] : t \in changed})
    /\ UNCHANGED <<sent, Stream, Page, listener>>

Announce ==
    /\ unsent # <<>>
    /\ sent' = Append(sent, Head(unsent))
    /\ unsent' = Tail(unsent)
    /\ UNCHANGED <<committed, Stream, Page, listener, bounds>>

-----------------------------------------------------------------------------
(* The stream of the server.                                               *)

Subscribe ==
    /\ stream = "asked"
    /\ stream' = "open"
    /\ position' = Len(sent) + 1
    /\ since' = Len(sent) + 1
    /\ heard' = Len(sent)
    /\ UNCHANGED <<wire, Server, Page, listener, bounds>>

Pending == position # None /\ position <= Len(sent)
Lags == Len(sent) - position >= Capacity

Forward ==
    /\ Pending
    /\ ~Lags
    /\ listener = "serving"
    /\ Len(wire) < WireCapacity
    /\ wire' = Append(wire, position)
    /\ position' = position + 1
    /\ UNCHANGED <<since, heard, stream, Server, Page, listener, bounds>>

\* A stream that has lost changes ends.
EndLagging ==
    /\ Pending
    /\ Lags
    /\ listener = "serving"
    /\ position' = None
    /\ UNCHANGED <<since, wire, heard, stream, Server, Page, listener, bounds>>

\* Mutant of EndAtShutdown: only the next change ends it.
EndAtNextChange ==
    /\ Pending
    /\ listener = "draining"
    /\ position' = None
    /\ UNCHANGED <<since, wire, heard, stream, Server, Page, listener, bounds>>

\* take_until: the shutdown is looked at before the changes.
EndAtShutdown ==
    /\ position # None
    /\ listener = "draining"
    /\ position' = None
    /\ UNCHANGED <<since, wire, heard, stream, Server, Page, listener, bounds>>

\* The connection breaks: what is under way is lost.
Break ==
    /\ stream = "open"
    /\ bounds.breaks < MaxBreaks
    /\ Count("breaks")
    /\ stream' = "closed"
    /\ position' = None
    /\ wire' = <<>>
    /\ UNCHANGED <<since, heard, Server, Page, listener>>

-----------------------------------------------------------------------------
(* The page.                                                               *)

\* EventSource connects, and connects again after an error.
Connect ==
    /\ stream = "closed"
    /\ listener = "serving"
    /\ stream' = "asked"
    /\ UNCHANGED <<position, since, wire, heard, Server, Page, listener, bounds>>

\* Mutant of Receive: a change is ignored while the table is being read.
ReceiveUnlessLoading ==
    /\ wire # <<>>
    /\ heard' = Head(wire)
    /\ wire' = Tail(wire)
    /\ timer' = (timer \/ (sent[Head(wire)].table = table /\ fetch = None))
    /\ UNCHANGED <<position, since, stream, Server, table, fetch, shown, failed,
                   listener, bounds>>

\* A change of the page's table sets the timer, anew if it is set.
Receive ==
    /\ wire # <<>>
    /\ heard' = Head(wire)
    /\ wire' = Tail(wire)
    /\ timer' = (timer \/ sent[Head(wire)].table = table)
    /\ UNCHANGED <<position, since, stream, Server, table, fetch, shown, failed,
                   listener, bounds>>

\* The end of the stream has reached the page.
Closed ==
    /\ stream = "open" /\ position = None /\ wire = <<>>
    /\ stream' = "closed"
    /\ UNCHANGED <<position, since, wire, heard, Server, Page, listener, bounds>>

\* Mutant of Refresh: a read that is under way is not begun again.
RefreshUnlessLoading ==
    /\ timer
    /\ timer' = FALSE
    /\ IF fetch = None
       THEN fetch' = Requested /\ failed' = FALSE
       ELSE UNCHANGED <<fetch, failed>>
    /\ UNCHANGED <<table, shown, Server, Stream, listener, bounds>>

\* The timer fires: the table is read, and a read under way is dropped.
Refresh ==
    /\ timer
    /\ timer' = FALSE
    /\ fetch' = Requested
    /\ failed' = FALSE
    /\ UNCHANGED <<table, shown, Server, Stream, listener, bounds>>

ReadTable ==
    /\ fetch = Requested
    /\ listener # "stopped"
    /\ fetch' = committed[table]
    /\ UNCHANGED <<table, timer, shown, failed, Server, Stream, listener, bounds>>

Show ==
    /\ fetch \in Nat
    /\ shown' = fetch
    /\ fetch' = None
    /\ UNCHANGED <<table, timer, failed, Server, Stream, listener, bounds>>

\* An error of the store or the network, or a server that is gone.
ReadFails ==
    /\ fetch # None
    /\ listener # "stopped" => bounds.failures < MaxFailures
    /\ IF listener = "stopped" THEN UNCHANGED bounds ELSE Count("failures")
    /\ fetch' = None
    /\ failed' = TRUE
    /\ UNCHANGED <<table, timer, shown, Server, Stream, listener>>

\* The user turns to another table: stream, timer and read are dropped.
Switch(t) ==
    /\ t # table
    /\ bounds.switches < MaxSwitches
    /\ Count("switches")
    /\ table' = t
    /\ timer' = FALSE
    /\ fetch' = Requested
    /\ shown' = 0
    /\ failed' = FALSE
    /\ stream' = "closed" /\ position' = None /\ wire' = <<>>
    /\ UNCHANGED <<since, heard, Server, listener>>

-----------------------------------------------------------------------------
(* The listener.                                                           *)

BeginShutdown ==
    /\ listener = "serving"
    /\ listener' = "draining"
    /\ UNCHANGED <<Server, Stream, Page, bounds>>

\* The graceful shutdown waits for every response to end.
Drained ==
    /\ listener = "draining"
    /\ stream # "asked" /\ position = None /\ wire = <<>>
    /\ fetch # Requested
    /\ listener' = "stopped"
    /\ UNCHANGED <<Server, Stream, Page, bounds>>

LiveNext ==
    \/ \E changed \in SUBSET Tables \ {{}} : WriteBatch(changed)
    \/ Announce
    \/ Subscribe
    \/ Forward
    \/ EndLagging
    \/ EndAtShutdown
    \/ Break
    \/ Connect
    \/ Receive
    \/ Closed
    \/ Refresh
    \/ ReadTable
    \/ Show
    \/ ReadFails
    \/ \E t \in Tables : Switch(t)
    \/ BeginShutdown
    \/ Drained

LiveSpec == LiveInit /\ [][LiveNext]_liveVars

\* The tasks of the server run, the page does, and bytes arrive.
LiveFairSpec ==
    /\ LiveSpec
    /\ WF_liveVars(Announce) /\ WF_liveVars(Subscribe) /\ WF_liveVars(Forward)
    /\ WF_liveVars(EndLagging) /\ WF_liveVars(EndAtShutdown)
    /\ WF_liveVars(Receive) /\ WF_liveVars(Closed) /\ WF_liveVars(Refresh)
    /\ WF_liveVars(ReadTable) /\ WF_liveVars(Show) /\ WF_liveVars(Drained)

-----------------------------------------------------------------------------
(* Properties.                                                             *)

\* The variables keep their types.
LiveTypeOK ==
    /\ committed \in [Tables -> Nat]
    /\ sent \in Seq([table : Tables, upto : Nat])
    /\ unsent \in Seq([table : Tables, upto : Nat])
    /\ position \in Nat \cup {None}
    /\ {since, heard, shown} \subseteq Nat
    /\ wire \in Seq(1..Len(sent))
    /\ stream \in {"closed", "asked", "open"}
    /\ table \in Tables
    /\ timer \in BOOLEAN /\ failed \in BOOLEAN
    /\ fetch \in Nat \cup {None, Requested}
    /\ listener \in {"serving", "draining", "stopped"}

\* A stream brings every change since it began, in order: what falls out of
\* the channel ends it, it never leaves a gap.
NoGaps ==
    stream = "open" =>
        LET coming == <<heard>> \o wire \o (IF position = None THEN <<>> ELSE <<position>>)
        IN  \A k \in 1..Len(coming) - 1 : coming[k + 1] = coming[k] + 1

\* A page at rest shows every record of its table that its stream announced,
\* however announcements, refreshes and reads raced, unless it shows an error.
\* (What was announced while it had no stream, it does not learn of.)
HeardIsShown ==
    stream = "open" /\ ~timer /\ fetch = None /\ ~failed =>
        \A place \in since..heard :
            sent[place].table = table => shown >= sent[place].upto

\* A page never shows more of a table than the table has: no rows of another
\* table arrive late.
ShowsItsTable == shown <= committed[table]

\* All of it at once: a stream brings every change since it began, and a page
\* at rest shows them and never the rows of another table.
LivePageIsCurrent == LiveTypeOK /\ NoGaps /\ HeardIsShown /\ ShowsItsTable

\* Open streams do not keep the listener from stopping.
ShutdownCompletes == listener = "draining" ~> listener = "stopped"

\* What a page heard of comes to be shown: it shows that much, shows an
\* error, turns to another table or loses its server.
HeardComesToShow ==
    \A t \in Tables, n \in 1..MaxCommits :
        (/\ table = t /\ stream = "open" /\ since <= heard
         /\ sent[heard] = [table |-> t, upto |-> n])
            ~> (table # t \/ failed \/ listener = "stopped" \/ shown >= n)

=============================================================================
