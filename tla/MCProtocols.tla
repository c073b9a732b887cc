----------------------------- MODULE MCProtocols ------------------------------
(***************************************************************************)
(* What the ingest protocols make of requests, for TLC: cumulative sums,   *)
(* envelopes, the identities of records, the handlers, and the writer in   *)
(* fast mode.  The modules share no state, so that each behaviour is of    *)
(* one of them, its subject, and what the others use is off, or as it is   *)
(* at first.                                                               *)
(***************************************************************************)
EXTENDS CumulativeSums, IngestHandlers, ProtocolSuite

CONSTANTS
    hits, clock, memory       \* a counter, one that hides restarts, one that may fall

VARIABLES
    clients, phase, messages, diagnostics, pc, taken, extra, outcome, visible,
    recoverable, process

writerVars == <<clients, phase, messages, diagnostics, pc, taken, extra, outcome, visible,
                recoverable, process>>
suiteVars == <<subject, vars, envelopeVars, exportVars, handlerVars, writerVars>>

\* What a counter may change by; those that only grow take the naturals.
Steps == {-1, 1, 2}

-----------------------------------------------------------------------------
(* Envelopes: up to three items, empty, plain, with a newline or with what *)
(* looks like the header of an item.                                       *)

Sign(kind) == [kind |-> kind, length |-> None]
Letter == Sign("letter")
Newline == Sign("newline")
Header(length) == [kind |-> "item", length |-> length]

MCPayloads ==
    {<<>>, <<Letter>>, <<Letter, Letter>>, <<Newline>>, <<Letter, Newline, Letter>>,
     <<Header(1)>>, <<Header(None), Newline, Letter>>, <<Newline, Header(1), Newline>>}

-----------------------------------------------------------------------------
(* Exports: valid, invalid and repeated items.                             *)

SpanItem(trace, span, name, end, parent, events) ==
    [kind |-> "span", trace |-> trace, span |-> span, name |-> name, start |-> 1, end |-> end,
     parent |-> parent, events |-> events]
EventItem(exception, at) == [kind |-> "event", exception |-> exception, time |-> at]
LogItem(text, exception) ==
    [kind |-> "log", time |-> 1, severity |-> 9, trace |-> <<0, 5>>, span |-> 2,
     body |-> text, exception |-> exception]
PointItem(type, temporality, at, value) ==
    [kind |-> "point", name |-> "n", type |-> type, temporality |-> temporality,
     attributes |-> 1, start |-> 1, time |-> at, value |-> value, consistent |-> TRUE]
DatadogSpan(high, name, error) ==
    [kind |-> "ddspan", low |-> 5, high |-> high, span |-> 2, name |-> name,
     start |-> 1, end |-> 2, error |-> error, string |-> 1]
Batched(signal, count, entries) ==
    [kind |-> "batch", signal |-> signal, count |-> count, entries |-> entries]
Entry(text) == [kind |-> "entry", time |-> 1, complete |-> TRUE, body |-> text]
SentryEvent(id) == [kind |-> "sentry event", event_id |-> id, time |-> 1]

Otlp(its) == [protocol |-> "otlp", envelope |-> [strings |-> 0], items |-> its]
Datadog(strings, its) ==
    [protocol |-> "ddtrace", envelope |-> [strings |-> strings], items |-> its]
Envelope(sent_at, event_id, its) ==
    [protocol |-> "sentry", envelope |-> [sent_at |-> sent_at, event_id |-> event_id],
     items |-> its]

Traces ==
    {Otlp(<<SpanItem(<<3, 5>>, 2, "s", 2, None, <<EventItem(FALSE, 1), EventItem(TRUE, 1), EventItem(TRUE, 2)>>)>>),
     Otlp(<<SpanItem(<<3, 5>>, 2, "s", 3, 1,
                     <<EventItem(TRUE, 1), EventItem(TRUE, 1), EventItem(TRUE, 1)>>),
            SpanItem(<<0, 5>>, 2, "s", 0, None, <<EventItem(TRUE, 1)>>)>>),
     Otlp(<<SpanItem(<<0, 0>>, 2, "s", 2, None, <<>>),
            SpanItem(<<0, 5>>, 2, "s", 2, 0, <<EventItem(TRUE, 1)>>),
            SpanItem(<<0, 5>>, 1, "s", 2, None, <<>>)>>),
     Datadog(1, <<DatadogSpan(None, "s", TRUE), DatadogSpan(3, "s", TRUE)>>),
     Datadog(1, <<DatadogSpan(3, "", TRUE), DatadogSpan(0, "s", FALSE)>>),
     Datadog(0, <<DatadogSpan(None, "s", FALSE)>>)}

LogsAndMetrics ==
    {Otlp(<<LogItem("a", TRUE), LogItem("a", FALSE), LogItem("b", FALSE)>>),
     Otlp(<<LogItem("a", TRUE), [LogItem("a", TRUE) EXCEPT !.trace = None],
            [LogItem("a", TRUE) EXCEPT !.trace = None, !.span = None]>>),
     Otlp(<<PointItem("sum", "delta", 2, 1), PointItem("sum", "cumulative", 2, 1),
            PointItem("sum", "unspecified", 2, 1), PointItem("gauge", None, 2, 1)>>),
     Otlp(<<PointItem("gauge", None, 2, None), PointItem("gauge", None, 0, 1),
            PointItem("sum", "delta", 2, 3), PointItem("histogram", "delta", 2, None)>>)}

Envelopes ==
    {Envelope(1, None, <<Batched("log", 2, <<Entry("a"), Entry("a")>>),
                       Batched("metric", 1, <<Entry("a")>>)>>),
     Envelope(1, None, <<Batched("log", 1, <<Entry("a"), Entry("b")>>)>>),
     Envelope(2, None, <<Batched("metric", 1, <<Entry("a")>>)>>),
     Envelope(1, 7, <<[SentryEvent(7) EXCEPT !.kind = "event"]>>),
     Envelope(1, None, <<[SentryEvent(8) EXCEPT !.kind = "event"], Batched("log", 1, <<Entry("b")>>)>>),
     Envelope(1, 7, <<[SentryEvent(8) EXCEPT !.kind = "event"]>>),
     Envelope(1, None, <<SentryEvent(None)>>)}

Exports == Traces \cup LogsAndMetrics \cup Envelopes

-----------------------------------------------------------------------------
(* Handlers: of two clients one sends any request, the other a good one.   *)

Sent(protocol, key, envelope_key, media, encoding, text) ==
    [protocol |-> protocol, key |-> key, envelope_key |-> envelope_key,
     media |-> media, encoding |-> encoding, body |-> text]

Key == {"project", "other", "missing"}

AnyRequest ==
    {Sent("sentry", k, e, "right", n, b) :
        k \in Key, e \in Key, n \in {"identity", "unknown", "broken gzip"},
        b \in {"good", "malformed"}}
    \cup {Sent("ddtrace", k, "missing", m, n, b) :
        k \in {"project", "other"}, m \in {"right", "other"},
        n \in {"identity", "unknown"}, b \in {"good", "malformed"}}
    \cup {Sent("otlp", k, "missing", m, n, b) :
        k \in Key, m \in {"right", "other"},
        n \in {"identity", "unknown", "broken gzip"}, b \in {"good", "malformed", "empty"}}

Plain == Sent("otlp", "project", "missing", "right", "identity", "good")
GoodRequest == {Plain, Sent("sentry", "missing", "project", "right", "identity", "good")}

MCRequestsOf == <<AnyRequest, GoodRequest>>

-----------------------------------------------------------------------------
(* The writer in fast mode: three batches, two of which share a record.    *)

Writer == INSTANCE IngestWriter WITH
    Batches <- {"small", "large", "lone"}, Records <- 1..3,
    RecordsOf <- [small |-> {1}, large |-> {1, 2}, lone |-> {3}],
    QueueCapacity <- 2, MaxBatchMessages <- 2, CallsFail <- FALSE, Crashes <- FALSE,
    MaxAttempts <- 1, MaxFailures <- 0, queue <- messages, db <- visible

ASSUME Parse!EnvelopeAssumption
ASSUME Writer!IngestAssumption
ASSUME HandlerAssumption
ASSUME Telemetry!ExportAssumption

-----------------------------------------------------------------------------

WriterOff ==
    /\ clients = off /\ phase = off /\ messages = off /\ diagnostics = off /\ pc = off
    /\ taken = off /\ extra = off /\ outcome = off /\ visible = off /\ recoverable = off
    /\ process = off

SuiteInit ==
    /\ \/ subject \in {"sums", "handlers"} /\ EnvelopeOff /\ ExportOff /\ WriterOff
       \/ subject = "envelope" /\ Parse!Init /\ ExportOff /\ WriterOff
       \/ subject = "export" /\ EnvelopeOff /\ Telemetry!Init /\ WriterOff
       \/ subject = "writer" /\ EnvelopeOff /\ ExportOff /\ Writer!Init
    /\ Init
    /\ HandlersInit
    /\ subject # "handlers" => request = [c \in Clients |-> Plain] /\ durability = "fast"

SuiteNext ==
    /\ \/ /\ subject = "sums" /\ Next
          /\ UNCHANGED <<envelopeVars, exportVars, handlerVars, writerVars>>
       \/ /\ subject = "envelope" /\ Parse!Next
          /\ UNCHANGED <<vars, exportVars, handlerVars, writerVars>>
       \/ /\ subject = "export" /\ Telemetry!Next
          /\ UNCHANGED <<vars, envelopeVars, handlerVars, writerVars>>
       \/ /\ subject = "handlers" /\ HandlersNext
          /\ UNCHANGED <<vars, envelopeVars, exportVars, writerVars>>
       \/ /\ subject = "writer" /\ Writer!Next
          /\ UNCHANGED <<vars, envelopeVars, exportVars, handlerVars>>
    /\ UNCHANGED subject

SuiteSpec == SuiteInit /\ [][SuiteNext]_suiteVars

-----------------------------------------------------------------------------

\* In fast mode a normal shutdown leaves every accepted batch on disk.
WriterShutdownFlushes == subject = "writer" => Writer!WriterShutdownFlushes
=============================================================================
