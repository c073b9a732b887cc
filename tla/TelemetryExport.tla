---------------------------- MODULE TelemetryExport ---------------------------
(***************************************************************************)
(* From the items of a request to the records of the store, for the three  *)
(* ingest protocols (src/src/ingest): which items are rejected, which take *)
(* the whole request down, the error records that spans and logs bring     *)
(* along, and above all the ids, which decide what a repeated request, or  *)
(* the same span over two protocols, adds to the store.                    *)
(*                                                                         *)
(* A request is [protocol, envelope, items]; envelope is what the items    *)
(* share: the header of a Sentry envelope, the dictionary of a v0.5 DDTrace*)
(* request.  A hash is the tuple of what goes into it.                     *)
(***************************************************************************)
EXTENDS Integers, Sequences, FiniteSets

CONSTANTS
    Requests,
    None,
    MaxDeliveries     \* bound: requests that reach the writer

\* Requests have items, and items the fields of their kind; a trace id of OTLP
\* has an upper and a lower half.
OtlpItemFits(item) ==
    CASE item.kind = "span" ->
            /\ item.trace = <<item.trace[1], item.trace[2]>>
            /\ IsFiniteSet(DOMAIN item.events)
            /\ \A k \in DOMAIN item.events : item.events[k].kind = "event"
      [] item.kind = "log" ->
            item = [kind |-> "log", time |-> item.time, severity |-> item.severity,
                    trace |-> item.trace, span |-> item.span, body |-> item.body,
                    exception |-> item.exception]
      [] OTHER -> item.kind = "point"

SentryItemFits(item) ==
    item.kind = "batch" => item.signal \in {"log", "metric"} /\ IsFiniteSet(DOMAIN item.entries)

ExportAssumption ==
    \A request \in Requests :
        /\ Len(request.items) \in Nat /\ DOMAIN request.items = 1..Len(request.items)
        /\ request.protocol \in {"otlp", "ddtrace", "sentry"}
        /\ \A k \in DOMAIN request.items :
              CASE request.protocol = "otlp" -> OtlpItemFits(request.items[k])
                [] request.protocol = "ddtrace" -> request.items[k].kind = "ddspan"
                [] request.protocol = "sentry" -> SentryItemFits(request.items[k])

VARIABLES
    stored,           \* records: [source, id, signal, parent, item]
    delivered,        \* the requests answered with success
    last,             \* the request of the last step
    deliveries

vars == <<stored, delivered, last, deliveries>>

Record(source, id, signal, parent, item) ==
    [source |-> source, id |-> id, signal |-> signal, parent |-> parent, item |-> item]

\* The records of an item are a set: their ids differ, and the store does not
\* go by their order.  A rejected item has none.
Rejected == {}

-----------------------------------------------------------------------------
(* OTLP.                                                                   *)

Zero == <<0, 0>>
ExceptionsOf(span) == {k \in DOMAIN span.events : span.events[k].exception}

SpanId(span) == [trace |-> span.trace, span |-> span.span]

OtlpSpanIsValid(span) ==
    /\ span.trace # Zero /\ span.span # 0 /\ span.name # ""
    /\ span.start <= span.end
    /\ span.parent # 0

\* Mutant of OtlpSpanErrors: exceptions are known by their time alone.
OtlpSpanErrorsByTime(span) ==
    {Record("otlp", [of |-> SpanId(span), time |-> span.events[k].time],
            "error", SpanId(span), span.events[k]) : k \in ExceptionsOf(span)}

\* The position among all events is part of the id.
OtlpSpanErrors(span) ==
    {Record("otlp", [of |-> SpanId(span), time |-> span.events[k].time, at |-> k],
            "error", SpanId(span), span.events[k]) : k \in ExceptionsOf(span)}

\* A span and its exceptions.
OtlpSpanRecords(span) ==
    IF OtlpSpanIsValid(span)
    THEN {Record("otlp", SpanId(span), "trace", None, span)} \cup OtlpSpanErrors(span)
    ELSE Rejected

OtlpLogIsValid(log) ==
    /\ log.trace # Zero
    /\ log.span = None \/ (log.span # 0 /\ log.trace # None)
    /\ log.severity \in 0..24

\* Mutant of LogId: the hash takes in when the request came.
LogIdWithReceipt(log) ==
    [log |-> <<log.time, log.severity, log.trace, log.span, log.body, log.exception, deliveries>>]

\* The hash of everything a log holds.
LogId(log) ==
    [log |-> <<log.time, log.severity, log.trace, log.span, log.body, log.exception>>]

OtlpLogRecords(log) ==
    IF ~OtlpLogIsValid(log) THEN Rejected
    ELSE {Record("otlp", LogId(log), "log", None, log)} \cup
         (IF log.exception
          THEN {Record("otlp", [of |-> LogId(log)], "error", LogId(log), log)}
          ELSE {})

\* A point whose data do not fit together is given the time zero, which no
\* point may have.
PointTime(point) ==
    IF \/ point.type \in {"sum", "histogram", "exponential_histogram"}
          /\ point.temporality \notin {"delta", "cumulative"}
       \/ ~point.consistent
    THEN 0 ELSE point.time

StreamId(point) == <<point.name, point.type, point.temporality, point.attributes>>

MetricRecords(point) ==
    IF \/ point.name = "" \/ PointTime(point) = 0 \/ point.start > PointTime(point)
       \/ point.type \in {"gauge", "sum"} /\ point.value = None
    THEN Rejected
    ELSE {Record("otlp",
                 [stream |-> StreamId(point), start |-> point.start, time |-> PointTime(point)],
                 "metric", None, point)}

OtlpRecords(item) ==
    CASE item.kind = "span" -> OtlpSpanRecords(item)
      [] item.kind = "log" -> OtlpLogRecords(item)
      [] item.kind = "point" -> MetricRecords(item)

-----------------------------------------------------------------------------
(* DDTrace.                                                                *)

\* The trace id has the upper half that the span names, if it names one.
DatadogTrace(span) == IF span.high = None THEN <<span.low>> ELSE <<span.high, span.low>>

DatadogSpanRecords(span) ==
    LET id == [trace |-> DatadogTrace(span), span |-> span.span]
    IN  IF \/ span.low = 0 \/ span.span = 0 \/ span.name = ""
           \/ span.start < 0 \/ span.end < span.start
        THEN Rejected
        ELSE {Record("ddtrace", id, "trace", None, span)} \cup
             (IF span.error
              THEN {Record("ddtrace", [of |-> id], "error", id, span)}
              ELSE {})

\* A string that a v0.5 request does not have in its dictionary spoils it.
DictionaryHolds(request) ==
    \A k \in DOMAIN request.items : request.items[k].string <= request.envelope.strings

-----------------------------------------------------------------------------
(* Sentry.  Any fault of an item spoils the envelope.                      *)

EventId(envelope, event) == IF envelope.event_id # None THEN envelope.event_id ELSE event.event_id

EventIsValid(envelope, event) ==
    /\ EventId(envelope, event) # None
    /\ envelope.event_id # None /\ event.event_id # None => envelope.event_id = event.event_id
    /\ event.time >= 0

BatchIsValid(batch) ==
    /\ batch.count = Len(batch.entries)
    /\ \A k \in DOMAIN batch.entries : batch.entries[k].time >= 0 /\ batch.entries[k].complete

\* The hash of the envelope's header, the item's header, both positions and
\* the entry.
EntryId(envelope, batch, index, k) ==
    [envelope |-> envelope, header |-> <<batch.signal, batch.count>>, place |-> <<index, k>>,
     entry |-> batch.entries[k]]

SentryRecords(envelope, item, index) ==
    CASE item.kind = "event" ->
            {Record("sentry", [event |-> EventId(envelope, item)], "error", None, item)}
      [] item.kind = "batch" ->
            {Record("sentry", EntryId(envelope, item, index, k), item.signal, None,
                    item.entries[k]) : k \in DOMAIN item.entries}
      [] OTHER -> {}

SentryIsValid(request) ==
    \A k \in DOMAIN request.items :
        LET item == request.items[k]
        IN  CASE item.kind = "event" -> EventIsValid(request.envelope, item)
              [] item.kind = "batch" -> BatchIsValid(item)
              [] OTHER -> TRUE

-----------------------------------------------------------------------------
(* Every protocol.                                                         *)

IsValid(request) ==
    CASE request.protocol = "sentry" -> SentryIsValid(request)
      [] request.protocol = "ddtrace" -> DictionaryHolds(request)
      [] request.protocol = "otlp" -> TRUE

RecordsOf(request, k) ==
    CASE request.protocol = "sentry" -> SentryRecords(request.envelope, request.items[k], k)
      [] request.protocol = "ddtrace" -> DatadogSpanRecords(request.items[k])
      [] request.protocol = "otlp" -> OtlpRecords(request.items[k])

Known(records, r) == \E s \in records : s.source = r.source /\ s.id = r.id

New(request) ==
    {r \in UNION {RecordsOf(request, k) : k \in DOMAIN request.items} : ~Known(stored, r)}

\* Of records with one id of their source the store takes one: the one with the
\* earliest time, any of them here.
OneOfEach(taken, records) ==
    /\ \A r \in records : Known(taken, r)
    /\ \A r, s \in taken : r.source = s.source /\ r.id = s.id => r = s

Deliver(request) ==
    /\ deliveries < MaxDeliveries
    /\ IsValid(request)
    /\ \E taken \in SUBSET New(request) :
          /\ OneOfEach(taken, New(request))
          /\ stored' = stored \cup taken
    /\ delivered' = delivered \cup {request}
    /\ last' = request
    /\ deliveries' = deliveries + 1

\* The request is refused, and sent again later or never.
Refuse(request) ==
    /\ ~IsValid(request)
    /\ last' = request
    /\ UNCHANGED <<stored, delivered, deliveries>>

Init ==
    /\ stored = {}
    /\ delivered = {}
    /\ last = None
    /\ deliveries = 0

Next == \E request \in Requests : Deliver(request) \/ Refuse(request)

Spec == Init /\ [][Next]_vars

-----------------------------------------------------------------------------
(* Properties.                                                             *)

\* An error that came with a span or a log is never without it: the record
\* it names as its source is in the store as well.
ErrorsHaveTheirSource ==
    \A r \in stored : r.parent # None =>
        \E s \in stored : s.source = r.source /\ s.id = r.parent /\ s.signal # "error"

\* Repeating a request, whatever was delivered in between, adds nothing.
AddsNothing == last' \in delivered => stored' = stored

ExportRepeatAddsNothing == [][AddsNothing]_vars

\* What may stand for an item in the store: for a span its trace and number,
\* for a point its stream and times, for a log or an entry only itself.
SameItem(x, y) ==
    \/ x = y
    \/ /\ x.kind = y.kind
       /\ \/ x.kind = "span" /\ x.trace = y.trace /\ x.span = y.span
          \/ /\ x.kind = "point"
             /\ <<x.name, x.type, x.temporality, x.attributes, x.start, x.time>>
                   = <<y.name, y.type, y.temporality, y.attributes, y.start, y.time>>
          \/ x.kind = "ddspan" /\ x.low = y.low /\ x.span = y.span /\ x.high = y.high

\* A stored record s has what record r says: it is of the same signal and came
\* with the same span or log; an event of Sentry is known by its event id, an
\* exception of a span by its time, anything else by its item.
StandsFor(s, r) ==
    /\ s.source = r.source /\ s.signal = r.signal /\ s.parent = r.parent
    /\ IF r.signal = "error" /\ r.source = "sentry" THEN s.id.event = r.id.event
       ELSE IF r.signal = "error" /\ r.item.kind = "event" THEN s.item.time = r.item.time
       ELSE SameItem(s.item, r.item)

\* No accepted item is lost to another that happens to look alike: each record it
\* yields, its errors included, is in the store, or one that stands for it.  Two
\* logs that say the same in everything share one.
NoItemIsLost ==
    \A request \in delivered : \A k \in DOMAIN request.items :
        \A r \in RecordsOf(request, k) : \E s \in stored : StandsFor(s, r)

\* The exceptions of a span at one time are as many in the store as in any
\* accepted request, or more.
ExceptionsAreCounted ==
    \A request \in delivered : request.protocol = "otlp" =>
        \A k \in DOMAIN request.items :
            LET span == request.items[k]
            IN  span.kind = "span" /\ OtlpSpanIsValid(span) =>
                    \A j \in ExceptionsOf(span) :
                        Cardinality({i \in ExceptionsOf(span) :
                                        span.events[i].time = span.events[j].time}) <=
                            Cardinality({r \in stored :
                                /\ r.source = "otlp" /\ r.signal = "error"
                                /\ r.parent = SpanId(span)
                                /\ r.item.time = span.events[j].time})

\* The entries of a Sentry envelope, as places in it, that say the same.
Repeated(request, signal, entry) ==
    UNION {{<<k, j>> : j \in {i \in DOMAIN request.items[k].entries :
                                 request.items[k].entries[i] = entry}} :
           k \in {i \in DOMAIN request.items : /\ request.items[i].kind = "batch"
                                              /\ request.items[i].signal = signal}}

\* Entries that say the same are as many in the store as in any envelope that
\* was accepted, or more.
EntriesAreCounted ==
    \A request \in delivered : request.protocol = "sentry" =>
        \A k \in DOMAIN request.items : request.items[k].kind = "batch" =>
            \A j \in DOMAIN request.items[k].entries :
                LET signal == request.items[k].signal
                    entry == request.items[k].entries[j]
                IN  Cardinality(Repeated(request, signal, entry)) <=
                        Cardinality({r \in stored : r.source = "sentry" /\ r.signal = signal
                                                      /\ r.item = entry})

\* Records of different sources share an id, and with it their entry in the
\* index of ids, only if they are one span, sent over OTLP and over DDTrace with
\* its full trace id.
SharedIdIsOneSpan ==
    \A r, s \in stored : r.id = s.id /\ r # s =>
        /\ {r.source, s.source} = {"otlp", "ddtrace"}
        /\ r.signal = "trace" /\ s.signal = "trace"
        /\ r.source = "ddtrace" => /\ s.item.trace = <<r.item.high, r.item.low>>
                                   /\ s.item.span = r.item.span

\* All of it: what is accepted is stored, what is stored is what was sent.
ExportKeepsItems ==
    /\ NoItemIsLost /\ ExceptionsAreCounted /\ EntriesAreCounted
    /\ SharedIdIsOneSpan /\ ErrorsHaveTheirSource

=============================================================================
