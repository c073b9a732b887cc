---------------------------- MODULE ProtocolSuite -----------------------------
(***************************************************************************)
(* What a request becomes, in a suite: an envelope that is parsed, an      *)
(* export that is stored under the ids of its items.                       *)
(***************************************************************************)
EXTENDS Suite

CONSTANTS
    Payloads, MaxItems,       \* of envelopes
    Requests, MaxDeliveries   \* exports

VARIABLES
    sent, body, bytes, cursor, items, state,
    saved, delivered, last, deliveries

envelopeVars == <<sent, body, bytes, cursor, items, state>>
exportVars == <<saved, delivered, last, deliveries>>

Parse == INSTANCE SentryEnvelope

Telemetry == INSTANCE TelemetryExport WITH stored <- saved

EnvelopeOff ==
    sent = off /\ body = off /\ bytes = off /\ cursor = off /\ items = off /\ state = off

ExportOff == saved = off /\ delivered = off /\ last = off /\ deliveries = off

\* A complete envelope is cut where its client put it together; what is accepted
\* of one that broke off are the first items of the client.
EnvelopeIsUnderstood == subject = "envelope" => Parse!EnvelopeIsUnderstood

\* Of every item that is not rejected the store has what it says and the errors it
\* brought: the exceptions of a span and the entries of an envelope also where they
\* say the same, a log once however often it is repeated word for word.  Two sources
\* share an id only for one span; an error is never without the span or log it came
\* with.
ExportKeepsItems == subject = "export" => Telemetry!ExportKeepsItems

\* Repeating a request adds nothing.
ExportRepeatAddsNothing ==
    [][subject = "export" => Telemetry!AddsNothing]_<<subject, exportVars>>
=============================================================================
