---------------------------- MODULE SentryEnvelope ----------------------------
(***************************************************************************)
(* How an envelope of the Sentry protocol is cut into items                *)
(* (parse_envelope, read_line, read_payload, src/src/ingest/sentry.rs).    *)
(*                                                                         *)
(* A body is a sequence of signs: the newline, the letter of a payload,    *)
(* the header of the envelope and headers of items, each one byte long     *)
(* here.  An item header names the length of its payload or leaves it to   *)
(* the next newline.  A client adds items; the body may arrive cut off.    *)
(***************************************************************************)
EXTENDS Naturals, Sequences, FiniteSetsExt

CONSTANTS
    Payloads,     \* payloads a client sends: sequences of signs
    MaxItems,     \* bound: items in an envelope
    None          \* the length of a header without one

VARIABLES
    sent,         \* the items of the client: [framed, payload]
    body,         \* the envelope it makes of them
    bytes,        \* what arrives of it
    cursor,       \* the next byte
    items,        \* the payloads read
    state         \* "client", "header", "items", then "ok" or "bad"

vars == <<sent, body, bytes, cursor, items, state>>

Sign(kind) == [kind |-> kind, length |-> None]
Newline == Sign("newline")
Letter == Sign("letter")
EnvelopeHeader == Sign("envelope")
ItemHeader(length) == [kind |-> "item", length |-> length]
IsItemHeader(line) == Len(line) = 1 /\ line[1].kind = "item"

Signs == [kind : {"newline", "letter", "envelope", "item"}, length : Nat \cup {None}]

EnvelopeAssumption == Payloads \subseteq Seq(Signs) /\ MaxItems \in Nat /\ None \notin Nat

-----------------------------------------------------------------------------
(* The client.                                                             *)

\* The payload of an item without a length is one line, and not empty.
IsLine(payload) == payload # <<>> /\ \A k \in DOMAIN payload : payload[k] # Newline

Item == {item \in [framed : BOOLEAN, payload : Payloads] : item.framed \/ IsLine(item.payload)}

Header(item) == ItemHeader(IF item.framed THEN Len(item.payload) ELSE None)

Framed(item) == <<Header(item), Newline>> \o item.payload \o <<Newline>>

Add(item) ==
    /\ state = "client"
    /\ Len(sent) < MaxItems
    /\ sent' = Append(sent, item)
    /\ body' = body \o Framed(item)
    /\ UNCHANGED <<bytes, cursor, items, state>>

Send(length) ==
    /\ state = "client"
    /\ bytes' = SubSeq(body, 1, length)
    /\ state' = "header"
    /\ UNCHANGED <<sent, body, cursor, items>>

\* The newline at the end of a body may be missing.
IsComplete == state # "client" /\ Len(bytes) >= Len(body) - 1

-----------------------------------------------------------------------------
(* The server.                                                             *)

\* Where a line ends: before its newline, or at the end of the body.
LineEnd(from) ==
    LET newlines == {k \in from..Len(bytes) : bytes[k] = Newline}
    IN  IF newlines = {} THEN Len(bytes) ELSE Min(newlines) - 1

Line == SubSeq(bytes, cursor, LineEnd(cursor))

\* The first byte behind a line and its newline.
Behind(end) == Min({end + 2, Len(bytes) + 1})

Fail ==
    /\ state' = "bad"
    /\ UNCHANGED <<sent, body, bytes, cursor, items>>

ReadEnvelopeHeader ==
    /\ state = "header"
    /\ IF bytes # <<>> /\ Line = <<EnvelopeHeader>>
       THEN /\ cursor' = Behind(LineEnd(cursor))
            /\ state' = "items"
            /\ UNCHANGED <<sent, body, bytes, items>>
       ELSE Fail

Take(from, to) ==
    /\ items' = Append(items, SubSeq(bytes, from, to))
    /\ cursor' = Behind(to)
    /\ state' = "items"
    /\ UNCHANGED <<sent, body, bytes>>

\* A payload of known length, which a newline or the end must follow.
TakeFramed(from, length) ==
    LET end == from + length - 1
    IN  IF end <= Len(bytes) /\ (end = Len(bytes) \/ bytes[end + 1] = Newline)
        THEN Take(from, end)
        ELSE Fail

\* A payload that ends with its line.
TakeLine(from) == IF from > Len(bytes) THEN Fail ELSE Take(from, LineEnd(from))

\* Mutant of TakePayload: the length is not looked at.
TakePayloadLine(from, length) == TakeLine(from)

TakePayload(from, length) ==
    IF length = None THEN TakeLine(from) ELSE TakeFramed(from, length)

ReadItem ==
    /\ state = "items"
    /\ cursor <= Len(bytes)
    /\ IF IsItemHeader(Line) THEN TakePayload(Behind(LineEnd(cursor)), Line[1].length) ELSE Fail

Accept ==
    /\ state = "items"
    /\ cursor > Len(bytes)
    /\ state' = "ok"
    /\ UNCHANGED <<sent, body, bytes, cursor, items>>

Init ==
    /\ sent = <<>>
    /\ body = <<EnvelopeHeader, Newline>>
    /\ bytes = <<>>
    /\ cursor = 1
    /\ items = <<>>
    /\ state = "client"

Client == (\E item \in Item : Add(item)) \/ (\E length \in 0..Len(body) : Send(length))

Server == ReadEnvelopeHeader \/ ReadItem \/ Accept

Next == Client \/ Server

Spec == Init /\ [][Next]_vars

-----------------------------------------------------------------------------
(* Properties.                                                             *)

\* An envelope that arrives complete is cut where its client put it
\* together, whatever the payloads hold: newlines, and text that looks like
\* a header, belong to the payload of a length.
CompleteIsUnderstood ==
    IsComplete =>
        /\ state # "bad"
        /\ state = "ok" => items = [k \in DOMAIN sent |-> sent[k].payload]

\* An envelope that arrives cut off never turns into other items: what is
\* accepted of it are the first items of the client, and only a last one
\* without a length may be shorter than it was sent.
CutIsAPrefix ==
    state = "ok" =>
        /\ Len(items) <= Len(sent)
        /\ \A k \in DOMAIN items :
              \/ items[k] = sent[k].payload
              \/ /\ k = Len(items)
                 /\ ~sent[k].framed
                 /\ items[k] = SubSeq(sent[k].payload, 1, Len(items[k]))

\* An envelope is read as it was sent, or as far as it arrived.
EnvelopeIsUnderstood == CompleteIsUnderstood /\ CutIsAPrefix

=============================================================================
