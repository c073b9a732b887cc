--------------------------- MODULE ProtocolProofs ----------------------------
(***************************************************************************)
(* Theorems about the ingest protocols.  IngestHandlers, for every set of  *)
(* clients and every request they may send: whatever the order of lookups, *)
(* hand-overs, writes, disconnects and the removal of the project.         *)
(* TelemetryExport, for all requests: what becomes of their items.         *)
(* SentryEnvelope, for all payloads: how a body is cut into them.          *)
(***************************************************************************)
EXTENDS IngestHandlers, ProtocolSuite, FiniteSetTheorems, FunctionTheorems,
    SequenceTheorems, TLAPS

-----------------------------------------------------------------------------
(* The handlers.                                                           *)

\* Why these hold.  A handler that goes on has found the right key so far, a
\* batch that was let in has no other, it is queued or stored once its handler
\* has no answer of its own to give, and the answer tells which.  Only in fast
\* mode is a request answered while its batch is queued.
Stages == {"sent", "known", "parsed", "waiting", "answered", "abandoned"}

KeysFit(r) == Keys(r) \ {"missing"} = {"project"}

ClientInv(c) ==
    /\ stage[c] = "known" =>
          /\ ~Wrong(request[c].key)
          /\ request[c].protocol # "sentry" => request[c].key = "project"
    /\ stage[c] \in {"parsed", "waiting"} \/ c \in queue \cup stored =>
          KeysFit(request[c])
    /\ status[c] # 0 => stage[c] = "answered"
    /\ c \in queue => /\ c \notin stored
                      /\ \/ stage[c] \in {"waiting", "abandoned"}
                         \/ /\ stage[c] = "answered" /\ status[c] = 200
                            /\ durability = "fast"
    /\ c \in stored => stage[c] \in {"answered", "abandoned"} /\ status[c] \in {0, 200}
    /\ status[c] = 200 =>
          \/ c \in stored \/ request[c].body = "empty" \/ project # "active"
          \/ durability = "fast" /\ c \in queue \cup failed

HandlerInv ==
    /\ project \in {"active", "deleting", "gone"}
    /\ request \in [Clients -> Request]
    /\ durability \in {"safe", "fast"}
    /\ stage \in [Clients -> Stages]
    /\ status \in [Clients -> Nat]
    /\ queue \subseteq Clients /\ stored \subseteq Clients
    /\ \A c \in Clients : ClientInv(c)

\* At first every request is only sent.
LEMMA InitHandlers == HandlerAssumption /\ HandlersInit => HandlerInv
<1> SUFFICES ASSUME HandlerAssumption, HandlersInit  PROVE HandlerInv
  OBVIOUS
<1>1. request \in [Clients -> Request]
  BY DEF HandlerAssumption, HandlersInit
<1> QED
  BY <1>1 DEF HandlersInit, HandlerInv, ClientInv, Stages

\* What a handler does to its own client; nobody else is concerned.
LEMMA OneClient ==
  ASSUME HandlerInv, NEW c \in Clients,
         UNCHANGED <<durability, project, request>>,
         NEW s \in Stages, stage' = [stage EXCEPT ![c] = s],
         NEW n \in Nat, status' = [status EXCEPT ![c] = n],
         queue' \subseteq Clients, stored' \subseteq Clients,
         \A d \in Clients \ {c} : (d \in queue' <=> d \in queue)
                                  /\ (d \in stored' <=> d \in stored),
         failed \subseteq failed',
         ClientInv(c)'
  PROVE  HandlerInv'
<1>1. \A d \in Clients \ {c} : stage'[d] = stage[d] /\ status'[d] = status[d]
  BY DEF HandlerInv
<1>2. \A d \in Clients \ {c} : ClientInv(d)'
  BY <1>1 DEF HandlerInv, ClientInv
<1> QED
  BY <1>2 DEF HandlerInv

\* An answer that is an error, or the success of an empty request, to a
\* request that was not handed over.
LEMMA AnswerKeeps ==
  ASSUME HandlerInv, NEW c \in Clients, NEW n \in Nat \ {0}, Answer(c, n),
         n = 200 => request[c].body = "empty",
         stage[c] \in {"sent", "known", "parsed"},
         UNCHANGED <<durability, project, request, queue, stored, failed>>
  PROVE  HandlerInv'
<1>1. c \notin queue \cup stored
  BY DEF HandlerInv, ClientInv
<1>2. stage'[c] = "answered" /\ status'[c] = n
  BY DEF Answer, HandlerInv
<1>3. ClientInv(c)'
  BY <1>1, <1>2 DEF ClientInv
<1> QED
  BY <1>3, OneClient DEF Answer, Stages, HandlerInv

\* A handler goes on when the key, as far as it has come, is right.
LEMMA ContinueKeeps ==
  ASSUME HandlerInv, NEW c \in Clients, stage[c] \in {"sent", "known"},
         NEW to \in {"known", "parsed"}, Continue(c, to),
         UNCHANGED durability,
         to = "known" => /\ ~Wrong(request[c].key)
                         /\ request[c].protocol # "sentry" => request[c].key = "project",
         to = "parsed" => KeysFit(request[c])
  PROVE  HandlerInv'
<1>1. c \notin queue \cup stored /\ status[c] = 0
  BY DEF HandlerInv, ClientInv
<1>2. stage'[c] = to /\ status'[c] = status[c]
  BY DEF Continue, HandlerInv
<1>3. ClientInv(c)'
  BY <1>1, <1>2 DEF ClientInv, Continue
<1>4. status' = [status EXCEPT ![c] = status[c]] /\ status[c] \in Nat
  BY DEF Continue, HandlerInv
<1> QED
  BY <1>3, <1>4, OneClient DEF Continue, Stages, HandlerInv

\* The checks of the three protocols.
LEMMA ChecksKeep ==
  ASSUME HandlerInv, NEW c \in Clients, UNCHANGED durability,
         SentryProject(c) \/ SentryBody(c) \/ DatadogProject(c) \/ DatadogBody(c)
           \/ OtlpProject(c) \/ OtlpBody(c) \/ LookupFails(c)
  PROVE  HandlerInv'
<1>1. request[c] \in Request
  BY DEF HandlerInv
<1>2. ASSUME NEW n \in Nat \ {0}, TurnAway(c, n), stage[c] \in {"sent", "known"},
             n = 200 => request[c].body = "empty"
      PROVE  HandlerInv'
  BY <1>2, AnswerKeeps DEF TurnAway
<1>3. ASSUME NEW n \in Nat \ {0, 200}, NEW reason, Refuse(c, n, reason),
             stage[c] \in {"sent", "known"}
      PROVE  HandlerInv'
  BY <1>3, AnswerKeeps DEF Refuse
<1>4. CASE SentryProject(c)
  <2>1. \/ TurnAway(c, 403)
        \/ Refuse(c, 403, "unauthorized")
        \/ ~Wrong(request[c].key) /\ Continue(c, "known")
    BY <1>4 DEF SentryProject
  <2>2. stage[c] = "sent" /\ request[c].protocol = "sentry"
    BY <1>4 DEF SentryProject
  <2> QED  BY <1>2, <1>3, <2>1, <2>2, ContinueKeeps
<1>5. CASE SentryBody(c)
  <2>1. stage[c] = "known" /\ ~Wrong(request[c].key) /\ request[c].protocol = "sentry"
    BY <1>5 DEF SentryBody, HandlerInv, ClientInv
  <2>2. SentryKeysAgree(request[c]) => KeysFit(request[c])
    BY <1>1, <2>1 DEF SentryKeysAgree, KeysFit, Keys, Wrong, Request
  <2>3. \/ Refuse(c, 400, "malformed")
        \/ Refuse(c, 403, "unauthorized")
        \/ SentryKeysAgree(request[c]) /\ Continue(c, "parsed")
    BY <1>5 DEF SentryBody
  <2> QED  BY <1>3, <2>1, <2>2, <2>3, ContinueKeeps
<1>6. ASSUME request[c].protocol # "sentry", stage[c] = "known"
      PROVE  KeysFit(request[c])
  <2>1. request[c].key = "project"
    BY <1>6 DEF HandlerInv, ClientInv
  <2> QED  BY <1>6, <2>1 DEF KeysFit, Keys
<1>7. CASE DatadogProject(c) \/ OtlpProject(c)
  <2>1. \/ TurnAway(c, 415)
        \/ Refuse(c, 403, "unauthorized")
        \/ Refuse(c, 401, "unauthorized")
        \/ request[c].key = "project" /\ Continue(c, "known")
    BY <1>7 DEF DatadogProject, OtlpProject
  <2>2. stage[c] = "sent"
    BY <1>7 DEF DatadogProject, OtlpProject
  <2>3. request[c].key = "project" => ~Wrong(request[c].key)
    BY DEF Wrong
  <2> QED  BY <1>2, <1>3, <2>1, <2>2, <2>3, ContinueKeeps
<1>8. CASE DatadogBody(c) \/ OtlpBody(c)
  <2>1. \/ TurnAway(c, 415)
        \/ TurnAway(c, 400)
        \/ Refuse(c, 400, "malformed")
        \/ request[c].body = "empty" /\ TurnAway(c, 200)
        \/ Continue(c, "parsed")
    BY <1>8 DEF DatadogBody, OtlpBody
  <2>2. stage[c] = "known" /\ request[c].protocol # "sentry"
    BY <1>8 DEF DatadogBody, OtlpBody
  <2> QED  BY <1>2, <1>3, <1>6, <2>1, <2>2, ContinueKeeps
<1>9. CASE LookupFails(c)
  <2>1. stage[c] = "sent" /\ (TurnAway(c, 400) \/ TurnAway(c, 500))
    BY <1>9 DEF LookupFails
  <2> QED  BY <1>2, <2>1
<1> QED
  BY <1>4, <1>5, <1>7, <1>8, <1>9

\* The hand-over to the writer, its refusals, and a client that hangs up.
LEMMA SubmitKeeps ==
  ASSUME HandlerInv, NEW c \in Clients, UNCHANGED durability,
         Submit(c) \/ SubmitFull(c) \/ SubmitClosed(c) \/ Disconnect(c)
  PROVE  HandlerInv'
<1>1. CASE Submit(c)
  <2>1. /\ KeysFit(request[c]) /\ status[c] = 0 /\ c \notin stored
        /\ UNCHANGED <<project, request, stored, failed>>
        /\ queue' = queue \cup {c}
    BY <1>1 DEF Submit, Enqueue, HandlerInv, ClientInv
  <2>2. PICK s \in {"waiting", "answered"}, n \in {0, 200} :
           /\ stage' = [stage EXCEPT ![c] = s] /\ stage'[c] = s
           /\ status' = [status EXCEPT ![c] = n] /\ status'[c] = n
           /\ \/ s = "waiting" /\ n = 0
              \/ s = "answered" /\ n = 200 /\ durability = "fast"
    <3>1. CASE durability = "safe"
      <4>1. stage' = [stage EXCEPT ![c] = "waiting"] /\ stage'[c] = "waiting"
            /\ status' = status
        BY <1>1, <3>1 DEF Submit, HandlerInv
      <4>2. status' = [status EXCEPT ![c] = 0] /\ status'[c] = 0
        BY <2>1, <4>1 DEF HandlerInv
      <4> QED  BY <4>1, <4>2
    <3>2. CASE durability = "fast"
      <4>1. Answer(c, 200)  BY <1>1, <3>2 DEF Submit
      <4> QED  BY <3>2, <4>1 DEF Answer, HandlerInv
    <3> QED  BY <3>1, <3>2 DEF HandlerInv
  <2>3. ClientInv(c)'
    BY <2>1, <2>2 DEF ClientInv
  <2> QED
    BY <2>1, <2>2, <2>3, OneClient DEF Stages, HandlerInv
<1>2. CASE SubmitFull(c) \/ SubmitClosed(c)
  BY <1>2, AnswerKeeps DEF SubmitFull, SubmitClosed, Refuse, TurnAway
<1>3. CASE Disconnect(c)
  <2>1. /\ status[c] = 0 /\ c \notin stored /\ (c \in queue => KeysFit(request[c]))
        /\ UNCHANGED <<project, request, status, queue, stored, failed>>
        /\ stage' = [stage EXCEPT ![c] = "abandoned"] /\ stage'[c] = "abandoned"
    BY <1>3 DEF Disconnect, HandlerInv, ClientInv
  <2>2. ClientInv(c)'
    BY <2>1 DEF ClientInv
  <2>3. status' = [status EXCEPT ![c] = status[c]] /\ status[c] \in Nat
    BY <2>1 DEF HandlerInv
  <2> QED
    BY <2>1, <2>2, <2>3, OneClient DEF Stages, HandlerInv
<1> QED  BY <1>1, <1>2, <1>3

\* The writer writes a batch or fails to, and answers who still waits.
LEMMA WriteKeeps ==
  ASSUME HandlerInv, NEW c \in Clients, UNCHANGED durability, Write(c) \/ WriteFails(c)
  PROVE  HandlerInv'
<1>1. /\ c \in queue /\ c \notin stored /\ KeysFit(request[c])
      /\ \/ stage[c] \in {"waiting", "abandoned"} /\ status[c] = 0
         \/ stage[c] = "answered" /\ status[c] = 200 /\ durability = "fast"
      /\ UNCHANGED <<project, request>> /\ queue' = queue \ {c}
  BY DEF Write, WriteFails, HandlerInv, ClientInv
<1>2. PICK n \in {200, 500} :
         /\ Reply(c, n)
         /\ stored' = IF n = 200 THEN Written(c) ELSE stored
         /\ failed' = IF n = 200 THEN failed ELSE failed \cup {c}
  <2>1. CASE Write(c)  BY <2>1 DEF Write
  <2>2. CASE WriteFails(c)  BY <2>2 DEF WriteFails
  <2> QED  BY <2>1, <2>2
<1>3. PICK s \in {"answered", "abandoned"}, m \in {0, 200, 500} :
         /\ stage' = [stage EXCEPT ![c] = s] /\ stage'[c] = s
         /\ status' = [status EXCEPT ![c] = m] /\ status'[c] = m
         /\ \/ s = "answered" /\ m = n
            \/ s = "abandoned" /\ m = 0
            \/ s = "answered" /\ m = 200 /\ durability = "fast"
  <2>1. CASE stage[c] = "waiting"
    BY <1>2, <2>1 DEF Reply, Answer, HandlerInv
  <2>2. CASE stage[c] # "waiting"
    <3>1. stage' = [stage EXCEPT ![c] = stage[c]] /\ status' = [status EXCEPT ![c] = status[c]]
          /\ stage'[c] = stage[c] /\ status'[c] = status[c]
      BY <1>2, <2>2 DEF Reply, HandlerInv
    <3>2. CASE stage[c] = "abandoned" /\ status[c] = 0
      <4>1. /\ stage' = [stage EXCEPT ![c] = "abandoned"] /\ stage'[c] = "abandoned"
            /\ status' = [status EXCEPT ![c] = 0] /\ status'[c] = 0
        BY <3>1, <3>2
      <4> QED  BY <4>1
    <3>3. CASE stage[c] = "answered" /\ status[c] = 200 /\ durability = "fast"
      <4>1. /\ stage' = [stage EXCEPT ![c] = "answered"] /\ stage'[c] = "answered"
            /\ status' = [status EXCEPT ![c] = 200] /\ status'[c] = 200
        BY <3>1, <3>3
      <4> QED  BY <3>3, <4>1
    <3> QED  BY <1>1, <2>2, <3>2, <3>3
  <2> QED  BY <2>1, <2>2
<1>4. /\ stored' \subseteq Clients /\ (c \in stored' => n = 200)
      /\ (n = 200 /\ project = "active" => c \in stored')
      /\ (n = 500 => c \in failed')
      /\ \A d \in Clients \ {c} : d \in stored' <=> d \in stored
  BY <1>1, <1>2 DEF Written, HandlerInv
<1>5. ClientInv(c)'
  BY <1>1, <1>3, <1>4 DEF ClientInv
<1>6. queue' \subseteq Clients /\ failed \subseteq failed'
      /\ \A d \in Clients \ {c} : (d \in queue' <=> d \in queue)
                                  /\ (d \in stored' <=> d \in stored)
  BY <1>1, <1>2, <1>4 DEF HandlerInv
<1>7. s \in Stages /\ m \in Nat /\ UNCHANGED <<durability, project, request>>
  BY <1>1 DEF Stages
<1> QED
  BY <1>3, <1>4, <1>5, <1>6, <1>7, OneClient

\* Every step of handlers, writer and removal keeps the invariant.
LEMMA NextHandlers == HandlerInv /\ [HandlersNext]_handlerVars => HandlerInv'
<1> SUFFICES ASSUME HandlerInv, [HandlersNext]_handlerVars  PROVE HandlerInv'
  OBVIOUS
<1>1. ASSUME NEW c \in Clients, Handle(c), UNCHANGED durability  PROVE HandlerInv'
  BY <1>1, ChecksKeep, SubmitKeeps, WriteKeeps DEF Handle
<1>2. CASE (BeginRemoval \/ FinishRemoval) /\ UNCHANGED durability
  <2>1. /\ UNCHANGED <<durability, request, stage, status, queue, failed>>
        /\ stored' \subseteq stored
        /\ project' \in {"deleting", "gone"}
    BY <1>2 DEF BeginRemoval, FinishRemoval
  <2> QED  BY <2>1 DEF HandlerInv, ClientInv
<1>3. CASE UNCHANGED handlerVars
  BY <1>3 DEF handlerVars, HandlerInv, ClientInv
<1> QED  BY <1>1, <1>2, <1>3 DEF HandlersNext

\* The invariant holds in every reachable state.
LEMMA HandlerInvariant == ASSUME HandlerAssumption PROVE HandlersSpec => []HandlerInv
<1>1. HandlersInit => HandlerInv  BY InitHandlers
<1> QED  BY <1>1, NextHandlers, PTL DEF HandlersSpec

\* Nothing is stored that came with the key of another project, or with none,
\* in any place where its protocol carries keys.
THEOREM StoredHasItsKey == ASSUME HandlerAssumption PROVE HandlersSpec => []OnlyWithItsKey
<1>1. HandlerInv => OnlyWithItsKey
  BY DEF HandlerInv, ClientInv, KeysFit, OnlyWithItsKey
<1> QED  BY <1>1, HandlerInvariant, PTL

\* Answers are true, in safe and in fast mode: a refused request leaves nothing
\* behind; what a success speaks of is stored until the project is removed, or, in
\* fast mode only, still queued or among the writes that are counted as failed.
THEOREM AnswersAreTrue ==
  ASSUME HandlerAssumption PROVE HandlersSpec => []HandlersAnswerTruly
<1>1. HandlerInv => RefusedIsNotStored
  <2> SUFFICES ASSUME HandlerInv, NEW c \in Clients, status[c] \in 400..499 \cup {503}
               PROVE  c \notin stored \cup queue
    BY DEF RefusedIsNotStored
  <2>1. status[c] # 0 /\ status[c] # 200  OBVIOUS
  <2>2. stage[c] = "answered"
    BY <2>1 DEF HandlerInv, ClientInv
  <2> QED  BY <2>1, <2>2 DEF HandlerInv, ClientInv
<1>2. HandlerInv => SuccessIsTrue
  BY DEF HandlerInv, ClientInv, SuccessIsTrue
<1>3. OnlyWithItsKey /\ RefusedIsNotStored /\ SuccessIsTrue => HandlersAnswerTruly
  BY DEF HandlersAnswerTruly
<1> QED  BY <1>1, <1>2, <1>3, StoredHasItsKey, HandlerInvariant, PTL

\* Once the removal of a project has begun, nothing is added to it: the writer
\* reads the project again before it writes, and a removal is never taken back.
THEOREM RemovedProjectsGetNothing == HandlersSpec => HandlersNothingAfterRemoval
<1>1. [HandlersNext]_handlerVars => [AddsNothing]_handlerVars
  <2> SUFFICES ASSUME HandlersNext, project # "active"  PROVE stored' \subseteq stored
    BY DEF AddsNothing
  <2>1. ASSUME NEW c \in Clients, Handle(c)  PROVE stored' \subseteq stored
    <3>1. CASE Write(c)  BY <3>1 DEF Write, Written
    <3>2. CASE Submit(c) \/ SubmitFull(c) \/ SubmitClosed(c) \/ Disconnect(c)
                 \/ WriteFails(c) \/ LookupFails(c)
      BY <3>2 DEF Submit, Enqueue, SubmitFull, SubmitClosed, Disconnect, WriteFails,
         LookupFails, Refuse, TurnAway
    <3>3. CASE SentryProject(c) \/ SentryBody(c) \/ DatadogProject(c)
                 \/ DatadogBody(c) \/ OtlpProject(c)
      BY <3>3 DEF SentryProject, SentryBody, DatadogProject, DatadogBody,
         OtlpProject, Refuse, TurnAway, Continue
    <3>4. CASE OtlpBody(c)
      <4>1. \/ TurnAway(c, 415)
            \/ TurnAway(c, 400)
            \/ Refuse(c, 400, "malformed")
            \/ TurnAway(c, 200)
            \/ Continue(c, "parsed")
        BY <3>4 DEF OtlpBody
      <4> QED  BY <4>1 DEF Refuse, TurnAway, Continue
    <3> QED  BY <2>1, <3>1, <3>2, <3>3, <3>4 DEF Handle
  <2>2. CASE BeginRemoval \/ FinishRemoval
    BY <2>2 DEF BeginRemoval, FinishRemoval
  <2> QED  BY <2>1, <2>2 DEF HandlersNext
<1> QED  BY <1>1, PTL DEF HandlersSpec, HandlersNothingAfterRemoval

-----------------------------------------------------------------------------
(* The records of exports.                                                 *)

\* The ways a record of an item comes about: a span of OTLP and its exceptions, ...
OtlpTrace(r, i) ==
    /\ i.kind = "span" /\ i.trace = <<i.trace[1], i.trace[2]>>
    /\ r = Telemetry!Record("otlp", [trace |-> i.trace, span |-> i.span], "trace", None, i)
    /\ DOMAIN r.id = {"trace", "span"}

OtlpException(r, i) ==
    \E e \in DOMAIN i.events :
        /\ i.events[e].kind = "event"
        /\ r = Telemetry!Record("otlp",
                   [of |-> Telemetry!SpanId(i), time |-> i.events[e].time, at |-> e],
                   "error", Telemetry!SpanId(i), i.events[e])
        /\ DOMAIN r.id = {"of", "time", "at"}

\* ... a log and its error, ...
OtlpLog(r, i) ==
    /\ i = [kind |-> "log", time |-> i.time, severity |-> i.severity, trace |-> i.trace,
            span |-> i.span, body |-> i.body, exception |-> i.exception]
    /\ r = Telemetry!Record("otlp", Telemetry!LogId(i), "log", None, i)
    /\ DOMAIN r.id = {"log"}

OtlpLogError(r, i) ==
    /\ i = [kind |-> "log", time |-> i.time, severity |-> i.severity, trace |-> i.trace,
            span |-> i.span, body |-> i.body, exception |-> i.exception]
    /\ r = Telemetry!Record("otlp", [of |-> Telemetry!LogId(i)], "error", Telemetry!LogId(i), i)
    /\ DOMAIN r.id = {"of"} /\ DOMAIN r.id.of = {"log"}

\* ... a point of a metric, ...
OtlpPoint(r, i) ==
    /\ i.kind = "point"
    /\ r = Telemetry!Record("otlp",
               [stream |-> Telemetry!StreamId(i), start |-> i.start, time |-> i.time],
               "metric", None, i)
    /\ DOMAIN r.id = {"stream", "start", "time"}

\* ... a span of DDTrace and its error, ...
DatadogSpan(r, i) ==
    /\ i.kind = "ddspan"
    /\ r = Telemetry!Record("ddtrace", [trace |-> Telemetry!DatadogTrace(i), span |-> i.span],
                         "trace", None, i)
    /\ DOMAIN r.id = {"trace", "span"}

DatadogError(r, i) ==
    /\ i.kind = "ddspan"
    /\ r = Telemetry!Record("ddtrace",
               [of |-> [trace |-> Telemetry!DatadogTrace(i), span |-> i.span]], "error",
               [trace |-> Telemetry!DatadogTrace(i), span |-> i.span], i)
    /\ DOMAIN r.id = {"of"} /\ DOMAIN r.id.of = {"trace", "span"}

\* ... an event of Sentry, and an entry of a batch.
SentryError(r, i, envelope) ==
    /\ r = Telemetry!Record("sentry", [event |-> Telemetry!EventId(envelope, i)], "error", None, i)
    /\ DOMAIN r.id = {"event"}

SentryEntry(r, i, envelope, k) ==
    \E e \in DOMAIN i.entries :
        /\ i.kind = "batch" /\ i.signal \in {"log", "metric"}
        /\ r = Telemetry!Record("sentry", Telemetry!EntryId(envelope, i, k, e), i.signal, None,
                             i.entries[e])
        /\ DOMAIN r.id = {"envelope", "header", "place", "entry"}

\* There is no other way.
LEMMA RecordsComeAbout ==
  ASSUME Telemetry!ExportAssumption, NEW q \in Requests, NEW k \in DOMAIN q.items,
         NEW r \in Telemetry!RecordsOf(q, k)
  PROVE  LET i == q.items[k]
         IN  \/ /\ q.protocol = "otlp"
                /\ \/ OtlpTrace(r, i) \/ OtlpException(r, i) \/ OtlpLog(r, i)
                   \/ OtlpLogError(r, i) \/ OtlpPoint(r, i)
             \/ q.protocol = "ddtrace" /\ (DatadogSpan(r, i) \/ DatadogError(r, i))
             \/ /\ q.protocol = "sentry"
                /\ SentryError(r, i, q.envelope) \/ SentryEntry(r, i, q.envelope, k)
<1> DEFINE i == q.items[k]
<1>1. CASE q.protocol = "otlp"
  <2>1. r \in Telemetry!OtlpRecords(i) /\ Telemetry!OtlpItemFits(i)
    BY <1>1 DEF Telemetry!RecordsOf, Telemetry!ExportAssumption
  <2> HIDE DEF i
  <2>2. CASE i.kind = "span"
    <3>1. /\ i.trace = <<i.trace[1], i.trace[2]>>
          /\ \A e \in DOMAIN i.events : i.events[e].kind = "event"
          /\ r \in Telemetry!OtlpSpanRecords(i)
      BY <2>1, <2>2 DEF Telemetry!OtlpRecords, Telemetry!OtlpItemFits
    <3>2. CASE r = Telemetry!Record("otlp", Telemetry!SpanId(i), "trace", None, i)
      <4>1. OtlpTrace(r, i)
        BY <2>2, <3>1, <3>2 DEF OtlpTrace, Telemetry!SpanId, Telemetry!Record
      <4> QED  BY <1>1, <4>1 DEF i
    <3>3. CASE r \in Telemetry!OtlpSpanErrors(i)
      <4>1. OtlpException(r, i)
        BY <3>1, <3>3 DEF OtlpException, Telemetry!OtlpSpanErrors, Telemetry!ExceptionsOf, Telemetry!Record
      <4> QED  BY <1>1, <4>1 DEF i
    <3> QED  BY <3>1, <3>2, <3>3 DEF Telemetry!OtlpSpanRecords, Telemetry!Rejected
  <2>3. CASE i.kind = "log"
    <3>1. r \in Telemetry!OtlpLogRecords(i)
      BY <2>1, <2>3 DEF Telemetry!OtlpRecords
    <3>2. i = [kind |-> "log", time |-> i.time, severity |-> i.severity, trace |-> i.trace,
               span |-> i.span, body |-> i.body, exception |-> i.exception]
      BY <2>1, <2>3 DEF Telemetry!OtlpItemFits
    <3>3. CASE r = Telemetry!Record("otlp", Telemetry!LogId(i), "log", None, i)
      <4>1. DOMAIN r.id = {"log"}  BY <3>3 DEF Telemetry!Record, Telemetry!LogId
      <4>2. OtlpLog(r, i)  BY <3>2, <3>3, <4>1 DEF OtlpLog
      <4> QED  BY <1>1, <4>2 DEF i
    <3>4. CASE r = Telemetry!Record("otlp", [of |-> Telemetry!LogId(i)], "error", Telemetry!LogId(i), i)
      <4>1. DOMAIN r.id = {"of"} /\ DOMAIN r.id.of = {"log"}
        BY <3>4 DEF Telemetry!Record, Telemetry!LogId
      <4>2. OtlpLogError(r, i)  BY <3>2, <3>4, <4>1 DEF OtlpLogError
      <4> QED  BY <1>1, <4>2 DEF i
    <3> QED  BY <3>1, <3>3, <3>4 DEF Telemetry!OtlpLogRecords, Telemetry!Rejected
  <2>4. CASE i.kind \notin {"span", "log"}
    <3>1. i.kind = "point"
      BY <2>1, <2>4 DEF Telemetry!OtlpItemFits
    <3>2. r \in Telemetry!MetricRecords(i)
      BY <2>1, <3>1 DEF Telemetry!OtlpRecords
    <3>3. /\ Telemetry!PointTime(i) = i.time
          /\ r = Telemetry!Record("otlp",
                     [stream |-> Telemetry!StreamId(i), start |-> i.start, time |-> Telemetry!PointTime(i)],
                     "metric", None, i)
      BY <3>2 DEF Telemetry!MetricRecords, Telemetry!Rejected, Telemetry!PointTime
    <3>4. OtlpPoint(r, i)
      BY <3>1, <3>3 DEF OtlpPoint, Telemetry!Record
    <3> QED  BY <1>1, <3>4 DEF i
  <2> QED  BY <2>2, <2>3, <2>4
<1>2. CASE q.protocol = "ddtrace"
  <2>1. r \in Telemetry!DatadogSpanRecords(i) /\ i.kind = "ddspan"
    BY <1>2 DEF Telemetry!RecordsOf, Telemetry!ExportAssumption
  <2> HIDE DEF i
  <2> DEFINE id == [trace |-> Telemetry!DatadogTrace(i), span |-> i.span]
  <2>2. \/ r = Telemetry!Record("ddtrace", id, "trace", None, i)
        \/ r = Telemetry!Record("ddtrace", [of |-> id], "error", id, i)
    BY <2>1 DEF Telemetry!DatadogSpanRecords, Telemetry!Rejected
  <2>3. DatadogSpan(r, i) \/ DatadogError(r, i)
    BY <2>1, <2>2 DEF DatadogSpan, DatadogError, Telemetry!Record
  <2> QED  BY <1>2, <2>3 DEF i
<1>3. CASE q.protocol = "sentry"
  <2>1. r \in Telemetry!SentryRecords(q.envelope, i, k) /\ Telemetry!SentryItemFits(i)
    BY <1>3 DEF Telemetry!RecordsOf, Telemetry!ExportAssumption
  <2> HIDE DEF i
  <2>2. CASE i.kind = "event"
    <3>1. r = Telemetry!Record("sentry", [event |-> Telemetry!EventId(q.envelope, i)], "error", None, i)
      BY <2>1, <2>2 DEF Telemetry!SentryRecords
    <3>2. SentryError(r, i, q.envelope)  BY <3>1 DEF SentryError, Telemetry!Record
    <3> QED  BY <1>3, <3>2 DEF i
  <2>3. CASE i.kind = "batch"
    <3>1. PICK e \in DOMAIN i.entries :
             r = Telemetry!Record("sentry", Telemetry!EntryId(q.envelope, i, k, e), i.signal, None,
                               i.entries[e])
      BY <2>1, <2>3 DEF Telemetry!SentryRecords
    <3>2. i.signal \in {"log", "metric"}
      BY <2>1, <2>3 DEF Telemetry!SentryItemFits
    <3>3. DOMAIN r.id = {"envelope", "header", "place", "entry"}
      BY <3>1 DEF Telemetry!Record, Telemetry!EntryId
    <3>4. SentryEntry(r, i, q.envelope, k)
      BY <2>3, <3>1, <3>2, <3>3 DEF SentryEntry
    <3> QED  BY <1>3, <3>4 DEF i
  <2>4. i.kind \in {"event", "batch"}
    BY <2>1 DEF Telemetry!SentryRecords
  <2> QED  BY <2>2, <2>3, <2>4
<1> QED  BY <1>1, <1>2, <1>3 DEF Telemetry!ExportAssumption

\* A record says which protocol it came over.
LEMMA RecordSays ==
  ASSUME Telemetry!ExportAssumption, NEW q \in Requests, NEW k \in DOMAIN q.items,
         NEW r \in Telemetry!RecordsOf(q, k)
  PROVE  r.source = q.protocol
<1> DEFINE i == q.items[k]
<1>1. \/ OtlpTrace(r, i) \/ OtlpException(r, i) \/ OtlpLog(r, i) \/ OtlpLogError(r, i)
         \/ OtlpPoint(r, i)
      => r.source = "otlp"
  BY DEF OtlpTrace, OtlpException, OtlpLog, OtlpLogError, OtlpPoint, Telemetry!Record
<1>2. DatadogSpan(r, i) \/ DatadogError(r, i) => r.source = "ddtrace"
  BY DEF DatadogSpan, DatadogError, Telemetry!Record
<1>3. SentryError(r, i, q.envelope) \/ SentryEntry(r, i, q.envelope, k) => r.source = "sentry"
  BY DEF SentryError, SentryEntry, Telemetry!Record
<1> QED  BY <1>1, <1>2, <1>3, RecordsComeAbout

\* Logs with one hash are one log.
LEMMA LogIdTells ==
  ASSUME NEW x, NEW y, Telemetry!LogId(x) = Telemetry!LogId(y),
         x = [kind |-> "log", time |-> x.time, severity |-> x.severity, trace |-> x.trace,
              span |-> x.span, body |-> x.body, exception |-> x.exception],
         y = [kind |-> "log", time |-> y.time, severity |-> y.severity, trace |-> y.trace,
              span |-> y.span, body |-> y.body, exception |-> y.exception]
  PROVE  x = y
<1>1. Telemetry!LogId(x).log = Telemetry!LogId(y).log  OBVIOUS
<1>2. <<x.time, x.severity, x.trace, x.span, x.body, x.exception>>
        = <<y.time, y.severity, y.trace, y.span, y.body, y.exception>>
  BY <1>1 DEF Telemetry!LogId
<1>3. /\ x.time = y.time /\ x.severity = y.severity /\ x.trace = y.trace
      /\ x.span = y.span /\ x.body = y.body /\ x.exception = y.exception
  BY <1>2
<1> QED  BY <1>3

\* Points with one stream and times are one point.
LEMMA PointIdTells ==
  ASSUME NEW x, NEW y, x.kind = "point", y.kind = "point",
         [stream |-> Telemetry!StreamId(x), start |-> x.start, time |-> x.time]
           = [stream |-> Telemetry!StreamId(y), start |-> y.start, time |-> y.time]
  PROVE  Telemetry!SameItem(y, x)
<1>1. Telemetry!StreamId(x) = Telemetry!StreamId(y) /\ x.start = y.start /\ x.time = y.time
  <2> DEFINE a == [stream |-> Telemetry!StreamId(x), start |-> x.start, time |-> x.time]
             b == [stream |-> Telemetry!StreamId(y), start |-> y.start, time |-> y.time]
  <2>1. a.stream = b.stream /\ a.start = b.start /\ a.time = b.time  OBVIOUS
  <2> QED  BY <2>1
<1>2. /\ x.name = y.name /\ x.type = y.type /\ x.temporality = y.temporality
      /\ x.attributes = y.attributes
  BY <1>1 DEF Telemetry!StreamId
<1> QED  BY <1>1, <1>2 DEF Telemetry!SameItem

\* The id of a span tells its trace and its number.
LEMMA SpanIdTells ==
  ASSUME NEW a, NEW b, NEW c, NEW d,
         [trace |-> a, span |-> b] = [trace |-> c, span |-> d]
  PROVE  a = c /\ b = d
<1> DEFINE x == [trace |-> a, span |-> b]
           y == [trace |-> c, span |-> d]
<1>1. x.trace = y.trace /\ x.span = y.span  OBVIOUS
<1> QED  BY <1>1

\* Spans of DDTrace with one trace, as far as they name it, and number are one.
LEMMA DatadogIdTells ==
  ASSUME NEW x, NEW y, x.kind = "ddspan", y.kind = "ddspan",
         Telemetry!DatadogTrace(x) = Telemetry!DatadogTrace(y), x.span = y.span
  PROVE  Telemetry!SameItem(y, x)
<1>1. x.low = y.low /\ x.high = y.high
  <2>1. CASE x.high = None /\ y.high = None
    BY <2>1 DEF Telemetry!DatadogTrace
  <2>2. CASE x.high # None /\ y.high # None
    BY <2>2 DEF Telemetry!DatadogTrace
  <2>3. \A a, b, c : <<a>> # <<b, c>>
    <3> TAKE a, b, c
    <3>1. Len(<<a>>) = 1 /\ Len(<<b, c>>) = 2  OBVIOUS
    <3> QED  BY <3>1
  <2> QED  BY <2>1, <2>2, <2>3 DEF Telemetry!DatadogTrace
<1> QED  BY <1>1 DEF Telemetry!SameItem

\* The id of an exception tells its span and its time.
LEMMA ExceptionIdTells ==
  ASSUME NEW a, NEW b, NEW c, NEW d, NEW e, NEW f,
         [of |-> a, time |-> b, at |-> c] = [of |-> d, time |-> e, at |-> f]
  PROVE  a = d /\ b = e /\ c = f
<1> DEFINE x == [of |-> a, time |-> b, at |-> c]
           y == [of |-> d, time |-> e, at |-> f]
<1>1. x.of = y.of /\ x.time = y.time /\ x.at = y.at  OBVIOUS
<1> QED  BY <1>1

\* So does that of an error its span or log.
LEMMA ErrorIdTells ==
  ASSUME NEW a, NEW b, [of |-> a] = [of |-> b]
  PROVE  a = b
<1>1. [of |-> a].of = [of |-> b].of  OBVIOUS
<1> QED  BY <1>1

\* What has one id in one source says the same: each stands for the other.
LEMMA SameIdSameItem ==
  ASSUME Telemetry!ExportAssumption,
         NEW q \in Requests, NEW k \in DOMAIN q.items, NEW r \in Telemetry!RecordsOf(q, k),
         NEW p \in Requests, NEW l \in DOMAIN p.items, NEW s \in Telemetry!RecordsOf(p, l),
         r.source = s.source, r.id = s.id
  PROVE  /\ Telemetry!StandsFor(s, r)
         /\ r.source = "sentry" /\ r.signal # "error" => r.item = s.item
<1> DEFINE x == q.items[k]
           y == p.items[l]
<1>1. DOMAIN r.id = DOMAIN s.id  OBVIOUS
<1>2. CASE q.protocol = "otlp"
  <2>1. p.protocol = "otlp" /\ r.source = "otlp"  BY <1>2, RecordSays
  <2>2. /\ OtlpTrace(r, x) \/ OtlpException(r, x) \/ OtlpLog(r, x)
           \/ OtlpLogError(r, x) \/ OtlpPoint(r, x)
        /\ OtlpTrace(s, y) \/ OtlpException(s, y) \/ OtlpLog(s, y)
           \/ OtlpLogError(s, y) \/ OtlpPoint(s, y)
    BY <1>2, <2>1, RecordsComeAbout
  <2> HIDE DEF x, y
  <2>3. \/ OtlpTrace(r, x) /\ OtlpTrace(s, y)
        \/ OtlpException(r, x) /\ OtlpException(s, y)
        \/ OtlpLog(r, x) /\ OtlpLog(s, y)
        \/ OtlpLogError(r, x) /\ OtlpLogError(s, y)
        \/ OtlpPoint(r, x) /\ OtlpPoint(s, y)
    <3>1. /\ OtlpTrace(r, x) => DOMAIN r.id = {"trace", "span"}
          /\ OtlpException(r, x) => DOMAIN r.id = {"of", "time", "at"}
          /\ OtlpLog(r, x) => DOMAIN r.id = {"log"}
          /\ OtlpLogError(r, x) => DOMAIN r.id = {"of"}
          /\ OtlpPoint(r, x) => DOMAIN r.id = {"stream", "start", "time"}
          /\ OtlpTrace(s, y) => DOMAIN s.id = {"trace", "span"}
          /\ OtlpException(s, y) => DOMAIN s.id = {"of", "time", "at"}
          /\ OtlpLog(s, y) => DOMAIN s.id = {"log"}
          /\ OtlpLogError(s, y) => DOMAIN s.id = {"of"}
          /\ OtlpPoint(s, y) => DOMAIN s.id = {"stream", "start", "time"}
      BY DEF OtlpTrace, OtlpException, OtlpLog, OtlpLogError, OtlpPoint
    <3> QED  BY <1>1, <2>2, <3>1
  <2>4. CASE OtlpTrace(r, x) /\ OtlpTrace(s, y)
    <3>1. /\ r.signal = "trace" /\ s.signal = "trace" /\ r.parent = s.parent
          /\ Telemetry!SameItem(s.item, r.item)
      BY <2>4 DEF OtlpTrace, Telemetry!Record, Telemetry!SameItem
    <3> QED  BY <2>1, <3>1 DEF Telemetry!StandsFor
  <2>5. CASE OtlpException(r, x) /\ OtlpException(s, y)
    <3>1. PICK e \in DOMAIN x.events :
             /\ x.events[e].kind = "event"
             /\ r = Telemetry!Record("otlp",
                        [of |-> Telemetry!SpanId(x), time |-> x.events[e].time, at |-> e],
                        "error", Telemetry!SpanId(x), x.events[e])
      BY <2>5 DEF OtlpException
    <3>2. PICK f \in DOMAIN y.events :
             s = Telemetry!Record("otlp",
                     [of |-> Telemetry!SpanId(y), time |-> y.events[f].time, at |-> f],
                     "error", Telemetry!SpanId(y), y.events[f])
      BY <2>5 DEF OtlpException
    <3>3. /\ r.id = [of |-> Telemetry!SpanId(x), time |-> x.events[e].time, at |-> e]
          /\ r.signal = "error" /\ r.parent = Telemetry!SpanId(x) /\ r.item = x.events[e]
      BY <3>1 DEF Telemetry!Record
    <3>4. /\ s.id = [of |-> Telemetry!SpanId(y), time |-> y.events[f].time, at |-> f]
          /\ s.signal = "error" /\ s.parent = Telemetry!SpanId(y) /\ s.item = y.events[f]
      BY <3>2 DEF Telemetry!Record
    <3>5. [of |-> Telemetry!SpanId(x), time |-> x.events[e].time, at |-> e]
            = [of |-> Telemetry!SpanId(y), time |-> y.events[f].time, at |-> f]
      BY <3>3, <3>4, Zenon
    <3>6. Telemetry!SpanId(x) = Telemetry!SpanId(y) /\ x.events[e].time = y.events[f].time
      BY <3>5, ExceptionIdTells, Zenon
    <3> QED  BY <2>1, <3>1, <3>3, <3>4, <3>6 DEF Telemetry!StandsFor
  <2>6. CASE OtlpLog(r, x) /\ OtlpLog(s, y)
    <3>1. /\ r.id = Telemetry!LogId(x) /\ s.id = Telemetry!LogId(y) /\ r.item = x /\ s.item = y
          /\ r.signal = "log" /\ s.signal = "log" /\ r.parent = s.parent
      BY <2>6 DEF OtlpLog, Telemetry!Record
    <3>2. x = y  BY <2>6, <3>1, LogIdTells DEF OtlpLog
    <3> QED  BY <2>1, <3>1, <3>2 DEF Telemetry!StandsFor, Telemetry!SameItem
  <2>7. CASE OtlpLogError(r, x) /\ OtlpLogError(s, y)
    <3>1. /\ r.id = [of |-> Telemetry!LogId(x)] /\ s.id = [of |-> Telemetry!LogId(y)]
          /\ r.item = x /\ s.item = y /\ r.signal = "error" /\ s.signal = "error"
          /\ r.parent = Telemetry!LogId(x) /\ s.parent = Telemetry!LogId(y)
      BY <2>7 DEF OtlpLogError, Telemetry!Record
    <3>2. Telemetry!LogId(x) = Telemetry!LogId(y)
      <4>1. [of |-> Telemetry!LogId(x)] = [of |-> Telemetry!LogId(y)]  BY <3>1, Zenon
      <4> QED  BY <4>1, ErrorIdTells
    <3>3. x = y  BY <2>7, <3>2, LogIdTells DEF OtlpLogError
    <3>4. r.item.kind # "event"
      <4>1. x = [kind |-> "log", time |-> x.time, severity |-> x.severity, trace |-> x.trace,
                 span |-> x.span, body |-> x.body, exception |-> x.exception]
        BY <2>7 DEF OtlpLogError
      <4>2. x.kind = "log"  BY <4>1
      <4> QED  BY <3>1, <4>2
    <3> QED  BY <2>1, <3>1, <3>3, <3>4 DEF Telemetry!StandsFor, Telemetry!SameItem
  <2>8. CASE OtlpPoint(r, x) /\ OtlpPoint(s, y)
    <3>1. /\ r.item = x /\ s.item = y /\ r.signal = "metric" /\ s.signal = "metric"
          /\ r.parent = s.parent
          /\ r.id = [stream |-> Telemetry!StreamId(x), start |-> x.start, time |-> x.time]
          /\ s.id = [stream |-> Telemetry!StreamId(y), start |-> y.start, time |-> y.time]
      BY <2>8 DEF OtlpPoint, Telemetry!Record
    <3>2. Telemetry!SameItem(y, x)  BY <2>8, <3>1, PointIdTells DEF OtlpPoint
    <3> QED  BY <2>1, <3>1, <3>2 DEF Telemetry!StandsFor
  <2> QED  BY <2>3, <2>4, <2>5, <2>6, <2>7, <2>8
<1>3. CASE q.protocol = "ddtrace"
  <2>1. p.protocol = "ddtrace" /\ r.source = "ddtrace"  BY <1>3, RecordSays
  <2>2. /\ DatadogSpan(r, x) \/ DatadogError(r, x)
        /\ DatadogSpan(s, y) \/ DatadogError(s, y)
    BY <1>3, <2>1, RecordsComeAbout
  <2> HIDE DEF x, y
  <2>3. \/ DatadogSpan(r, x) /\ DatadogSpan(s, y)
        \/ DatadogError(r, x) /\ DatadogError(s, y)
    BY <1>1, <2>2 DEF DatadogSpan, DatadogError
  <2>4. CASE DatadogSpan(r, x) /\ DatadogSpan(s, y)
    <3>1. /\ r.item = x /\ s.item = y /\ r.signal = "trace" /\ s.signal = "trace"
          /\ r.parent = s.parent
          /\ r.id = [trace |-> Telemetry!DatadogTrace(x), span |-> x.span]
          /\ s.id = [trace |-> Telemetry!DatadogTrace(y), span |-> y.span]
      BY <2>4 DEF DatadogSpan, Telemetry!Record
    <3>2. Telemetry!DatadogTrace(x) = Telemetry!DatadogTrace(y) /\ x.span = y.span
      <4>1. [trace |-> Telemetry!DatadogTrace(x), span |-> x.span]
              = [trace |-> Telemetry!DatadogTrace(y), span |-> y.span]
        BY <3>1, Zenon
      <4> QED  BY <4>1, SpanIdTells
    <3>3. Telemetry!SameItem(y, x)  BY <2>4, <3>2, DatadogIdTells DEF DatadogSpan
    <3> QED  BY <2>1, <3>1, <3>3 DEF Telemetry!StandsFor
  <2>5. CASE DatadogError(r, x) /\ DatadogError(s, y)
    <3> DEFINE a == [trace |-> Telemetry!DatadogTrace(x), span |-> x.span]
               b == [trace |-> Telemetry!DatadogTrace(y), span |-> y.span]
    <3>1. /\ r.item = x /\ s.item = y /\ r.signal = "error" /\ s.signal = "error"
          /\ r.id = [of |-> a] /\ s.id = [of |-> b] /\ r.parent = a /\ s.parent = b
      BY <2>5 DEF DatadogError, Telemetry!Record
    <3>2. a = b
      <4> HIDE DEF a, b
      <4>1. [of |-> a] = [of |-> b]  BY <3>1, Zenon
      <4> QED  BY <4>1, ErrorIdTells
    <3>3. Telemetry!DatadogTrace(x) = Telemetry!DatadogTrace(y) /\ x.span = y.span
      BY <3>2, SpanIdTells
    <3>4. Telemetry!SameItem(y, x)  BY <2>5, <3>3, DatadogIdTells DEF DatadogError
    <3>5. r.item.kind # "event"  BY <2>5, <3>1 DEF DatadogError
    <3> HIDE DEF a, b
    <3> QED  BY <2>1, <3>1, <3>2, <3>4, <3>5 DEF Telemetry!StandsFor
  <2> QED  BY <2>3, <2>4, <2>5
<1>4. CASE q.protocol = "sentry"
  <2>1. p.protocol = "sentry" /\ r.source = "sentry"  BY <1>4, RecordSays
  <2>2. /\ SentryError(r, x, q.envelope) \/ SentryEntry(r, x, q.envelope, k)
        /\ SentryError(s, y, p.envelope) \/ SentryEntry(s, y, p.envelope, l)
    BY <1>4, <2>1, RecordsComeAbout
  <2> HIDE DEF x, y
  <2>3. \/ SentryError(r, x, q.envelope) /\ SentryError(s, y, p.envelope)
        \/ SentryEntry(r, x, q.envelope, k) /\ SentryEntry(s, y, p.envelope, l)
    BY <1>1, <2>2 DEF SentryError, SentryEntry
  <2>4. CASE SentryError(r, x, q.envelope) /\ SentryError(s, y, p.envelope)
    <3>1. /\ r.signal = "error" /\ s.signal = "error" /\ r.parent = s.parent
      BY <2>4 DEF SentryError, Telemetry!Record
    <3>2. s.source = r.source /\ r.source = "sentry" /\ s.id.event = r.id.event
      BY <2>1
    <3> QED  BY <3>1, <3>2 DEF Telemetry!StandsFor
  <2>5. CASE SentryEntry(r, x, q.envelope, k) /\ SentryEntry(s, y, p.envelope, l)
    <3>1. PICK e \in DOMAIN x.entries :
             r = Telemetry!Record("sentry", Telemetry!EntryId(q.envelope, x, k, e), x.signal, None,
                               x.entries[e])
      BY <2>5 DEF SentryEntry
    <3>2. PICK f \in DOMAIN y.entries :
             s = Telemetry!Record("sentry", Telemetry!EntryId(p.envelope, y, l, f), y.signal, None,
                               y.entries[f])
      BY <2>5 DEF SentryEntry
    <3>3. /\ r.id = Telemetry!EntryId(q.envelope, x, k, e) /\ r.signal = x.signal
          /\ r.item = x.entries[e] /\ r.parent = None
      BY <3>1 DEF Telemetry!Record
    <3>4. /\ s.id = Telemetry!EntryId(p.envelope, y, l, f) /\ s.signal = y.signal
          /\ s.item = y.entries[f] /\ s.parent = None
      BY <3>2 DEF Telemetry!Record
    <3>5. /\ r.id.header = <<x.signal, x.count>> /\ s.id.header = <<y.signal, y.count>>
          /\ r.id.entry = x.entries[e] /\ s.id.entry = y.entries[f]
      <4>1. r.id.header = <<x.signal, x.count>> /\ r.id.entry = x.entries[e]
        BY <3>3 DEF Telemetry!EntryId
      <4>2. s.id.header = <<y.signal, y.count>> /\ s.id.entry = y.entries[f]
        BY <3>4 DEF Telemetry!EntryId
      <4> QED  BY <4>1, <4>2
    <3>6. <<x.signal, x.count>> = <<y.signal, y.count>>  BY <3>5
    <3>7. x.signal = y.signal /\ x.signal # "error"
      BY <2>5, <3>6 DEF SentryEntry
    <3> QED  BY <2>1, <3>3, <3>4, <3>5, <3>7 DEF Telemetry!StandsFor, Telemetry!SameItem
  <2> QED  BY <2>3, <2>4, <2>5
<1> QED  BY <1>2, <1>3, <1>4, RecordsComeAbout

\* A record that names a parent came with it.
LEMMA ParentComesAlong ==
  ASSUME Telemetry!ExportAssumption, NEW q \in Requests, NEW k \in DOMAIN q.items,
         NEW r \in Telemetry!RecordsOf(q, k), r.parent # None
  PROVE  \E s \in Telemetry!RecordsOf(q, k) :
            s.source = r.source /\ s.id = r.parent /\ s.signal # "error"
<1> DEFINE i == q.items[k]
<1>1. CASE q.protocol = "otlp"
  <2>1. r \in Telemetry!OtlpRecords(i) /\ Telemetry!RecordsOf(q, k) = Telemetry!OtlpRecords(i)
        /\ Telemetry!OtlpItemFits(i)
    BY <1>1 DEF Telemetry!RecordsOf, Telemetry!ExportAssumption
  <2> HIDE DEF i
  <2> SUFFICES \E s \in Telemetry!OtlpRecords(i) :
                  s.source = r.source /\ s.id = r.parent /\ s.signal # "error"
    BY <2>1
  <2>2. CASE i.kind = "span"
    <3> DEFINE s == Telemetry!Record("otlp", Telemetry!SpanId(i), "trace", None, i)
    <3>1. Telemetry!OtlpRecords(i) = Telemetry!OtlpSpanRecords(i)
      BY <2>2 DEF Telemetry!OtlpRecords
    <3>2. s \in Telemetry!OtlpSpanRecords(i)
          /\ Telemetry!OtlpSpanRecords(i) = {s} \cup Telemetry!OtlpSpanErrors(i)
      BY <2>1, <3>1 DEF Telemetry!OtlpSpanRecords, Telemetry!Rejected
    <3>3. s.parent = None /\ s.source = "otlp" /\ s.id = Telemetry!SpanId(i) /\ s.signal = "trace"
      BY DEF Telemetry!Record
    <3>4. r \in Telemetry!OtlpSpanErrors(i)
      <4> HIDE DEF s
      <4> QED  BY <2>1, <3>1, <3>2, <3>3
    <3>5. r.source = "otlp" /\ r.parent = Telemetry!SpanId(i)
      BY <3>4 DEF Telemetry!OtlpSpanErrors, Telemetry!Record
    <3> HIDE DEF s
    <3> QED  BY <3>1, <3>2, <3>3, <3>5
  <2>3. CASE i.kind = "log"
    <3> DEFINE s == Telemetry!Record("otlp", Telemetry!LogId(i), "log", None, i)
               t == Telemetry!Record("otlp", [of |-> Telemetry!LogId(i)], "error", Telemetry!LogId(i), i)
    <3>1. Telemetry!OtlpRecords(i) = Telemetry!OtlpLogRecords(i)
      BY <2>3 DEF Telemetry!OtlpRecords
    <3>2. s \in Telemetry!OtlpLogRecords(i) /\ Telemetry!OtlpLogRecords(i) \subseteq {s, t}
      BY <2>1, <3>1 DEF Telemetry!OtlpLogRecords, Telemetry!Rejected
    <3>3. s.parent = None /\ s.source = "otlp" /\ s.id = Telemetry!LogId(i) /\ s.signal = "log"
          /\ t.source = "otlp" /\ t.parent = Telemetry!LogId(i)
      BY DEF Telemetry!Record
    <3> HIDE DEF s, t
    <3> QED  BY <2>1, <3>1, <3>2, <3>3
  <2>4. CASE i.kind \notin {"span", "log"}
    <3>1. i.kind = "point"
      BY <2>1, <2>4 DEF Telemetry!OtlpItemFits
    <3>2. r \in Telemetry!MetricRecords(i)
      BY <2>1, <3>1 DEF Telemetry!OtlpRecords
    <3>3. \A a, b, c, d : Telemetry!Record(a, b, c, None, d).parent = None
      BY DEF Telemetry!Record
    <3>4. r.parent = None
      BY <3>2, <3>3 DEF Telemetry!MetricRecords, Telemetry!Rejected
    <3> QED  BY <3>4
  <2> QED  BY <2>2, <2>3, <2>4
<1>2. CASE q.protocol = "ddtrace"
  <2>1. r \in Telemetry!DatadogSpanRecords(i)
        /\ Telemetry!RecordsOf(q, k) = Telemetry!DatadogSpanRecords(i)
    BY <1>2 DEF Telemetry!RecordsOf
  <2> HIDE DEF i
  <2> DEFINE id == [trace |-> Telemetry!DatadogTrace(i), span |-> i.span]
             s == Telemetry!Record("ddtrace", id, "trace", None, i)
             t == Telemetry!Record("ddtrace", [of |-> id], "error", id, i)
  <2>2. s \in Telemetry!DatadogSpanRecords(i) /\ Telemetry!DatadogSpanRecords(i) \subseteq {s, t}
    BY <2>1 DEF Telemetry!DatadogSpanRecords, Telemetry!Rejected
  <2>3. s.parent = None /\ s.source = "ddtrace" /\ s.id = id /\ s.signal = "trace"
        /\ t.source = "ddtrace" /\ t.parent = id
    BY DEF Telemetry!Record
  <2> HIDE DEF id, s, t
  <2> QED  BY <2>1, <2>2, <2>3
<1>3. CASE q.protocol = "sentry"
  <2>1. r.parent = None
    BY <1>3, RecordsComeAbout DEF OtlpTrace, SentryError, SentryEntry, Telemetry!Record
  <2> QED  BY <2>1
<1> QED  BY <1>1, <1>2, <1>3, RecordsComeAbout

\* Over two protocols only a span of OTLP and one of DDTrace have one id, and they
\* are of one trace.
LEMMA SharedIdsAreSpans ==
  ASSUME Telemetry!ExportAssumption,
         NEW q \in Requests, NEW k \in DOMAIN q.items, NEW r \in Telemetry!RecordsOf(q, k),
         NEW p \in Requests, NEW l \in DOMAIN p.items, NEW s \in Telemetry!RecordsOf(p, l),
         r.source # s.source, r.id = s.id
  PROVE  /\ {r.source, s.source} = {"otlp", "ddtrace"}
         /\ r.signal = "trace" /\ s.signal = "trace"
         /\ r.source = "ddtrace" => /\ s.item.trace = <<r.item.high, r.item.low>>
                                    /\ s.item.span = r.item.span
<1> DEFINE x == q.items[k]
           y == p.items[l]
<1>1. DOMAIN r.id = DOMAIN s.id /\ DOMAIN r.id.of = DOMAIN s.id.of  OBVIOUS
<1>2. /\ r.source = q.protocol /\ s.source = p.protocol
      /\ q.protocol \in {"otlp", "ddtrace", "sentry"}
      /\ p.protocol \in {"otlp", "ddtrace", "sentry"}
  BY RecordSays DEF Telemetry!ExportAssumption
<1>3. /\ q.protocol # "sentry"
      /\ p.protocol # "sentry"
  <2>1. ASSUME NEW a \in Requests, NEW b \in DOMAIN a.items, NEW c \in Telemetry!RecordsOf(a, b)
        PROVE  a.protocol = "sentry" <=>
                  DOMAIN c.id \in {{"event"}, {"envelope", "header", "place", "entry"}}
    <3> DEFINE i == a.items[b]
    <3>1. \/ OtlpTrace(c, i) \/ OtlpException(c, i) \/ OtlpLog(c, i) \/ OtlpLogError(c, i)
             \/ OtlpPoint(c, i) \/ DatadogSpan(c, i) \/ DatadogError(c, i)
          => DOMAIN c.id \in {{"trace", "span"}, {"of", "time", "at"}, {"log"}, {"of"},
                              {"stream", "start", "time"}}
      BY DEF OtlpTrace, OtlpException, OtlpLog, OtlpLogError, OtlpPoint, DatadogSpan,
         DatadogError
    <3>2. SentryError(c, i, a.envelope) \/ SentryEntry(c, i, a.envelope, b)
          => DOMAIN c.id \in {{"event"}, {"envelope", "header", "place", "entry"}}
      BY DEF SentryError, SentryEntry
    <3> HIDE DEF i
    <3>3. DOMAIN c.id \in {{"trace", "span"}, {"of", "time", "at"}, {"log"}, {"of"},
                           {"stream", "start", "time"}}
          => DOMAIN c.id \notin {{"event"}, {"envelope", "header", "place", "entry"}}
      OBVIOUS
    <3> QED  BY <3>1, <3>2, <3>3, RecordsComeAbout DEF i
  <2>2. q.protocol = "sentry" <=> p.protocol = "sentry"  BY <1>1, <2>1
  <2> QED  BY <1>2, <2>2
<1>4. ASSUME NEW a \in Requests, NEW b \in DOMAIN a.items, NEW c \in Telemetry!RecordsOf(a, b),
             NEW d \in Requests, NEW e \in DOMAIN d.items, NEW f \in Telemetry!RecordsOf(d, e),
             a.protocol = "ddtrace", d.protocol = "otlp", c.id = f.id
      PROVE  /\ c.signal = "trace" /\ f.signal = "trace"
             /\ f.item.trace = <<c.item.high, c.item.low>> /\ f.item.span = c.item.span
  <2> DEFINE i == a.items[b]
             j == d.items[e]
  <2>1. DOMAIN c.id = DOMAIN f.id /\ DOMAIN c.id.of = DOMAIN f.id.of  BY <1>4
  <2>2. /\ DatadogSpan(c, i) \/ DatadogError(c, i)
        /\ OtlpTrace(f, j) \/ OtlpException(f, j) \/ OtlpLog(f, j)
           \/ OtlpLogError(f, j) \/ OtlpPoint(f, j)
    BY <1>4, RecordsComeAbout
  <2> HIDE DEF i, j
  <2>3. DatadogSpan(c, i) /\ OtlpTrace(f, j)
    <3>1. /\ DatadogSpan(c, i) => DOMAIN c.id = {"trace", "span"}
          /\ DatadogError(c, i) => DOMAIN c.id = {"of"} /\ DOMAIN c.id.of = {"trace", "span"}
      BY DEF DatadogSpan, DatadogError
    <3>2. /\ OtlpException(f, j) => DOMAIN f.id = {"of", "time", "at"}
          /\ OtlpTrace(f, j) => DOMAIN f.id = {"trace", "span"}
          /\ OtlpLog(f, j) => DOMAIN f.id = {"log"}
          /\ OtlpLogError(f, j) => DOMAIN f.id = {"of"} /\ DOMAIN f.id.of = {"log"}
          /\ OtlpPoint(f, j) => DOMAIN f.id = {"stream", "start", "time"}
      BY DEF OtlpException, OtlpTrace, OtlpLog, OtlpLogError, OtlpPoint
    <3> QED  BY <2>1, <2>2, <3>1, <3>2
  <2>4. /\ c.signal = "trace" /\ c.item = i /\ f.signal = "trace" /\ f.item = j
        /\ c.id = [trace |-> Telemetry!DatadogTrace(i), span |-> i.span]
        /\ f.id = [trace |-> j.trace, span |-> j.span]
    BY <2>3 DEF DatadogSpan, OtlpTrace, Telemetry!Record
  <2>5. j.trace = Telemetry!DatadogTrace(i) /\ j.span = i.span
    <3>1. c.id.trace = Telemetry!DatadogTrace(i) /\ c.id.span = i.span  BY <2>4
    <3>2. f.id.trace = j.trace /\ f.id.span = j.span  BY <2>4
    <3> QED  BY <1>4, <3>1, <3>2
  <2>6. j.trace = <<j.trace[1], j.trace[2]>>  BY <2>3 DEF OtlpTrace
  <2>7. \A g, h, o : <<g>> # <<h, o>>
    <3> TAKE g, h, o
    <3>1. Len(<<g>>) = 1 /\ Len(<<h, o>>) = 2  OBVIOUS
    <3> QED  BY <3>1
  <2>8. j.trace = <<i.high, i.low>>
    BY <2>5, <2>6, <2>7 DEF Telemetry!DatadogTrace
  <2> QED  BY <2>4, <2>5, <2>8
<1>5. CASE q.protocol = "ddtrace" /\ p.protocol = "otlp"
  BY <1>2, <1>4, <1>5
<1>6. CASE q.protocol = "otlp" /\ p.protocol = "ddtrace"
  BY <1>2, <1>4, <1>6
<1> QED  BY <1>2, <1>3, <1>5, <1>6

\* Finiteness and size are the same in both modules.
LEMMA ExportCounts ==
  /\ \A S : Telemetry!IsFiniteSet(S) <=> IsFiniteSet(S)
  /\ \A S : Telemetry!Cardinality(S) = Cardinality(S)
BY DEF Telemetry!IsFiniteSet, IsFiniteSet, Telemetry!Cardinality, Cardinality

\* An item has finitely many records.
LEMMA RecordsAreFinite ==
  ASSUME Telemetry!ExportAssumption, NEW q \in Requests, NEW k \in DOMAIN q.items
  PROVE  IsFiniteSet(Telemetry!RecordsOf(q, k))
<1> DEFINE i == q.items[k]
<1>1. IsFiniteSet({}) /\ \A x : IsFiniteSet({x})
  BY FS_EmptySet, FS_Singleton
<1>2. \A x : \A T : T = {} \/ (\E y : T = {y}) => IsFiniteSet({x} \cup T)
  BY <1>1, FS_Union
<1>3. CASE q.protocol = "otlp"
  <2>1. Telemetry!RecordsOf(q, k) = Telemetry!OtlpRecords(i) /\ Telemetry!OtlpItemFits(i)
    BY <1>3 DEF Telemetry!RecordsOf, Telemetry!ExportAssumption
  <2> HIDE DEF i
  <2>2. CASE i.kind = "span"
    <3>1. IsFiniteSet(Telemetry!OtlpSpanErrors(i))
      <4> DEFINE S == Telemetry!ExceptionsOf(i)
                 R(e) == Telemetry!Record("otlp",
                             [of |-> Telemetry!SpanId(i), time |-> i.events[e].time, at |-> e],
                             "error", Telemetry!SpanId(i), i.events[e])
                 f == [e \in S |-> R(e)]
      <4>1. IsFiniteSet(DOMAIN i.events) /\ S \in SUBSET DOMAIN i.events
        BY <2>1, <2>2, ExportCounts DEF Telemetry!OtlpItemFits, Telemetry!ExceptionsOf
      <4>2. IsFiniteSet(S)  BY <4>1, FS_Subset
      <4>3. \A T : T = {f[e] : e \in S} => f \in Surjection(S, T)
        BY DEF Surjection
      <4>4. Telemetry!OtlpSpanErrors(i) = {R(e) : e \in S}
        BY DEF Telemetry!OtlpSpanErrors
      <4> HIDE DEF S, R
      <4>5. {R(e) : e \in S} = {f[e] : e \in S}  OBVIOUS
      <4> HIDE DEF f
      <4> QED  BY <4>2, <4>3, <4>4, <4>5, FS_Surjection
    <3>2. Telemetry!OtlpRecords(i) = Telemetry!OtlpSpanRecords(i)
      BY <2>2 DEF Telemetry!OtlpRecords
    <3> QED  BY <1>1, <2>1, <3>1, <3>2, FS_Union DEF Telemetry!OtlpSpanRecords, Telemetry!Rejected
  <2>3. CASE i.kind = "log"
    <3>1. Telemetry!OtlpRecords(i) = Telemetry!OtlpLogRecords(i)
      BY <2>3 DEF Telemetry!OtlpRecords
    <3> QED  BY <1>1, <1>2, <2>1, <3>1, Zenon DEF Telemetry!OtlpLogRecords, Telemetry!Rejected
  <2>4. CASE i.kind \notin {"span", "log"}
    <3>1. i.kind = "point"
      BY <2>1, <2>4 DEF Telemetry!OtlpItemFits
    <3>2. Telemetry!OtlpRecords(i) = Telemetry!MetricRecords(i)
      BY <3>1 DEF Telemetry!OtlpRecords
    <3> QED  BY <1>1, <2>1, <3>2, Zenon DEF Telemetry!MetricRecords, Telemetry!Rejected
  <2> QED  BY <2>2, <2>3, <2>4
<1>4. CASE q.protocol = "ddtrace"
  <2>1. Telemetry!RecordsOf(q, k) = Telemetry!DatadogSpanRecords(i)
    BY <1>4 DEF Telemetry!RecordsOf
  <2> HIDE DEF i
  <2> QED  BY <1>1, <1>2, <2>1, Zenon DEF Telemetry!DatadogSpanRecords, Telemetry!Rejected
<1>5. CASE q.protocol = "sentry"
  <2>1. Telemetry!RecordsOf(q, k) = Telemetry!SentryRecords(q.envelope, i, k) /\ Telemetry!SentryItemFits(i)
    BY <1>5 DEF Telemetry!RecordsOf, Telemetry!ExportAssumption
  <2> HIDE DEF i
  <2>2. CASE i.kind = "batch"
    <3> DEFINE S == DOMAIN i.entries
               R(e) == Telemetry!Record("sentry", Telemetry!EntryId(q.envelope, i, k, e), i.signal,
                                     None, i.entries[e])
               f == [e \in S |-> R(e)]
    <3>1. IsFiniteSet(S)  BY <2>1, <2>2, ExportCounts DEF Telemetry!SentryItemFits
    <3>2. \A T : T = {f[e] : e \in S} => f \in Surjection(S, T)
      BY DEF Surjection
    <3>3. Telemetry!SentryRecords(q.envelope, i, k) = {R(e) : e \in S}
      BY <2>2 DEF Telemetry!SentryRecords
    <3> HIDE DEF S, R
    <3>4. {R(e) : e \in S} = {f[e] : e \in S}  OBVIOUS
    <3> HIDE DEF f
    <3> QED  BY <2>1, <3>1, <3>2, <3>3, <3>4, FS_Surjection
  <2>3. CASE i.kind = "event"
    <3>1. \E r : Telemetry!SentryRecords(q.envelope, i, k) = {r}
      BY <2>3 DEF Telemetry!SentryRecords
    <3> QED  BY <1>1, <2>1, <3>1
  <2>4. CASE i.kind \notin {"batch", "event"}
    <3>1. Telemetry!SentryRecords(q.envelope, i, k) = {}
      BY <2>4 DEF Telemetry!SentryRecords
    <3> QED  BY <1>1, <2>1, <3>1
  <2> QED  BY <2>2, <2>3, <2>4
<1> QED  BY <1>3, <1>4, <1>5 DEF Telemetry!ExportAssumption

-----------------------------------------------------------------------------
(* What the store has of exports.                                          *)

\* Everything delivered is known, everything stored was delivered, and a source
\* has an id once.
ExportInv ==
    /\ delivered \subseteq Requests
    /\ IsFiniteSet(saved)
    /\ \A q \in delivered : \A k \in DOMAIN q.items :
          \A r \in Telemetry!RecordsOf(q, k) : Telemetry!Known(saved, r)
    /\ \A s \in saved : \E q \in delivered : \E k \in DOMAIN q.items :
          s \in Telemetry!RecordsOf(q, k)
    /\ \A r, s \in saved : r.source = s.source /\ r.id = s.id => r = s

\* A request brings finitely many records.
LEMMA NewIsFinite ==
  ASSUME Telemetry!ExportAssumption, NEW q \in Requests
  PROVE  IsFiniteSet(Telemetry!New(q))
<1> DEFINE D == DOMAIN q.items
           f == [k \in D |-> Telemetry!RecordsOf(q, k)]
           T == {f[k] : k \in D}
<1>1. IsFiniteSet(D)
  <2>1. D = 1..Len(q.items) /\ Len(q.items) \in Nat
    BY DEF Telemetry!ExportAssumption
  <2> HIDE DEF D
  <2> QED  BY <2>1, FS_Interval
<1>2. \A k \in D : IsFiniteSet(Telemetry!RecordsOf(q, k))
  BY RecordsAreFinite
<1>3. f \in Surjection(D, T)  BY DEF Surjection
<1>4. T = {Telemetry!RecordsOf(q, k) : k \in D} /\ \A S \in T : IsFiniteSet(S)
  BY <1>2
<1> HIDE DEF f, T
<1>5. IsFiniteSet(UNION T)
  <2>1. IsFiniteSet(T)  BY <1>1, <1>3, FS_Surjection
  <2> QED  BY <1>4, <2>1, FS_UNION
<1>6. Telemetry!New(q) \in SUBSET UNION T
  BY <1>4 DEF Telemetry!New
<1> QED  BY <1>5, <1>6, FS_Subset, Zenon

\* What is new is not known.
LEMMA NewIsUnknown ==
  ASSUME NEW q
  PROVE  \A r \in Telemetry!New(q) :
            /\ ~Telemetry!Known(saved, r)
            /\ \E k \in DOMAIN q.items : r \in Telemetry!RecordsOf(q, k)
BY DEF Telemetry!New

\* The invariant holds in every reachable state.
LEMMA ExportInvariant ==
  ASSUME Telemetry!ExportAssumption PROVE Telemetry!Spec => []ExportInv
<1>1. Telemetry!Init => ExportInv
  BY FS_EmptySet DEF Telemetry!Init, ExportInv
<1>2. ExportInv /\ [Telemetry!Next]_Telemetry!vars => ExportInv'
  <2> SUFFICES ASSUME ExportInv, [Telemetry!Next]_Telemetry!vars  PROVE ExportInv'
    OBVIOUS
  <2>1. CASE UNCHANGED Telemetry!vars
    BY <2>1 DEF ExportInv, Telemetry!vars, Telemetry!Known
  <2>2. ASSUME NEW q \in Requests, Telemetry!Refuse(q)  PROVE ExportInv'
    BY <2>2 DEF ExportInv, Telemetry!Refuse, Telemetry!Known
  <2>3. ASSUME NEW q \in Requests, Telemetry!Deliver(q)  PROVE ExportInv'
    <3>1. PICK taken \in SUBSET Telemetry!New(q) :
             /\ Telemetry!OneOfEach(taken, Telemetry!New(q))
             /\ saved' = saved \cup taken
      BY <2>3 DEF Telemetry!Deliver
    <3>2. delivered' = delivered \cup {q}
      BY <2>3 DEF Telemetry!Deliver
    <3>3. delivered' \subseteq Requests /\ IsFiniteSet(saved')
      <4>1. IsFiniteSet(taken)  BY <3>1, NewIsFinite, FS_Subset
      <4> QED  BY <3>1, <3>2, <4>1, FS_Union DEF ExportInv
    <3>4. ASSUME NEW p \in delivered', NEW k \in DOMAIN p.items,
                 NEW r \in Telemetry!RecordsOf(p, k)
          PROVE  Telemetry!Known(saved', r)
      <4>1. CASE Telemetry!Known(saved, r)
        BY <3>1, <4>1 DEF Telemetry!Known
      <4>2. CASE ~Telemetry!Known(saved, r)
        <5>1. p = q  BY <3>2, <3>4, <4>2 DEF ExportInv
        <5>2. r \in Telemetry!New(q)  BY <3>4, <4>2, <5>1 DEF Telemetry!New
        <5>3. Telemetry!Known(taken, r)  BY <3>1, <5>2 DEF Telemetry!OneOfEach
        <5> QED  BY <3>1, <5>3 DEF Telemetry!Known
      <4> QED  BY <4>1, <4>2
    <3>5. ASSUME NEW s \in saved'
          PROVE  \E p \in delivered' : \E k \in DOMAIN p.items : s \in Telemetry!RecordsOf(p, k)
      <4>1. CASE s \in saved  BY <3>2, <4>1 DEF ExportInv
      <4>2. CASE s \in taken  BY <3>1, <3>2, <4>2, NewIsUnknown
      <4> QED  BY <3>1, <4>1, <4>2
    <3>6. ASSUME NEW r \in saved', NEW s \in saved', r.source = s.source, r.id = s.id
          PROVE  r = s
      <4>1. CASE r \in saved /\ s \in saved
        BY <3>6, <4>1 DEF ExportInv
      <4>2. CASE r \in taken /\ s \in taken
        BY <3>1, <3>6, <4>2 DEF Telemetry!OneOfEach
      <4>3. CASE r \in saved /\ s \in taken
        <5>1. ~Telemetry!Known(saved, s)  BY <3>1, <4>3, NewIsUnknown
        <5> QED  BY <3>6, <4>3, <5>1 DEF Telemetry!Known
      <4>4. CASE r \in taken /\ s \in saved
        <5>1. ~Telemetry!Known(saved, r)  BY <3>1, <4>4, NewIsUnknown
        <5> QED  BY <3>6, <4>4, <5>1 DEF Telemetry!Known
      <4> QED  BY <3>1, <4>1, <4>2, <4>3, <4>4
    <3> QED  BY <3>3, <3>4, <3>5, <3>6 DEF ExportInv, Telemetry!Known
  <2> QED  BY <2>1, <2>2, <2>3 DEF Telemetry!Next
<1> QED  BY <1>1, <1>2, PTL DEF Telemetry!Spec

\* A record of the store, and one of a request that was delivered: if they have one
\* id in one source, they say the same.
LEMMA StoredSaysTheSame ==
  ASSUME Telemetry!ExportAssumption, ExportInv, NEW s \in saved,
         NEW q \in delivered, NEW k \in DOMAIN q.items, NEW r \in Telemetry!RecordsOf(q, k),
         s.source = r.source, s.id = r.id
  PROVE  /\ Telemetry!StandsFor(s, r)
         /\ r.source = "sentry" /\ r.signal # "error" => s.item = r.item
<1>1. PICK p \in delivered : \E l \in DOMAIN p.items : s \in Telemetry!RecordsOf(p, l)
  BY DEF ExportInv
<1>2. PICK l \in DOMAIN p.items : s \in Telemetry!RecordsOf(p, l)
  BY <1>1
<1>3. p \in Requests /\ q \in Requests
  BY DEF ExportInv
<1> QED  BY <1>2, <1>3, SameIdSameItem

\* The entries of an envelope that say the same are stored side by side: their
\* ids hold their places.
LEMMA RepeatedAreStored ==
  ASSUME Telemetry!ExportAssumption, ExportInv, NEW q \in delivered, q.protocol = "sentry",
         NEW k \in DOMAIN q.items, q.items[k].kind = "batch", NEW j \in DOMAIN q.items[k].entries
  PROVE  LET signal == q.items[k].signal
             entry == q.items[k].entries[j]
         IN  Cardinality(Telemetry!Repeated(q, signal, entry)) <=
                 Cardinality({r \in saved : r.source = "sentry" /\ r.signal = signal
                                             /\ r.item = entry})
<1> DEFINE signal == q.items[k].signal
           entry == q.items[k].entries[j]
           S == Telemetry!Repeated(q, signal, entry)
           T == {r \in saved : r.source = "sentry" /\ r.signal = signal /\ r.item = entry}
           Id(p) == Telemetry!EntryId(q.envelope, q.items[p[1]], p[1], p[2])
           f == [p \in S |-> CHOOSE r \in T : r.id = Id(p)]
<1>1. q \in Requests /\ signal \in {"log", "metric"}
  <2>1. q \in Requests  BY DEF ExportInv
  <2>2. Telemetry!SentryItemFits(q.items[k])  BY <2>1 DEF Telemetry!ExportAssumption
  <2> QED  BY <2>1, <2>2 DEF Telemetry!SentryItemFits
<1>2. \A p \in S : /\ p = <<p[1], p[2]>> /\ p[1] \in DOMAIN q.items
                   /\ q.items[p[1]].kind = "batch" /\ q.items[p[1]].signal = signal
                   /\ p[2] \in DOMAIN q.items[p[1]].entries
                   /\ q.items[p[1]].entries[p[2]] = entry
  <2> HIDE DEF signal, entry
  <2> QED  BY DEF Telemetry!Repeated
<1>3. ASSUME NEW p \in S  PROVE \E r \in T : r.id = Id(p)
  <2> DEFINE i == q.items[p[1]]
             r == Telemetry!Record("sentry", Id(p), i.signal, None, i.entries[p[2]])
  <2>1. /\ p[1] \in DOMAIN q.items /\ i.kind = "batch" /\ i.signal = signal
        /\ p[2] \in DOMAIN i.entries /\ i.entries[p[2]] = entry
    BY <1>2
  <2>2. Telemetry!RecordsOf(q, p[1]) = Telemetry!SentryRecords(q.envelope, i, p[1])
    BY DEF Telemetry!RecordsOf
  <2>3. r \in Telemetry!SentryRecords(q.envelope, i, p[1])
    <3>1. r = Telemetry!Record("sentry", Telemetry!EntryId(q.envelope, i, p[1], p[2]), i.signal,
                            None, i.entries[p[2]])
      OBVIOUS
    <3> HIDE DEF i, r
    <3> QED  BY <2>1, <3>1 DEF Telemetry!SentryRecords
  <2>4. /\ r.source = "sentry" /\ r.id = Id(p) /\ r.signal = signal /\ r.item = entry
    <3> HIDE DEF i, signal, entry, Id
    <3> QED  BY <2>1 DEF Telemetry!Record
  <2> HIDE DEF i, r, signal, entry, Id
  <2>5. Telemetry!Known(saved, r)
    BY <2>1, <2>2, <2>3 DEF ExportInv
  <2>6. PICK s \in saved : s.source = r.source /\ s.id = r.id
    BY <2>5 DEF Telemetry!Known
  <2>7. r.signal # "error"  BY <1>1, <2>4
  <2>8. s.signal = r.signal /\ s.item = r.item
    BY <2>1, <2>2, <2>3, <2>4, <2>6, <2>7, StoredSaysTheSame DEF Telemetry!StandsFor
  <2> QED  BY <2>4, <2>6, <2>8
<1>4. \A p \in S : f[p] \in T /\ f[p].id = Id(p)
  <2> HIDE DEF S, T, Id
  <2> TAKE p \in S
  <2>1. \E r \in T : r.id = Id(p)  BY <1>3
  <2>2. f[p] = CHOOSE r \in T : r.id = Id(p)  OBVIOUS
  <2> HIDE DEF f
  <2> QED  BY <2>1, <2>2
<1>5. ASSUME NEW a \in S, NEW b \in S, f[a] = f[b]  PROVE a = b
  <2>1. Id(a) = Id(b)
    <3> HIDE DEF S, T, Id, f
    <3> QED  BY <1>4, <1>5
  <2>2. <<a[1], a[2]>> = <<b[1], b[2]>>
    <3>1. Id(a).place = Id(b).place  BY <2>1
    <3> QED  BY <3>1 DEF Telemetry!EntryId
  <2> HIDE DEF S
  <2> QED  BY <1>2, <2>2
<1>6. f \in Injection(S, T)
  <2> HIDE DEF S, T, Id
  <2>1. f \in [S -> T]
    <3>1. f = [p \in S |-> f[p]]  OBVIOUS
    <3> HIDE DEF f
    <3> QED  BY <1>4, <3>1
  <2> HIDE DEF f
  <2> QED  BY <1>5, <2>1 DEF Injection, IsInjective
<1>7. IsFiniteSet(T)
  <2>1. T \in SUBSET saved  OBVIOUS
  <2> HIDE DEF T
  <2> QED  BY <2>1, FS_Subset DEF ExportInv
<1> HIDE DEF S, T, f, signal, entry
<1>8. Cardinality(S) <= Cardinality(T)
  BY <1>6, <1>7, FS_Injection
<1> QED  BY <1>8 DEF S, T, signal, entry

\* The exceptions of a span at one time are stored side by side: their ids hold
\* their places.
LEMMA ExceptionsAreStored ==
  ASSUME Telemetry!ExportAssumption, ExportInv, NEW q \in delivered, q.protocol = "otlp",
         NEW k \in DOMAIN q.items, q.items[k].kind = "span",
         Telemetry!OtlpSpanIsValid(q.items[k]), NEW at
  PROVE  LET span == q.items[k]
         IN  Cardinality({i \in Telemetry!ExceptionsOf(span) : span.events[i].time = at}) <=
                 Cardinality({r \in saved : /\ r.source = "otlp" /\ r.signal = "error"
                                            /\ r.parent = Telemetry!SpanId(span)
                                            /\ r.item.time = at})
<1> DEFINE span == q.items[k]
           S == {i \in Telemetry!ExceptionsOf(span) : span.events[i].time = at}
           T == {r \in saved : /\ r.source = "otlp" /\ r.signal = "error"
                               /\ r.parent = Telemetry!SpanId(span) /\ r.item.time = at}
           Id(i) == [of |-> Telemetry!SpanId(span), time |-> at, at |-> i]
           f == [i \in S |-> CHOOSE r \in T : r.id = Id(i)]
<1>1. q \in Requests /\ Telemetry!OtlpItemFits(span) /\ span.kind = "span"
  <2>1. q \in Requests  BY DEF ExportInv
  <2> QED  BY <2>1 DEF Telemetry!ExportAssumption
<1>2. \A e \in DOMAIN span.events : span.events[e].kind = "event"
  <2> HIDE DEF span
  <2> QED  BY <1>1 DEF Telemetry!OtlpItemFits
<1>3. Telemetry!OtlpSpanErrors(span) \subseteq Telemetry!RecordsOf(q, k)
  <2>1. Telemetry!RecordsOf(q, k) = Telemetry!OtlpRecords(span)
    BY DEF Telemetry!RecordsOf
  <2>2. Telemetry!OtlpSpanIsValid(span)  OBVIOUS
  <2> HIDE DEF span
  <2>3. Telemetry!OtlpRecords(span) = Telemetry!OtlpSpanRecords(span)
    BY <1>1 DEF Telemetry!OtlpRecords
  <2> QED  BY <2>1, <2>2, <2>3 DEF Telemetry!OtlpSpanRecords
<1>4. ASSUME NEW i \in S  PROVE \E r \in T : r.id = Id(i)
  <2> DEFINE r == Telemetry!Record("otlp", Id(i), "error", Telemetry!SpanId(span), span.events[i])
  <2>1. /\ i \in Telemetry!ExceptionsOf(span) /\ span.events[i].time = at
        /\ i \in DOMAIN span.events
    <3> HIDE DEF span
    <3> QED  BY DEF Telemetry!ExceptionsOf
  <2>2. r \in Telemetry!OtlpSpanErrors(span)
    <3>1. r = Telemetry!Record("otlp",
                 [of |-> Telemetry!SpanId(span), time |-> span.events[i].time, at |-> i],
                 "error", Telemetry!SpanId(span), span.events[i])
      BY <2>1
    <3> HIDE DEF r, span
    <3> QED  BY <2>1, <3>1 DEF Telemetry!OtlpSpanErrors
  <2>3. /\ r.source = "otlp" /\ r.id = Id(i) /\ r.signal = "error"
        /\ r.parent = Telemetry!SpanId(span) /\ r.item = span.events[i]
    <3> HIDE DEF span, Id
    <3> QED  BY DEF Telemetry!Record
  <2>4. r.item.kind = "event" /\ r.item.time = at
    <3> HIDE DEF r, span
    <3> QED  BY <1>2, <2>1, <2>3
  <2> HIDE DEF r, span, Id
  <2>5. r \in Telemetry!RecordsOf(q, k)  BY <1>3, <2>2
  <2>6. PICK s \in saved : s.source = r.source /\ s.id = r.id
    BY <2>5 DEF ExportInv, Telemetry!Known
  <2>7. Telemetry!StandsFor(s, r)  BY <2>5, <2>6, StoredSaysTheSame
  <2>8. s.signal = "error" /\ s.parent = Telemetry!SpanId(span) /\ s.item.time = at
    BY <2>3, <2>4, <2>7 DEF Telemetry!StandsFor
  <2> QED  BY <2>3, <2>6, <2>8
<1>5. \A i \in S : f[i] \in T /\ f[i].id = Id(i)
  <2> HIDE DEF S, T, Id
  <2> TAKE i \in S
  <2>1. \E r \in T : r.id = Id(i)  BY <1>4
  <2>2. f[i] = CHOOSE r \in T : r.id = Id(i)  OBVIOUS
  <2> HIDE DEF f
  <2> QED  BY <2>1, <2>2
<1>6. ASSUME NEW a \in S, NEW b \in S, f[a] = f[b]  PROVE a = b
  <2>1. Id(a) = Id(b)
    <3> HIDE DEF S, T, Id, f
    <3> QED  BY <1>5, <1>6
  <2> QED  BY <2>1, ExceptionIdTells
<1>7. f \in Injection(S, T)
  <2> HIDE DEF S, T, Id
  <2>1. f \in [S -> T]
    <3>1. f = [i \in S |-> f[i]]  OBVIOUS
    <3> HIDE DEF f
    <3> QED  BY <1>5, <3>1
  <2> HIDE DEF f
  <2> QED  BY <1>6, <2>1 DEF Injection, IsInjective
<1>8. IsFiniteSet(T)
  <2>1. T \in SUBSET saved  OBVIOUS
  <2> HIDE DEF T
  <2> QED  BY <2>1, FS_Subset DEF ExportInv
<1> HIDE DEF S, T, f, span
<1>9. Cardinality(S) <= Cardinality(T)
  BY <1>7, <1>8, FS_Injection
<1> QED  BY <1>9 DEF S, T, span

\* What a request brings is kept, for every set of requests, whatever order they
\* come in and however often: no item, nor any error it brings, is lost to another
\* that looks alike; entries of an envelope and exceptions of a span that say the
\* same are all there; an id is shared only by two forms of one span, and no error
\* is without what it came with.
THEOREM ExportsAreKept ==
  ASSUME Telemetry!ExportAssumption PROVE Telemetry!Spec => []ExportKeepsItems
<1>1. ExportInv => Telemetry!NoItemIsLost
  <2> SUFFICES ASSUME ExportInv, NEW q \in delivered, NEW k \in DOMAIN q.items,
                      NEW r \in Telemetry!RecordsOf(q, k)
               PROVE  \E s \in saved : Telemetry!StandsFor(s, r)
    BY DEF Telemetry!NoItemIsLost
  <2>1. Telemetry!Known(saved, r)  BY DEF ExportInv
  <2>2. PICK s \in saved : s.source = r.source /\ s.id = r.id
    BY <2>1 DEF Telemetry!Known
  <2> QED  BY <2>2, StoredSaysTheSame
<1>2. ExportInv => Telemetry!EntriesAreCounted
  BY RepeatedAreStored, ExportCounts DEF Telemetry!EntriesAreCounted
<1>3. ExportInv => Telemetry!SharedIdIsOneSpan
  <2> SUFFICES ASSUME ExportInv, NEW r \in saved, NEW s \in saved, r.id = s.id, r # s
               PROVE  /\ {r.source, s.source} = {"otlp", "ddtrace"}
                      /\ r.signal = "trace" /\ s.signal = "trace"
                      /\ r.source = "ddtrace" => /\ s.item.trace = <<r.item.high, r.item.low>>
                                                 /\ s.item.span = r.item.span
    BY DEF Telemetry!SharedIdIsOneSpan
  <2>1. r.source # s.source  BY DEF ExportInv
  <2>2. PICK q \in Requests : \E k \in DOMAIN q.items : r \in Telemetry!RecordsOf(q, k)
    BY DEF ExportInv
  <2>3. PICK p \in Requests : \E k \in DOMAIN p.items : s \in Telemetry!RecordsOf(p, k)
    BY DEF ExportInv
  <2> QED  BY <2>1, <2>2, <2>3, SharedIdsAreSpans
<1>4. ExportInv => Telemetry!ErrorsHaveTheirSource
  <2> SUFFICES ASSUME ExportInv, NEW r \in saved, r.parent # None
               PROVE  \E s \in saved :
                         s.source = r.source /\ s.id = r.parent /\ s.signal # "error"
    BY DEF Telemetry!ErrorsHaveTheirSource
  <2>1. PICK q \in delivered : \E k \in DOMAIN q.items : r \in Telemetry!RecordsOf(q, k)
    BY DEF ExportInv
  <2>2. PICK k \in DOMAIN q.items : r \in Telemetry!RecordsOf(q, k)
    BY <2>1
  <2>3. q \in Requests  BY DEF ExportInv
  <2>4. PICK t \in Telemetry!RecordsOf(q, k) :
           t.source = r.source /\ t.id = r.parent /\ t.signal # "error"
    BY <2>2, <2>3, ParentComesAlong
  <2>5. Telemetry!Known(saved, t)  BY DEF ExportInv
  <2>6. PICK s \in saved : s.source = t.source /\ s.id = t.id
    BY <2>5 DEF Telemetry!Known
  <2>7. s.signal = t.signal  BY <2>6, StoredSaysTheSame DEF Telemetry!StandsFor
  <2> QED  BY <2>4, <2>6, <2>7
<1>5. ExportInv => Telemetry!ExceptionsAreCounted
  BY ExceptionsAreStored, ExportCounts DEF Telemetry!ExceptionsAreCounted
<1>6. ExportInv => ExportKeepsItems
  BY <1>1, <1>2, <1>3, <1>4, <1>5 DEF ExportKeepsItems, Telemetry!ExportKeepsItems
<1> QED  BY <1>6, ExportInvariant, PTL

\* A request that was delivered may be repeated at any time, after any others, and
\* adds nothing: each of its records is known by its id.
THEOREM RepeatsAddNothing ==
  ASSUME Telemetry!ExportAssumption PROVE Telemetry!Spec => ExportRepeatAddsNothing
<1>1. ExportInv /\ [Telemetry!Next]_(Telemetry!vars)
      => [subject = "export" => Telemetry!AddsNothing]_<<subject, exportVars>>
  <2> SUFFICES ASSUME ExportInv, Telemetry!Next, last' \in delivered  PROVE saved' = saved
    BY DEF Telemetry!AddsNothing, Telemetry!vars
  <2>1. ASSUME NEW q \in Requests, Telemetry!Refuse(q)  PROVE saved' = saved
    BY <2>1 DEF Telemetry!Refuse
  <2>2. ASSUME NEW q \in Requests, Telemetry!Deliver(q)  PROVE saved' = saved
    <3>1. q \in delivered  BY <2>2 DEF Telemetry!Deliver
    <3>2. Telemetry!New(q) = {}
      <4> SUFFICES ASSUME NEW r \in Telemetry!New(q)  PROVE FALSE
        OBVIOUS
      <4>1. ~Telemetry!Known(saved, r)  BY NewIsUnknown
      <4>2. PICK k \in DOMAIN q.items : r \in Telemetry!RecordsOf(q, k)  BY NewIsUnknown
      <4> QED  BY <3>1, <4>1, <4>2 DEF ExportInv
    <3> QED  BY <2>2, <3>2 DEF Telemetry!Deliver
  <2> QED  BY <2>1, <2>2 DEF Telemetry!Next
<1> QED
  BY <1>1, ExportInvariant, PTL DEF Telemetry!Spec, ExportRepeatAddsNothing

-----------------------------------------------------------------------------
(* Envelopes.                                                              *)

\* An item as it stands in a body from a place on.
Placed(text, place, item) ==
    /\ text[place] = Parse!Header(item)
    /\ text[place + 1] = Parse!Newline
    /\ \A j \in 1..Len(item.payload) : text[place + 1 + j] = item.payload[j]
    /\ text[place + 2 + Len(item.payload)] = Parse!Newline

\* at tells where each item begins, and where the next one would.
Layout(at) ==
    /\ at \in [1..Len(sent) + 1 -> Nat]
    /\ at[1] = 3
    /\ at[Len(sent) + 1] = Len(body) + 1
    /\ \A i, j \in 1..Len(sent) + 1 : i < j => at[i] + 3 <= at[j]
    /\ \A k \in 1..Len(sent) :
          /\ at[k + 1] = at[k] + Len(sent[k].payload) + 3
          /\ Placed(body, at[k], sent[k])

\* The server is where an item begins, or at the end of what arrived, and has read
\* the items before it; if the body was cut off in the last one, a part of it.
Understood(at) ==
    /\ Len(items) <= Len(sent)
    /\ cursor = IF at[Len(items) + 1] <= Len(bytes) THEN at[Len(items) + 1]
                ELSE Len(bytes) + 1
    /\ \A k \in 1..Len(items) :
          \/ items[k] = sent[k].payload
          \/ /\ k = Len(items) /\ ~sent[k].framed
             /\ at[k + 1] > Len(bytes) + 2
             /\ items[k] = SubSeq(sent[k].payload, 1, Len(items[k]))

EnvelopeInv ==
    /\ sent \in Seq(Parse!Item)
    /\ body \in Seq(Parse!Signs)
    /\ bytes \in Seq(Parse!Signs)
    /\ items \in Seq(Seq(Parse!Signs))
    /\ state \in {"client", "header", "items", "ok", "bad"}
    /\ Len(body) >= 2 /\ body[1] = Parse!EnvelopeHeader /\ body[2] = Parse!Newline
    /\ state \in {"client", "header"} => cursor = 1 /\ items = <<>>
    /\ state # "client" =>
          Len(bytes) <= Len(body) /\ \A k \in 1..Len(bytes) : bytes[k] = body[k]
    /\ state = "bad" => Len(bytes) < Len(body) - 1
    /\ state = "ok" => cursor > Len(bytes)
    /\ \E at : Layout(at) /\ (state \in {"items", "ok"} => Understood(at))

\* The least of a set of numbers.
LEMMA LeastIs ==
  ASSUME NEW S \in SUBSET Nat, NEW m \in S, \A y \in S : m <= y
  PROVE  Parse!Min(S) = m
<1>1. m \in S /\ \A y \in S : m <= y  OBVIOUS
<1>2. \A x \in S : (\A y \in S : x <= y) => x = m
  <2> TAKE x \in S
  <2> HAVE \A y \in S : x <= y
  <2>1. x <= m /\ m <= x /\ x \in Nat /\ m \in Nat  OBVIOUS
  <2> QED  BY <2>1
<1> QED  BY <1>1, <1>2, Zenon DEF Parse!Min

\* A line ends before the first newline, or with the body.
LEMMA LineEndIs ==
  ASSUME bytes \in Seq(Parse!Signs), NEW from \in Nat \ {0}, NEW e \in Nat,
         from - 1 <= e, e <= Len(bytes),
         \A k \in from..e : bytes[k] # Parse!Newline,
         e = Len(bytes) \/ bytes[e + 1] = Parse!Newline
  PROVE  Parse!LineEnd(from) = e
<1> DEFINE N == {k \in from..Len(bytes) : bytes[k] = Parse!Newline}
<1>1. Len(bytes) \in Nat  OBVIOUS
<1>2. Parse!LineEnd(from) = IF N = {} THEN Len(bytes) ELSE Parse!Min(N) - 1
  BY DEF Parse!LineEnd
<1>3. CASE e = Len(bytes)
  <2>1. N = {}  BY <1>3
  <2> QED  BY <1>2, <1>3, <2>1
<1>4. CASE e # Len(bytes)
  <2>1. e + 1 \in N  BY <1>1, <1>4
  <2>2. \A y \in N : e + 1 <= y
    <3> SUFFICES ASSUME NEW y \in N, y <= e  PROVE FALSE
      BY <1>1
    <3>1. y \in from..e  BY <1>1
    <3> QED  BY <3>1
  <2>3. N \in SUBSET Nat  BY <1>1
  <2> HIDE DEF N
  <2>4. Parse!Min(N) = e + 1  BY <2>1, <2>2, <2>3, LeastIs
  <2> QED  BY <1>2, <2>1, <2>4
<1> QED  BY <1>3, <1>4

\* Behind a line lies the next one, or the end.
LEMMA BehindIs ==
  ASSUME bytes \in Seq(Parse!Signs), NEW end \in Nat
  PROVE  Parse!Behind(end) = IF end + 2 <= Len(bytes) + 1 THEN end + 2 ELSE Len(bytes) + 1
<1>1. Len(bytes) \in Nat  OBVIOUS
<1> DEFINE S == {end + 2, Len(bytes) + 1}
<1>2. Parse!Behind(end) = Parse!Min(S)  BY DEF Parse!Behind
<1>3. S \in SUBSET Nat  BY <1>1
<1>4. CASE end + 2 <= Len(bytes) + 1
  <2>1. end + 2 \in S /\ \A y \in S : end + 2 <= y  BY <1>1, <1>4
  <2> HIDE DEF S
  <2>2. Parse!Min(S) = end + 2  BY <1>3, <2>1, LeastIs
  <2> QED  BY <1>2, <1>4, <2>2
<1>5. CASE ~(end + 2 <= Len(bytes) + 1)
  <2>1. Len(bytes) + 1 \in S /\ \A y \in S : Len(bytes) + 1 <= y  BY <1>1, <1>5
  <2> HIDE DEF S
  <2>2. Parse!Min(S) = Len(bytes) + 1  BY <1>3, <2>1, LeastIs
  <2> QED  BY <1>2, <1>5, <2>2
<1> QED  BY <1>4, <1>5

\* What items and their headers are.
LEMMA ItemsFit ==
  ASSUME Parse!EnvelopeAssumption, NEW item \in Parse!Item
  PROVE  /\ item.payload \in Seq(Parse!Signs) /\ Len(item.payload) \in Nat
         /\ item.framed \in BOOLEAN
         /\ ~item.framed =>
               Len(item.payload) > 0 /\ \A j \in 1..Len(item.payload) :
                                           item.payload[j] # Parse!Newline
         /\ Parse!Header(item) \in Parse!Signs /\ Parse!Newline \in Parse!Signs
         /\ Parse!Header(item) # Parse!Newline
         /\ Parse!Header(item).kind = "item"
         /\ Parse!Header(item).length = IF item.framed THEN Len(item.payload) ELSE None
<1>1. item \in [framed : BOOLEAN, payload : Payloads]
      /\ (item.framed \/ Parse!IsLine(item.payload))
  BY DEF Parse!Item
<1>2. item.payload \in Seq(Parse!Signs) /\ Len(item.payload) \in Nat /\ item.framed \in BOOLEAN
  BY <1>1 DEF Parse!EnvelopeAssumption
<1>3. ~item.framed =>
        Len(item.payload) > 0 /\ \A j \in 1..Len(item.payload) : item.payload[j] # Parse!Newline
  BY <1>1, <1>2 DEF Parse!IsLine
<1>4. Parse!Newline = [kind |-> "newline", length |-> None]
  BY DEF Parse!Newline, Parse!Sign
<1>5. Parse!Header(item) =
        [kind |-> "item", length |-> IF item.framed THEN Len(item.payload) ELSE None]
  BY DEF Parse!Header, Parse!ItemHeader
<1>6. Parse!Header(item) \in Parse!Signs /\ Parse!Newline \in Parse!Signs
  BY <1>2, <1>4, <1>5 DEF Parse!Signs
<1>7. Parse!Header(item) # Parse!Newline
  BY <1>4, <1>5
<1> QED  BY <1>2, <1>3, <1>5, <1>6, <1>7


\* Two sequences, one behind the other.
LEMMA JoinIs ==
  ASSUME NEW s \in Seq(Parse!Signs), NEW t \in Seq(Parse!Signs)
  PROVE  /\ s \o t \in Seq(Parse!Signs)
         /\ Len(s) \in Nat /\ Len(t) \in Nat /\ Len(s \o t) = Len(s) + Len(t)
         /\ \A i \in 1..Len(s) : (s \o t)[i] = s[i]
         /\ \A i \in 1..Len(t) : (s \o t)[Len(s) + i] = t[i]
<1>1. Len(s) \in Nat /\ Len(t) \in Nat  OBVIOUS
<1>2. /\ s \o t \in Seq(Parse!Signs) /\ Len(s \o t) = Len(s) + Len(t)
      /\ \A i \in 1..Len(s) + Len(t) :
            (s \o t)[i] = IF i <= Len(s) THEN s[i] ELSE t[i - Len(s)]
  BY ConcatProperties
<1> QED  BY <1>1, <1>2

\* An item that is added stands behind the others.
LEMMA AddKeeps ==
  ASSUME Parse!EnvelopeAssumption, EnvelopeInv, NEW item \in Parse!Item, Parse!Add(item)
  PROVE  EnvelopeInv'
<1> DEFINE n == Len(sent)
           p == item.payload
           framed == Parse!Framed(item)
<1>1. PICK at : Layout(at)
  BY DEF EnvelopeInv
<1>2. /\ state = "client" /\ sent' = Append(sent, item) /\ body' = body \o framed
      /\ UNCHANGED <<bytes, cursor, items, state>>
  BY DEF Parse!Add
<1>3. /\ n \in Nat /\ sent \in Seq(Parse!Item) /\ body \in Seq(Parse!Signs)
      /\ Len(body) \in Nat /\ Len(body) >= 2
      /\ body[1] = Parse!EnvelopeHeader /\ body[2] = Parse!Newline
  BY DEF EnvelopeInv
<1>4. /\ p \in Seq(Parse!Signs) /\ Len(p) \in Nat
      /\ Parse!Header(item) \in Parse!Signs /\ Parse!Newline \in Parse!Signs
  BY ItemsFit
<1>5. /\ framed \in Seq(Parse!Signs) /\ Len(framed) = Len(p) + 3
      /\ framed[1] = Parse!Header(item) /\ framed[2] = Parse!Newline
      /\ \A j \in 1..Len(p) : framed[2 + j] = p[j]
      /\ framed[Len(p) + 3] = Parse!Newline
  <2> DEFINE a == <<Parse!Header(item), Parse!Newline>>
             c == <<Parse!Newline>>
  <2>1. framed = (a \o p) \o c  BY DEF Parse!Framed
  <2>2. /\ a \in Seq(Parse!Signs) /\ Len(a) = 2 /\ a[1] = Parse!Header(item)
        /\ a[2] = Parse!Newline /\ c \in Seq(Parse!Signs) /\ Len(c) = 1
        /\ c[1] = Parse!Newline
    BY <1>4
  <2> HIDE DEF a, c, framed, p
  <2> DEFINE ap == a \o p
  <2>3. /\ ap \in Seq(Parse!Signs) /\ Len(ap) = 2 + Len(p)
        /\ \A i \in 1..2 : ap[i] = a[i]
        /\ \A i \in 1..Len(p) : ap[2 + i] = p[i]
    <3>1. a \in Seq(Parse!Signs) /\ p \in Seq(Parse!Signs)  BY <1>4, <2>2
    <3>2. /\ a \o p \in Seq(Parse!Signs) /\ Len(a \o p) = Len(a) + Len(p)
          /\ \A i \in 1..Len(a) : (a \o p)[i] = a[i]
          /\ \A i \in 1..Len(p) : (a \o p)[Len(a) + i] = p[i]
      BY <3>1, JoinIs
    <3> QED  BY <2>2, <3>2
  <2> HIDE DEF ap
  <2>4. framed = ap \o c  BY <2>1 DEF ap
  <2>5. /\ framed \in Seq(Parse!Signs) /\ Len(framed) = Len(ap) + 1
        /\ \A i \in 1..Len(ap) : framed[i] = ap[i]
        /\ \A i \in 1..1 : framed[Len(ap) + i] = c[i]
    <3>1. /\ ap \o c \in Seq(Parse!Signs) /\ Len(ap \o c) = Len(ap) + Len(c)
          /\ \A i \in 1..Len(ap) : (ap \o c)[i] = ap[i]
          /\ \A i \in 1..Len(c) : (ap \o c)[Len(ap) + i] = c[i]
      BY <2>2, <2>3, JoinIs
    <3> QED  BY <2>2, <2>4, <3>1
  <2>6. framed[1] = Parse!Header(item) /\ framed[2] = Parse!Newline
    BY <1>4, <2>2, <2>3, <2>5
  <2>7. Len(framed) = Len(p) + 3 /\ framed[Len(p) + 3] = Parse!Newline
    <3>1. Len(ap) + 1 = Len(p) + 3  BY <1>4, <2>3
    <3> QED  BY <2>2, <2>5, <3>1
  <2>8. ASSUME NEW j \in 1..Len(p)  PROVE framed[2 + j] = p[j]
    BY <1>4, <2>3, <2>5
  <2> QED  BY <2>5, <2>6, <2>7, <2>8
<1> HIDE DEF framed
<1>6. /\ body' \in Seq(Parse!Signs) /\ Len(body') = Len(body) + Len(p) + 3
      /\ \A k \in 1..Len(body) : body'[k] = body[k]
      /\ \A k \in 1..Len(p) + 3 : body'[Len(body) + k] = framed[k]
  <2> HIDE DEF p
  <2>1. /\ body' \in Seq(Parse!Signs) /\ Len(body') = Len(body) + Len(framed)
        /\ \A k \in 1..Len(body) : body'[k] = body[k]
        /\ \A k \in 1..Len(framed) : body'[Len(body) + k] = framed[k]
    <3>1. /\ body \o framed \in Seq(Parse!Signs)
          /\ Len(body \o framed) = Len(body) + Len(framed)
          /\ \A k \in 1..Len(body) : (body \o framed)[k] = body[k]
          /\ \A k \in 1..Len(framed) : (body \o framed)[Len(body) + k] = framed[k]
      BY <1>3, <1>5, JoinIs
    <3> QED  BY <1>2, <3>1
  <2> QED  BY <1>3, <1>4, <1>5, <2>1
<1>7. /\ sent' \in Seq(Parse!Item) /\ Len(sent') = n + 1
      /\ \A k \in 1..n : sent'[k] = sent[k]
      /\ sent'[n + 1] = item
  BY <1>2, <1>3
<1>8. /\ at \in [1..n + 1 -> Nat] /\ at[1] = 3 /\ at[n + 1] = Len(body) + 1
      /\ \A i, j \in 1..n + 1 : i < j => at[i] + 3 <= at[j]
      /\ \A k \in 1..n : /\ at[k + 1] = at[k] + Len(sent[k].payload) + 3
                         /\ Placed(body, at[k], sent[k])
  BY <1>1 DEF Layout
<1> HIDE DEF p, n
<1>9. PICK new \in [1..n + 2 -> Nat] :
         /\ \A k \in 1..n + 1 : new[k] = at[k]
         /\ new[n + 2] = Len(body) + Len(p) + 4
  <2> DEFINE f == [k \in 1..n + 2 |-> IF k <= n + 1 THEN at[k] ELSE at[n + 1] + Len(p) + 3]
  <2>1. f \in [1..n + 2 -> Nat]
    <3>1. at[n + 1] \in Nat  BY <1>3, <1>8
    <3>2. \A k \in 1..n + 2 : k <= n + 1 => at[k] \in Nat  BY <1>3, <1>8
    <3> QED  BY <1>4, <3>1, <3>2
  <2>2. \A k \in 1..n + 1 : f[k] = at[k]  BY <1>3
  <2>3. f[n + 2] = Len(body) + Len(p) + 4  BY <1>3, <1>4, <1>8
  <2> HIDE DEF f
  <2> QED  BY <2>1, <2>2, <2>3
<1>10. \A i, j \in 1..n + 2 : i < j => new[i] + 3 <= new[j]
  <2> SUFFICES ASSUME NEW i \in 1..n + 2, NEW j \in 1..n + 2, i < j
               PROVE  new[i] + 3 <= new[j]
    OBVIOUS
  <2>1. i \in 1..n + 1  BY <1>3
  <2>2. CASE j <= n + 1  BY <1>3, <1>8, <1>9, <2>1, <2>2
  <2>3. CASE j = n + 2
    <3>1. at[i] <= Len(body) + 1
      <4>1. CASE i = n + 1
        <5>1. at[i] = Len(body) + 1  BY <1>8, <4>1
        <5> QED  BY <1>3, <5>1
      <4>2. CASE i # n + 1
        <5>1. n + 1 \in 1..n + 1 /\ i < n + 1  BY <1>3, <2>1, <4>2
        <5>2. at[i] \in Nat  BY <1>8, <2>1
        <5> QED  BY <1>3, <1>8, <2>1, <5>1, <5>2
      <4> QED  BY <4>1, <4>2
    <3>2. at[i] \in Nat /\ new[i] = at[i]  BY <1>8, <1>9, <2>1
    <3> QED  BY <1>3, <1>4, <1>9, <2>3, <3>1, <3>2
  <2> QED  BY <1>3, <2>2, <2>3
<1>11. ASSUME NEW k \in 1..n
       PROVE  new[k + 1] = new[k] + Len(sent'[k].payload) + 3 /\ Placed(body', new[k], sent'[k])
  <2>1. new[k + 1] = at[k + 1] /\ new[k] = at[k] /\ sent'[k] = sent[k]
    BY <1>3, <1>7, <1>9
  <2>2. at[k + 1] = at[k] + Len(sent[k].payload) + 3 /\ Placed(body, at[k], sent[k])
    BY <1>8
  <2>3. at[k] \in Nat \ {0} /\ Len(sent[k].payload) \in Nat /\ at[k + 1] <= Len(body) + 1
    <3>1. sent[k] \in Parse!Item  BY <1>3 DEF n
    <3>2. Len(sent[k].payload) \in Nat  BY <3>1, ItemsFit
    <3>3. at[k] \in Nat /\ at[k] >= 3
      <4>1. k \in 1..n + 1 /\ 1 \in 1..n + 1  BY <1>3
      <4>2. CASE k = 1  BY <1>8, <4>2
      <4>3. CASE k # 1
        <5>1. 1 < k  BY <4>1, <4>3
        <5>2. at[1] + 3 <= at[k] /\ at[k] \in Nat  BY <1>8, <4>1, <5>1
        <5> QED  BY <1>8, <5>2
      <4> QED  BY <4>2, <4>3
    <3>4. at[k + 1] <= Len(body) + 1
      <4>1. CASE k = n  BY <1>3, <1>8, <4>1
      <4>2. CASE k # n
        <5>1. k + 1 \in 1..n + 1 /\ n + 1 \in 1..n + 1 /\ k + 1 < n + 1  BY <1>3, <4>2
        <5>2. at[k + 1] \in Nat  BY <1>8, <5>1
        <5> QED  BY <1>3, <1>8, <5>1, <5>2
      <4> QED  BY <4>1, <4>2
    <3> QED  BY <3>2, <3>3, <3>4
  <2>4. \A j \in 0..Len(sent[k].payload) + 2 :
          at[k] + j \in 1..Len(body) /\ body'[at[k] + j] = body[at[k] + j]
    <3> TAKE j \in 0..Len(sent[k].payload) + 2
    <3>1. at[k] + j \in 1..Len(body)
      <4> DEFINE length == Len(sent[k].payload)
                 place == at[k]
                 end == Len(body)
      <4>1. /\ place + length + 3 <= end + 1
            /\ place \in Nat \ {0} /\ length \in Nat /\ j \in 0..length + 2 /\ end \in Nat
        BY <1>3, <2>2, <2>3
      <4> HIDE DEF length, place, end
      <4>2. place + j \in 1..end  BY <4>1
      <4> QED  BY <4>2 DEF place, end
    <3> QED  BY <1>6, <3>1
  <2>5. Placed(body', at[k], sent[k])
    <3>1. /\ body[at[k]] = Parse!Header(sent[k]) /\ body[at[k] + 1] = Parse!Newline
          /\ \A j \in 1..Len(sent[k].payload) : body[at[k] + 1 + j] = sent[k].payload[j]
          /\ body[at[k] + 2 + Len(sent[k].payload)] = Parse!Newline
      BY <2>2 DEF Placed
    <3>2. body'[at[k]] = body[at[k]] /\ body'[at[k] + 1] = body[at[k] + 1]
      <4>1. 0 \in 0..Len(sent[k].payload) + 2 /\ 1 \in 0..Len(sent[k].payload) + 2 /\ at[k] + 0 = at[k]
        BY <2>3
      <4> QED  BY <2>4, <4>1
    <3>3. \A j \in 1..Len(sent[k].payload) : body'[at[k] + 1 + j] = body[at[k] + 1 + j]
      <4> TAKE j \in 1..Len(sent[k].payload)
      <4>1. 1 + j \in 0..Len(sent[k].payload) + 2 /\ at[k] + (1 + j) = at[k] + 1 + j
        BY <2>3
      <4> QED  BY <2>4, <4>1
    <3>4. body'[at[k] + 2 + Len(sent[k].payload)] = body[at[k] + 2 + Len(sent[k].payload)]
      <4>1. /\ 2 + Len(sent[k].payload) \in 0..Len(sent[k].payload) + 2
            /\ at[k] + (2 + Len(sent[k].payload)) = at[k] + 2 + Len(sent[k].payload)
        BY <2>3
      <4> QED  BY <2>4, <4>1
    <3> QED  BY <2>1, <3>1, <3>2, <3>3, <3>4 DEF Placed
  <2> QED  BY <2>1, <2>2, <2>5
<1>12. new[n + 2] = new[n + 1] + Len(p) + 3 /\ Placed(body', new[n + 1], item)
  <2>1. new[n + 1] = Len(body) + 1  BY <1>3, <1>8, <1>9
  <2>2. Placed(body', Len(body) + 1, item)
    <3>1. 1 \in 1..Len(p) + 3 /\ 2 \in 1..Len(p) + 3 /\ Len(p) + 3 \in 1..Len(p) + 3
      BY <1>4
    <3>2. Len(body) + 1 + 1 = Len(body) + 2 /\ Len(body) + 1 + 2 + Len(p) = Len(body) + (Len(p) + 3)
      BY <1>3, <1>4
    <3>3. ASSUME NEW j \in 1..Len(p)  PROVE body'[Len(body) + 1 + 1 + j] = p[j]
      <4>1. 2 + j \in 1..Len(p) + 3 /\ Len(body) + 1 + 1 + j = Len(body) + (2 + j)
        BY <1>3, <1>4
      <4> QED  BY <1>5, <1>6, <4>1
    <3>4. body'[Len(body) + 1] = Parse!Header(item)  BY <1>5, <1>6, <3>1
    <3>5. body'[Len(body) + 1 + 1] = Parse!Newline  BY <1>5, <1>6, <3>1, <3>2
    <3>6. body'[Len(body) + 1 + 2 + Len(p)] = Parse!Newline  BY <1>5, <1>6, <3>1, <3>2
    <3> QED  BY <3>3, <3>4, <3>5, <3>6 DEF Placed, p
  <2> QED  BY <1>3, <1>4, <1>9, <2>1, <2>2
<1>13. Layout(new)'
  <2>1. Len(sent') + 1 = n + 2  BY <1>3, <1>7
  <2>2. new[1] = 3 /\ new[n + 2] = Len(body') + 1
    <3>1. 1 \in 1..n + 1  BY <1>3
    <3> QED  BY <1>3, <1>4, <1>6, <1>8, <1>9, <3>1
  <2>3. \A k \in 1..n + 1 : /\ new[k + 1] = new[k] + Len(sent'[k].payload) + 3
                            /\ Placed(body', new[k], sent'[k])
    <3> TAKE k \in 1..n + 1
    <3>1. CASE k \in 1..n  BY <1>11, <3>1
    <3>2. CASE k = n + 1
      <4>1. k + 1 = n + 2 /\ sent'[k] = item  BY <1>3, <1>7, <3>2
      <4> QED  BY <1>12, <3>2, <4>1 DEF p
    <3> QED  BY <1>3, <3>1, <3>2
  <2>4. Len(sent') = n + 1 /\ new \in [1..Len(sent') + 1 -> Nat]
    BY <1>7, <1>9, <2>1
  <2>5. \A i, j \in 1..Len(sent') + 1 : i < j => new[i] + 3 <= new[j]
    BY <1>10, <2>1
  <2> HIDE DEF Placed
  <2> QED  BY <2>1, <2>2, <2>3, <2>4, <2>5 DEF Layout
<1>14. /\ Len(body') >= 2 /\ body'[1] = Parse!EnvelopeHeader /\ body'[2] = Parse!Newline
  <2>1. 1 \in 1..Len(body) /\ 2 \in 1..Len(body)  BY <1>3
  <2>2. body'[1] = body[1] /\ body'[2] = body[2]  BY <1>6, <2>1
  <2> QED  BY <1>3, <1>4, <1>6, <2>2
<1>15. /\ bytes' \in Seq(Parse!Signs) /\ items' \in Seq(Seq(Parse!Signs)) /\ state' = "client"
       /\ cursor' = 1 /\ items' = <<>>
  BY <1>2 DEF EnvelopeInv
<1> QED  BY <1>6, <1>7, <1>13, <1>14, <1>15 DEF EnvelopeInv


\* The client sends its body, whole or cut off.
LEMMA SendKeeps ==
  ASSUME Parse!EnvelopeAssumption, EnvelopeInv,
         NEW length \in 0..Len(body), Parse!Send(length)
  PROVE  EnvelopeInv'
<1>1. /\ state = "client" /\ bytes' = SubSeq(body, 1, length) /\ state' = "header"
      /\ UNCHANGED <<sent, body, cursor, items>>
  BY DEF Parse!Send
<1>2. body \in Seq(Parse!Signs) /\ Len(body) \in Nat /\ length \in Nat /\ length <= Len(body)
  BY DEF EnvelopeInv
<1>3. \A i \in 1..length : i \in 1..Len(body)
  BY <1>2
<1>4. /\ bytes' \in Seq(Parse!Signs)
      /\ Len(bytes') = IF 1 <= length THEN length - 1 + 1 ELSE 0
      /\ \A i \in 1..length - 1 + 1 : bytes'[i] = body[1 + i - 1]
  <2>1. \A i \in 1..length : body[i] \in Parse!Signs  BY <1>2, <1>3
  <2> QED  BY <1>1, <1>2, <1>3, <2>1, SubSeqProperties
<1>5. Len(bytes') = length /\ \A i \in 1..length : bytes'[i] = body[i]
  BY <1>2, <1>4
<1>6. PICK at : Layout(at)
  BY DEF EnvelopeInv
<1>7. Layout(at)'
  BY <1>1, <1>6 DEF Layout, Placed
<1> QED  BY <1>1, <1>2, <1>4, <1>5, <1>7 DEF EnvelopeInv

\* Where an item lies.
LEMMA ItemLies ==
  ASSUME Parse!EnvelopeAssumption, EnvelopeInv, NEW at, Layout(at), NEW k \in 1..Len(sent)
  PROVE  /\ sent[k] \in Parse!Item /\ Len(sent[k].payload) \in Nat
         /\ at[k] \in Nat /\ at[k] >= 3
         /\ at[k + 1] = at[k] + Len(sent[k].payload) + 3
         /\ at[k + 1] <= Len(body) + 1
         /\ Placed(body, at[k], sent[k])
<1> DEFINE n == Len(sent)
<1>1. sent \in Seq(Parse!Item) /\ n \in Nat /\ body \in Seq(Parse!Signs) /\ Len(body) \in Nat
  BY DEF EnvelopeInv
<1>2. sent[k] \in Parse!Item  BY <1>1
<1>3. Len(sent[k].payload) \in Nat  BY <1>2, ItemsFit
<1>4. /\ at \in [1..n + 1 -> Nat] /\ at[1] = 3 /\ at[n + 1] = Len(body) + 1
      /\ \A i, j \in 1..n + 1 : i < j => at[i] + 3 <= at[j]
      /\ at[k + 1] = at[k] + Len(sent[k].payload) + 3 /\ Placed(body, at[k], sent[k])
  BY DEF Layout
<1>5. k \in 1..n + 1 /\ 1 \in 1..n + 1 /\ k + 1 \in 1..n + 1 /\ n + 1 \in 1..n + 1
  BY <1>1
<1> HIDE DEF n
<1>6. at[k] >= 3
  <2>1. CASE k = 1  BY <1>4, <2>1
  <2>2. CASE k # 1
    <3>1. 1 < k  BY <1>5, <2>2
    <3>2. at[1] + 3 <= at[k] /\ at[k] \in Nat  BY <1>4, <1>5, <3>1
    <3> QED  BY <1>4, <3>2
  <2> QED  BY <2>1, <2>2
<1>7. at[k + 1] <= Len(body) + 1
  <2>1. CASE k = n  BY <1>1, <1>4, <2>1
  <2>2. CASE k # n
    <3>1. k + 1 < n + 1  BY <1>1, <1>5, <2>2
    <3>2. at[k + 1] + 3 <= at[n + 1] /\ at[k + 1] \in Nat  BY <1>4, <1>5, <3>1
    <3> QED  BY <1>1, <1>4, <3>2
  <2> QED  BY <2>1, <2>2
<1> QED  BY <1>2, <1>3, <1>4, <1>5, <1>6, <1>7

\* What is read of a payload, to its end or that of the body.
LEMMA ReadIs ==
  ASSUME Parse!EnvelopeAssumption, EnvelopeInv, state # "client",
         NEW at, Layout(at), NEW k \in 1..Len(sent), NEW m \in 0..Len(sent[k].payload),
         at[k] + 1 + m <= Len(bytes)
  PROVE  LET read == SubSeq(bytes, at[k] + 2, at[k] + 1 + m)
         IN  /\ read \in Seq(Parse!Signs) /\ Len(read) = m
             /\ read = SubSeq(sent[k].payload, 1, m)
<1> DEFINE p == sent[k].payload
           place == at[k]
           read == SubSeq(bytes, place + 2, place + 1 + m)
           part == SubSeq(p, 1, m)
<1>1. /\ sent[k] \in Parse!Item /\ place \in Nat /\ place >= 3
      /\ \A j \in 1..Len(p) : body[place + 1 + j] = p[j]
  BY ItemLies DEF Placed
<1>2. p \in Seq(Parse!Signs) /\ Len(p) \in Nat
  BY <1>1, ItemsFit
<1>3. /\ bytes \in Seq(Parse!Signs) /\ Len(bytes) \in Nat
      /\ \A i \in 1..Len(bytes) : bytes[i] = body[i]
  BY DEF EnvelopeInv
<1>4. m \in Nat /\ m <= Len(p) /\ place + 1 + m <= Len(bytes)
  BY <1>2
<1> HIDE DEF place, p
<1>5. \A i \in place + 2..place + 1 + m : i \in 1..Len(bytes) /\ bytes[i] \in Parse!Signs
  BY <1>1, <1>3, <1>4
<1>6. /\ read \in Seq(Parse!Signs)
      /\ Len(read) = IF place + 2 <= place + 1 + m THEN place + 1 + m - (place + 2) + 1 ELSE 0
      /\ \A i \in 1..place + 1 + m - (place + 2) + 1 : read[i] = bytes[place + 2 + i - 1]
  BY <1>1, <1>3, <1>4, <1>5, SubSeqProperties
<1>7. \A i \in 1..m : i \in 1..Len(p) /\ p[i] \in Parse!Signs
  BY <1>2, <1>4
<1>8. /\ part \in Seq(Parse!Signs)
      /\ Len(part) = IF 1 <= m THEN m - 1 + 1 ELSE 0
      /\ \A i \in 1..m - 1 + 1 : part[i] = p[1 + i - 1]
  BY <1>2, <1>4, <1>7, SubSeqProperties
<1> HIDE DEF read, part
<1>9. Len(read) = m /\ Len(part) = m
  BY <1>1, <1>4, <1>6, <1>8
<1>10. \A i \in 1..m : read[i] = part[i]
  <2> TAKE i \in 1..m
  <2>1. read[i] = bytes[place + 1 + i]
    <3>1. i \in 1..place + 1 + m - (place + 2) + 1 /\ place + 2 + i - 1 = place + 1 + i
      BY <1>1, <1>4
    <3> QED  BY <1>6, <3>1
  <2>2. bytes[place + 1 + i] = body[place + 1 + i]
    <3>1. place + 1 + i \in 1..Len(bytes)  BY <1>1, <1>3, <1>4
    <3> QED  BY <1>3, <3>1
  <2>3. body[place + 1 + i] = p[i]  BY <1>1, <1>7
  <2>4. part[i] = p[i]
    <3>1. i \in 1..m - 1 + 1 /\ 1 + i - 1 = i  BY <1>4
    <3> QED  BY <1>8, <3>1
  <2> QED  BY <2>1, <2>2, <2>3, <2>4
<1>11. read = part
  BY <1>6, <1>8, <1>9, <1>10, SeqEqual
<1> QED  BY <1>6, <1>9, <1>11 DEF read, part, place, p


\* Where the server is before an item.
LEMMA ItemAhead ==
  ASSUME Parse!EnvelopeAssumption, EnvelopeInv, state = "items",
         NEW at, Layout(at), Understood(at), cursor <= Len(bytes)
  PROVE  /\ Len(items) \in Nat /\ Len(items) + 1 \in 1..Len(sent)
         /\ Len(bytes) \in Nat /\ cursor = at[Len(items) + 1]
         /\ \A j \in 1..Len(items) : items[j] = sent[j].payload
<1>1. /\ items \in Seq(Seq(Parse!Signs)) /\ Len(items) \in Nat
      /\ bytes \in Seq(Parse!Signs) /\ Len(bytes) \in Nat
      /\ sent \in Seq(Parse!Item) /\ Len(sent) \in Nat
      /\ body \in Seq(Parse!Signs) /\ Len(body) \in Nat /\ Len(bytes) <= Len(body)
  BY DEF EnvelopeInv
<1>2. cursor = at[Len(items) + 1]
  <2>1. cursor # Len(bytes) + 1  BY <1>1
  <2> QED  BY <2>1 DEF Understood
<1>3. cursor \in Nat /\ Len(items) # Len(sent)
  <2>2. cursor \in Nat
    <3>1. Len(items) + 1 \in 1..Len(sent) + 1  BY <1>1 DEF Understood
    <3> QED  BY <1>2, <3>1 DEF Layout
  <2> SUFFICES ASSUME Len(items) = Len(sent)  PROVE FALSE
    BY <2>2
  <2>1. cursor = Len(body) + 1  BY <1>2 DEF Layout
  <2> QED  BY <1>1, <2>1
<1>4. Len(items) <= Len(sent)  BY DEF Understood
<1>5. ASSUME NEW j \in 1..Len(items)  PROVE items[j] = sent[j].payload
  <2> SUFFICES ASSUME j = Len(items), at[j + 1] > Len(bytes) + 2  PROVE FALSE
    BY DEF Understood
  <2>1. cursor > Len(bytes) + 2  BY <1>2
  <2> QED  BY <1>1, <1>3, <2>1
<1> QED  BY <1>1, <1>2, <1>3, <1>4, <1>5

\* A payload that is read as it was sent, or as far as it arrived, is understood.
LEMMA TakeKeeps ==
  ASSUME Parse!EnvelopeAssumption, EnvelopeInv, state = "items",
         NEW at, Layout(at), Understood(at), cursor <= Len(bytes),
         NEW k, k = Len(items) + 1, NEW from, NEW to \in Nat, Parse!Take(from, to),
         SubSeq(bytes, from, to) \in Seq(Parse!Signs),
         \/ SubSeq(bytes, from, to) = sent[k].payload
         \/ /\ ~sent[k].framed /\ at[k + 1] > Len(bytes) + 2
            /\ SubSeq(bytes, from, to) =
                  SubSeq(sent[k].payload, 1, Len(SubSeq(bytes, from, to))),
         to = at[k + 1] - 2 \/ (to = Len(bytes) /\ at[k + 1] > Len(bytes))
  PROVE  EnvelopeInv'
<1> DEFINE read == SubSeq(bytes, from, to)
<1>1. /\ items' = Append(items, read) /\ cursor' = Parse!Behind(to) /\ state' = "items"
      /\ UNCHANGED <<sent, body, bytes>>
  BY DEF Parse!Take
<1>2. /\ Len(items) \in Nat /\ k \in 1..Len(sent) /\ Len(bytes) \in Nat
      /\ \A j \in 1..Len(items) : items[j] = sent[j].payload
  BY ItemAhead
<1>3. /\ items \in Seq(Seq(Parse!Signs)) /\ bytes \in Seq(Parse!Signs)
      /\ sent \in Seq(Parse!Item) /\ Len(sent) \in Nat
  BY DEF EnvelopeInv
<1>4. at[k + 1] \in Nat
  <2>1. /\ at[k + 1] = at[k] + Len(sent[k].payload) + 3
        /\ at[k] \in Nat /\ Len(sent[k].payload) \in Nat
    BY <1>2, ItemLies
  <2> QED  BY <2>1
<1>5. cursor' = IF at[k + 1] <= Len(bytes) THEN at[k + 1] ELSE Len(bytes) + 1
  <2>1. Parse!Behind(to) = IF to + 2 <= Len(bytes) + 1 THEN to + 2 ELSE Len(bytes) + 1
    BY <1>3, BehindIs
  <2> DEFINE next == at[k + 1]
             end == Len(bytes)
  <2>2. next \in Nat /\ end \in Nat /\ (to = next - 2 \/ (to = end /\ next > end))
    BY <1>2, <1>4
  <2> HIDE DEF next, end
  <2>3. (IF to + 2 <= end + 1 THEN to + 2 ELSE end + 1) = (IF next <= end THEN next ELSE end + 1)
    BY <2>2
  <2> QED  BY <1>1, <2>1, <2>3 DEF next, end
<1>6. /\ items' \in Seq(Seq(Parse!Signs)) /\ Len(items') = k
      /\ \A j \in 1..Len(items) : items'[j] = items[j]
      /\ items'[k] = read
  <2> HIDE DEF read
  <2>1. read \in Seq(Parse!Signs)  BY DEF read
  <2> QED  BY <1>1, <1>2, <1>3, <2>1, AppendProperties
<1>7. Layout(at)'
  BY <1>1 DEF Layout, Placed
<1>8. Understood(at)'
  <2>1. Len(items') <= Len(sent') /\ Len(items') \in Nat
    BY <1>1, <1>2, <1>3, <1>6
  <2>2. cursor' = IF at[Len(items') + 1] <= Len(bytes') THEN at[Len(items') + 1]
                  ELSE Len(bytes') + 1
    BY <1>1, <1>5, <1>6
  <2>3. ASSUME NEW j \in 1..Len(items')
        PROVE  \/ items'[j] = sent'[j].payload
               \/ /\ j = Len(items') /\ ~sent'[j].framed
                  /\ at[j + 1] > Len(bytes') + 2
                  /\ items'[j] = SubSeq(sent'[j].payload, 1, Len(items'[j]))
    <3>1. CASE j = k  BY <1>1, <1>6, <3>1
    <3>2. CASE j # k
      <4>1. j \in 1..Len(items)  BY <1>2, <1>6, <3>2
      <4> QED  BY <1>1, <1>2, <1>6, <4>1
    <3> QED  BY <3>1, <3>2
  <2> QED  BY <2>1, <2>2, <2>3 DEF Understood
<1> QED  BY <1>1, <1>3, <1>6, <1>7, <1>8 DEF EnvelopeInv

\* A failure before the end of an envelope that was cut off.
LEMMA FailKeeps ==
  ASSUME EnvelopeInv, state # "client", Parse!Fail, Len(bytes) < Len(body) - 1
  PROVE  EnvelopeInv'
<1>1. state' = "bad" /\ UNCHANGED <<sent, body, bytes, cursor, items>>
  BY DEF Parse!Fail
<1>2. PICK at : Layout(at)
  BY DEF EnvelopeInv
<1>3. Layout(at)'
  BY <1>1, <1>2 DEF Layout, Placed
<1> QED  BY <1>1, <1>3 DEF EnvelopeInv


\* The envelope header is the first line.
LEMMA EnvelopeHeaderKeeps ==
  ASSUME Parse!EnvelopeAssumption, EnvelopeInv, Parse!ReadEnvelopeHeader
  PROVE  EnvelopeInv'
<1>1. /\ state = "header" /\ cursor = 1 /\ items = <<>>
      /\ bytes \in Seq(Parse!Signs) /\ Len(bytes) \in Nat
      /\ body \in Seq(Parse!Signs) /\ Len(body) \in Nat /\ Len(body) >= 2
      /\ body[1] = Parse!EnvelopeHeader /\ body[2] = Parse!Newline
      /\ \A i \in 1..Len(bytes) : bytes[i] = body[i]
  BY DEF EnvelopeInv, Parse!ReadEnvelopeHeader
<1>2. CASE bytes = <<>>
  <2>1. Parse!Fail  BY <1>2 DEF Parse!ReadEnvelopeHeader
  <2>2. Len(bytes) < Len(body) - 1  BY <1>1, <1>2
  <2> QED  BY <1>1, <2>1, <2>2, FailKeeps
<1>3. CASE bytes # <<>>
  <2>1. Len(bytes) >= 1  BY <1>1, <1>3
  <2>2. bytes[1] = Parse!EnvelopeHeader /\ Parse!EnvelopeHeader # Parse!Newline
    <3>1. 1 \in 1..Len(bytes)  BY <1>1, <2>1
    <3> QED  BY <1>1, <3>1 DEF Parse!EnvelopeHeader, Parse!Newline, Parse!Sign
  <2>3. Parse!LineEnd(1) = 1
    <3>1. 1 = Len(bytes) \/ bytes[1 + 1] = Parse!Newline
      <4> SUFFICES ASSUME Len(bytes) # 1  PROVE bytes[2] = Parse!Newline
        OBVIOUS
      <4> DEFINE L == Len(bytes)
      <4>1. L \in Nat /\ L >= 1 /\ L # 1  BY <1>1, <2>1
      <4> HIDE DEF L
      <4>2. 2 \in 1..L  BY <4>1
      <4>3. bytes[2] = body[2]  BY <1>1, <4>2 DEF L
      <4> QED  BY <1>1, <4>3
    <3>2. \A i \in 1..1 : bytes[i] # Parse!Newline  BY <2>2
    <3> QED  BY <1>1, <2>1, <3>1, <3>2, LineEndIs
  <2>4. Parse!Line = <<Parse!EnvelopeHeader>>
    <3>1. Parse!Line = SubSeq(bytes, 1, 1)  BY <1>1, <2>3 DEF Parse!Line
    <3>2. \A i \in 1..1 : bytes[i] \in Parse!Signs  BY <1>1, <2>1
    <3>3. /\ Parse!Line \in Seq(Parse!Signs) /\ Len(Parse!Line) = 1
          /\ Parse!Line[1] = bytes[1]
      <4>1. /\ SubSeq(bytes, 1, 1) \in Seq(Parse!Signs)
            /\ Len(SubSeq(bytes, 1, 1)) = IF 1 <= 1 THEN 1 - 1 + 1 ELSE 0
            /\ \A i \in 1..1 - 1 + 1 : SubSeq(bytes, 1, 1)[i] = bytes[1 + i - 1]
        BY <3>2, SubSeqProperties
      <4> QED  BY <3>1, <4>1
    <3>4. <<Parse!EnvelopeHeader>> \in Seq(Parse!Signs)
      BY <2>2, <3>2
    <3> QED  BY <2>2, <3>3, <3>4, SeqEqual
  <2>5. cursor' = Parse!Behind(1) /\ state' = "items" /\ UNCHANGED <<sent, body, bytes, items>>
    BY <1>1, <1>3, <2>3, <2>4 DEF Parse!ReadEnvelopeHeader
  <2>6. PICK at : Layout(at)  BY DEF EnvelopeInv
  <2>7. Layout(at)'  BY <2>5, <2>6 DEF Layout, Placed
  <2>8. Understood(at)'
    <3>1. Parse!Behind(1) = IF 1 + 2 <= Len(bytes) + 1 THEN 1 + 2 ELSE Len(bytes) + 1
      BY <1>1, BehindIs
    <3>2. Len(items') = 0 /\ Len(sent) \in Nat  BY <1>1, <2>5 DEF EnvelopeInv
    <3>3. at[Len(items') + 1] = 3  BY <2>6, <3>2 DEF Layout
    <3>4. cursor' = IF 3 <= Len(bytes) THEN 3 ELSE Len(bytes) + 1
      BY <1>1, <2>1, <2>5, <3>1
    <3> QED  BY <2>5, <3>2, <3>3, <3>4 DEF Understood
  <2>9. /\ sent' \in Seq(Parse!Item) /\ body' \in Seq(Parse!Signs)
        /\ bytes' \in Seq(Parse!Signs) /\ items' \in Seq(Seq(Parse!Signs))
        /\ Len(body') >= 2 /\ body'[1] = Parse!EnvelopeHeader /\ body'[2] = Parse!Newline
        /\ Len(bytes') <= Len(body') /\ \A i \in 1..Len(bytes') : bytes'[i] = body'[i]
    BY <1>1, <2>5 DEF EnvelopeInv
  <2>10. \E f : Layout(f)' /\ Understood(f)'  BY <2>7, <2>8
  <2> QED  BY <2>5, <2>9, <2>10 DEF EnvelopeInv
<1> QED  BY <1>2, <1>3

\* An item is read where it lies: header, newline, payload.
LEMMA ReadItemKeeps ==
  ASSUME Parse!EnvelopeAssumption, EnvelopeInv, Parse!ReadItem
  PROVE  EnvelopeInv'
<1> DEFINE k == Len(items) + 1
           p == sent[k].payload
           framed == sent[k].framed
           n == Len(p)
           L == Len(bytes)
           c == cursor
<1>1. state = "items" /\ cursor <= Len(bytes)
  BY DEF Parse!ReadItem
<1>2. PICK at : Layout(at) /\ Understood(at)
  BY <1>1 DEF EnvelopeInv
<1>3. k \in 1..Len(sent) /\ L \in Nat /\ c = at[k]
  BY <1>1, <1>2, ItemAhead
<1>4. /\ sent[k] \in Parse!Item /\ n \in Nat /\ c \in Nat /\ c >= 3
      /\ at[k + 1] = c + n + 3 /\ c + n + 3 <= Len(body) + 1
      /\ Placed(body, c, sent[k])
  <2> HIDE DEF k
  <2> QED  BY <1>2, <1>3, ItemLies
<1>5. /\ bytes \in Seq(Parse!Signs) /\ L <= Len(body) /\ Len(body) \in Nat
      /\ \A i \in 1..L : bytes[i] = body[i]
  BY <1>1 DEF EnvelopeInv
<1>6. /\ p \in Seq(Parse!Signs) /\ framed \in BOOLEAN
      /\ ~framed => n > 0 /\ \A j \in 1..n : p[j] # Parse!Newline
      /\ Parse!Header(sent[k]) # Parse!Newline /\ Parse!Header(sent[k]).kind = "item"
      /\ Parse!Header(sent[k]).length = IF framed THEN n ELSE None
  <2> HIDE DEF k
  <2> QED  BY <1>4, ItemsFit
<1>7. /\ body[c] = Parse!Header(sent[k]) /\ body[c + 1] = Parse!Newline
      /\ \A j \in 1..n : body[c + 1 + j] = p[j]
      /\ body[c + 2 + n] = Parse!Newline
  BY <1>4 DEF Placed
<1> HIDE DEF k, p, framed, n, L, c
<1>8. c <= L  BY <1>1 DEF c, L
<1>9. /\ bytes[c] = Parse!Header(sent[k])
      /\ c + 1 <= L => bytes[c + 1] = Parse!Newline
      /\ \A j \in 1..n : c + 1 + j <= L => bytes[c + 1 + j] = p[j]
      /\ c + 2 + n <= L => bytes[c + 2 + n] = Parse!Newline
  <2>1. c \in 1..L  BY <1>3, <1>4, <1>8
  <2>2. c + 1 <= L => c + 1 \in 1..L  BY <1>3, <1>4
  <2>3. \A j \in 1..n : c + 1 + j <= L => c + 1 + j \in 1..L  BY <1>3, <1>4
  <2>4. c + 2 + n <= L => c + 2 + n \in 1..L  BY <1>3, <1>4
  <2> QED  BY <1>5, <1>7, <2>1, <2>2, <2>3, <2>4
<1>10. Parse!LineEnd(c) = c
  <2>1. \A i \in c..c : bytes[i] # Parse!Newline
    <3>1. \A i \in c..c : i = c  BY <1>4
    <3> QED  BY <1>6, <1>9, <3>1
  <2>2. c = L \/ bytes[c + 1] = Parse!Newline  BY <1>3, <1>4, <1>8, <1>9
  <2> QED  BY <1>4, <1>5, <1>8, <2>1, <2>2, LineEndIs DEF L
<1>11. Len(Parse!Line) = 1 /\ Parse!Line[1] = bytes[c]
  <2>1. Parse!Line = SubSeq(bytes, c, c)  BY <1>10 DEF Parse!Line, c
  <2>2. \A i \in c..c : bytes[i] \in Parse!Signs
    <3>1. \A i \in c..c : i \in 1..Len(bytes)  BY <1>3, <1>4, <1>8 DEF L
    <3> QED  BY <1>5, <3>1
  <2>3. /\ Len(SubSeq(bytes, c, c)) = IF c <= c THEN c - c + 1 ELSE 0
        /\ \A i \in 1..c - c + 1 : SubSeq(bytes, c, c)[i] = bytes[c + i - 1]
    BY <1>4, <2>2, SubSeqProperties
  <2>4. c - c + 1 = 1 /\ c + 1 - 1 = c  BY <1>4
  <2> QED  BY <1>4, <2>1, <2>3, <2>4
<1> DEFINE from == IF c + 2 <= L + 1 THEN c + 2 ELSE L + 1
<1>12. Parse!Behind(c) = from
  BY <1>4, <1>5, BehindIs DEF L
<1>13. Parse!TakePayload(from, IF framed THEN n ELSE None)
  <2>1. Parse!IsItemHeader(Parse!Line)
    BY <1>6, <1>9, <1>11 DEF Parse!IsItemHeader
  <2>2. Parse!Line[1].length = IF framed THEN n ELSE None
    BY <1>6, <1>9, <1>11
  <2>3. Parse!TakePayload(Parse!Behind(Parse!LineEnd(cursor)), Parse!Line[1].length)
    BY <2>1 DEF Parse!ReadItem
  <2> QED  BY <1>10, <1>12, <2>2, <2>3 DEF c
<1> HIDE DEF from
<1>14. ASSUME Parse!Fail, L < c + n + 1  PROVE EnvelopeInv'
  <2>1. Len(bytes) < Len(body) - 1  BY <1>3, <1>4, <1>5, <1>14 DEF L
  <2> QED  BY <1>1, <1>14, <2>1, FailKeeps
<1>15. ASSUME NEW m \in 0..n, c + 1 + m <= L
       PROVE  LET read == SubSeq(bytes, c + 2, c + 1 + m)
              IN  read \in Seq(Parse!Signs) /\ Len(read) = m /\ read = SubSeq(p, 1, m)
  BY <1>1, <1>2, <1>3, <1>15, ReadIs DEF n, p, L
<1>16. ASSUME c + 1 + n <= L, Parse!Take(c + 2, c + 1 + n)  PROVE EnvelopeInv'
  <2> DEFINE read == SubSeq(bytes, c + 2, c + 1 + n)
  <2>1. n \in 0..n  BY <1>4
  <2>2. read \in Seq(Parse!Signs) /\ read = SubSeq(p, 1, n)  BY <1>15, <1>16, <2>1
  <2>3. SubSeq(p, 1, n) = p  BY <1>6, SubSeqFull DEF n
  <2>4. c + 1 + n = at[k + 1] - 2 /\ c + 1 + n \in Nat  BY <1>4
  <2> HIDE DEF read
  <2>5. read = sent[k].payload  BY <2>2, <2>3 DEF p
  <2> QED  BY <1>1, <1>2, <1>16, <2>2, <2>4, <2>5, TakeKeeps DEF k, read
<1>17. /\ n \in Nat /\ c \in Nat /\ L \in Nat /\ c <= L
       /\ from = IF c + 2 <= L + 1 THEN c + 2 ELSE L + 1
  BY <1>3, <1>4, <1>8 DEF from
<1>18. CASE framed
  <2>1. Parse!TakeFramed(from, n)
    <3>1. n # None  BY <1>4 DEF Parse!EnvelopeAssumption
    <3> QED  BY <1>13, <1>18, <3>1 DEF Parse!TakePayload
  <2> DEFINE end == from + n - 1
  <2>2. IF end <= L /\ (end = L \/ bytes[end + 1] = Parse!Newline)
        THEN Parse!Take(from, end) ELSE Parse!Fail
    BY <2>1 DEF Parse!TakeFramed, L
  <2>3. CASE c + 1 <= L
    <3>1. from = c + 2 /\ end = c + 1 + n /\ end + 1 = c + 2 + n
      BY <1>17, <2>3
    <3>2. CASE c + 1 + n <= L
      <4>1. end = L \/ bytes[end + 1] = Parse!Newline
        <5>1. c + 1 + n = L \/ c + 2 + n <= L  BY <1>17, <3>2
        <5> QED  BY <1>9, <3>1, <5>1
      <4> QED  BY <1>16, <2>2, <3>1, <3>2, <4>1
    <3>3. CASE ~(c + 1 + n <= L)
      <4>1. Parse!Fail  BY <2>2, <3>1, <3>3
      <4> QED  BY <1>3, <1>4, <1>14, <3>3, <4>1
    <3> QED  BY <3>2, <3>3
  <2>4. CASE ~(c + 1 <= L)
    <3>1. c = L /\ from = L + 1 /\ end = L + n
      BY <1>17, <2>4
    <3>2. CASE n = 0
      <4>1. Parse!Take(L + 1, L)
        <5>1. end = L  BY <1>3, <3>1, <3>2
        <5> QED  BY <1>3, <2>2, <3>1, <5>1
      <4>2. SubSeq(bytes, L + 1, L) = <<>>
        BY <1>3, SubSeqEmpty
      <4>3. p = <<>>  BY <1>6, <3>2 DEF n
      <4>4. SubSeq(bytes, L + 1, L) = sent[k].payload /\ <<>> \in Seq(Parse!Signs)
        BY <4>2, <4>3 DEF p
      <4>5. L = Len(bytes) /\ at[k + 1] > L
        BY <1>3, <1>4, <3>1, <3>2 DEF L
      <4> QED
        BY <1>1, <1>2, <1>3, <4>1, <4>2, <4>4, <4>5, TakeKeeps DEF k
    <3>3. CASE n # 0
      <4>1. Parse!Fail  BY <1>3, <1>4, <2>2, <3>1, <3>3
      <4> QED  BY <1>3, <1>4, <1>14, <3>1, <3>3, <4>1
    <3> QED  BY <3>2, <3>3
  <2> QED  BY <2>3, <2>4
<1>19. CASE ~framed
  <2>1. Parse!TakeLine(from)
    BY <1>13, <1>19 DEF Parse!TakePayload
  <2>2. IF from > L THEN Parse!Fail ELSE Parse!Take(from, Parse!LineEnd(from))
    BY <2>1 DEF Parse!TakeLine, L
  <2>3. n > 0 /\ \A j \in 1..n : p[j] # Parse!Newline  BY <1>6, <1>19
  <2>4. CASE from > L
    <3>1. L < c + n + 1  BY <1>3, <1>4, <2>3, <2>4 DEF from
    <3> QED  BY <1>14, <2>2, <2>4, <3>1
  <2>5. CASE ~(from > L)
    <3>1. from = c + 2 /\ c + 2 <= L
      BY <1>3, <1>4, <2>5 DEF from
    <3> DEFINE e == IF c + 1 + n <= L THEN c + 1 + n ELSE L
    <3>2. e \in Nat /\ c + 1 <= e /\ e <= L /\ e <= c + 1 + n
      BY <1>3, <1>4, <3>1
    <3>3. ASSUME NEW i \in c + 2..e  PROVE bytes[i] # Parse!Newline
      <4> DEFINE j == i - (c + 1)
      <4> HIDE DEF e
      <4>1. j \in 1..n /\ c + 1 + j = i /\ i <= L
        <5>1. e \in Nat /\ e <= L /\ e <= c + 1 + n  BY <3>2
        <5> QED  BY <1>17, <5>1
      <4> HIDE DEF j
      <4>2. bytes[i] = p[j]  BY <1>9, <4>1
      <4> QED  BY <2>3, <4>1, <4>2
    <3>4. e = L \/ bytes[e + 1] = Parse!Newline
      <4>1. CASE c + 1 + n <= L
        <5>1. e = c + 1 + n /\ e + 1 = c + 2 + n  BY <1>3, <1>4, <4>1
        <5>2. c + 1 + n = L \/ c + 2 + n <= L  BY <1>17, <4>1
        <5> QED  BY <1>9, <5>1, <5>2
      <4> QED  BY <4>1
    <3>5. Parse!LineEnd(c + 2) = e
      <4> HIDE DEF e
      <4>1. c + 2 \in Nat \ {0} /\ c + 2 - 1 <= e  BY <1>4, <3>2
      <4>2. /\ e \in Nat /\ e <= Len(bytes) /\ bytes \in Seq(Parse!Signs)
            /\ \A i \in c + 2..e : bytes[i] # Parse!Newline
            /\ e = Len(bytes) \/ bytes[e + 1] = Parse!Newline
        BY <1>5, <3>2, <3>3, <3>4 DEF L
      <4> DEFINE f == c + 2
      <4> HIDE DEF f
      <4>3. f \in Nat \ {0} /\ f - 1 <= e
        <5>1. f = c + 2  BY DEF f
        <5> QED  BY <1>17, <4>1, <5>1
      <4>4. \A i \in f..e : bytes[i] # Parse!Newline
        BY <4>2, Zenon DEF f
      <4>5. Parse!LineEnd(f) = e  BY <4>2, <4>3, <4>4, LineEndIs
      <4> QED  BY <4>5 DEF f
    <3>6. Parse!Take(c + 2, e)
      BY <2>2, <2>5, <3>1, <3>5
    <3>7. CASE c + 1 + n <= L
      <4>1. e = c + 1 + n  BY <3>7
      <4> HIDE DEF e
      <4> QED  BY <1>16, <3>6, <3>7, <4>1
    <3>8. CASE ~(c + 1 + n <= L)
      <4> DEFINE m == L - (c + 1)
                 read == SubSeq(bytes, c + 2, L)
      <4>1. m \in 0..n /\ c + 1 + m = L  BY <1>17, <3>1, <3>8
      <4> HIDE DEF m
      <4>2. read \in Seq(Parse!Signs) /\ Len(read) = m /\ read = SubSeq(p, 1, m)
        <5>1. c + 1 + m <= L  BY <1>3, <4>1
        <5> QED  BY <1>15, <4>1, <5>1
      <4>3. at[k + 1] > L + 2  BY <1>3, <1>4, <3>8
      <4>4. Parse!Take(c + 2, L)  BY <3>6, <3>8
      <4>5. at[k + 1] > L  BY <1>3, <1>4, <3>8
      <4> HIDE DEF read
      <4>6. ~sent[k].framed /\ read = SubSeq(sent[k].payload, 1, Len(read))
        BY <1>19, <4>2 DEF framed, p
      <4> QED
        BY <1>1, <1>2, <1>3, <4>2, <4>3, <4>4, <4>5, <4>6, TakeKeeps DEF k, L, read
    <3> QED  BY <3>7, <3>8
  <2> QED  BY <2>4, <2>5
<1> QED  BY <1>6, <1>18, <1>19

\* The invariant holds in every reachable state.
LEMMA EnvelopeInvariant ==
  ASSUME Parse!EnvelopeAssumption PROVE Parse!Spec => []EnvelopeInv
<1>1. Parse!Init => EnvelopeInv
  <2> SUFFICES ASSUME Parse!Init  PROVE EnvelopeInv
    OBVIOUS
  <2>1. /\ sent = <<>> /\ bytes = <<>> /\ items = <<>> /\ cursor = 1 /\ state = "client"
        /\ body = <<Parse!EnvelopeHeader, Parse!Newline>>
    BY DEF Parse!Init
  <2>2. Parse!EnvelopeHeader \in Parse!Signs /\ Parse!Newline \in Parse!Signs
    BY DEF Parse!EnvelopeHeader, Parse!Newline, Parse!Sign, Parse!Signs
  <2>3. /\ body \in Seq(Parse!Signs) /\ Len(body) = 2
        /\ body[1] = Parse!EnvelopeHeader /\ body[2] = Parse!Newline
    BY <2>1, <2>2
  <2>4. Layout([j \in {1} |-> 3])
    <3>1. Len(sent) = 0 /\ 1..Len(sent) + 1 = {1} /\ 1..Len(sent) = {}
      BY <2>1
    <3> QED  BY <2>3, <3>1 DEF Layout
  <2> QED  BY <2>1, <2>3, <2>4 DEF EnvelopeInv
<1>2. EnvelopeInv /\ [Parse!Next]_Parse!vars => EnvelopeInv'
  <2> SUFFICES ASSUME EnvelopeInv, [Parse!Next]_Parse!vars  PROVE EnvelopeInv'
    OBVIOUS
  <2>1. CASE UNCHANGED Parse!vars
    <3>1. PICK at : Layout(at) /\ (state \in {"items", "ok"} => Understood(at))
      BY DEF EnvelopeInv
    <3>2. Layout(at)' /\ (state \in {"items", "ok"} => Understood(at))'
      BY <2>1, <3>1 DEF Parse!vars, Layout, Placed, Understood
    <3> QED  BY <2>1, <3>2 DEF EnvelopeInv, Parse!vars
  <2>2. ASSUME NEW item \in Parse!Item, Parse!Add(item)  PROVE EnvelopeInv'
    BY <2>2, AddKeeps
  <2>3. ASSUME NEW length \in 0..Len(body), Parse!Send(length)  PROVE EnvelopeInv'
    BY <2>3, SendKeeps
  <2>4. CASE Parse!Accept
    <3>1. PICK at : Layout(at) /\ Understood(at)
      BY <2>4 DEF EnvelopeInv, Parse!Accept
    <3>2. Layout(at)' /\ Understood(at)'
      BY <2>4, <3>1 DEF Parse!Accept, Layout, Placed, Understood
    <3> QED  BY <2>4, <3>2 DEF EnvelopeInv, Parse!Accept
  <2> QED
    BY <2>1, <2>2, <2>3, <2>4, EnvelopeHeaderKeeps, ReadItemKeeps
       DEF Parse!Next, Parse!Client, Parse!Server
<1> QED  BY <1>1, <1>2, PTL DEF Parse!Spec

\* For payloads of any signs and length, and any number of items: a complete body is
\* cut where its client put it together, and of one that broke off only the first
\* items are accepted, with a last one without a length shortened at most.
THEOREM EnvelopesAreUnderstood ==
  ASSUME Parse!EnvelopeAssumption PROVE Parse!Spec => []EnvelopeIsUnderstood
<1>1. EnvelopeInv => Parse!CutIsAPrefix
  <2> SUFFICES ASSUME EnvelopeInv, state = "ok"
               PROVE  /\ Len(items) <= Len(sent)
                      /\ \A k \in DOMAIN items :
                            \/ items[k] = sent[k].payload
                            \/ /\ k = Len(items)
                               /\ ~sent[k].framed
                               /\ items[k] = SubSeq(sent[k].payload, 1, Len(items[k]))
    BY DEF Parse!CutIsAPrefix
  <2>1. PICK at : Understood(at)  BY DEF EnvelopeInv
  <2>2. DOMAIN items = 1..Len(items)  BY DEF EnvelopeInv
  <2> QED  BY <2>1, <2>2 DEF Understood
<1>2. EnvelopeInv => Parse!CompleteIsUnderstood
  <2> SUFFICES ASSUME EnvelopeInv, state # "client", Len(bytes) >= Len(body) - 1
               PROVE  /\ state # "bad"
                      /\ state = "ok" => items = [k \in DOMAIN sent |-> sent[k].payload]
    BY DEF Parse!CompleteIsUnderstood, Parse!IsComplete
  <2>1. state # "bad"  BY DEF EnvelopeInv
  <2>2. ASSUME state = "ok"  PROVE items = [k \in DOMAIN sent |-> sent[k].payload]
    <3>1. PICK at : Layout(at) /\ Understood(at)  BY <2>2 DEF EnvelopeInv
    <3>2. /\ items \in Seq(Seq(Parse!Signs)) /\ Len(items) \in Nat
          /\ sent \in Seq(Parse!Item) /\ Len(sent) \in Nat
          /\ Len(bytes) \in Nat /\ Len(body) \in Nat /\ cursor > Len(bytes)
      BY <2>2 DEF EnvelopeInv
    <3> DEFINE n == Len(items) + 1
    <3>3. Len(items) <= Len(sent)  BY <3>1 DEF Understood
    <3>4. n \in 1..Len(sent) + 1 /\ at[n] \in Nat
      <4>1. n \in 1..Len(sent) + 1  BY <3>2, <3>3
      <4> QED  BY <3>1, <4>1 DEF Layout
    <3>5. at[n] > Len(bytes)
      <4> SUFFICES ASSUME at[n] <= Len(bytes)  PROVE FALSE
        BY <3>2, <3>4
      <4>1. cursor = at[n]  BY <3>1 DEF Understood
      <4> QED  BY <3>2, <3>4, <4>1
    <3> HIDE DEF n
    <3>6. n = Len(sent) + 1
      <4> SUFFICES ASSUME n # Len(sent) + 1  PROVE FALSE
        OBVIOUS
      <4>1. n < Len(sent) + 1 /\ Len(sent) + 1 \in 1..Len(sent) + 1  BY <3>2, <3>4
      <4>2. at[n] + 3 <= at[Len(sent) + 1] /\ at[Len(sent) + 1] = Len(body) + 1
        BY <3>1, <3>4, <4>1 DEF Layout
      <4> QED  BY <3>2, <3>4, <3>5, <4>2
    <3>7. Len(items) = Len(sent)  BY <3>2, <3>6 DEF n
    <3>8. ASSUME NEW k \in 1..Len(items)  PROVE items[k] = sent[k].payload
      <4> SUFFICES ASSUME k = Len(items), at[k + 1] > Len(bytes) + 2  PROVE FALSE
        BY <3>1 DEF Understood
      <4>1. at[k + 1] = Len(body) + 1  BY <3>1, <3>7 DEF Layout
      <4> QED  BY <3>2, <4>1
    <3>9. items = [k \in 1..Len(items) |-> items[k]] /\ DOMAIN sent = 1..Len(sent)
      BY <3>2
    <3> QED  BY <3>7, <3>8, <3>9
  <2> QED  BY <2>1, <2>2
<1>3. EnvelopeInv => EnvelopeIsUnderstood
  BY <1>1, <1>2 DEF EnvelopeIsUnderstood, Parse!EnvelopeIsUnderstood
<1> QED  BY <1>3, EnvelopeInvariant, PTL

=============================================================================
