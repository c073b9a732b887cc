---------------------------- MODULE IngestHandlers ----------------------------
(***************************************************************************)
(* The HTTP handlers of the three ingest protocols (src/src/ingest):       *)
(* the order of their checks, the project they read before a body is       *)
(* decoded, the hand-over to the writer and the answer, while the project  *)
(* may be removed at any moment.  IngestWriter has the writer and its      *)
(* queue; here the queue only has or has not room, and a batch is written  *)
(* or fails.  What an answer says depends on the durability: in safe mode  *)
(* the handler waits for the writer, in fast mode it does not.             *)
(*                                                                         *)
(* A request is [protocol, key, envelope_key, media, encoding, body].  A   *)
(* key is the project's, another one, or missing; envelope_key is the key  *)
(* in the body of a Sentry envelope.                                       *)
(***************************************************************************)
EXTENDS Naturals, FiniteSets

CONSTANTS
    Clients,
    RequestsOf       \* the requests each client may send

Request ==
    [protocol : {"sentry", "ddtrace", "otlp"},
     key : {"project", "other", "missing"}, envelope_key : {"project", "other", "missing"},
     media : {"right", "other"}, encoding : {"identity", "unknown", "broken gzip"},
     body : {"good", "malformed", "empty"}]

HandlerAssumption == \A c \in Clients : RequestsOf[c] \subseteq Request

VARIABLES
    durability,      \* "safe" or "fast", as the process was started
    project,         \* "active", "deleting" or "gone"
    request,         \* what each client sends
    stage,           \* where its handler stands
    status,          \* the answer, 0 while there is none
    queue,           \* requests that wait for the writer
    stored,          \* requests whose records are in the store
    failed,          \* requests whose write failed: all the process keeps is a count
    refused          \* counters of the process: unauthorized, malformed, queue_full

handlerVars ==
    <<durability, project, request, stage, status, queue, stored, failed, refused>>

-----------------------------------------------------------------------------
(* Answers.                                                                *)

Answer(c, code) ==
    /\ stage' = [stage EXCEPT ![c] = "answered"]
    /\ status' = [status EXCEPT ![c] = code]

Refuse(c, code, reason) ==
    /\ Answer(c, code)
    /\ refused' = [refused EXCEPT ![reason] = @ + 1]
    /\ UNCHANGED <<project, request, queue, stored, failed>>

\* Refused without a counter.
TurnAway(c, code) ==
    /\ Answer(c, code)
    /\ UNCHANGED <<project, request, queue, stored, failed, refused>>

Continue(c, to) ==
    /\ stage' = [stage EXCEPT ![c] = to]
    /\ UNCHANGED <<project, request, status, queue, stored, failed, refused>>

-----------------------------------------------------------------------------
(* Sentry (ingest, sentry.rs).                                             *)

Wrong(key) == key = "other"

\* The project is read, and the key of the header or query compared with it.
SentryProject(c) ==
    /\ request[c].protocol = "sentry"
    /\ stage[c] = "sent"
    /\ IF project # "active" THEN TurnAway(c, 403)
       ELSE IF Wrong(request[c].key) THEN Refuse(c, 403, "unauthorized")
       ELSE Continue(c, "known")

SentryKeysAgree(r) ==
    /\ {r.key, r.envelope_key} # {"missing"}
    /\ ~Wrong(r.envelope_key)

\* The body is decoded and parsed before its key is looked at.
SentryBody(c) ==
    /\ request[c].protocol = "sentry"
    /\ stage[c] = "known"
    /\ IF request[c].encoding # "identity" \/ request[c].body = "malformed"
       THEN Refuse(c, 400, "malformed")
       ELSE IF ~SentryKeysAgree(request[c]) THEN Refuse(c, 403, "unauthorized")
       ELSE Continue(c, "parsed")

-----------------------------------------------------------------------------
(* DDTrace (authorize_request, authorize, traces_v04 and traces_v05).      *)

DatadogProject(c) ==
    /\ request[c].protocol = "ddtrace"
    /\ stage[c] = "sent"
    /\ IF request[c].media = "other" \/ request[c].encoding # "identity"
       THEN TurnAway(c, 415)
       ELSE IF project # "active" \/ request[c].key # "project"
       THEN Refuse(c, 403, "unauthorized")
       ELSE Continue(c, "known")

DatadogBody(c) ==
    /\ request[c].protocol = "ddtrace"
    /\ stage[c] = "known"
    /\ IF request[c].body = "malformed" THEN Refuse(c, 400, "malformed")
       ELSE Continue(c, "parsed")

-----------------------------------------------------------------------------
(* OTLP (authorize, request_body, traces, logs and metrics).               *)

OtlpProject(c) ==
    /\ request[c].protocol = "otlp"
    /\ stage[c] = "sent"
    /\ IF request[c].media = "other" THEN TurnAway(c, 415)
       ELSE IF project # "active" \/ request[c].key # "project"
       THEN Refuse(c, 401, "unauthorized")
       ELSE Continue(c, "known")

OtlpBody(c) ==
    /\ request[c].protocol = "otlp"
    /\ stage[c] = "known"
    /\ CASE request[c].encoding = "unknown" -> TurnAway(c, 415)
         [] request[c].encoding = "broken gzip" -> TurnAway(c, 400)
         [] OTHER -> CASE request[c].body = "malformed" -> Refuse(c, 400, "malformed")
                       [] request[c].body = "empty" -> TurnAway(c, 200)
                       [] OTHER -> Continue(c, "parsed")

-----------------------------------------------------------------------------
(* Every protocol: the hand-over to the writer and its outcomes.           *)

\* The store cannot be read; only Sentry calls it the client's fault.
LookupFails(c) ==
    /\ stage[c] = "sent"
    /\ request[c].media = "right"
    /\ TurnAway(c, IF request[c].protocol = "sentry" THEN 400 ELSE 500)

Enqueue(c) ==
    /\ queue' = queue \cup {c}
    /\ UNCHANGED <<project, request, stored, failed, refused>>

\* Mutant of Submit: the answer of safe mode does not wait either.
SubmitAndAnswer(c) ==
    /\ stage[c] = "parsed"
    /\ Enqueue(c)
    /\ Answer(c, 200)

\* Only safe mode asks for an acknowledgement; in fast mode the request is answered
\* as soon as its batch is in the queue.
Submit(c) ==
    /\ stage[c] = "parsed"
    /\ Enqueue(c)
    /\ IF durability = "safe"
       THEN stage' = [stage EXCEPT ![c] = "waiting"] /\ UNCHANGED status
       ELSE Answer(c, 200)

SubmitFull(c) ==
    /\ stage[c] = "parsed"
    /\ Refuse(c, 429, "queue_full")

SubmitClosed(c) ==
    /\ stage[c] = "parsed"
    /\ TurnAway(c, 503)

\* The client is gone, and its handler with it; the batch is not.
Disconnect(c) ==
    /\ stage[c] \in {"sent", "known", "parsed", "waiting"}
    /\ stage' = [stage EXCEPT ![c] = "abandoned"]
    /\ UNCHANGED <<project, request, status, queue, stored, failed, refused>>

Reply(c, code) ==
    IF stage[c] = "waiting" THEN Answer(c, code) ELSE UNCHANGED <<stage, status>>

\* Mutant of Written: the project is not read again.
WrittenUnchecked(c) == stored \cup {c}

\* The records of a project that is not active any more are left out.
Written(c) == IF project = "active" THEN stored \cup {c} ELSE stored

Write(c) ==
    /\ c \in queue
    /\ queue' = queue \ {c}
    /\ stored' = Written(c)
    /\ Reply(c, 200)
    /\ UNCHANGED <<project, request, failed, refused>>

\* Nobody is told in fast mode; the failure is counted.
WriteFails(c) ==
    /\ c \in queue
    /\ queue' = queue \ {c}
    /\ failed' = failed \cup {c}
    /\ Reply(c, 500)
    /\ UNCHANGED <<project, request, stored, refused>>

\* The project is marked, then everything it has is removed.
BeginRemoval ==
    /\ project = "active"
    /\ project' = "deleting"
    /\ UNCHANGED <<request, stage, status, queue, stored, failed, refused>>

FinishRemoval ==
    /\ project = "deleting"
    /\ project' = "gone"
    /\ stored' = {}
    /\ UNCHANGED <<request, stage, status, queue, failed, refused>>

-----------------------------------------------------------------------------

HandlersInit ==
    /\ durability \in {"safe", "fast"}
    /\ project = "active"
    /\ request \in {f \in [Clients -> UNION {RequestsOf[c] : c \in Clients}] :
                        \A c \in Clients : f[c] \in RequestsOf[c]}
    /\ stage = [c \in Clients |-> "sent"]
    /\ status = [c \in Clients |-> 0]
    /\ queue = {}
    /\ stored = {}
    /\ failed = {}
    /\ refused = [reason \in {"unauthorized", "malformed", "queue_full"} |-> 0]

Handle(c) ==
    \/ SentryProject(c) \/ SentryBody(c)
    \/ DatadogProject(c) \/ DatadogBody(c)
    \/ OtlpProject(c) \/ OtlpBody(c)
    \/ LookupFails(c)
    \/ Submit(c) \/ SubmitFull(c) \/ SubmitClosed(c)
    \/ Disconnect(c)
    \/ Write(c) \/ WriteFails(c)

HandlersNext ==
    /\ (\E c \in Clients : Handle(c)) \/ BeginRemoval \/ FinishRemoval
    /\ UNCHANGED durability

HandlersSpec == HandlersInit /\ [][HandlersNext]_handlerVars

-----------------------------------------------------------------------------
(* Properties.                                                             *)

Keys(r) == {r.key} \cup (IF r.protocol = "sentry" THEN {r.envelope_key} ELSE {})

\* What is stored came with the key of its project and with no other key,
\* wherever the protocol carries keys.
OnlyWithItsKey ==
    \A c \in stored : Keys(request[c]) \ {"missing"} = {"project"}

\* A refusal is final: a client that got an error of its own (4xx) or 503
\* finds nothing of its request in the store or on the way there.
RefusedIsNotStored ==
    \A c \in Clients : status[c] \in 400..499 \cup {503} => c \notin stored \cup queue

\* A success is true.  In safe mode the records are there, unless there were none
\* or the project has been removed; in fast mode they may also still wait for the
\* writer, or be lost to a write that failed, which is counted then.
SuccessIsTrue ==
    \A c \in Clients :
        status[c] = 200 => \/ c \in stored
                           \/ request[c].body = "empty"
                           \/ project # "active"
                           \/ durability = "fast" /\ c \in queue \cup failed

\* Together, in both modes: what is stored came with its key, and every answer is
\* true.
HandlersAnswerTruly == OnlyWithItsKey /\ RefusedIsNotStored /\ SuccessIsTrue

\* A request that was let in while the project was active adds nothing to it
\* once its removal has begun.
AddsNothing == project # "active" => stored' \subseteq stored

HandlersNothingAfterRemoval == [][AddsNothing]_handlerVars

=============================================================================
