\* What the ingest protocols make of requests.
CONSTANTS
    hits = hits
    clock = clock
    memory = memory
    None = None
    off = off
    Streams = {hits, clock, memory}
    Monotonic = {hits, clock}
    StartSent = {hits, memory}
    Safe = FALSE
    Growth <- Steps
    MaxTime = 3
    MaxBatch = 2
    Clients = {1, 2}
    RequestsOf <- MCRequestsOf
    Payloads <- MCPayloads
    MaxItems = 3
    Requests <- Exports
    MaxDeliveries = 5
SPECIFICATION SuiteSpec
CHECK_DEADLOCK FALSE
INVARIANTS
    NeverOvercounts
    DifferencesAreRight
    EnvelopeIsUnderstood
    ExportKeepsItems
    HandlersAnswerTruly
    WriterShutdownFlushes
PROPERTIES
    ExportRepeatAddsNothing
    HandlersNothingAfterRemoval
