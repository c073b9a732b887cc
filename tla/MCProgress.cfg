\* What must come to an end.
CONSTANTS
    web = web
    sentry = sentry
    otlp = otlp
    None = None
    Requested = Requested
    Star = Star
    off = off
    Listeners = {web, sentry, otlp}
    Ingest = {sentry, otlp}
    Control = web
    MaxRequests = 3
SPECIFICATION FairSuite
CHECK_DEADLOCK FALSE
INVARIANT EndsInOrder
PROPERTIES
    Ends
    LiveShutdownCompletes
    LiveHeardComesToShow
    LoopsEnd
