CONSTANTS
    small = small
    large = large
    lone = lone
    r1 = r1
    r2 = r2
    r3 = r3
    None = None
    Batches = {small, large, lone}
    Records = {r1, r2, r3}
    RecordsOf <- MCRecordsOf
    Safe = FALSE
    QueueCapacity = 2
    MaxBatchMessages = 2
    CallsFail = FALSE
    Crashes = FALSE
    MaxAttempts = 1
    MaxFailures = 1
SPECIFICATION Spec
INVARIANTS DiagnosticsFlushed
