CONSTANTS
    small = small
    large = large
    lone = lone
    r1 = r1
    r2 = r2
    r3 = r3
    None = None
    Batches = {small, large}
    Records = {r1, r2, r3}
    RecordsOf <- MCRecordsOf
    Safe = TRUE
    QueueCapacity = 2
    MaxBatchMessages = 2
    CallsFail = TRUE
    Crashes = TRUE
    MaxAttempts = 2
    MaxFailures = 1
SPECIFICATION FairSpec
PROPERTIES EveryRequestAnswered ShutdownCompletes
INVARIANTS TypeOK SyncedBeforeSuccess AcceptedCountsStored NothingForgotten
