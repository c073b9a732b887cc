CONSTANTS
    older = older
    newer = newer
    metric = metric
    oops = oops
    requests = requests
    sent = sent
    demo = demo
    other = other
    p1 = p1
    p2 = p2
    None = None
    Records = {older, metric}
    ProjectOf <- TwoProjects
    SignalOf <- MCSignalOf
    IssueOf <- MCIssueOf
    StreamOf <- MCStreamOf
    TimeOf <- MCTimeOf
    Names = {demo, other}
    Clock = {1, 2}
    DayLength = 2
    Parts = {p1, p2}
    Target = 1
    Safe = TRUE
    ChunkSize = 1
    Crashes = TRUE
    CallsFail = FALSE
    MaxProjects = 2
    MaxSeen = 2
SPECIFICATION FairSpec
PROPERTIES
    JobEnds
    RemovalCompletes
    KeepsItsPromise
