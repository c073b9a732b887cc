CONSTANTS
    older = older
    newer = newer
    metric = metric
    oops = oops
    requests = requests
    sent = sent
    demo = demo
    other = other
    p1 = p1
    p2 = p2
    None = None
    Records = {older, metric}
    ProjectOf <- OneProject
    SignalOf <- SumSignalOf
    IssueOf <- SumIssueOf
    StreamOf <- SumStreamOf
    TimeOf <- MCTimeOf
    Names = {demo}
    Clock = {1}
    DayLength = 1
    Parts = {p1, p2}
    Target = 1
    Safe = TRUE
    ChunkSize = 2
    Crashes = FALSE
    CallsFail = FALSE
    MaxProjects = 1
    MaxSeen = 2
SPECIFICATION Spec
PROPERTIES TargetReached
