\* What readers see while the store moves on.
CONSTANTS
    older = older
    newer = newer
    oops = oops
    demo = demo
    p1 = p1
    p2 = p2
    None = None
    Requested = Requested
    off = off
    Records = {older, newer}
    ProjectOf <- MCProjectOf
    SignalOf <- MCSignalOf
    IssueOf <- MCIssueOf
    StreamOf <- MCStreamOf
    TimeOf <- MCTimeOf
    Names = {demo}
    Clock = {1}
    DayLength = 1
    Parts = {p1, p2}
    Target = 2
    Safe = TRUE
    ChunkSize = 2
    Crashes = FALSE
    CallsFail = FALSE
    MaxProjects = 1
    MaxSeen = 3
    Reads = {"search", "metric", "get", "issues", "status"}
    Tables = {"logs", "traces"}
    Capacity = 1
    WireCapacity = 2
    MaxCommits = 2
    MaxSwitches = 1
    MaxBreaks = 1
    MaxFailures = 1
    PageRecords = {1, 2, 3, 4, 5}
    Rank <- MCRank
    Ms <- MCMs
    Matching = {1, 2, 3, 4, 5}
    Start = 1
    End = 2
    Limit = 2
    IssueIds = {1, 2, 3}
    Times = {1, 2, 3}
    Errors = {"early", "late", "tied"}
    ErrorTime <- MCErrorTime
    Issue = oops
    MaxArrivals = 4
SPECIFICATION SuiteSpec
CHECK_DEADLOCK FALSE
SYMMETRY PartSymmetry
INVARIANTS
    AnswersAreRight
    PagesAreComplete
    IssuesAreListed
    LivePageIsCurrent
    GetFindsWhatStays
PROPERTIES
    FailsOnlyWhenUnpublished
