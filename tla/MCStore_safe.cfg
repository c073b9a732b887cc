CONSTANTS
    older = older
    newer = newer
    metric = metric
    oops = oops
    requests = requests
    sent = sent
    demo = demo
    other = other
    p1 = p1
    p2 = p2
    None = None
    Records = {older, metric}
    ProjectOf <- OneProject
    SignalOf <- MCSignalOf
    IssueOf <- MCIssueOf
    StreamOf <- MCStreamOf
    TimeOf <- MCTimeOf
    Names = {demo}
    Clock = {1}
    DayLength = 1
    Parts = {p1, p2}
    Target = 2
    Safe = TRUE
    ChunkSize = 1
    Crashes = TRUE
    CallsFail = TRUE
    MaxProjects = 2
    MaxSeen = 2
SPECIFICATION Spec
SYMMETRY PartSymmetry
INVARIANTS
    TypeOK
    ManifestFilesIntact
    NoOrphanKeys
    Consistent
PROPERTIES
    IdsNeverReused
    OpenRepairs
