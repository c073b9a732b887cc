\* The query language and metric queries.
CONSTANTS
    None = None
    off = off
    Star = Star
    Bytes <- MCBytes
    MaxValue = 4
    MaxPattern = 4
SPECIFICATION SuiteSpec
CHECK_DEADLOCK FALSE
INVARIANTS
    ParserIsRight
    WildcardIsRight
    AtomsAreRead
    HintsHiddenOnlyInLists
    MetricsAddUp
