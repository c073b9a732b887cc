\* Values that have a star of their own.
CONSTANTS
    Star = Star
    Bytes = {Star, "a"}
    MaxValue = 4
    MaxPattern = 4
SPECIFICATION Spec
CHECK_DEADLOCK FALSE
INVARIANT NoIsRight
