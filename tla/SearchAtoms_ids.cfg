\* Ids made of a digit and hexadecimal letters.
CONSTANTS
    Characters = {"1", "e", "f"}
    MaxLength = 4
SPECIFICATION Spec
CHECK_DEADLOCK FALSE
INVARIANT BareIdIsFound
