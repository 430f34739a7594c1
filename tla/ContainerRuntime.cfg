SPECIFICATION Spec
CONSTANTS
    one = one
    two = two
    None = None
    Sessions <- MCSessions
    MaxCalls = 2
INVARIANTS
    OneWriter
    NothingOutlives
PROPERTIES
    NothingAfterRefusal
CHECK_DEADLOCK FALSE
