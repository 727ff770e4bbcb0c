SPECIFICATION Spec
CONSTANTS
    Runs = {p1}
INVARIANTS CleanupReported
CHECK_DEADLOCK FALSE
