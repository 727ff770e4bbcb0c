SPECIFICATION FairSpec
CONSTANTS
    Runs = {p1, p2}
INVARIANTS GivenBack OwnFailures
PROPERTIES SuccessGivesBack Terminates
CHECK_DEADLOCK FALSE
