SPECIFICATION FairSpec
CONSTANTS
    Runs = {p1}
    Records = {1}
    Probes = {2}
    Commands = {"reset"}
PROPERTIES TimeoutStopsChanges
CHECK_DEADLOCK FALSE
