SPECIFICATION FairSpec
CONSTANTS
    Runs = {p1, p2}
    Records = {1, 2}
    Probes = {3}
    Commands = {"health", "reset", "verify", "check"}
INVARIANTS TypeOK Replayable
PROPERTIES Terminates Refines
CHECK_DEADLOCK FALSE
