SPECIFICATION FairSpec
CONSTANTS
    Runs = {p1, p2}
    Ids = {r1, r2}
    Commands = {"health", "reset", "verify", "check"}
INVARIANTS TypeOK Replayable Settled
PROPERTIES Terminates Refines
CHECK_DEADLOCK FALSE
