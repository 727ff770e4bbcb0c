SPECIFICATION FairSpec
CONSTANTS
    p1 = p1
    p2 = p2
    Runs = {p1, p2}
    Services = {"mysql", "postgres", "ldap"}
    Ids = {r1}
    Columns = {c, d}
    Blank = Blank
    Lines <- MCLines
INVARIANTS FailuresJoined SettledEverywhere VisitsApart
PROPERTIES Terminates Refines
CHECK_DEADLOCK FALSE
