SPECIFICATION FairSpec
CONSTANTS
    Demos = {d1, d2}
    RecordIds = {"r03", "r04"}
    Blank = ""
    Scenarios <- MCScenarios
    SeamCases <- MCSeamCases
INVARIANTS PrintedAgree ExitStatus
PROPERTIES Terminates
CHECK_DEADLOCK FALSE
