SPECIFICATION Building
CONSTANTS
    Names = {n1, n2}
    RecordIds = {r1, r2}
    Blank = Blank
    MaxEntries = 2
SYMMETRY Renaming
INVARIANTS EquivalentMeansIdentical
CHECK_DEADLOCK FALSE
