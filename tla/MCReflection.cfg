CONSTANTS
    r1 = r1
    r2 = r2
    Reflectors = {r1, r2}
    NumRows = 4
    Limit = 2
    FactLimit = 3
    DigestLines = 1
SPECIFICATION Spec
INVARIANTS TypeOK NothingLost ConsolidatedOnce
