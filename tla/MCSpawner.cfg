CONSTANTS
    d1 = d1
    d2 = d2
    p1 = p1
    p2 = p2
    p3 = p3
    Direct = {d1}
    Parallel = {p1, p2, p3}
    Refused = {p3}
    MaxConcurrent = 2
    BatchMax = 2
    MaxFinished = 1
SPECIFICATION FairSpec
INVARIANTS TypeOK InFlightBooked RecordTellsOutcome
PROPERTIES BatchTripsOnlyBesideDirect BatchAnswered
