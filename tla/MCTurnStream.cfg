CONSTANTS
    m1 = m1
    m2 = m2
    x = x
    y = y
    z = z
    Messages = {m1, m2}
    Tools = {x, y, z}
    Unnamed = {y, z}
    MaxSteps = 4
SPECIFICATION FairSpec
INVARIANTS TypeOK StreamWellFormed TraceTellsStream
PROPERTY KeepsProtocol
