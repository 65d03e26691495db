CONSTANTS
    cli = cli
    server = server
    op1 = op1
    op2 = op2
    k1 = k1
    k2 = k2
    Callers = {cli, server}
    Operators = {op1}
    Keys = {k1, k2}
    MaxRecords = 2
    Expiring = TRUE
SPECIFICATION FairSpec
INVARIANTS TypeOK ProceedsPerApproval
PROPERTIES ProceedsOnlyAsApproved DecisionConsumed
