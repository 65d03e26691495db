CONSTANTS
    cli = cli
    server = server
    op1 = op1
    op2 = op2
    k1 = k1
    k2 = k2
    Callers = {cli, server}
    Operators = {op1}
    Keys = {k1}
    MaxRecords = 1
    Expiring = TRUE
SPECIFICATION Spec
INVARIANT ApprovalUsedOnce
