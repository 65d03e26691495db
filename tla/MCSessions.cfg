CONSTANTS
    a2a = a2a
    mcp = mcp
    mcpOther = mcpOther
    t1 = t1
    t2 = t2
    q1 = q1
    q2 = q2
    Registries = {a2a, mcpOther}
    Foreign = {mcpOther}
    Threads = {t1, t2}
    Requests = {q1, q2}
    MaxSession = 4
    StoreFails = TRUE
SPECIFICATION FairSpec
INVARIANTS TypeOK ConversationsKept SerializedInMemory
PROPERTIES GoneForGood RequestsEnd
