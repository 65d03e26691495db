CONSTANTS
    p1 = p1
    p2 = p2
    w1 = w1
    w2 = w2
    w3 = w3
    local = local
    cloud = cloud
    guarded = guarded
    Processes = {p1, p2}
    Walks = {w1, w2, w3}
    Home <- MCHome
    Kind <- MCKind
    Refs = {local, cloud, guarded}
    Chains <- MCChains
    Cost <- MCCost
    MaxCost = 2
    Policies <- MCPolicies
    DailyCeiling = 2
    MonthlyCeiling = 3
    MaxDay = 2
    MonthStart <- MCMonthStart
    MonthEnd <- MCMonthEnd
SPECIFICATION Spec
INVARIANTS TypeOK CeilingKept DispatchesCharged DispatchesPermitted
