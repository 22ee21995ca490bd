\* The budget on two pods over two months: liveness.
SPECIFICATION FairSpec
CONSTANTS
    p1 = p1
    p2 = p2
    r1 = r1
    r2 = r2
    r3 = r3
    Pods = {p1, p2}
    Requests = {r1, r2, r3}
    PodOf <- MCPodOf
    Budget = 1
    Costs = {0, 1}
    Ttl = 1
    LastMonth = 2
    MaxLost = 0
PROPERTIES
    RefusalsAreReconsidered
    BudgetIsEnforced
