\* The budget on two pods: how far it can be overspent.
SPECIFICATION Spec
CONSTANTS
    p1 = p1
    p2 = p2
    r1 = r1
    r2 = r2
    r3 = r3
    Pods = {p1, p2}
    Requests = {r1, r2, r3}
    PodOf <- MCPodOf
    Budget = 2
    Costs = {0, 1, 2}
    Ttl = 1
    LastMonth = 1
    MaxLost = 1
INVARIANTS
    TypeOK
    SpendBounded
