\* Both limiters: quotas, overshoot and Retry-After.
SPECIFICATION Spec
CONSTANTS
    Requests = {r1, r2}
    Window = 2
    RpmLimit = 2
    TpmLimit = 2
    TokenCounts = {0, 1, 2}
    Instants = {1, 2}
    MaxDelay = 1
SYMMETRY Symmetry
INVARIANTS
    TypeOK
    RequestOvershootBounded
    TokenOvershootBounded
PROPERTIES
    KeepsRequestQuota
    RetryAfterSuffices
