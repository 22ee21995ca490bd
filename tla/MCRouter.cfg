\* Failover with concurrent requests: safety.
SPECIFICATION Spec
CONSTANTS
    p1 = p1
    p2 = p2
    Providers <- MCProviders
    Models <- MCModels
    Aliases <- MCAliases
    Candidates <- MCCandidates
    Registered <- MCRegistered
    Listed <- MCListed
    Supported <- MCSupported
    DefaultModel <- MCDefaultModel
    InputPrice <- MCInputPrice
    Requests = {r1, r2}
    FallbackEnabled = TRUE
    FailureThreshold = 2
    RecoverySeconds = 2
INVARIANTS
    BreakersConsistent
    NeverFailsUntried
    Inv
    ChainIsResolved
PROPERTIES
    CallsOnlyAllowedProviders
    RefusesOnlyWhenUnavailable
    ImplementsContract
    FirstCallIsCheapest
