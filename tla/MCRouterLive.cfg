\* Failover with concurrent requests: liveness.
SPECIFICATION FairSpec
CONSTANTS
    p1 = p1
    p2 = p2
    Providers <- MCProviders
    Models <- MCLiveModels
    Aliases <- MCLiveAliases
    Candidates <- MCLiveCandidates
    Registered <- MCRegistered
    Listed <- MCListed
    Supported <- MCSupported
    DefaultModel <- MCDefaultModel
    InputPrice <- MCInputPrice
    Requests = {r1, r2}
    FallbackEnabled = TRUE
    FailureThreshold = 2
    RecoverySeconds = 1
PROPERTIES
    EveryRequestEnds
    OpenBreakersRecover
