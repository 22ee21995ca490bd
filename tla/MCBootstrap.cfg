\* The bootstrap script: three command lines, then the calm.
SPECIFICATION FairSpec
CONSTANTS
    dev = dev
    prod = prod
    None = None
    Envs = {dev, prod}
    Conventional = {dev}
    Dev = dev
    Invocations <- Everything
    MaxRuns = 3
INVARIANTS
    TypeOK
    AllInOrder
    UndisturbedRunsDeploy
PROPERTIES
    CompletionIsEarned
    RerunRecovers
