\* The pipeline when Redis fails: what the docstring of _record_completion says.
SPECIFICATION Spec
CONSTANTS
    p1 = p1
    r1 = r1
    r2 = r2
    anonymous = anonymous
    t1 = t1
    t2 = t2
    large = large
    small = small
    snapshot = snapshot
    auto = auto
    ssn = ssn
    card = card
    Pods = {p1}
    Requests = {r1, r2}
    PodOf <- MCPodOf
    Tenants = {anonymous, t1, t2}
    TenantOf <- MCTenantOf
    Anonymous = anonymous
    AllowedModels <- MCAllowedModels
    Budgeted = {t1}
    Models = {large, small}
    Aliases = {auto}
    Names = {large, snapshot}
    Upstream <- MCUpstream
    Priced = {large}
    Items = {ssn, card}
    Asks <- MCAsks
    Similar <- MCSimilar
    Deployments <- MCDeployments
    MaxCompletions = 2
INVARIANT
    RecordingNeverRaises
