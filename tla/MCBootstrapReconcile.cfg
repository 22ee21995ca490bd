\* The bootstrap script: what reconcile does to the secret.
SPECIFICATION Spec
CONSTANTS
    dev = dev
    prod = prod
    None = None
    Envs = {dev, prod}
    Conventional = {dev}
    Dev = dev
    Invocations <- Everything
    MaxRuns = 2
PROPERTY ReconcileKeepsSecret
