\* Keys on two pods, one of them seeded: what a pod accepts and lists.
SPECIFICATION Spec
CONSTANTS
    demo_key = demo_key
    demo = demo
    Pods = {p1, p2}
    Keys = {demo_key, k1, k2}
    Tenants = {demo, acme}
    Limits = {low, high}
    Seed <- MCSeed
INVARIANTS
    TypeOK
    GoodKeysAreListed
PROPERTY ImplementsKeyContract
