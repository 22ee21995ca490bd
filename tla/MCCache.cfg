\* Both caches: what a hit is, and what stays in the cache.
SPECIFICATION Spec
CONSTANTS
    Requests = {r1, r2}
    Queries <- MCQueries
    Models <- MCModels
    Texts <- MCTexts
    Similarity <- MCSimilarity
    Threshold = 9
    Ttl = 1
    MaxEntries = 2
SYMMETRY Symmetry
INVARIANTS
    TypeOK
    RecentlyUsedStay
PROPERTY ImplementsAnswerCache
