\* The exact cache: requests that differ in what cache_key leaves out.
SPECIFICATION Spec
CONSTANTS
    Requests = {r1, r2}
    Queries <- MCUnhashedQueries
    Models <- MCModels
    Texts <- MCTexts
    Similarity <- MCSimilarity
    Threshold = 9
    Ttl = 1
    MaxEntries = 2
INVARIANT HitsAreExact
