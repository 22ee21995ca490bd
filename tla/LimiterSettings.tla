--------------------------- MODULE LimiterSettings ---------------------------
(* What both rate limiters of app/backend/src/auth/ratelimit.py are given:   *)
(* the limits of one tenant (the windows of different tenants share nothing) *)
(* and the requests it makes.                                               *)
EXTENDS Integers, SequencesExt

CONSTANTS
    Requests,      \* slots for concurrent requests of the tenant
    Window,        \* 60 seconds
    RpmLimit,      \* tenant.rpm_limit
    TpmLimit,      \* tenant.tpm_limit
    TokenCounts,   \* the sizes of a completion, 0 among them
    Instants,      \* RedisRateLimiter: distinguishable times within a tick
    MaxDelay       \* RedisRateLimiter, a bound: the ticks a method may take

ASSUME WindowAssumption == Window \in Nat \ {0}
ASSUME LimitsAssumption == RpmLimit \in Nat /\ TpmLimit \in Nat
ASSUME RequestsAssumption == IsFiniteSet(Requests)
ASSUME TokensAssumption ==
    /\ TokenCounts \subseteq Nat /\ 0 \in TokenCounts
    /\ \E n \in TokenCounts : \A k \in TokenCounts : k <= n
ASSUME DelayAssumption == MaxDelay \in Nat
ASSUME InstantsAssumption == Instants # {}

MaxTokens == CHOOSE n \in TokenCounts : \A k \in TokenCounts : k <= n

\* How far the tokens may overshoot their limit: by the completions that can be
\* in flight together.
TokenBound == TpmLimit - 1 + MaxTokens * Cardinality(Requests)
=============================================================================
