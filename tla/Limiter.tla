------------------------------- MODULE Limiter -------------------------------
(* The rate limiter that get_rate_limiter chooses when it is first called    *)
(* (app/backend/src/auth/ratelimit.py): the one in memory, or, with a        *)
(* redis_url, the one that the pods share.  It is never changed afterwards.  *)
EXTENDS LimiterSettings

VARIABLES
    backend,                     \* "memory" or "redis"
    timestamps, token_events,    \* RateLimiter
    rl_req, rl_tok,              \* RedisRateLimiter
    req                          \* request |-> where it stands in its limiter

vars == <<backend, timestamps, token_events, rl_req, rl_tok, req>>

Memory == INSTANCE RateLimiter
Redis == INSTANCE RedisRateLimiter

Init ==
    /\ timestamps = <<>> /\ token_events = <<>>
    /\ rl_req = {} /\ rl_tok = {}
    /\ \/ backend = "memory" /\ Memory!Init
       \/ backend = "redis" /\ Redis!Init

Next ==
    \/ backend = "memory" /\ Memory!Next /\ UNCHANGED <<backend, rl_req, rl_tok>>
    \/ backend = "redis" /\ Redis!Next /\ UNCHANGED <<backend, timestamps, token_events>>

Spec == Init /\ [][Next]_vars

-----------------------------------------------------------------------------
(* Properties                                                               *)

\* Each limiter's state is as its class comment describes it, and the other one
\* is not used.
TypeOK ==
    \/ backend = "memory" /\ Memory!TypeOK /\ rl_req = {} /\ rl_tok = {}
    \/ backend = "redis" /\ Redis!TypeOK /\ timestamps = <<>> /\ token_events = <<>>

\* On Redis the count and the zadd are commands of their own, so requests
\* counted together all get in; but a window never holds more than the limit
\* and the requests that can be between the two commands (check_request).
RequestOvershootBounded == Redis!RequestOvershootBounded

\* On either limiter the tokens are checked before the call and charged after
\* it, so the limit can be exceeded: but by no more than the completions that
\* were in flight when the last request passed check_tokens (check_tokens,
\* record_tokens).
TokenOvershootBounded == Memory!TokenOvershootBounded /\ Redis!TokenOvershootBounded

\* In memory no window of time sees more than RpmLimit requests let through,
\* however arrivals, refusals and prunes fall in it (check_request).
KeepsRequestQuota == Memory!KeepsRequestQuota

\* A client that waits as long as Retry-After says finds a place in the window,
\* unless somebody else took it (InMemoryRateLimiter.check_request).
RetryAfterSuffices == Memory!RetryAfterSuffices
=============================================================================
