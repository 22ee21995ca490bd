----------------------------- MODULE RateLimiter -----------------------------
(* The in-memory rate limiter (app/backend/src/auth/ratelimit.py, class      *)
(* InMemoryRateLimiter) as get_current_tenant and _record_completion use it, *)
(* for one tenant.                                                          *)
(*                                                                          *)
(* None of its methods awaits anything, so check_request and check_tokens    *)
(* are one step of the arriving request, and record_tokens one step at its   *)
(* end.  Time is counted in ticks, and an event carries its age instead of   *)
(* its timestamp; an age beyond the window, at which the event waits only to *)
(* be pruned, stays at Window + 1.                                          *)
EXTENDS LimiterSettings

VARIABLES
    timestamps,      \* ages of the requests let through, oldest first
    token_events,    \* the charges, oldest first
    req              \* request |-> where it stands, and its Retry-After

vars == <<timestamps, token_events, req>>

NoRetryAfter == 0

Idle == [pc |-> "idle", retry_after |-> NoRetryAfter]

\* prune(): events are popped from the left until the first that is in the
\* window, if there is one.
FromFirst(events, first) ==
    IF first = 0 THEN <<>> ELSE SubSeq(events, first, Len(events))

\* Mutant: the cutoff itself is pruned too.
PruneRequestsEarly(ts) == FromFirst(ts, SelectInSeq(ts, LAMBDA age : age < Window))

PruneRequests(ts) == FromFirst(ts, SelectInSeq(ts, LAMBDA age : age <= Window))
PruneTokens(es) == FromFirst(es, SelectInSeq(es, LAMBDA e : e.age <= Window))

\* Mutant: appendleft.
EnterLeft(events, e) == <<e>> \o events

Enter(events, e) == Append(events, e)

Used(es) == SumFunction([i \in DOMAIN es |-> es[i].tokens])

\* Mutant: the tokens are compared with the limit as if one more were free.
OverTokenLimitLate(es) == Used(es) > TpmLimit

OverTokenLimit(es) == Used(es) >= TpmLimit

\* Mutant: the header is rounded down.
RetryAfterRoundedDown(ts) == Window - Head(ts)

\* The Retry-After header: int(retry) + 1, with retry the time until the
\* oldest request is as old as the window.
RetryAfter(ts) == Window - Head(ts) + 1

\* The answer to a request over the limit: 429, but with rpm_limit 0 the deque
\* may be empty, and reading its first element raises.
RpmRefusal(ts) ==
    IF ts = <<>> THEN [pc |-> "server_error", retry_after |-> NoRetryAfter]
                 ELSE [pc |-> "rpm_limited", retry_after |-> RetryAfter(ts)]

-----------------------------------------------------------------------------

InFlight(r) == req[r].pc = "in_flight"

\* get_current_tenant: check_request, which takes the request's place in the
\* window at once, then check_tokens.
Arrive(r) ==
    LET ts == PruneRequests(timestamps)
        es == PruneTokens(token_events)
    IN  /\ ~InFlight(r)
        /\ token_events' = es
        /\ \/ /\ Len(ts) >= RpmLimit
              /\ timestamps' = ts
              /\ req' = [req EXCEPT ![r] = RpmRefusal(ts)]
           \/ /\ Len(ts) < RpmLimit
              /\ timestamps' = Enter(ts, 0)
              /\ req' = [req EXCEPT ![r] =
                    [pc |-> IF OverTokenLimit(es) THEN "tpm_limited" ELSE "in_flight",
                     retry_after |-> NoRetryAfter]]

\* _record_completion: record_tokens after the provider's answer.
Complete(r, n) ==
    /\ InFlight(r)
    /\ req' = [req EXCEPT ![r] = Idle]
    /\ \/ /\ n > 0
          /\ timestamps' = PruneRequests(timestamps)
          /\ token_events' = Enter(PruneTokens(token_events), [age |-> 0, tokens |-> n])
       \/ /\ n = 0
          /\ UNCHANGED <<timestamps, token_events>>

\* The request ends without a charge: 403, 502, 503, or a cache hit.
EndUncharged(r) ==
    /\ InFlight(r)
    /\ req' = [req EXCEPT ![r] = Idle]
    /\ UNCHANGED <<timestamps, token_events>>

Older(age) == IF age > Window THEN age ELSE age + 1

Tick ==
    /\ timestamps' = [i \in DOMAIN timestamps |-> Older(timestamps[i])]
    /\ token_events' = [i \in DOMAIN token_events |->
                           [token_events[i] EXCEPT !.age = Older(@)]]
    /\ UNCHANGED req

Init ==
    /\ timestamps = <<>>
    /\ token_events = <<>>
    /\ req = [r \in Requests |-> Idle]

Next ==
    \/ \E r \in Requests :
          \/ Arrive(r)
          \/ \E n \in TokenCounts : Complete(r, n)
          \/ EndUncharged(r)
    \/ Tick

Spec == Init /\ [][Next]_vars

-----------------------------------------------------------------------------
(* Properties                                                               *)

\* The deques hold ages in order, the newest last (_SlidingWindow), so that
\* prune() may stop at the first event inside the window.
TypeOK ==
    /\ timestamps \in Seq(0 .. Window + 1)
    /\ \A i, j \in DOMAIN timestamps : i < j => timestamps[i] >= timestamps[j]
    /\ token_events \in Seq([age : 0 .. Window + 1, tokens : TokenCounts \ {0}])
    /\ \A i, j \in DOMAIN token_events :
          i < j => token_events[i].age >= token_events[j].age
    /\ req \in [Requests -> [pc : {"idle", "in_flight", "rpm_limited", "tpm_limited",
                                   "server_error"},
                             retry_after : 0 .. Window + 1]]

\* No window of time sees more than RpmLimit requests let through, however
\* arrivals, refusals and prunes fall in it (check_request).
Quota == INSTANCE SlidingQuota WITH
    Limit  <- RpmLimit,
    passed <- [a \in 0 .. Window |->
                  Cardinality({i \in DOMAIN timestamps : timestamps[i] = a})]

KeepsRequestQuota == Quota!Spec

\* The token limit is checked before the call and charged after it, so it can
\* be exceeded: but by no more than the completions that were in flight when
\* the last request passed check_tokens.
TokenOvershootBounded ==
    TpmLimit > 0 => Used(PruneTokens(token_events)) <= TokenBound

\* A client that waits as long as Retry-After says finds a place in the
\* window, unless somebody else took it: at its boundary too, where an event
\* exactly as old as the window still counts.
RetryAfterSuffices ==
    [][\A r \in Requests : Arrive(r) /\ req'[r].pc = "rpm_limited" =>
          Cardinality({i \in DOMAIN timestamps' :
                          timestamps'[i] + req'[r].retry_after <= Window}) < RpmLimit]_vars
=============================================================================
