-------------------------- MODULE RedisRateLimiter --------------------------
(* The rate limiter that the pods share (app/backend/src/auth/ratelimit.py,  *)
(* class RedisRateLimiter), for one tenant.                                 *)
(*                                                                          *)
(* Every method reads the clock once, at its start, and then sends commands  *)
(* one by one: the pipelines are not transactions, and requests of the same  *)
(* pod or of others interleave at every command.  A sorted set is a set of   *)
(* members, because a member determines its score.                          *)
(*                                                                          *)
(* Timestamps are ages, as in RateLimiter.  Two requests of the same tick    *)
(* read different times of it or the very same one: an instant is a tick and *)
(* one of the Instants in it, which are too close to tell apart at the end   *)
(* of the window.  The pods' clocks agree.  `expire(key, 120)' is left out:  *)
(* a key goes 120 s after the last zadd, when its members are out of the     *)
(* window.                                                                  *)
EXTENDS LimiterSettings

VARIABLES
    rl_req,    \* the set rl:req:<tenant>: an instant for each request let through
    rl_tok,    \* the set rl:tok:<tenant>: a count and an instant for each charge
    req        \* request |-> pc, the `now' of the method it is in, its tokens

vars == <<rl_req, rl_tok, req>>

MaxAge == Window + MaxDelay

Instant == [age : 0 .. MaxAge, at : Instants]

\* What a method started at `now' finds in its window, and what it removes:
\* zremrangebyscore(key, 0, now - 60) takes the cutoff itself.
InWindow(i, now) == i.age < now.age + Window

\* Mutant: a request is let through when the window is just full.
RpmExceededLate(count) == count > RpmLimit

RpmExceeded(count) == count >= RpmLimit

TpmExceeded(used) == used >= TpmLimit

\* The sum of the counts encoded in the members.
Used(members) == SumFunction([m \in members |-> m.tokens])

\* The member f"{tokens}:{now}".
TokenMember(n, now) == [tokens |-> n, instant |-> now]

-----------------------------------------------------------------------------

At(r, pc) == req[r].pc = pc
Goes(r, pc) == req' = [req EXCEPT ![r].pc = pc]

NoInstant == [age |-> 0, at |-> CHOOSE i \in Instants : TRUE]
Idle == [pc |-> "idle", now |-> NoInstant, tokens |-> 0]
Ends(r) == req' = [req EXCEPT ![r] = Idle]

\* A method starts and reads the clock: now = time.time().
ReadsClock(r, pc, n) ==
    \E i \in Instants :
        req' = [req EXCEPT ![r] = [pc |-> pc, now |-> [age |-> 0, at |-> i], tokens |-> n]]

\* check_request: the pipeline's two commands, then the decision, then zadd.
CheckRequest(r) ==
    /\ At(r, "idle")
    /\ ReadsClock(r, "prune_requests", 0)
    /\ UNCHANGED <<rl_req, rl_tok>>

PruneRequests(r) ==
    /\ At(r, "prune_requests")
    /\ rl_req' = {m \in rl_req : InWindow(m, req[r].now)}
    /\ Goes(r, "count_requests")
    /\ UNCHANGED rl_tok

CountRequests(r) ==
    /\ At(r, "count_requests")
    /\ \/ RpmExceeded(Cardinality(rl_req)) /\ Ends(r)
       \/ ~RpmExceeded(Cardinality(rl_req)) /\ Goes(r, "add_request")
    /\ UNCHANGED <<rl_req, rl_tok>>

AddRequest(r) ==
    /\ At(r, "add_request")
    /\ rl_req' = rl_req \cup {req[r].now}
    /\ Goes(r, "check_tokens")
    /\ UNCHANGED rl_tok

\* check_tokens: the answer of the pipeline is dropped, and the members are
\* read by a command of its own.
CheckTokens(r) ==
    /\ At(r, "check_tokens")
    /\ ReadsClock(r, "prune_tokens", 0)
    /\ UNCHANGED <<rl_req, rl_tok>>

PruneTokens(r) ==
    /\ At(r, "prune_tokens")
    /\ rl_tok' = {m \in rl_tok : InWindow(m.instant, req[r].now)}
    /\ Goes(r, "sum_tokens")
    /\ UNCHANGED rl_req

SumTokens(r) ==
    /\ At(r, "sum_tokens")
    /\ \/ TpmExceeded(Used(rl_tok)) /\ Ends(r)
       \/ ~TpmExceeded(Used(rl_tok)) /\ req' = [req EXCEPT ![r] = [Idle EXCEPT !.pc = "in_flight"]]
    /\ UNCHANGED <<rl_req, rl_tok>>

\* record_tokens after the provider's answer; nothing for an empty one.
RecordTokens(r, n) ==
    /\ At(r, "in_flight")
    /\ \/ n > 0 /\ ReadsClock(r, "add_tokens", n)
       \/ n = 0 /\ Ends(r)
    /\ UNCHANGED <<rl_req, rl_tok>>

AddTokens(r) ==
    /\ At(r, "add_tokens")
    /\ rl_tok' = rl_tok \cup {TokenMember(req[r].tokens, req[r].now)}
    /\ Ends(r)
    /\ UNCHANGED rl_req

\* The request ends where it stands: its pod stops, a command of Redis raises,
\* or it fails at the provider.
Abandon(r) ==
    /\ ~At(r, "idle")
    /\ Ends(r)
    /\ UNCHANGED <<rl_req, rl_tok>>

\* The clock, which bounds how long a method may take.
InMethod(r) == req[r].pc \notin {"idle", "in_flight", "check_tokens"}

Older(i) == [i EXCEPT !.age = IF @ = MaxAge THEN @ ELSE @ + 1]

Tick ==
    /\ \A r \in Requests : InMethod(r) => req[r].now.age < MaxDelay
    /\ rl_req' = {Older(m) : m \in rl_req}
    /\ rl_tok' = {[m EXCEPT !.instant = Older(@)] : m \in rl_tok}
    /\ req' = [r \in Requests |->
                  IF InMethod(r) THEN [req[r] EXCEPT !.now = Older(@)] ELSE req[r]]

Init ==
    /\ rl_req = {}
    /\ rl_tok = {}
    /\ req = [r \in Requests |-> Idle]

Next ==
    \/ \E r \in Requests :
          \/ CheckRequest(r) \/ PruneRequests(r) \/ CountRequests(r) \/ AddRequest(r)
          \/ CheckTokens(r) \/ PruneTokens(r) \/ SumTokens(r)
          \/ \E n \in TokenCounts : RecordTokens(r, n)
          \/ AddTokens(r)
          \/ Abandon(r)
    \/ Tick

Spec == Init /\ [][Next]_vars

-----------------------------------------------------------------------------
(* Properties                                                               *)

TypeOK ==
    /\ rl_req \subseteq Instant
    /\ rl_tok \subseteq [tokens : TokenCounts \ {0}, instant : Instant]
    /\ req \in [Requests ->
          [pc : {"idle", "prune_requests", "count_requests", "add_request", "check_tokens",
                 "prune_tokens", "sum_tokens", "in_flight", "add_tokens"},
           now : [age : 0 .. MaxDelay, at : Instants],
           tokens : TokenCounts]]

Now == [age |-> 0]

RequestsInWindow == {m \in rl_req : InWindow(m, Now)}
TokensInWindow == {m \in rl_tok : InWindow(m.instant, Now)}

\* The count and the zadd are commands of their own, so requests counted
\* together all get in; but a window never holds more than the limit and the
\* requests that can be between the two commands (check_request).
RequestOvershootBounded ==
    RpmLimit > 0 => Cardinality(RequestsInWindow) <= RpmLimit - 1 + Cardinality(Requests)

\* Tokens overshoot by the completions in flight, and no more.
TokenOvershootBounded ==
    TpmLimit > 0 => Used(TokensInWindow) <= TokenBound
=============================================================================
