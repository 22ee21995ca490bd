---------------------------- MODULE LimiterProofs ----------------------------
(* What holds of both rate limiters whatever the limits, the window, the      *)
(* sizes of completions and the number of concurrent requests.               *)
EXTENDS Limiter, SequenceTheorems, FoldLemmas

-----------------------------------------------------------------------------
(* The constants                                                            *)

\* The largest completion, and the numbers the bounds are made of.
LEMMA MaxTokensIsLargest ==
    /\ MaxTokens \in Nat
    /\ \A n \in TokenCounts : n <= MaxTokens
<1>1. \E n \in TokenCounts : \A k \in TokenCounts : k <= n
  BY TokensAssumption
<1>2. MaxTokens \in TokenCounts /\ \A n \in TokenCounts : n <= MaxTokens
  BY <1>1 DEF MaxTokens
<1> QED
  BY <1>2, TokensAssumption

\* What the completions of n requests may charge, and one more.
LEMMA Charges ==
    ASSUME NEW n \in Nat, NEW k \in Nat, n <= k
    PROVE  /\ MaxTokens * n \in Nat
           /\ MaxTokens * n <= MaxTokens * k
           /\ MaxTokens * (n + 1) = MaxTokens * n + MaxTokens
<1>1. \A M, i, j \in Nat :
         /\ M * i \in Nat
         /\ i <= j => M * i <= M * j
         /\ M * (i + 1) = M * i + M
  OBVIOUS
<1> HIDE DEF MaxTokens
<1> QED
  BY <1>1, MaxTokensIsLargest

\* Sets of requests are finite, and no larger than all of them.
LEMMA SomeRequests ==
    ASSUME NEW P \in SUBSET Requests
    PROVE  /\ IsFiniteSet(P)
           /\ Cardinality(P) \in Nat
           /\ Cardinality(Requests) \in Nat
           /\ Cardinality(P) <= Cardinality(Requests)
BY RequestsAssumption, FS_Subset, FS_CardinalityType

-----------------------------------------------------------------------------
(* The limiter on Redis                                                     *)

\* The requests between zcard and zadd, and those whose tokens are still to be
\* charged.
Adding == {r \in Requests : Redis!At(r, "add_request")}
Charging == {r \in Requests : req[r].pc \in {"in_flight", "add_tokens"}}

\* What is sent is a charge.
ChargesSomething == \A r \in Requests : Redis!At(r, "add_tokens") => req[r].tokens # 0

\* Who is between the two commands has been counted already.
CountsAdding == RpmLimit > 0 => Cardinality(rl_req) + Cardinality(Adding) <= RpmLimit - 1 + Cardinality(Requests)

\* Who has passed check_tokens has been charged already, as much as can be.
CountsCharging == TpmLimit > 0 => Redis!Used(rl_tok) + MaxTokens * Cardinality(Charging) <= TokenBound

RedisInv ==
    /\ Redis!TypeOK
    /\ IsFiniteSet(rl_req) /\ IsFiniteSet(rl_tok)
    /\ ChargesSomething
    /\ CountsAdding
    /\ CountsCharging

\* The numbers of elements that the limiters use.
LEMMA Counts ==
    \A S : Redis!Cardinality(S) = Cardinality(S) /\ Memory!Cardinality(S) = Cardinality(S)
BY DEF Redis!Cardinality, Memory!Cardinality, Cardinality

\* The members of rl:tok:<tenant>.
Member == [tokens : TokenCounts \ {0}, instant : Redis!Instant]

Tokens(members) == [m \in members |-> m.tokens]

\* The sum that RedisRateLimiter uses.
LEMMA RedisSum == \A f : Redis!SumFunction(f) = SumFunctionOnSet(f, DOMAIN f)
BY DEF Redis!SumFunction, Redis!SumFunctionOnSet, Redis!FoldFunctionOnSet, Redis!MapThenFoldSet,
       SumFunctionOnSet, FoldFunctionOnSet, MapThenFoldSet

\* Used is the sum of the members' tokens.
LEMMA UsedIsSum ==
    ASSUME NEW A \in SUBSET Member, IsFiniteSet(A)
    PROVE  /\ Redis!Used(A) = SumFunctionOnSet(Tokens(A), A)
           /\ Redis!Used(A) \in Nat
           /\ \A m \in A : Tokens(A)[m] = m.tokens /\ m.tokens \in Nat
<1>1. Redis!Used(A) = SumFunctionOnSet(Tokens(A), A)
  <2>1. DOMAIN Tokens(A) = A
    BY DEF Tokens
  <2>2. Redis!Used(A) = Redis!SumFunction(Tokens(A))
    BY DEF Redis!Used, Tokens
  <2>3. Redis!SumFunction(Tokens(A)) = SumFunctionOnSet(Tokens(A), A)
    BY <2>1, RedisSum
  <2> QED
    BY <2>2, <2>3
<1>2. \A m \in A : Tokens(A)[m] = m.tokens /\ m.tokens \in Nat
  BY TokensAssumption DEF Member, Tokens
<1> QED
  BY <1>1, <1>2, SumNat

\* Fewer members, fewer tokens.
LEMMA UsedBySome ==
    ASSUME NEW B \in SUBSET Member, IsFiniteSet(B), NEW A \in SUBSET B
    PROVE  IsFiniteSet(A) /\ Redis!Used(A) \in Nat /\ Redis!Used(A) <= Redis!Used(B)
<1>1. IsFiniteSet(A) /\ A \in SUBSET Member
  BY FS_Subset
<1>2. \A m \in A : Tokens(A)[m] \in Nat /\ Tokens(A)[m] <= Tokens(B)[m]
  BY <1>1, UsedIsSum
<1>3. \A m \in B : Tokens(B)[m] \in Nat
  BY UsedIsSum
<1>4. SumFunctionOnSet(Tokens(A), A) <= SumFunctionOnSet(Tokens(B), B)
  BY <1>2, <1>3, SumMonotone
<1> QED
  BY <1>1, <1>4, UsedIsSum

\* One member more, which may be there already.
LEMMA UsedByOneMore ==
    ASSUME NEW A \in SUBSET Member, IsFiniteSet(A), NEW x \in Member
    PROVE  /\ A \cup {x} \in SUBSET Member /\ IsFiniteSet(A \cup {x})
           /\ Redis!Used(A \cup {x}) \in Nat
           /\ Redis!Used(A \cup {x}) <= Redis!Used(A) + x.tokens
<1> DEFINE B == A \cup {x}
<1>1. B \in SUBSET Member /\ IsFiniteSet(B)
  BY FS_AddElement
<1>2. Redis!Used(B) = SumFunctionOnSet(Tokens(B), B) /\ Redis!Used(B) \in Nat
  BY <1>1, UsedIsSum
<1>3. \A m \in B : Tokens(B)[m] = m.tokens /\ m.tokens \in Nat
  BY <1>1, UsedIsSum
<1>4. SumFunctionOnSet(Tokens(B), B) = Tokens(B)[x] + SumFunctionOnSet(Tokens(B), B \ {x})
  <2> HIDE DEF B
  <2>1. x \in B
    BY DEF B
  <2> QED
    BY <1>1, <1>3, <2>1, SumRemove
<1>5. SumFunctionOnSet(Tokens(B), B \ {x}) <= SumFunctionOnSet(Tokens(A), A)
  <2>1. \A m \in A : Tokens(A)[m] = m.tokens /\ m.tokens \in Nat
    BY UsedIsSum
  <2>2. B \ {x} \subseteq A
    OBVIOUS
  <2>3. \A m \in B \ {x} : Tokens(B)[m] \in Nat /\ Tokens(B)[m] <= Tokens(A)[m]
    <3> TAKE m \in B \ {x}
    <3>1. Tokens(B)[m] = m.tokens /\ m.tokens \in Nat /\ Tokens(A)[m] = m.tokens
      BY <1>3, <2>1, <2>2
    <3> QED
      BY <3>1
  <2> QED
    BY <2>1, <2>2, <2>3, SumMonotone
<1>6. SumFunctionOnSet(Tokens(B), B \ {x}) \in Nat
  <2>1. IsFiniteSet(B \ {x}) /\ \A m \in B \ {x} : Tokens(B)[m] \in Nat
    BY <1>1, <1>3, FS_Subset
  <2> QED
    BY <2>1, SumNat
<1>7. Redis!Used(A) = SumFunctionOnSet(Tokens(A), A) /\ Redis!Used(A) \in Nat
  BY UsedIsSum
<1>8. Tokens(B)[x] = x.tokens /\ x.tokens \in Nat
  BY <1>3
<1> QED
  BY <1>1, <1>2, <1>4, <1>5, <1>6, <1>7, <1>8

\* An instant a tick later.
LEMMA OlderInstant ==
    ASSUME NEW i \in Redis!Instant
    PROVE  Redis!Older(i) \in Redis!Instant
BY WindowAssumption, DelayAssumption DEF Redis!Older, Redis!Instant, Redis!MaxAge

Later(m) == [m EXCEPT !.instant = Redis!Older(@)]

\* Members that are older are as many tokens, and members that are the same
\* from then on are less.
LEMMA UsedLater ==
    ASSUME NEW A \in SUBSET Member, IsFiniteSet(A)
    PROVE  LET B == {Later(m) : m \in A}
           IN  /\ B \in SUBSET Member /\ IsFiniteSet(B)
               /\ Redis!Used(B) \in Nat /\ Redis!Used(B) <= Redis!Used(A)
<1> DEFINE B == {Later(m) : m \in A}
           f == [m \in A |-> Later(m)]
           h == [b \in B |-> CHOOSE m \in A : Later(m) = b]
<1>1. \A m \in A : Later(m) \in Member /\ Later(m).tokens = m.tokens
  <2> TAKE m \in A
  <2>1. m \in Member /\ m.instant \in Redis!Instant
    BY DEF Member
  <2>2. Redis!Older(m.instant) \in Redis!Instant
    BY <2>1, OlderInstant
  <2> QED
    BY <2>1, <2>2 DEF Member, Later
<1>2. B \in SUBSET Member
  BY <1>1
<1>3. f \in Surjection(A, B)
  BY DEF Surjection
<1>4. IsFiniteSet(B)
  BY <1>3, FS_Surjection
<1>5. \A b \in B : h[b] \in A /\ Later(h[b]) = b
  OBVIOUS
<1>6. h \in [B -> A] /\ \A b, c \in B : h[b] = h[c] => b = c
  BY <1>5
<1> HIDE DEF B, h, f
<1>7. \A b \in B : Tokens(B)[b] = b.tokens /\ b.tokens \in Nat
  BY <1>2, <1>4, UsedIsSum
<1>8. \A m \in A : Tokens(A)[m] = m.tokens /\ m.tokens \in Nat
  BY UsedIsSum
<1>9. \A b \in B : Tokens(B)[b] <= Tokens(A)[h[b]]
  BY <1>1, <1>5, <1>7, <1>8
<1>10. SumFunctionOnSet(Tokens(B), B) <= SumFunctionOnSet(Tokens(A), A)
  BY <1>4, <1>6, <1>7, <1>8, <1>9, SumInjection
<1>11. Redis!Used(B) = SumFunctionOnSet(Tokens(B), B) /\ Redis!Used(B) \in Nat
  BY <1>2, <1>4, UsedIsSum
<1>12. Redis!Used(A) = SumFunctionOnSet(Tokens(A), A)
  BY UsedIsSum
<1> QED
  BY <1>2, <1>4, <1>10, <1>11, <1>12 DEF B

\* No more instants than there were.
LEMMA InstantsLater ==
    ASSUME NEW A \in SUBSET Redis!Instant, IsFiniteSet(A)
    PROVE  LET B == {Redis!Older(i) : i \in A}
           IN  /\ B \in SUBSET Redis!Instant /\ IsFiniteSet(B)
               /\ Cardinality(B) \in Nat /\ Cardinality(B) <= Cardinality(A)
<1> DEFINE B == {Redis!Older(i) : i \in A}
           f == [i \in A |-> Redis!Older(i)]
<1>1. B \in SUBSET Redis!Instant
  BY OlderInstant
<1>2. f \in Surjection(A, B)
  BY DEF Surjection
<1>3. IsFiniteSet(B) /\ Cardinality(B) <= Cardinality(A)
  BY <1>2, FS_Surjection
<1> QED
  BY <1>1, <1>3, FS_CardinalityType

-----------------------------------------------------------------------------
(* The limiter on Redis: types                                              *)

Places == {"idle", "prune_requests", "count_requests", "add_request", "check_tokens",
           "prune_tokens", "sum_tokens", "in_flight", "add_tokens"}

Moment == [age : 0 .. MaxDelay, at : Instants]

Where == [pc : Places, now : Moment, tokens : TokenCounts]

\* TypeOK by its parts.
LEMMA RedisTypes ==
    Redis!TypeOK <=> rl_req \subseteq Redis!Instant /\ rl_tok \subseteq Member /\ req \in [Requests -> Where]
BY DEF Redis!TypeOK, Member, Where, Places, Moment

\* Where a request is that has ended.
LEMMA IdleIsSomewhere ==
    /\ Redis!Idle \in Where
    /\ Redis!Idle.pc = "idle" /\ Redis!Idle.tokens = 0
    /\ [Redis!Idle EXCEPT !.pc = "in_flight"] \in Where
    /\ [Redis!Idle EXCEPT !.pc = "in_flight"].pc = "in_flight"
<1>1. (CHOOSE i \in Instants : TRUE) \in Instants
  BY InstantsAssumption
<1>2. Redis!NoInstant \in Moment
  BY <1>1, DelayAssumption DEF Redis!NoInstant, Moment
<1>3. 0 \in TokenCounts
  BY TokensAssumption
<1> QED
  BY <1>2, <1>3 DEF Redis!Idle, Where, Places

\* What a step of the request r does to the requests: it goes to pc, and
\* nothing else changes.
Moves(r, pc) ==
    /\ req' \in [Requests -> Where]
    /\ req'[r].pc = pc
    /\ \A q \in Requests \ {r} : req'[q] = req[q]

\* A request that goes on within its method.
LEMMA GoesMoves ==
    ASSUME req \in [Requests -> Where], NEW r \in Requests, NEW pc \in Places, Redis!Goes(r, pc)
    PROVE  Moves(r, pc) /\ req'[r].now = req[r].now
<1>1. [req[r] EXCEPT !.pc = pc] \in Where
  BY DEF Where
<1>2. req' = [req EXCEPT ![r] = [req[r] EXCEPT !.pc = pc]]
  BY DEF Redis!Goes
<1> QED
  BY <1>1, <1>2 DEF Moves, Where

\* A request that ends.
LEMMA EndsMoves ==
    ASSUME req \in [Requests -> Where], NEW r \in Requests, Redis!Ends(r)
    PROVE  Moves(r, "idle")
BY IdleIsSomewhere DEF Moves, Redis!Ends

\* A request whose method starts.
LEMMA ReadsClockMoves ==
    ASSUME req \in [Requests -> Where], NEW r \in Requests, NEW pc \in Places, NEW n \in TokenCounts,
           Redis!ReadsClock(r, pc, n)
    PROVE  Moves(r, pc) /\ req'[r].tokens = n
<1>1. PICK i \in Instants : req' = [req EXCEPT ![r] = [pc |-> pc, now |-> [age |-> 0, at |-> i], tokens |-> n]]
  BY DEF Redis!ReadsClock
<1>2. [pc |-> pc, now |-> [age |-> 0, at |-> i], tokens |-> n] \in Where
  BY DelayAssumption DEF Where, Moment
<1> QED
  BY <1>1, <1>2 DEF Moves

\* The instant a request adds.
LEMMA NowIsInstant ==
    ASSUME req \in [Requests -> Where], NEW r \in Requests
    PROVE  /\ req[r].now \in Redis!Instant
           /\ req[r].tokens # 0 => Redis!TokenMember(req[r].tokens, req[r].now) \in Member
<1>1. req[r] \in Where
  OBVIOUS
<1>2. req[r].now \in Moment /\ req[r].tokens \in TokenCounts
  BY <1>1 DEF Where
<1>3. req[r].now \in Redis!Instant
  BY <1>2, WindowAssumption, DelayAssumption DEF Moment, Redis!Instant, Redis!MaxAge
<1> QED
  BY <1>2, <1>3 DEF Redis!TokenMember, Member

\* The clock does not take a method beyond its time.
LEMMA TickMoves ==
    ASSUME req \in [Requests -> Where], Redis!Tick
    PROVE  /\ req' \in [Requests -> Where]
           /\ \A r \in Requests : req'[r].pc = req[r].pc /\ req'[r].tokens = req[r].tokens
<1>1. req' = [r \in Requests |->
                 IF Redis!InMethod(r) THEN [req[r] EXCEPT !.now = Redis!Older(@)] ELSE req[r]]
  BY DEF Redis!Tick
<1>2. ASSUME NEW r \in Requests, Redis!InMethod(r)
      PROVE  [req[r] EXCEPT !.now = Redis!Older(@)] \in Where
  <2>1. req[r] \in Where /\ req[r].now \in Moment /\ req[r].now.age < MaxDelay
    BY <1>2 DEF Where, Redis!Tick
  <2>2. Redis!Older(req[r].now) = [req[r].now EXCEPT !.age = @ + 1]
    BY <2>1, WindowAssumption, DelayAssumption DEF Redis!Older, Redis!MaxAge, Moment
  <2>3. Redis!Older(req[r].now) \in Moment
    BY <2>1, <2>2, DelayAssumption DEF Moment
  <2> QED
    BY <2>1, <2>3 DEF Where
<1>3. \A r \in Requests : req'[r] \in Where
  BY <1>1, <1>2
<1>4. ASSUME NEW r \in Requests PROVE req'[r].pc = req[r].pc /\ req'[r].tokens = req[r].tokens
  <2>1. req[r] \in Where
    OBVIOUS
  <2> QED
    BY <1>1, <2>1 DEF Where
<1> QED
  BY <1>1, <1>3, <1>4

-----------------------------------------------------------------------------
(* The limiter on Redis: the steps                                          *)

\* What a step does to the sets of members and to the requests in them.  A
\* request has been counted before it is added, and let through before it is
\* charged.
Counted(r) ==
    /\ rl_req' = rl_req /\ rl_tok' = rl_tok
    /\ ~(Cardinality(rl_req) >= RpmLimit)
    /\ Moves(r, "add_request")
    /\ ~Redis!At(r, "in_flight") /\ ~Redis!At(r, "add_tokens")

Added(r) ==
    /\ Redis!At(r, "add_request") /\ Moves(r, "check_tokens")
    /\ rl_req' = rl_req \cup {req[r].now} /\ rl_tok' = rl_tok

LetThrough(r) ==
    /\ rl_req' = rl_req /\ rl_tok' = rl_tok
    /\ ~(Redis!Used(rl_tok) >= TpmLimit)
    /\ Moves(r, "in_flight")
    /\ ~Redis!At(r, "add_request")

Answered(r) ==
    /\ rl_req' = rl_req /\ rl_tok' = rl_tok
    /\ Redis!At(r, "in_flight") /\ Moves(r, "add_tokens") /\ req'[r].tokens # 0

Charged(r) ==
    /\ Redis!At(r, "add_tokens") /\ Moves(r, "idle")
    /\ rl_req' = rl_req
    /\ rl_tok' = rl_tok \cup {Redis!TokenMember(req[r].tokens, req[r].now)}

GoesOn(r) ==
    /\ rl_req' \subseteq rl_req /\ rl_tok' \subseteq rl_tok
    /\ \E pc \in Places \ {"add_request", "in_flight", "add_tokens"} : Moves(r, pc)

\* Every step is one of these, or the clock's.
LEMMA RedisSteps ==
    ASSUME req \in [Requests -> Where], Redis!Next
    PROVE  \/ \E r \in Requests :
                 Counted(r) \/ Added(r) \/ LetThrough(r) \/ Answered(r) \/ Charged(r) \/ GoesOn(r)
           \/ Redis!Tick
<1> SUFFICES ASSUME NEW r \in Requests,
                    \/ Redis!CheckRequest(r) \/ Redis!PruneRequests(r) \/ Redis!CountRequests(r)
                    \/ Redis!AddRequest(r) \/ Redis!CheckTokens(r) \/ Redis!PruneTokens(r)
                    \/ Redis!SumTokens(r)
                    \/ \E n \in TokenCounts : Redis!RecordTokens(r, n)
                    \/ Redis!AddTokens(r) \/ Redis!Abandon(r)
             PROVE  Counted(r) \/ Added(r) \/ LetThrough(r) \/ Answered(r) \/ Charged(r) \/ GoesOn(r)
  BY DEF Redis!Next
<1>0. 0 \in TokenCounts
  BY TokensAssumption
<1>a. Places \ {"add_request", "in_flight", "add_tokens"} =
         {"idle", "prune_requests", "count_requests", "check_tokens", "prune_tokens", "sum_tokens"}
  BY DEF Places
<1>1. CASE Redis!CheckRequest(r)
  <2>1. Moves(r, "prune_requests")
    BY <1>0, <1>1, ReadsClockMoves DEF Redis!CheckRequest, Places
  <2> QED
    BY <1>1, <1>a, <2>1 DEF Redis!CheckRequest, GoesOn
<1>2. CASE Redis!PruneRequests(r)
  <2>1. Moves(r, "count_requests")
    BY <1>2, GoesMoves DEF Redis!PruneRequests, Places
  <2> QED
    BY <1>2, <1>a, <2>1 DEF Redis!PruneRequests, GoesOn
<1>3. CASE Redis!CountRequests(r)
  <2>1. CASE Redis!Ends(r)
    BY <1>3, <1>a, <2>1, EndsMoves DEF Redis!CountRequests, GoesOn
  <2>2. CASE ~Redis!RpmExceeded(Cardinality(rl_req)) /\ Redis!Goes(r, "add_request")
    <3>1. Moves(r, "add_request")
      BY <2>2, GoesMoves DEF Places
    <3>2. ~(Cardinality(rl_req) >= RpmLimit)
      BY <2>2 DEF Redis!RpmExceeded
    <3> QED
      BY <1>3, <3>1, <3>2 DEF Redis!CountRequests, Counted, Redis!At
  <2>3. Redis!Cardinality(rl_req) = Cardinality(rl_req)
    BY Counts
  <2> QED
    BY <1>3, <2>1, <2>2, <2>3 DEF Redis!CountRequests
<1>4. CASE Redis!AddRequest(r)
  <2>1. Moves(r, "check_tokens")
    BY <1>4, GoesMoves DEF Redis!AddRequest, Places
  <2> QED
    BY <1>4, <2>1 DEF Redis!AddRequest, Added
<1>5. CASE Redis!CheckTokens(r)
  <2>1. Moves(r, "prune_tokens")
    BY <1>0, <1>5, ReadsClockMoves DEF Redis!CheckTokens, Places
  <2> QED
    BY <1>5, <1>a, <2>1 DEF Redis!CheckTokens, GoesOn
<1>6. CASE Redis!PruneTokens(r)
  <2>1. Moves(r, "sum_tokens")
    BY <1>6, GoesMoves DEF Redis!PruneTokens, Places
  <2> QED
    BY <1>6, <1>a, <2>1 DEF Redis!PruneTokens, GoesOn
<1>7. CASE Redis!SumTokens(r)
  <2>1. CASE Redis!Ends(r)
    BY <1>7, <1>a, <2>1, EndsMoves DEF Redis!SumTokens, GoesOn
  <2>2. CASE /\ ~Redis!TpmExceeded(Redis!Used(rl_tok))
             /\ req' = [req EXCEPT ![r] = [Redis!Idle EXCEPT !.pc = "in_flight"]]
    <3>1. Moves(r, "in_flight")
      BY <2>2, IdleIsSomewhere DEF Moves
    <3>2. ~(Redis!Used(rl_tok) >= TpmLimit)
      BY <2>2 DEF Redis!TpmExceeded
    <3> QED
      BY <1>7, <3>1, <3>2 DEF Redis!SumTokens, LetThrough, Redis!At
  <2> QED
    BY <1>7, <2>1, <2>2 DEF Redis!SumTokens
<1>8. ASSUME NEW n \in TokenCounts, Redis!RecordTokens(r, n) PROVE Answered(r) \/ GoesOn(r)
  <2>1. CASE Redis!Ends(r)
    BY <1>8, <1>a, <2>1, EndsMoves DEF Redis!RecordTokens, GoesOn
  <2>2. CASE n > 0 /\ Redis!ReadsClock(r, "add_tokens", n)
    <3>1. Moves(r, "add_tokens") /\ req'[r].tokens = n
      BY <2>2, ReadsClockMoves DEF Places
    <3> QED
      BY <1>8, <2>2, <3>1 DEF Redis!RecordTokens, Answered
  <2> QED
    BY <1>8, <2>1, <2>2 DEF Redis!RecordTokens
<1>9. CASE Redis!AddTokens(r)
  BY <1>9, EndsMoves DEF Redis!AddTokens, Charged
<1>10. CASE Redis!Abandon(r)
  BY <1>10, <1>a, EndsMoves DEF Redis!Abandon, GoesOn
<1> QED
  BY <1>1, <1>2, <1>3, <1>4, <1>5, <1>6, <1>7, <1>8, <1>9, <1>10

\* Requests go from place to place one at a time.
LEMMA AddingMoves ==
    ASSUME NEW r \in Requests, NEW pc, Moves(r, pc)
    PROVE  /\ pc = "add_request" => Adding' = Adding \cup {r}
           /\ pc # "add_request" => Adding' = Adding \ {r}
           /\ pc \in {"in_flight", "add_tokens"} => Charging' = Charging \cup {r}
           /\ pc \notin {"in_flight", "add_tokens"} => Charging' = Charging \ {r}
BY DEF Moves, Adding, Charging, Redis!At

\* Sets of requests are counted.
LEMMA AddingIsSome == Adding \in SUBSET Requests /\ Charging \in SUBSET Requests
BY DEF Adding, Charging

\* Types, and that what is sent is a charge.
LEMMA RedisTypesStep ==
    ASSUME RedisInv, Redis!Next
    PROVE  Redis!TypeOK' /\ ChargesSomething'
<1> DEFINE Parts == rl_req \subseteq Redis!Instant /\ rl_tok \subseteq Member /\ req \in [Requests -> Where]
<1>1. rl_req \subseteq Redis!Instant /\ rl_tok \subseteq Member /\ req \in [Requests -> Where]
  BY RedisTypes DEF RedisInv
<1>2. \A r \in Requests : req[r].pc = "add_tokens" => req[r].tokens # 0
  BY DEF RedisInv, ChargesSomething, Redis!At
<1>3. Parts' => Redis!TypeOK'
  BY DEF Redis!TypeOK, Member, Where, Places, Moment, Redis!Instant, Redis!MaxAge
<1>4. ASSUME NEW r \in Requests, NEW pc \in Places, Moves(r, pc),
             pc = "add_tokens" => req'[r].tokens # 0
      PROVE  req' \in [Requests -> Where] /\ ChargesSomething'
  BY <1>2, <1>4 DEF Moves, ChargesSomething, Redis!At
<1>5. ASSUME NEW r \in Requests,
             Counted(r) \/ Added(r) \/ LetThrough(r) \/ Answered(r) \/ Charged(r) \/ GoesOn(r)
      PROVE  Parts' /\ ChargesSomething'
  <2>1. CASE Counted(r)
    BY <1>1, <1>4, <2>1 DEF Counted, Places
  <2>2. CASE Added(r)
    BY <1>1, <1>4, <2>2, NowIsInstant DEF Added, Places
  <2>3. CASE LetThrough(r)
    BY <1>1, <1>4, <2>3 DEF LetThrough, Places
  <2>4. CASE Answered(r)
    BY <1>1, <1>4, <2>4 DEF Answered, Places
  <2>5. CASE Charged(r)
    <3>1. Redis!TokenMember(req[r].tokens, req[r].now) \in Member
      BY <1>1, <1>2, <2>5, NowIsInstant DEF Charged, Redis!At
    <3> QED
      BY <1>1, <1>4, <2>5, <3>1 DEF Charged, Places
  <2>6. CASE GoesOn(r)
    BY <1>1, <1>4, <2>6 DEF GoesOn
  <2> QED
    BY <1>5, <2>1, <2>2, <2>3, <2>4, <2>5, <2>6
<1>6. ASSUME Redis!Tick PROVE Parts' /\ ChargesSomething'
  <2>1. /\ req' \in [Requests -> Where]
        /\ \A r \in Requests : req'[r].pc = req[r].pc /\ req'[r].tokens = req[r].tokens
    BY <1>1, <1>6, TickMoves
  <2>2. ChargesSomething'
    BY <1>2, <2>1 DEF ChargesSomething, Redis!At
  <2>3. rl_req' \subseteq Redis!Instant
    BY <1>1, <1>6, InstantsLater DEF Redis!Tick, RedisInv
  <2>4. rl_tok' = {Later(m) : m \in rl_tok}
    BY <1>6 DEF Redis!Tick, Later
  <2>5. rl_tok' \subseteq Member
    BY <1>1, <2>4, UsedLater DEF RedisInv
  <2> QED
    BY <2>1, <2>2, <2>3, <2>5
<1>7. Parts' /\ ChargesSomething'
  BY <1>1, <1>5, <1>6, RedisSteps
<1> QED
  BY <1>3, <1>7

\* Requests that were counted together are counted once more when they get in.
LEMMA CountsAddingStep ==
    ASSUME RedisInv, Redis!Next
    PROVE  IsFiniteSet(rl_req)' /\ CountsAdding'
<1>1. /\ rl_req \in SUBSET Redis!Instant /\ req \in [Requests -> Where]
      /\ IsFiniteSet(rl_req) /\ CountsAdding
  BY RedisTypes DEF RedisInv
<1>2. Cardinality(rl_req) \in Nat
  BY <1>1, FS_CardinalityType
<1>3. /\ Adding \in SUBSET Requests /\ IsFiniteSet(Adding) /\ Cardinality(Adding) \in Nat
      /\ Cardinality(Requests) \in Nat
  BY AddingIsSome, SomeRequests
<1>4. RpmLimit \in Nat
  BY LimitsAssumption
<1>5. ASSUME NEW r \in Requests, Counted(r) PROVE IsFiniteSet(rl_req)' /\ CountsAdding'
  <2>1. Adding' = Adding \cup {r}
    BY <1>5, AddingMoves DEF Counted
  <2>2. Adding' \in SUBSET Requests
    BY <1>3, <2>1
  <2>3. Cardinality(Adding') \in Nat /\ Cardinality(Adding') <= Cardinality(Requests)
    BY <2>2, SomeRequests
  <2>4. rl_req' = rl_req /\ Cardinality(rl_req) < RpmLimit
    BY <1>2, <1>4, <1>5 DEF Counted
  <2> QED
    BY <1>1, <1>2, <1>3, <1>4, <2>3, <2>4 DEF CountsAdding
<1>6. ASSUME NEW r \in Requests, Added(r) PROVE IsFiniteSet(rl_req)' /\ CountsAdding'
  <2>1. Adding' = Adding \ {r} /\ r \in Adding
    BY <1>6, AddingMoves DEF Added, Adding
  <2>2. Cardinality(Adding') = Cardinality(Adding) - 1
    BY <1>3, <2>1, FS_RemoveElement
  <2>3. rl_req' = rl_req \cup {req[r].now}
    BY <1>6 DEF Added
  <2>4. IsFiniteSet(rl_req') /\ (Cardinality(rl_req') = Cardinality(rl_req) \/ Cardinality(rl_req') = Cardinality(rl_req) + 1)
    BY <1>1, <2>3, FS_AddElement
  <2> QED
    BY <1>1, <1>2, <1>3, <1>4, <2>2, <2>4 DEF CountsAdding
<1>7. ASSUME IsFiniteSet(rl_req'), Cardinality(rl_req') \in Nat,
             Cardinality(rl_req') <= Cardinality(rl_req), Adding' \subseteq Adding
      PROVE  IsFiniteSet(rl_req)' /\ CountsAdding'
  <2>1. Cardinality(Adding') \in Nat /\ Cardinality(Adding') <= Cardinality(Adding)
    BY <1>3, <1>7, FS_Subset, FS_CardinalityType
  <2> QED
    BY <1>1, <1>2, <1>3, <1>4, <1>7, <2>1 DEF CountsAdding
<1>8. ASSUME NEW r \in Requests, LetThrough(r) \/ Answered(r) \/ Charged(r) \/ GoesOn(r)
      PROVE  IsFiniteSet(rl_req)' /\ CountsAdding'
  <2>1. \E pc : pc # "add_request" /\ Moves(r, pc)
    BY <1>8 DEF LetThrough, Answered, Charged, GoesOn
  <2>2. Adding' \subseteq Adding
    BY <2>1, AddingMoves
  <2>3. rl_req' \subseteq rl_req
    BY <1>8 DEF LetThrough, Answered, Charged, GoesOn
  <2>4. IsFiniteSet(rl_req') /\ Cardinality(rl_req') \in Nat /\ Cardinality(rl_req') <= Cardinality(rl_req)
    BY <1>1, <2>3, FS_Subset, FS_CardinalityType
  <2> QED
    BY <1>7, <2>2, <2>4
<1>9. CASE Redis!Tick
  <2>1. Adding' \subseteq Adding
    BY <1>1, <1>9, TickMoves DEF Adding, Redis!At
  <2>2. rl_req' = {Redis!Older(m) : m \in rl_req}
    BY <1>9 DEF Redis!Tick
  <2>3. IsFiniteSet(rl_req') /\ Cardinality(rl_req') \in Nat /\ Cardinality(rl_req') <= Cardinality(rl_req)
    BY <1>1, <2>2, InstantsLater
  <2> QED
    BY <1>7, <2>1, <2>3
<1> QED
  BY <1>1, <1>5, <1>6, <1>8, <1>9, RedisSteps

\* Completions that were let through together charge at most MaxTokens each.
LEMMA CountsChargingStep ==
    ASSUME RedisInv, Redis!Next
    PROVE  IsFiniteSet(rl_tok)' /\ CountsCharging'
<1> DEFINE Owed(P) == MaxTokens * Cardinality(P)
           All == MaxTokens * Cardinality(Requests)
<1>1. /\ rl_tok \in SUBSET Member /\ req \in [Requests -> Where]
      /\ IsFiniteSet(rl_tok) /\ CountsCharging
  BY RedisTypes DEF RedisInv
<1>2. Redis!Used(rl_tok) \in Nat
  BY <1>1, UsedIsSum
<1>3. Charging \in SUBSET Requests
  BY AddingIsSome
<1>4. \A P \in SUBSET Requests : Owed(P) \in Nat /\ All \in Nat /\ Owed(P) <= All
  BY SomeRequests, Charges
<1>5. \A P, Q \in SUBSET Requests : P \subseteq Q => Owed(P) <= Owed(Q)
  <2> SUFFICES ASSUME NEW Q \in SUBSET Requests, NEW P \in SUBSET Q PROVE Owed(P) <= Owed(Q)
    OBVIOUS
  <2>1. Cardinality(P) \in Nat /\ Cardinality(Q) \in Nat /\ Cardinality(P) <= Cardinality(Q)
    BY SomeRequests, FS_Subset, FS_CardinalityType
  <2> QED
    BY <2>1, Charges
<1>6. TpmLimit \in Nat
  BY LimitsAssumption
<1>7. TokenBound = TpmLimit - 1 + All
  BY DEF TokenBound
<1> HIDE DEF Owed, All
<1>a. CountsCharging <=> (TpmLimit > 0 => Redis!Used(rl_tok) + Owed(Charging) <= TpmLimit - 1 + All)
  BY <1>7 DEF CountsCharging, Owed
<1>b. CountsCharging' <=> (TpmLimit > 0 => Redis!Used(rl_tok') + Owed(Charging') <= TpmLimit - 1 + All)
  BY <1>7 DEF CountsCharging, Owed, Redis!Used, Redis!SumFunction, Redis!SumFunctionOnSet, Redis!FoldFunctionOnSet, Redis!MapThenFoldSet
<1>8. ASSUME NEW r \in Requests, LetThrough(r) PROVE IsFiniteSet(rl_tok)' /\ CountsCharging'
  <2>1. Charging' \in SUBSET Requests
    BY <1>3, <1>8, AddingMoves DEF LetThrough
  <2>2. Owed(Charging') \in Nat /\ All \in Nat /\ Owed(Charging') <= All
    BY <1>4, <2>1
  <2>3. rl_tok' = rl_tok /\ Redis!Used(rl_tok) < TpmLimit
    BY <1>2, <1>6, <1>8 DEF LetThrough
  <2> QED
    BY <1>1, <1>2, <1>6, <1>b, <2>2, <2>3
<1>9. ASSUME NEW r \in Requests, Charged(r) PROVE IsFiniteSet(rl_tok)' /\ CountsCharging'
  <2> DEFINE x == Redis!TokenMember(req[r].tokens, req[r].now)
  <2>1. Charging' = Charging \ {r} /\ r \in Charging
    BY <1>9, AddingMoves DEF Charged, Charging, Redis!At
  <2>2. x \in Member
    BY <1>1, <1>9, NowIsInstant DEF Charged, Redis!At, RedisInv, ChargesSomething
  <2>3. x.tokens \in Nat /\ x.tokens <= MaxTokens /\ MaxTokens \in Nat
    BY <2>2, MaxTokensIsLargest, TokensAssumption DEF Member
  <2>4. rl_tok' = rl_tok \cup {x}
    BY <1>9 DEF Charged
  <2> HIDE DEF x
  <2>5. IsFiniteSet(rl_tok') /\ Redis!Used(rl_tok') \in Nat /\ Redis!Used(rl_tok') <= Redis!Used(rl_tok) + x.tokens
    BY <1>1, <2>2, <2>4, UsedByOneMore
  <2>6. Owed(Charging) = Owed(Charging') + MaxTokens
    <3>1. /\ IsFiniteSet(Charging) /\ Cardinality(Charging) \in Nat /\ Cardinality(Charging') \in Nat
          /\ Cardinality(Charging') = Cardinality(Charging) - 1
      BY <1>3, <2>1, SomeRequests, OneLess
    <3>2. Cardinality(Charging) = Cardinality(Charging') + 1
      BY <3>1
    <3> QED
      BY <3>1, <3>2, Charges DEF Owed
  <2>7. Owed(Charging) \in Nat /\ Owed(Charging') \in Nat /\ All \in Nat
    BY <1>3, <1>4, <2>1
  <2> QED
    BY <1>1, <1>2, <1>6, <1>a, <1>b, <2>3, <2>5, <2>6, <2>7
<1>10. ASSUME IsFiniteSet(rl_tok'), Redis!Used(rl_tok') \in Nat,
              Redis!Used(rl_tok') <= Redis!Used(rl_tok), Charging' \subseteq Charging
       PROVE  IsFiniteSet(rl_tok)' /\ CountsCharging'
  <2>1. /\ Owed(Charging') \in Nat /\ Owed(Charging) \in Nat /\ All \in Nat
        /\ Owed(Charging') <= Owed(Charging)
    BY <1>3, <1>4, <1>5, <1>10
  <2> QED
    BY <1>1, <1>2, <1>6, <1>a, <1>b, <1>10, <2>1
<1>11. ASSUME NEW r \in Requests, Counted(r) \/ Added(r) \/ Answered(r) \/ GoesOn(r)
       PROVE  IsFiniteSet(rl_tok)' /\ CountsCharging'
  <2>1. Charging' \subseteq Charging
    <3>1. CASE Counted(r)
      BY <3>1, AddingMoves DEF Counted
    <3>2. CASE Added(r)
      BY <3>2, AddingMoves DEF Added
    <3>3. CASE Answered(r)
      BY <3>3, AddingMoves DEF Answered, Charging, Redis!At
    <3>4. CASE GoesOn(r)
      BY <3>4, AddingMoves DEF GoesOn
    <3> QED
      BY <1>11, <3>1, <3>2, <3>3, <3>4
  <2>2. rl_tok' \subseteq rl_tok
    BY <1>11 DEF Counted, Added, Answered, GoesOn
  <2>3. IsFiniteSet(rl_tok') /\ Redis!Used(rl_tok') \in Nat /\ Redis!Used(rl_tok') <= Redis!Used(rl_tok)
    BY <1>1, <2>2, UsedBySome
  <2> QED
    BY <1>10, <2>1, <2>3
<1>12. CASE Redis!Tick
  <2>1. Charging' \subseteq Charging
    BY <1>1, <1>12, TickMoves DEF Charging
  <2>2. rl_tok' = {Later(m) : m \in rl_tok}
    BY <1>12 DEF Redis!Tick, Later
  <2>3. IsFiniteSet(rl_tok') /\ Redis!Used(rl_tok') \in Nat /\ Redis!Used(rl_tok') <= Redis!Used(rl_tok)
    BY <1>1, <2>2, UsedLater
  <2> QED
    BY <1>10, <2>1, <2>3
<1> QED
  BY <1>1, <1>8, <1>9, <1>11, <1>12, RedisSteps

\* Where the limiter on Redis starts.
LEMMA RedisInit ==
    ASSUME Redis!Init
    PROVE  RedisInv
<1>1. rl_req = {} /\ rl_tok = {} /\ req = [r \in Requests |-> Redis!Idle]
  BY DEF Redis!Init
<1>2. \A r \in Requests : req[r] \in Where /\ req[r].pc = "idle"
  BY <1>1, IdleIsSomewhere
<1>3. Redis!TypeOK
  BY <1>1, <1>2, RedisTypes
<1>4. ChargesSomething /\ Adding = {} /\ Charging = {}
  BY <1>2 DEF ChargesSomething, Adding, Charging, Redis!At
<1>5. IsFiniteSet({}) /\ Cardinality({}) = 0 /\ Cardinality(Requests) \in Nat
  BY FS_EmptySet, SomeRequests
<1>6. CountsAdding
  BY <1>1, <1>4, <1>5, LimitsAssumption DEF CountsAdding
<1>7. Redis!Used({}) = 0
  <2>1. {} \in SUBSET Member
    OBVIOUS
  <2> QED
    BY <1>5, <2>1, UsedIsSum, SumEmpty
<1>8. /\ MaxTokens * 0 = 0
      /\ MaxTokens * Cardinality(Requests) \in Nat
  <2>1. \A M \in Nat : M * 0 = 0
    OBVIOUS
  <2> QED
    BY <1>5, <2>1, MaxTokensIsLargest, Charges
<1>9. CountsCharging
  BY <1>1, <1>4, <1>5, <1>7, <1>8, LimitsAssumption DEF CountsCharging, TokenBound
<1> QED
  BY <1>1, <1>3, <1>4, <1>5, <1>6, <1>9 DEF RedisInv

\* The bounds of the limiter on Redis follow.
LEMMA RedisBounds ==
    ASSUME RedisInv
    PROVE  Redis!RequestOvershootBounded /\ Redis!TokenOvershootBounded
<1>1. /\ rl_tok \in SUBSET Member /\ IsFiniteSet(rl_tok) /\ IsFiniteSet(rl_req)
      /\ CountsAdding /\ CountsCharging
  BY RedisTypes DEF RedisInv
<1>2. Cardinality(rl_req) \in Nat /\ Redis!Used(rl_tok) \in Nat
  BY <1>1, FS_CardinalityType, UsedIsSum
<1>3. /\ Cardinality(Adding) \in Nat /\ Cardinality(Charging) \in Nat /\ Cardinality(Requests) \in Nat
      /\ Cardinality(Charging) <= Cardinality(Requests)
  BY AddingIsSome, SomeRequests
<1>4. Redis!RequestOvershootBounded
  <2>1. Redis!RequestsInWindow \subseteq rl_req
    BY DEF Redis!RequestsInWindow
  <2>2. Cardinality(Redis!RequestsInWindow) \in Nat /\ Cardinality(Redis!RequestsInWindow) <= Cardinality(rl_req)
    BY <1>1, <2>1, FS_Subset, FS_CardinalityType
  <2>3. /\ Redis!Cardinality(Redis!RequestsInWindow) = Cardinality(Redis!RequestsInWindow)
        /\ Redis!Cardinality(Requests) = Cardinality(Requests)
    BY Counts
  <2> QED
    BY <1>1, <1>2, <1>3, <2>2, <2>3, LimitsAssumption DEF Redis!RequestOvershootBounded, CountsAdding
<1>5. Redis!TokenOvershootBounded
  <2>1. Redis!TokensInWindow \subseteq rl_tok
    BY DEF Redis!TokensInWindow
  <2>2. Redis!Used(Redis!TokensInWindow) \in Nat /\ Redis!Used(Redis!TokensInWindow) <= Redis!Used(rl_tok)
    BY <1>1, <2>1, UsedBySome
  <2>3. MaxTokens * Cardinality(Charging) \in Nat /\ MaxTokens * Cardinality(Requests) \in Nat
    BY <1>3, Charges
  <2>4. Redis!TokenBound = TokenBound
    BY Counts DEF Redis!TokenBound, TokenBound, Redis!MaxTokens, MaxTokens
  <2>5. TpmLimit > 0 => Redis!Used(rl_tok) + MaxTokens * Cardinality(Charging) <= TokenBound
    BY <1>1 DEF CountsCharging
  <2>6. TokenBound \in Int
    BY <2>3, LimitsAssumption DEF TokenBound
  <2> HIDE DEF TokenBound
  <2> QED
    BY <1>2, <2>2, <2>3, <2>4, <2>5, <2>6, LimitsAssumption DEF Redis!TokenOvershootBounded
<1> QED
  BY <1>4, <1>5

-----------------------------------------------------------------------------
(* The limiter in memory: deques                                            *)

Ages == 0 .. Window + 1
Event == [age : Ages, tokens : TokenCounts \ {0}]

\* The oldest first.
Sorted(ts) == \A i, j \in DOMAIN ts : i < j => ts[i] >= ts[j]
SortedEvents(es) == \A i, j \in DOMAIN es : i < j => es[i].age >= es[j].age

\* What is left of a deque when all before the first of some positions is
\* popped.
From(s, I) ==
    LET i == IF I # {} THEN CHOOSE j \in I : \A k \in I : j <= k ELSE 0
    IN  IF i = 0 THEN <<>> ELSE SubSeq(s, i, Len(s))

\* If the positions are those from one on, k others are popped and they stay.
LEMMA FromSome ==
    ASSUME NEW X, NEW s \in Seq(X), NEW I \in SUBSET (1 .. Len(s)),
           \A i \in I : \A j \in 1 .. Len(s) : i < j => j \in I
    PROVE  /\ From(s, I) \in Seq(X)
           /\ \E k \in 0 .. Len(s) :
                 /\ I = k + 1 .. Len(s)
                 /\ Len(From(s, I)) = Len(s) - k
                 /\ \A i \in 1 .. Len(s) - k : From(s, I)[i] = s[i + k]
<1>0. Len(s) \in Nat
  OBVIOUS
<1>1. CASE I = {}
  <2>1. From(s, I) = <<>>
    BY <1>1 DEF From
  <2>2. From(s, I) \in Seq(X) /\ Len(From(s, I)) = 0
    BY <2>1
  <2> DEFINE k == Len(s)
  <2>3. k \in 0 .. Len(s) /\ k + 1 .. Len(s) = {} /\ Len(s) - k = 0
    BY <1>0
  <2>4. \A i \in 1 .. Len(s) - k : From(s, I)[i] = s[i + k]
    BY <2>3
  <2> QED
    BY <1>1, <2>2, <2>3, <2>4
<1>2. CASE I # {}
  <2> DEFINE f == CHOOSE j \in I : \A k \in I : j <= k
  <2>1. \E j \in I : \A k \in I : j <= k
    <3>1. I \in SUBSET Nat
      OBVIOUS
    <3> QED
      BY <1>2, <3>1, FirstExists
  <2>2. f \in I /\ \A k \in I : f <= k
    BY <2>1
  <2>a. f # 0
    <3> HIDE DEF f
    <3>1. f \in 1 .. Len(s)
      BY <2>2
    <3> QED
      BY <1>0, <3>1
  <2>3. From(s, I) = SubSeq(s, f, Len(s))
    BY <1>2, <2>a DEF From
  <2> HIDE DEF f
  <2>4. f \in 1 .. Len(s)
    BY <2>2
  <2>5. /\ SubSeq(s, f, Len(s)) \in Seq(X)
        /\ Len(SubSeq(s, f, Len(s))) = Len(s) - f + 1
        /\ \A i \in 1 .. Len(s) - f + 1 : SubSeq(s, f, Len(s))[i] = s[f + i - 1]
    BY <1>0, <2>4, SubSeqProperties
  <2>6. I = f .. Len(s)
    <3>1. \A k \in I : k \in 1 .. Len(s) /\ f <= k
      BY <2>2
    <3>2. \A k \in 1 .. Len(s) : f < k => k \in I
      BY <2>2
    <3>3. I \subseteq f .. Len(s)
      BY <1>0, <2>4, <3>1
    <3>4. ASSUME NEW k \in f .. Len(s) PROVE k \in I
      BY <1>0, <2>2, <2>4, <3>2
    <3> QED
      BY <3>3, <3>4
  <2>7. f - 1 \in 0 .. Len(s) /\ (f - 1) + 1 = f /\ Len(s) - (f - 1) = Len(s) - f + 1
    BY <1>0, <2>4
  <2>8. \A i \in 1 .. Len(s) - f + 1 : f + i - 1 = i + (f - 1)
    BY <1>0, <2>4
  <2> DEFINE k == f - 1
  <2>9. k \in 0 .. Len(s) /\ I = k + 1 .. Len(s)
    BY <2>6, <2>7
  <2>10. Len(From(s, I)) = Len(s) - k
    BY <2>3, <2>4, <2>5, <2>7
  <2>11. ASSUME NEW i \in 1 .. Len(s) - k PROVE From(s, I)[i] = s[i + k]
    <3>1. i \in 1 .. Len(s) - f + 1
      BY <2>7
    <3> QED
      BY <2>3, <2>5, <2>8, <3>1
  <2>12. From(s, I) \in Seq(X)
    BY <2>3, <2>5
  <2> HIDE DEF k
  <2> QED
    BY <2>9, <2>10, <2>11, <2>12
<1> QED
  BY <1>1, <1>2

\* prune() pops the requests that are out of the window, and no others.
LEMMA RequestsPruned ==
    ASSUME NEW ts \in Seq(Ages), Sorted(ts)
    PROVE  LET p == Memory!PruneRequests(ts)
           IN  /\ p \in Seq(Ages) /\ Sorted(p) /\ Len(p) <= Len(ts)
               /\ \A i \in 1 .. Len(p) : p[i] <= Window
               /\ \E k \in 0 .. Len(ts) :
                     /\ Len(p) = Len(ts) - k
                     /\ \A i \in 1 .. Len(ts) - k : p[i] = ts[i + k]
                     /\ \A i \in 1 .. k : ts[i] > Window
<1> DEFINE p == Memory!PruneRequests(ts)
           I == {i \in 1 .. Len(ts) : ts[i] <= Window}
<1>0. Len(ts) \in Nat /\ DOMAIN ts = 1 .. Len(ts) /\ Window \in Nat
  BY WindowAssumption
<1>1. p = From(ts, I)
  BY DEF Memory!PruneRequests, Memory!FromFirst, Memory!SelectInSeq, Memory!Min, From
<1>2. \A i \in 1 .. Len(ts) : ts[i] \in Ages
  BY <1>0, ElementOfSeq
<1>3. \A i, j \in 1 .. Len(ts) : i < j => ts[i] >= ts[j]
  BY <1>0 DEF Sorted
<1>4. \A i \in I : \A j \in 1 .. Len(ts) : i < j => j \in I
  BY <1>0, <1>2, <1>3 DEF Ages
<1>5. /\ p \in Seq(Ages)
      /\ \E k \in 0 .. Len(ts) :
            /\ I = k + 1 .. Len(ts)
            /\ Len(p) = Len(ts) - k
            /\ \A i \in 1 .. Len(ts) - k : p[i] = ts[i + k]
  <2> HIDE DEF I, p
  <2>1. I \in SUBSET (1 .. Len(ts))
    BY DEF I
  <2> QED
    BY <1>1, <1>4, <2>1, FromSome
<1>6. PICK k \in 0 .. Len(ts) :
            /\ I = k + 1 .. Len(ts)
            /\ Len(p) = Len(ts) - k
            /\ \A i \in 1 .. Len(ts) - k : p[i] = ts[i + k]
  BY <1>5
<1> HIDE DEF p
<1>7. Len(p) <= Len(ts) /\ DOMAIN p = 1 .. Len(p)
  BY <1>0, <1>5, <1>6
<1>8. ASSUME NEW i \in 1 .. Len(p) PROVE p[i] <= Window /\ p[i] = ts[i + k] /\ i + k \in 1 .. Len(ts)
  <2>1. i + k \in I /\ p[i] = ts[i + k]
    BY <1>0, <1>6
  <2> QED
    BY <2>1
<1>9. ASSUME NEW i \in 1 .. k PROVE ts[i] > Window
  <2>1. i \in 1 .. Len(ts) /\ i \notin I
    BY <1>0, <1>6
  <2> QED
    BY <1>0, <1>2, <2>1 DEF Ages
<1>10. Sorted(p)
  <2> SUFFICES ASSUME NEW i \in 1 .. Len(p), NEW j \in 1 .. Len(p), i < j PROVE p[i] >= p[j]
    BY <1>7 DEF Sorted
  <2>1. i + k < j + k
    BY <1>0
  <2> QED
    BY <1>3, <1>8, <2>1
<1> QED
  BY <1>5, <1>6, <1>7, <1>8, <1>9, <1>10 DEF p

\* prune() pops the charges that are out of the window, and no others.
LEMMA TokensPruned ==
    ASSUME NEW es \in Seq(Event), SortedEvents(es)
    PROVE  LET p == Memory!PruneTokens(es)
           IN  /\ p \in Seq(Event) /\ SortedEvents(p)
               /\ \A i \in 1 .. Len(p) : p[i].age <= Window
               /\ \E k \in 0 .. Len(es) :
                     /\ Len(p) = Len(es) - k
                     /\ \A i \in 1 .. Len(es) - k : p[i] = es[i + k]
                     /\ \A i \in 1 .. k : es[i].age > Window
<1> DEFINE p == Memory!PruneTokens(es)
           I == {i \in 1 .. Len(es) : es[i].age <= Window}
<1>0. Len(es) \in Nat /\ DOMAIN es = 1 .. Len(es) /\ Window \in Nat
  BY WindowAssumption
<1>1. p = From(es, I)
  BY DEF Memory!PruneTokens, Memory!FromFirst, Memory!SelectInSeq, Memory!Min, From
<1>2. \A i \in 1 .. Len(es) : es[i] \in Event /\ es[i].age \in Ages
  <2> TAKE i \in 1 .. Len(es)
  <2>1. es[i] \in Event
    BY <1>0, ElementOfSeq
  <2> QED
    BY <2>1 DEF Event
<1>3. \A i, j \in 1 .. Len(es) : i < j => es[i].age >= es[j].age
  BY <1>0 DEF SortedEvents
<1>4. \A i \in I : \A j \in 1 .. Len(es) : i < j => j \in I
  BY <1>0, <1>2, <1>3 DEF Ages
<1>5. /\ p \in Seq(Event)
      /\ \E k \in 0 .. Len(es) :
            /\ I = k + 1 .. Len(es)
            /\ Len(p) = Len(es) - k
            /\ \A i \in 1 .. Len(es) - k : p[i] = es[i + k]
  <2> HIDE DEF I, p
  <2>1. I \in SUBSET (1 .. Len(es))
    BY DEF I
  <2> QED
    BY <1>1, <1>4, <2>1, FromSome
<1>6. PICK k \in 0 .. Len(es) :
            /\ I = k + 1 .. Len(es)
            /\ Len(p) = Len(es) - k
            /\ \A i \in 1 .. Len(es) - k : p[i] = es[i + k]
  BY <1>5
<1> HIDE DEF p
<1>7. Len(p) \in Nat /\ DOMAIN p = 1 .. Len(p)
  BY <1>0, <1>5, <1>6
<1>8. ASSUME NEW i \in 1 .. Len(p) PROVE p[i].age <= Window /\ p[i] = es[i + k] /\ i + k \in 1 .. Len(es)
  <2>1. i + k \in I /\ p[i] = es[i + k]
    BY <1>0, <1>6
  <2> QED
    BY <2>1
<1>9. ASSUME NEW i \in 1 .. k PROVE es[i].age > Window
  <2>1. i \in 1 .. Len(es) /\ i \notin I
    BY <1>0, <1>6
  <2> QED
    BY <1>0, <1>2, <2>1 DEF Ages
<1>10. SortedEvents(p)
  <2> SUFFICES ASSUME NEW i \in 1 .. Len(p), NEW j \in 1 .. Len(p), i < j PROVE p[i].age >= p[j].age
    BY <1>7 DEF SortedEvents
  <2>1. i + k < j + k
    BY <1>0
  <2> QED
    BY <1>3, <1>8, <2>1
<1> QED
  BY <1>5, <1>6, <1>7, <1>8, <1>9, <1>10 DEF p

\* What the charges of a deque add up to.
Amounts(es) == [i \in DOMAIN es |-> es[i].tokens]

\* The sum that InMemoryRateLimiter uses.
LEMMA MemorySum == \A f : Memory!SumFunction(f) = SumFunctionOnSet(f, DOMAIN f)
BY DEF Memory!SumFunction, Memory!SumFunctionOnSet, Memory!FoldFunctionOnSet, Memory!MapThenFoldSet,
       SumFunctionOnSet, FoldFunctionOnSet, MapThenFoldSet

\* Used is the sum over the positions.
LEMMA ChargesAreSum ==
    ASSUME NEW es \in Seq(Event)
    PROVE  /\ IsFiniteSet(1 .. Len(es))
           /\ \A i \in 1 .. Len(es) : Amounts(es)[i] = es[i].tokens /\ es[i].tokens \in Nat
           /\ Memory!Used(es) = SumFunctionOnSet(Amounts(es), 1 .. Len(es))
           /\ Memory!Used(es) \in Nat
<1>1. Len(es) \in Nat /\ DOMAIN es = 1 .. Len(es)
  OBVIOUS
<1>2. IsFiniteSet(1 .. Len(es))
  BY <1>1, FS_Interval
<1>3. ASSUME NEW i \in 1 .. Len(es) PROVE Amounts(es)[i] = es[i].tokens /\ es[i].tokens \in Nat
  <2>1. es[i] \in Event
    BY <1>1, ElementOfSeq
  <2> QED
    BY <1>1, <2>1, TokensAssumption DEF Event, Amounts
<1>4. DOMAIN Amounts(es) = 1 .. Len(es)
  BY <1>1 DEF Amounts
<1>5. Memory!Used(es) = Memory!SumFunction(Amounts(es))
  BY DEF Memory!Used, Amounts
<1>6. Memory!Used(es) = SumFunctionOnSet(Amounts(es), 1 .. Len(es))
  BY <1>4, <1>5, MemorySum
<1> QED
  BY <1>2, <1>3, <1>6, SumNat

\* A deque whose charges are all in another one adds up to no more.
LEMMA ChargesMapped ==
    ASSUME NEW es \in Seq(Event), NEW fs \in Seq(Event), NEW h \in [1 .. Len(es) -> 1 .. Len(fs)],
           \A i, j \in 1 .. Len(es) : h[i] = h[j] => i = j,
           \A i \in 1 .. Len(es) : es[i].tokens = fs[h[i]].tokens
    PROVE  Memory!Used(es) <= Memory!Used(fs)
<1>1. \A i \in 1 .. Len(es) : Amounts(es)[i] = es[i].tokens /\ es[i].tokens \in Nat
  BY ChargesAreSum
<1>2. \A i \in 1 .. Len(fs) : Amounts(fs)[i] = fs[i].tokens /\ fs[i].tokens \in Nat
  BY ChargesAreSum
<1>3. ASSUME NEW i \in 1 .. Len(es) PROVE Amounts(es)[i] <= Amounts(fs)[h[i]]
  <2>1. h[i] \in 1 .. Len(fs)
    OBVIOUS
  <2>2. Amounts(es)[i] = fs[h[i]].tokens /\ Amounts(fs)[h[i]] = fs[h[i]].tokens /\ fs[h[i]].tokens \in Nat
    BY <1>1, <1>2, <2>1
  <2> QED
    BY <2>2
<1>4. IsFiniteSet(1 .. Len(es)) /\ IsFiniteSet(1 .. Len(fs))
  BY ChargesAreSum
<1>5. SumFunctionOnSet(Amounts(es), 1 .. Len(es)) <= SumFunctionOnSet(Amounts(fs), 1 .. Len(fs))
  BY <1>1, <1>2, <1>3, <1>4, SumInjection
<1> QED
  BY <1>5, ChargesAreSum

\* One charge more.
LEMMA ChargesAppended ==
    ASSUME NEW es \in Seq(Event), NEW e \in Event
    PROVE  /\ Append(es, e) \in Seq(Event)
           /\ Memory!Used(Append(es, e)) = Memory!Used(es) + e.tokens
<1> DEFINE fs == Append(es, e)
           n == Len(es) + 1
<1>1. /\ fs \in Seq(Event) /\ Len(fs) = n /\ n \in Nat /\ fs[n] = e
      /\ \A i \in 1 .. Len(es) : fs[i] = es[i]
  BY AppendProperties
<1> HIDE DEF fs
<1>2. /\ IsFiniteSet(1 .. n)
      /\ \A i \in 1 .. n : Amounts(fs)[i] = fs[i].tokens /\ fs[i].tokens \in Nat
      /\ Memory!Used(fs) = SumFunctionOnSet(Amounts(fs), 1 .. n)
      /\ Memory!Used(fs) \in Nat
  BY <1>1, ChargesAreSum
<1>3. (1 .. n) \ {n} = 1 .. Len(es) /\ n \in 1 .. n
  OBVIOUS
<1> HIDE DEF n
<1>4. SumFunctionOnSet(Amounts(fs), 1 .. n) = Amounts(fs)[n] + SumFunctionOnSet(Amounts(fs), (1 .. n) \ {n})
  BY <1>2, <1>3, SumRemove
<1>5. SumFunctionOnSet(Amounts(es), 1 .. Len(es)) = SumFunctionOnSet(Amounts(fs), 1 .. Len(es))
  <2>1. IsFiniteSet(1 .. Len(es)) /\ \A i \in 1 .. Len(es) : Amounts(es)[i] = es[i].tokens /\ es[i].tokens \in Nat
    BY ChargesAreSum
  <2>2. \A i \in 1 .. Len(es) : i \in 1 .. n
    BY <1>3
  <2>3. \A i \in 1 .. Len(es) : Amounts(es)[i] \in Nat /\ Amounts(es)[i] = Amounts(fs)[i]
    BY <1>1, <1>2, <2>1, <2>2
  <2> QED
    BY <2>1, <2>3, SumEqual
<1>6. Memory!Used(es) = SumFunctionOnSet(Amounts(es), 1 .. Len(es)) /\ Memory!Used(es) \in Nat
  BY ChargesAreSum
<1>7. Amounts(fs)[n] = e.tokens /\ e.tokens \in Nat
  BY <1>1, <1>2, <1>3
<1>8. SumFunctionOnSet(Amounts(fs), 1 .. n) = Amounts(fs)[n] + SumFunctionOnSet(Amounts(fs), 1 .. Len(es))
  BY <1>3, <1>4
<1>9. Memory!Used(fs) = Memory!Used(es) + e.tokens
  BY <1>2, <1>5, <1>6, <1>7, <1>8
<1> QED
  BY <1>1, <1>9 DEF fs

\* What is in the window stays.
LEMMA NothingToPrune ==
    ASSUME NEW es \in Seq(Event), SortedEvents(es), \A i \in 1 .. Len(es) : es[i].age <= Window
    PROVE  Memory!PruneTokens(es) = es
<1> DEFINE p == Memory!PruneTokens(es)
<1>0. Len(es) \in Nat /\ Window \in Nat
  BY WindowAssumption
<1>1. p \in Seq(Event)
  BY TokensPruned
<1>2. PICK k \in 0 .. Len(es) :
            /\ Len(p) = Len(es) - k
            /\ \A i \in 1 .. Len(es) - k : p[i] = es[i + k]
            /\ \A i \in 1 .. k : es[i].age > Window
  BY TokensPruned
<1> HIDE DEF p
<1>3. k = 0
  <2> SUFFICES ASSUME k # 0 PROVE FALSE
    OBVIOUS
  <2>1. 1 \in 1 .. k /\ 1 \in 1 .. Len(es)
    BY <1>0
  <2>2. es[1].age > Window /\ es[1].age <= Window
    BY <1>2, <2>1
  <2>3. es[1] \in Event
    BY <1>0, <2>1, ElementOfSeq
  <2>4. es[1].age \in Ages
    BY <2>3 DEF Event
  <2> QED
    BY <1>0, <2>2, <2>4 DEF Ages
<1>4. Len(p) = Len(es) /\ \A i \in 1 .. Len(es) : p[i] = es[i]
  BY <1>0, <1>2, <1>3
<1>5. p = es
  BY <1>1, <1>4, SeqEqual
<1> QED
  BY <1>5 DEF p

\* An age a tick later.
LEMMA OlderAge ==
    ASSUME NEW a \in Ages
    PROVE  /\ Memory!Older(a) \in Ages /\ a <= Memory!Older(a)
           /\ \A b \in Ages : a <= b => Memory!Older(a) <= Memory!Older(b)
           /\ Memory!Older(a) <= Window => a <= Window /\ Memory!Older(a) = a + 1
           /\ a < Window => Memory!Older(a) = a + 1
           /\ a >= Window => Memory!Older(a) = Window + 1
BY WindowAssumption DEF Memory!Older, Ages

Aged(es) == [i \in DOMAIN es |-> [es[i] EXCEPT !.age = Memory!Older(@)]]

\* A tick takes charges out of the window and brings none in.
LEMMA ChargesAged ==
    ASSUME NEW es \in Seq(Event), SortedEvents(es)
    PROVE  /\ Aged(es) \in Seq(Event) /\ SortedEvents(Aged(es))
           /\ Memory!Used(Memory!PruneTokens(Aged(es))) <= Memory!Used(Memory!PruneTokens(es))
<1> DEFINE fs == Aged(es)
           p == Memory!PruneTokens(es)
           q == Memory!PruneTokens(fs)
<1>0. Len(es) \in Nat /\ DOMAIN es = 1 .. Len(es) /\ Window \in Nat
  BY WindowAssumption
<1>1. \A i \in 1 .. Len(es) : es[i] \in Event
  BY <1>0, ElementOfSeq
<1>2. ASSUME NEW i \in 1 .. Len(es)
      PROVE  /\ fs[i] \in Event
             /\ fs[i].age = Memory!Older(es[i].age) /\ fs[i].tokens = es[i].tokens
             /\ es[i].age \in Ages
  <2>1. es[i] \in Event /\ es[i].age \in Ages
    BY <1>1 DEF Event
  <2>2. Memory!Older(es[i].age) \in Ages
    BY <2>1, OlderAge
  <2>3. fs[i] = [es[i] EXCEPT !.age = Memory!Older(@)]
    BY <1>0 DEF Aged
  <2> QED
    BY <2>1, <2>2, <2>3 DEF Event
<1>3. fs \in Seq(Event) /\ Len(fs) = Len(es)
  <2>1. DOMAIN fs = 1 .. Len(es)
    BY <1>0 DEF Aged
  <2>2. fs \in [1 .. Len(es) -> Event]
    <3>1. fs = [i \in 1 .. Len(es) |-> fs[i]]
      BY <1>0 DEF Aged
    <3> QED
      BY <1>2, <3>1
  <2> QED
    BY <1>0, <2>1, <2>2, IsASeq, LenProperties
<1> HIDE DEF fs
<1>4. SortedEvents(fs)
  <2> SUFFICES ASSUME NEW i \in 1 .. Len(es), NEW j \in 1 .. Len(es), i < j PROVE fs[i].age >= fs[j].age
    BY <1>3 DEF SortedEvents
  <2>1. es[i].age >= es[j].age
    BY <1>0 DEF SortedEvents
  <2>2. es[i].age \in Ages /\ es[j].age \in Ages
    BY <1>2
  <2>3. es[j].age <= es[i].age
    BY <1>0, <2>1, <2>2 DEF Ages
  <2>4. Memory!Older(es[j].age) <= Memory!Older(es[i].age)
    BY <2>2, <2>3, OlderAge
  <2>5. Memory!Older(es[j].age) \in Ages /\ Memory!Older(es[i].age) \in Ages
    BY <2>2, OlderAge
  <2>6. fs[i].age = Memory!Older(es[i].age) /\ fs[j].age = Memory!Older(es[j].age)
    BY <1>2
  <2> QED
    BY <1>0, <2>4, <2>5, <2>6 DEF Ages
<1>5. p \in Seq(Event)
  BY TokensPruned
<1>6. PICK k \in 0 .. Len(es) :
            /\ Len(p) = Len(es) - k
            /\ \A i \in 1 .. Len(es) - k : p[i] = es[i + k]
            /\ \A i \in 1 .. k : es[i].age > Window
  BY TokensPruned
<1>7. q \in Seq(Event) /\ \A i \in 1 .. Len(q) : q[i].age <= Window
  BY <1>3, <1>4, TokensPruned
<1>8. PICK l \in 0 .. Len(es) :
            /\ Len(q) = Len(es) - l
            /\ \A i \in 1 .. Len(es) - l : q[i] = fs[i + l]
  BY <1>3, <1>4, TokensPruned
<1> HIDE DEF p, q
<1>9. ASSUME NEW i \in 1 .. Len(q)
      PROVE  i + l - k \in 1 .. Len(p) /\ q[i].tokens = p[i + l - k].tokens
  <2>1. i + l \in 1 .. Len(es) /\ q[i] = fs[i + l] /\ q[i].age <= Window
    BY <1>0, <1>7, <1>8
  <2>2. es[i + l].age \in Ages /\ Memory!Older(es[i + l].age) <= Window
    BY <1>2, <2>1
  <2>3. es[i + l].age <= Window /\ es[i + l].age \in Int
    BY <1>0, <2>2, OlderAge DEF Ages
  <2>4. ~(i + l \in 1 .. k)
    BY <1>0, <1>6, <2>3
  <2>5. i + l - k \in 1 .. Len(es) - k /\ (i + l - k) + k = i + l
    BY <1>0, <2>1, <2>4
  <2>6. p[i + l - k] = es[i + l]
    BY <1>6, <2>5
  <2> QED
    BY <1>2, <1>6, <2>1, <2>5, <2>6
<1> DEFINE h == [i \in 1 .. Len(q) |-> i + l - k]
<1>10. h \in [1 .. Len(q) -> 1 .. Len(p)]
  BY <1>9
<1>11. \A i \in 1 .. Len(q) : q[i].tokens = p[h[i]].tokens
  BY <1>9
<1>12. \A i, j \in 1 .. Len(q) : h[i] = h[j] => i = j
  <2> SUFFICES ASSUME NEW i \in 1 .. Len(q), NEW j \in 1 .. Len(q), i + l - k = j + l - k PROVE i = j
    OBVIOUS
  <2> QED
    BY <1>0, <1>6, <1>8
<1>13. Memory!Used(q) <= Memory!Used(p)
  <2> HIDE DEF h
  <2> QED
    BY <1>5, <1>7, <1>10, <1>11, <1>12, ChargesMapped
<1> QED
  BY <1>3, <1>4, <1>13 DEF fs, p, q

-----------------------------------------------------------------------------
(* The limiter in memory: types and the quota                               *)

MemoryPlaces == {"idle", "in_flight", "rpm_limited", "tpm_limited", "server_error"}

Standing == [pc : MemoryPlaces, retry_after : Ages]

\* TypeOK by its parts.
LEMMA MemoryTypes ==
    Memory!TypeOK <=> /\ timestamps \in Seq(Ages) /\ Sorted(timestamps)
                      /\ token_events \in Seq(Event) /\ SortedEvents(token_events)
                      /\ req \in [Requests -> Standing]
BY DEF Memory!TypeOK, Ages, Sorted, Event, SortedEvents, Standing, MemoryPlaces

\* An event that has just happened goes to the end of a deque.
LEMMA EntersSorted ==
    ASSUME NEW ts \in Seq(Ages), Sorted(ts)
    PROVE  /\ Append(ts, 0) \in Seq(Ages) /\ Sorted(Append(ts, 0))
           /\ Len(Append(ts, 0)) = Len(ts) + 1
<1> DEFINE us == Append(ts, 0)
<1>0. 0 \in Ages /\ Len(ts) \in Nat /\ DOMAIN ts = 1 .. Len(ts)
  BY WindowAssumption DEF Ages
<1>1. /\ us \in Seq(Ages) /\ Len(us) = Len(ts) + 1 /\ us[Len(ts) + 1] = 0
      /\ \A i \in 1 .. Len(ts) : us[i] = ts[i]
  BY <1>0, AppendProperties
<1> HIDE DEF us
<1>2. DOMAIN us = 1 .. Len(ts) + 1
  BY <1>0, <1>1
<1>3. \A i \in 1 .. Len(ts) : ts[i] \in Ages
  BY <1>0, ElementOfSeq
<1>4. ASSUME NEW i \in 1 .. Len(ts) + 1, NEW j \in 1 .. Len(ts) + 1, i < j PROVE us[i] >= us[j]
  <2>1. i \in 1 .. Len(ts) /\ us[i] = ts[i] /\ ts[i] \in Ages
    BY <1>0, <1>1, <1>3, <1>4
  <2>2. CASE j = Len(ts) + 1
    BY <1>1, <2>1, <2>2, WindowAssumption DEF Ages
  <2>3. CASE j # Len(ts) + 1
    <3>1. j \in 1 .. Len(ts) /\ us[j] = ts[j]
      BY <1>0, <1>1, <2>3
    <3> QED
      BY <1>0, <1>4, <2>1, <3>1 DEF Sorted
  <2> QED
    BY <2>2, <2>3
<1> QED
  BY <1>1, <1>2, <1>4 DEF us, Sorted

\* The same for a charge.
LEMMA ChargeEntersSorted ==
    ASSUME NEW es \in Seq(Event), SortedEvents(es), NEW e \in Event, e.age = 0
    PROVE  SortedEvents(Append(es, e))
<1> DEFINE fs == Append(es, e)
<1>0. Len(es) \in Nat /\ DOMAIN es = 1 .. Len(es)
  OBVIOUS
<1>1. /\ fs \in Seq(Event) /\ Len(fs) = Len(es) + 1 /\ fs[Len(es) + 1] = e
      /\ \A i \in 1 .. Len(es) : fs[i] = es[i]
  BY AppendProperties
<1> HIDE DEF fs
<1>2. DOMAIN fs = 1 .. Len(es) + 1
  BY <1>0, <1>1
<1>3. ASSUME NEW i \in 1 .. Len(es) PROVE es[i].age \in Ages
  <2>1. es[i] \in Event
    BY <1>0, ElementOfSeq
  <2> QED
    BY <2>1 DEF Event
<1>4. ASSUME NEW i \in 1 .. Len(es) + 1, NEW j \in 1 .. Len(es) + 1, i < j PROVE fs[i].age >= fs[j].age
  <2>1. i \in 1 .. Len(es) /\ fs[i] = es[i] /\ es[i].age \in Ages
    BY <1>0, <1>1, <1>3, <1>4
  <2>2. CASE j = Len(es) + 1
    BY <1>1, <2>1, <2>2, WindowAssumption DEF Ages
  <2>3. CASE j # Len(es) + 1
    <3>1. j \in 1 .. Len(es) /\ fs[j] = es[j]
      BY <1>0, <1>1, <2>3
    <3> QED
      BY <1>0, <1>4, <2>1, <3>1 DEF SortedEvents
  <2> QED
    BY <2>2, <2>3
<1> QED
  BY <1>2, <1>4 DEF fs, SortedEvents

AgedRequests(ts) == [i \in DOMAIN ts |-> Memory!Older(ts[i])]

\* A tick keeps the requests in order.
LEMMA RequestsAged ==
    ASSUME NEW ts \in Seq(Ages), Sorted(ts)
    PROVE  /\ AgedRequests(ts) \in Seq(Ages) /\ Sorted(AgedRequests(ts))
           /\ Len(AgedRequests(ts)) = Len(ts)
<1> DEFINE us == AgedRequests(ts)
<1>0. Len(ts) \in Nat /\ DOMAIN ts = 1 .. Len(ts) /\ Window \in Nat
  BY WindowAssumption
<1>1. \A i \in 1 .. Len(ts) : ts[i] \in Ages
  BY <1>0, ElementOfSeq
<1>2. \A i \in 1 .. Len(ts) : us[i] = Memory!Older(ts[i]) /\ us[i] \in Ages
  BY <1>0, <1>1, OlderAge DEF AgedRequests
<1>3. us \in Seq(Ages) /\ Len(us) = Len(ts) /\ DOMAIN us = 1 .. Len(ts)
  <2>1. DOMAIN us = 1 .. Len(ts)
    BY <1>0 DEF AgedRequests
  <2>2. us \in [1 .. Len(ts) -> Ages]
    <3>1. us = [i \in 1 .. Len(ts) |-> us[i]]
      BY <1>0 DEF AgedRequests
    <3> QED
      BY <1>2, <3>1
  <2> QED
    BY <1>0, <2>1, <2>2
<1> HIDE DEF us
<1>4. ASSUME NEW i \in 1 .. Len(ts), NEW j \in 1 .. Len(ts), i < j PROVE us[i] >= us[j]
  <2>1. ts[i] >= ts[j] /\ ts[i] \in Ages /\ ts[j] \in Ages
    BY <1>0, <1>1, <1>4 DEF Sorted
  <2>2. ts[j] <= ts[i]
    BY <1>0, <2>1 DEF Ages
  <2>3. Memory!Older(ts[j]) <= Memory!Older(ts[i]) /\ Memory!Older(ts[j]) \in Ages /\ Memory!Older(ts[i]) \in Ages
    BY <2>1, <2>2, OlderAge
  <2> QED
    BY <1>0, <1>2, <2>3 DEF Ages
<1> QED
  BY <1>3, <1>4 DEF us, Sorted

\* Where a refused request stands: Retry-After is positive, and no longer than
\* the window and a second.
LEMMA RefusalStands ==
    ASSUME NEW ts \in Seq(Ages), \A i \in 1 .. Len(ts) : ts[i] <= Window
    PROVE  /\ Memory!RpmRefusal(ts) \in Standing
           /\ Memory!RpmRefusal(ts).pc # "in_flight"
           /\ Memory!RpmRefusal(ts).pc = "rpm_limited" =>
                 Len(ts) > 0 /\ Memory!RpmRefusal(ts).retry_after = Window - ts[1] + 1
<1>0. Window \in Nat /\ Len(ts) \in Nat
  BY WindowAssumption
<1>1. CASE ts = <<>>
  BY <1>0, <1>1 DEF Memory!RpmRefusal, Memory!NoRetryAfter, Standing, MemoryPlaces, Ages
<1>2. CASE ts # <<>>
  <2>1. Len(ts) > 0 /\ Head(ts) = ts[1] /\ ts[1] \in Ages /\ ts[1] <= Window
    BY <1>0, <1>2, ElementOfSeq
  <2>2. Memory!RpmRefusal(ts) = [pc |-> "rpm_limited", retry_after |-> Window - ts[1] + 1]
    BY <1>2, <2>1 DEF Memory!RpmRefusal, Memory!RetryAfter
  <2>3. Window - ts[1] + 1 \in Ages
    BY <1>0, <2>1 DEF Ages
  <2> QED
    BY <2>1, <2>2, <2>3 DEF Standing, MemoryPlaces
<1> QED
  BY <1>1, <1>2


-----------------------------------------------------------------------------
(* The limiter in memory: the steps                                         *)

\* The requests whose tokens are still to be charged.
InFlight == {r \in Requests : Memory!InFlight(r)}

\* What is charged, and what can still be.
CountsInFlight ==
    TpmLimit > 0 =>
        Memory!Used(Memory!PruneTokens(token_events)) + MaxTokens * Cardinality(InFlight) <= TokenBound

\* A full deque refuses, so it never holds more than the limit.
MemoryInv ==
    /\ Memory!TypeOK
    /\ Len(timestamps) <= RpmLimit
    /\ CountsInFlight

\* TypeOK after a step, by its parts.
LEMMA MemoryTypesAfter ==
    ASSUME timestamps' \in Seq(Ages), Sorted(timestamps'),
           token_events' \in Seq(Event), SortedEvents(token_events'),
           req' \in [Requests -> Standing]
    PROVE  Memory!TypeOK'
BY DEF Memory!TypeOK, Ages, Sorted, Event, SortedEvents, Standing, MemoryPlaces

\* No charges, no tokens.
LEMMA NoCharges == Memory!Used(Memory!PruneTokens(<<>>)) = 0
<1>1. <<>> \in Seq(Event) /\ Len(<<>>) = 0 /\ SortedEvents(<<>>)
  BY DEF SortedEvents
<1>2. Memory!PruneTokens(<<>>) = <<>>
  <2> DEFINE es == <<>>
  <2>1. es \in Seq(Event) /\ SortedEvents(es) /\ \A i \in 1 .. Len(es) : es[i].age <= Window
    BY <1>1
  <2> HIDE DEF es
  <2>2. Memory!PruneTokens(es) = es
    BY <2>1, NothingToPrune
  <2> QED
    BY <2>2 DEF es
<1>3. 1 .. Len(<<>>) = {}
  BY <1>1
<1>4. Memory!Used(<<>>) = SumFunctionOnSet(Amounts(<<>>), {})
  BY <1>1, <1>3, ChargesAreSum
<1> QED
  BY <1>2, <1>4, SumEmpty

\* The limiter in memory starts so.
LEMMA MemoryInit ==
    ASSUME Memory!Init
    PROVE  MemoryInv
<1>1. timestamps = <<>> /\ token_events = <<>> /\ req = [r \in Requests |-> Memory!Idle]
  BY DEF Memory!Init
<1>2. Memory!Idle \in Standing /\ Memory!Idle.pc = "idle"
  BY WindowAssumption DEF Memory!Idle, Memory!NoRetryAfter, Standing, MemoryPlaces, Ages
<1>3. Memory!TypeOK
  BY <1>1, <1>2, MemoryTypes DEF Sorted, SortedEvents
<1>4. InFlight = {}
  BY <1>1, <1>2 DEF InFlight, Memory!InFlight
<1>5. MaxTokens * 0 = 0 /\ MaxTokens * Cardinality(Requests) \in Nat
  <2>1. \A M \in Nat : M * 0 = 0
    OBVIOUS
  <2> QED
    BY <2>1, MaxTokensIsLargest, Charges, SomeRequests
<1>6. Cardinality({}) = 0
  BY FS_EmptySet
<1>7. CountsInFlight
  BY <1>1, <1>4, <1>5, <1>6, NoCharges, LimitsAssumption DEF CountsInFlight, TokenBound
<1> QED
  BY <1>1, <1>3, <1>7, LimitsAssumption DEF MemoryInv

\* A request that arrives has a place in the window or has not, and is let
\* through only when the charges are below the limit.
LEMMA MemoryArrive ==
    ASSUME MemoryInv, NEW r \in Requests, Memory!Arrive(r)
    PROVE  MemoryInv'
<1> DEFINE ts == Memory!PruneRequests(timestamps)
           es == Memory!PruneTokens(token_events)
<1>1. /\ timestamps \in Seq(Ages) /\ Sorted(timestamps) /\ Len(timestamps) <= RpmLimit
      /\ token_events \in Seq(Event) /\ SortedEvents(token_events)
      /\ req \in [Requests -> Standing] /\ CountsInFlight
  BY MemoryTypes DEF MemoryInv
<1>2. /\ ts \in Seq(Ages) /\ Sorted(ts) /\ Len(ts) <= Len(timestamps)
      /\ \A i \in 1 .. Len(ts) : ts[i] <= Window
  BY <1>1, RequestsPruned
<1>3. es \in Seq(Event) /\ SortedEvents(es) /\ Memory!PruneTokens(es) = es
  <2>1. es \in Seq(Event) /\ SortedEvents(es) /\ \A i \in 1 .. Len(es) : es[i].age <= Window
    BY <1>1, TokensPruned
  <2> HIDE DEF es
  <2> QED
    BY <2>1, NothingToPrune
<1>4. Memory!Used(es) \in Nat
  BY <1>3, ChargesAreSum
<1>5. token_events' = es /\ ~Memory!InFlight(r)
  BY DEF Memory!Arrive
<1>6. InFlight \in SUBSET Requests
  BY DEF InFlight
<1>7. /\ MaxTokens * Cardinality(InFlight) \in Nat
      /\ MaxTokens * Cardinality(Requests) \in Nat
  BY <1>6, SomeRequests, Charges
<1>8. CASE Len(ts) >= RpmLimit
  <2>1. timestamps' = ts /\ req' = [req EXCEPT ![r] = Memory!RpmRefusal(ts)]
    BY <1>1, <1>2, <1>8, LimitsAssumption DEF Memory!Arrive
  <2> HIDE DEF ts, es
  <2>2. Memory!RpmRefusal(ts) \in Standing /\ Memory!RpmRefusal(ts).pc # "in_flight"
    BY <1>2, RefusalStands
  <2>3. req' \in [Requests -> Standing]
    BY <1>1, <2>1, <2>2
  <2>4. Memory!TypeOK'
    BY <1>2, <1>3, <1>5, <2>1, <2>3, MemoryTypesAfter
  <2>5. InFlight' = InFlight
    BY <1>1, <1>5, <2>1, <2>2 DEF InFlight, Memory!InFlight
  <2>6. CountsInFlight'
    BY <1>1, <1>3, <1>5, <2>5 DEF CountsInFlight, es
  <2>7. Len(timestamps') <= RpmLimit
    BY <1>1, <1>2, <2>1, LimitsAssumption
  <2> QED
    BY <2>4, <2>6, <2>7 DEF MemoryInv
<1>9. CASE Len(ts) < RpmLimit
  <2> DEFINE pc == IF Memory!OverTokenLimit(es) THEN "tpm_limited" ELSE "in_flight"
             e == [pc |-> pc, retry_after |-> Memory!NoRetryAfter]
  <2>1. timestamps' = Append(ts, 0) /\ req' = [req EXCEPT ![r] = e]
    BY <1>1, <1>2, <1>9, LimitsAssumption DEF Memory!Arrive, Memory!Enter
  <2>2. e \in Standing /\ e.pc = pc
    BY WindowAssumption DEF Standing, MemoryPlaces, Ages, Memory!NoRetryAfter
  <2> HIDE DEF ts, es, e
  <2>3. req' \in [Requests -> Standing]
    BY <1>1, <2>1, <2>2
  <2>4. /\ timestamps' \in Seq(Ages) /\ Sorted(timestamps')
        /\ Len(timestamps') = Len(ts) + 1
    BY <1>2, <2>1, EntersSorted
  <2>5. Memory!TypeOK'
    BY <1>3, <1>5, <2>3, <2>4, MemoryTypesAfter
  <2>6. Len(timestamps') <= RpmLimit
    BY <1>2, <1>9, <2>4, LimitsAssumption
  <2>7. ASSUME Memory!OverTokenLimit(es) PROVE CountsInFlight'
    <3>1. InFlight' = InFlight
      BY <1>1, <1>5, <2>1, <2>2, <2>7 DEF InFlight, Memory!InFlight
    <3> QED
      BY <1>1, <1>3, <1>5, <3>1 DEF CountsInFlight, es
  <2>8. ASSUME ~Memory!OverTokenLimit(es) PROVE CountsInFlight'
    <3>1. InFlight' = InFlight \cup {r}
      BY <1>1, <1>5, <2>1, <2>2, <2>8 DEF InFlight, Memory!InFlight
    <3>2. InFlight' \in SUBSET Requests
      BY <1>6, <3>1
    <3>3. /\ MaxTokens * Cardinality(InFlight') \in Nat
          /\ MaxTokens * Cardinality(InFlight') <= MaxTokens * Cardinality(Requests)
      BY <3>2, SomeRequests, Charges
    <3>4. ~(Memory!Used(es) >= TpmLimit)
      BY <2>8 DEF Memory!OverTokenLimit
    <3>5. TpmLimit > 0 => Memory!Used(es) + MaxTokens * Cardinality(InFlight') <= TokenBound
      BY <1>4, <1>7, <3>3, <3>4, LimitsAssumption DEF TokenBound
    <3> QED
      BY <1>3, <1>5, <3>5 DEF CountsInFlight
  <2> QED
    BY <2>5, <2>6, <2>7, <2>8 DEF MemoryInv
<1> QED
  BY <1>1, <1>2, <1>8, <1>9, LimitsAssumption

\* A request that ends, with a charge of at most MaxTokens or with none.
LEMMA MemoryEnd ==
    ASSUME MemoryInv, NEW r \in Requests,
           Memory!EndUncharged(r) \/ \E n \in TokenCounts : Memory!Complete(r, n)
    PROVE  MemoryInv'
<1> DEFINE es == Memory!PruneTokens(token_events)
<1>1. /\ timestamps \in Seq(Ages) /\ Sorted(timestamps) /\ Len(timestamps) <= RpmLimit
      /\ token_events \in Seq(Event) /\ SortedEvents(token_events)
      /\ req \in [Requests -> Standing] /\ CountsInFlight
  BY MemoryTypes DEF MemoryInv
<1>2. Memory!InFlight(r) /\ req' = [req EXCEPT ![r] = Memory!Idle]
  BY DEF Memory!EndUncharged, Memory!Complete
<1>3. Memory!Idle \in Standing /\ Memory!Idle.pc = "idle"
  BY WindowAssumption DEF Memory!Idle, Memory!NoRetryAfter, Standing, MemoryPlaces, Ages
<1>4. req' \in [Requests -> Standing]
  BY <1>1, <1>2, <1>3
<1>5. InFlight \in SUBSET Requests /\ r \in InFlight /\ InFlight' = InFlight \ {r}
  BY <1>1, <1>2, <1>3 DEF InFlight, Memory!InFlight
<1>6. /\ MaxTokens * Cardinality(InFlight') \in Nat
      /\ MaxTokens * Cardinality(InFlight) = MaxTokens * Cardinality(InFlight') + MaxTokens
  <2>1. /\ IsFiniteSet(InFlight) /\ Cardinality(InFlight) \in Nat
        /\ Cardinality(InFlight') \in Nat
    BY <1>5, SomeRequests
  <2>2. Cardinality(InFlight \ {r}) = Cardinality(InFlight) - 1
    BY <1>5, <2>1, FS_RemoveElement
  <2>3. Cardinality(InFlight) = Cardinality(InFlight') + 1
    BY <1>5, <2>1, <2>2
  <2> QED
    BY <2>1, <2>3, Charges
<1>7. TokenBound \in Int
  BY SomeRequests, Charges, LimitsAssumption DEF TokenBound
<1>8. es \in Seq(Event) /\ SortedEvents(es) /\ \A i \in 1 .. Len(es) : es[i].age <= Window
  BY <1>1, TokensPruned
<1>9. Memory!Used(es) \in Nat
  BY <1>8, ChargesAreSum
<1>10. TpmLimit > 0 => Memory!Used(es) + MaxTokens * Cardinality(InFlight') + MaxTokens <= TokenBound
  <2>1. TpmLimit > 0 => Memory!Used(es) + MaxTokens * Cardinality(InFlight) <= TokenBound
    BY <1>1 DEF CountsInFlight
  <2> HIDE DEF MaxTokens, TokenBound, es
  <2> QED
    BY <1>6, <1>7, <1>9, <2>1, MaxTokensIsLargest
<1>11. ASSUME timestamps' = timestamps, token_events' = token_events PROVE MemoryInv'
  <2>1. Memory!TypeOK'
    BY <1>1, <1>4, <1>11, MemoryTypesAfter
  <2>2. CountsInFlight'
    <3> HIDE DEF TokenBound, MaxTokens
    <3>1. TpmLimit > 0 => Memory!Used(es) + MaxTokens * Cardinality(InFlight') <= TokenBound
      <4> HIDE DEF es
      <4> QED
        BY <1>6, <1>7, <1>9, <1>10, MaxTokensIsLargest
    <3> QED
      BY <1>11, <3>1 DEF CountsInFlight
  <2> QED
    BY <1>1, <1>11, <2>1, <2>2 DEF MemoryInv
<1>12. ASSUME NEW n \in TokenCounts, n > 0, Memory!Complete(r, n) PROVE MemoryInv'
  <2> DEFINE e == [age |-> 0, tokens |-> n]
             ts == Memory!PruneRequests(timestamps)
  <2>1. timestamps' = ts /\ token_events' = Append(es, e)
    BY <1>12 DEF Memory!Complete, Memory!Enter
  <2>2. e \in Event /\ e.age = 0 /\ e.tokens = n /\ n <= MaxTokens /\ n \in Nat
    <3>1. n \in Nat /\ n # 0 /\ n \in TokenCounts
      BY <1>12, TokensAssumption
    <3>2. 0 \in Ages
      BY WindowAssumption DEF Ages
    <3> QED
      BY <3>1, <3>2, MaxTokensIsLargest DEF Event
  <2>3. ts \in Seq(Ages) /\ Sorted(ts) /\ Len(ts) <= Len(timestamps) /\ Len(ts) \in Nat
    BY <1>1, RequestsPruned
  <2> HIDE DEF es, e, ts
  <2>4. /\ Append(es, e) \in Seq(Event) /\ SortedEvents(Append(es, e))
        /\ Memory!Used(Append(es, e)) = Memory!Used(es) + n
    BY <1>8, <2>2, ChargesAppended, ChargeEntersSorted
  <2>5. Memory!PruneTokens(Append(es, e)) = Append(es, e)
    <3> DEFINE fs == Append(es, e)
    <3>1. /\ Len(es) \in Nat /\ Len(fs) = Len(es) + 1 /\ fs[Len(es) + 1] = e
          /\ \A i \in 1 .. Len(es) : fs[i] = es[i]
      BY <1>8, <2>2, AppendProperties
    <3>2. fs \in Seq(Event) /\ SortedEvents(fs)
      BY <2>4
    <3> HIDE DEF fs
    <3>3. ASSUME NEW i \in 1 .. Len(fs) PROVE fs[i].age <= Window
      <4>1. CASE i = Len(es) + 1
        BY <2>2, <3>1, <4>1, WindowAssumption
      <4>2. CASE i # Len(es) + 1
        <5>1. i \in 1 .. Len(es)
          BY <3>1, <4>2
        <5> QED
          BY <1>8, <3>1, <5>1
      <4> QED
        BY <4>1, <4>2
    <3>4. Memory!PruneTokens(fs) = fs
      BY <3>2, <3>3, NothingToPrune
    <3> QED
      BY <3>4 DEF fs
  <2>6. Memory!TypeOK'
    BY <1>4, <2>1, <2>3, <2>4, MemoryTypesAfter
  <2>7. CountsInFlight'
    <3>1. TpmLimit > 0 => Memory!Used(es) + n + MaxTokens * Cardinality(InFlight') <= TokenBound
      <4> HIDE DEF TokenBound, MaxTokens
      <4> QED
        BY <1>6, <1>7, <1>9, <1>10, <2>2, MaxTokensIsLargest
    <3> QED
      BY <2>1, <2>4, <2>5, <3>1 DEF CountsInFlight
  <2>8. Len(timestamps') <= RpmLimit
    BY <1>1, <2>1, <2>3, LimitsAssumption
  <2> QED
    BY <2>6, <2>7, <2>8 DEF MemoryInv
<1>13. CASE Memory!EndUncharged(r)
  BY <1>11, <1>13 DEF Memory!EndUncharged
<1>14. ASSUME NEW n \in TokenCounts, Memory!Complete(r, n) PROVE MemoryInv'
  <2>1. CASE n > 0
    BY <1>12, <1>14, <2>1
  <2>2. CASE ~(n > 0)
    BY <1>11, <1>14, <2>2 DEF Memory!Complete
  <2> QED
    BY <2>1, <2>2
<1> QED
  BY <1>13, <1>14

\* The clock brings nothing into a window.
LEMMA MemoryTick ==
    ASSUME MemoryInv, Memory!Tick
    PROVE  MemoryInv'
<1>1. /\ timestamps \in Seq(Ages) /\ Sorted(timestamps) /\ Len(timestamps) <= RpmLimit
      /\ token_events \in Seq(Event) /\ SortedEvents(token_events)
      /\ req \in [Requests -> Standing] /\ CountsInFlight
  BY MemoryTypes DEF MemoryInv
<1>2. timestamps' = AgedRequests(timestamps) /\ token_events' = Aged(token_events) /\ req' = req
  BY DEF Memory!Tick, AgedRequests, Aged
<1>3. /\ timestamps' \in Seq(Ages) /\ Sorted(timestamps') /\ Len(timestamps') = Len(timestamps)
  BY <1>1, <1>2, RequestsAged
<1> DEFINE es == Memory!PruneTokens(token_events)
           fs == Memory!PruneTokens(token_events')
<1>4. /\ token_events' \in Seq(Event) /\ SortedEvents(token_events')
      /\ Memory!Used(fs) <= Memory!Used(es)
  BY <1>1, <1>2, ChargesAged
<1>5. Memory!Used(fs) \in Nat /\ Memory!Used(es) \in Nat
  BY <1>1, <1>4, TokensPruned, ChargesAreSum
<1>6. Memory!TypeOK'
  BY <1>1, <1>2, <1>3, <1>4, MemoryTypesAfter
<1>7. InFlight' = InFlight /\ InFlight \in SUBSET Requests
  BY <1>2 DEF InFlight, Memory!InFlight
<1>8. MaxTokens * Cardinality(InFlight) \in Nat /\ TokenBound \in Int
  BY <1>7, SomeRequests, Charges, LimitsAssumption DEF TokenBound
<1>9. CountsInFlight'
  <2>1. TpmLimit > 0 => Memory!Used(es) + MaxTokens * Cardinality(InFlight) <= TokenBound
    BY <1>1 DEF CountsInFlight
  <2>2. TpmLimit > 0 => Memory!Used(fs) + MaxTokens * Cardinality(InFlight) <= TokenBound
    <3> HIDE DEF TokenBound, MaxTokens, es, fs
    <3> QED
      BY <1>4, <1>5, <1>8, <2>1
  <2> QED
    BY <1>7, <2>2 DEF CountsInFlight
<1> QED
  BY <1>1, <1>3, <1>6, <1>9 DEF MemoryInv

-----------------------------------------------------------------------------
(* The limiter in memory: the quota and Retry-After                         *)

\* The positions of the requests let through a ticks ago, and how many they
\* are: what the quota sees.
Let(ts, a) == {i \in DOMAIN ts : ts[i] = a}

Passed(ts) == [a \in 0 .. Window |-> Cardinality(Let(ts, a))]

\* The quota's sum.
LEMMA QuotaSum == \A f : Memory!Quota!SumFunction(f) = SumFunctionOnSet(f, DOMAIN f)
BY DEF Memory!Quota!SumFunction, Memory!Quota!SumFunctionOnSet, Memory!Quota!FoldFunctionOnSet,
       Memory!Quota!MapThenFoldSet, SumFunctionOnSet, FoldFunctionOnSet, MapThenFoldSet

\* What the quota sees of the deque.
LEMMA QuotaSeesPassed ==
    /\ \A ts : [a \in 0 .. Window |-> Memory!Cardinality({i \in DOMAIN ts : ts[i] = a})] = Passed(ts)
    /\ Memory!Quota!Total = SumFunctionOnSet(Passed(timestamps), 0 .. Window)
<1>1. \A ts : [a \in 0 .. Window |-> Memory!Cardinality({i \in DOMAIN ts : ts[i] = a})] = Passed(ts)
  BY Counts DEF Passed, Let
<1>2. DOMAIN Passed(timestamps) = 0 .. Window
  BY DEF Passed
<1>3. Memory!Quota!Total = Memory!Quota!SumFunction(Passed(timestamps))
  BY <1>1 DEF Memory!Quota!Total
<1> QED
  BY <1>1, <1>2, <1>3, QuotaSum

\* Some positions of a sequence are finitely many, and as many as there are.
LEMMA Positions ==
    ASSUME NEW X, NEW s \in Seq(X)
    PROVE  /\ \A S \in SUBSET DOMAIN s : IsFiniteSet(S)
           /\ Cardinality(1 .. Len(s)) = Len(s)
<1>1. Len(s) \in Nat /\ DOMAIN s = 1 .. Len(s)
  OBVIOUS
<1>2. IsFiniteSet(1 .. Len(s)) /\ Cardinality(1 .. Len(s)) = Len(s)
  <2> DEFINE n == Len(s)
  <2>1. 1 \in Int /\ n \in Int /\ (1 > n => n = 0) /\ n - 1 + 1 = n
    BY <1>1
  <2> HIDE DEF n
  <2>2. IsFiniteSet(1 .. n) /\ Cardinality(1 .. n) = IF 1 > n THEN 0 ELSE n - 1 + 1
    BY <2>1, FS_Interval
  <2>3. IsFiniteSet(1 .. n) /\ Cardinality(1 .. n) = n
    BY <2>1, <2>2
  <2> QED
    BY <2>3 DEF n
<1> QED
  BY <1>1, <1>2, FS_Subset

\* The requests of a deque in the window, together.
LEMMA PassedInWindow ==
    ASSUME NEW ts \in Seq(Ages)
    PROVE  /\ SumFunctionOnSet(Passed(ts), 0 .. Window) = Cardinality({i \in DOMAIN ts : ts[i] <= Window})
           /\ IsFiniteSet({i \in DOMAIN ts : ts[i] <= Window})
<1> DEFINE S == {i \in DOMAIN ts : ts[i] <= Window}
           h == [i \in S |-> ts[i]]
           V == 0 .. Window
<1>0. Window \in Nat /\ DOMAIN ts = 1 .. Len(ts) /\ Len(ts) \in Nat
  BY WindowAssumption
<1>1. \A i \in DOMAIN ts : ts[i] \in Ages
  BY <1>0, ElementOfSeq
<1>2. IsFiniteSet(S) /\ IsFiniteSet(V)
  <2>1. S \in SUBSET DOMAIN ts
    OBVIOUS
  <2>2. 0 \in Int /\ Window \in Int
    BY <1>0
  <2>3. IsFiniteSet(V)
    BY <2>2, FS_Interval
  <2> HIDE DEF S, V
  <2>4. IsFiniteSet(S)
    BY <2>1, Positions
  <2> QED
    BY <2>3, <2>4
<1>3. h \in [S -> V]
  BY <1>0, <1>1 DEF Ages
<1>4. \A a \in V : {i \in S : h[i] = a} = Let(ts, a)
  BY <1>0 DEF Let
<1>5. [a \in V |-> Cardinality({i \in S : h[i] = a})] = Passed(ts)
  BY <1>4 DEF Passed
<1>6. SumFunctionOnSet([a \in V |-> Cardinality({i \in S : h[i] = a})], V) = Cardinality(S)
  <2> HIDE DEF S, h, V
  <2> QED
    BY <1>2, <1>3, SumOfClasses
<1> QED
  BY <1>2, <1>5, <1>6

\* Positions that match one to one are as many.
LEMMA AsMany ==
    ASSUME NEW A, NEW B, IsFiniteSet(A), NEW f \in [A -> B],
           \A i, j \in A : f[i] = f[j] => i = j,
           \A b \in B : \E i \in A : f[i] = b
    PROVE  Cardinality(A) = Cardinality(B)
<1>1. f \in Bijection(A, B)
  BY DEF Bijection, Injection, Surjection, IsInjective
<1>2. ExistsBijection(A, B)
  BY <1>1 DEF ExistsBijection
<1> QED
  BY <1>2, FS_Bijection

\* prune() changes nothing of what the quota sees, and leaves no more than that.
LEMMA PassedPruned ==
    ASSUME NEW ts \in Seq(Ages), Sorted(ts)
    PROVE  LET p == Memory!PruneRequests(ts)
           IN  /\ Passed(p) = Passed(ts)
               /\ SumFunctionOnSet(Passed(ts), 0 .. Window) = Len(p)
<1> DEFINE p == Memory!PruneRequests(ts)
<1>0. Window \in Nat /\ DOMAIN ts = 1 .. Len(ts) /\ Len(ts) \in Nat
  BY WindowAssumption
<1>1. p \in Seq(Ages) /\ \A i \in 1 .. Len(p) : p[i] <= Window
  BY RequestsPruned
<1>2. PICK k \in 0 .. Len(ts) :
            /\ Len(p) = Len(ts) - k
            /\ \A i \in 1 .. Len(ts) - k : p[i] = ts[i + k]
            /\ \A i \in 1 .. k : ts[i] > Window
  BY RequestsPruned
<1> HIDE DEF p
<1>3. DOMAIN p = 1 .. Len(p) /\ Len(p) \in Nat
  BY <1>1
<1>4. ASSUME NEW a \in 0 .. Window PROVE Cardinality(Let(p, a)) = Cardinality(Let(ts, a))
  <2> DEFINE f == [i \in Let(p, a) |-> i + k]
  <2>1. ASSUME NEW i \in Let(p, a) PROVE i + k \in Let(ts, a) /\ i \in Nat
    BY <1>0, <1>2, <1>3, <2>1 DEF Let
  <2>2. f \in [Let(p, a) -> Let(ts, a)]
    BY <2>1
  <2>3. \A i, j \in Let(p, a) : f[i] = f[j] => i = j
    BY <1>2, <2>1
  <2>4. ASSUME NEW b \in Let(ts, a) PROVE \E i \in Let(p, a) : f[i] = b
    <3>1. b \in 1 .. Len(ts) /\ ts[b] = a
      BY <1>0 DEF Let
    <3>2. ~(b \in 1 .. k)
      BY <1>0, <1>2, <3>1
    <3>3. b - k \in 1 .. Len(ts) - k /\ (b - k) + k = b
      BY <1>0, <3>1, <3>2
    <3>4. b - k \in Let(p, a)
      BY <1>2, <1>3, <3>1, <3>3 DEF Let
    <3> QED
      BY <3>3, <3>4
  <2>5. IsFiniteSet(Let(p, a))
    <3>1. Let(p, a) \in SUBSET DOMAIN p
      BY DEF Let
    <3> QED
      BY <1>1, <3>1, Positions
  <2> HIDE DEF f
  <2> QED
    BY <2>2, <2>3, <2>4, <2>5, AsMany
<1>5. Passed(p) = Passed(ts)
  BY <1>4 DEF Passed
<1>6. {i \in DOMAIN p : p[i] <= Window} = 1 .. Len(p)
  BY <1>1, <1>3
<1>7. Cardinality(1 .. Len(p)) = Len(p)
  BY <1>1, Positions
<1>8. SumFunctionOnSet(Passed(p), 0 .. Window) = Len(p)
  BY <1>1, <1>6, <1>7, PassedInWindow
<1> QED
  BY <1>5, <1>8 DEF p

\* A request let through is one more at age 0.
LEMMA PassedAppended ==
    ASSUME NEW ts \in Seq(Ages)
    PROVE  Passed(Append(ts, 0)) = [Passed(ts) EXCEPT ![0] = @ + 1]
<1> DEFINE us == Append(ts, 0)
           n == Len(ts) + 1
<1>0. /\ Window \in Nat /\ DOMAIN ts = 1 .. Len(ts) /\ Len(ts) \in Nat /\ n \in Nat
      /\ 0 \in Ages /\ 0 \in 0 .. Window
  BY WindowAssumption DEF Ages
<1>1. /\ DOMAIN us = 1 .. n /\ us[n] = 0
      /\ \A i \in 1 .. Len(ts) : us[i] = ts[i]
  BY <1>0, AppendProperties
<1> HIDE DEF us
<1>2. 1 .. n = (1 .. Len(ts)) \cup {n} /\ n \notin 1 .. Len(ts)
  BY <1>0
<1> HIDE DEF n
<1>3. Let(us, 0) = Let(ts, 0) \cup {n} /\ n \notin Let(ts, 0)
  BY <1>0, <1>1, <1>2 DEF Let
<1>4. \A a \in 0 .. Window : a # 0 => Let(us, a) = Let(ts, a)
  BY <1>0, <1>1, <1>2 DEF Let
<1>5. IsFiniteSet(Let(ts, 0))
  <2>1. Let(ts, 0) \in SUBSET DOMAIN ts
    BY DEF Let
  <2> QED
    BY <2>1, Positions
<1>6. Cardinality(Let(us, 0)) = Cardinality(Let(ts, 0)) + 1
  BY <1>3, <1>5, FS_AddElement
<1>7. Passed(us) = [Passed(ts) EXCEPT ![0] = @ + 1]
  <2> DEFINE f == [Passed(ts) EXCEPT ![0] = @ + 1]
  <2>1. DOMAIN f = 0 .. Window /\ f = [a \in 0 .. Window |-> f[a]]
    BY DEF Passed
  <2>2. \A a \in 0 .. Window : f[a] = Cardinality(Let(us, a))
    BY <1>0, <1>4, <1>6 DEF Passed
  <2> QED
    BY <2>1, <2>2 DEF Passed
<1> QED
  BY <1>7 DEF us

\* A tick moves every request to the next age.
LEMMA PassedAged ==
    ASSUME NEW ts \in Seq(Ages)
    PROVE  Passed(AgedRequests(ts)) = [a \in 0 .. Window |-> IF a = 0 THEN 0 ELSE Passed(ts)[a - 1]]
<1> DEFINE us == AgedRequests(ts)
<1>0. Window \in Nat /\ DOMAIN ts = 1 .. Len(ts) /\ Len(ts) \in Nat
  BY WindowAssumption
<1>1. DOMAIN us = DOMAIN ts /\ \A i \in DOMAIN ts : us[i] = Memory!Older(ts[i]) /\ ts[i] \in Ages
  BY <1>0, ElementOfSeq DEF AgedRequests
<1> HIDE DEF us
<1>2. Let(us, 0) = {}
  BY <1>0, <1>1 DEF Let, Ages, Memory!Older
<1>3. ASSUME NEW a \in 0 .. Window, a # 0 PROVE Let(us, a) = Let(ts, a - 1)
  BY <1>0, <1>1, <1>3 DEF Let, Ages, Memory!Older
<1>4. \A a \in 0 .. Window : a # 0 => a - 1 \in 0 .. Window
  BY <1>0
<1>5. Cardinality({}) = 0
  BY FS_EmptySet
<1>6. \A a \in 0 .. Window : Cardinality(Let(us, a)) = IF a = 0 THEN 0 ELSE Passed(ts)[a - 1]
  BY <1>2, <1>3, <1>4, <1>5 DEF Passed
<1>7. Passed(us) = [a \in 0 .. Window |-> IF a = 0 THEN 0 ELSE Passed(ts)[a - 1]]
  BY <1>6 DEF Passed
<1> QED
  BY <1>7 DEF us

\* Nobody has been let through.
LEMMA QuotaInit ==
    ASSUME timestamps = <<>>
    PROVE  Memory!Quota!Init
<1>1. \A a \in 0 .. Window : Let(timestamps, a) = {}
  BY DEF Let
<1>2. Passed(timestamps) = [a \in 0 .. Window |-> 0]
  BY <1>1, FS_EmptySet DEF Passed
<1> QED
  BY <1>2, QuotaSeesPassed DEF Memory!Quota!Init

\* Whatever the limiter does, the quota lets a request through, ages, or sees
\* nothing.
LEMMA QuotaStep ==
    ASSUME MemoryInv, Memory!Next
    PROVE  [Memory!Quota!Pass \/ Memory!Quota!Age]_(Passed(timestamps))
<1> DEFINE ts == Memory!PruneRequests(timestamps)
<1>1. timestamps \in Seq(Ages) /\ Sorted(timestamps)
  BY MemoryTypes DEF MemoryInv
<1>2. /\ ts \in Seq(Ages) /\ Len(ts) \in Nat
      /\ Passed(ts) = Passed(timestamps)
      /\ SumFunctionOnSet(Passed(timestamps), 0 .. Window) = Len(ts)
  BY <1>1, RequestsPruned, PassedPruned
<1>3. CASE timestamps' = timestamps \/ timestamps' = ts
  BY <1>2, <1>3
<1>4. CASE Len(ts) < RpmLimit /\ timestamps' = Append(ts, 0)
  <2> HIDE DEF ts
  <2>1. Passed(timestamps') = [Passed(timestamps) EXCEPT ![0] = @ + 1]
    BY <1>2, <1>4, PassedAppended
  <2>2. Memory!Quota!Pass
    BY <1>2, <1>4, <2>1, QuotaSeesPassed DEF Memory!Quota!Pass
  <2> QED
    BY <2>2
<1>5. CASE Memory!Tick
  <2>1. timestamps' = AgedRequests(timestamps)
    BY <1>5 DEF Memory!Tick, AgedRequests
  <2>2. Passed(timestamps') = [a \in 0 .. Window |-> IF a = 0 THEN 0 ELSE Passed(timestamps)[a - 1]]
    BY <1>1, <2>1, PassedAged
  <2>3. Memory!Quota!Age
    BY <2>2, QuotaSeesPassed DEF Memory!Quota!Age
  <2> QED
    BY <2>3
<1>6. ASSUME NEW r \in Requests, Memory!Arrive(r)
      PROVE  timestamps' = ts \/ (Len(ts) < RpmLimit /\ timestamps' = Append(ts, 0))
  BY <1>6 DEF Memory!Arrive, Memory!Enter
<1>7. ASSUME NEW r \in Requests, Memory!EndUncharged(r) \/ \E n \in TokenCounts : Memory!Complete(r, n)
      PROVE  timestamps' = timestamps \/ timestamps' = ts
  BY <1>7 DEF Memory!EndUncharged, Memory!Complete
<1> HIDE DEF ts
<1> QED
  BY <1>3, <1>4, <1>5, <1>6, <1>7 DEF Memory!Next

\* When the oldest request has left the window, fewer than the limit are in it.
LEMMA RetryAfterEnough ==
    ASSUME MemoryInv, NEW r \in Requests, Memory!Arrive(r), req'[r].pc = "rpm_limited"
    PROVE  Memory!Cardinality({i \in DOMAIN timestamps' :
                                  timestamps'[i] + req'[r].retry_after <= Window}) < RpmLimit
<1> DEFINE ts == Memory!PruneRequests(timestamps)
           S == {i \in DOMAIN timestamps' : timestamps'[i] + req'[r].retry_after <= Window}
<1>0. Window \in Nat /\ RpmLimit \in Nat
  BY WindowAssumption, LimitsAssumption
<1>1. /\ timestamps \in Seq(Ages) /\ Sorted(timestamps) /\ Len(timestamps) <= RpmLimit
      /\ req \in [Requests -> Standing]
  BY MemoryTypes DEF MemoryInv
<1>2. /\ ts \in Seq(Ages) /\ Sorted(ts) /\ Len(ts) <= Len(timestamps)
      /\ Len(ts) \in Nat /\ DOMAIN ts = 1 .. Len(ts)
      /\ \A i \in 1 .. Len(ts) : ts[i] <= Window
  BY <1>1, RequestsPruned
<1>3. timestamps' = ts /\ req'[r] = Memory!RpmRefusal(ts)
  BY <1>1 DEF Memory!Arrive
<1> HIDE DEF ts
<1>4. Len(ts) > 0 /\ req'[r].retry_after = Window - ts[1] + 1
  BY <1>2, <1>3, RefusalStands
<1>5. \A i \in 1 .. Len(ts) : ts[i] \in Ages
  BY <1>2, ElementOfSeq
<1>6. S \subseteq 2 .. Len(ts)
  <2> SUFFICES ASSUME NEW i \in 1 .. Len(ts), ts[i] + (Window - ts[1] + 1) <= Window PROVE i \in 2 .. Len(ts)
    BY <1>2, <1>3, <1>4
  <2>1. 1 \in 1 .. Len(ts)
    BY <1>2, <1>4
  <2>2. ts[i] \in Ages /\ ts[1] \in Ages
    BY <1>5, <2>1
  <2>3. ts[i] # ts[1]
    BY <1>0, <2>2 DEF Ages
  <2> QED
    BY <1>2, <2>3
<1>7. Cardinality(2 .. Len(ts)) = Len(ts) - 1 /\ IsFiniteSet(2 .. Len(ts))
  BY <1>2, <1>4, FS_Interval
<1>8. Cardinality(S) \in Nat /\ Cardinality(S) <= Len(ts) - 1
  BY <1>6, <1>7, FS_Subset, FS_CardinalityType
<1>9. Memory!Cardinality(S) = Cardinality(S)
  BY Counts
<1>10. Len(timestamps) \in Nat
  BY <1>1
<1> HIDE DEF S
<1>11. Memory!Cardinality(S) < RpmLimit
  BY <1>0, <1>1, <1>2, <1>8, <1>9, <1>10
<1> QED
  BY <1>11 DEF S

-----------------------------------------------------------------------------
(* Both limiters                                                            *)

\* The limiter in use keeps its invariant, and the other one is not touched.
IInv ==
    \/ backend = "memory" /\ MemoryInv /\ rl_req = {} /\ rl_tok = {}
    \/ backend = "redis" /\ RedisInv /\ timestamps = <<>> /\ token_events = <<>>

\* Either limiter starts so.
LEMMA LimiterInit == Init => IInv
BY MemoryInit, RedisInit DEF Init, IInv

\* Every step of the limiter in memory keeps its invariant.
LEMMA MemoryStep ==
    ASSUME MemoryInv, Memory!Next
    PROVE  MemoryInv'
BY MemoryArrive, MemoryEnd, MemoryTick DEF Memory!Next

\* Every step of the limiter on Redis keeps its invariant.
LEMMA RedisStep ==
    ASSUME RedisInv, Redis!Next
    PROVE  RedisInv'
BY RedisTypesStep, CountsAddingStep, CountsChargingStep DEF RedisInv

\* IInv is inductive.
LEMMA LimiterStep == IInv /\ [Next]_vars => IInv'
<1> SUFFICES ASSUME IInv, [Next]_vars PROVE IInv'
  OBVIOUS
<1>1. CASE UNCHANGED vars
  <2>1. MemoryInv => MemoryInv'
    BY <1>1 DEF vars, MemoryInv, CountsInFlight, InFlight, Memory!InFlight, Memory!TypeOK
  <2>2. RedisInv => RedisInv'
    BY <1>1 DEF vars, RedisInv, ChargesSomething, CountsAdding, CountsCharging, Adding, Charging,
                Redis!At, Redis!TypeOK
  <2> QED
    BY <1>1, <2>1, <2>2 DEF vars, IInv
<1>2. CASE Next
  <2>1. CASE backend = "memory"
    <3>1. MemoryInv /\ Memory!Next /\ UNCHANGED <<backend, rl_req, rl_tok>> /\ rl_req = {} /\ rl_tok = {}
      BY <1>2, <2>1 DEF IInv, Next
    <3>2. MemoryInv'
      BY <3>1, MemoryStep
    <3> QED
      BY <2>1, <3>1, <3>2 DEF IInv
  <2>2. CASE backend = "redis"
    <3>1. /\ RedisInv /\ Redis!Next /\ UNCHANGED <<backend, timestamps, token_events>>
          /\ timestamps = <<>> /\ token_events = <<>>
      BY <1>2, <2>2 DEF IInv, Next
    <3>2. RedisInv'
      BY <3>1, RedisStep
    <3> QED
      BY <2>2, <3>1, <3>2 DEF IInv
  <2> QED
    BY <2>1, <2>2 DEF IInv
<1> QED
  BY <1>1, <1>2

\* IInv always holds.
THEOREM LimiterInvariant == Spec => []IInv
BY LimiterInit, LimiterStep, PTL DEF Spec

\* Each limiter's state is as its class comment describes it, the deques in
\* order of age so that prune() may stop early, and the other one is not used.
THEOREM LimiterTypeOK == Spec => []TypeOK
<1>1. IInv => TypeOK
  BY DEF IInv, MemoryInv, RedisInv, TypeOK
<1> QED
  BY <1>1, LimiterInvariant, PTL

\* Whatever the limits: no window of the Redis limiter holds more requests than
\* the limit and those that can be between zcard and zadd (check_request).
THEOREM RequestsAreBounded == Spec => []RequestOvershootBounded
<1>1. IInv => RequestOvershootBounded
  <2>1. CASE RedisInv
    BY <2>1, RedisBounds DEF RequestOvershootBounded
  <2>2. CASE rl_req = {}
    <3>1. Redis!RequestsInWindow = {}
      BY <2>2 DEF Redis!RequestsInWindow
    <3>2. Redis!Cardinality({}) = 0 /\ Redis!Cardinality(Requests) \in Nat
      BY FS_EmptySet, SomeRequests, Counts
    <3> QED
      BY <3>1, <3>2, LimitsAssumption DEF RequestOvershootBounded, Redis!RequestOvershootBounded
  <2> QED
    BY <2>1, <2>2 DEF IInv
<1> QED
  BY <1>1, LimiterInvariant, PTL

\* TokenBound, as each limiter writes it.
LEMMA SameBound ==
    /\ Memory!TokenBound = TokenBound /\ Redis!TokenBound = TokenBound
    /\ TpmLimit > 0 => TokenBound \in Nat
<1>1. Memory!TokenBound = TokenBound /\ Redis!TokenBound = TokenBound
  BY Counts DEF Redis!TokenBound, Memory!TokenBound, TokenBound, Redis!MaxTokens, Memory!MaxTokens, MaxTokens
<1>2. MaxTokens * Cardinality(Requests) \in Nat
  BY SomeRequests, Charges
<1> QED
  BY <1>1, <1>2, LimitsAssumption DEF TokenBound

\* Whatever the limits and sizes: on either limiter the tokens of a window
\* exceed the limit by no more than the completions that were in flight when
\* the last request passed check_tokens.
THEOREM TokensAreBounded == Spec => []TokenOvershootBounded
<1>1. ASSUME MemoryInv PROVE Memory!TokenOvershootBounded
  <2> DEFINE used == Memory!Used(Memory!PruneTokens(token_events))
  <2>1. token_events \in Seq(Event) /\ SortedEvents(token_events) /\ CountsInFlight
    BY <1>1, MemoryTypes DEF MemoryInv
  <2>2. used \in Nat
    BY <2>1, TokensPruned, ChargesAreSum
  <2>3. MaxTokens * Cardinality(InFlight) \in Nat
    BY SomeRequests, Charges DEF InFlight
  <2>4. TpmLimit > 0 => used + MaxTokens * Cardinality(InFlight) <= TokenBound
    BY <2>1 DEF CountsInFlight
  <2>5. TpmLimit > 0 => used <= TokenBound
    <3> HIDE DEF TokenBound, MaxTokens, used
    <3> QED
      BY <2>2, <2>3, <2>4, SameBound
  <2> QED
    BY <2>5, SameBound DEF Memory!TokenOvershootBounded
<1>2. ASSUME token_events = <<>> PROVE Memory!TokenOvershootBounded
  <2> HIDE DEF TokenBound
  <2> QED
    BY <1>2, NoCharges, SameBound DEF Memory!TokenOvershootBounded
<1>3. ASSUME rl_tok = {} PROVE Redis!TokenOvershootBounded
  <2>1. Redis!TokensInWindow = {}
    BY <1>3 DEF Redis!TokensInWindow
  <2>2. Redis!Used({}) = 0
    <3>1. {} \in SUBSET Member /\ IsFiniteSet({})
      BY FS_EmptySet
    <3> QED
      BY <3>1, UsedIsSum, SumEmpty
  <2> HIDE DEF TokenBound
  <2> QED
    BY <2>1, <2>2, SameBound DEF Redis!TokenOvershootBounded
<1>4. IInv => TokenOvershootBounded
  BY <1>1, <1>2, <1>3, RedisBounds DEF IInv, TokenOvershootBounded
<1> QED
  BY <1>4, LimiterInvariant, PTL

\* In memory no window of time sees more than RpmLimit requests let through,
\* however arrivals, refusals and prunes fall in it: each step of the limiter
\* is one of the sliding quota, or none (check_request).
THEOREM LimiterKeepsQuota == Spec => KeepsRequestQuota
<1>1. Init => Memory!Quota!Init
  BY QuotaInit DEF Init
<1>2. IInv /\ [Next]_vars => [Memory!Quota!Pass \/ Memory!Quota!Age]_(Passed(timestamps))
  <2> SUFFICES ASSUME IInv, [Next]_vars
               PROVE  [Memory!Quota!Pass \/ Memory!Quota!Age]_(Passed(timestamps))
    OBVIOUS
  <2>1. CASE timestamps' = timestamps
    BY <2>1
  <2>2. CASE timestamps' # timestamps
    <3>1. MemoryInv /\ Memory!Next
      BY <2>2 DEF IInv, Next, vars
    <3> QED
      BY <3>1, QuotaStep
  <2> QED
    BY <2>1, <2>2
<1> DEFINE passed == [a \in 0 .. Window |-> Memory!Cardinality({i \in DOMAIN timestamps : timestamps[i] = a})]
<1>3. IInv /\ [Next]_vars => [Memory!Quota!Pass \/ Memory!Quota!Age]_passed
  <2>1. passed = Passed(timestamps) /\ passed' = Passed(timestamps')
    BY QuotaSeesPassed
  <2> HIDE DEF passed
  <2> QED
    BY <1>2, <2>1
<1> QED
  BY <1>1, <1>3, LimiterInvariant, PTL
     DEF Spec, KeepsRequestQuota, Memory!KeepsRequestQuota, Memory!Quota!Spec

\* A client that waits as long as Retry-After says finds a place in the window,
\* unless somebody else took it (InMemoryRateLimiter.check_request).
THEOREM WaitingIsEnough == Spec => RetryAfterSuffices
<1> DEFINE Enough ==
        \A r \in Requests : Memory!Arrive(r) /\ req'[r].pc = "rpm_limited" =>
            Memory!Cardinality({i \in DOMAIN timestamps' :
                                   timestamps'[i] + req'[r].retry_after <= Window}) < RpmLimit
<1>1. ASSUME IInv, IInv', [Next]_vars PROVE Enough
  <2> SUFFICES ASSUME NEW r \in Requests, Memory!Arrive(r), req'[r].pc = "rpm_limited"
               PROVE  Memory!Cardinality({i \in DOMAIN timestamps' :
                          timestamps'[i] + req'[r].retry_after <= Window}) < RpmLimit
    OBVIOUS
  <2>1. CASE MemoryInv
    BY <2>1, RetryAfterEnough
  <2>2. CASE backend = "redis"
    <3>1. backend' = "redis"
      BY <1>1, <2>2 DEF Next, vars
    <3>2. RedisInv'
      BY <1>1, <3>1 DEF IInv
    <3>3. req' \in [Requests -> Where]
      BY <3>2 DEF RedisInv, Redis!TypeOK, Where, Places, Moment
    <3>4. req'[r].pc \in Places
      BY <3>3 DEF Where
    <3> QED
      BY <3>4 DEF Places
  <2> QED
    BY <1>1, <2>1, <2>2 DEF IInv
<1>2. IInv /\ IInv' /\ [Next]_vars => [Enough]_(Memory!vars)
  BY <1>1
<1> QED
  BY <1>2, LimiterInvariant, PTL DEF Spec, RetryAfterSuffices, Memory!RetryAfterSuffices
=============================================================================
