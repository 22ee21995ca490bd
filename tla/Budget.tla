------------------------------- MODULE Budget -------------------------------
(* The monthly budget of one tenant (app/backend/src/auth/budget.py), with   *)
(* the usage rows it is computed from (usage/repository.py) and the part of  *)
(* a request that reads and feeds them (check_budget, _record_completion).   *)
(*                                                                          *)
(* Every pod keeps a cached month-to-date cost.  A pod is single-threaded:   *)
(* an action runs from one await to the next, and the awaits are those of    *)
(* the database and of the provider.  An in-flight request waits in the      *)
(* provider's call; the usage table is shared by the pods.                  *)
(*                                                                          *)
(* A tenant without a budget (None, or not positive) passes check_budget     *)
(* and reads nothing, so Budget is positive here.                           *)
EXTENDS Integers, FiniteSetsExt, Functions

CONSTANTS
    Pods,
    Requests,      \* slots for the tenant's concurrent requests
    PodOf,         \* the pod a request slot belongs to
    Budget,        \* tenant.monthly_budget_usd
    Costs,         \* what a completion may cost; 0 when it has no price
    Ttl,           \* ttl_seconds of the cache, in ticks
    LastMonth,     \* bound: months run from 1 to LastMonth
    MaxLost        \* bound: cost of the completions that may stay without a row

ASSUME PodsAssumption ==
    IsFiniteSet(Pods) /\ IsFiniteSet(Requests) /\ PodOf \in [Requests -> Pods]
ASSUME BudgetAssumption == Budget \in Nat \ {0}
ASSUME CostsAssumption == Costs \subseteq Nat /\ \E c \in Costs : \A d \in Costs : d <= c
ASSUME BoundsAssumption == Ttl \in Nat /\ LastMonth \in Nat \ {0} /\ MaxLost \in Nat

VARIABLES
    month,     \* the current UTC month
    rows,      \* month |-> the sum of cost_usd over its usage rows
    lost,      \* what completions cost that have no row
    cache,     \* pod |-> its cached month-to-date cost, or NotCached
    req        \* request |-> its progress, and the local that goes with it

vars == <<month, rows, lost, cache, req>>

Months == 1 .. LastMonth

NotCached == [ttl |-> -1]

\* A cached cost, and the ticks it is still valid.
Entry(cost) == [ttl |-> Ttl, cost |-> cost]

Cached(p) == cache[p] # NotCached

Idle == [pc |-> "idle"]
Inserted(c) == [pc |-> "inserted", cost |-> c]
At(r, pc) == req[r].pc = pc

-----------------------------------------------------------------------------

OverBudget(spent) == spent >= Budget

\* The decision of check_budget, and where it leaves the request.
Decided(spent) == [pc |-> IF OverBudget(spent) THEN "refused" ELSE "in_flight"]

MayStart(r) == req[r].pc \in {"idle", "refused"}

\* Mutant: get() renews the entry it returns.
CheckCachedRenews(r) ==
    /\ MayStart(r)
    /\ Cached(PodOf[r])
    /\ req' = [req EXCEPT ![r] = Decided(cache[PodOf[r]].cost)]
    /\ cache' = [cache EXCEPT ![PodOf[r]] = [@ EXCEPT !.ttl = Ttl]]
    /\ UNCHANGED <<month, rows, lost>>

\* check_budget with the cost in the cache.
CheckCached(r) ==
    /\ MayStart(r)
    /\ Cached(PodOf[r])
    /\ req' = [req EXCEPT ![r] = Decided(cache[PodOf[r]].cost)]
    /\ UNCHANGED <<month, rows, lost, cache>>

\* check_budget without: month_to_date_cost takes the start of the month and
\* awaits the database, ...
CheckUncached(r) ==
    /\ MayStart(r)
    /\ ~Cached(PodOf[r])
    /\ req' = [req EXCEPT ![r] = [pc |-> "querying", since |-> month]]
    /\ UNCHANGED <<month, rows, lost, cache>>

CostSince(m) == SumFunctionOnSet(rows, m .. LastMonth)

\* ... which sums the rows that are committed by then, ...
QueryRuns(r) ==
    /\ At(r, "querying")
    /\ req' = [req EXCEPT ![r] = [pc |-> "answered", spent |-> CostSince(req[r].since)]]
    /\ UNCHANGED <<month, rows, lost, cache>>

\* ... or fails, which nothing catches: the request ends and the cache is left
\* alone, ...
QueryFails(r) ==
    /\ At(r, "querying")
    /\ req' = [req EXCEPT ![r] = Idle]
    /\ UNCHANGED <<month, rows, lost, cache>>

\* ... and the request goes on with the answer.
CheckEnds(r) ==
    /\ At(r, "answered")
    /\ cache' = [cache EXCEPT ![PodOf[r]] = Entry(req[r].spent)]
    /\ req' = [req EXCEPT ![r] = Decided(req[r].spent)]
    /\ UNCHANGED <<month, rows, lost>>

-----------------------------------------------------------------------------

\* The provider answers, and _record_completion sends the row.
ProviderAnswers(r, c) ==
    /\ At(r, "in_flight")
    /\ req' = [req EXCEPT ![r] = [pc |-> "inserting", cost |-> c, since |-> month]]
    /\ UNCHANGED <<month, rows, lost, cache>>

\* The provider fails, the answer comes from the response cache, or the
\* request was none for a completion.
EndUncharged(r) ==
    /\ At(r, "in_flight")
    /\ req' = [req EXCEPT ![r] = Idle]
    /\ UNCHANGED <<month, rows, lost, cache>>

\* Before the row is sent, record_tokens fails in Redis and its exception ends
\* the request: nothing charges what the provider was paid.
ChargeFails(r, c) ==
    /\ At(r, "in_flight")
    /\ lost + c <= MaxLost
    /\ lost' = lost + c
    /\ req' = [req EXCEPT ![r] = Idle]
    /\ UNCHANGED <<month, rows, cache>>

\* The row is committed: from here on queries see it, with a time it got since
\* the provider answered.
InsertCommits(r) ==
    /\ At(r, "inserting")
    /\ \E m \in req[r].since .. month :
          rows' = [rows EXCEPT ![m] = @ + req[r].cost]
    /\ req' = [req EXCEPT ![r] = Inserted(req[r].cost)]
    /\ UNCHANGED <<month, lost, cache>>

\* An insert that fails is logged, and the request goes on.
InsertFails(r) ==
    /\ At(r, "inserting")
    /\ lost + req[r].cost <= MaxLost
    /\ lost' = lost + req[r].cost
    /\ req' = [req EXCEPT ![r] = Inserted(req[r].cost)]
    /\ UNCHANGED <<month, rows, cache>>

\* Mutant: the spend is not added to the cached cost.
AfterSpendUnchanged(e, c) == e

\* Mutant: the entry is renewed by a free request too.
AfterSpendRenews(e, c) == Entry(e.cost + c)

\* record_spend on a cached entry: it gets a whole new TTL.
AfterSpend(e, c) == IF c > 0 THEN Entry(e.cost + c) ELSE e

\* Back in _record_completion: record_spend, unless the cost is None or 0.
RecordSpend(r) ==
    LET p == PodOf[r]
    IN  /\ At(r, "inserted")
        /\ cache' = IF Cached(p)
                    THEN [cache EXCEPT ![p] = AfterSpend(@, req[r].cost)]
                    ELSE cache
        /\ req' = [req EXCEPT ![r] = Idle]
        /\ UNCHANGED <<month, rows, lost>>

-----------------------------------------------------------------------------

\* Mutant: get() does not look at expires_at.
AgedForever(e) ==
    IF e = NotCached THEN e
    ELSE [e EXCEPT !.ttl = @ - 1]

\* An entry is valid until `expires_at < now'.
Aged(e) ==
    IF e = NotCached \/ e.ttl = 0
    THEN NotCached
    ELSE [e EXCEPT !.ttl = @ - 1]

Tick ==
    /\ \E p \in Pods : Cached(p)
    /\ cache' = [p \in Pods |-> Aged(cache[p])]
    /\ UNCHANGED <<month, rows, lost, req>>

NewMonth ==
    /\ month < LastMonth
    /\ month' = month + 1
    /\ UNCHANGED <<rows, lost, cache, req>>

\* A pod is replaced: its cache and its requests are gone, the rows are not.
Restart(p) ==
    /\ cache' = [cache EXCEPT ![p] = NotCached]
    /\ req' = [r \in Requests |-> IF PodOf[r] = p THEN Idle ELSE req[r]]
    /\ UNCHANGED <<month, rows, lost>>

Init ==
    /\ month = 1
    /\ rows = [m \in Months |-> 0]
    /\ lost = 0
    /\ cache = [p \in Pods |-> NotCached]
    /\ req = [r \in Requests |-> Idle]

Step(r) ==
    \/ QueryRuns(r) \/ QueryFails(r) \/ CheckEnds(r)
    \/ \E c \in Costs : ProviderAnswers(r, c) \/ ChargeFails(r, c)
    \/ EndUncharged(r)
    \/ InsertCommits(r) \/ InsertFails(r)
    \/ RecordSpend(r)

Next ==
    \/ \E r \in Requests : CheckCached(r) \/ CheckUncached(r) \/ Step(r)
    \/ Tick
    \/ NewMonth
    \/ \E p \in Pods : Restart(p)

Spec == Init /\ [][Next]_vars

\* The event loop, the database and the provider (or its timeout) go on, and
\* so does the clock.
FairSpec ==
    /\ Spec
    /\ \A r \in Requests : WF_vars(Step(r))
    /\ WF_vars(Tick)

-----------------------------------------------------------------------------
(* Properties                                                               *)

MaxCost == Max(Costs)

\* What n concurrent requests of one pod can bring the recorded cost to.  A
\* read of the database that reached its pod late puts an old cost back into
\* the cache: with k of them still unstuck, the pod then spends the budget
\* anew, and k requests overshoot it.
PodBound(n) == n * (Budget - 1) + ((n * (n + 1)) \div 2) * MaxCost

MaxRows == SumFunction([p \in Pods |-> PodBound(Cardinality({r \in Requests : PodOf[r] = p}))])

TypeOK ==
    /\ month \in Months
    /\ rows \in [Months -> Nat]
    /\ lost \in 0 .. MaxLost
    /\ cache \in [Pods -> {NotCached} \cup [ttl : 0 .. Ttl, cost : Nat]]
    /\ req \in [Requests ->
          [pc : {"idle", "refused", "in_flight"}]
          \cup [pc : {"querying"}, since : Months]
          \cup [pc : {"answered"}, spent : Nat]
          \cup [pc : {"inserting"}, cost : Costs, since : Months]
          \cup [pc : {"inserted"}, cost : Costs]]

\* Checked before the call and charged after it, on pods that know each
\* other's spend only through the database and cache what they read, the
\* budget can be overspent: but the overshoot is bounded by the number of
\* concurrent requests, and does not grow with time (check_budget,
\* record_spend).
SpendBounded == \A m \in Months : rows[m] <= MaxRows

\* A refusal does not outlive the month or a mistake in the cache: a pod that
\* refuses forgets its cached cost and asks the database again, however often
\* it is asked and whatever its last requests still charge (_MtdCostCache).
RefusalsAreReconsidered ==
    \A p \in Pods :
        Cached(p) /\ OverBudget(cache[p].cost) ~> ~Cached(p) \/ ~OverBudget(cache[p].cost)

\* Once the recorded cost of the last month has reached the budget, every pod
\* finds out, however stale its cache is, and from then on nothing is called
\* (check_budget, record_spend).
BudgetIsEnforced ==
    <>[](month = LastMonth /\ OverBudget(rows[month]) =>
            \A r \in Requests : ~At(r, "in_flight"))
=============================================================================
