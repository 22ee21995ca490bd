# A specification of the LLM gateway

TLA+ modules that model the gateway in `src/app/backend` and the script that
deploys it, TLC configurations that check them on small instances, and proofs that
TLAPS checks for every value of the constants. Paths below are relative to `src/app/backend/src/`
unless they say otherwise.

## 1. The system

The gateway is one FastAPI process per pod (two to ten pods, `helm-chart`), each
a single-threaded asyncio loop. A completion request passes

    get_current_tenant        key -> tenant, RPM, TPM, monthly budget   auth/
      -> chat_completions     allowlist, guardrails, response cache     api/, middleware/
        -> route              candidates, breakers, provider calls      routing/, providers/
      -> _record_completion   tokens, usage row, cached spend           api/, usage/

The pods share Redis (the limiter's sorted sets) and Postgres (the usage
rows). Everything else, the breakers, the cached month-to-date costs, the response
cache and even the API keys, is memory of one process: it is lost at a
restart and unknown to the other pods.

Since a process runs a single thread, a piece of code between two `await`s is
atomic in its process; requests of one process interleave at the awaits, and
requests of different pods at every command to Redis and Postgres. The
modules take their atomic actions from that and nothing else.

| Component | State it keeps | Operations | What is hard | What makes it correct |
|---|---|---|---|---|
| Routing and failover (`routing/router.py`, `routing/policies.py`, `providers/registry.py`) | per process: a circuit breaker per provider; per request: chain, attempts | `resolve_chain`, `route`; `allow`, `record_success`, `record_failure` | answers that arrive out of order, breakers that change while a request waits, trials of half-open breakers, walking the chain | only allowed providers are called, in order; a refusal or failure is justified; breakers stay consistent and recover |
| In-memory limiter (`auth/ratelimit.py`) | per tenant: deques of timestamps and of charges | `check_request`, `check_tokens`, `record_tokens`, `prune` | the ends of the sliding window, tokens charged after they are checked | no window holds more than `rpm_limit`; the token overshoot is bounded; `Retry-After` suffices |
| Redis limiter (`auth/ratelimit.py`) | two sorted sets per tenant, shared | the same, as separate commands | check-then-act across pods, members that collide, slow methods, commands that fail half-way | the overshoot of both limits is bounded |
| Monthly budget (`auth/budget.py`, `usage/repository.py`, `api/routes.py`) | usage rows (shared); a TTL-cached cost per pod | `check_budget`, `record_spend`, `month_to_date_cost`, `insert` | reads that race with writes, two pods, failing inserts, restarts, the turn of the month | the overspend is bounded; refusals are reconsidered; a spent budget is enforced |
| Request pipeline (`api/routes.py`, `auth/dependencies.py`, `auth/models.py`) | per request: tenant, body, response; through its parts everything else | `get_current_tenant`, `list_models`, `chat_completions`, `_record_completion` | a body replaced on its way, a response shared with the cache while it is recorded, tenants behind one cache, every service failing at every await, pods replaced | an answer is of the model and to the question; nothing redacted leaves; every paid completion is entered once in every book or a fault excuses it; every request ends |
| Response cache (`middleware/cache.py`, `embeddings.py`) | per process: LRU with TTL, or partitions of embeddings | `get`/`set`, `get_semantic`/`set_semantic` | eviction and expiry, what the key leaves out | a hit is an unexpired answer to an equivalent request for the same model |
| Keys and admin API (`auth/keystore.py`, `api/admin.py`) | per process: key hash -> record | create, lookup, revoke, list | every pod has its own store | a key is accepted for its tenant until a revocation reaches the pod |
| Guardrails (`middleware/guardrails.py`) | none | `apply_to_messages` | order of overlapping patterns | what was detected is redacted before lookup, call and store |
| Pricing (`providers/pricing.py`) | a constant table | `estimate_cost` | suffix matches, models without a price | - |
| Provider adapters (`providers/openai.py`, `bedrock.py`) | a client | `chat`, `health` | which failures are retryable | - |
| Usage reports, database setup (`usage/`) | the rows | sums, recent rows | - | - |
| SSE rendering (`api/routes.py`) | none | `_sse_stream` | - | the chunks put together are the answer |
| Observability (`observability/`) | counters | increments | - | - |
| Configuration, startup (`core/config.py`, `main.py`) | settings | - | - | - |
| Bootstrap script (`src/RUNME.py`) | a state file, the outputs, the cloud | phases `preflight` ... `validate`, `destroy` | commands that fail or are interrupted between two phases, stale outputs | a completed phase did its work; `all` keeps its order; a rerun recovers |
| Admin console (`src/app/admin-ui`) | none of its own | polls the admin API | stale pages | - |
| Deployment (`src/argocd`, `src/terraform`, `src/app/helm-chart`, CI) | - | - | - | - |

`PROJECT.json` lists the hazards of this code line by line, each with the
properties that would catch it.

## 2. The modules

### Routing

`CircuitBreaker` is the class of that name as operators on a record, because its
methods run inside larger atomic steps. `Router` is `route()`: `Route` is the
resolution of the chain and everything up to the first `await provider.chat`;
`ChatSucceeds`, `ChatFailsRetryably` and `ChatFailsForGood` are the three ways out of that
await with all that follows up to the next one. `Tick` is the monotonic
clock. The constant `Candidates` gives, for each model or alias, what
`resolve_chain` enumerates while every breaker is closed, in its order; the breakers are asked in the model,
not in the constant. A chain is represented by the set of the positions
of its candidates. Two fields of a breaker are represented exactly and yet
finitely: the count saturates at the threshold, where it is no longer compared
with anything else, and `opened_at` is kept as the time since then.

A restart of the process is a return to `Init`, so it needs no action.

`Policies` is `resolve_chain` as it is written, from the order of registration, what the adapters list,
support and default to, and the prices: it leaves out the providers that are not allowed first, and
enumerates, ranks and cuts what is left. `Routing` puts both together: `ChainIsResolved` says that
filtering before ranking, as the code does, and filtering the fixed list, as `Router` does, come to the
same chain with every set of open breakers that is reached. That, and the assumption `CandidatesAreListed` (the constant is what
`resolve_chain` lists with every breaker closed), tie the constant to the code.

`RoutingContract` is the abstract specification: what one caller is promised, with
no breaker in it. `Router` implements it under the refinement mapping `Life`.

### Limits

`RateLimiter` is the in-memory class, one tenant, together with what a request
makes of it: `Arrive` is `check_request` followed by `check_tokens` (none of the methods
awaits anything, so both are one step), `Complete` is `record_tokens`. An event
carries its age instead of a timestamp; an age past the window stays there.
`SlidingQuota` is the abstract promise: at most so many in any window.
`Limiter` is `get_rate_limiter`: one of the two, chosen once; `LimiterSettings` holds what both are given.

`RedisRateLimiter` has an action per command, because the pipelines are not
transactions and other pods' commands fall between any two of them. Each
method reads the clock once (`ReadsClock`) and uses that `now` until it
ends, up to `MaxDelay` ticks later. A sorted set is a set of members; a
member is what the code builds it from, an instant or a count and an instant, so
members collide when the code's do. `Abandon` is a pod or a connection that
stops between any two commands.

### Budget

`Budget` has the usage rows of one tenant, a cached cost per pod, and requests that
check (`CheckCached`; or `CheckUncached`, `QueryRuns` or `QueryFails`, `CheckEnds`), call the provider,
insert their row (`InsertCommits`, `InsertFails`) and record their spend (`RecordSpend`), with
every await a step of its own. `ChargeFails` is an exception of `record_tokens` before the
row is sent. `Tick` ages the caches, `NewMonth` turns the month, `Restart` replaces a pod.

### Caches

`AnswerCache` is the abstract specification of both caches: it may forget anything at any time, but what
it gives is the answer to a query it may serve, stored at most a TTL ago. `ResponseCache`
(`cache_key`, `InMemoryCache`) and `SemanticCache` (the class of that name) implement it, each with
its own notion of what may be served. Requests look up (`Hit`, `Miss`; `Lookup`), wait for the
provider while others run, and store. An answer is represented by the query it answers,
so that what a hit gives away can be compared with what was asked; an expiry time by the
ticks that are left. The messages of a query are a record: what is
`said`, roles and contents as `cache_key` and `prompt_text` take them, and the `marks` that neither reads (names,
`tool_call_id`s, and whether a content is structured). An exact hit agrees in model, `said` and sampling (`AsksTheSame`), no more;
`HitsAreExact`, which is what the docstring of `cache_key` says, does not hold. `ResponseCache` also keeps, for every key, which others were used
since it was: that is what least recently used means without a list. `Cache` is `get_cache`: one of the two, chosen
once; `CacheSettings` holds what both are given.

### Keys

`KeyStore` has a store per pod, in the order of insertion, with `CreateTenant`, `RevokeTenant`,
`Lookup` (in `get_current_tenant`) and `Restart`, which seeds the store anew. `KeyContract` is what that
adds up to: a key is good on the pod that issued it until a revocation reaches that pod.

### The pipeline

`Gateway` is a request from its arrival to its answer, on several pods with several tenants. The parts it
calls are in it by what their own modules promise: the limiter and the budget admit, refuse or raise, the
router answers with one of the names `Upstream` allows or fails, a lookup finds something that may be served, or
nothing. In full is what passes from one to the next. `Arrive`, `ArriveUnknown`, `Limited`, `LimiterFails`,
`WithinLimits`, `QueryFails`, `UnderBudget` and `OverBudget` are `get_current_tenant`; `Handles` is what the handler
does in the step that lets a request through: allowlist, guardrails, lookup, and the answer of a hit or the call of `route`.
`ProviderAnswers` stores and begins to charge; `TokensRecorded`, `ChargeFails`, `InsertCommits`, `InsertFails`
and `Answers` are `_record_completion` await by await. `Restart` replaces a pod, with its cache and
requests. Settings are a variable that never changes, so that one run covers several deployments.
A response is one object: cache entries, locals and hits refer to it by its number in `completions`,
and a change of it would be seen through all of them; a hit answers with a copy. The counters `spends`, `counts` and
`excused` of a completion are history: what its books have of it, and which fault kept it out.

`Ledger` is the abstract specification of the books. An entry is opened when a provider is paid, goes on while it is
open, at most once into each book, and closes complete or excused. `Gateway` implements it under the
mapping `Entries`.

### Bootstrap

`Bootstrap` is `src/RUNME.py`. `Invoke` starts a command line; a command walks through phases and, inside a
phase, through steps, a step being a call of an external tool with what the script does
about its result. `Works` and `Breaks` are the two ways a tool can go; `Exits` is `run_command` with
`check`, `Returns` the return of a phase to `run_all` or to the shell. What the tools change is modelled as far as
the script looks at it: the infrastructure (one Terraform state for both environments),
the images in the registry, the database secret, the repository credentials and the root
application in the cluster, and the cluster that kubectl talks to. `PodsRun` is what the chart's pods need to start; it says
nothing of the database, which the health check does not ask. That the script has an end in
spite of all failures is stated from a moment `calm` on.

## 3. What the runs check

| Run | Instance | Shows |
|---|---|---|
| `router` | 2 providers, 4 models (one of both, one of each, one unknown; one without a price), 2 aliases, 2 requests, threshold 2, recovery 2 ticks | `ChainIsResolved`; `FirstCallIsCheapest`; `BreakersConsistent`; `NeverFailsUntried`; `CallsOnlyAllowedProviders`; `RefusesOnlyWhenUnavailable`; `ImplementsContract`; `Inv`, the invariant of the proofs, with the types |
| `router_live` | 2 models, 1 alias, recovery 1 tick | `EveryRequestEnds`, `OpenBreakersRecover` |
| `limiter` | either limiter, 2 requests, window 2 ticks, 2 requests and 2 tokens per window, completions of 0 to 2 tokens; on Redis 2 instants per tick and methods of at most 1 tick | `KeepsRequestQuota`, `RetryAfterSuffices` (memory); `RequestOvershootBounded` (Redis); `TokenOvershootBounded` (both) |
| `budget` | 2 pods, 3 requests (two on one pod), budget 2, costs 0 to 2, TTL 1, one month, lost cost up to 1 | `SpendBounded` |
| `budget_live` | the same, budget 1, costs 0 and 1, two months | `RefusalsAreReconsidered`, `BudgetIsEnforced` |
| `cache` | either cache, 2 requests (interchangeable), 6 bodies (one with a named message) of 2 models and 3 texts of which two pairs are similar, 2 entries, TTL 1 | `RecentlyUsedStay` (exact); `ImplementsAnswerCache` (both) |
| `cache_key` | the exact cache, 4 bodies that differ in `stop`, in `user` or in the name of a message | violation of `HitsAreExact` (finding) |
| `key_store` | 2 pods, the seed and 2 keys, 2 tenant ids, 2 limits | `GoodKeysAreListed`, `ImplementsKeyContract` |
| `gateway` | 1 pod, 2 requests of 2 tenants (one with a budget and a short allowlist), 2 models and an alias, prompts with either of 2 items, as text or in parts, 4 deployments (the chart's; open with and without cache; semantic without redaction), at most 2 completions | `AnswersAreOfTheModel`, `AnswersAreToTheQuestion`, `NothingSensitiveLeaves`, `RowsAreTrue`, `BudgetsNeedTheTable`, `ImplementsLedger`, `EveryRequestEnds`; `Inv`, the invariant of the proofs |
| `gateway_raises` | the same | violation of `RecordingNeverRaises` (finding) |
| `bootstrap` | 2 environments, any 3 of 19 command lines, then the calm | `CompletionIsEarned`, `AllInOrder`, `UndisturbedRunsDeploy`, `RerunRecovers` |
| `bootstrap_reconcile` | any 2 command lines | violation of `ReconcileKeepsSecret` (finding) |

Why the bounds are enough. Two requests and two providers give every order
of a late answer against an opening, a trial and a recovery; `cheapest` comes back to
a provider it has already tried, so that a chain meets a breaker that its own
failure opened. A threshold of 2 separates the failure that opens from the one
that does not. The runs have the fallback enabled, which is the default and the harder
case; the theorems hold with and without it. Two requests overshoot a token limit that one does
not reach. On the Redis limiter two requests interleave their commands in every
order, with a window longer than a method and one that may end while a
method runs. The budget's bound depends on how the requests spread over the
pods: two on one pod race for its cache, the third works behind its back. Three keys in a
cache of two entries are the least that evict, two requests the least that store behind
each other's back. Two pods are one that a revocation reaches and one that it does not. Three commands are
enough to build, tear or replace, and use what is left; a fourth and all that follow are run in the calm.
In the pipeline two completions are one that is stored and one that it meets in the cache, or two that are recorded at the same
time; hits are not bounded. A slot of requests belongs to one tenant and one pod and has two or three
bodies, which between them agree in the model, in the prompt, in what redaction makes of it, or are similar. Pods share nothing of the pipeline but the table, so
one is checked; the theorems are about any number.

`SpendBounded` deserves a word. A read of the database that arrives late puts an
old cost back into its pod's cache, and the pod spends the budget anew; the
bound adds up what `n` concurrent requests of a pod can do with that,
`n (Budget - 1) + n (n + 1) / 2 * MaxCost`. It is tight: TLC reaches it.
The overspend thus does not grow with time, but it does grow with the square
of the concurrency.

Fairness. `AnswersArrive`: an answer or a failure ends every provider call (the OpenAI
client has a timeout; the Bedrock client has a read timeout and bounded
retries). `ClientsKeepAsking`: for `OpenBreakersRecover` only, somebody keeps asking for each
model whenever that is possible again and again, because a breaker leaves its
open state only when it is asked. `Budget!FairSpec`: started requests go on,
since loop, database and provider do, and the clock ticks; nothing is assumed
of clients, months and restarts. `Bootstrap!FairSpec`: once nothing fails any more, commands end
(`wait_for_condition` and the loop of `reconcile` have deadlines) and somebody reruns `all`.
`Gateway!FairSpec`: a request that waits for Redis, the database or a provider goes on or fails, one way or another;
that no service ever succeeds is a possibility, and nothing is assumed of clients and pods.

### Findings

Shown by a run:

* `cache.py:36`: the key is said to cover what determines the response; `stop`, `user`, and a message's `name` and `tool_call_id`, which
  `openai.py:78` and `openai.py:87` send to the provider, are not in it, and structured content has the key of its JSON text (`cache_key`).
* `routes.py:202`: `_record_completion` is said never to raise; it does when Redis fails under `record_tokens`, and the caller
  of a completion that was paid for gets a 500 (`gateway_raises`).
* `RUNME.py:929`: a read that fails makes `reconcile` overwrite the database secret with the password
  alone (`bootstrap_reconcile`).

Met while modelling. The modules behave so, and the properties above hold in spite of it; no run states the claim:

* `ratelimit.py:137`: `src/README.md:66` says the sliding window is "atomic via Lua script"; it is
  a count and a zadd of their own, and requests in between get in (`CountRequests`, `AddRequest`; `RequestOvershootBounded` says how many).
* `RUNME.py:1271`: `RUNME.py:16` says of `destroy` "Tear down everything". It calls the command `terraform` as a function,
  whose other parameters are then typer's `OptionInfo` objects: it always ends in a `TypeError`, before Terraform is called (`DestroyRaises`).
* `main.py:53`: `src/README.md:68` says the schema is ready before the first request; a failing `init_db` is only logged (`Restart`, `InsertFails`).
* `usage/models.py:16`: "One row per LLM request handled by the gateway": hits, failures, and completions whose insert or charge failed have none (`Hits`, `InsertFails`).
* `pricing.py:46`: `src/README.md:46` says every request is priced; a name the table does not have, as the provider
  reports it, has no price and does not count against the budget (`Charged`).
* `guardrails.py:54`: prompts in structured parts pass unredacted (`Redacted`); they do so in the model, and `NothingSensitiveLeaves` is about strings.
* `metrics.py:106`: `llm_provider_failures_total` is an "alerting target" that is only ever increased by 0.
* `registry.py:50`: a half-open breaker is said to allow a single trial; it allows everything (`Allows`).
* `ratelimit.py:170`: members are said to contain a uuid; equal charges of the same time merge (`TokenMember`).
* `budget.py:102`: the staleness of a cached cost is said to be 30 seconds; every
  completion renews it, so it is unbounded on a busy pod (`AfterSpend`).
* `budget.py:102`: a spend read from the database before it is recorded counts twice,
  and a tenant under its budget may be refused for a while (`CheckEnds`, `RecordSpend`).
* `keystore.py:67`: `admin-ui/app/tenants/page.tsx:47` calls a revocation immediate; it reaches one pod, and not the
  seed of the next (`RevokeTenant`, `Restart`).
* `RUNME.py:1010`: `reconcile` promises (`RUNME.py:876`) to "create the application database if it does not yet exist", from a pod with the label
  `app=backend`. The chart gives that label to none (`helm-chart/backend/templates/_helpers.tpl:37-41`), so the step is always skipped, as if no
  pod were there yet, and an undisturbed `all` leaves no database (`PodFound`, `ReconcileEnsures`); `UndisturbedRunsDeploy` therefore claims none.
* `RUNME.py:986`: the restart "to consume refreshed secret" is of a deployment `backend`; the chart calls it `llm-gateway-backend`. It fails unnoticed, and
  pods keep the password they started with (`ReconcileEnsures` changes nothing by it).
* `RUNME.py:1099`: `validate` looks for the namespace `codeguardian`, which is called `llm-gateway`, and never
  passes (`ValidationPasses`).
* `RUNME.py:742`: a repository secret that exists is said to be updated; it is left as it is, labelled or not (`DeployCreds`).
* `RUNME.py:485`: `status` shows phases of a destroyed infrastructure as completed (`TerraformDestroyed`).
* `RUNME.py:1348`: `all` reports success whatever `reconcile` and `validate` returned (`GoesOn`, `Returns`).
* `RUNME.py:536`: the cluster name comes from an output that does not exist; production is never reached (`GuessedRight`).

## 4. What is proved

Seven modules hold theorems and one, `FoldLemmas`, the lemmas on folds and sums that four of them share; `tlapm` checks all of
them to the last leaf.

`RouterProofs`: for all sets of providers, models, aliases and
requests, all candidate sequences, either value of `FallbackEnabled`, every positive
threshold and every recovery time (the named assumptions of `CircuitBreaker` and
`Router`, nothing else); `ResolvedChain` and `FirstCall` for every registry, lists of models, defaults and prices (those of `Policies` and `Routing` too:
the registry and what adapters list are sequences, prices are natural numbers, and the candidates are those that are listed):

| Theorem | Statement |
|---|---|
| `Invariance` | `Spec => []Inv` |
| `TypeCorrectness`, `BreakerConsistency` | the conjuncts of `Inv` |
| `NoUntriedFailure` | `Spec => []NeverFailsUntried` |
| `CallsAreAllowed` | `Spec => CallsOnlyAllowedProviders` |
| `RefusalsAreJustified` | `Spec => RefusesOnlyWhenUnavailable` |
| `RouterImplementsContract` | `Spec => ImplementsContract` |
| `RequestsRunDown` | `CallsLeft`, the calls a request has before it, is a natural number; every answer lowers it, and nothing else touches a request in a call |
| `OpenBreakersMend` | `Spec => [][\A p \in Providers : Mends(p)]_vars` |
| `ResolvedChain` | `Spec => []ChainIsResolved` |
| `FirstCall` | `Spec => FirstCallIsCheapest` |

`TypeOK` is not inductive for what matters: that the callee exists, that the next
candidate comes after all those tried, and that nothing but the first is
tried without fallback need to know where a request stands in its chain. That is
`WalkOK`, the third part of `Inv`. The proof first says what each
method of a breaker preserves, then what `Proceed`, the part that three
actions share, establishes, then takes the actions one by one. That a non-empty
set of positions has a first one, on which the loop's progress rests, is
proved by well-founded induction over the naturals through the library's
theorem on minimal elements.

`ChainIsResolved` says that filter, flatten, stable sort and cut come to the same in either order. No lemma
compares the lists. `Lists` says of a list which set of places it shows, by which order; `OneListing` that for an order that is strict there is only one such
list; and each function says what it lists: a loop that passes over elements what is left of its argument (`OnlyLists`, `LeftOver`), the flattened
list the pairs of a place in the registry and a place in that entry's models (`FlattenLists`), the sort the same pairs by price and then
by place (`SortLists`), and the positions of `Router` what is allowed of the candidates (`AtLists`, `Selected`). So for any model or alias there is one ranking of places
from which the breakers only cut (`ChainRanks`, `ChainIsCut`), and both sides are the list of what is left. `FirstCallIsCheapest` reads the prices off
the same ranking (`CandidatesByPrice`) and needs `WalkOK` besides: a call after a failure is never the only attempt.

`RequestsRunDown` and `OpenBreakersMend` are the safety half of `EveryRequestEnds` and `OpenBreakersRecover`. A request cannot be sent
round for ever, however other requests open and close breakers under it, because its place in the chain only rises. And nothing can hold
a breaker open but the calls that were under way when it opened: `Mends` says that none begins while it stands open, that its
recovery time starts anew only with one of them ending, that ticks bring it nearer to the end of that time, and that then whoever consults
the provider finds it half-open (`ProceedPasses`, `RouteAsks`: the loop may pass an open breaker only while its time has not passed).

`GatewayProofs`: for all pods, slots, tenants, allowlists, budgets, models, names, bodies, similarities and
deployments, and any bound on the completions (the named assumptions of `Gateway`):

| Theorem | Statement |
|---|---|
| `Invariance` | `Spec => []Inv` |
| `TypeCorrectness`, `OnlyAllowedModels`, `OnlyTheirQuestions`, `OnlyTrueRows` | the conjuncts of `Inv` that the run checks |
| `OnlyRedacted` | `Spec => []NothingSensitiveLeaves` |
| `OnlyWithTheTable` | `Spec => []BudgetsNeedTheTable` |
| `GatewayKeepsBooks` | `Spec => ImplementsLedger` |
| `RequestsRunDown` | `StepsLeft`, the steps a request has before it, is at most 6; every step lowers it, and only the end of its pod touches a request otherwise |

None of these is inductive alone. That an answer from the cache is of the right model rests on what every cache entry says of its
completion (`EntryIsTrue`), which rests on what a request knew when it called (`RequestIsTrue`); that a row is
true rests on the row a request has sent, and that it enters its completion once on nobody else
recording the same one and on what has been entered before the await it is at (`RecordsItsOwn`). `Inv` is the conjunction.
The proof sorts the actions by what they touch: those that leave completions, caches and rows alone (`QuietStep`),
the handler, the provider's answer, the steps of `_record_completion` (`RecordingStep`), and the replacement of a pod.
The refinement goes the same way: every entry stays or goes on (`LedgerGoesOn`). For a completion the number of its rows in the table
is read off the bag of rows, about which `InsertAddsOne` is all that is needed.

`KeyStoreProofs`: for all pods, keys, tenants and limits, with or without a seed (`SeedAssumption`):

| Theorem | Statement |
|---|---|
| `TypeCorrectness` | `Spec => []TypeOK` |
| `GoodKeysListed` | `Spec => []GoodKeysAreListed` |
| `KeyStoreImplementsContract` | `Spec => ImplementsKeyContract` |

`TypeOK` says more than types: a pod has a key once, and only issued ones, and the seed is issued. That is inductive, and
all the others need: that a new key is nobody's is the guard of `Issue` in the contract, and
that a tenant with a record has a first one, which the list shows, is well-foundedness once more. The refinement says how the good
keys of a sequence of records change when one is appended (`GoodKeysMore`) and when a tenant is revoked (`RevokedRecords`).

`BootstrapProofs`: for all environments, all command lines that typer accepts and any number of commands, with every tool failing and
every command interrupted anywhere (`InvocationsAssumption`, `MaxRunsAssumption`):

| Theorem | Statement |
|---|---|
| `TypeCorrectness` | `Spec => []TypeOK` |
| `PhasesInOrder` | `Spec => []AllInOrder` |
| `CompletionEarned` | `Spec => CompletionIsEarned` |
| `UndisturbedDeploys` | `Spec => []UndisturbedRunsDeploy` |
| `CommandsRunDown` | `Spec => [](Left \in 0 .. 98) /\ [][run # Idle => Left' < Left]_vars` |
| `CalmRunsSucceed` | `Dev \in Conventional => (Spec => [][calm /\ run # Idle /\ run' = Idle => Done']_vars)` |

Two lemmas carry all of them: `StepTyped`, and `StepMoves`, which says that a step touches the status of no other phase
and leaves its command in one of three ways: where it was (`Stays`), ended (`Leaves`), or in the next phase of `all` with
this one completed (`Passes`). The order follows at once. That a completion is earned needs what is half done inside a phase
(`HalfDone`): between `terraform apply` and the capture of its outputs the infrastructure stays whole, and between the pushes
the first image stays. What an undisturbed `all` deploys is handed from phase to phase
(`Deployed`): a cluster that answers from kubeconfig on, the applications from deploy on, and inside reconcile the synced secret and the admin key.

The last two are what `RerunRecovers` rests on. `Left` counts the phases that are left, and the steps of this one: no step of a
command, a failed one neither, enters a phase again. And in the calm, when tools work and nobody interrupts, a command that ends has
deployed the cluster, the applications and the images, for any number of commands before it, interrupted and failed anywhere. `CalmRun` is inductive for this: what each phase
and step hands to the next (`Handed`) and that it is still the `all` of the calm, without options (`Rerun`). It is proved under one hypothesis
besides the named assumptions, `Dev \in Conventional`: that the cluster of the development environment is called what
`kubeconfig` makes up for it, as `terraform/environments/dev.tfvars:7` has it. Both runs have it so, and without it no `all` gets past that phase (`GuessedRight`).

`LimiterProofs`: for all limits, zero included, all windows, sizes of completions, sets of requests and delays (`LimitsAssumption`,
`TokensAssumption`: completions have a largest size, `RequestsAssumption`: the slots are finite), and either limiter:

| Theorem | Statement |
|---|---|
| `LimiterInvariant` | `Spec => []IInv` |
| `LimiterTypeOK` | `Spec => []TypeOK` |
| `RequestsAreBounded` | `Spec => []RequestOvershootBounded` |
| `TokensAreBounded` | `Spec => []TokenOvershootBounded` |
| `LimiterKeepsQuota` | `Spec => KeepsRequestQuota` |
| `WaitingIsEnough` | `Spec => RetryAfterSuffices` |

On Redis the bound of either set is made inductive by counting those who have looked and not yet written: what is in the window
and the requests between zcard and zadd (`CountsAdding`), the tokens of the window and what completions in flight
may charge (`CountsCharging`). In memory the deques are in order of age (in `TypeOK`), so that `prune`, which stops at the first event it keeps,
removes exactly what has left the window; the tokens are counted as on Redis (`CountsInFlight`). The refinement of
`SlidingQuota` counts the requests of the deque by age (`Passed`).

`CacheProofs`: for all queries, keys, similarities, sizes, TTLs and requests (`CacheSettings`), and either cache:

| Theorem | Statement |
|---|---|
| `CacheInvariant` | `Spec => []IInv` |
| `CacheTypeOK` | `Spec => []TypeOK` |
| `CacheIsLRU` | `Spec => []RecentlyUsedStay` |
| `CacheImplementsAnswerCache` | `Spec => ImplementsAnswerCache` |

That a recently used key is still there does not follow from where it is in the dictionary now. It needs that whatever comes behind it
was used since (`Stays`), which a hit, a store and an eviction keep, each in its own way. In a partition of the semantic cache
the entries are in the order of their expiry, so that eviction at the front takes what expires first; the refinement
follows from what a step may leave of a partition (`Some`).

`BudgetProofs`: for all pods, requests and their distribution, budgets, costs (`CostsAssumption`: there is a largest), TTLs, and numbers of months:

| Theorem | Statement |
|---|---|
| `BudgetInvariant` | `Spec => []IInv` |
| `BudgetTypeOK` | `Spec => []TypeOK` |
| `SpendIsBounded` | `Spec => []SpendBounded` |
| `RefusalsWearOff` | `Spec => [][\A p \in Pods : WearsOff(p)]_vars` |

The rows do not say which pod spent what, and no bound on them alone is inductive. `IInv` says that they can be shared out among the
pods (`RowsAreShared`) so that the share `x` of a pod obeys a bound made of what its requests know. Let `k` of them not be held up by an
answer of the database that will let them pass (`Rest`), let `read` be what such answers say (`Read`), and `load` what the completions under way may
cost (`Load`). Then `x + load <= read + PodBound(k)` (`Bounded`): each late answer lets the budget be spent anew, by itself and by all requests
it joins. A step that lets a request through on a cached cost needs room for one more completion; that is there because a cache below the budget,
with what it is still owed (`Owed`), is not far behind what was spent (`Backed`). While less than the budget is spent, both hold by arithmetic
(`Early`); this is how an answer of the database, and a new month, establish them. Rows that come late to a month that is over
were part of its load when it ended (`Past`). The sums over the requests of a pod change by one term in every step of a request (`OneGoesOn`).

`RefusalsWearOff` is the safety half of `RefusalsAreReconsidered`. Every completion a pod records renews the TTL of the cached cost, so one
may fear that a pod which refuses does so for ever. It does not: while it refuses (`Refuses`), none of its requests begins, so that the
steps they have left (`StepsLeft`) never grow; whoever renews the entry comes nearer to its end by it; and every tick ages the entry.

`FoldLemmas` makes sums over functions usable: `SumFunctionOnSet` is a fold that the community modules define by recursion over
finite sets. Its lemmas (a sum with one element more, less or changed, of ones, of zeros, compared through an injection,
by classes) are proved without the induction theorems of the library: a smallest set for which one fails does not exist. The same goes for
what a walk through the positions of a sequence comes to (`WalkExists`), which is what the filter and the flattening of `Policies` are.

Only model-checked: the liveness properties themselves, `EveryRequestEnds` of both modules, `OpenBreakersRecover`,
`RefusalsAreReconsidered`, `RerunRecovers` and `BudgetIsEnforced`: fairness and ENABLED are beyond the prover. Of the first five the
part that needs neither is proved, that a step never takes back what earlier ones achieved (`RequestsRunDown` twice, `OpenBreakersMend`,
`RefusalsWearOff`, `CommandsRunDown` and `CalmRunsSucceed`); that the steps are taken at all is what TLC checks on its instance.
The three properties that runs find violated do not hold, and nothing is proved of them. Every other property of a run is a theorem.

## 5. What is left out

* Text: answers, reasons, logs, labels of metrics, span attributes. Nothing modelled depends on them. A prompt is in the pipeline what
  the guardrails and the caches tell apart; the regular expressions of `guardrails.py` and the suffix match
  of `estimate_cost` compare characters and are left out, with what they come to as `Items`, `Priced` and `InputPrice`.
* The translation of requests and responses by the adapters, and the rendering of a
  complete answer as a stream (`_sse_stream`): pure functions of text.
* `health` and the usage reports: they only read.
* The default database, SQLite in the memory of the process: `rows` outlive a pod, as in Postgres.
* Tenants are independent in the limiters and the budget, so one is modelled there.
* Clock skew between pods in the Redis limiter, and the expiry of its keys, which
  comes after everything in them has left the window.
* Limits and budgets changed while requests run: the admin API only adds
  tenants under new keys.
* `get` and `set` of `SemanticCache`, `revoke` of the key store: nothing calls them.
* The text of prompts and what makes two similar: `Similarity` is a constant.
* Hash collisions, and keys that come twice out of `secrets.token_urlsafe`.
* In the script: AWS accounts and regions, the missing files it looks for, the content of images,
  and drift of the cloud behind its back. AWS refusing an apply, as for a secret that is still
  scheduled for deletion, is a tool that breaks.

## 6. Plan

1. Done: routing (`CircuitBreaker`, `Router`, `Policies`, `Routing`, `RoutingContract`, `RouterProofs`); the limiters (`RateLimiter`,
   `SlidingQuota`, `RedisRateLimiter`, `Limiter`, `LimiterProofs`); `Budget` and `BudgetProofs`; the caches (`AnswerCache`,
   `ResponseCache`, `SemanticCache`, `Cache`, `CacheProofs`); the keys (`KeyContract`, `KeyStore`, `KeyStoreProofs`); the pipeline
   (`Gateway`, `Ledger`, `GatewayProofs`); `Bootstrap` and `BootstrapProofs`; the folds and sums they share (`FoldLemmas`).
2. Done: the safety half of the liveness properties, measures that every step of a request, or of a command of the script, lowers. What fairness
   makes of them stays with TLC.
