------------------------------- MODULE Gateway -------------------------------
(* The pipeline of a completion (app/backend/src/api/routes.py, with         *)
(* auth/dependencies.py in front of it) on several pods.                     *)
(*                                                                          *)
(* The parts it calls are here by what they promise; their own modules say   *)
(* how they keep it: the limiter and the budget admit or refuse (Limiter,    *)
(* Budget), the router answers or fails (Router), the cache gives what it    *)
(* was given for the same or a similar question, or nothing (Cache).  What   *)
(* is modelled in full is how a request passes from one to the next.        *)
(*                                                                          *)
(* A pod is single-threaded: an action is what a request does between two    *)
(* awaits that suspend it, on Redis, the database or the provider.  (Without *)
(* Redis the limiter suspends nothing: its steps are finer than the code's.) *)
EXTENDS Naturals, Sequences, Bags

CONSTANTS
    Pods,
    Requests,        \* slots for concurrent requests
    PodOf,           \* the pod a slot belongs to
    Tenants,         \* those with a key, and Anonymous
    TenantOf,        \* the tenant whose key comes with a slot's requests
    Anonymous,       \* the tenant of open mode
    AllowedModels,   \* tenant |-> allowed_models; every name for None
    Budgeted,        \* the tenants with a monthly_budget_usd
    Models,          \* concrete model ids
    Aliases,         \* "auto", "cheapest", "fastest"
    Names,           \* model names that answers carry
    Upstream,        \* requested model |-> the names route() may answer with
    Priced,          \* the names estimate_cost has a price for
    Items,           \* what redact_pii detects
    Asks,            \* slot |-> the bodies of its requests for a completion
    Similar,         \* pairs of prompts the semantic cache takes for one
    Deployments,     \* values of the settings
    MaxCompletions   \* bound: completions that providers are paid for

\* A prompt is the content of its messages, strings or structured parts, with
\* an item in it that the guardrails look for, a placeholder, or neither.  What
\* else a body has is left out: sampling, and what no lookup reads (names and
\* tool_call_ids of messages, stop, user).
Prompt == [form : {"text", "parts"}, item : Items \cup {"none", "placeholder"}]
Body == [model : Models \cup Aliases, prompt : Prompt, stream : BOOLEAN]

Settings ==
    [auth : BOOLEAN, redis : BOOLEAN, guardrails : BOOLEAN, redact : BOOLEAN,
     cache : {"off", "exact", "semantic"}]

ASSUME PodsAssumption == PodOf \in [Requests -> Pods]
ASSUME TenantsAssumption ==
    /\ Anonymous \in Tenants \ Budgeted
    /\ TenantOf \in [Requests -> Tenants]
    /\ AllowedModels \in [Tenants -> SUBSET (Models \cup Aliases)]
    /\ AllowedModels[Anonymous] = Models \cup Aliases
ASSUME ModelsAssumption == Upstream \in [Models \cup Aliases -> SUBSET Names]
ASSUME BodiesAssumption == Asks \in [Requests -> SUBSET Body]
ASSUME ItemsAssumption == Items \cap {"none", "placeholder"} = {}
ASSUME DeploymentsAssumption == Deployments \subseteq Settings
ASSUME BoundAssumption == MaxCompletions \in Nat

VARIABLES
    settings,      \* get_settings(), the same on all pods
    schema,        \* whether the usage table exists
    cache,         \* pod |-> what its response cache holds
    rows,          \* the usage table, a bag of rows
    completions,   \* the responses of the providers, in their order
    req            \* request |-> its progress, and the locals that go with it

vars == <<settings, schema, cache, rows, completions, req>>

Idle == [pc |-> "idle"]

\* A refusal (401, 402, 403, 429, 502, 503), and a 500.
Refused == [pc |-> "refused"]
Failed(paid) == [pc |-> "failed", paid |-> paid]

At(r, pc) == req[r].pc = pc

\* A request that waits for something.
Busy(r) == req[r].pc \notin {"idle", "refused", "answered", "failed"}

\* A request whose completion is being recorded.
Recording(r) == req[r].pc \in {"charging", "inserting", "recorded"}

\* GET /v1/models, which passes the same checks.
Listing == [model |-> "none"]

-----------------------------------------------------------------------------
(* chat_completions, from the checks to the provider                        *)

\* Tenant.model_allowed.
ModelAllowed(t, m) == m \in AllowedModels[t] \cup Aliases

\* Mutant: the content is redacted in a copy that is thrown away.
RedactedNot(prompt) == prompt

\* redact_pii on the content that is a string.
Redacted(prompt) ==
    IF prompt.form = "text" /\ prompt.item \in Items
    THEN [prompt EXCEPT !.item = "placeholder"]
    ELSE prompt

Redacting == settings.guardrails /\ settings.redact

\* apply_to_messages.
Guarded(prompt) == IF Redacting THEN Redacted(prompt) ELSE prompt

\* Mutant: a lookup by the prompt alone.
ServesAnyModel(e, m, prompt) == e.prompt = prompt

\* Mutant: the nearest entry of the partition, however far it is.
ServesNearest(e, m, prompt) == e.model = m

\* Whether the entry e may be found under a model and a prompt: get by the
\* cache_key, or get_semantic in the partition of the model.
Serves(e, m, prompt) ==
    /\ e.model = m
    /\ \/ e.prompt = prompt
       \/ settings.cache = "semantic" /\ <<e.prompt, prompt>> \in Similar

\* Streaming requests neither look up nor store.
UsesCache(b) == settings.cache # "off" /\ ~b.stream

\* What a lookup of pod p for b may find.  Any of it may have expired or been
\* evicted, so that a lookup may as well find nothing.
Found(p, b) ==
    {e \in cache[p] : UsesCache(b) /\ Serves(e, b.model, b.prompt)}

\* Mutant: what a hit says of itself, it writes into the stored response.
HitsShared(r, t, q, e) ==
    /\ req' = [req EXCEPT ![r] =
          [pc |-> "answered", tenant |-> t, body |-> q, of |-> e.of, label |-> "hit"]]
    /\ completions' = [completions EXCEPT ![e.of].label = "hit"]

\* Mutant: hits go through _record_completion.
HitsRecord(r, t, q, e) ==
    /\ req' = [req EXCEPT ![r] =
          [pc |-> "recorded", tenant |-> t, body |-> q, of |-> e.of]]
    /\ UNCHANGED completions

\* The answer is a deep copy of the stored response, relabelled.
Hits(r, t, q, e) ==
    /\ req' = [req EXCEPT ![r] =
          [pc |-> "answered", tenant |-> t, body |-> q, of |-> e.of, label |-> "hit"]]
    /\ UNCHANGED completions

\* The handler of an admitted request: list_models, which is done at once, or
\* chat_completions up to its answer, its refusal or the provider.  The
\* body goes on with the messages the guardrails returned.
Handles(r, t, b) ==
    \/ /\ b = Listing
       /\ req' = [req EXCEPT ![r] = Idle]
       /\ UNCHANGED completions
    \/ /\ b # Listing /\ ~ModelAllowed(t, b.model)
       /\ req' = [req EXCEPT ![r] = Refused]
       /\ UNCHANGED completions
    \/ /\ b # Listing /\ ModelAllowed(t, b.model)
       /\ LET q == [b EXCEPT !.prompt = Guarded(@)]
          IN  \/ \E e \in Found(PodOf[r], q) : Hits(r, t, q, e)
              \/ /\ UNCHANGED completions
                 /\ \/ req' = [req EXCEPT ![r] = [pc |-> "calling", tenant |-> t, body |-> q]]
                    \* NoProviderAvailable.
                    \/ req' = [req EXCEPT ![r] = Refused]

-----------------------------------------------------------------------------
(* get_current_tenant                                                       *)

\* Without auth everybody is Anonymous and nothing is awaited.
ArriveOpen(r, b) ==
    /\ ~settings.auth
    /\ ~Busy(r)
    /\ Handles(r, Anonymous, b)
    /\ UNCHANGED <<settings, schema, cache, rows>>

\* With auth the key is looked up, and the limiter asked.
Arrive(r, b) ==
    /\ settings.auth
    /\ ~Busy(r)
    /\ req' = [req EXCEPT ![r] = [pc |-> "limits", tenant |-> TenantOf[r], body |-> b]]
    /\ UNCHANGED <<settings, schema, cache, rows, completions>>

ArriveUnknown(r) ==
    /\ settings.auth
    /\ ~Busy(r)
    /\ req' = [req EXCEPT ![r] = Refused]
    /\ UNCHANGED <<settings, schema, cache, rows, completions>>

\* check_request or check_tokens refuses, ...
Limited(r) ==
    /\ At(r, "limits")
    /\ req' = [req EXCEPT ![r] = Refused]
    /\ UNCHANGED <<settings, schema, cache, rows, completions>>

\* ... or raises what Redis made of it: nothing catches that, ...
LimiterFails(r) ==
    /\ At(r, "limits")
    /\ settings.redis
    /\ req' = [req EXCEPT ![r] = Failed(FALSE)]
    /\ UNCHANGED <<settings, schema, cache, rows, completions>>

\* ... or lets the request through to check_budget.  The handler follows in
\* the same step unless the tenant has a budget; with one, it does if the pod
\* has the cost in its cache, which it once read from the table.
WithinLimits(r) ==
    /\ At(r, "limits")
    /\ \/ /\ req[r].tenant \in Budgeted => schema
          /\ Handles(r, req[r].tenant, req[r].body)
       \/ /\ req[r].tenant \in Budgeted
          /\ req' = [req EXCEPT ![r] =
                [pc |-> "budget", tenant |-> @.tenant, body |-> @.body]]
          /\ UNCHANGED completions
    /\ UNCHANGED <<settings, schema, cache, rows>>

\* Mutant: a query that fails counts as nothing spent.
QueryFailsOpen(r) ==
    /\ At(r, "budget")
    /\ Handles(r, req[r].tenant, req[r].body)
    /\ UNCHANGED <<settings, schema, cache, rows>>

\* month_to_date_cost raises, and nothing catches that either.
QueryFails(r) ==
    /\ At(r, "budget")
    /\ req' = [req EXCEPT ![r] = Failed(FALSE)]
    /\ UNCHANGED <<settings, schema, cache, rows, completions>>

\* It needs the table.
UnderBudget(r) ==
    /\ At(r, "budget")
    /\ schema
    /\ Handles(r, req[r].tenant, req[r].body)
    /\ UNCHANGED <<settings, schema, cache, rows>>

\* check_budget refuses, with a cost from the database or from its cache.
OverBudget(r) ==
    /\ schema
    /\ \/ At(r, "budget")
       \/ At(r, "limits") /\ req[r].tenant \in Budgeted
    /\ req' = [req EXCEPT ![r] = Refused]
    /\ UNCHANGED <<settings, schema, cache, rows, completions>>

-----------------------------------------------------------------------------
(* chat_completions from the provider to the answer, _record_completion     *)

\* What a completion is entered in: its usage row, the cached spend of the
\* budget, and the counters of requests, tokens and cost.
Books == {"row", "spend", "counters"}

Response(q, t, name) ==
    [tenant |-> t, requested |-> q.model, prompt |-> q.prompt, name |-> name,
     label |-> "miss", spends |-> 0, counts |-> 0, excused |-> {}]

\* route() fails: AllProvidersFailed.
ProviderFails(r) ==
    /\ At(r, "calling")
    /\ req' = [req EXCEPT ![r] = Refused]
    /\ UNCHANGED <<settings, schema, cache, rows, completions>>

\* Mutant: the response is stored under the model that answered.
KeptUnderName(p, q, name, i) ==
    IF UsesCache(q)
    THEN cache[p] \cup {[model |-> name, prompt |-> q.prompt, of |-> i]}
    ELSE cache[p]

\* The cache of pod p once the response i to q is stored in it: it replaces
\* the one under the same key, or joins the partition.
Kept(p, q, name, i) ==
    IF UsesCache(q)
    THEN {e \in cache[p] : settings.cache = "exact" => <<e.model, e.prompt>> # <<q.model, q.prompt>>}
            \cup {[model |-> q.model, prompt |-> q.prompt, of |-> i]}
    ELSE cache[p]

\* Mutant: the row is filled in from the response that came last.
RowOfLatest(i) ==
    LET c == completions[Len(completions)]
    IN  [of |-> i, tenant |-> c.tenant, requested |-> c.requested, name |-> c.name,
         label |-> c.label]

\* The usage row of the response i, made when the insert begins.
RowOf(i) ==
    [of |-> i, tenant |-> completions[i].tenant, requested |-> completions[i].requested,
     name |-> completions[i].name, label |-> completions[i].label]

\* The response of the provider is stored before it is recorded.
ProviderAnswers(r, name) ==
    LET q == req[r].body
        i == Len(completions) + 1
    IN  /\ At(r, "calling")
        /\ i <= MaxCompletions
        /\ name \in Upstream[q.model]
        /\ completions' = Append(completions, Response(q, req[r].tenant, name))
        /\ cache' = [cache EXCEPT ![PodOf[r]] = Kept(PodOf[r], q, name, i)]
        /\ req' = [req EXCEPT ![r] =
              [pc |-> "charging", tenant |-> req[r].tenant, body |-> q, of |-> i]]
        /\ UNCHANGED <<settings, schema, rows>>

\* record_tokens, and the row is sent.
TokensRecorded(r) ==
    /\ At(r, "charging")
    /\ req' = [req EXCEPT ![r] =
          [pc |-> "inserting", tenant |-> @.tenant, body |-> @.body, of |-> @.of,
           row |-> RowOf(@.of)]]
    /\ UNCHANGED <<settings, schema, cache, rows, completions>>

\* Redis raises in record_tokens: the caller gets a 500 for a completion that
\* was paid for and cached.
ChargeFails(r) ==
    /\ At(r, "charging")
    /\ settings.redis
    /\ completions' = [completions EXCEPT ![req[r].of].excused = Books]
    /\ req' = [req EXCEPT ![r] = Failed(TRUE)]
    /\ UNCHANGED <<settings, schema, cache, rows>>

Inserted(r) ==
    req' = [req EXCEPT ![r] =
        [pc |-> "recorded", tenant |-> @.tenant, body |-> @.body, of |-> @.of]]

InsertCommits(r) ==
    /\ At(r, "inserting")
    /\ schema
    /\ rows' = rows (+) SetToBag({req[r].row})
    /\ Inserted(r)
    /\ UNCHANGED <<settings, schema, cache, completions>>

\* Mutant: without the table, the insert is tried again and again.
InsertRetries(r) ==
    /\ At(r, "inserting")
    /\ schema
    /\ completions' = [completions EXCEPT ![req[r].of].excused = @ \cup {"row"}]
    /\ Inserted(r)
    /\ UNCHANGED <<settings, schema, cache, rows>>

\* The database, or the table that is not there, raises: that is logged.
InsertFails(r) ==
    /\ At(r, "inserting")
    /\ completions' = [completions EXCEPT ![req[r].of].excused = @ \cup {"row"}]
    /\ Inserted(r)
    /\ UNCHANGED <<settings, schema, cache, rows>>

\* record_spend, if there is a cost.
Charged(c) == IF c.name \in Priced THEN [c EXCEPT !.spends = @ + 1] ELSE c

\* METRICS.
Counted(c) == [c EXCEPT !.counts = @ + 1]

\* Both, and the answer: whole, or rendered as a stream.
Answers(r) ==
    LET i == req[r].of
    IN  /\ At(r, "recorded")
        /\ completions' = [completions EXCEPT ![i] = Counted(Charged(@))]
        /\ req' = [req EXCEPT ![r] =
              [pc |-> "answered", tenant |-> @.tenant, body |-> @.body, of |-> i,
               label |-> completions[i].label]]
        /\ UNCHANGED <<settings, schema, cache, rows>>

-----------------------------------------------------------------------------

\* The completions the requests of pod p are recording.
Held(p) == {req[r].of : r \in {r \in Requests : PodOf[r] = p /\ Recording(r)}}

\* A pod is replaced, with its requests and its cache.  The new one runs
\* init_db, which makes the table unless it fails: that is logged.
Restart(p) ==
    /\ req' = [r \in Requests |-> IF PodOf[r] = p THEN Idle ELSE req[r]]
    /\ cache' = [cache EXCEPT ![p] = {}]
    /\ completions' = [i \in DOMAIN completions |->
          IF i \in Held(p)
          THEN [completions[i] EXCEPT !.excused = Books]
          ELSE completions[i]]
    /\ schema' \in {schema, TRUE}
    /\ UNCHANGED <<settings, rows>>

Init ==
    /\ settings \in Deployments
    /\ schema \in BOOLEAN
    /\ cache = [p \in Pods |-> {}]
    /\ rows = EmptyBag
    /\ completions = <<>>
    /\ req = [r \in Requests |-> Idle]

\* What a request does on its own once it has arrived.
Step(r) ==
    \/ Limited(r) \/ LimiterFails(r) \/ WithinLimits(r)
    \/ QueryFails(r) \/ UnderBudget(r) \/ OverBudget(r)
    \/ ProviderFails(r) \/ \E name \in Names : ProviderAnswers(r, name)
    \/ TokensRecorded(r) \/ ChargeFails(r)
    \/ InsertCommits(r) \/ InsertFails(r)
    \/ Answers(r)

Next ==
    \/ \E r \in Requests :
          \/ \E b \in Asks[r] \cup {Listing} : ArriveOpen(r, b) \/ Arrive(r, b)
          \/ ArriveUnknown(r)
          \/ Step(r)
    \/ \E p \in Pods : Restart(p)

Spec == Init /\ [][Next]_vars

\* The event loop, Redis, the database and the providers go on, or fail.
FairSpec == Spec /\ \A r \in Requests : WF_vars(Step(r))

-----------------------------------------------------------------------------
(* Properties                                                               *)

Completion ==
    [tenant : Tenants, requested : Models \cup Aliases, prompt : Prompt, name : Names,
     label : {"miss", "hit"}, spends : Nat, counts : Nat, excused : SUBSET Books]

CompletionIds == 1 .. Len(completions)

Row == [of : CompletionIds, tenant : Tenants, requested : Models \cup Aliases,
        name : Names, label : {"miss", "hit"}]

Entry == [model : Models \cup Aliases, prompt : Prompt, of : CompletionIds]

Progress ==
    {Idle, Refused}
    \cup [pc : {"failed"}, paid : BOOLEAN]
    \cup [pc : {"limits", "budget"}, tenant : Tenants, body : Body \cup {Listing}]
    \cup [pc : {"calling"}, tenant : Tenants, body : Body]
    \cup [pc : {"charging", "recorded"}, tenant : Tenants, body : Body, of : CompletionIds]
    \cup [pc : {"inserting"}, tenant : Tenants, body : Body, of : CompletionIds, row : Row]
    \cup [pc : {"answered"}, tenant : Tenants, body : Body, of : CompletionIds,
          label : {"miss", "hit"}]

TypeOK ==
    /\ settings \in Deployments
    /\ schema \in BOOLEAN
    /\ cache \in [Pods -> SUBSET Entry]
    /\ IsABag(rows) /\ DOMAIN rows \subseteq Row
    /\ completions \in Seq(Completion)
    /\ req \in [Requests -> Progress]

Answered(r) == At(r, "answered")

Allowed(r) == req[r].body.model \in AllowedModels[req[r].tenant] \cup Aliases

\* Whoever asks for a concrete model gets that model or none, and nobody gets
\* a model that is not on the allowlist unless an alias let the gateway
\* choose: not from a provider, and not from a cache that all tenants of a
\* pod share (model_allowed, cache_key, the namespaces of SemanticCache).
AnswersAreOfTheModel ==
    \A r \in Requests : Answered(r) =>
        /\ completions[req[r].of].name \in Upstream[req[r].body.model]
        /\ Allowed(r)

SameQuestion(seen, prompt) ==
    \/ seen = prompt
    \/ settings.cache = "semantic" /\ <<seen, prompt>> \in Similar

\* A cached answer was given to the same question, as the provider saw it, or
\* to one the semantic cache takes for the same: redaction comes before the
\* lookup and before the call (chat_completions).
AnswersAreToTheQuestion ==
    \A r \in Requests : Answered(r) =>
        SameQuestion(completions[req[r].of].prompt, req[r].body.prompt)

Sensitive(prompt) == prompt.form = "text" /\ prompt.item \in Items

\* With the guardrails redacting, no string a pattern matches gets to a provider
\* or into a cache, where it would outlive its request (apply_to_messages).
NothingSensitiveLeaves ==
    Redacting =>
        /\ \A i \in CompletionIds : ~Sensitive(completions[i].prompt)
        /\ \A p \in Pods : \A e \in cache[p] : ~Sensitive(e.prompt)

\* The row that completion i should have.
TrueRow(i) ==
    [of |-> i, tenant |-> completions[i].tenant, requested |-> completions[i].requested,
     name |-> completions[i].name, label |-> "miss"]

\* Every usage row tells what the provider did for the tenant that asked for it,
\* although responses are in the cache, and handed out again, while their row is
\* still to be written (the deep copy in chat_completions).
RowsAreTrue == \A row \in DOMAIN rows : row = TrueRow(row.of)

\* The budget fails closed: without the table that tells what it spent, a
\* tenant with a budget never has a provider called (check_budget).
BudgetsNeedTheTable ==
    (\E i \in CompletionIds : completions[i].tenant \in Budgeted) => schema

\* How often the table has it.
Copies(i) == IF BagIn(TrueRow(i), rows) THEN rows[TrueRow(i)] ELSE 0

\* What the code knows at each await about the completion it is recording: it
\* is its own, nobody else records it, and what was not reached is not entered.
RecordsItsOwn(r) ==
    LET i == req[r].of
        c == completions[i]
    IN  /\ c.tenant = req[r].tenant
        /\ c.requested = req[r].body.model
        /\ c.prompt = req[r].body.prompt
        /\ c.spends = 0 /\ c.counts = 0
        /\ At(r, "inserting") => req[r].row = TrueRow(i)
        /\ IF At(r, "recorded")
           THEN Copies(i) = 1 \/ (Copies(i) = 0 /\ "row" \in c.excused)
           ELSE Copies(i) = 0
        /\ \A s \in Requests \ {r} : Recording(s) => req[s].of # i

\* What holds of a completion from the moment it is paid for.
CompletionIsTrue(i) ==
    LET c == completions[i]
    IN  /\ c.name \in Upstream[c.requested]
        /\ c.label = "miss"
        /\ c.tenant \in Budgeted => schema
        /\ Redacting => ~Sensitive(c.prompt)

EntryIsTrue(e) ==
    /\ completions[e.of].requested = e.model
    /\ completions[e.of].prompt = e.prompt

RequestIsTrue(r) ==
    /\ At(r, "calling") \/ Recording(r) \/ Answered(r) => Allowed(r)
    /\ At(r, "calling") =>
          /\ req[r].tenant \in Budgeted => schema
          /\ Redacting => ~Sensitive(req[r].body.prompt)
    /\ Recording(r) => RecordsItsOwn(r)

\* The pipeline, its caches and its books agree in every state, also between
\* two awaits: completions, cache entries, rows and the locals of a request
\* tell the same of who asked what and of what has been entered so far.  It
\* is inductive, and the properties above follow (chat_completions,
\* _record_completion).
Inv ==
    /\ TypeOK
    /\ \A i \in CompletionIds : CompletionIsTrue(i)
    /\ \A p \in Pods : \A e \in cache[p] : EntryIsTrue(e)
    /\ RowsAreTrue
    /\ \A r \in Requests : RequestIsTrue(r)
    /\ AnswersAreOfTheModel
    /\ AnswersAreToTheQuestion

\* A completion as an entry of the ledger.
Times(c, copies) ==
    [b \in Books |-> CASE b = "row" -> copies
                      [] b = "spend" -> c.spends
                      [] b = "counters" -> c.counts]

AsEntry(c, copies, open) ==
    [tenant |-> c.tenant,
     due |-> {b \in Books : b = "spend" => c.name \in Priced},
     times |-> Times(c, copies), excused |-> c.excused, open |-> open]

EntryOf(i) ==
    AsEntry(completions[i], Copies(i), \E r \in Requests : Recording(r) /\ req[r].of = i)

Entries == [i \in CompletionIds |-> EntryOf(i)]

L == INSTANCE Ledger WITH entries <- Entries

\* Every completion a provider was paid for is entered once in the table, in
\* the spend and in the counters, to the tenant that asked; what is missing
\* when its request is over was lost to a failure of Redis or of the pod, or,
\* of the row alone, to one of the database (_record_completion).
ImplementsLedger == L!Spec

\* A request that arrives gets its answer, a refusal or an error, whichever
\* of the services it meets fails, or goes down with its pod
\* (get_current_tenant, chat_completions).
EveryRequestEnds == \A r \in Requests : Busy(r) ~> ~Busy(r)

\* The docstring of _record_completion: a failure to record never takes the
\* answer from the caller.
RecordingNeverRaises ==
    \A r \in Requests : At(r, "failed") => ~req[r].paid
=============================================================================
