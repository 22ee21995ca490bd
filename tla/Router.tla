------------------------------- MODULE Router -------------------------------
(* Routing with failover (app/backend/src/routing/router.py, policies.py and *)
(* providers/registry.py) in one gateway process.                           *)
(*                                                                          *)
(* The process is single-threaded asyncio: a request runs without           *)
(* interruption from one `await provider.chat(...)' to the next, and other   *)
(* requests run only while it waits there.  So an action is everything      *)
(* between two awaits: the resolution of the chain with the first call, or  *)
(* the handling of a provider's answer with the call that follows it.       *)
EXTENDS CircuitBreaker, Sequences

CONSTANTS
    Providers,         \* names of the registered providers
    Models,            \* concrete model ids, known to a provider or not
    Aliases,           \* model names the gateway may substitute: "auto", ...
    Requests,          \* slots for concurrent requests
    Candidates,        \* what resolve_chain enumerates for a model or alias,
                       \* in its order, before it asks any breaker
    FallbackEnabled    \* settings.fallback_enabled

Candidate == [provider : Providers, model : Models]

ASSUME CandidatesAssumption == Candidates \in [Models \cup Aliases -> Seq(Candidate)]
ASSUME FallbackAssumption == FallbackEnabled \in BOOLEAN

VARIABLES
    breaker,   \* provider |-> its circuit breaker
    req        \* request |-> the locals of its call of route()

vars == <<breaker, req>>

Positions(m) == DOMAIN Candidates[m]
ProviderAt(m, i) == Candidates[m][i].provider

\* The chain is a set of positions of Candidates[model], walked upwards:
\* `at' is the position of the call in flight or of the last one, `attempts'
\* the positions called so far.
Idle == [pc |-> "idle"]

RequestFor(m) ==
    [pc       : {"calling", "ok", "no_provider", "all_failed"},
     model    : {m},
     chain    : SUBSET Positions(m),
     at       : Positions(m) \cup {0},
     attempts : SUBSET Positions(m)]

Request == {Idle} \cup UNION {RequestFor(m) : m \in Models \cup Aliases}

Calling(r) == req[r].pc = "calling"

\* The provider r's call is at.
Callee(r) == ProviderAt(req[r].model, req[r].at)

-----------------------------------------------------------------------------
(* resolve_chain                                                            *)

\* An alias asks the breaker of every registered provider, a concrete model
\* those of the providers that serve it.
Consulted(m) ==
    IF m \in Aliases THEN Providers ELSE {ProviderAt(m, i) : i \in Positions(m)}

AfterResolve(m) ==
    [p \in Providers |-> IF p \in Consulted(m) THEN AfterAllow(breaker[p]) ELSE breaker[p]]

\* Mutant: for_model(..., only_available=False).
AllPositions(m) == Positions(m)

AllowedPositions(m) == {i \in Positions(m) : Allows(breaker[ProviderAt(m, i)])}

\* chain[:1] when fallback is disabled.
ResolveChain(m) ==
    {i \in AllowedPositions(m) :
        FallbackEnabled \/ \A j \in AllowedPositions(m) : i <= j}

-----------------------------------------------------------------------------
(* route                                                                    *)

\* Mutant: the loop trusts the answers resolve_chain got.
NextPositionUnasked(q, brk) ==
    {i \in q.chain : i > q.at /\ \A j \in q.chain : j > q.at => i <= j}

\* Mutant: `break' where the loop continues past a provider that is not allowed.
NextPositionBreaks(q, brk) ==
    {i \in NextPositionUnasked(q, brk) : Allows(brk[ProviderAt(q.model, i)])}

\* Mutant: the loop starts over after a failure.
NextPositionRestarts(q, brk) ==
    LET callable == {i \in q.chain : Allows(brk[ProviderAt(q.model, i)])}
    IN  {i \in callable : \A j \in callable : i <= j}

\* Mutant: chain.pop() takes the candidates from the end.
NextPositionFromEnd(q, brk) ==
    LET callable == {i \in q.chain \ q.attempts : Allows(brk[ProviderAt(q.model, i)])}
    IN  {i \in callable : \A j \in callable : j <= i}

\* The first position of q's chain past q.at whose breaker, in brk, allows a
\* call; the set is empty when the loop runs out of candidates.
NextPosition(q, brk) ==
    LET callable == {i \in q.chain : i > q.at /\ Allows(brk[ProviderAt(q.model, i)])}
    IN  {i \in callable : \A j \in callable : i <= j}

\* q when it calls the candidate at i, and when it is over.
CallAt(q, i) ==
    [pc |-> "calling", model |-> q.model, chain |-> q.chain, at |-> i,
     attempts |-> q.attempts \cup {i}]

Ended(q, pc) ==
    [pc |-> pc, model |-> q.model, chain |-> q.chain, at |-> q.at,
     attempts |-> q.attempts]

\* The loop of route() from here to its next await or its end, with the
\* locals q and the breakers brk.
Proceed(r, q, brk) ==
    \/ \E i \in NextPosition(q, brk) :
          LET p == ProviderAt(q.model, i)
          IN  /\ breaker' = [brk EXCEPT ![p] = AfterAllow(@)]
              /\ req' = [req EXCEPT ![r] = CallAt(q, i)]
    \/ /\ NextPosition(q, brk) = {}
       /\ breaker' = brk
       /\ req' = [req EXCEPT ![r] = Ended(q, "all_failed")]

\* The locals of route() once resolve_chain returned.
Resolved(m) ==
    [pc |-> "no_provider", model |-> m, chain |-> ResolveChain(m),
     at |-> 0, attempts |-> {}]

\* A request for model m arrives: resolve_chain, then the loop up to the
\* first call.
Route(r, m) ==
    /\ ~Calling(r)
    /\ LET q == Resolved(m)
       IN  \/ /\ q.chain = {}
              /\ breaker' = AfterResolve(m)
              /\ req' = [req EXCEPT ![r] = q]
           \/ /\ q.chain # {}
              /\ Proceed(r, q, AfterResolve(m))

\* The provider answers.
ChatSucceeds(r) ==
    /\ Calling(r)
    /\ breaker' = [breaker EXCEPT ![Callee(r)] = RecordSuccess(@)]
    /\ req' = [req EXCEPT ![r] = Ended(@, "ok")]

\* A retryable ProviderError, or an exception nobody expected: the loop goes on.
ChatFailsRetryably(r) ==
    /\ Calling(r)
    /\ Proceed(r, req[r], [breaker EXCEPT ![Callee(r)] = RecordFailure(@)])

\* A ProviderError that is not retryable ends the request, and counts against
\* the provider like any other.
ChatFailsForGood(r) ==
    /\ Calling(r)
    /\ breaker' = [breaker EXCEPT ![Callee(r)] = RecordFailure(@)]
    /\ req' = [req EXCEPT ![r] = Ended(@, "all_failed")]

Tick ==
    /\ \E p \in Providers : breaker[p].state = "open" /\ ~Recovered(breaker[p])
    /\ breaker' = [p \in Providers |-> Elapse(breaker[p])]
    /\ UNCHANGED req

-----------------------------------------------------------------------------

Init ==
    /\ breaker = [p \in Providers |-> NewBreaker]
    /\ req = [r \in Requests |-> Idle]

Next ==
    \/ \E r \in Requests :
          \/ \E m \in Models \cup Aliases : Route(r, m)
          \/ ChatSucceeds(r)
          \/ ChatFailsRetryably(r)
          \/ ChatFailsForGood(r)
    \/ Tick

Spec == Init /\ [][Next]_vars

\* Every call of a provider is answered: the OpenAI client has a timeout, the
\* Bedrock client a read timeout and at most three attempts.
AnswersArrive ==
    \A r \in Requests :
        WF_vars(ChatSucceeds(r) \/ ChatFailsRetryably(r) \/ ChatFailsForGood(r))

\* Clients keep asking for every model, and the clock does not stop.
ClientsKeepAsking ==
    /\ \A m \in Models \cup Aliases : SF_vars(\E r \in Requests : Route(r, m))
    /\ WF_vars(Tick)

FairSpec == Spec /\ AnswersArrive /\ ClientsKeepAsking

-----------------------------------------------------------------------------
(* Properties                                                               *)

\* Every variable has its type (state of registry.py and locals of route()).
TypeOK ==
    /\ breaker \in [Providers -> Breaker]
    /\ req \in [Requests -> Request]

\* Whatever the interleaving of late answers, trials and recoveries, no
\* breaker is closed with its failure count at the threshold, or open or
\* half-open below it (CircuitBreaker.record_success / record_failure / allow).
BreakersConsistent == \A p \in Providers : Consistent(breaker[p])

\* A request that has a chain calls at least one provider: `no providers
\* tried' (router.py, last line) is never the reason of a 502, because nothing
\* awaits between resolve_chain asking a breaker and the loop asking it again.
NeverFailsUntried ==
    \A r \in Requests : req[r].pc = "all_failed" => req[r].attempts # {}

\* Where the loop of route() stands in its chain: the call in flight, or the
\* last one, is among the attempts and none of them is of a later candidate;
\* with fallback disabled nothing of the chain is left.
WalkOK(q) ==
    /\ q.pc \in {"calling", "ok", "all_failed"} => q.at \in q.attempts
    /\ \A j \in q.attempts : j <= q.at
    /\ \A i \in q.chain : FallbackEnabled \/ i <= q.at

\* The inductive invariant behind the theorems of RouterProofs: types,
\* consistent breakers, and every request at its place in its chain.
Inv ==
    /\ TypeOK
    /\ BreakersConsistent
    /\ \A r \in Requests : req[r] # Idle => WalkOK(req[r])

\* At a step that begins a call, no other begins.
BeginsCall(r) == req'[r].pc = "calling" /\ req'[r] # req[r]

\* The provider r's call is at after the step.
NextCallee(r) == ProviderAt(req'[r].model, req'[r].at)

CallIsAllowed(r) ==
    BeginsCall(r) => /\ Allows(breaker[NextCallee(r)])
                     /\ breaker'[NextCallee(r)].state # "open"

\* A call begins only at a provider whose breaker is not standing open: also
\* when the breaker opened after the chain was resolved, by another request
\* or by this request's failed call of another model of the same provider.
CallsOnlyAllowedProviders == [][\A r \in Requests : CallIsAllowed(r)]_vars

RefusalIsJustified(r) ==
    req'[r] # req[r] /\ req'[r].pc = "no_provider" =>
        \A i \in Positions(req'[r].model) :
            ~Allows(breaker[ProviderAt(req'[r].model, i)])

GiveUpIsJustified(r) ==
    ChatFailsRetryably(r) /\ req'[r].pc = "all_failed" =>
        \A i \in req[r].chain :
            i > req[r].at => ~Allows(breaker'[ProviderAt(req[r].model, i)])

\* A request is turned away with no call at all (503) only when every
\* provider of the model stands open, and gives up after a retryable failure
\* (502) only when every candidate left in its chain does.
RefusesOnlyWhenUnavailable ==
    [][\A r \in Requests : RefusalIsJustified(r) /\ GiveUpIsJustified(r)]_vars

\* Every request ends: a chain is walked upwards, and every call is answered.
EveryRequestEnds == \A r \in Requests : Calling(r) ~> ~Calling(r)

\* No provider is lost for good: an open breaker eventually stands half-open
\* or closed again, late failures and all.
OpenBreakersRecover ==
    \A p \in Providers : breaker[p].state = "open" ~> breaker[p].state # "open"

\* Seen by its caller, a request of the router lives as RoutingContract says.
Phase == [calling |-> "pending", ok |-> "answered",
          no_provider |-> "refused", all_failed |-> "failed"]

Life == [r \in Requests |->
            IF req[r] = Idle THEN [phase |-> "unsent"]
            ELSE [phase |-> Phase[req[r].pc], model |-> req[r].model,
                  tried |-> req[r].attempts]]

Contract == INSTANCE RoutingContract WITH
    Models  <- Models \cup Aliases,
    Choices <- [m \in Models \cup Aliases |-> Positions(m)],
    life    <- Life

ImplementsContract == Contract!Spec
=============================================================================
