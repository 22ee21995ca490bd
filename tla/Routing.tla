------------------------------- MODULE Routing -------------------------------
(* The router with the policies that order its candidates.  Router walks a    *)
(* list that does not change and asks the breakers about its entries; the    *)
(* code makes a list of the entries that are allowed, for each request anew. *)
EXTENDS Router, Policies

ASSUME ProvidersAssumption == Providers = ToSet(Registered)

\* What Router walks is what resolve_chain lists when every breaker allows it.
ASSUME CandidatesAreListed ==
    \A m \in Models \cup Aliases : Candidates[m] = Chain(m, Providers, TRUE)

AllowedProviders == {p \in Providers : Allows(breaker[p])}

\* The candidates at some positions, in their order.
CandidatesAt(m, positions) ==
    LET kth(k) == CHOOSE i \in positions : Cardinality({j \in positions : j <= i}) = k
    IN  [k \in 1 .. Cardinality(positions) |-> Candidates[m][kth(k)]]

-----------------------------------------------------------------------------
(* Properties                                                               *)

\* Whatever breakers are open, the list the code filters, sorts and cuts is the
\* one Router walks: leaving entries out neither reorders what is left, nor
\* brings models back that have no price (resolve_chain, for_model).
ChainIsResolved ==
    \A m \in Models \cup Aliases :
        Chain(m, AllowedProviders, FallbackEnabled) = CandidatesAt(m, ResolveChain(m))

Price(m, i) == InputPrice[Candidates[m][i].model]

FirstCallIsCheapestFor(r) ==
    LET m == req'[r].model
        i == req'[r].at
    IN  BeginsCall(r) /\ req'[r].attempts = {i} /\ m \in ByPrice =>
            \A p \in AllowedProviders : \A n \in ToSet(Listed[p]) \cap DOMAIN InputPrice :
                Price(m, i) <= InputPrice[n]

\* The first call for "cheapest" goes to no model that costs more than another
\* that could be called, with the breakers as they are just then, whoever
\* opened or tried them since the last one (resolve_chain, route).
FirstCallIsCheapest == [][\A r \in Requests : FirstCallIsCheapestFor(r)]_vars
=============================================================================
