------------------------------ MODULE MCRouter ------------------------------
(* A registry of two providers.  Both serve "shared", each one more, and      *)
(* nobody serves "missing".  One has a default model, without a price; the   *)
(* models of the other cost less than, and as much as, the one of the first, *)
(* so that the chain of "cheapest" can come back to a provider that failed.  *)
EXTENDS Routing

CONSTANTS p1, p2

MCProviders == {p1, p2}
MCRegistered == <<p1, p2>>
MCListed == (p1 :> <<"special", "shared">>) @@ (p2 :> <<"shared", "solo">>)
MCSupported == [p \in MCProviders |-> ToSet(MCListed[p])]
MCDefaultModel == (p1 :> "special")
MCInputPrice == [shared |-> 2, solo |-> 1]

MCModels == {"shared", "special", "solo", "missing"}
MCAliases == {"auto", "cheapest"}

\* What resolve_chain enumerates for them; ChainIsResolved compares it with the
\* computation of Policies.
MCCandidates ==
    [shared   |-> <<Asked(p1, "shared"), Asked(p2, "shared")>>,
     special  |-> <<Asked(p1, "special")>>,
     solo     |-> <<Asked(p2, "solo")>>,
     missing  |-> <<>>,
     auto     |-> <<Asked(p1, "special"), Asked(p2, "shared")>>,
     cheapest |-> <<Asked(p2, "solo"), Asked(p1, "shared"), Asked(p2, "shared")>>]

\* For liveness, two models and one alias.
MCLiveModels == {"shared", "solo"}
MCLiveAliases == {"cheapest"}
MCLiveCandidates == [m \in {"shared", "solo", "cheapest"} |-> MCCandidates[m]]
=============================================================================
