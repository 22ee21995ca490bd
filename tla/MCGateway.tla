----------------------------- MODULE MCGateway -----------------------------
(* Two tenants, one with a short allowlist and a budget, two models and an   *)
(* alias for both.                                                          *)
EXTENDS Gateway

CONSTANTS p1, r1, r2, anonymous, t1, t2, large, small, snapshot, auto, ssn, card

MCTenantOf == [r \in Requests |-> IF r = r1 THEN t1 ELSE t2]

MCPodOf == [r \in Requests |-> p1]

MCAllowedModels == [t \in Tenants |-> IF t = t1 THEN {large} ELSE Models \cup Aliases]

\* The provider of small reports a name the price table does not have.
MCUpstream ==
    [m \in Models \cup Aliases |->
        CASE m = large -> {large} [] m = small -> {snapshot} [] m = auto -> {large, snapshot}]

Text(item) == [form |-> "text", item |-> item]

Ask(m, prompt) == [model |-> m, prompt |-> prompt, stream |-> FALSE]

MCAsks ==
    [r \in Requests |->
        IF r = r1
        THEN {Ask(auto, Text(ssn)), Ask(small, Text(ssn))}
        ELSE {Ask(auto, Text(card)), Ask(small, Text(ssn)),
              [model |-> small, prompt |-> [form |-> "parts", item |-> ssn], stream |-> TRUE]}]

MCSimilar == {<<Text(ssn), Text(card)>>, <<Text(card), Text(ssn)>>}

Deployed == [auth |-> TRUE, redis |-> TRUE, guardrails |-> TRUE, redact |-> TRUE,
             cache |-> "exact"]

Open == [Deployed EXCEPT !.auth = FALSE, !.redis = FALSE, !.guardrails = FALSE]

\* As the chart deploys it; open, as by default, with and without the exact
\* cache; and with the semantic cache behind guardrails that only look.
MCDeployments ==
    {Deployed, Open, [Open EXCEPT !.cache = "off"],
     [Deployed EXCEPT !.redis = FALSE, !.redact = FALSE, !.cache = "semantic"]}
=============================================================================
