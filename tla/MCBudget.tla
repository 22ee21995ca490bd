------------------------------ MODULE MCBudget ------------------------------
(* Two pods, one with two of the tenant's concurrent requests.              *)
EXTENDS Budget

CONSTANTS p1, p2, r1, r2, r3

MCPodOf == [r \in Requests |-> IF r = r3 THEN p2 ELSE p1]
=============================================================================
