----------------------------- MODULE KeyContract -----------------------------
(* What the key store promises, pod by pod: a key is good on the pod that    *)
(* issued or seeded it, for the tenant it was issued to, until a revocation  *)
(* of that tenant reaches the pod or the pod is replaced.                   *)
EXTENDS Integers

CONSTANTS Pods, Keys, Tenants, Seeded    \* Seeded: key and tenant of the seed

VARIABLES
    good,      \* pod |-> the pairs of a key that is good there and its tenant
    answer     \* what the last authentication returned, <<>> for a rejection

Init == good = [p \in Pods |-> Seeded] /\ answer = <<>>

Issue(p, k, t) ==
    /\ \A u \in Pods : \A g \in good[u] : g[1] # k
    /\ good' = [good EXCEPT ![p] = @ \cup {<<k, t>>}]
    /\ UNCHANGED answer

Revoke(p, t) ==
    /\ good' = [good EXCEPT ![p] = {g \in @ : g[2] # t}]
    /\ UNCHANGED answer

Authenticate(p, k) ==
    /\ \/ \E g \in good[p] : g[1] = k /\ answer' = g
       \/ (\A g \in good[p] : g[1] # k) /\ answer' = <<>>
    /\ UNCHANGED good

Replace(p) == good' = [good EXCEPT ![p] = Seeded] /\ UNCHANGED answer

Next ==
    \E p \in Pods :
        \/ \E k \in Keys, t \in Tenants : Issue(p, k, t)
        \/ \E t \in Tenants : Revoke(p, t)
        \/ \E k \in Keys : Authenticate(p, k)
        \/ Replace(p)

Spec == Init /\ [][Next]_<<good, answer>>
=============================================================================
