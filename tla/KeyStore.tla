------------------------------ MODULE KeyStore ------------------------------
(* API keys (app/backend/src/auth/keystore.py), their administration         *)
(* (api/admin.py) and their use (get_current_tenant), on the pods of a       *)
(* deployment.                                                              *)
(*                                                                          *)
(* The store is memory of its pod, and the load balancer sends every         *)
(* request, the administrator's too, to any of them.  No operation awaits    *)
(* anything.  A key is represented by itself: the store hashes it, and       *)
(* nothing collides.                                                        *)
EXTENDS Integers, SequencesExt

CONSTANTS
    Pods,
    Keys,         \* the plaintexts that generate_key may draw, and the seed
    Tenants,      \* tenant ids
    Limits,       \* the rest of a Tenant: its limits and its allowlist
    Seed          \* records seeded from DEMO_TENANT_KEY: one or none

Record == [key : Keys, tenant : Tenants, limits : Limits, revoked : BOOLEAN]

ASSUME SeedAssumption ==
    Seed \in Seq(Record) /\ Len(Seed) <= 1 /\ \A r \in ToSet(Seed) : ~r.revoked

VARIABLES
    by_hash,      \* pod |-> its records, in the order they were inserted
    issued,       \* the keys drawn so far, and the seed
    session       \* what the last lookup found: a record, or <<>>

vars == <<by_hash, issued, session>>

-----------------------------------------------------------------------------

RecordsOf(p, k) == {r \in ToSet(by_hash[p]) : r.key = k}

KeyRecord(k, t, l) == [key |-> k, tenant |-> t, limits |-> l, revoked |-> FALSE]

\* Mutant: the key is derived from the tenant, and comes a second time.
CreateTenantAgain(p, k, t, l) ==
    /\ by_hash' = [by_hash EXCEPT ![p] = Append(@, KeyRecord(k, t, l))]
    /\ issued' = issued \cup {k}
    /\ UNCHANGED session

\* POST /admin/tenants: the id need not be new.
CreateTenant(p, k, t, l) ==
    /\ k \notin issued
    /\ by_hash' = [by_hash EXCEPT ![p] = Append(@, KeyRecord(k, t, l))]
    /\ issued' = issued \cup {k}
    /\ UNCHANGED session

Withdraw(r, t) == [r EXCEPT !.revoked = r.revoked \/ r.tenant = t]

\* Mutant: only the first record of the tenant is revoked.
RevokedFirst(records, t) ==
    [i \in DOMAIN records |->
        IF \A j \in 1 .. i - 1 : records[j].tenant # t
        THEN Withdraw(records[i], t) ELSE records[i]]

Revoked(records, t) == [i \in DOMAIN records |-> Withdraw(records[i], t)]

\* DELETE /admin/tenants/{id}/keys.
RevokeTenant(p, t) ==
    /\ by_hash' = [by_hash EXCEPT ![p] = Revoked(@, t)]
    /\ UNCHANGED <<issued, session>>

\* lookup, in get_current_tenant.
Lookup(p, k) ==
    /\ \/ \E r \in RecordsOf(p, k) : ~r.revoked /\ session' = <<r>>
       \/ (\A r \in RecordsOf(p, k) : r.revoked) /\ session' = <<>>
    /\ UNCHANGED <<by_hash, issued>>

\* A pod is replaced, and its store seeded at its first use.
Restart(p) ==
    /\ by_hash' = [by_hash EXCEPT ![p] = Seed]
    /\ UNCHANGED <<issued, session>>

\* Mutant: the tenant of a revoked key is passed over with all its keys.
IsListedUnlessRevoked(p, i) ==
    /\ ~by_hash[p][i].revoked
    /\ \A j \in 1 .. i - 1 : by_hash[p][j].tenant # by_hash[p][i].tenant

IsListed(p, i) == \A j \in 1 .. i - 1 : by_hash[p][j].tenant # by_hash[p][i].tenant

\* GET /admin/tenants: of every tenant, the record inserted first.
ListedTenants(p) == {by_hash[p][i].tenant : i \in {i \in DOMAIN by_hash[p] : IsListed(p, i)}}

Init ==
    /\ by_hash = [p \in Pods |-> Seed]
    /\ issued = {r.key : r \in ToSet(Seed)}
    /\ session = <<>>

Next ==
    \E p \in Pods :
        \/ \E k \in Keys, t \in Tenants, l \in Limits : CreateTenant(p, k, t, l)
        \/ \E t \in Tenants : RevokeTenant(p, t)
        \/ \E k \in Keys : Lookup(p, k)
        \/ Restart(p)

Spec == Init /\ [][Next]_vars

-----------------------------------------------------------------------------
(* Properties                                                               *)

\* A pod has one record for a key, and only of keys that were issued, as the
\* seed is from the start: a pod that is replaced seeds it again.
TypeOK ==
    /\ by_hash \in [Pods -> Seq(Record)]
    /\ \A p \in Pods : \A i, j \in DOMAIN by_hash[p] :
          by_hash[p][i].key = by_hash[p][j].key => i = j
    /\ \A p \in Pods : {r.key : r \in ToSet(by_hash[p])} \subseteq issued
    /\ {r.key : r \in ToSet(Seed)} \subseteq issued /\ issued \subseteq Keys
    /\ session \in {<<>>} \cup {<<r>> : r \in Record}

\* The keys that are good among some records, with their tenants.
GoodKeys(records) == {<<r.key, r.tenant>> : r \in {r \in ToSet(records) : ~r.revoked}}

Good == [p \in Pods |-> GoodKeys(by_hash[p])]

Answer == IF session = <<>> THEN <<>> ELSE <<session[1].key, session[1].tenant>>

Contract == INSTANCE KeyContract WITH
    Seeded <- {<<r.key, r.tenant>> : r \in ToSet(Seed)},
    good   <- Good,
    answer <- Answer

\* Whatever is created again under an old id, revoked twice or replaced, a pod
\* accepts a key exactly as long as the contract says (lookup, revoke_tenant,
\* create_key).
ImplementsKeyContract == Contract!Spec

\* The administrator sees every tenant that has a good key on the pod asked
\* (list_tenants), so that it can be revoked there.
GoodKeysAreListed ==
    \A p \in Pods : \A r \in ToSet(by_hash[p]) : ~r.revoked => r.tenant \in ListedTenants(p)
=============================================================================
