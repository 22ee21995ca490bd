--------------------------- MODULE KeyStoreProofs ---------------------------
(* Theorems about the key store, for any pods, keys, tenants and limits, and  *)
(* with or without a seed.                                                  *)
EXTENDS KeyStore, SequenceTheorems, WellFoundedInduction, TLAPS

-----------------------------------------------------------------------------
(* The data                                                                 *)

\* A set of positions that is not empty has a first one.
LEMMA FirstExists ==
    ASSUME NEW S \in SUBSET Nat, S # {}
    PROVE  \E i \in S : \A j \in S : i <= j
<1> DEFINE R == OpToRel(<, Nat)
<1>1. IsWellFoundedOn(R, Nat)
  BY NatLessThanWellFounded
<1>2. \A i, j \in Nat : i < j => <<i, j>> \in R
  BY DEF OpToRel
<1> HIDE DEF R
<1>3. PICK i \in S : \A j \in S : <<j, i>> \notin R
  BY <1>1, WFMin
<1>4. ASSUME NEW j \in S PROVE i <= j
  BY <1>2, <1>3, ~(j < i)
<1> QED
  BY <1>4

\* One record more, at the end of the others.
LEMMA OneRecordMore ==
    ASSUME NEW records \in Seq(Record), NEW r \in Record
    PROVE  /\ Append(records, r) \in Seq(Record)
           /\ ToSet(Append(records, r)) = ToSet(records) \cup {r}
           /\ DOMAIN Append(records, r) = 1 .. Len(records) + 1
           /\ DOMAIN records = 1 .. Len(records)
           /\ Len(records) \in Nat
           /\ \A i \in DOMAIN records : Append(records, r)[i] = records[i]
           /\ Append(records, r)[Len(records) + 1] = r
<1>1. /\ Append(records, r) \in Seq(Record)
      /\ Len(Append(records, r)) = Len(records) + 1
      /\ \A i \in 1 .. Len(records) : Append(records, r)[i] = records[i]
      /\ Append(records, r)[Len(records) + 1] = r
  BY AppendProperties
<1>2. /\ DOMAIN records = 1 .. Len(records) /\ Len(records) \in Nat
      /\ DOMAIN Append(records, r) = 1 .. Len(records) + 1
  BY <1>1, LenProperties
<1>3. ToSet(Append(records, r)) = ToSet(records) \cup {r}
  <2>1. ASSUME NEW x \in ToSet(Append(records, r)) PROVE x \in ToSet(records) \cup {r}
    <3>1. PICK i \in 1 .. Len(records) + 1 : x = Append(records, r)[i]
      BY <1>2, <2>1 DEF ToSet
    <3>2. CASE i = Len(records) + 1
      BY <1>1, <3>1, <3>2
    <3>3. CASE i # Len(records) + 1
      BY <1>1, <1>2, <3>1, <3>3 DEF ToSet
    <3> QED
      BY <3>2, <3>3
  <2>2. ASSUME NEW i \in DOMAIN records PROVE records[i] \in ToSet(Append(records, r))
    BY <1>1, <1>2 DEF ToSet
  <2>3. r \in ToSet(Append(records, r))
    BY <1>1, <1>2 DEF ToSet
  <2> QED
    BY <2>1, <2>2, <2>3 DEF ToSet
<1> QED
  BY <1>1, <1>2, <1>3

\* Revoking a tenant changes nothing but the marks of its records.
LEMMA RevokedRecords ==
    ASSUME NEW records \in Seq(Record), NEW t
    PROVE  /\ Revoked(records, t) \in Seq(Record)
           /\ DOMAIN Revoked(records, t) = DOMAIN records
           /\ \A i \in DOMAIN records :
                 LET old == records[i]
                     new == Revoked(records, t)[i]
                 IN  /\ new.key = old.key /\ new.tenant = old.tenant
                     /\ new.revoked = (old.revoked \/ old.tenant = t)
<1>1. ASSUME NEW i \in DOMAIN records
      PROVE  /\ Withdraw(records[i], t) \in Record
             /\ Withdraw(records[i], t).key = records[i].key
             /\ Withdraw(records[i], t).tenant = records[i].tenant
             /\ Withdraw(records[i], t).revoked = (records[i].revoked \/ records[i].tenant = t)
  <2>1. records[i] \in Record
    BY ElementOfSeq, LenProperties
  <2> QED
    BY <2>1 DEF Withdraw, Record
<1>2. DOMAIN records = 1 .. Len(records) /\ Len(records) \in Nat
  BY LenProperties
<1>3. Revoked(records, t) \in Seq(Record)
  BY <1>1, <1>2, IsASeq DEF Revoked
<1> QED
  BY <1>1, <1>3 DEF Revoked

-----------------------------------------------------------------------------
(* The invariant                                                            *)

\* What TypeOK says of the records of one pod.
WellKept(records) ==
    /\ records \in Seq(Record)
    /\ \A i, j \in DOMAIN records : records[i].key = records[j].key => i = j

Known(records, keys) == \A i \in DOMAIN records : records[i].key \in keys

\* TypeOK, pod by pod.
LEMMA TypeOKByPod ==
    TypeOK <=> /\ DOMAIN by_hash = Pods /\ by_hash = [p \in Pods |-> by_hash[p]]
               /\ \A p \in Pods : WellKept(by_hash[p]) /\ Known(by_hash[p], issued)
               /\ Known(Seed, issued)
               /\ issued \subseteq Keys
               /\ session \in {<<>>} \cup {<<r>> : r \in Record}
<1>1. ASSUME NEW records
      PROVE  {r.key : r \in ToSet(records)} \subseteq issued <=> Known(records, issued)
  BY DEF ToSet, Known
<1>2. by_hash \in [Pods -> Seq(Record)] <=>
          /\ DOMAIN by_hash = Pods /\ by_hash = [p \in Pods |-> by_hash[p]]
          /\ \A p \in Pods : by_hash[p] \in Seq(Record)
  OBVIOUS
<1> QED
  BY <1>1, <1>2 DEF TypeOK, WellKept

\* The store a pod starts with.
LEMMA SeedWellKept == WellKept(Seed) /\ \A i \in DOMAIN Seed : ~Seed[i].revoked
<1>1. Seed \in Seq(Record) /\ Len(Seed) <= 1 /\ Len(Seed) \in Nat /\ DOMAIN Seed = 1 .. Len(Seed)
  BY SeedAssumption, LenProperties
<1> QED
  BY <1>1, SeedAssumption DEF WellKept, ToSet

\* A store that is new has the seed on every pod and nothing else.
LEMMA InitTypeOK == Init => TypeOK
<1> SUFFICES ASSUME Init PROVE TypeOK
  OBVIOUS
<1>1. Known(Seed, issued)
  BY DEF Init, Known, ToSet
<1>2. issued \subseteq Keys
  <2>1. \A i \in DOMAIN Seed : Seed[i] \in Record
    BY SeedAssumption, ElementOfSeq, LenProperties
  <2> QED
    BY <2>1 DEF Init, ToSet, Record
<1> QED
  BY <1>1, <1>2, SeedWellKept, TypeOKByPod DEF Init

\* If one pod gets other records, they have to be well kept, and known.
LEMMA OnePodChanges ==
    ASSUME TypeOK, NEW p \in Pods, NEW records, by_hash' = [by_hash EXCEPT ![p] = records],
           issued \subseteq issued', issued' \subseteq Keys,
           WellKept(records), Known(records, issued'),
           session' \in {<<>>} \cup {<<r>> : r \in Record}
    PROVE  TypeOK'
<1>1. /\ DOMAIN by_hash' = Pods /\ by_hash' = [q \in Pods |-> by_hash'[q]]
      /\ \A q \in Pods : by_hash'[q] = (IF q = p THEN records ELSE by_hash[q])
  BY TypeOKByPod
<1>2. \A q \in Pods : WellKept(by_hash'[q]) /\ Known(by_hash'[q], issued')
  BY <1>1, TypeOKByPod DEF Known
<1>3. Known(Seed, issued')
  BY TypeOKByPod DEF Known
<1> QED
  BY <1>1, <1>2, <1>3 DEF TypeOK, WellKept, Known, ToSet

\* Creating, revoking, looking up and replacing a pod keep TypeOK.
LEMMA NextTypeOK == TypeOK /\ [Next]_vars => TypeOK'
<1> SUFFICES ASSUME TypeOK, [Next]_vars PROVE TypeOK'
  OBVIOUS
<1>1. ASSUME NEW p \in Pods, NEW k \in Keys, NEW t \in Tenants, NEW l \in Limits,
             CreateTenant(p, k, t, l)
      PROVE  TypeOK'
  <2> DEFINE records == by_hash[p]
             more == Append(records, KeyRecord(k, t, l))
  <2>1. KeyRecord(k, t, l) \in Record /\ KeyRecord(k, t, l).key = k
    BY DEF KeyRecord, Record
  <2>2. WellKept(records) /\ Known(records, issued) /\ k \notin issued
    BY <1>1, TypeOKByPod DEF CreateTenant
  <2>3. WellKept(more) /\ Known(more, issued \cup {k})
    <3>1. /\ more \in Seq(Record)
          /\ DOMAIN more = 1 .. Len(records) + 1 /\ DOMAIN records = 1 .. Len(records)
          /\ Len(records) \in Nat
          /\ \A i \in DOMAIN records : more[i] = records[i]
          /\ more[Len(records) + 1].key = k
      BY <2>1, <2>2, OneRecordMore DEF WellKept
    <3>2. \A i \in DOMAIN records : more[i].key \in issued /\ more[i].key # k
      BY <2>2, <3>1 DEF Known
    <3> HIDE DEF more, records
    <3>3. Known(more, issued \cup {k})
      BY <3>1, <3>2 DEF Known
    <3>4. ASSUME NEW i \in DOMAIN more, NEW j \in DOMAIN more, more[i].key = more[j].key
          PROVE  i = j
      <4>1. CASE i = Len(records) + 1 \/ j = Len(records) + 1
        BY <3>1, <3>2, <3>4, <4>1
      <4>2. CASE i # Len(records) + 1 /\ j # Len(records) + 1
        <5>1. i \in DOMAIN records /\ j \in DOMAIN records
          BY <3>1, <4>2
        <5> QED
          BY <2>2, <3>1, <3>4, <5>1 DEF WellKept
      <4> QED
        BY <4>1, <4>2
    <3> QED
      BY <3>1, <3>3, <3>4 DEF WellKept
  <2>4. /\ by_hash' = [by_hash EXCEPT ![p] = more] /\ issued' = issued \cup {k}
        /\ session' = session
    BY <1>1 DEF CreateTenant
  <2> HIDE DEF more
  <2> QED
    BY <2>3, <2>4, OnePodChanges, TypeOKByPod
<1>2. ASSUME NEW p \in Pods, NEW t \in Tenants, RevokeTenant(p, t) PROVE TypeOK'
  <2> DEFINE records == by_hash[p]
  <2>1. WellKept(records) /\ Known(records, issued)
    BY TypeOKByPod
  <2>2. WellKept(Revoked(records, t)) /\ Known(Revoked(records, t), issued)
    BY <2>1, RevokedRecords DEF WellKept, Known
  <2> QED
    BY <1>2, <2>2, OnePodChanges, TypeOKByPod DEF RevokeTenant
<1>3. ASSUME NEW p \in Pods, NEW k \in Keys, Lookup(p, k) PROVE TypeOK'
  <2>1. session' \in {<<>>} \cup {<<r>> : r \in Record}
    <3>1. \A r \in ToSet(by_hash[p]) : r \in Record
      BY TypeOKByPod, ElementOfSeq, LenProperties DEF WellKept, ToSet
    <3> QED
      BY <1>3, <3>1 DEF Lookup, RecordsOf
  <2> QED
    BY <1>3, <2>1 DEF Lookup, TypeOK
<1>4. ASSUME NEW p \in Pods, Restart(p) PROVE TypeOK'
  BY <1>4, SeedWellKept, OnePodChanges, TypeOKByPod DEF Restart
<1>5. CASE UNCHANGED vars
  BY <1>5 DEF vars, TypeOK
<1> QED
  BY <1>1, <1>2, <1>3, <1>4, <1>5 DEF Next

\* A pod has a key once, and only keys that were issued, whatever is created,
\* revoked and replaced (create_key, _seed_from_env).
THEOREM TypeCorrectness == Spec => []TypeOK
<1>1. Init => TypeOK
  BY InitTypeOK
<1>2. TypeOK /\ [Next]_vars => TypeOK'
  BY NextTypeOK
<1> QED
  BY <1>1, <1>2, PTL DEF Spec

\* The administrator sees every tenant that has a good key on the pod asked:
\* the first record of the tenant is listed, whether it is revoked or not
\* (list_tenants).
THEOREM GoodKeysListed == Spec => []GoodKeysAreListed
<1>1. TypeOK => GoodKeysAreListed
  <2> SUFFICES ASSUME TypeOK, NEW p \in Pods, NEW r \in ToSet(by_hash[p])
               PROVE  r.tenant \in ListedTenants(p)
    BY DEF GoodKeysAreListed
  <2> DEFINE records == by_hash[p]
             theirs == {i \in DOMAIN records : records[i].tenant = r.tenant}
  <2>1. records \in Seq(Record) /\ DOMAIN records = 1 .. Len(records) /\ Len(records) \in Nat
    BY LenProperties DEF TypeOK
  <2>2. theirs \in SUBSET Nat /\ theirs # {}
    BY <2>1 DEF ToSet
  <2>3. PICK i \in theirs : \A j \in theirs : i <= j
    BY <2>2, FirstExists
  <2>4. \A j \in 1 .. i - 1 : records[j].tenant # records[i].tenant
    BY <2>1, <2>3
  <2> QED
    BY <2>3, <2>4 DEF ListedTenants, IsListed
<1> QED
  BY <1>1, TypeCorrectness, PTL

-----------------------------------------------------------------------------
(* The contract                                                             *)

\* The good keys of some records, read off their positions.
LEMMA GoodKeysAt ==
    ASSUME NEW records
    PROVE  GoodKeys(records) =
              {<<records[i].key, records[i].tenant>> : i \in {i \in DOMAIN records : ~records[i].revoked}}
BY DEF GoodKeys, ToSet

\* One good record more is one good key more.
LEMMA GoodKeysMore ==
    ASSUME NEW records, NEW more, NEW r, ToSet(more) = ToSet(records) \cup {r}, ~r.revoked
    PROVE  GoodKeys(more) = GoodKeys(records) \cup {<<r.key, r.tenant>>}
<1> DEFINE old == {x \in ToSet(records) : ~x.revoked}
           new == {x \in ToSet(more) : ~x.revoked}
<1>1. new = old \cup {r}
  OBVIOUS
<1>2. /\ GoodKeys(more) = {<<x.key, x.tenant>> : x \in new}
      /\ GoodKeys(records) = {<<x.key, x.tenant>> : x \in old}
  BY DEF GoodKeys
<1> HIDE DEF old, new
<1> QED
  BY <1>1, <1>2

\* A step that gives one pod other records, seen through the mapping.
LEMMA GoodChanges ==
    ASSUME TypeOK, NEW p \in Pods, NEW records, by_hash' = [by_hash EXCEPT ![p] = records]
    PROVE  Good' = [Good EXCEPT ![p] = GoodKeys(records)]
BY DEF Good, TypeOK

\* Every step of the store is the step of the contract with its meaning, or
\* nothing happens there.
LEMMA StepImplementsContract ==
    ASSUME TypeOK, [Next]_vars
    PROVE  [Contract!Next]_<<Good, Answer>>
<1>1. ASSUME NEW p \in Pods, NEW k \in Keys, NEW t \in Tenants, NEW l \in Limits,
             CreateTenant(p, k, t, l)
      PROVE  Contract!Issue(p, k, t)
  <2>1. KeyRecord(k, t, l) \in Record
    BY DEF KeyRecord, Record
  <2>2. ToSet(Append(by_hash[p], KeyRecord(k, t, l))) = ToSet(by_hash[p]) \cup {KeyRecord(k, t, l)}
    BY <2>1, OneRecordMore DEF TypeOK
  <2>3. GoodKeys(Append(by_hash[p], KeyRecord(k, t, l))) = GoodKeys(by_hash[p]) \cup {<<k, t>>}
    <3>1. /\ ~KeyRecord(k, t, l).revoked
          /\ KeyRecord(k, t, l).key = k /\ KeyRecord(k, t, l).tenant = t
      BY DEF KeyRecord
    <3> QED
      BY <2>2, <3>1, GoodKeysMore
  <2>4. Good' = [Good EXCEPT ![p] = @ \cup {<<k, t>>}]
    BY <1>1, <2>3, GoodChanges DEF CreateTenant, Good
  <2>5. ASSUME NEW u \in Pods, NEW g \in Good[u] PROVE g[1] # k
    <3>1. PICK r \in ToSet(by_hash[u]) : g = <<r.key, r.tenant>>
      BY <2>5 DEF Good, GoodKeys
    <3> QED
      BY <1>1, <3>1 DEF CreateTenant, TypeOK
  <2>6. Answer' = Answer
    BY <1>1 DEF CreateTenant, Answer
  <2> QED
    BY <2>4, <2>5, <2>6 DEF Contract!Issue
<1>2. ASSUME NEW p \in Pods, NEW t \in Tenants, RevokeTenant(p, t) PROVE Contract!Revoke(p, t)
  <2> DEFINE records == by_hash[p]
  <2>1. /\ DOMAIN Revoked(records, t) = DOMAIN records
        /\ \A i \in DOMAIN records :
              LET old == records[i]
                  new == Revoked(records, t)[i]
              IN  /\ new.key = old.key /\ new.tenant = old.tenant
                  /\ new.revoked = (old.revoked \/ old.tenant = t)
    BY RevokedRecords DEF TypeOK
  <2>2. GoodKeys(Revoked(records, t)) = {g \in GoodKeys(records) : g[2] # t}
    <3>1. \A i \in DOMAIN records : ~Revoked(records, t)[i].revoked <=>
             ~records[i].revoked /\ records[i].tenant # t
      BY <2>1
    <3> HIDE DEF records
    <3> QED
      BY <2>1, <3>1, GoodKeysAt
  <2>3. Good' = [Good EXCEPT ![p] = {g \in @ : g[2] # t}]
    BY <1>2, <2>2, GoodChanges DEF RevokeTenant, Good
  <2>4. Answer' = Answer
    BY <1>2 DEF RevokeTenant, Answer
  <2> QED
    BY <2>3, <2>4 DEF Contract!Revoke
<1>3. ASSUME NEW p \in Pods, NEW k \in Keys, Lookup(p, k) PROVE Contract!Authenticate(p, k)
  <2>1. Good' = Good
    BY <1>3 DEF Lookup, Good
  <2>2. CASE \E r \in RecordsOf(p, k) : ~r.revoked /\ session' = <<r>>
    <3>1. PICK r \in RecordsOf(p, k) : ~r.revoked /\ session' = <<r>>
      BY <2>2
    <3>2. Answer' = <<k, r.tenant>>
      BY <3>1 DEF Answer, RecordsOf
    <3>3. <<k, r.tenant>> \in Good[p]
      BY <3>1 DEF Good, GoodKeys, RecordsOf
    <3> QED
      BY <2>1, <3>2, <3>3 DEF Contract!Authenticate
  <2>3. CASE (\A r \in RecordsOf(p, k) : r.revoked) /\ session' = <<>>
    <3>1. Answer' = <<>>
      BY <2>3 DEF Answer
    <3>2. ASSUME NEW g \in Good[p] PROVE g[1] # k
      <4>1. PICK r \in ToSet(by_hash[p]) : ~r.revoked /\ g = <<r.key, r.tenant>>
        BY <3>2 DEF Good, GoodKeys
      <4> QED
        BY <2>3, <4>1 DEF RecordsOf
    <3> QED
      BY <2>1, <3>1, <3>2 DEF Contract!Authenticate
  <2> QED
    BY <1>3, <2>2, <2>3 DEF Lookup
<1>4. ASSUME NEW p \in Pods, Restart(p) PROVE Contract!Replace(p)
  <2>1. GoodKeys(Seed) = {<<r.key, r.tenant>> : r \in ToSet(Seed)}
    BY SeedAssumption DEF GoodKeys
  <2>2. Good' = [Good EXCEPT ![p] = {<<r.key, r.tenant>> : r \in ToSet(Seed)}]
    BY <1>4, <2>1, GoodChanges DEF Restart
  <2>3. Answer' = Answer
    BY <1>4 DEF Restart, Answer
  <2> QED
    BY <2>2, <2>3 DEF Contract!Replace
<1>5. CASE UNCHANGED vars
  BY <1>5 DEF vars, Good, Answer
<1> QED
  BY <1>1, <1>2, <1>3, <1>4, <1>5 DEF Next, Contract!Next

\* On every pod a key is accepted for its tenant exactly from its creation or
\* the seed to the revocation or replacement that reaches the pod: KeyStore
\* implements KeyContract (lookup, create_key, revoke_tenant).
THEOREM KeyStoreImplementsContract == Spec => ImplementsKeyContract
<1>1. Init => Contract!Init
  <2> SUFFICES ASSUME Init PROVE Contract!Init
    OBVIOUS
  <2>1. GoodKeys(Seed) = {<<r.key, r.tenant>> : r \in ToSet(Seed)}
    BY SeedAssumption DEF GoodKeys
  <2> QED
    BY <2>1 DEF Init, Contract!Init, Good, Answer
<1>2. TypeOK /\ [Next]_vars => [Contract!Next]_<<Good, Answer>>
  BY StepImplementsContract
<1> QED
  BY <1>1, <1>2, TypeCorrectness, PTL DEF Spec, ImplementsKeyContract, Contract!Spec
=============================================================================
