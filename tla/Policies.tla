------------------------------- MODULE Policies -------------------------------
(* resolve_chain (app/backend/src/routing/policies.py) with the data it ranks: *)
(* the registry, what the adapters list, support and default to, and the     *)
(* input prices.  It asks the breaker of an entry as it comes to it, and     *)
(* ranks what is left.  Routing relates that to Router, which walks the      *)
(* candidates of all entries.                                               *)
EXTENDS Naturals, FiniteSets, SequencesExt

CONSTANTS
    Registered,    \* the names of the providers, as they were registered
    Listed,        \* provider |-> list_models()
    Supported,     \* provider |-> the models supports_model accepts
    DefaultModel,  \* provider |-> default_model, for those that have one
    InputPrice     \* model |-> input_per_million, for those in PRICING

IsList(s) == s \in Seq(ToSet(s))

ASSUME RegistryAssumption ==
    /\ IsList(Registered) /\ IsInjective(Registered)
    /\ \A p \in ToSet(Registered) : IsList(Listed[p])
    /\ DOMAIN Listed = ToSet(Registered)
    /\ DOMAIN Supported = ToSet(Registered)
    /\ DOMAIN DefaultModel \subseteq ToSet(Registered)
    /\ \A m \in DOMAIN InputPrice : InputPrice[m] \in Nat

ByPrice == {"cheapest", "fastest"}

Asked(p, m) == [provider |-> p, model |-> m]

\* Mutant: `break' where the loops go on past an entry that is not allowed.
EntriesUpTo(allowed) ==
    LET before == {i \in DOMAIN Registered : \A j \in 1 .. i : Registered[j] \in allowed}
    IN  SubSeq(Registered, 1, Cardinality(before))

\* The list a loop appends to that passes over what is not to be kept.
Only(s, keep) ==
    FoldLeft(LAMBDA list, x : IF x \in keep THEN Append(list, x) ELSE list, <<>>, s)

\* registry.all(), without the entries whose breaker does not allow a call.
Entries(allowed) == Only(Registered, allowed)

\* for_model, as (provider, model) pairs.
Serving(m, allowed) ==
    LET entries == Only(Entries(allowed), {p \in ToSet(Registered) : m \in Supported[p]})
    IN  [i \in DOMAIN entries |-> Asked(entries[i], m)]

\* The priced models of an entry, in the order they are listed.
Priced(p) ==
    LET models == Only(Listed[p], DOMAIN InputPrice)
    IN  [i \in DOMAIN models |-> Asked(p, models[i])]

\* Those of all entries.
PricedModels(allowed) ==
    LET entries == Entries(allowed)
    IN  FlattenSeq([k \in DOMAIN entries |-> Priced(entries[k])])

\* list.sort(key=input price), which is stable.
SortedByPrice(s) ==
    LET price(i) == InputPrice[s[i].model]
        rank(i) == Cardinality({j \in DOMAIN s :
                       price(j) < price(i) \/ (price(j) = price(i) /\ j <= i)})
    IN  [k \in DOMAIN s |-> s[CHOOSE i \in DOMAIN s : rank(i) = k]]

\* The default model of each entry, or the first it lists, if there is any.
Defaults(allowed) ==
    LET has(p) == p \in DOMAIN DefaultModel \/ Listed[p] # <<>>
        of(p) == IF p \in DOMAIN DefaultModel THEN DefaultModel[p] ELSE Head(Listed[p])
        entries == Only(Entries(allowed), {p \in ToSet(Registered) : has(p)})
    IN  [i \in DOMAIN entries |-> Asked(entries[i], of(entries[i]))]

\* resolve_chain while the breakers of `allowed' allow a call.
Chain(m, allowed, fallback) ==
    LET chain == CASE m \in ByPrice -> SortedByPrice(PricedModels(allowed))
                   [] m = "auto"    -> Defaults(allowed)
                   [] OTHER         -> Serving(m, allowed)
    IN  IF fallback \/ chain = <<>> THEN chain ELSE <<Head(chain)>>
=============================================================================
