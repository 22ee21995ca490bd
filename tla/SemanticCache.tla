---------------------------- MODULE SemanticCache ----------------------------
(* The semantic response cache (app/backend/src/middleware/cache.py, class   *)
(* SemanticCache) of one process, as chat_completions uses it for requests   *)
(* that do not stream.  Atomicity, answers and time are those of             *)
(* ResponseCache.  The embedder is deterministic, so that the similarity of  *)
(* two prompts is a constant; get() and set(), which chat_completions does   *)
(* not call in this mode, are left out.                                     *)
EXTENDS CacheSettings

VARIABLES
    partitions,    \* model |-> its entries, most recent last
    req            \* request |-> its progress, its query and the answer it got

vars == <<partitions, req>>

-----------------------------------------------------------------------------

\* _evict_expired.
Evicted(partition) ==
    FoldLeft(LAMBDA kept, e : IF e.left >= 0 THEN Append(kept, e) ELSE kept, <<>>, partition)

\* How near the entry at i is to the query.
Nearness(partition, i, q) == Similarity[q.messages.said][partition[i].answer.messages.said]

\* The first of the nearest entries, if it is near enough.
Nearest(partition, q) ==
    {i \in DOMAIN partition :
        /\ Nearness(partition, i, q) >= Threshold
        /\ \A j \in DOMAIN partition :
              \/ Nearness(partition, j, q) < Nearness(partition, i, q)
              \/ Nearness(partition, j, q) = Nearness(partition, i, q) /\ i <= j}

\* Mutant: the partition is trimmed one entry too late.
TrimmedLate(partition) ==
    IF Len(partition) > MaxEntries + 1 THEN Tail(partition) ELSE partition

\* pop(0) while there are too many: a set adds one entry.
Trimmed(partition) ==
    IF Len(partition) > MaxEntries THEN Tail(partition) ELSE partition

-----------------------------------------------------------------------------

Calling(r) == req[r].pc = "calling"

\* get_semantic: the expired entries of the partition are dropped, and the
\* nearest of the others is returned or the provider called.
Lookup(r, q) ==
    LET partition == Evicted(partitions[q.model])
    IN  /\ ~Calling(r)
        /\ partitions' = [partitions EXCEPT ![q.model] = partition]
        /\ \/ \E i \in Nearest(partition, q) :
                 req' = [req EXCEPT ![r] =
                            [pc |-> "hit", query |-> q, answer |-> partition[i].answer]]
           \/ /\ Nearest(partition, q) = {}
              /\ req' = [req EXCEPT ![r] = [pc |-> "calling", query |-> q]]

\* set_semantic with the provider's answer.
Store(r) ==
    LET q == req[r].query
    IN  /\ Calling(r)
        /\ partitions' = [partitions EXCEPT ![q.model] =
                             Trimmed(Append(@, [answer |-> q, left |-> Ttl]))]
        /\ req' = [req EXCEPT ![r] = Idle]

\* No provider answers.
Fail(r) ==
    /\ Calling(r)
    /\ req' = [req EXCEPT ![r] = Idle]
    /\ UNCHANGED partitions

Older(e) == IF e.left < 0 THEN e ELSE [e EXCEPT !.left = @ - 1]

Tick ==
    /\ \E m \in Models : \E e \in ToSet(partitions[m]) : e.left >= 0
    /\ partitions' = [m \in Models |->
                         [i \in DOMAIN partitions[m] |-> Older(partitions[m][i])]]
    /\ UNCHANGED req

Init ==
    /\ partitions = [m \in Models |-> <<>>]
    /\ req = [r \in Requests |-> Idle]

Next ==
    \/ \E r \in Requests :
          \/ \E q \in Queries : Lookup(r, q)
          \/ Store(r)
          \/ Fail(r)
    \/ Tick

Spec == Init /\ [][Next]_vars

-----------------------------------------------------------------------------
(* Properties                                                               *)

\* Every partition holds at most MaxEntries answers to queries for its model,
\* in the order of their expiry.
TypeOK ==
    /\ partitions \in [Models -> Seq([answer : Queries, left : -1 .. Ttl])]
    /\ \A m \in Models :
          /\ Len(partitions[m]) <= MaxEntries
          /\ \A i \in DOMAIN partitions[m] : partitions[m][i].answer.model = m
          /\ \A i, j \in DOMAIN partitions[m] :
                i < j => partitions[m][i].left <= partitions[m][j].left
    /\ req \in [Requests -> Progress]

\* "so we never serve a Claude response to a GPT-4 request" (_Entry), and none
\* to a prompt that is not similar enough.
Similar(a, q) ==
    a.model = q.model /\ Similarity[q.messages.said][a.messages.said] >= Threshold

Fresh == {e \in UNION {ToSet(partitions[m]) : m \in Models} : e.left >= 0}
=============================================================================
