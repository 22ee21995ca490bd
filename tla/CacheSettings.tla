---------------------------- MODULE CacheSettings ----------------------------
(* What both caches of app/backend/src/middleware/cache.py are given: the    *)
(* requests of one process, and the settings (core/config.py).              *)
EXTENDS Integers, SequencesExt

CONSTANTS
    Requests,      \* slots for concurrent requests
    Queries,       \* bodies: records of model, messages, sampling, stop and user
    Models,        \* the models and aliases they ask for
    Texts,         \* what messages say (see below)
    Similarity,    \* text |-> text |-> cosine of the embeddings of the
                   \* prompt_text, scaled: the embedder is deterministic
    Threshold,     \* semantic_cache_threshold, on the same scale
    Ttl,           \* semantic_cache_ttl_seconds, in ticks
    MaxEntries     \* semantic_cache_max_entries

\* The messages of a body are a record: what is `said`, their roles and contents,
\* structured ones as the JSON text that cache_key takes, and the `marks` that
\* neither cache reads, their names and tool_call_ids and which contents are
\* structured.
ASSUME QueriesAssumption ==
    IsFiniteSet(Queries) /\ \A q \in Queries : q.model \in Models /\ q.messages.said \in Texts
ASSUME SimilarityAssumption == Similarity \in [Texts -> [Texts -> Int]]
ASSUME NumbersAssumption == Threshold \in Int /\ Ttl \in Nat /\ MaxEntries \in Nat

\* Where a request stands: before its lookup, at its provider, or answered from
\* the cache.
Idle == [pc |-> "idle"]

Progress == {Idle} \cup [pc : {"calling"}, query : Queries]
                   \cup [pc : {"hit"}, query : Queries, answer : Queries]
=============================================================================
