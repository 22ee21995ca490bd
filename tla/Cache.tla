-------------------------------- MODULE Cache --------------------------------
(* The response cache that get_cache chooses when it is first called         *)
(* (app/backend/src/middleware/cache.py): the exact one, or the semantic one *)
(* if semantic_cache_mode says so.  It is never changed afterwards, and      *)
(* chat_completions uses the methods of the same mode.                      *)
EXTENDS CacheSettings

VARIABLES
    mode,           \* "exact" or "semantic"
    data, since,    \* ResponseCache
    partitions,     \* SemanticCache
    req             \* request |-> its progress, its query and the answer it got

vars == <<mode, data, since, partitions, req>>

Exact == INSTANCE ResponseCache
Semantic == INSTANCE SemanticCache

Init ==
    /\ mode \in {"exact", "semantic"}
    /\ Exact!Init
    /\ Semantic!Init

Next ==
    \/ mode = "exact" /\ Exact!Next /\ UNCHANGED <<mode, partitions>>
    \/ mode = "semantic" /\ Semantic!Next /\ UNCHANGED <<mode, data, since>>

Spec == Init /\ [][Next]_vars

-----------------------------------------------------------------------------
(* Properties                                                               *)

\* The bounds and the order of the dictionary and of the partitions, whichever
\* is used.
TypeOK ==
    /\ mode \in {"exact", "semantic"}
    /\ Exact!TypeOK
    /\ Semantic!TypeOK

\* "Bounded LRU" (InMemoryCache): whatever requests wait and store in between,
\* a key stays in the cache as long as fewer than MaxEntries others were used
\* since it was; only expiry takes it out earlier.
RecentlyUsedStay == Exact!RecentlyUsedStay

Hits(m) ==
    [r \in Requests |-> IF mode = m /\ req[r].pc = "hit" THEN <<req[r].query, req[r].answer>>
                                                         ELSE <<>>]

ExactAnswers == INSTANCE AnswerCache WITH
    Serves <- Exact!AsksTheSame,
    kept   <- Exact!Fresh,
    given  <- Hits("exact")

SemanticAnswers == INSTANCE AnswerCache WITH
    Serves <- Semantic!Similar,
    kept   <- Semantic!Fresh,
    given  <- Hits("semantic")

\* A hit is the answer to another request for the same model, stored at most
\* Ttl ticks ago: to one that agrees in the roles and contents of its messages
\* and in its sampling (cache_key, get, set; the rest of the two bodies may
\* differ), or to one that is similar enough (get_semantic, set_semantic,
\* _evict_expired), "so we never serve a Claude response to a GPT-4 request".
ImplementsAnswerCache == ExactAnswers!Spec /\ SemanticAnswers!Spec

\* "Stable hash over the dimensions that determine response content"
\* (cache.py:35): an exact hit answers a request that differs in none of them.
HitsAreExact ==
    mode = "exact" =>
        \A r \in Requests : req[r].pc = "hit" => req[r].answer = req[r].query
=============================================================================
