---------------------------- MODULE ResponseCache ----------------------------
(* The exact response cache (app/backend/src/middleware/cache.py, cache_key  *)
(* and InMemoryCache) of one process, as chat_completions uses it for        *)
(* requests that do not stream: look up, call the provider on a miss, store. *)
(*                                                                          *)
(* get() and set() await nothing, so each is atomic; other requests run      *)
(* while a request waits for its provider.  An answer is represented by the  *)
(* query it answers, an expiry time by the ticks that are left until then.   *)
EXTENDS CacheSettings

VARIABLES
    data,     \* the OrderedDict, least recently used first
    req,      \* request |-> its progress, its query and the answer it got
    since     \* key |-> the other keys used since its last use (see below)

vars == <<data, req, since>>

-----------------------------------------------------------------------------

\* Mutant: the sampling parameters are forgotten.
KeyWithoutSampling(q) == [model |-> q.model, said |-> q.messages.said, sampling |-> <<>>]

\* cache_key hashes the model, role and content of the messages, and the
\* sampling parameters (temperature, max_tokens, top_p); stop and user, and a
\* message's name and tool_call_id, are not in the hash, nor is whether a
\* content was a string or structured.
Key(q) == [model |-> q.model, said |-> q.messages.said, sampling |-> q.sampling]

Keys == {Key(q) : q \in Queries}

Expired(e) == e.left < 0

Entries(k) == {e \in ToSet(data) : e.key = k}

\* pop(), of a key that the dictionary has once or not at all.
Without(k) == RemoveFirstMatch(data, LAMBDA e : e.key = k)

\* Mutant: a hit leaves the entry where it is.
BumpedInPlace(e) == data

\* move_to_end.
Bumped(e) == Append(Without(e.key), e)

\* popitem(last=False) while there are too many: a set adds one entry at most.
Trimmed(d) == IF Len(d) > MaxEntries THEN Tail(d) ELSE d

\* For RecentlyUsedStay: a key that is not to be found in the cache, because
\* it was never used or has expired, has been forgotten behind all others.
Forgotten == Keys

Used(k) ==
    since' = [j \in Keys |-> IF j = k THEN {} ELSE since[j] \cup {k}]

-----------------------------------------------------------------------------

Calling(r) == req[r].pc = "calling"

\* get(): an unexpired entry is moved to the end and returned.
Hit(r, q) ==
    /\ ~Calling(r)
    /\ \E e \in Entries(Key(q)) :
          /\ ~Expired(e)
          /\ data' = Bumped(e)
          /\ req' = [req EXCEPT ![r] = [pc |-> "hit", query |-> q, answer |-> e.answer]]
    /\ Used(Key(q))

\* get(): an expired entry is dropped; the provider is called.
Miss(r, q) ==
    /\ ~Calling(r)
    /\ \A e \in Entries(Key(q)) : Expired(e)
    /\ data' = Without(Key(q))
    /\ req' = [req EXCEPT ![r] = [pc |-> "calling", query |-> q]]
    /\ since' = [since EXCEPT ![Key(q)] = Forgotten]

\* set() with the provider's answer.
Store(r) ==
    LET q == req[r].query
    IN  /\ Calling(r)
        /\ data' = Trimmed(Append(Without(Key(q)),
                                  [key |-> Key(q), answer |-> q, left |-> Ttl]))
        /\ req' = [req EXCEPT ![r] = Idle]
        /\ Used(Key(q))

\* No provider answers.
Fail(r) ==
    /\ Calling(r)
    /\ req' = [req EXCEPT ![r] = Idle]
    /\ UNCHANGED <<data, since>>

Older(e) == IF Expired(e) THEN e ELSE [e EXCEPT !.left = @ - 1]

Tick ==
    /\ \E e \in ToSet(data) : ~Expired(e)
    /\ data' = [i \in DOMAIN data |-> Older(data[i])]
    /\ UNCHANGED <<req, since>>

Init ==
    /\ data = <<>>
    /\ req = [r \in Requests |-> Idle]
    /\ since = [k \in Keys |-> Forgotten]

Next ==
    \/ \E r \in Requests :
          \/ \E q \in Queries : Hit(r, q) \/ Miss(r, q)
          \/ Store(r)
          \/ Fail(r)
    \/ Tick

Spec == Init /\ [][Next]_vars

-----------------------------------------------------------------------------
(* Properties                                                               *)

\* The dictionary has a key once and at most MaxEntries entries.
TypeOK ==
    /\ data \in Seq([key : Keys, answer : Queries, left : -1 .. Ttl])
    /\ Len(data) <= MaxEntries
    /\ \A i, j \in DOMAIN data : data[i].key = data[j].key => i = j
    /\ req \in [Requests -> Progress]
    /\ since \in [Keys -> SUBSET Keys]

\* "Bounded LRU" (InMemoryCache): whatever requests wait and store in between,
\* a key stays in the cache as long as fewer than MaxEntries others were used
\* since it was; only expiry takes it out earlier.
RecentlyUsedStay ==
    \A k \in Keys : Cardinality(since[k]) < MaxEntries => k \in since[k] \/ Entries(k) # {}

\* The same model asked with the same sampling parameters, by messages that say
\* the same: which is not all that determines a response (see HitsAreExact).
AsksTheSame(a, q) ==
    a.model = q.model /\ a.messages.said = q.messages.said /\ a.sampling = q.sampling

Fresh == {[answer |-> e.answer, left |-> e.left] : e \in {e \in ToSet(data) : ~Expired(e)}}
=============================================================================
