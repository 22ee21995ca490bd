----------------------------- MODULE CacheProofs -----------------------------
(* What holds of both caches whatever the queries, the similarities, the      *)
(* TTL, the size and the number of concurrent requests.                      *)
EXTENDS Cache, SequenceTheorems, FoldLemmas

-----------------------------------------------------------------------------
(* The exact cache: the dictionary                                          *)

Entry == [key : Exact!Keys, answer : Queries, left : -1 .. Ttl]

\* A dictionary has a key once, and under each the answer to a query that has
\* this key.
Dictionary(d) ==
    /\ d \in Seq(Entry)
    /\ \A i, j \in 1 .. Len(d) : d[i].key = d[j].key => i = j
    /\ \A i \in 1 .. Len(d) : d[i].key = Exact!Key(d[i].answer)

\* A dictionary is a sequence of entries.
LEMMA DictionaryIsSeq ==
    ASSUME NEW d, Dictionary(d)
    PROVE  d \in Seq(Entry) /\ Len(d) \in Nat /\ DOMAIN d = 1 .. Len(d)
BY DEF Dictionary

\* The key k is in the dictionary, and whatever has been used since is in S.
Stays(d, k, S) ==
    \E i \in 1 .. Len(d) :
        d[i].key = k /\ \A j \in 1 .. Len(d) : i < j => d[j].key \in S

\* The keys of all queries are finitely many.
LEMMA KeysAreFinite ==
    /\ IsFiniteSet(Exact!Keys)
    /\ \A q \in Queries : Exact!Key(q) \in Exact!Keys
<1> DEFINE f == [q \in Queries |-> Exact!Key(q)]
<1>1. f \in Surjection(Queries, Exact!Keys)
  BY DEF Surjection, Exact!Keys
<1>2. IsFiniteSet(Queries)
  BY QueriesAssumption
<1>3. IsFiniteSet(Exact!Keys)
  BY <1>1, <1>2, FS_Surjection
<1> QED
  BY <1>3 DEF Exact!Keys

\* The elements of a sequence.
LEMMA Elements ==
    ASSUME NEW X, NEW s \in Seq(X)
    PROVE  /\ \A x : x \in Exact!ToSet(s) <=> \E i \in 1 .. Len(s) : x = s[i]
           /\ \A x : x \in Semantic!ToSet(s) <=> \E i \in 1 .. Len(s) : x = s[i]
           /\ Exact!ToSet(s) \subseteq X /\ Semantic!ToSet(s) \subseteq X
<1>1. DOMAIN s = 1 .. Len(s)
  OBVIOUS
<1>2. /\ \A x : x \in Exact!ToSet(s) <=> \E i \in 1 .. Len(s) : x = s[i]
      /\ \A x : x \in Semantic!ToSet(s) <=> \E i \in 1 .. Len(s) : x = s[i]
  BY <1>1 DEF Exact!ToSet, Semantic!ToSet
<1>3. \A i \in 1 .. Len(s) : s[i] \in X
  BY ElementOfSeq
<1> QED
  BY <1>2, <1>3

\* What pop() does to the dictionary.
Cut(d, k) ==
    LET I == {i \in 1 .. Len(d) : d[i].key = k}
        i == IF I # {} THEN CHOOSE x \in I : \A y \in I : x <= y ELSE 0
    IN  IF \E j \in 1 .. Len(d) : d[j].key = k
        THEN SubSeq(d, 1, i - 1) \o SubSeq(d, i + 1, Len(d))
        ELSE d

\* It takes out the entry of the key, if there is one, and leaves the order.
LEMMA CutOne ==
    ASSUME NEW d, Dictionary(d), NEW k
    PROVE  \/ Cut(d, k) = d /\ \A j \in 1 .. Len(d) : d[j].key # k
           \/ \E p \in 1 .. Len(d) :
                 /\ d[p].key = k
                 /\ Cut(d, k) \in Seq(Entry)
                 /\ Len(Cut(d, k)) = Len(d) - 1
                 /\ \A i \in 1 .. Len(d) - 1 : Cut(d, k)[i] = IF i < p THEN d[i] ELSE d[i + 1]
<1>0. d \in Seq(Entry) /\ Len(d) \in Nat
  BY DEF Dictionary
<1>1. CASE \A j \in 1 .. Len(d) : d[j].key # k
  BY <1>1 DEF Cut
<1>2. CASE \E j \in 1 .. Len(d) : d[j].key = k
  <2> DEFINE I == {i \in 1 .. Len(d) : d[i].key = k}
             p == CHOOSE x \in I : \A y \in I : x <= y
  <2>1. \E x \in I : \A y \in I : x <= y
    <3>1. I \in SUBSET Nat /\ I # {}
      BY <1>2
    <3> HIDE DEF I
    <3> QED
      BY <3>1, FirstExists
  <2>2. p \in I
    BY <2>1
  <2>3. Cut(d, k) = SubSeq(d, 1, p - 1) \o SubSeq(d, p + 1, Len(d))
    BY <1>2, <2>2 DEF Cut
  <2>4. p \in 1 .. Len(d) /\ d[p].key = k
    BY <2>2
  <2> HIDE DEF p, I
  <2> DEFINE a == SubSeq(d, 1, p - 1)
             b == SubSeq(d, p + 1, Len(d))
  <2>5. \A i \in 1 .. Len(d) : d[i] \in Entry
    BY <1>0, ElementOfSeq
  <2>6. /\ a \in Seq(Entry) /\ Len(a) = p - 1
        /\ \A i \in 1 .. p - 1 : a[i] = d[i]
    <3>1. \A i \in 1 .. p - 1 : d[i] \in Entry
      BY <1>0, <2>4, <2>5
    <3>2. /\ SubSeq(d, 1, p - 1) \in Seq(Entry)
          /\ Len(SubSeq(d, 1, p - 1)) = IF 1 <= p - 1 THEN p - 1 - 1 + 1 ELSE 0
          /\ \A i \in 1 .. p - 1 - 1 + 1 : SubSeq(d, 1, p - 1)[i] = d[1 + i - 1]
      BY <1>0, <2>4, <3>1, SubSeqProperties
    <3>3. p - 1 - 1 + 1 = p - 1 /\ (~(1 <= p - 1) => p - 1 = 0) /\ \A i \in 1 .. p - 1 : 1 + i - 1 = i
      BY <1>0, <2>4
    <3> QED
      BY <3>2, <3>3
  <2>7. /\ b \in Seq(Entry) /\ Len(b) = Len(d) - p
        /\ \A i \in 1 .. Len(d) - p : b[i] = d[p + i]
    <3>1. \A i \in p + 1 .. Len(d) : d[i] \in Entry
      BY <1>0, <2>4, <2>5
    <3>2. /\ SubSeq(d, p + 1, Len(d)) \in Seq(Entry)
          /\ Len(SubSeq(d, p + 1, Len(d))) = IF p + 1 <= Len(d) THEN Len(d) - (p + 1) + 1 ELSE 0
          /\ \A i \in 1 .. Len(d) - (p + 1) + 1 : SubSeq(d, p + 1, Len(d))[i] = d[p + 1 + i - 1]
      BY <1>0, <2>4, <3>1, SubSeqProperties
    <3>3. /\ Len(d) - (p + 1) + 1 = Len(d) - p
          /\ ~(p + 1 <= Len(d)) => Len(d) - p = 0
          /\ \A i \in 1 .. Len(d) - p : p + 1 + i - 1 = p + i
      BY <1>0, <2>4
    <3> QED
      BY <3>2, <3>3
  <2> HIDE DEF a, b
  <2>8. /\ a \o b \in Seq(Entry)
        /\ Len(a \o b) = Len(a) + Len(b)
        /\ \A i \in 1 .. Len(a) + Len(b) : (a \o b)[i] = IF i <= Len(a) THEN a[i] ELSE b[i - Len(a)]
    BY <2>6, <2>7, ConcatProperties
  <2>9. Len(a) + Len(b) = Len(d) - 1
    BY <1>0, <2>4, <2>6, <2>7
  <2>10. ASSUME NEW i \in 1 .. Len(d) - 1 PROVE (a \o b)[i] = IF i < p THEN d[i] ELSE d[i + 1]
    <3>1. i \in 1 .. Len(a) + Len(b)
      BY <2>9
    <3>2. CASE i < p
      <4>1. i <= Len(a) /\ i \in 1 .. p - 1
        BY <1>0, <2>4, <2>6, <3>2
      <4> QED
        BY <2>6, <2>8, <3>1, <3>2, <4>1
    <3>3. CASE ~(i < p)
      <4>1. ~(i <= Len(a)) /\ i - Len(a) \in 1 .. Len(d) - p /\ p + (i - Len(a)) = i + 1
        BY <1>0, <2>4, <2>6, <3>3
      <4> QED
        BY <2>7, <2>8, <3>1, <3>3, <4>1
    <3> QED
      BY <3>2, <3>3
  <2>11. Cut(d, k) = a \o b
    BY <2>3 DEF a, b
  <2> QED
    BY <2>4, <2>8, <2>9, <2>10, <2>11
<1> QED
  BY <1>1, <1>2

\* The dictionary without a key: what is in it, and what stays in it.
LEMMA CutDictionary ==
    ASSUME NEW d, Dictionary(d), NEW k
    PROVE  LET c == Cut(d, k)
           IN  /\ Dictionary(c)
               /\ Len(c) <= Len(d)
               /\ \A i \in 1 .. Len(c) : c[i].key # k
               /\ \A i \in 1 .. Len(c) : \E j \in 1 .. Len(d) : c[i] = d[j]
               /\ \A l, S : l # k /\ Stays(d, l, S) => Stays(c, l, S)
<1>0. d \in Seq(Entry) /\ Len(d) \in Nat
  BY DEF Dictionary
<1> DEFINE c == Cut(d, k)
<1>1. CASE c = d /\ \A j \in 1 .. Len(d) : d[j].key # k
  BY <1>0, <1>1
<1>2. ASSUME NEW p \in 1 .. Len(d),
             d[p].key = k, c \in Seq(Entry), Len(c) = Len(d) - 1,
             \A i \in 1 .. Len(d) - 1 : c[i] = IF i < p THEN d[i] ELSE d[i + 1]
      PROVE  /\ Dictionary(c)
             /\ Len(c) <= Len(d)
             /\ \A i \in 1 .. Len(c) : c[i].key # k
             /\ \A i \in 1 .. Len(c) : \E j \in 1 .. Len(d) : c[i] = d[j]
             /\ \A l, S : l # k /\ Stays(d, l, S) => Stays(c, l, S)
  <2> HIDE DEF c
  <2> DEFINE at == [i \in 1 .. Len(c) |-> IF i < p THEN i ELSE i + 1]
  <2>1. \A i \in 1 .. Len(c) : at[i] \in 1 .. Len(d) /\ at[i] # p /\ c[i] = d[at[i]]
    BY <1>0, <1>2
  <2>2. \A i, j \in 1 .. Len(c) : (i < j <=> at[i] < at[j]) /\ (at[i] = at[j] => i = j)
    BY <1>0, <1>2
  <2>3. \A j \in 1 .. Len(d) : j # p => \E i \in 1 .. Len(c) : at[i] = j
    <3> TAKE j \in 1 .. Len(d)
    <3> HAVE j # p
    <3>1. CASE j < p
      <4>1. j \in 1 .. Len(c) /\ at[j] = j
        BY <1>0, <1>2, <3>1
      <4> QED
        BY <4>1
    <3>2. CASE j > p
      <4>1. j - 1 \in 1 .. Len(c) /\ at[j - 1] = j
        BY <1>0, <1>2, <3>2
      <4> QED
        BY <4>1
    <3> QED
      BY <3>1, <3>2
  <2> HIDE DEF at
  <2>4. \A i, j \in 1 .. Len(d) : d[i].key = d[j].key => i = j
    BY DEF Dictionary
  <2>5. \A i \in 1 .. Len(c) : c[i].key # k
    BY <1>2, <2>1, <2>4
  <2>6. Dictionary(c)
    <3>1. \A i, j \in 1 .. Len(c) : c[i].key = c[j].key => i = j
      BY <2>1, <2>2, <2>4
    <3>2. \A i \in 1 .. Len(c) : c[i].key = Exact!Key(c[i].answer)
      BY <2>1 DEF Dictionary
    <3> QED
      BY <1>2, <3>1, <3>2 DEF Dictionary
  <2>7. ASSUME NEW l, NEW S, l # k, Stays(d, l, S) PROVE Stays(c, l, S)
    <3>1. PICK i \in 1 .. Len(d) : d[i].key = l /\ \A j \in 1 .. Len(d) : i < j => d[j].key \in S
      BY <2>7 DEF Stays
    <3>2. PICK h \in 1 .. Len(c) : at[h] = i
      BY <1>2, <2>3, <2>7, <3>1
    <3>3. c[h].key = l /\ \A j \in 1 .. Len(c) : h < j => c[j].key \in S
      BY <2>1, <2>2, <3>1, <3>2
    <3> QED
      BY <3>3 DEF Stays
  <2>8. Len(c) <= Len(d)
    BY <1>0, <1>2
  <2> QED
    BY <2>1, <2>5, <2>6, <2>7, <2>8
<1> QED
  BY <1>1, <1>2, CutOne

\* An entry at the end: it stays with nothing used since, and the others with
\* its key.
LEMMA AppendDictionary ==
    ASSUME NEW d, Dictionary(d), NEW e \in Entry, e.key = Exact!Key(e.answer),
           \A i \in 1 .. Len(d) : d[i].key # e.key
    PROVE  LET a == Append(d, e)
           IN  /\ Dictionary(a)
               /\ Len(a) = Len(d) + 1
               /\ \A i \in 1 .. Len(a) : a[i] = e \/ \E j \in 1 .. Len(d) : a[i] = d[j]
               /\ \A S : Stays(a, e.key, S)
               /\ \A l, S : Stays(d, l, S) => Stays(a, l, S \cup {e.key})
<1> DEFINE a == Append(d, e)
           n == Len(d) + 1
<1>0. d \in Seq(Entry) /\ Len(d) \in Nat
  BY DEF Dictionary
<1>1. /\ a \in Seq(Entry) /\ Len(a) = n /\ a[n] = e
      /\ \A i \in 1 .. Len(d) : a[i] = d[i]
  BY <1>0, AppendProperties
<1> HIDE DEF a
<1>2. \A i \in 1 .. n : i = n \/ i \in 1 .. Len(d)
  BY <1>0
<1>3. n \in 1 .. n /\ \A i \in 1 .. Len(d) : i \in 1 .. n /\ i < n
  BY <1>0
<1>4. \A j \in 1 .. n : ~(n < j)
  BY <1>0
<1> HIDE DEF n
<1>5. Dictionary(a)
  <2>1. \A i, j \in 1 .. n : a[i].key = a[j].key => i = j
    BY <1>1, <1>2 DEF Dictionary
  <2>2. \A i \in 1 .. n : a[i].key = Exact!Key(a[i].answer)
    BY <1>1, <1>2 DEF Dictionary
  <2> QED
    BY <1>1, <2>1, <2>2 DEF Dictionary
<1>6. \A i \in 1 .. n : a[i] = e \/ \E j \in 1 .. Len(d) : a[i] = d[j]
  BY <1>1, <1>2
<1>7. \A S : Stays(a, e.key, S)
  BY <1>1, <1>3, <1>4 DEF Stays
<1>8. \A l, S : Stays(d, l, S) => Stays(a, l, S \cup {e.key})
  BY <1>1, <1>2, <1>3 DEF Stays
<1> QED
  BY <1>1, <1>5, <1>6, <1>7, <1>8 DEF a, n

\* Without its first entry: as many others have been used since that one as
\* are left; any other one stays.
LEMMA TailDictionary ==
    ASSUME NEW d, Dictionary(d), d # <<>>
    PROVE  LET t == Tail(d)
           IN  /\ Dictionary(t)
               /\ Len(t) = Len(d) - 1
               /\ \A i \in 1 .. Len(t) : \E j \in 1 .. Len(d) : t[i] = d[j]
               /\ \A l, S : Stays(d, l, S) /\ IsFiniteSet(S) =>
                     Stays(t, l, S) \/ Cardinality(S) >= Len(d) - 1
<1> DEFINE t == Tail(d)
<1>0. d \in Seq(Entry) /\ Len(d) \in Nat \ {0}
  BY DEF Dictionary
<1>1. /\ t \in Seq(Entry) /\ Len(t) = Len(d) - 1
      /\ \A i \in 1 .. Len(d) - 1 : t[i] = d[i + 1]
  BY <1>0, HeadTailProperties
<1> HIDE DEF t
<1>2. \A i \in 1 .. Len(t) : i + 1 \in 1 .. Len(d) /\ t[i] = d[i + 1]
  BY <1>0, <1>1
<1>3. Dictionary(t)
  <2>1. ASSUME NEW i \in 1 .. Len(t), NEW j \in 1 .. Len(t), t[i].key = t[j].key PROVE i = j
    <3>1. i + 1 = j + 1
      BY <1>2, <2>1 DEF Dictionary
    <3> QED
      BY <3>1
  <2>2. \A i \in 1 .. Len(t) : t[i].key = Exact!Key(t[i].answer)
    BY <1>2 DEF Dictionary
  <2> QED
    BY <1>1, <2>1, <2>2 DEF Dictionary
<1>4. ASSUME NEW l, NEW S, Stays(d, l, S), IsFiniteSet(S)
      PROVE  Stays(t, l, S) \/ Cardinality(S) >= Len(d) - 1
  <2>1. PICK i \in 1 .. Len(d) : d[i].key = l /\ \A j \in 1 .. Len(d) : i < j => d[j].key \in S
    BY <1>4 DEF Stays
  <2>2. CASE i # 1
    <3>1. i - 1 \in 1 .. Len(t) /\ t[i - 1] = d[i]
      BY <1>0, <1>1, <2>2
    <3>2. ASSUME NEW j \in 1 .. Len(t), i - 1 < j PROVE t[j].key \in S
      <4>1. j + 1 \in 1 .. Len(d) /\ i < j + 1 /\ t[j] = d[j + 1]
        BY <1>0, <1>2, <3>2
      <4> QED
        BY <2>1, <4>1
    <3> QED
      BY <2>1, <3>1, <3>2 DEF Stays
  <2>3. CASE i = 1
    <3> DEFINE f == [j \in 2 .. Len(d) |-> d[j].key]
    <3>1. \A j \in 2 .. Len(d) : j \in 1 .. Len(d) /\ i < j
      BY <1>0, <2>3
    <3>2. f \in Injection(2 .. Len(d), S)
      BY <2>1, <3>1 DEF Injection, IsInjective, Dictionary
    <3>3. Cardinality(2 .. Len(d)) <= Cardinality(S)
      <4> HIDE DEF f
      <4> QED
        BY <1>4, <3>2, FS_Injection
    <3>4. Cardinality(2 .. Len(d)) = Len(d) - 1
      <4>1. 2 \in Int /\ Len(d) \in Int /\ (2 > Len(d) => Len(d) - 1 = 0) /\ Len(d) - 2 + 1 = Len(d) - 1
        BY <1>0
      <4>2. Cardinality(2 .. Len(d)) = IF 2 > Len(d) THEN 0 ELSE Len(d) - 2 + 1
        BY <4>1, FS_Interval
      <4> QED
        BY <4>1, <4>2
    <3>5. Cardinality(S) \in Nat
      BY <1>4, FS_CardinalityType
    <3> QED
      BY <1>0, <3>3, <3>4, <3>5
  <2> QED
    BY <2>2, <2>3
<1> QED
  BY <1>1, <1>2, <1>3, <1>4 DEF t

-----------------------------------------------------------------------------
(* The exact cache: the invariant                                           *)

\* A key that has been used is to be found, or has expired, or as many others
\* as the cache holds have been used since.
Keeps(d, k, s) == k \in s \/ Stays(d, k, s) \/ Cardinality(s) >= MaxEntries

ExactInv ==
    /\ Dictionary(data)
    /\ Len(data) <= MaxEntries
    /\ req \in [Requests -> Progress]
    /\ since \in [Exact!Keys -> SUBSET Exact!Keys]
    /\ \A k \in Exact!Keys : Keeps(data, k, since[k])

\* Where a request stands.
LEMMA Stands ==
    /\ Exact!Progress = Progress /\ Semantic!Progress = Progress
    /\ Exact!Idle = Idle /\ Semantic!Idle = Idle
    /\ Idle \in Progress /\ Idle.pc = "idle"
    /\ \A q \in Queries : [pc |-> "calling", query |-> q] \in Progress
    /\ \A q, a \in Queries : [pc |-> "hit", query |-> q, answer |-> a] \in Progress
    /\ \A p \in Progress : p.pc = "calling" => p.query \in Queries
BY DEF Exact!Progress, Semantic!Progress, Exact!Idle, Semantic!Idle, Progress, Idle

\* Without is Cut.
LEMMA WithoutIsCut == \A k : Exact!Without(k) = Cut(data, k)
BY DEF Cut, Exact!Without, Exact!RemoveFirstMatch, Exact!RemoveAt, Exact!SelectInSeq, Exact!Min

\* The numbers of elements that the cache uses.
LEMMA Counts == \A S : Exact!Cardinality(S) = Cardinality(S)
BY DEF Exact!Cardinality, Cardinality

\* More keys used.
LEMMA KeepsMore ==
    ASSUME NEW d, NEW c, NEW k, NEW s, NEW t \in SUBSET Exact!Keys, s \subseteq t,
           Keeps(d, k, s),
           Stays(d, k, s) => Stays(c, k, t) \/ Cardinality(t) >= MaxEntries
    PROVE  Keeps(c, k, t)
<1>1. IsFiniteSet(t)
  BY KeysAreFinite, FS_Subset
<1>2. Cardinality(s) \in Nat /\ Cardinality(t) \in Nat /\ Cardinality(s) <= Cardinality(t)
  BY <1>1, FS_Subset, FS_CardinalityType
<1>3. Cardinality(s) >= MaxEntries => Cardinality(t) >= MaxEntries
  BY <1>2, NumbersAssumption
<1> QED
  BY <1>3 DEF Keeps

\* The invariant after a step, by its parts.
LEMMA ExactInvAfter ==
    ASSUME Dictionary(data'), Len(data') <= MaxEntries, req' \in [Requests -> Progress],
           since' \in [Exact!Keys -> SUBSET Exact!Keys],
           \A k \in Exact!Keys : Keeps(data', k, since'[k])
    PROVE  ExactInv'
BY DEF ExactInv

\* The keys used since, after the use of one.
LEMMA UsedKey ==
    ASSUME since \in [Exact!Keys -> SUBSET Exact!Keys], NEW k \in Exact!Keys, Exact!Used(k)
    PROVE  /\ since' \in [Exact!Keys -> SUBSET Exact!Keys]
           /\ since'[k] = {}
           /\ \A j \in Exact!Keys : j # k => since'[j] = since[j] \cup {k}
BY DEF Exact!Used

\* An entry that is put at the end.
LEMMA PutAtEnd ==
    ASSUME ExactInv, NEW e \in Entry, e.key = Exact!Key(e.answer), Exact!Used(e.key)
    PROVE  LET a == Append(Cut(data, e.key), e)
           IN  /\ Dictionary(a)
               /\ Len(a) <= Len(data) + 1
               /\ (\E i \in 1 .. Len(data) : data[i].key = e.key) => Len(a) <= Len(data)
               /\ \A i \in 1 .. Len(a) : a[i] = e \/ \E j \in 1 .. Len(data) : a[i] = data[j]
               /\ \A k \in Exact!Keys : Keeps(a, k, since'[k])
<1> DEFINE c == Cut(data, e.key)
           a == Append(c, e)
<1>1. Dictionary(data) /\ since \in [Exact!Keys -> SUBSET Exact!Keys]
  BY DEF ExactInv
<1>2. /\ Dictionary(c) /\ Len(c) <= Len(data) /\ Len(c) \in Nat /\ Len(data) \in Nat
      /\ \A i \in 1 .. Len(c) : c[i].key # e.key
      /\ \A i \in 1 .. Len(c) : \E j \in 1 .. Len(data) : c[i] = data[j]
      /\ \A l, S : l # e.key /\ Stays(data, l, S) => Stays(c, l, S)
  BY <1>1, CutDictionary, DictionaryIsSeq
<1>3. (\E i \in 1 .. Len(data) : data[i].key = e.key) => Len(c) = Len(data) - 1
  BY <1>1, CutOne
<1> HIDE DEF c
<1>4. /\ Dictionary(a) /\ Len(a) = Len(c) + 1
      /\ \A i \in 1 .. Len(a) : a[i] = e \/ \E j \in 1 .. Len(c) : a[i] = c[j]
      /\ \A S : Stays(a, e.key, S)
      /\ \A l, S : Stays(c, l, S) => Stays(a, l, S \cup {e.key})
  <2>1. Dictionary(c) /\ \A i \in 1 .. Len(c) : c[i].key # e.key
    BY <1>2
  <2>2. e.key = Exact!Key(e.answer)
    OBVIOUS
  <2> QED
    BY ONLY <2>1, <2>2, e \in Entry, AppendDictionary
<1> HIDE DEF a
<1>5. e.key \in Exact!Keys
  BY DEF Entry
<1>6. /\ since' \in [Exact!Keys -> SUBSET Exact!Keys]
      /\ \A j \in Exact!Keys : j # e.key => since'[j] = since[j] \cup {e.key}
  BY <1>1, <1>5, UsedKey
<1>7. ASSUME NEW k \in Exact!Keys PROVE Keeps(a, k, since'[k])
  <2>1. CASE k = e.key
    BY <1>4, <2>1 DEF Keeps
  <2>2. CASE k # e.key
    <3>1. Keeps(data, k, since[k])
      BY DEF ExactInv
    <3>2. since'[k] \in SUBSET Exact!Keys /\ since[k] \subseteq since'[k]
      BY <1>6, <2>2
    <3>3. Stays(data, k, since[k]) => Stays(a, k, since'[k])
      BY <1>2, <1>4, <1>6, <2>2
    <3> QED
      BY <3>1, <3>2, <3>3, KeepsMore
  <2> QED
    BY <2>1, <2>2
<1> QED
  BY <1>2, <1>3, <1>4, <1>7 DEF a, c

\* A hit moves an entry to the end.
LEMMA ExactHit ==
    ASSUME ExactInv, NEW r \in Requests, NEW q \in Queries, Exact!Hit(r, q)
    PROVE  /\ ExactInv'
           /\ \A i \in 1 .. Len(data') : \E j \in 1 .. Len(data) : data'[i] = data[j]
           /\ \E j \in 1 .. Len(data) :
                 /\ ~(data[j].left < 0)
                 /\ Exact!Key(data[j].answer) = Exact!Key(q)
                 /\ req' = [req EXCEPT ![r] = [pc |-> "hit", query |-> q, answer |-> data[j].answer]]
<1>1. /\ Dictionary(data) /\ Len(data) <= MaxEntries /\ req \in [Requests -> Progress]
      /\ since \in [Exact!Keys -> SUBSET Exact!Keys] /\ data \in Seq(Entry)
  BY DEF ExactInv, Dictionary
<1>2. PICK e \in Exact!Entries(Exact!Key(q)) :
          /\ ~Exact!Expired(e)
          /\ data' = Exact!Bumped(e)
          /\ req' = [req EXCEPT ![r] = [pc |-> "hit", query |-> q, answer |-> e.answer]]
  BY DEF Exact!Hit
<1>3. e \in Exact!ToSet(data) /\ e.key = Exact!Key(q)
  BY DEF Exact!Entries
<1>4. PICK j \in 1 .. Len(data) : e = data[j]
  BY <1>1, <1>3, Elements
<1>5. e \in Entry /\ e.key = Exact!Key(e.answer) /\ e.answer \in Queries
  <2>1. e \in Entry
    BY <1>1, <1>4, ElementOfSeq
  <2> QED
    BY <1>1, <1>4, <2>1 DEF Dictionary, Entry
<1>6. Exact!Used(e.key) /\ since' \in [Exact!Keys -> SUBSET Exact!Keys]
  <2>1. Exact!Used(e.key)
    BY <1>3 DEF Exact!Hit
  <2>2. e.key \in Exact!Keys
    BY <1>5 DEF Entry
  <2> QED
    BY <1>1, <2>1, <2>2, UsedKey
<1>7. data' = Append(Cut(data, e.key), e)
  BY <1>2, WithoutIsCut DEF Exact!Bumped
<1>8. /\ Dictionary(data') /\ Len(data') <= Len(data)
      /\ \A i \in 1 .. Len(data') : data'[i] = e \/ \E h \in 1 .. Len(data) : data'[i] = data[h]
      /\ \A k \in Exact!Keys : Keeps(data', k, since'[k])
  BY <1>4, <1>5, <1>6, <1>7, PutAtEnd
<1>9. req' \in [Requests -> Progress]
  BY <1>1, <1>2, <1>5, Stands
<1>10. Len(data') <= MaxEntries
  BY <1>1, <1>8, NumbersAssumption DEF Dictionary
<1>11. ExactInv'
  BY <1>6, <1>8, <1>9, <1>10, ExactInvAfter
<1>12. \A i \in 1 .. Len(data') : \E h \in 1 .. Len(data) : data'[i] = data[h]
  BY <1>4, <1>8
<1>13. /\ ~(data[j].left < 0)
       /\ Exact!Key(data[j].answer) = Exact!Key(q)
       /\ req' = [req EXCEPT ![r] = [pc |-> "hit", query |-> q, answer |-> data[j].answer]]
  BY <1>2, <1>3, <1>4, <1>5 DEF Exact!Expired
<1> QED
  BY <1>11, <1>12, <1>13

\* A miss drops an entry that has expired, and its key is forgotten.
LEMMA ExactMiss ==
    ASSUME ExactInv, NEW r \in Requests, NEW q \in Queries, Exact!Miss(r, q)
    PROVE  /\ ExactInv'
           /\ \A i \in 1 .. Len(data') : \E j \in 1 .. Len(data) : data'[i] = data[j]
           /\ req' = [req EXCEPT ![r] = [pc |-> "calling", query |-> q]]
<1> DEFINE key == Exact!Key(q)
<1>1. /\ Dictionary(data) /\ Len(data) <= MaxEntries /\ req \in [Requests -> Progress]
      /\ since \in [Exact!Keys -> SUBSET Exact!Keys] /\ Len(data) \in Nat
      /\ \A k \in Exact!Keys : Keeps(data, k, since[k])
  BY DEF ExactInv, Dictionary
<1>2. /\ data' = Cut(data, key)
      /\ req' = [req EXCEPT ![r] = [pc |-> "calling", query |-> q]]
      /\ since' = [since EXCEPT ![key] = Exact!Keys]
  BY WithoutIsCut DEF Exact!Miss, Exact!Forgotten
<1>3. key \in Exact!Keys
  BY KeysAreFinite
<1> HIDE DEF key
<1>4. /\ Dictionary(data') /\ Len(data') <= Len(data) /\ Len(data') \in Nat
      /\ \A i \in 1 .. Len(data') : \E j \in 1 .. Len(data) : data'[i] = data[j]
      /\ \A l, S : l # key /\ Stays(data, l, S) => Stays(data', l, S)
  <2> DEFINE c == Cut(data, key)
  <2>1. /\ Dictionary(c) /\ Len(c) <= Len(data) /\ Len(c) \in Nat
        /\ \A i \in 1 .. Len(c) : \E j \in 1 .. Len(data) : c[i] = data[j]
        /\ \A l, S : l # key /\ Stays(data, l, S) => Stays(c, l, S)
    BY <1>1, CutDictionary, DictionaryIsSeq
  <2> HIDE DEF c
  <2> QED
    BY <1>2, <2>1 DEF c
<1>5. since' \in [Exact!Keys -> SUBSET Exact!Keys]
  BY <1>1, <1>2
<1>6. ASSUME NEW k \in Exact!Keys PROVE Keeps(data', k, since'[k])
  BY <1>1, <1>2, <1>3, <1>4 DEF Keeps
<1>7. req' \in [Requests -> Progress]
  BY <1>1, <1>2, Stands
<1>8. Len(data') <= MaxEntries
  BY <1>1, <1>4, NumbersAssumption
<1>9. ExactInv'
  BY <1>4, <1>5, <1>6, <1>7, <1>8, ExactInvAfter
<1> QED
  BY <1>2, <1>4, <1>9

\* An answer is stored at the end; if one is too many, it is the least
\* recently used that goes.
LEMMA ExactStore ==
    ASSUME ExactInv, NEW r \in Requests, Exact!Store(r)
    PROVE  /\ ExactInv'
           /\ req[r].query \in Queries
           /\ \A i \in 1 .. Len(data') :
                 \/ data'[i].answer = req[r].query /\ data'[i].left = Ttl
                 \/ \E j \in 1 .. Len(data) : data'[i] = data[j]
           /\ req' = [req EXCEPT ![r] = Idle]
<1> DEFINE q == req[r].query
           e == [key |-> Exact!Key(q), answer |-> q, left |-> Ttl]
           a == Append(Cut(data, e.key), e)
<1>1. /\ Dictionary(data) /\ Len(data) <= MaxEntries /\ req \in [Requests -> Progress]
      /\ since \in [Exact!Keys -> SUBSET Exact!Keys] /\ Len(data) \in Nat
  BY DEF ExactInv, Dictionary
<1>2. q \in Queries
  <2>1. req[r] \in Progress /\ req[r].pc = "calling"
    BY <1>1 DEF Exact!Store, Exact!Calling
  <2> QED
    BY <2>1, Stands
<1>3. /\ data' = Exact!Trimmed(a)
      /\ req' = [req EXCEPT ![r] = Idle]
      /\ Exact!Used(e.key)
  BY WithoutIsCut, Stands DEF Exact!Store
<1> HIDE DEF q
<1>4. e \in Entry /\ e.key = Exact!Key(e.answer) /\ e.key \in Exact!Keys
  BY <1>2, KeysAreFinite, NumbersAssumption DEF Entry
<1>5. e.answer = q /\ e.left = Ttl
  OBVIOUS
<1> HIDE DEF e
<1>6. /\ Dictionary(a) /\ Len(a) <= Len(data) + 1 /\ Len(a) \in Nat
      /\ \A i \in 1 .. Len(a) : a[i] = e \/ \E j \in 1 .. Len(data) : a[i] = data[j]
      /\ \A k \in Exact!Keys : Keeps(a, k, since'[k])
  <2>1. Dictionary(a) => Len(a) \in Nat
    BY DEF Dictionary
  <2> QED
    BY <1>3, <1>4, <2>1, PutAtEnd
<1>7. since' \in [Exact!Keys -> SUBSET Exact!Keys]
  BY <1>1, <1>3, <1>4, UsedKey
<1> HIDE DEF a
<1>8. /\ Dictionary(data') /\ Len(data') <= MaxEntries
      /\ \A i \in 1 .. Len(data') : data'[i] = e \/ \E j \in 1 .. Len(data) : data'[i] = data[j]
      /\ \A k \in Exact!Keys : Keeps(data', k, since'[k])
  <2>1. CASE Len(a) > MaxEntries
    <3>1. data' = Tail(a) /\ a # <<>> /\ Len(a) - 1 = MaxEntries
      <4>1. Len(a) - 1 = MaxEntries /\ Len(a) # 0
        BY <1>1, <1>6, <2>1, NumbersAssumption
      <4> QED
        BY <1>3, <2>1, <4>1 DEF Exact!Trimmed
    <3>2. /\ Dictionary(data')
          /\ Len(data') = Len(a) - 1
          /\ \A i \in 1 .. Len(data') : \E j \in 1 .. Len(a) : data'[i] = a[j]
          /\ \A l, S : Stays(a, l, S) /\ IsFiniteSet(S) =>
                Stays(data', l, S) \/ Cardinality(S) >= Len(a) - 1
      BY <1>6, <3>1, TailDictionary
    <3>3. ASSUME NEW k \in Exact!Keys PROVE Keeps(data', k, since'[k])
      <4>1. since'[k] \in SUBSET Exact!Keys /\ IsFiniteSet(since'[k])
        BY <1>7, KeysAreFinite, FS_Subset
      <4>2. Stays(a, k, since'[k]) => Stays(data', k, since'[k]) \/ Cardinality(since'[k]) >= MaxEntries
        BY <3>1, <3>2, <4>1
      <4> QED
        BY <1>6, <4>1, <4>2, KeepsMore
    <3>4. Len(data') <= MaxEntries
      BY <3>1, <3>2, NumbersAssumption
    <3> QED
      BY <1>6, <3>2, <3>3, <3>4
  <2>2. CASE ~(Len(a) > MaxEntries)
    <3>1. data' = a
      BY <1>3, <2>2 DEF Exact!Trimmed
    <3> QED
      BY <1>6, <2>2, <3>1, NumbersAssumption
  <2> QED
    BY <2>1, <2>2
<1>9. req' \in [Requests -> Progress]
  BY <1>1, <1>3, Stands
<1>10. ExactInv'
  BY <1>7, <1>8, <1>9, ExactInvAfter
<1> QED
  BY <1>2, <1>3, <1>5, <1>8, <1>10 DEF q

\* Time takes nothing out, and no entry lives longer for it.
LEMMA ExactTick ==
    ASSUME ExactInv, Exact!Tick
    PROVE  /\ ExactInv'
           /\ Len(data') = Len(data)
           /\ \A i \in 1 .. Len(data) :
                 /\ data'[i].answer = data[i].answer
                 /\ data'[i].left = IF data[i].left < 0 THEN data[i].left ELSE data[i].left - 1
           /\ req' = req
<1>1. /\ Dictionary(data) /\ Len(data) <= MaxEntries /\ req \in [Requests -> Progress]
      /\ since \in [Exact!Keys -> SUBSET Exact!Keys] /\ Len(data) \in Nat /\ data \in Seq(Entry)
      /\ \A k \in Exact!Keys : Keeps(data, k, since[k])
  BY DEF ExactInv, Dictionary
<1>2. /\ data' = [i \in 1 .. Len(data) |-> Exact!Older(data[i])]
      /\ req' = req /\ since' = since
  BY <1>1 DEF Exact!Tick
<1>3. ASSUME NEW i \in 1 .. Len(data)
      PROVE  /\ data'[i] \in Entry /\ data'[i].answer = data[i].answer /\ data'[i].key = data[i].key
             /\ data'[i].left = IF data[i].left < 0 THEN data[i].left ELSE data[i].left - 1
  <2>1. data[i] \in Entry
    BY <1>1, ElementOfSeq
  <2>2. data'[i] = Exact!Older(data[i])
    BY <1>2
  <2> QED
    BY <2>1, <2>2, NumbersAssumption DEF Entry, Exact!Older, Exact!Expired
<1>4. data' \in Seq(Entry) /\ Len(data') = Len(data)
  <2>1. data' \in [1 .. Len(data) -> Entry]
    <3>1. data' = [i \in 1 .. Len(data) |-> data'[i]]
      BY <1>2
    <3> QED
      BY <1>3, <3>1
  <2> QED
    BY <1>1, <2>1
<1>5. Dictionary(data')
  BY <1>1, <1>3, <1>4 DEF Dictionary
<1>6. ASSUME NEW k \in Exact!Keys PROVE Keeps(data', k, since'[k])
  <2>1. Stays(data, k, since[k]) => Stays(data', k, since[k])
    BY <1>3, <1>4 DEF Stays
  <2> QED
    BY <1>1, <1>2, <2>1 DEF Keeps
<1>7. ExactInv'
  BY <1>1, <1>2, <1>4, <1>5, <1>6, ExactInvAfter
<1> QED
  BY <1>2, <1>3, <1>4, <1>7

\* A request whose providers fail.
LEMMA ExactFail ==
    ASSUME ExactInv, NEW r \in Requests, Exact!Fail(r)
    PROVE  ExactInv' /\ data' = data /\ req' = [req EXCEPT ![r] = Idle]
<1>1. data' = data /\ since' = since /\ req' = [req EXCEPT ![r] = Idle]
  BY Stands DEF Exact!Fail
<1> QED
  BY <1>1, Stands DEF ExactInv

\* The exact cache starts so.
LEMMA ExactInit == Exact!Init => ExactInv
<1> SUFFICES ASSUME Exact!Init PROVE ExactInv
  OBVIOUS
<1>1. data = <<>> /\ req = [r \in Requests |-> Idle] /\ since = [k \in Exact!Keys |-> Exact!Keys]
  BY Stands DEF Exact!Init, Exact!Forgotten
<1>2. Dictionary(<<>>)
  BY DEF Dictionary
<1> QED
  BY <1>1, <1>2, Stands, NumbersAssumption DEF ExactInv, Keeps

\* The properties that follow from the invariant.
LEMMA ExactHolds ==
    ASSUME ExactInv
    PROVE  Exact!TypeOK /\ Exact!RecentlyUsedStay
<1>1. data \in Seq(Entry) /\ Dictionary(data) /\ DOMAIN data = 1 .. Len(data)
  BY DEF ExactInv, Dictionary
<1>2. Exact!TypeOK
  BY <1>1, Stands DEF ExactInv, Dictionary, Exact!TypeOK, Entry
<1>3. ASSUME NEW k \in Exact!Keys, Exact!Cardinality(since[k]) < MaxEntries, k \notin since[k]
      PROVE  Exact!Entries(k) # {}
  <2>1. IsFiniteSet(since[k])
    BY KeysAreFinite, FS_Subset DEF ExactInv
  <2>2. Cardinality(since[k]) \in Nat /\ Cardinality(since[k]) < MaxEntries
    BY <1>3, <2>1, FS_CardinalityType, Counts
  <2>3. Keeps(data, k, since[k]) /\ ~(Cardinality(since[k]) >= MaxEntries)
    BY <2>2, NumbersAssumption DEF ExactInv
  <2>4. Stays(data, k, since[k])
    BY <1>3, <2>3 DEF Keeps
  <2>5. PICK i \in 1 .. Len(data) : data[i].key = k
    BY <2>4 DEF Stays
  <2>6. data[i] \in Exact!ToSet(data)
    BY <1>1, <2>5, Elements
  <2> QED
    BY <2>5, <2>6 DEF Exact!Entries
<1> QED
  BY <1>2, <1>3 DEF Exact!RecentlyUsedStay

-----------------------------------------------------------------------------
(* The semantic cache: partitions                                           *)

Kept == [answer : Queries, left : -1 .. Ttl]

\* The answers of a partition are in the order of their expiry.
Ordered(p) == \A i, j \in 1 .. Len(p) : i < j => p[i].left <= p[j].left

\* A partition holds answers to queries for its model.
Partition(p, m) ==
    /\ p \in Seq(Kept)
    /\ Len(p) <= MaxEntries
    /\ \A i \in 1 .. Len(p) : p[i].answer.model = m
    /\ Ordered(p)

\* A partition is a sequence of entries.
LEMMA PartitionIsSeq ==
    ASSUME NEW p, NEW m, Partition(p, m)
    PROVE  p \in Seq(Kept) /\ Len(p) \in Nat /\ DOMAIN p = 1 .. Len(p) /\ Ordered(p)
BY DEF Partition

\* it[T] are the entries at T that have not expired.
Filters(p, it) ==
    it = [T \in SUBSET DOMAIN p |->
             IF T = {} THEN <<>>
             ELSE IF p[Latest(T)].left >= 0 THEN Append(it[T \ {Latest(T)}], p[Latest(T)])
                                          ELSE it[T \ {Latest(T)}]]

\* The list comprehension of _evict_expired, as a function of the positions.
LEMMA EvictedIsFold == \A p : Semantic!Evicted(p) = (CHOOSE it : Filters(p, it))[DOMAIN p]
BY DEF Semantic!Evicted, Semantic!FoldLeft, Semantic!MapThenFoldSet, Semantic!Max, Filters, Latest

\* There is such a function.
LEMMA FiltersExists ==
    ASSUME NEW p \in Seq(Kept)
    PROVE  \E it : Filters(p, it)
<1> DEFINE S == 1 .. Len(p)
           V == Seq(Kept)
           ch == [T \in SUBSET S |-> Latest(T)]
           g == [a \in S \X V |-> IF p[a[1]].left >= 0 THEN Append(a[2], p[a[1]]) ELSE a[2]]
<1>1. Len(p) \in Nat /\ DOMAIN p = S /\ \A i \in S : p[i] \in Kept
  BY ElementOfSeq
<1>2. IsFiniteSet(S)
  <2>1. 1 \in Int /\ Len(p) \in Int
    BY <1>1
  <2> QED
    BY <2>1, FS_Interval
<1>3. \A T \in SUBSET S : T # {} => ch[T] \in T /\ ch[T] = Latest(T)
  BY <1>1, LastExists
<1>4. ASSUME NEW i \in S, NEW s \in V
      PROVE  /\ g[<<i, s>>] = IF p[i].left >= 0 THEN Append(s, p[i]) ELSE s
             /\ g[<<i, s>>] \in V
  <2>1. <<i, s>> \in S \X V /\ g[<<i, s>>] = IF p[i].left >= 0 THEN Append(s, p[i]) ELSE s
    OBVIOUS
  <2>2. Append(s, p[i]) \in V
    BY <1>1, AppendProperties
  <2> QED
    BY <2>1, <2>2
<1>5. g \in [S \X V -> V]
  <2>1. \A a \in S \X V : a[1] \in S /\ a[2] \in V /\ a = <<a[1], a[2]>>
    OBVIOUS
  <2>2. \A a \in S \X V : g[a] \in V
    BY <1>4, <2>1
  <2> QED
    BY <2>2
<1>6. <<>> \in V
  OBVIOUS
<1> HIDE DEF S, V, g
<1>7. PICK it \in [SUBSET S -> V] : Folded(S, ch, g, <<>>, it)
  <2> HIDE DEF ch
  <2> QED
    BY <1>2, <1>3, <1>5, <1>6, FoldExists
<1> HIDE DEF ch
<1>8. ASSUME NEW T \in SUBSET S
      PROVE  it[T] = IF T = {} THEN <<>>
                     ELSE IF p[Latest(T)].left >= 0 THEN Append(it[T \ {Latest(T)}], p[Latest(T)])
                                                  ELSE it[T \ {Latest(T)}]
  <2>1. it[T] = IF T = {} THEN <<>> ELSE g[<<ch[T], it[T \ {ch[T]}]>>]
    BY <1>7 DEF Folded
  <2>2. CASE T = {}
    BY <2>1, <2>2
  <2>3. CASE T # {}
    <3>1. Latest(T) \in S /\ ch[T] = Latest(T) /\ it[T \ {Latest(T)}] \in V
      BY <1>3, <1>7, <2>3
    <3>2. it[T] = g[<<Latest(T), it[T \ {Latest(T)}]>>]
      BY <2>1, <2>3, <3>1
    <3> QED
      BY <1>4, <2>3, <3>1, <3>2
  <2> QED
    BY <2>2, <2>3
<1>9. it = [T \in SUBSET S |->
               IF T = {} THEN <<>>
               ELSE IF p[Latest(T)].left >= 0 THEN Append(it[T \ {Latest(T)}], p[Latest(T)])
                                            ELSE it[T \ {Latest(T)}]]
  BY <1>7, <1>8
<1> QED
  BY <1>1, <1>9 DEF Filters

\* Eviction leaves entries that have not expired, in their order.
LEMMA Evicts ==
    ASSUME NEW p \in Seq(Kept), Ordered(p)
    PROVE  LET e == Semantic!Evicted(p)
           IN  /\ e \in Seq(Kept) /\ Len(e) <= Len(p) /\ Ordered(e)
               /\ \A i \in 1 .. Len(e) : e[i].left >= 0 /\ \E j \in 1 .. Len(p) : e[i] = p[j]
<1> DEFINE it == CHOOSE f : Filters(p, f)
           Good(n, e) ==
               /\ e \in Seq(Kept) /\ Len(e) <= n /\ Ordered(e)
               /\ \A i \in 1 .. Len(e) : e[i].left >= 0 /\ \E j \in 1 .. n : e[i] = p[j]
           Bad == {n \in 0 .. Len(p) : ~Good(n, it[1 .. n])}
<1>1. Len(p) \in Nat /\ DOMAIN p = 1 .. Len(p) /\ \A i \in 1 .. Len(p) : p[i] \in Kept
  BY ElementOfSeq
<1>2. Filters(p, it)
  BY FiltersExists
<1> HIDE DEF it
<1>3. \A T \in SUBSET (1 .. Len(p)) :
         it[T] = IF T = {} THEN <<>>
                 ELSE IF p[Latest(T)].left >= 0 THEN Append(it[T \ {Latest(T)}], p[Latest(T)])
                                              ELSE it[T \ {Latest(T)}]
  BY <1>1, <1>2 DEF Filters
<1>4. ASSUME Bad # {} PROVE FALSE
  <2>1. Bad \in SUBSET Nat
    BY <1>1
  <2>2. PICK n \in Bad : \A k \in Bad : n <= k
    <3> HIDE DEF Bad
    <3> QED
      BY <1>4, <2>1, FirstExists
  <2>3. n \in 0 .. Len(p) /\ n \in Nat /\ ~Good(n, it[1 .. n])
    BY <1>1, <2>2
  <2>4. n # 0
    <3> SUFFICES ASSUME n = 0 PROVE FALSE
      OBVIOUS
    <3>1. it[{}] = <<>>
      BY <1>3
    <3>2. 1 .. 0 = {}
      OBVIOUS
    <3>3. Good(0, <<>>)
      BY DEF Ordered
    <3> HIDE DEF Good
    <3> QED
      BY <2>3, <3>1, <3>2, <3>3
  <2>5. n - 1 \in 0 .. Len(p) /\ n - 1 \notin Bad
    <3>1. n - 1 \in 0 .. Len(p) /\ ~(n <= n - 1)
      BY <1>1, <2>3, <2>4
    <3> HIDE DEF Bad
    <3> QED
      BY <2>2, <3>1
  <2> DEFINE s == it[1 .. n - 1]
  <2>6. Good(n - 1, s)
    BY <2>5
  <2>7. n \in 1 .. Len(p) /\ (1 .. n) \ {n} = 1 .. n - 1 /\ 1 .. n \in SUBSET (1 .. Len(p)) /\ n \in 1 .. n
    BY <1>1, <2>3, <2>4
  <2>8. Latest(1 .. n) = n
    <3>1. Latest(1 .. n) \in 1 .. n /\ Latest(1 .. n) >= n
      BY <2>3, <2>7, LastExists
    <3> QED
      BY <2>3, <3>1
  <2>9. it[1 .. n] = IF p[n].left >= 0 THEN Append(s, p[n]) ELSE s
    BY <1>3, <2>7, <2>8
  <2> HIDE DEF s, Bad
  <2>10. s \in Seq(Kept) /\ Len(s) \in Nat /\ Len(s) <= n - 1 /\ Ordered(s)
    BY <2>6
  <2>11. \A i \in 1 .. Len(s) : s[i].left >= 0 /\ \E j \in 1 .. n - 1 : s[i] = p[j]
    BY <2>6
  <2>12. \A j \in 1 .. n - 1 : j \in 1 .. n /\ j \in 1 .. Len(p) /\ j < n
    BY <1>1, <2>7
  <2>13. CASE ~(p[n].left >= 0)
    <3>1. Good(n, s)
      BY <2>3, <2>10, <2>11, <2>12
    <3> QED
      BY <2>3, <2>9, <2>13, <3>1
  <2>14. CASE p[n].left >= 0
    <3> DEFINE t == Append(s, p[n])
               l == Len(s) + 1
    <3>1. /\ t \in Seq(Kept) /\ Len(t) = l /\ t[l] = p[n]
          /\ \A i \in 1 .. Len(s) : t[i] = s[i]
      BY <1>1, <2>7, <2>10, AppendProperties
    <3> HIDE DEF t
    <3>2. l <= n /\ \A i \in 1 .. l : i = l \/ i \in 1 .. Len(s)
      BY <2>3, <2>10
    <3>3. \A i \in 1 .. l : t[i].left >= 0 /\ \E j \in 1 .. n : t[i] = p[j]
      BY <2>7, <2>11, <2>12, <2>14, <3>1, <3>2
    <3>4. ASSUME NEW i \in 1 .. l, NEW j \in 1 .. l, i < j PROVE t[i].left <= t[j].left
      <4>1. i \in 1 .. Len(s) /\ t[i] = s[i]
        BY <2>10, <3>1, <3>4
      <4>2. CASE j \in 1 .. Len(s)
        BY <2>10, <3>1, <3>4, <4>1, <4>2 DEF Ordered
      <4>3. CASE j = l
        <5>1. PICK h \in 1 .. n - 1 : s[i] = p[h]
          BY <2>11, <4>1
        <5>2. p[h].left <= p[n].left
          BY <2>7, <2>12 DEF Ordered
        <5> QED
          BY <3>1, <4>1, <4>3, <5>1, <5>2
      <4> QED
        BY <3>2, <4>2, <4>3
    <3>5. Good(n, t)
      BY <3>1, <3>2, <3>3, <3>4 DEF Ordered
    <3> QED
      BY <2>3, <2>9, <2>14, <3>5 DEF t
  <2> QED
    BY <2>13, <2>14
<1>5. Good(Len(p), it[1 .. Len(p)])
  <2>1. Len(p) \in 0 .. Len(p)
    BY <1>1
  <2> QED
    BY <1>4, <2>1
<1>6. Semantic!Evicted(p) = it[1 .. Len(p)]
  BY <1>1, EvictedIsFold DEF it
<1> QED
  BY <1>5, <1>6

-----------------------------------------------------------------------------
(* The semantic cache: the invariant                                        *)

SemanticInv ==
    /\ DOMAIN partitions = Models
    /\ \A m \in Models : Partition(partitions[m], m)
    /\ partitions = [m \in Models |-> partitions[m]]
    /\ req \in [Requests -> Progress]

\* The invariant after a step, by its parts.
LEMMA SemanticInvAfter ==
    ASSUME DOMAIN partitions' = Models, \A m \in Models : Partition(partitions'[m], m),
           partitions' = [m \in Models |-> partitions'[m]],
           req' \in [Requests -> Progress]
    PROVE  SemanticInv'
BY DEF SemanticInv

\* What step e may leave of the partition p: some entries of p, and perhaps
\* an answer to q that is kept for Ttl.
Some(c, p) == \A i \in 1 .. Len(c) : \E j \in 1 .. Len(p) : c[i] = p[j]

\* A lookup drops what has expired; a hit is the answer to a query for the
\* same model that is similar enough.
LEMMA SemanticLookup ==
    ASSUME SemanticInv, NEW r \in Requests, NEW q \in Queries, Semantic!Lookup(r, q)
    PROVE  /\ SemanticInv'
           /\ \A m \in Models : Some(partitions'[m], partitions[m])
           /\ \/ req' = [req EXCEPT ![r] = [pc |-> "calling", query |-> q]]
              \/ \E i \in 1 .. Len(partitions[q.model]) :
                    LET e == partitions[q.model][i]
                    IN  /\ e.left >= 0
                        /\ Semantic!Similar(e.answer, q)
                        /\ req' = [req EXCEPT ![r] = [pc |-> "hit", query |-> q, answer |-> e.answer]]
<1> DEFINE p == partitions[q.model]
           e == Semantic!Evicted(p)
<1>1. /\ DOMAIN partitions = Models /\ req \in [Requests -> Progress]
      /\ \A m \in Models : Partition(partitions[m], m)
      /\ partitions = [m \in Models |-> partitions[m]]
  BY DEF SemanticInv
<1>2. q.model \in Models
  BY QueriesAssumption
<1>3. Partition(p, q.model) /\ p \in Seq(Kept) /\ Ordered(p) /\ Len(p) \in Nat
  BY <1>1, <1>2, PartitionIsSeq
<1> HIDE DEF p
<1>4. /\ e \in Seq(Kept) /\ Len(e) <= Len(p) /\ Ordered(e)
      /\ \A i \in 1 .. Len(e) : e[i].left >= 0 /\ \E j \in 1 .. Len(p) : e[i] = p[j]
  BY <1>3, Evicts
<1>5. /\ partitions' = [partitions EXCEPT ![q.model] = e]
      /\ \/ \E i \in Semantic!Nearest(e, q) :
               req' = [req EXCEPT ![r] = [pc |-> "hit", query |-> q, answer |-> e[i].answer]]
         \/ req' = [req EXCEPT ![r] = [pc |-> "calling", query |-> q]]
  BY DEF Semantic!Lookup, p
<1> HIDE DEF e
<1>6. Len(e) \in Nat /\ DOMAIN e = 1 .. Len(e) /\ \A i \in 1 .. Len(e) : e[i] \in Kept
  BY <1>4, ElementOfSeq
<1>7. \A i \in 1 .. Len(e) : e[i].answer.model = q.model /\ e[i].answer \in Queries
  BY <1>3, <1>4, <1>6 DEF Partition, Kept
<1>8. Partition(e, q.model)
  <2>1. Len(e) <= MaxEntries
    BY <1>3, <1>4, <1>6, NumbersAssumption DEF Partition
  <2> QED
    BY <1>4, <1>7, <2>1 DEF Partition
<1>9. \A m \in Models : partitions'[m] = IF m = q.model THEN e ELSE partitions[m]
  BY <1>1, <1>2, <1>5
<1>10. DOMAIN partitions' = Models /\ partitions' = [m \in Models |-> partitions'[m]]
  BY <1>1, <1>2, <1>5
<1>11. \A m \in Models : Partition(partitions'[m], m)
  BY <1>1, <1>8, <1>9
<1>12. \A m \in Models : Some(partitions'[m], partitions[m])
  <2>1. Some(e, partitions[q.model])
    BY <1>4 DEF Some, p
  <2>2. \A m \in Models : Some(partitions[m], partitions[m])
    BY DEF Some
  <2> QED
    BY <1>9, <2>1, <2>2
<1>13. ASSUME NEW i \in Semantic!Nearest(e, q),
              req' = [req EXCEPT ![r] = [pc |-> "hit", query |-> q, answer |-> e[i].answer]]
       PROVE  /\ req' \in [Requests -> Progress]
              /\ \E j \in 1 .. Len(partitions[q.model]) :
                    LET f == partitions[q.model][j]
                    IN  /\ f.left >= 0
                        /\ Semantic!Similar(f.answer, q)
                        /\ req' = [req EXCEPT ![r] = [pc |-> "hit", query |-> q, answer |-> f.answer]]
  <2>1. i \in 1 .. Len(e) /\ Similarity[q.messages.said][e[i].answer.messages.said] >= Threshold
    BY <1>6, <1>13 DEF Semantic!Nearest, Semantic!Nearness
  <2>2. Semantic!Similar(e[i].answer, q) /\ e[i].left >= 0 /\ e[i].answer \in Queries
    BY <1>4, <1>7, <2>1 DEF Semantic!Similar
  <2>3. PICK j \in 1 .. Len(p) : e[i] = p[j]
    BY <1>4, <2>1
  <2>4. req' \in [Requests -> Progress]
    BY <1>1, <1>13, <2>2, Stands
  <2> QED
    BY <1>13, <2>2, <2>3, <2>4 DEF p
<1>14. ASSUME req' = [req EXCEPT ![r] = [pc |-> "calling", query |-> q]]
       PROVE  req' \in [Requests -> Progress]
  BY <1>1, <1>14, Stands
<1>15. req' \in [Requests -> Progress]
  BY <1>5, <1>13, <1>14
<1>16. SemanticInv'
  BY <1>10, <1>11, <1>15, SemanticInvAfter
<1> QED
  BY <1>5, <1>12, <1>13, <1>16

\* An answer is stored at the end of its model's partition; if one is too
\* many, the oldest goes.
LEMMA SemanticStore ==
    ASSUME SemanticInv, NEW r \in Requests, Semantic!Store(r)
    PROVE  /\ SemanticInv'
           /\ req[r].query \in Queries
           /\ \A m \in Models : \A i \in 1 .. Len(partitions'[m]) :
                 \/ partitions'[m][i] = [answer |-> req[r].query, left |-> Ttl]
                 \/ \E j \in 1 .. Len(partitions[m]) : partitions'[m][i] = partitions[m][j]
           /\ req' = [req EXCEPT ![r] = Idle]
<1> DEFINE q == req[r].query
           x == [answer |-> q, left |-> Ttl]
           p == partitions[q.model]
           a == Append(p, x)
           t == Semantic!Trimmed(a)
<1>1. /\ DOMAIN partitions = Models /\ req \in [Requests -> Progress]
      /\ \A m \in Models : Partition(partitions[m], m)
      /\ partitions = [m \in Models |-> partitions[m]]
  BY DEF SemanticInv
<1>2. q \in Queries /\ q.model \in Models
  <2>1. req[r] \in Progress /\ req[r].pc = "calling"
    BY <1>1 DEF Semantic!Store, Semantic!Calling
  <2>2. q \in Queries
    BY <2>1, Stands
  <2> QED
    BY <2>2, QueriesAssumption
<1>3. partitions' = [partitions EXCEPT ![q.model] = t] /\ req' = [req EXCEPT ![r] = Idle]
  BY Stands DEF Semantic!Store
<1> HIDE DEF q
<1>4. x \in Kept /\ x.left = Ttl /\ x.answer = q
  BY <1>2, NumbersAssumption DEF Kept
<1> HIDE DEF x
<1>5. Partition(p, q.model) /\ p \in Seq(Kept) /\ Ordered(p) /\ Len(p) \in Nat
  BY <1>1, <1>2, PartitionIsSeq
<1> HIDE DEF p
<1>6. /\ a \in Seq(Kept) /\ Len(a) = Len(p) + 1 /\ a[Len(p) + 1] = x
      /\ \A i \in 1 .. Len(p) : a[i] = p[i]
  BY <1>4, <1>5, AppendProperties
<1> HIDE DEF a
<1>7. ASSUME NEW i \in 1 .. Len(a)
      PROVE  /\ i = Len(a) \/ i \in 1 .. Len(p)
             /\ a[i] = x \/ \E j \in 1 .. Len(p) : a[i] = p[j]
             /\ a[i].answer.model = q.model
  <2>1. i = Len(a) \/ i \in 1 .. Len(p)
    BY <1>5, <1>6
  <2> QED
    BY <1>4, <1>5, <1>6, <2>1 DEF Partition
<1>8. Ordered(a)
  <2> SUFFICES ASSUME NEW i \in 1 .. Len(a), NEW j \in 1 .. Len(a), i < j
               PROVE  a[i].left <= a[j].left
    BY DEF Ordered
  <2>1. i \in 1 .. Len(p) /\ a[i] = p[i] /\ p[i] \in Kept
    <3>1. i \in 1 .. Len(p)
      BY <1>5, <1>6
    <3> QED
      BY <1>5, <1>6, <3>1, ElementOfSeq
  <2>2. CASE j = Len(a)
    BY <1>4, <1>6, <2>1, <2>2, NumbersAssumption DEF Kept
  <2>3. CASE j \in 1 .. Len(p)
    BY <1>5, <1>6, <2>1, <2>3 DEF Ordered
  <2> QED
    BY <1>7, <2>2, <2>3
<1>9. /\ Partition(t, q.model)
      /\ \A i \in 1 .. Len(t) : t[i] = x \/ \E j \in 1 .. Len(p) : t[i] = p[j]
  <2>1. CASE Len(a) > MaxEntries
    <3>1. t = Tail(a) /\ a # <<>> /\ Len(a) - 1 <= MaxEntries
      <4>1. Len(a) - 1 <= MaxEntries /\ Len(a) # 0
        BY <1>5, <1>6, NumbersAssumption DEF Partition
      <4> QED
        BY <2>1, <4>1 DEF Semantic!Trimmed
    <3>2. /\ t \in Seq(Kept) /\ Len(t) = Len(a) - 1
          /\ \A i \in 1 .. Len(a) - 1 : t[i] = a[i + 1]
      BY <1>6, <3>1, HeadTailProperties
    <3> HIDE DEF t
    <3>3. \A i \in 1 .. Len(t) : i + 1 \in 1 .. Len(a) /\ t[i] = a[i + 1]
      BY <1>5, <1>6, <3>2
    <3>4. Ordered(t)
      <4> SUFFICES ASSUME NEW i \in 1 .. Len(t), NEW j \in 1 .. Len(t), i < j
                   PROVE  t[i].left <= t[j].left
        BY DEF Ordered
      <4>1. i + 1 < j + 1
        OBVIOUS
      <4> QED
        BY <1>8, <3>3, <4>1 DEF Ordered
    <3>5. \A i \in 1 .. Len(t) : t[i].answer.model = q.model
      BY <1>7, <3>3
    <3>6. \A i \in 1 .. Len(t) : t[i] = x \/ \E j \in 1 .. Len(p) : t[i] = p[j]
      BY <1>7, <3>3
    <3>7. Len(t) <= MaxEntries
      BY <3>1, <3>2
    <3> QED
      BY <3>2, <3>4, <3>5, <3>6, <3>7 DEF Partition
  <2>2. CASE ~(Len(a) > MaxEntries)
    <3>1. t = a
      BY <2>2 DEF Semantic!Trimmed
    <3> HIDE DEF t
    <3>2. Len(a) <= MaxEntries
      BY <1>5, <1>6, <2>2, NumbersAssumption
    <3> QED
      BY <1>6, <1>7, <1>8, <3>1, <3>2 DEF Partition
  <2> QED
    BY <2>1, <2>2
<1> HIDE DEF t
<1>10. \A m \in Models : partitions'[m] = IF m = q.model THEN t ELSE partitions[m]
  BY <1>1, <1>2, <1>3
<1>11. DOMAIN partitions' = Models /\ partitions' = [m \in Models |-> partitions'[m]]
  BY <1>1, <1>2, <1>3
<1>12. \A m \in Models : Partition(partitions'[m], m)
  BY <1>1, <1>9, <1>10
<1>13. req' \in [Requests -> Progress]
  BY <1>1, <1>3, Stands
<1>14. SemanticInv'
  BY <1>11, <1>12, <1>13, SemanticInvAfter
<1>15. ASSUME NEW m \in Models, NEW i \in 1 .. Len(partitions'[m])
       PROVE  \/ partitions'[m][i] = x
              \/ \E j \in 1 .. Len(partitions[m]) : partitions'[m][i] = partitions[m][j]
  <2>1. CASE m = q.model
    BY <1>9, <1>10, <2>1 DEF p
  <2>2. CASE m # q.model
    BY <1>10, <2>2
  <2> QED
    BY <2>1, <2>2
<1> QED
  BY <1>2, <1>3, <1>14, <1>15 DEF q, x

\* Time takes nothing out, and no entry lives longer for it.
LEMMA SemanticTick ==
    ASSUME SemanticInv, Semantic!Tick
    PROVE  /\ SemanticInv'
           /\ \A m \in Models :
                 /\ Len(partitions'[m]) = Len(partitions[m])
                 /\ \A i \in 1 .. Len(partitions[m]) :
                       LET e == partitions[m][i]
                       IN  partitions'[m][i] = IF e.left < 0 THEN e ELSE [e EXCEPT !.left = @ - 1]
           /\ req' = req
<1>1. /\ DOMAIN partitions = Models /\ req \in [Requests -> Progress]
      /\ \A m \in Models : Partition(partitions[m], m)
  BY DEF SemanticInv
<1>2. /\ partitions' = [m \in Models |-> [i \in DOMAIN partitions[m] |-> Semantic!Older(partitions[m][i])]]
      /\ req' = req
  BY DEF Semantic!Tick
<1>3. ASSUME NEW m \in Models
      PROVE  /\ Partition(partitions'[m], m)
             /\ Len(partitions'[m]) = Len(partitions[m])
             /\ \A i \in 1 .. Len(partitions[m]) : partitions'[m][i] = Semantic!Older(partitions[m][i])
  <2> DEFINE p == partitions[m]
             o == partitions'[m]
  <2>1. Partition(p, m) /\ p \in Seq(Kept) /\ Ordered(p) /\ Len(p) \in Nat /\ DOMAIN p = 1 .. Len(p)
    BY <1>1, PartitionIsSeq
  <2>2. o = [i \in 1 .. Len(p) |-> Semantic!Older(p[i])]
    BY <1>2, <2>1
  <2> HIDE DEF o, p
  <2>3. ASSUME NEW i \in 1 .. Len(p)
        PROVE  /\ o[i] = Semantic!Older(p[i]) /\ o[i] \in Kept /\ o[i].answer = p[i].answer
               /\ p[i].left \in -1 .. Ttl
               /\ o[i].left = IF p[i].left < 0 THEN p[i].left ELSE p[i].left - 1
    <3>1. p[i] \in Kept
      BY <2>1, ElementOfSeq
    <3>2. o[i] = Semantic!Older(p[i])
      BY <2>2
    <3> QED
      BY <3>1, <3>2, NumbersAssumption DEF Kept, Semantic!Older
  <2>4. o \in Seq(Kept) /\ Len(o) = Len(p)
    <3>1. o \in [1 .. Len(p) -> Kept]
      BY <2>2, <2>3
    <3> QED
      BY <2>1, <3>1
  <2>5. Ordered(o)
    <3> SUFFICES ASSUME NEW i \in 1 .. Len(p), NEW j \in 1 .. Len(p), i < j
                 PROVE  o[i].left <= o[j].left
      BY <2>4 DEF Ordered
    <3>1. p[i].left <= p[j].left
      BY <2>1 DEF Ordered
    <3> QED
      BY <2>3, <3>1, NumbersAssumption
  <2>6. Partition(o, m)
    BY <2>1, <2>3, <2>4, <2>5 DEF Partition
  <2> QED
    BY <2>3, <2>4, <2>6 DEF o, p
<1>4. DOMAIN partitions' = Models /\ partitions' = [m \in Models |-> partitions'[m]]
  BY <1>2
<1>5. SemanticInv'
  BY <1>1, <1>2, <1>3, <1>4, SemanticInvAfter
<1> QED
  BY <1>2, <1>3, <1>5 DEF Semantic!Older

\* A request whose providers fail.
LEMMA SemanticFail ==
    ASSUME SemanticInv, NEW r \in Requests, Semantic!Fail(r)
    PROVE  SemanticInv' /\ partitions' = partitions /\ req' = [req EXCEPT ![r] = Idle]
<1>1. partitions' = partitions /\ req' = [req EXCEPT ![r] = Idle]
  BY Stands DEF Semantic!Fail
<1> QED
  BY <1>1, Stands DEF SemanticInv

\* The semantic cache starts so.
LEMMA SemanticInit == Semantic!Init => SemanticInv
<1> SUFFICES ASSUME Semantic!Init PROVE SemanticInv
  OBVIOUS
<1>1. partitions = [m \in Models |-> <<>>] /\ req = [r \in Requests |-> Idle]
  BY Stands DEF Semantic!Init
<1>2. \A m : Partition(<<>>, m)
  BY NumbersAssumption DEF Partition, Ordered
<1> QED
  BY <1>1, <1>2, Stands DEF SemanticInv

\* The bounds that follow from the invariant.
LEMMA SemanticHolds ==
    ASSUME SemanticInv
    PROVE  Semantic!TypeOK
<1>1. \A m \in Models : partitions[m] \in Seq(Kept) /\ DOMAIN partitions[m] = 1 .. Len(partitions[m])
  BY PartitionIsSeq DEF SemanticInv
<1>2. partitions \in [Models -> Seq(Kept)]
  BY <1>1 DEF SemanticInv
<1>3. \A m \in Models :
          /\ Len(partitions[m]) <= MaxEntries
          /\ \A i \in DOMAIN partitions[m] : partitions[m][i].answer.model = m
          /\ \A i, j \in DOMAIN partitions[m] :
                i < j => partitions[m][i].left <= partitions[m][j].left
  <2> TAKE m \in Models
  <2>1. Partition(partitions[m], m) /\ DOMAIN partitions[m] = 1 .. Len(partitions[m])
    BY <1>1 DEF SemanticInv
  <2> QED
    BY <2>1 DEF Partition, Ordered
<1>4. req \in [Requests -> Progress]
  BY DEF SemanticInv
<1> QED
  BY <1>2, <1>3, <1>4, Stands DEF Semantic!TypeOK, Kept

-----------------------------------------------------------------------------
(* The invariant of the cache that is chosen                                *)

IInv ==
    /\ mode \in {"exact", "semantic"}
    /\ ExactInv
    /\ SemanticInv

\* Whichever cache takes the step, the invariant holds again.
LEMMA Steps ==
    ASSUME IInv, [Next]_vars
    PROVE  IInv'
<1>1. CASE mode = "exact" /\ Exact!Next /\ UNCHANGED <<mode, partitions>>
  <2>1. ExactInv'
    BY <1>1, ExactHit, ExactMiss, ExactStore, ExactFail, ExactTick DEF IInv, Exact!Next
  <2>2. req' \in [Requests -> Progress]
    BY <2>1 DEF ExactInv
  <2>3. partitions' = partitions /\ mode' = mode
    BY <1>1
  <2>4. SemanticInv'
    BY <2>2, <2>3 DEF IInv, SemanticInv
  <2> QED
    BY <2>1, <2>3, <2>4 DEF IInv
<1>2. CASE mode = "semantic" /\ Semantic!Next /\ UNCHANGED <<mode, data, since>>
  <2>1. SemanticInv'
    BY <1>2, SemanticLookup, SemanticStore, SemanticFail, SemanticTick DEF IInv, Semantic!Next
  <2>2. req' \in [Requests -> Progress]
    BY <2>1 DEF SemanticInv
  <2>3. data' = data /\ since' = since /\ mode' = mode
    BY <1>2
  <2>4. ExactInv'
    BY <2>2, <2>3 DEF IInv, ExactInv
  <2> QED
    BY <2>1, <2>3, <2>4 DEF IInv
<1>3. CASE UNCHANGED vars
  BY <1>3 DEF vars, IInv, ExactInv, SemanticInv
<1> QED
  BY <1>1, <1>2, <1>3 DEF Next

\* In every reachable state the dictionary and the partitions are well-formed
\* and nothing that was used recently is missing (get, set, get_semantic,
\* set_semantic, _evict_expired).
THEOREM CacheInvariant == Spec => []IInv
<1>1. Init => IInv
  BY ExactInit, SemanticInit DEF Init, IInv
<1>2. IInv /\ [Next]_vars => IInv'
  BY Steps
<1> QED
  BY <1>1, <1>2, PTL DEF Spec

\* The dictionary and the partitions hold at most semantic_cache_max_entries
\* entries, a key once, and the answers of a partition are to queries for its
\* model, in the order of their expiry.
THEOREM CacheTypeOK == Spec => []TypeOK
<1>1. IInv => TypeOK
  BY ExactHolds, SemanticHolds DEF IInv, TypeOK
<1> QED
  BY <1>1, CacheInvariant, PTL

\* A key that fewer than semantic_cache_max_entries others were used since is
\* still in the exact cache, unless it has expired, whatever requests have
\* waited and stored in between (popitem(last=False) after move_to_end).
THEOREM CacheIsLRU == Spec => []RecentlyUsedStay
<1>1. IInv => RecentlyUsedStay
  BY ExactHolds DEF IInv, RecentlyUsedStay
<1> QED
  BY <1>1, CacheInvariant, PTL

-----------------------------------------------------------------------------
(* The abstract cache                                                       *)

\* What the exact cache can give, by the places in the dictionary.
LEMMA ExactFresh ==
    ASSUME NEW d \in Seq(Entry)
    PROVE  \A k : k \in {[answer |-> e.answer, left |-> e.left] :
                            e \in {e \in Exact!ToSet(d) : ~Exact!Expired(e)}}
                  <=> \E i \in 1 .. Len(d) :
                         ~(d[i].left < 0) /\ k = [answer |-> d[i].answer, left |-> d[i].left]
BY Elements DEF Exact!Expired

\* What the semantic cache can give, by the places in the partitions.
LEMMA SemanticFresh ==
    ASSUME NEW ps, \A m \in Models : ps[m] \in Seq(Kept)
    PROVE  \A e : e \in {x \in UNION {Semantic!ToSet(ps[m]) : m \in Models} : x.left >= 0}
                  <=> e.left >= 0 /\ \E m \in Models : \E i \in 1 .. Len(ps[m]) : e = ps[m][i]
<1>1. \A m \in Models : \A e : e \in Semantic!ToSet(ps[m]) <=> \E i \in 1 .. Len(ps[m]) : e = ps[m][i]
  BY Elements
<1> DEFINE U == UNION {Semantic!ToSet(ps[m]) : m \in Models}
<1>2. \A e : e \in U <=> \E m \in Models : e \in Semantic!ToSet(ps[m])
  OBVIOUS
<1> HIDE DEF U
<1>3. \A e : e \in U <=> \E m \in Models : \E i \in 1 .. Len(ps[m]) : e = ps[m][i]
  <2> TAKE e
  <2>1. \A m \in Models : e \in Semantic!ToSet(ps[m]) <=> \E i \in 1 .. Len(ps[m]) : e = ps[m][i]
    BY <1>1
  <2>2. e \in U <=> \E m \in Models : e \in Semantic!ToSet(ps[m])
    BY <1>2
  <2> QED
    BY ONLY <2>1, <2>2
<1>4. \A e : e \in {x \in U : x.left >= 0} <=> e \in U /\ e.left >= 0
  BY Zenon
<1>5. \A e : e \in {x \in U : x.left >= 0}
             <=> e.left >= 0 /\ \E m \in Models : \E i \in 1 .. Len(ps[m]) : e = ps[m][i]
  BY <1>3, <1>4, Zenon
<1> QED
  BY <1>5 DEF U

\* Both, now and after the step.
LEMMA FreshNow ==
    ASSUME ExactInv, SemanticInv
    PROVE  /\ \A k : k \in Exact!Fresh <=>
                 \E i \in 1 .. Len(data) :
                    ~(data[i].left < 0) /\ k = [answer |-> data[i].answer, left |-> data[i].left]
           /\ \A e : e \in Semantic!Fresh <=>
                 e.left >= 0 /\ \E m \in Models : \E i \in 1 .. Len(partitions[m]) : e = partitions[m][i]
<1>1. data \in Seq(Entry) /\ \A m \in Models : partitions[m] \in Seq(Kept)
  BY DEF ExactInv, SemanticInv, Dictionary, Partition
<1>2. \A k : k \in Exact!Fresh <=>
                 \E i \in 1 .. Len(data) :
                    ~(data[i].left < 0) /\ k = [answer |-> data[i].answer, left |-> data[i].left]
  BY <1>1, ExactFresh DEF Exact!Fresh
<1>3. \A e : e \in Semantic!Fresh <=>
                 e.left >= 0 /\ \E m \in Models : \E i \in 1 .. Len(partitions[m]) : e = partitions[m][i]
  BY <1>1, SemanticFresh DEF Semantic!Fresh
<1> QED
  BY <1>2, <1>3

\* The same of the next state.
LEMMA FreshNext ==
    ASSUME ExactInv', SemanticInv'
    PROVE  /\ \A k : k \in Exact!Fresh' <=>
                 \E i \in 1 .. Len(data') :
                    ~(data'[i].left < 0) /\ k = [answer |-> data'[i].answer, left |-> data'[i].left]
           /\ \A e : e \in Semantic!Fresh' <=>
                 e.left >= 0 /\ \E m \in Models : \E i \in 1 .. Len(partitions'[m]) : e = partitions'[m][i]
<1>1. data' \in Seq(Entry) /\ \A m \in Models : partitions'[m] \in Seq(Kept)
  BY DEF ExactInv, SemanticInv, Dictionary, Partition
<1>2. \A k : k \in Exact!Fresh' <=>
                 \E i \in 1 .. Len(data') :
                    ~(data'[i].left < 0) /\ k = [answer |-> data'[i].answer, left |-> data'[i].left]
  BY <1>1, ExactFresh DEF Exact!Fresh, Exact!Expired
<1>3. \A e : e \in Semantic!Fresh' <=>
                 e.left >= 0 /\ \E m \in Models : \E i \in 1 .. Len(partitions'[m]) : e = partitions'[m][i]
  BY <1>1, SemanticFresh DEF Semantic!Fresh
<1> QED
  BY <1>2, <1>3

\* What the requests were given, after one of them got no answer.
LEMMA HitsChange ==
    ASSUME NEW m, mode' = mode, mode = m, req \in [Requests -> Progress], NEW r \in Requests,
           NEW x, x.pc # "hit", req' = [req EXCEPT ![r] = x]
    PROVE  Hits(m)' = [Hits(m) EXCEPT ![r] = <<>>]
BY DEF Hits

\* The cache that is not in use gives nothing and stays as it is.
LEMMA NotInUse ==
    ASSUME NEW m, mode' = mode, mode # m
    PROVE  Hits(m)' = Hits(m)
BY DEF Hits

\* Queries with the same key agree in model, roles and contents, and sampling.
LEMMA SameKey ==
    ASSUME NEW a, NEW q, Exact!Key(a) = Exact!Key(q)
    PROVE  Exact!AsksTheSame(a, q)
BY DEF Exact!Key, Exact!AsksTheSame

\* Every step of the exact cache is one that the abstract cache allows.
LEMMA ExactSteps ==
    ASSUME IInv, IInv', mode = "exact", mode' = mode, Exact!Next
    PROVE  ExactAnswers!Next
<1> DEFINE F == Exact!Fresh
           G == Exact!Fresh'
           H == Hits("exact")
<1>1. ExactInv /\ ExactInv' /\ req \in [Requests -> Progress] /\ DOMAIN H = Requests
  BY DEF IInv, ExactInv, Hits
<1>2. /\ \A k : k \in F <=>
            \E i \in 1 .. Len(data) :
               ~(data[i].left < 0) /\ k = [answer |-> data[i].answer, left |-> data[i].left]
      /\ \A k : k \in G <=>
            \E i \in 1 .. Len(data') :
               ~(data'[i].left < 0) /\ k = [answer |-> data'[i].answer, left |-> data'[i].left]
  BY FreshNow, FreshNext DEF IInv
<1> HIDE DEF F, G
<1>3. ASSUME \A i \in 1 .. Len(data') : \E j \in 1 .. Len(data) : data'[i] = data[j]
      PROVE  G \subseteq F
  <2>1. ASSUME NEW k \in G PROVE k \in F
    <3>1. PICK i \in 1 .. Len(data') :
              ~(data'[i].left < 0) /\ k = [answer |-> data'[i].answer, left |-> data'[i].left]
      BY <1>2
    <3>2. PICK j \in 1 .. Len(data) : data'[i] = data[j]
      BY <1>3
    <3> QED
      BY <1>2, <3>1, <3>2
  <2> QED
    BY <2>1
<1>4. ASSUME NEW r \in Requests, NEW q \in Queries, Exact!Hit(r, q) PROVE ExactAnswers!Give(r, q)
  <2>1. PICK j \in 1 .. Len(data) :
            /\ ~(data[j].left < 0)
            /\ Exact!Key(data[j].answer) = Exact!Key(q)
            /\ req' = [req EXCEPT ![r] = [pc |-> "hit", query |-> q, answer |-> data[j].answer]]
    BY <1>1, <1>4, ExactHit
  <2> DEFINE k == [answer |-> data[j].answer, left |-> data[j].left]
  <2>2. k \in F
    BY <1>2, <2>1
  <2>3. Exact!AsksTheSame(k.answer, q)
    BY <2>1, SameKey
  <2>4. H' = [H EXCEPT ![r] = <<q, k.answer>>]
    <3> DEFINE a == data[j].answer
    <3>1. k.answer = a
      OBVIOUS
    <3>2. req' = [req EXCEPT ![r] = [pc |-> "hit", query |-> q, answer |-> a]]
      BY <2>1
    <3> HIDE DEF a, k
    <3>3. Hits("exact")' = [Hits("exact") EXCEPT ![r] = <<q, a>>]
      BY <1>1, <3>2 DEF Hits
    <3> QED
      BY <3>1, <3>3 DEF H
  <2>5. G \subseteq F
    BY <1>1, <1>3, <1>4, ExactHit
  <2> HIDE DEF k
  <2> QED
    BY <2>2, <2>3, <2>4, <2>5 DEF ExactAnswers!Give, ExactAnswers!Forget, F, G, H
<1>5. ASSUME NEW r \in Requests, NEW q \in Queries, Exact!Miss(r, q) PROVE ExactAnswers!Pass(r)
  <2>1. G \subseteq F /\ req' = [req EXCEPT ![r] = [pc |-> "calling", query |-> q]]
    BY <1>1, <1>3, <1>5, ExactMiss
  <2>2. H' = [H EXCEPT ![r] = <<>>]
    <3> DEFINE x == [pc |-> "calling", query |-> q]
    <3>1. x.pc # "hit" /\ req' = [req EXCEPT ![r] = x]
      BY <2>1
    <3> HIDE DEF x
    <3> QED
      BY <1>1, <3>1, HitsChange
  <2> QED
    BY <2>1, <2>2 DEF ExactAnswers!Pass, ExactAnswers!Forget, F, G, H
<1>6. ASSUME NEW r \in Requests, Exact!Store(r)
      PROVE  req[r].query \in Queries /\ ExactAnswers!Keep(r, req[r].query)
  <2> DEFINE q == req[r].query
             n == [answer |-> q, left |-> Ttl]
  <2>1. /\ q \in Queries
        /\ \A i \in 1 .. Len(data') :
              \/ data'[i].answer = q /\ data'[i].left = Ttl
              \/ \E j \in 1 .. Len(data) : data'[i] = data[j]
        /\ req' = [req EXCEPT ![r] = Idle]
    BY <1>1, <1>6, ExactStore
  <2>2. ASSUME NEW k \in G PROVE k \in F \cup {n}
    <3>1. PICK i \in 1 .. Len(data') :
              ~(data'[i].left < 0) /\ k = [answer |-> data'[i].answer, left |-> data'[i].left]
      BY <1>2
    <3>2. CASE data'[i].answer = q /\ data'[i].left = Ttl
      BY <3>1, <3>2
    <3>3. CASE \E j \in 1 .. Len(data) : data'[i] = data[j]
      BY <1>2, <3>1, <3>3
    <3> QED
      BY <2>1, <3>2, <3>3
  <2>3. H' = [H EXCEPT ![r] = <<>>]
    BY <1>1, <2>1, HitsChange, Stands
  <2> QED
    BY <2>1, <2>2, <2>3 DEF ExactAnswers!Keep, F, G, H
<1>7. ASSUME NEW r \in Requests, Exact!Fail(r) PROVE ExactAnswers!Pass(r)
  <2>1. data' = data /\ req' = [req EXCEPT ![r] = Idle]
    BY <1>1, <1>7, ExactFail
  <2>2. G \subseteq F
    BY <1>3, <2>1
  <2>3. H' = [H EXCEPT ![r] = <<>>]
    BY <1>1, <2>1, HitsChange, Stands
  <2> QED
    BY <2>2, <2>3 DEF ExactAnswers!Pass, ExactAnswers!Forget, F, G, H
<1>8. ASSUME Exact!Tick PROVE ExactAnswers!Age
  <2>1. /\ Len(data') = Len(data) /\ req' = req
        /\ \A i \in 1 .. Len(data) :
              /\ data'[i].answer = data[i].answer
              /\ data'[i].left = IF data[i].left < 0 THEN data[i].left ELSE data[i].left - 1
    BY <1>1, <1>8, ExactTick
  <2>2. \A i \in 1 .. Len(data) : data[i].left \in Int
    <3>1. \A i \in 1 .. Len(data) : data[i] \in Entry
      BY <1>1, DictionaryIsSeq, ElementOfSeq DEF ExactInv
    <3> QED
      BY <3>1, NumbersAssumption DEF Entry
  <2>3. ASSUME NEW k \in G
        PROVE  \E e \in {e \in F : e.left > 0} : k = [e EXCEPT !.left = @ - 1]
    <3>1. PICK i \in 1 .. Len(data) :
              ~(data'[i].left < 0) /\ k = [answer |-> data'[i].answer, left |-> data'[i].left]
      BY <1>2, <2>1
    <3> DEFINE e == [answer |-> data[i].answer, left |-> data[i].left]
    <3>2. data[i].left > 0 /\ data'[i].left = data[i].left - 1 /\ data'[i].answer = data[i].answer
      BY <2>1, <2>2, <3>1
    <3>3. e \in F /\ e.left > 0
      BY <1>2, <2>2, <3>2
    <3>4. k = [e EXCEPT !.left = @ - 1]
      BY <3>1, <3>2
    <3> HIDE DEF e
    <3> QED
      BY <3>3, <3>4
  <2>4. G \subseteq {[e EXCEPT !.left = @ - 1] : e \in {e \in F : e.left > 0}}
    BY <2>3
  <2>5. H' = H
    BY <2>1 DEF Hits
  <2> QED
    BY <2>4, <2>5 DEF ExactAnswers!Age, F, G, H
<1> QED
  BY <1>1, <1>4, <1>5, <1>6, <1>7, <1>8 DEF Exact!Next, ExactAnswers!Next, H

\* Every step of the semantic cache is one that the abstract cache allows.
LEMMA SemanticSteps ==
    ASSUME IInv, IInv', mode = "semantic", mode' = mode, Semantic!Next
    PROVE  SemanticAnswers!Next
<1> DEFINE F == Semantic!Fresh
           G == Semantic!Fresh'
           H == Hits("semantic")
<1>1. SemanticInv /\ SemanticInv' /\ req \in [Requests -> Progress] /\ DOMAIN H = Requests
  BY DEF IInv, SemanticInv, Hits
<1>2. /\ \A e : e \in F <=>
            e.left >= 0 /\ \E m \in Models : \E i \in 1 .. Len(partitions[m]) : e = partitions[m][i]
      /\ \A e : e \in G <=>
            e.left >= 0 /\ \E m \in Models : \E i \in 1 .. Len(partitions'[m]) : e = partitions'[m][i]
  BY FreshNow, FreshNext DEF IInv
<1> HIDE DEF F, G
<1>3. ASSUME \A m \in Models : Some(partitions'[m], partitions[m])
      PROVE  G \subseteq F
  BY <1>2, <1>3 DEF Some
<1>4. ASSUME NEW r \in Requests, NEW q \in Queries, Semantic!Lookup(r, q)
      PROVE  SemanticAnswers!Pass(r) \/ SemanticAnswers!Give(r, q)
  <2>1. G \subseteq F
    BY <1>1, <1>3, <1>4, SemanticLookup
  <2>2. CASE req' = [req EXCEPT ![r] = [pc |-> "calling", query |-> q]]
    <3> DEFINE x == [pc |-> "calling", query |-> q]
    <3>1. x.pc # "hit" /\ req' = [req EXCEPT ![r] = x]
      BY <2>2
    <3> HIDE DEF x
    <3>2. H' = [H EXCEPT ![r] = <<>>]
      BY <1>1, <3>1, HitsChange
    <3> QED
      BY <2>1, <3>2 DEF SemanticAnswers!Pass, SemanticAnswers!Forget, F, G, H
  <2>3. ASSUME NEW i \in 1 .. Len(partitions[q.model]), partitions[q.model][i].left >= 0,
               Semantic!Similar(partitions[q.model][i].answer, q),
               req' = [req EXCEPT ![r] = [pc |-> "hit", query |-> q,
                                          answer |-> partitions[q.model][i].answer]]
        PROVE  SemanticAnswers!Give(r, q)
    <3> DEFINE k == partitions[q.model][i]
    <3>1. k \in F
      BY <1>2, <2>3, QueriesAssumption
    <3>2. Semantic!Similar(k.answer, q)
      BY <2>3
    <3>3. req' = [req EXCEPT ![r] = [pc |-> "hit", query |-> q, answer |-> k.answer]]
      BY <2>3
    <3> HIDE DEF k
    <3>4. Hits("semantic")' = [Hits("semantic") EXCEPT ![r] = <<q, k.answer>>]
      BY <1>1, <3>3 DEF Hits
    <3> QED
      BY <2>1, <3>1, <3>2, <3>4 DEF SemanticAnswers!Give, SemanticAnswers!Forget, F, G, H
  <2> QED
    BY <1>1, <1>4, <2>2, <2>3, SemanticLookup
<1>5. ASSUME NEW r \in Requests, Semantic!Store(r)
      PROVE  req[r].query \in Queries /\ SemanticAnswers!Keep(r, req[r].query)
  <2> DEFINE q == req[r].query
             n == [answer |-> q, left |-> Ttl]
  <2>1. /\ q \in Queries
        /\ \A m \in Models : \A i \in 1 .. Len(partitions'[m]) :
              \/ partitions'[m][i] = n
              \/ \E j \in 1 .. Len(partitions[m]) : partitions'[m][i] = partitions[m][j]
        /\ req' = [req EXCEPT ![r] = Idle]
    BY <1>1, <1>5, SemanticStore
  <2>2. ASSUME NEW k \in G PROVE k \in F \cup {n}
    <3> HIDE DEF n
    <3>1. PICK m \in Models : \E i \in 1 .. Len(partitions'[m]) : k = partitions'[m][i]
      BY <1>2
    <3>2. k = n \/ \E j \in 1 .. Len(partitions[m]) : k = partitions[m][j]
      BY <2>1, <3>1
    <3> QED
      BY <1>2, <3>2
  <2>3. H' = [H EXCEPT ![r] = <<>>]
    BY <1>1, <2>1, HitsChange, Stands
  <2> QED
    BY <2>1, <2>2, <2>3 DEF SemanticAnswers!Keep, F, G, H
<1>6. ASSUME NEW r \in Requests, Semantic!Fail(r) PROVE SemanticAnswers!Pass(r)
  <2>1. partitions' = partitions /\ req' = [req EXCEPT ![r] = Idle]
    BY <1>1, <1>6, SemanticFail
  <2>2. G \subseteq F
    BY <1>2, <2>1
  <2>3. H' = [H EXCEPT ![r] = <<>>]
    BY <1>1, <2>1, HitsChange, Stands
  <2> QED
    BY <2>2, <2>3 DEF SemanticAnswers!Pass, SemanticAnswers!Forget, F, G, H
<1>7. ASSUME Semantic!Tick PROVE SemanticAnswers!Age
  <2>1. /\ req' = req
        /\ \A m \in Models :
              /\ Len(partitions'[m]) = Len(partitions[m])
              /\ \A i \in 1 .. Len(partitions[m]) :
                    LET e == partitions[m][i]
                    IN  partitions'[m][i] = IF e.left < 0 THEN e ELSE [e EXCEPT !.left = @ - 1]
    BY <1>1, <1>7, SemanticTick
  <2>2. \A m \in Models : \A i \in 1 .. Len(partitions[m]) : partitions[m][i] \in Kept
    BY <1>1, PartitionIsSeq, ElementOfSeq DEF SemanticInv
  <2>3. ASSUME NEW k \in G
        PROVE  \E e \in {e \in F : e.left > 0} : k = [e EXCEPT !.left = @ - 1]
    <3>1. k.left >= 0
      BY <1>2
    <3>a. PICK m \in Models : \E i \in 1 .. Len(partitions[m]) : k = partitions'[m][i]
      BY <1>2, <2>1
    <3>2. PICK i \in 1 .. Len(partitions[m]) : k = partitions'[m][i]
      BY <3>a
    <3> DEFINE e == partitions[m][i]
    <3>3. e \in Kept /\ k = IF e.left < 0 THEN e ELSE [e EXCEPT !.left = @ - 1]
      BY <2>1, <2>2, <3>2
    <3>4. e.left >= 0 => e \in F
      BY <1>2
    <3> HIDE DEF e
    <3>5. e.left \in Int /\ ~(e.left < 0)
      BY <3>1, <3>3, NumbersAssumption DEF Kept
    <3>6. k = [e EXCEPT !.left = @ - 1]
      BY <3>3, <3>5
    <3>7. k.left = e.left - 1
      BY <3>3, <3>6 DEF Kept
    <3>8. e \in F /\ e.left > 0
      BY <3>1, <3>4, <3>5, <3>7
    <3> QED
      BY <3>6, <3>8
  <2>4. G \subseteq {[e EXCEPT !.left = @ - 1] : e \in {e \in F : e.left > 0}}
    BY <2>3
  <2>5. H' = H
    BY <2>1 DEF Hits
  <2> QED
    BY <2>4, <2>5 DEF SemanticAnswers!Age, F, G, H
<1> QED
  BY <1>1, <1>4, <1>5, <1>6, <1>7 DEF Semantic!Next, SemanticAnswers!Next, H

\* Neither cache has anything to give at the start.
LEMMA NothingKept ==
    ASSUME Init
    PROVE  ExactAnswers!Init /\ SemanticAnswers!Init
<1>1. ExactInv /\ SemanticInv
  BY ExactInit, SemanticInit DEF Init
<1>2. data = <<>> /\ partitions = [m \in Models |-> <<>>] /\ req = [r \in Requests |-> Idle]
  BY Stands DEF Init, Exact!Init, Semantic!Init
<1>3. Exact!Fresh = {} /\ Semantic!Fresh = {}
  BY <1>1, <1>2, FreshNow
<1>4. \A m : \A r \in DOMAIN Hits(m) : Hits(m)[r] = <<>>
  BY <1>2, Stands DEF Hits
<1> QED
  BY <1>3, <1>4 DEF ExactAnswers!Init, SemanticAnswers!Init

\* What either cache answers a request with is the answer to another request
\* for the same model, stored at most semantic_cache_ttl_seconds ago: to one
\* that agrees in the roles and contents of its messages and in its sampling
\* (cache_key, get, set), or to one that is similar enough (get_semantic,
\* set_semantic).
THEOREM CacheImplementsAnswerCache == Spec => ImplementsAnswerCache
<1>1. Init => ExactAnswers!Init /\ SemanticAnswers!Init
  BY NothingKept
<1>2. ASSUME IInv, IInv', [Next]_vars
      PROVE  [ExactAnswers!Next]_<<Exact!Fresh, Hits("exact")>>
  <2>1. CASE mode = "exact" /\ Exact!Next /\ UNCHANGED <<mode, partitions>>
    BY <1>2, <2>1, ExactSteps
  <2>2. CASE mode = "semantic" /\ Semantic!Next /\ UNCHANGED <<mode, data, since>>
    <3>1. Exact!Fresh' = Exact!Fresh
      BY <2>2 DEF Exact!Fresh, Exact!Expired
    <3>2. Hits("exact")' = Hits("exact")
      BY <2>2, NotInUse
    <3> QED
      BY <3>1, <3>2
  <2>3. CASE UNCHANGED vars
    BY <2>3 DEF vars, Exact!Fresh, Exact!Expired, Hits
  <2> QED
    BY <1>2, <2>1, <2>2, <2>3 DEF Next
<1>3. ASSUME IInv, IInv', [Next]_vars
      PROVE  [SemanticAnswers!Next]_<<Semantic!Fresh, Hits("semantic")>>
  <2>1. CASE mode = "semantic" /\ Semantic!Next /\ UNCHANGED <<mode, data, since>>
    BY <1>3, <2>1, SemanticSteps
  <2>2. CASE mode = "exact" /\ Exact!Next /\ UNCHANGED <<mode, partitions>>
    <3>1. Semantic!Fresh' = Semantic!Fresh
      BY <2>2 DEF Semantic!Fresh
    <3>2. Hits("semantic")' = Hits("semantic")
      BY <2>2, NotInUse
    <3> QED
      BY <3>1, <3>2
  <2>3. CASE UNCHANGED vars
    BY <2>3 DEF vars, Semantic!Fresh, Hits
  <2> QED
    BY <1>3, <2>1, <2>2, <2>3 DEF Next
<1>4. IInv /\ IInv' /\ [Next]_vars =>
         /\ [ExactAnswers!Next]_<<Exact!Fresh, Hits("exact")>>
         /\ [SemanticAnswers!Next]_<<Semantic!Fresh, Hits("semantic")>>
  BY <1>2, <1>3
<1> QED
  BY <1>1, <1>4, CacheInvariant, PTL DEF Spec, ImplementsAnswerCache, ExactAnswers!Spec, SemanticAnswers!Spec
=============================================================================
