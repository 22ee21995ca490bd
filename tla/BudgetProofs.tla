----------------------------- MODULE BudgetProofs -----------------------------
(* What holds of the monthly budget whatever the pods, the requests, the      *)
(* budget, the costs, the TTL and the number of months.                      *)
EXTENDS Budget, FoldLemmas

-----------------------------------------------------------------------------
(* What is known of one pod                                                 *)

Mine(p) == {r \in Requests : PodOf[r] = p}

\* An answer of the database that lets its request pass, however old it is.
Lets(q) == q.pc = "answered" /\ ~OverBudget(q.spent)

\* What one request, by its progress q, contributes: whether it is not about
\* to be let through by such an answer, what the answer says was spent, what
\* its completion may still cost, and what it has yet to add to the cache.
RestOf(q) == IF Lets(q) THEN 0 ELSE 1
ReadOf(q) == IF Lets(q) THEN q.spent ELSE 0
LoadOf(q) == IF q.pc \in {"in_flight", "inserting"} THEN MaxCost ELSE 0
OwedOf(q) == IF q.pc = "inserted" THEN q.cost ELSE 0

\* What its row may still add to a month that is over.
LateOf(q, m) == IF q.pc = "inserting" /\ q.since <= m THEN MaxCost ELSE 0

Rests(a) == [r \in Requests |-> RestOf(a[r])]
Reads(a) == [r \in Requests |-> ReadOf(a[r])]
Loads(a) == [r \in Requests |-> LoadOf(a[r])]
Oweds(a) == [r \in Requests |-> OwedOf(a[r])]
Lates(a, m) == [r \in Requests |-> LateOf(a[r], m)]

\* And what all requests of a pod do.
Rest(p) == SumFunctionOnSet(Rests(req), Mine(p))
Read(p) == SumFunctionOnSet(Reads(req), Mine(p))
Load(p) == SumFunctionOnSet(Loads(req), Mine(p))
Owed(p) == SumFunctionOnSet(Oweds(req), Mine(p))
Late(p, m) == SumFunctionOnSet(Lates(req, m), Mine(p))

\* A pod that has cached a cost has a request that is neither reading the
\* database nor done with that.
CacheHasReason(p) ==
    Cached(p) => \E r \in Mine(p) : req[r].pc \notin {"querying", "answered"}

\* Of what the current month has, x is one pod's.  Every request whose answer
\* lets it through may spend the budget anew, and with it all that are not
\* held up by such an answer.
Bounded(x, load, read, rest) ==
    /\ x + load <= read + PodBound(rest)
    /\ ~OverBudget(x) /\ rest = 0 => x <= read

\* And what a cache below the budget says, with what it is still owed, is not
\* much less than what was spent.
Backed(x, read, rest, owed, c) ==
    /\ ~OverBudget(c) => x + (Budget - 1) + MaxCost * rest <= c + owed + read + PodBound(rest)
    /\ ~OverBudget(x) /\ rest = 1 => x <= c + owed + read

Current(p, x) ==
    /\ Bounded(x, Load(p), Read(p), Rest(p))
    /\ Cached(p) => Backed(x, Read(p), Rest(p), Owed(p), cache[p].cost)

\* The same of a month that is over.
Past(p, m, x) == x + Late(p, m) <= PodBound(Cardinality(Mine(p)))

Share(p, m, x) ==
    /\ month = m => Current(p, x)
    /\ month > m => Past(p, m, x)
    /\ month < m => x = 0

\* The rows of every month are those of the pods.
RowsAreShared ==
    \A m \in Months :
        \E s \in [Pods -> Nat] :
            /\ SumFunctionOnSet(s, Pods) = rows[m]
            /\ \A p \in Pods : Share(p, m, s[p])

ReadsAreDated == \A r \in Requests : At(r, "querying") => req[r].since <= month

IInv ==
    /\ TypeOK
    /\ ReadsAreDated
    /\ \A p \in Pods : CacheHasReason(p)
    /\ RowsAreShared

-----------------------------------------------------------------------------
(* Arithmetic                                                               *)

\* The most that a completion may cost.
LEMMA MaxCostIs == MaxCost \in Costs /\ MaxCost \in Nat /\ \A c \in Costs : c \in Nat /\ c <= MaxCost
<1>1. \E c \in Costs : \A d \in Costs : d <= c
  BY CostsAssumption
<1>2. \A c \in Costs : c \in Nat
  BY CostsAssumption
<1>3. \E c \in Costs : \A d \in Costs : c >= d
  BY <1>1, <1>2
<1>4. MaxCost \in Costs /\ \A d \in Costs : MaxCost >= d
  BY <1>3 DEF MaxCost, Max
<1> QED
  BY <1>2, <1>4

\* The bound grows with the number of requests.
LEMMA BoundGrows ==
    /\ PodBound(0) = 0
    /\ \A n \in Nat :
          /\ PodBound(n) \in Nat
          /\ MaxCost * n \in Nat
          /\ PodBound(n + 1) = PodBound(n) + (Budget - 1) + MaxCost * n + MaxCost
          /\ MaxCost * (n + 1) = MaxCost * n + MaxCost
          /\ n >= 1 => (Budget - 1) + MaxCost * n <= PodBound(n)
          /\ n >= 2 => 2 * (Budget - 1) + MaxCost * n <= PodBound(n)
<1> DEFINE C == MaxCost
           B == Budget - 1
           K(n) == (n * (n + 1)) \div 2
<1>1. C \in Nat /\ B \in Nat
  BY MaxCostIs, BudgetAssumption
<1>2. \A n \in Nat : PodBound(n) = n * B + K(n) * C
  BY DEF PodBound
<1> HIDE DEF C, B
<1>3. ASSUME NEW n \in Nat PROVE K(n) \in Nat /\ K(n + 1) = K(n) + (n + 1) /\ (n >= 1 => K(n) >= n)
  <2>1. n * (n + 1) \in Nat /\ (n + 1) * ((n + 1) + 1) = n * (n + 1) + 2 * (n + 1)
    OBVIOUS
  <2>2. \A x, y \in Nat : x \div 2 \in Nat /\ (x + 2 * y) \div 2 = x \div 2 + y
    OBVIOUS
  <2>3. n >= 1 => n * (n + 1) >= 2 * n
    OBVIOUS
  <2>4. \A x, y \in Nat : x >= 2 * y => x \div 2 >= y
    OBVIOUS
  <2> QED
    BY <2>1, <2>2, <2>3, <2>4
<1>4. K(0) = 0
  OBVIOUS
<1> HIDE DEF K
<1>5. PodBound(0) = 0
  BY <1>1, <1>2, <1>4
<1>6. ASSUME NEW n \in Nat
      PROVE  /\ PodBound(n) \in Nat
             /\ C * n \in Nat
             /\ PodBound(n + 1) = PodBound(n) + B + C * n + C
             /\ C * (n + 1) = C * n + C
             /\ n >= 1 => B + C * n <= PodBound(n)
             /\ n >= 2 => 2 * B + C * n <= PodBound(n)
  <2>1. K(n) \in Nat /\ K(n + 1) = K(n) + (n + 1) /\ (n >= 1 => K(n) >= n)
    BY <1>3
  <2>2. PodBound(n) = n * B + K(n) * C /\ PodBound(n + 1) = (n + 1) * B + (K(n) + (n + 1)) * C
    BY <1>2, <2>1
  <2>3. n * B \in Nat /\ K(n) * C \in Nat /\ C * n \in Nat
    BY <1>1, <2>1
  <2>4. (n + 1) * B = n * B + B /\ (K(n) + (n + 1)) * C = K(n) * C + C * n + C /\ C * (n + 1) = C * n + C
    BY <1>1, <2>1
  <2>5. (n >= 1 => n * B >= B) /\ (n >= 2 => n * B >= 2 * B)
    BY <1>1
  <2>6. n >= 1 => K(n) * C >= C * n
    BY <1>1, <2>1
  <2>7. PodBound(n + 1) = PodBound(n) + B + C * n + C
    BY <1>1, <2>2, <2>3, <2>4
  <2>8. (n >= 1 => B + C * n <= PodBound(n)) /\ (n >= 2 => 2 * B + C * n <= PodBound(n))
    BY <1>1, <2>2, <2>3, <2>5, <2>6
  <2> QED
    BY <2>2, <2>3, <2>4, <2>7, <2>8
<1> QED
  BY <1>5, <1>6 DEF C, B

-----------------------------------------------------------------------------
(* What a request contributes                                               *)

Progress ==
    [pc : {"idle", "refused", "in_flight"}]
    \cup [pc : {"querying"}, since : Months]
    \cup [pc : {"answered"}, spent : Nat]
    \cup [pc : {"inserting"}, cost : Costs, since : Months]
    \cup [pc : {"inserted"}, cost : Costs]

\* What it may be, and how it compares.
LEMMA Weights ==
    ASSUME NEW q \in Progress
    PROVE  /\ RestOf(q) \in Nat /\ ReadOf(q) \in Nat /\ LoadOf(q) \in Nat /\ OwedOf(q) \in Nat
           /\ \A m : LateOf(q, m) \in Nat /\ LateOf(q, m) <= LoadOf(q)
           /\ (Budget - 1) * RestOf(q) + ReadOf(q) <= Budget - 1
           /\ LoadOf(q) + OwedOf(q) <= MaxCost * RestOf(q)
<1>1. /\ MaxCost \in Nat /\ Budget \in Nat /\ Budget >= 1
      /\ \A c \in Costs : c \in Nat /\ c <= MaxCost
  BY MaxCostIs, BudgetAssumption
<1>2. /\ q.pc \in {"idle", "refused", "in_flight", "querying", "answered", "inserting", "inserted"}
      /\ q.pc = "answered" => q.spent \in Nat
      /\ q.pc = "inserted" => q.cost \in Costs
  BY DEF Progress
<1>3. RestOf(q) \in {0, 1} /\ ReadOf(q) \in Nat /\ (RestOf(q) = 1 => ReadOf(q) = 0)
      /\ (RestOf(q) = 0 => ReadOf(q) <= Budget - 1)
  BY <1>1, <1>2 DEF RestOf, ReadOf, Lets, OverBudget
<1>4. LoadOf(q) \in Nat /\ OwedOf(q) \in Nat
  BY <1>1, <1>2 DEF LoadOf, OwedOf
<1>5. \A m : LateOf(q, m) \in Nat /\ LateOf(q, m) <= LoadOf(q)
  BY <1>1 DEF LateOf, LoadOf
<1>6. LoadOf(q) + OwedOf(q) <= MaxCost
  BY <1>1, <1>2 DEF LoadOf, OwedOf
<1>7. RestOf(q) = 0 => LoadOf(q) = 0 /\ OwedOf(q) = 0
  BY DEF RestOf, LoadOf, OwedOf, Lets
<1>8. (Budget - 1) * 0 = 0 /\ (Budget - 1) * 1 = Budget - 1 /\ MaxCost * 0 = 0 /\ MaxCost * 1 = MaxCost
  BY <1>1
<1> QED
  BY <1>1, <1>3, <1>4, <1>5, <1>6, <1>7, <1>8

\* The requests of a pod.
LEMMA MineIsFinite == \A p : IsFiniteSet(Mine(p)) /\ Mine(p) \subseteq Requests
BY PodsAssumption, FS_Subset DEF Mine

\* What they contribute together.
LEMMA Together ==
    ASSUME NEW a \in [Requests -> Progress], NEW p
    PROVE  LET rest == SumFunctionOnSet(Rests(a), Mine(p))
               read == SumFunctionOnSet(Reads(a), Mine(p))
               load == SumFunctionOnSet(Loads(a), Mine(p))
               owed == SumFunctionOnSet(Oweds(a), Mine(p))
               n    == Cardinality(Mine(p))
           IN  /\ n \in Nat /\ rest \in Nat /\ read \in Nat /\ load \in Nat /\ owed \in Nat
               /\ \A m : SumFunctionOnSet(Lates(a, m), Mine(p)) \in Nat
               /\ \A m : SumFunctionOnSet(Lates(a, m), Mine(p)) <= load
               /\ rest <= n
               /\ (Budget - 1) * rest + read <= (Budget - 1) * n
               /\ load + owed <= MaxCost * rest
<1> DEFINE S == Mine(p)
           one == [r \in S |-> 1]
           f == Rests(a)
           g == Reads(a)
           h == Loads(a)
           o == Oweds(a)
           l(m) == Lates(a, m)
<1>1. IsFiniteSet(S) /\ S \subseteq Requests
  BY MineIsFinite
<1>2. \A r \in S : a[r] \in Progress
  BY <1>1
<1>3. /\ \A r \in S : f[r] = RestOf(a[r]) /\ g[r] = ReadOf(a[r]) /\ h[r] = LoadOf(a[r]) /\ o[r] = OwedOf(a[r])
      /\ \A m : \A r \in S : l(m)[r] = LateOf(a[r], m)
      /\ \A r \in S : one[r] = 1
  BY <1>1 DEF Rests, Reads, Loads, Oweds, Lates
<1> HIDE DEF S, one, f, g, h, o, l
<1>4. Budget - 1 \in Nat /\ MaxCost \in Nat /\ 1 \in Nat
  BY BudgetAssumption, MaxCostIs
<1>5. /\ \A r \in S : f[r] \in Nat /\ g[r] \in Nat /\ h[r] \in Nat /\ o[r] \in Nat
      /\ \A m : \A r \in S : l(m)[r] \in Nat /\ l(m)[r] <= h[r]
      /\ \A r \in S : one[r] \in Nat
      /\ \A r \in S : (Budget - 1) * f[r] + g[r] <= (Budget - 1) * one[r]
      /\ \A r \in S : 1 * h[r] + o[r] <= MaxCost * f[r]
  <2> SUFFICES ASSUME NEW r \in S
               PROVE  /\ f[r] \in Nat /\ g[r] \in Nat /\ h[r] \in Nat /\ o[r] \in Nat
                      /\ \A m : l(m)[r] \in Nat /\ l(m)[r] <= h[r]
                      /\ one[r] \in Nat
                      /\ (Budget - 1) * f[r] + g[r] <= (Budget - 1) * one[r]
                      /\ 1 * h[r] + o[r] <= MaxCost * f[r]
    OBVIOUS
  <2>1. a[r] \in Progress
    BY <1>2
  <2>2. /\ RestOf(a[r]) \in Nat /\ ReadOf(a[r]) \in Nat /\ LoadOf(a[r]) \in Nat /\ OwedOf(a[r]) \in Nat
        /\ \A m : LateOf(a[r], m) \in Nat /\ LateOf(a[r], m) <= LoadOf(a[r])
        /\ (Budget - 1) * RestOf(a[r]) + ReadOf(a[r]) <= Budget - 1
        /\ LoadOf(a[r]) + OwedOf(a[r]) <= MaxCost * RestOf(a[r])
    BY <2>1, Weights
  <2>3. (Budget - 1) * 1 = Budget - 1 /\ 1 * LoadOf(a[r]) = LoadOf(a[r])
    BY <1>4, <2>2
  <2> QED
    BY <1>3, <2>2, <2>3
<1>6. /\ SumFunctionOnSet(f, S) \in Nat /\ SumFunctionOnSet(g, S) \in Nat
      /\ SumFunctionOnSet(h, S) \in Nat /\ SumFunctionOnSet(o, S) \in Nat
      /\ \A m : SumFunctionOnSet(l(m), S) \in Nat
  BY <1>1, <1>5, SumNat
<1>7. \A m : SumFunctionOnSet(l(m), S) <= SumFunctionOnSet(h, S)
  BY <1>1, <1>5, SumMonotone
<1>8. (Budget - 1) * SumFunctionOnSet(f, S) + SumFunctionOnSet(g, S) <= (Budget - 1) * SumFunctionOnSet(one, S)
  BY <1>1, <1>4, <1>5, SumScaled
<1>9. 1 * SumFunctionOnSet(h, S) + SumFunctionOnSet(o, S) <= MaxCost * SumFunctionOnSet(f, S)
  BY <1>1, <1>4, <1>5, SumScaled
<1>10. SumFunctionOnSet(one, S) = Cardinality(S) /\ Cardinality(S) \in Nat
  BY <1>1, SumOfOnes, FS_CardinalityType DEF one
<1>11. \A r \in S : f[r] <= one[r]
  BY <1>3 DEF RestOf
<1>12. SumFunctionOnSet(f, S) <= SumFunctionOnSet(one, S)
  BY <1>1, <1>5, <1>11, SumMonotone
<1>13. 1 * SumFunctionOnSet(h, S) = SumFunctionOnSet(h, S)
  BY <1>6
<1> QED
  BY <1>6, <1>7, <1>8, <1>9, <1>10, <1>12, <1>13 DEF S, f, g, h, o, l

\* When one request goes on, nothing changes for the other pods, and for its
\* own what it contributes.
LEMMA OneGoesOn ==
    ASSUME NEW a \in [Requests -> Progress], NEW b \in [Requests -> Progress], NEW r \in Requests,
           NEW v, b[r] = v, \A s \in Requests : s # r => b[s] = a[s], NEW p, PodOf[r] = p
    PROVE  /\ SumFunctionOnSet(Rests(b), Mine(p)) + RestOf(a[r]) = SumFunctionOnSet(Rests(a), Mine(p)) + RestOf(v)
           /\ SumFunctionOnSet(Reads(b), Mine(p)) + ReadOf(a[r]) = SumFunctionOnSet(Reads(a), Mine(p)) + ReadOf(v)
           /\ SumFunctionOnSet(Loads(b), Mine(p)) + LoadOf(a[r]) = SumFunctionOnSet(Loads(a), Mine(p)) + LoadOf(v)
           /\ SumFunctionOnSet(Oweds(b), Mine(p)) + OwedOf(a[r]) = SumFunctionOnSet(Oweds(a), Mine(p)) + OwedOf(v)
           /\ \A m : SumFunctionOnSet(Lates(b, m), Mine(p)) + LateOf(a[r], m)
                        = SumFunctionOnSet(Lates(a, m), Mine(p)) + LateOf(v, m)
<1> DEFINE S == Mine(p)
<1>1. IsFiniteSet(S) /\ S \subseteq Requests /\ r \in S
  BY MineIsFinite DEF Mine
<1>2. b[r] = v /\ \A s \in Requests : b[s] \in Progress /\ (s # r => b[s] = a[s])
  OBVIOUS
<1>3. \A s \in S : a[s] \in Progress /\ b[s] \in Progress /\ s \in Requests
  BY <1>1, <1>2
<1> HIDE DEF S
<1>4. /\ \A s \in S : Rests(a)[s] = RestOf(a[s]) /\ Rests(b)[s] = RestOf(b[s])
      /\ \A s \in S : Reads(a)[s] = ReadOf(a[s]) /\ Reads(b)[s] = ReadOf(b[s])
      /\ \A s \in S : Loads(a)[s] = LoadOf(a[s]) /\ Loads(b)[s] = LoadOf(b[s])
      /\ \A s \in S : Oweds(a)[s] = OwedOf(a[s]) /\ Oweds(b)[s] = OwedOf(b[s])
      /\ \A m : \A s \in S : Lates(a, m)[s] = LateOf(a[s], m) /\ Lates(b, m)[s] = LateOf(b[s], m)
  BY <1>3 DEF Rests, Reads, Loads, Oweds, Lates
<1>5. \A s \in S : s # r => b[s] = a[s]
  BY <1>2, <1>3
<1>6. /\ \A s \in S : Rests(a)[s] \in Nat /\ Rests(b)[s] \in Nat
      /\ \A s \in S \ {r} : Rests(b)[s] = Rests(a)[s]
  BY <1>3, <1>4, <1>5, Weights
<1>7. SumFunctionOnSet(Rests(b), S) + Rests(a)[r] = SumFunctionOnSet(Rests(a), S) + Rests(b)[r]
  BY <1>1, <1>6, SumChanged
<1>8. /\ \A s \in S : Reads(a)[s] \in Nat /\ Reads(b)[s] \in Nat
      /\ \A s \in S \ {r} : Reads(b)[s] = Reads(a)[s]
  BY <1>3, <1>4, <1>5, Weights
<1>9. SumFunctionOnSet(Reads(b), S) + Reads(a)[r] = SumFunctionOnSet(Reads(a), S) + Reads(b)[r]
  BY <1>1, <1>8, SumChanged
<1>10. /\ \A s \in S : Loads(a)[s] \in Nat /\ Loads(b)[s] \in Nat
      /\ \A s \in S \ {r} : Loads(b)[s] = Loads(a)[s]
  BY <1>3, <1>4, <1>5, Weights
<1>11. SumFunctionOnSet(Loads(b), S) + Loads(a)[r] = SumFunctionOnSet(Loads(a), S) + Loads(b)[r]
  BY <1>1, <1>10, SumChanged
<1>12. /\ \A s \in S : Oweds(a)[s] \in Nat /\ Oweds(b)[s] \in Nat
      /\ \A s \in S \ {r} : Oweds(b)[s] = Oweds(a)[s]
  BY <1>3, <1>4, <1>5, Weights
<1>13. SumFunctionOnSet(Oweds(b), S) + Oweds(a)[r] = SumFunctionOnSet(Oweds(a), S) + Oweds(b)[r]
  BY <1>1, <1>12, SumChanged
<1>14. ASSUME NEW m
       PROVE  SumFunctionOnSet(Lates(b, m), S) + Lates(a, m)[r] = SumFunctionOnSet(Lates(a, m), S) + Lates(b, m)[r]
  <2> DEFINE f == Lates(a, m)
             g == Lates(b, m)
  <2>1. \A s \in S : f[s] = LateOf(a[s], m) /\ g[s] = LateOf(b[s], m)
    BY <1>4
  <2> HIDE DEF f, g
  <2>2. /\ \A s \in S : f[s] \in Nat /\ g[s] \in Nat
        /\ \A s \in S \ {r} : g[s] = f[s]
    BY <1>3, <1>5, <2>1, Weights
  <2>3. SumFunctionOnSet(g, S) + f[r] = SumFunctionOnSet(f, S) + g[r]
    BY <1>1, <2>2, SumChanged
  <2> QED
    BY <2>3 DEF f, g
<1>15. /\ Rests(a)[r] = RestOf(a[r]) /\ Rests(b)[r] = RestOf(v)
       /\ Reads(a)[r] = ReadOf(a[r]) /\ Reads(b)[r] = ReadOf(v)
       /\ Loads(a)[r] = LoadOf(a[r]) /\ Loads(b)[r] = LoadOf(v)
       /\ Oweds(a)[r] = OwedOf(a[r]) /\ Oweds(b)[r] = OwedOf(v)
       /\ \A m : Lates(a, m)[r] = LateOf(a[r], m) /\ Lates(b, m)[r] = LateOf(v, m)
  BY <1>1, <1>2, <1>4
<1>16. \A m : SumFunctionOnSet(Lates(b, m), S) + LateOf(a[r], m) = SumFunctionOnSet(Lates(a, m), S) + LateOf(v, m)
  BY <1>14, <1>15
<1> QED
  BY <1>7, <1>9, <1>11, <1>13, <1>15, <1>16 DEF S

-----------------------------------------------------------------------------
(* What one step changes                                                    *)

\* The numbers of a pod.
LEMMA Numbers ==
    ASSUME req \in [Requests -> Progress], NEW p
    PROVE  /\ Cardinality(Mine(p)) \in Nat
           /\ Rest(p) \in Nat /\ Read(p) \in Nat /\ Load(p) \in Nat /\ Owed(p) \in Nat
           /\ \A m : Late(p, m) \in Nat /\ Late(p, m) <= Load(p)
           /\ Rest(p) <= Cardinality(Mine(p))
           /\ (Budget - 1) * Rest(p) + Read(p) <= (Budget - 1) * Cardinality(Mine(p))
           /\ Load(p) + Owed(p) <= MaxCost * Rest(p)
BY Together DEF Rest, Read, Load, Owed, Late

\* And in the next state.
LEMMA NumbersNext ==
    ASSUME req' \in [Requests -> Progress], NEW p
    PROVE  /\ Rest(p)' \in Nat /\ Read(p)' \in Nat /\ Load(p)' \in Nat /\ Owed(p)' \in Nat
           /\ \A m : Late(p, m)' \in Nat
           /\ Load(p)' + Owed(p)' <= MaxCost * Rest(p)'
BY Together DEF Rest, Read, Load, Owed, Late

\* A pod none of whose requests goes on.
LEMMA PodStays ==
    ASSUME req \in [Requests -> Progress], req' \in [Requests -> Progress],
           NEW p, \A r \in Mine(p) : req'[r] = req[r]
    PROVE  /\ Rest(p)' = Rest(p) /\ Read(p)' = Read(p) /\ Load(p)' = Load(p) /\ Owed(p)' = Owed(p)
           /\ \A m : Late(p, m)' = Late(p, m)
<1> DEFINE S == Mine(p)
           b == req'
<1>1. IsFiniteSet(S) /\ S \subseteq Requests
  BY MineIsFinite
<1>2. \A r \in S : req[r] \in Progress /\ b[r] = req[r] /\ r \in Requests
  BY <1>1
<1> HIDE DEF S, b
<1>3. /\ \A s \in S : Rests(req)[s] = RestOf(req[s]) /\ Rests(b)[s] = RestOf(req[s])
      /\ \A s \in S : Reads(req)[s] = ReadOf(req[s]) /\ Reads(b)[s] = ReadOf(req[s])
      /\ \A s \in S : Loads(req)[s] = LoadOf(req[s]) /\ Loads(b)[s] = LoadOf(req[s])
      /\ \A s \in S : Oweds(req)[s] = OwedOf(req[s]) /\ Oweds(b)[s] = OwedOf(req[s])
      /\ \A m : \A s \in S : Lates(req, m)[s] = LateOf(req[s], m) /\ Lates(b, m)[s] = LateOf(req[s], m)
  BY <1>2 DEF Rests, Reads, Loads, Oweds, Lates
<1>4. SumFunctionOnSet(Rests(b), S) = SumFunctionOnSet(Rests(req), S)
  <2>1. \A s \in S : Rests(b)[s] \in Nat /\ Rests(b)[s] = Rests(req)[s]
    BY <1>2, <1>3, Weights
  <2> QED
    BY <1>1, <2>1, SumEqual
<1>5. SumFunctionOnSet(Reads(b), S) = SumFunctionOnSet(Reads(req), S)
  <2>1. \A s \in S : Reads(b)[s] \in Nat /\ Reads(b)[s] = Reads(req)[s]
    BY <1>2, <1>3, Weights
  <2> QED
    BY <1>1, <2>1, SumEqual
<1>6. SumFunctionOnSet(Loads(b), S) = SumFunctionOnSet(Loads(req), S)
  <2>1. \A s \in S : Loads(b)[s] \in Nat /\ Loads(b)[s] = Loads(req)[s]
    BY <1>2, <1>3, Weights
  <2> QED
    BY <1>1, <2>1, SumEqual
<1>7. SumFunctionOnSet(Oweds(b), S) = SumFunctionOnSet(Oweds(req), S)
  <2>1. \A s \in S : Oweds(b)[s] \in Nat /\ Oweds(b)[s] = Oweds(req)[s]
    BY <1>2, <1>3, Weights
  <2> QED
    BY <1>1, <2>1, SumEqual
<1>8. ASSUME NEW m PROVE SumFunctionOnSet(Lates(b, m), S) = SumFunctionOnSet(Lates(req, m), S)
  <2> DEFINE f == Lates(b, m)
             g == Lates(req, m)
  <2>1. \A s \in S : f[s] = LateOf(req[s], m) /\ g[s] = LateOf(req[s], m)
    BY <1>3
  <2> HIDE DEF f, g
  <2>2. \A s \in S : f[s] \in Nat /\ f[s] = g[s]
    BY <1>2, <2>1, Weights
  <2>3. SumFunctionOnSet(f, S) = SumFunctionOnSet(g, S)
    BY <1>1, <2>2, SumEqual
  <2> QED
    BY <2>3 DEF f, g
<1> QED
  BY <1>4, <1>5, <1>6, <1>7, <1>8 DEF S, b, Rest, Read, Load, Owed, Late

\* A request goes on: what changes for its own pod.
LEMMA PodGoesOn ==
    ASSUME req \in [Requests -> Progress], req' \in [Requests -> Progress],
           NEW r \in Requests, NEW v, req'[r] = v, \A s \in Requests : s # r => req'[s] = req[s],
           NEW p, PodOf[r] = p
    PROVE  /\ Rest(p)' + RestOf(req[r]) = Rest(p) + RestOf(v)
           /\ Read(p)' + ReadOf(req[r]) = Read(p) + ReadOf(v)
           /\ Load(p)' + LoadOf(req[r]) = Load(p) + LoadOf(v)
           /\ Owed(p)' + OwedOf(req[r]) = Owed(p) + OwedOf(v)
           /\ \A m : Late(p, m)' + LateOf(req[r], m) = Late(p, m) + LateOf(v, m)
<1> DEFINE a == req
           b == req'
<1>2. /\ a \in [Requests -> Progress] /\ b \in [Requests -> Progress]
      /\ b[r] = v /\ \A s \in Requests : s # r => b[s] = a[s]
  OBVIOUS
<1> HIDE DEF a, b
<1>3. /\ SumFunctionOnSet(Rests(b), Mine(p)) + RestOf(a[r]) = SumFunctionOnSet(Rests(a), Mine(p)) + RestOf(v)
      /\ SumFunctionOnSet(Reads(b), Mine(p)) + ReadOf(a[r]) = SumFunctionOnSet(Reads(a), Mine(p)) + ReadOf(v)
      /\ SumFunctionOnSet(Loads(b), Mine(p)) + LoadOf(a[r]) = SumFunctionOnSet(Loads(a), Mine(p)) + LoadOf(v)
      /\ SumFunctionOnSet(Oweds(b), Mine(p)) + OwedOf(a[r]) = SumFunctionOnSet(Oweds(a), Mine(p)) + OwedOf(v)
      /\ \A m : SumFunctionOnSet(Lates(b, m), Mine(p)) + LateOf(a[r], m)
                   = SumFunctionOnSet(Lates(a, m), Mine(p)) + LateOf(v, m)
  BY <1>2, OneGoesOn
<1> QED
  BY <1>3 DEF a, b, Rest, Read, Load, Owed, Late

\* A pod whose requests and whose cache stay as they are keeps its share.
LEMMA ShareStays ==
    ASSUME req \in [Requests -> Progress], req' \in [Requests -> Progress], month' = month,
           NEW p, \A r \in Mine(p) : req'[r] = req[r], cache'[p] = cache[p],
           NEW m, NEW x, Share(p, m, x)
    PROVE  Share(p, m, x)'
<1>1. /\ Rest(p)' = Rest(p) /\ Read(p)' = Read(p) /\ Load(p)' = Load(p) /\ Owed(p)' = Owed(p)
      /\ Late(p, m)' = Late(p, m)
  BY PodStays
<1>2. Current(p, x) => Current(p, x)'
  BY <1>1 DEF Current, Cached
<1>3. Past(p, m, x) => Past(p, m, x)'
  BY <1>1 DEF Past
<1> QED
  BY <1>2, <1>3 DEF Share

\* While the budget is not spent, little has to be known.
LEMMA Early ==
    ASSUME NEW x \in Nat, ~OverBudget(x), NEW load \in Nat, NEW read \in Nat, NEW rest \in Nat,
           NEW owed \in Nat, load + owed <= MaxCost * rest
    PROVE  /\ (rest = 0 => x <= read) => Bounded(x, load, read, rest)
           /\ \A c \in Nat : rest >= 1 /\ (rest = 1 => x <= c + owed + read) => Backed(x, read, rest, owed, c)
<1> DEFINE B == Budget - 1
           P == PodBound(rest)
           M == MaxCost * rest
<1>1. /\ P \in Nat /\ M \in Nat
      /\ rest = 0 => P = 0 /\ M = 0
      /\ rest >= 1 => B + M <= P
      /\ rest >= 2 => B + B + M <= P
  <2>1. MaxCost * 0 = 0
    BY MaxCostIs
  <2>2. 2 * B = B + B
    BY BudgetAssumption
  <2> QED
    BY <2>1, <2>2, BoundGrows
<1>2. B \in Nat /\ x <= B /\ \A c : ~OverBudget(c) <=> ~(c >= Budget)
  BY BudgetAssumption DEF OverBudget
<1>3. load + owed <= M
  OBVIOUS
<1> HIDE DEF B, P, M
<1>4. (rest = 0 => x <= read) => x + load <= read + P
  BY <1>1, <1>2, <1>3
<1>5. \A c \in Nat : rest >= 1 /\ (rest = 1 => x <= c + owed + read) => x + B + M <= c + owed + read + P
  BY <1>1, <1>2, <1>3
<1> QED
  BY <1>4, <1>5 DEF Bounded, Backed, B, P, M

\* A request that no answer lets through counts.
LEMMA RestCounts ==
    ASSUME req' \in [Requests -> Progress], NEW p, NEW r \in Mine(p), RestOf(req'[r]) = 1
    PROVE  Rest(p)' >= 1
<1> DEFINE S == Mine(p)
           f == Rests(req')
<1>1. IsFiniteSet(S) /\ S \subseteq Requests
  BY MineIsFinite
<1>2. \A s \in S : f[s] = RestOf(req'[s]) /\ f[s] \in Nat
  BY <1>1, Weights DEF Rests
<1>3. Rest(p)' = SumFunctionOnSet(f, S)
  BY DEF Rest
<1> HIDE DEF f
<1>4. SumFunctionOnSet(f, S) = f[r] + SumFunctionOnSet(f, S \ {r})
  BY <1>1, <1>2, SumRemove
<1>5. SumFunctionOnSet(f, S \ {r}) \in Nat
  BY <1>1, <1>2, SumNat, FS_Subset
<1> QED
  BY <1>2, <1>3, <1>4, <1>5

-----------------------------------------------------------------------------
(* Types                                                                    *)

Caches == {NotCached} \cup [ttl : 0 .. Ttl, cost : Nat]

\* Types, in the names used here.
LEMMA TypesAre ==
    TypeOK <=> /\ month \in Months
               /\ rows \in [Months -> Nat]
               /\ lost \in 0 .. MaxLost
               /\ cache \in [Pods -> Caches]
               /\ req \in [Requests -> Progress]
BY DEF TypeOK, Caches, Progress

\* The same of the next state.
LEMMA TypesAreNext ==
    TypeOK' <=> /\ month' \in Months
                /\ rows' \in [Months -> Nat]
                /\ lost' \in 0 .. MaxLost
                /\ cache' \in [Pods -> Caches]
                /\ req' \in [Requests -> Progress]
BY DEF TypeOK, Caches, Progress, Months

\* What is cached.
LEMMA EntryIs ==
    /\ NotCached \in Caches
    /\ \A e \in Caches : e # NotCached => e.ttl \in 0 .. Ttl /\ e.cost \in Nat
    /\ \A c \in Nat : Entry(c) \in Caches /\ Entry(c) # NotCached /\ Entry(c).cost = c
BY BoundsAssumption DEF Caches, NotCached, Entry

\* What ageing does to it.
LEMMA AgedIs ==
    \A e \in Caches :
        /\ Aged(e) \in Caches
        /\ Aged(e) # NotCached => e # NotCached /\ Aged(e).cost = e.cost
<1> TAKE e \in Caches
<1>1. CASE e = NotCached \/ e.ttl = 0
  BY <1>1, EntryIs DEF Aged
<1>2. CASE ~(e = NotCached \/ e.ttl = 0)
  <2>1. e \in [ttl : 0 .. Ttl, cost : Nat] /\ e.ttl \in 1 .. Ttl
    BY <1>2, BoundsAssumption DEF Caches
  <2>2. Aged(e) = [e EXCEPT !.ttl = @ - 1]
    BY <1>2 DEF Aged
  <2>3. Aged(e) \in [ttl : 0 .. Ttl, cost : Nat] /\ Aged(e).cost = e.cost
    BY <2>1, <2>2, BoundsAssumption
  <2> QED
    BY <1>2, <2>3 DEF Caches
<1> QED
  BY <1>1, <1>2

\* Where a request may go.
LEMMA ProgressIs ==
    /\ Idle \in Progress /\ Idle.pc = "idle"
    /\ \A c \in Costs : Inserted(c) \in Progress /\ Inserted(c).pc = "inserted" /\ Inserted(c).cost = c
    /\ \A c : Decided(c) \in Progress /\ Decided(c).pc = IF OverBudget(c) THEN "refused" ELSE "in_flight"
    /\ \A m \in Months : [pc |-> "querying", since |-> m] \in Progress
    /\ \A c \in Nat : [pc |-> "answered", spent |-> c] \in Progress
    /\ \A c \in Costs, m \in Months : [pc |-> "inserting", cost |-> c, since |-> m] \in Progress
    /\ \A q \in Progress :
          /\ q.pc \in {"idle", "refused", "in_flight", "querying", "answered", "inserting", "inserted"}
          /\ q.pc = "querying" => q.since \in Months
          /\ q.pc = "answered" => q.spent \in Nat
          /\ q.pc = "inserting" => q.cost \in Costs /\ q.since \in Months
          /\ q.pc = "inserted" => q.cost \in Costs
BY DEF Progress, Idle, Inserted, Decided

\* A query sums what is recorded, and at least that of every month it covers.
LEMMA QueryIs ==
    ASSUME rows \in [Months -> Nat], NEW since \in Months
    PROVE  /\ CostSince(since) \in Nat
           /\ \A m \in since .. LastMonth : rows[m] <= CostSince(since)
<1> DEFINE S == since .. LastMonth
<1>1. since \in Int /\ LastMonth \in Int /\ S \subseteq Months
  BY BoundsAssumption DEF Months
<1>2. IsFiniteSet(S)
  BY <1>1, FS_Interval
<1>3. \A m \in S : rows[m] \in Nat
  BY <1>1
<1>4. CostSince(since) = SumFunctionOnSet(rows, S)
  BY DEF CostSince
<1> HIDE DEF S
<1>5. CostSince(since) \in Nat
  BY <1>2, <1>3, <1>4, SumNat
<1>6. ASSUME NEW m \in S PROVE rows[m] <= CostSince(since)
  <2>1. SumFunctionOnSet(rows, S) = rows[m] + SumFunctionOnSet(rows, S \ {m})
    BY <1>2, <1>3, SumRemove
  <2>2. SumFunctionOnSet(rows, S \ {m}) \in Nat
    BY <1>2, <1>3, SumNat, FS_Subset
  <2> QED
    BY <1>3, <1>4, <2>1, <2>2
<1> QED
  BY <1>5, <1>6 DEF S

\* A share is a part of the whole.
LEMMA ShareIsPart ==
    ASSUME NEW s \in [Pods -> Nat], NEW p \in Pods
    PROVE  /\ SumFunctionOnSet(s, Pods) \in Nat
           /\ s[p] <= SumFunctionOnSet(s, Pods)
<1>1. IsFiniteSet(Pods) /\ \A q \in Pods : s[q] \in Nat
  BY PodsAssumption
<1>2. SumFunctionOnSet(s, Pods) = s[p] + SumFunctionOnSet(s, Pods \ {p})
  BY <1>1, SumRemove
<1>3. SumFunctionOnSet(s, Pods \ {p}) \in Nat /\ SumFunctionOnSet(s, Pods) \in Nat
  BY <1>1, SumNat, FS_Subset
<1> QED
  BY <1>1, <1>2, <1>3

-----------------------------------------------------------------------------
(* The steps of a request                                                   *)

\* The request r goes on to v.
GoesOn(r, v) == req' = [req EXCEPT ![r] = v]

\* What all of them have in common: it is enough to look at the request's own
\* pod and, unless a row is added, at the current month.
LEMMA RequestGoesOn ==
    ASSUME IInv, NEW r \in Requests, NEW v \in Progress, NEW p, PodOf[r] = p,
           GoesOn(r, v), month' = month, rows' = rows, lost' \in 0 .. MaxLost,
           cache' \in [Pods -> Caches], \A q \in Pods : q # p => cache'[q] = cache[q],
           v.pc = "querying" => v.since <= month,
           \A m \in Months : m < month => LateOf(v, m) <= LateOf(req[r], m),
           CacheHasReason(p)',
           \A x \in Nat : x <= rows[month] /\ Current(p, x) => Current(p, x)'
    PROVE  IInv'
<1>1. /\ month \in Months /\ rows \in [Months -> Nat] /\ cache \in [Pods -> Caches]
      /\ req \in [Requests -> Progress]
  BY TypesAre DEF IInv
<1>2. req' \in [Requests -> Progress] /\ req'[r] = v /\ \A s \in Requests : s # r => req'[s] = req[s]
  BY <1>1 DEF GoesOn
<1>3. \A m : Late(p, m)' + LateOf(req[r], m) = Late(p, m) + LateOf(v, m)
  BY <1>1, <1>2, PodGoesOn
<1>4. TypeOK'
  BY <1>1, <1>2, TypesAreNext
<1>5. ReadsAreDated'
  BY <1>2 DEF IInv, ReadsAreDated, At
<1>6. ASSUME NEW q \in Pods PROVE CacheHasReason(q)'
  <2>1. CASE q = p
    BY <2>1
  <2>2. CASE q # p
    <3>1. \A s \in Mine(q) : s \in Requests /\ s # r
      BY <2>2 DEF Mine
    <3> QED
      BY <1>2, <2>2, <3>1 DEF IInv, CacheHasReason, Cached
  <2> QED
    BY <2>1, <2>2
<1>7. ASSUME NEW m \in Months, NEW q \in Pods, NEW x \in Nat, x <= rows[m], Share(q, m, x)
      PROVE  Share(q, m, x)'
  <2>1. CASE q # p
    <3>1. \A s \in Mine(q) : req'[s] = req[s]
      BY <1>2, <2>1 DEF Mine
    <3> QED
      BY <1>1, <1>2, <1>7, <2>1, <3>1, ShareStays
  <2>2. CASE q = p
    <3>1. month = m => Current(p, x)'
      BY <1>7, <2>2 DEF Share
    <3>2. month > m => Past(p, m, x)'
      <4> SUFFICES ASSUME month > m PROVE Past(p, m, x)'
        OBVIOUS
      <4>1. Late(p, m)' + LateOf(req[r], m) = Late(p, m) + LateOf(v, m)
        BY <1>3
      <4>2. LateOf(v, m) <= LateOf(req[r], m)
        BY <1>1 DEF Months
      <4>3. /\ Late(p, m) \in Nat /\ Late(p, m)' \in Nat /\ LateOf(v, m) \in Nat /\ LateOf(req[r], m) \in Nat
            /\ PodBound(Cardinality(Mine(p))) \in Nat
        BY <1>1, <1>2, Numbers, NumbersNext, Weights, BoundGrows
      <4>4. x + Late(p, m) <= PodBound(Cardinality(Mine(p)))
        BY <1>7, <2>2 DEF Share, Past
      <4>5. x + Late(p, m)' <= PodBound(Cardinality(Mine(p)))
        BY <4>1, <4>2, <4>3, <4>4
      <4> QED
        BY <4>5 DEF Past
    <3>3. month < m => x = 0
      BY <1>7 DEF Share
    <3> QED
      BY <2>2, <3>1, <3>2, <3>3 DEF Share
  <2> QED
    BY <2>1, <2>2
<1>8. RowsAreShared'
  <2>1. ASSUME NEW m \in Months
        PROVE  \E s \in [Pods -> Nat] :
                  /\ SumFunctionOnSet(s, Pods) = rows'[m]
                  /\ \A q \in Pods : Share(q, m, s[q])'
    <3>1. PICK s \in [Pods -> Nat] :
             /\ SumFunctionOnSet(s, Pods) = rows[m]
             /\ \A q \in Pods : Share(q, m, s[q])
      BY DEF IInv, RowsAreShared
    <3>2. \A q \in Pods : s[q] <= rows[m]
      BY <3>1, ShareIsPart
    <3>3. \A q \in Pods : Share(q, m, s[q])'
      BY <1>7, <3>1, <3>2
    <3> QED
      BY <3>1, <3>3
  <2> QED
    BY <2>1 DEF RowsAreShared, Months
<1> QED
  BY <1>4, <1>5, <1>6, <1>8 DEF IInv

\* The numbers of the pod of a request that goes on, before and after.
LEMMA OwnPod ==
    ASSUME req \in [Requests -> Progress], NEW r \in Requests, NEW v \in Progress,
           GoesOn(r, v), NEW p, PodOf[r] = p
    PROVE  /\ req[r] \in Progress /\ req' \in [Requests -> Progress] /\ req'[r] = v /\ r \in Mine(p)
           /\ \A s \in Requests : s # r => req'[s] = req[s]
           /\ Rest(p) \in Nat /\ Read(p) \in Nat /\ Load(p) \in Nat /\ Owed(p) \in Nat
           /\ Rest(p)' \in Nat /\ Read(p)' \in Nat /\ Load(p)' \in Nat /\ Owed(p)' \in Nat
           /\ Load(p) + Owed(p) <= MaxCost * Rest(p)
           /\ Load(p)' + Owed(p)' <= MaxCost * Rest(p)'
           /\ Rest(p)' + RestOf(req[r]) = Rest(p) + RestOf(v)
           /\ Read(p)' + ReadOf(req[r]) = Read(p) + ReadOf(v)
           /\ Load(p)' + LoadOf(req[r]) = Load(p) + LoadOf(v)
           /\ Owed(p)' + OwedOf(req[r]) = Owed(p) + OwedOf(v)
           /\ \A m : Late(p, m)' + LateOf(req[r], m) = Late(p, m) + LateOf(v, m)
<1>1. /\ req[r] \in Progress /\ req' \in [Requests -> Progress] /\ req'[r] = v
      /\ \A s \in Requests : s # r => req'[s] = req[s]
  BY DEF GoesOn
<1>2. r \in Mine(p)
  BY DEF Mine
<1> QED
  BY <1>1, <1>2, Numbers, NumbersNext, PodGoesOn

\* The current share of a pod, in numbers.
LEMMA CurrentIs ==
    ASSUME NEW p, NEW x
    PROVE  /\ Current(p, x) <=>
                 /\ Bounded(x, Load(p), Read(p), Rest(p))
                 /\ Cached(p) => Backed(x, Read(p), Rest(p), Owed(p), cache[p].cost)
           /\ Current(p, x)' <=>
                 /\ Bounded(x, Load(p)', Read(p)', Rest(p)')
                 /\ Cached(p)' => Backed(x, Read(p)', Rest(p)', Owed(p)', cache'[p].cost)
BY DEF Current, Cached

\* check_budget with the cost in the cache: a request is let through only if
\* there is room for another one.
LEMMA CheckCachedKeeps ==
    ASSUME IInv, NEW r \in Requests, CheckCached(r)
    PROVE  IInv'
<1> DEFINE p == PodOf[r]
           c == cache[p].cost
           v == Decided(c)
<1>1. /\ month \in Months /\ rows \in [Months -> Nat] /\ cache \in [Pods -> Caches]
      /\ req \in [Requests -> Progress] /\ lost \in 0 .. MaxLost /\ p \in Pods /\ PodOf[r] = p
  BY TypesAre, PodsAssumption DEF IInv
<1>2. /\ req[r].pc \in {"idle", "refused"} /\ Cached(p) /\ GoesOn(r, v)
      /\ month' = month /\ rows' = rows /\ lost' = lost /\ cache' = cache
  BY DEF CheckCached, MayStart, GoesOn
<1>3. c \in Nat
  BY <1>1, <1>2, EntryIs DEF Cached
<1> HIDE DEF p, c
<1>4. v \in Progress /\ v.pc = IF OverBudget(c) THEN "refused" ELSE "in_flight"
  BY ProgressIs
<1>5. /\ RestOf(req[r]) = 1 /\ ReadOf(req[r]) = 0 /\ LoadOf(req[r]) = 0 /\ OwedOf(req[r]) = 0
      /\ RestOf(v) = 1 /\ ReadOf(v) = 0 /\ OwedOf(v) = 0
      /\ LoadOf(v) = IF OverBudget(c) THEN 0 ELSE MaxCost
  BY <1>2, <1>4 DEF RestOf, ReadOf, LoadOf, OwedOf, Lets
<1> HIDE DEF v
<1>6. /\ Rest(p) \in Nat /\ Read(p) \in Nat /\ Load(p) \in Nat /\ Owed(p) \in Nat
      /\ Rest(p)' = Rest(p) /\ Read(p)' = Read(p) /\ Owed(p)' = Owed(p)
      /\ Load(p)' = Load(p) + LoadOf(v)
      /\ Load(p)' + Owed(p) <= MaxCost * Rest(p)
      /\ req'[r] = v /\ r \in Mine(p)
  <2>1. MaxCost \in Nat
    BY MaxCostIs
  <2> QED
    BY <1>1, <1>2, <1>4, <1>5, <2>1, OwnPod
<1>7. ASSUME NEW x \in Nat, Current(p, x) PROVE Current(p, x)'
  <2>1. Bounded(x, Load(p), Read(p), Rest(p)) /\ Backed(x, Read(p), Rest(p), Owed(p), c)
    BY <1>2, <1>7, CurrentIs DEF c
  <2>2. CASE OverBudget(c)
    BY <1>2, <1>5, <1>6, <2>1, <2>2, CurrentIs DEF c
  <2>3. CASE ~OverBudget(c)
    <3> DEFINE P == PodBound(Rest(p))
               M == MaxCost * Rest(p)
    <3>1. P \in Nat /\ M \in Nat /\ Budget \in Nat /\ MaxCost \in Nat
      BY <1>6, BoundGrows, BudgetAssumption, MaxCostIs
    <3>2. c <= Budget - 1
      BY <1>3, <2>3, <3>1 DEF OverBudget
    <3>3. x + (Budget - 1) + M <= c + Owed(p) + Read(p) + P
      BY <2>1, <2>3 DEF Backed
    <3>4. Load(p)' + Owed(p) <= M
      BY <1>6
    <3> HIDE DEF P, M
    <3>5. x + Load(p)' <= Read(p) + P
      BY <1>3, <1>5, <1>6, <2>3, <3>1, <3>2, <3>3, <3>4
    <3>6. Bounded(x, Load(p)', Read(p), Rest(p))
      BY <2>1, <3>5 DEF Bounded, P
    <3> QED
      BY <1>2, <1>6, <2>1, <3>6, CurrentIs DEF c
  <2> QED
    BY <2>2, <2>3
<1>8. CacheHasReason(p)'
  BY <1>4, <1>6 DEF CacheHasReason
<1>9. \A m : LateOf(v, m) = 0 /\ LateOf(req[r], m) = 0
  BY <1>2, <1>4 DEF LateOf
<1> QED
  BY <1>1, <1>2, <1>4, <1>7, <1>8, <1>9, RequestGoesOn

\* check_budget without: nothing is known yet.
LEMMA CheckUncachedKeeps ==
    ASSUME IInv, NEW r \in Requests, CheckUncached(r)
    PROVE  IInv'
<1> DEFINE p == PodOf[r]
           v == [pc |-> "querying", since |-> month]
<1>1. /\ month \in Months /\ rows \in [Months -> Nat] /\ cache \in [Pods -> Caches]
      /\ req \in [Requests -> Progress] /\ lost \in 0 .. MaxLost /\ p \in Pods /\ PodOf[r] = p
  BY TypesAre, PodsAssumption DEF IInv
<1>2. /\ req[r].pc \in {"idle", "refused"} /\ ~Cached(p) /\ GoesOn(r, v)
      /\ month' = month /\ rows' = rows /\ lost' = lost /\ cache' = cache
  BY DEF CheckUncached, MayStart, GoesOn
<1> HIDE DEF p
<1>3. v \in Progress /\ v.pc = "querying" /\ v.since = month
  BY <1>1, ProgressIs
<1>4. /\ RestOf(req[r]) = 1 /\ ReadOf(req[r]) = 0 /\ LoadOf(req[r]) = 0 /\ OwedOf(req[r]) = 0
      /\ RestOf(v) = 1 /\ ReadOf(v) = 0 /\ LoadOf(v) = 0 /\ OwedOf(v) = 0
  BY <1>2, <1>3 DEF RestOf, ReadOf, LoadOf, OwedOf, Lets
<1> HIDE DEF v
<1>5. Rest(p)' = Rest(p) /\ Read(p)' = Read(p) /\ Owed(p)' = Owed(p) /\ Load(p)' = Load(p)
  <2>1. /\ Rest(p) \in Nat /\ Read(p) \in Nat /\ Load(p) \in Nat /\ Owed(p) \in Nat
        /\ Rest(p)' \in Nat /\ Read(p)' \in Nat /\ Load(p)' \in Nat /\ Owed(p)' \in Nat
        /\ Rest(p)' + RestOf(req[r]) = Rest(p) + RestOf(v)
        /\ Read(p)' + ReadOf(req[r]) = Read(p) + ReadOf(v)
        /\ Load(p)' + LoadOf(req[r]) = Load(p) + LoadOf(v)
        /\ Owed(p)' + OwedOf(req[r]) = Owed(p) + OwedOf(v)
    BY <1>1, <1>2, <1>3, OwnPod
  <2> QED
    BY <1>4, <2>1
<1>6. ASSUME NEW x \in Nat, Current(p, x) PROVE Current(p, x)'
  BY <1>2, <1>5, <1>6, CurrentIs DEF Cached
<1>7. CacheHasReason(p)'
  BY <1>2 DEF CacheHasReason, Cached
<1>8. \A m : LateOf(v, m) = 0 /\ LateOf(req[r], m) = 0
  BY <1>2, <1>3 DEF LateOf
<1>9. v.pc = "querying" => v.since <= month
  BY <1>1, <1>3 DEF Months
<1> QED
  BY <1>1, <1>2, <1>3, <1>6, <1>7, <1>8, <1>9, RequestGoesOn

\* The database answers: an answer that lets the request through is at least
\* what this pod has in the current month.
LEMMA QueryRunsKeeps ==
    ASSUME IInv, NEW r \in Requests, QueryRuns(r)
    PROVE  IInv'
<1> DEFINE p == PodOf[r]
           c == CostSince(req[r].since)
           v == [pc |-> "answered", spent |-> c]
<1>1. /\ month \in Months /\ rows \in [Months -> Nat] /\ cache \in [Pods -> Caches]
      /\ req \in [Requests -> Progress] /\ lost \in 0 .. MaxLost /\ p \in Pods /\ PodOf[r] = p
  BY TypesAre, PodsAssumption DEF IInv
<1>2. /\ req[r].pc = "querying" /\ GoesOn(r, v)
      /\ month' = month /\ rows' = rows /\ lost' = lost /\ cache' = cache
  BY DEF QueryRuns, At, GoesOn
<1>3. c \in Nat /\ rows[month] <= c
  <2>1. req[r].since \in Months /\ req[r].since <= month
    BY <1>1, <1>2, ProgressIs DEF IInv, ReadsAreDated, At
  <2>2. month \in req[r].since .. LastMonth
    BY <1>1, <2>1 DEF Months
  <2> QED
    BY <1>1, <2>1, <2>2, QueryIs
<1> HIDE DEF p, c
<1>4. v \in Progress /\ v.pc = "answered" /\ v.spent = c
  BY <1>3, ProgressIs
<1>5. /\ RestOf(req[r]) = 1 /\ ReadOf(req[r]) = 0 /\ LoadOf(req[r]) = 0 /\ OwedOf(req[r]) = 0
      /\ LoadOf(v) = 0 /\ OwedOf(v) = 0
      /\ RestOf(v) = (IF OverBudget(c) THEN 1 ELSE 0)
      /\ ReadOf(v) = IF OverBudget(c) THEN 0 ELSE c
  BY <1>2, <1>4 DEF RestOf, ReadOf, LoadOf, OwedOf, Lets
<1> HIDE DEF v
<1>6. /\ Rest(p) \in Nat /\ Read(p) \in Nat /\ Load(p) \in Nat /\ Owed(p) \in Nat
      /\ Rest(p)' \in Nat /\ Read(p)' \in Nat
      /\ Rest(p)' + 1 = Rest(p) + RestOf(v) /\ Read(p)' = Read(p) + ReadOf(v)
      /\ Owed(p)' = Owed(p) /\ Load(p)' = Load(p)
      /\ Load(p)' + Owed(p)' <= MaxCost * Rest(p)'
      /\ req' \in [Requests -> Progress] /\ req'[r] = v /\ r \in Mine(p)
      /\ \A s \in Requests : s # r => req'[s] = req[s]
  <2>1. RestOf(v) \in Nat /\ ReadOf(v) \in Nat
    BY <1>3, <1>5
  <2> QED
    BY <1>1, <1>2, <1>4, <1>5, <2>1, OwnPod
<1>7. ASSUME Cached(p) PROVE \E s \in Mine(p) : req'[s].pc \notin {"querying", "answered"}
  <2>1. PICK s \in Mine(p) : req[s].pc \notin {"querying", "answered"}
    BY <1>1, <1>7 DEF IInv, CacheHasReason, p
  <2>2. s \in Requests /\ s # r
    BY <1>2, <2>1 DEF Mine
  <2> QED
    BY <1>6, <2>1, <2>2
<1>8. ASSUME Cached(p) PROVE Rest(p)' >= 1
  <2>1. PICK s \in Mine(p) : req'[s].pc \notin {"querying", "answered"}
    BY <1>7, <1>8
  <2>2. RestOf(req'[s]) = 1
    BY <2>1 DEF RestOf, Lets
  <2> QED
    BY <1>6, <2>1, <2>2, RestCounts
<1>9. ASSUME NEW x \in Nat, x <= rows[month], Current(p, x) PROVE Current(p, x)'
  <2>1. CASE OverBudget(c)
    <3>1. Rest(p)' = Rest(p) /\ Read(p)' = Read(p)
      BY <1>5, <1>6, <2>1
    <3> QED
      BY <1>2, <1>6, <1>9, <3>1, CurrentIs DEF Cached
  <2>2. CASE ~OverBudget(c)
    <3>1. x <= c /\ ~OverBudget(x)
      BY <1>1, <1>3, <1>9, <2>2, BudgetAssumption DEF OverBudget
    <3>2. x <= Read(p)'
      BY <1>3, <1>5, <1>6, <2>2, <3>1
    <3>3. Bounded(x, Load(p)', Read(p)', Rest(p)')
      BY <1>6, <3>1, <3>2, Early
    <3>4. ASSUME Cached(p)' PROVE Backed(x, Read(p)', Rest(p)', Owed(p)', cache'[p].cost)
      <4> DEFINE d == cache'[p].cost
      <4>1. Cached(p) /\ d \in Nat
        BY <1>1, <1>2, <3>4, EntryIs DEF Cached, p
      <4>2. x <= d + Owed(p)' + Read(p)'
        BY <1>6, <3>2, <4>1
      <4> HIDE DEF d
      <4>3. Backed(x, Read(p)', Rest(p)', Owed(p)', d)
        BY <1>6, <1>8, <3>1, <4>1, <4>2, Early
      <4> QED
        BY <4>3 DEF d
    <3> QED
      BY <3>3, <3>4, CurrentIs
  <2> QED
    BY <2>1, <2>2
<1>10. CacheHasReason(p)'
  BY <1>2, <1>7 DEF CacheHasReason, Cached
<1>11. \A m : LateOf(v, m) = 0 /\ LateOf(req[r], m) = 0
  BY <1>2, <1>4 DEF LateOf
<1> QED
  BY <1>1, <1>2, <1>4, <1>9, <1>10, <1>11, RequestGoesOn

\* The request goes on with the answer of the database, which is what the
\* cache holds from now on.
LEMMA CheckEndsKeeps ==
    ASSUME IInv, NEW r \in Requests, CheckEnds(r)
    PROVE  IInv'
<1> DEFINE p == PodOf[r]
           c == req[r].spent
           v == Decided(c)
<1>1. /\ month \in Months /\ rows \in [Months -> Nat] /\ cache \in [Pods -> Caches]
      /\ req \in [Requests -> Progress] /\ lost \in 0 .. MaxLost /\ p \in Pods /\ PodOf[r] = p
  BY TypesAre, PodsAssumption DEF IInv
<1>2. /\ req[r].pc = "answered" /\ req[r].spent = c /\ GoesOn(r, v)
      /\ month' = month /\ rows' = rows /\ lost' = lost
      /\ cache' = [cache EXCEPT ![p] = Entry(c)]
  BY DEF CheckEnds, At, GoesOn
<1>3. c \in Nat
  BY <1>1, <1>2, ProgressIs
<1> HIDE DEF p, c
<1>4. v \in Progress /\ v.pc = IF OverBudget(c) THEN "refused" ELSE "in_flight"
  BY ProgressIs
<1>5. /\ cache' \in [Pods -> Caches] /\ cache'[p].cost = c
      /\ \A q \in Pods : q # p => cache'[q] = cache[q]
  BY <1>1, <1>2, <1>3, EntryIs
<1>6. /\ LoadOf(req[r]) = 0 /\ OwedOf(req[r]) = 0 /\ OwedOf(v) = 0 /\ RestOf(v) = 1 /\ ReadOf(v) = 0
      /\ RestOf(req[r]) = (IF OverBudget(c) THEN 1 ELSE 0)
      /\ ReadOf(req[r]) = (IF OverBudget(c) THEN 0 ELSE c)
      /\ LoadOf(v) = IF OverBudget(c) THEN 0 ELSE MaxCost
  BY <1>2, <1>4 DEF RestOf, ReadOf, LoadOf, OwedOf, Lets
<1> HIDE DEF v
<1>7. /\ Rest(p) \in Nat /\ Read(p) \in Nat /\ Load(p) \in Nat /\ Owed(p) \in Nat
      /\ Rest(p)' \in Nat /\ Read(p)' \in Nat /\ Load(p)' \in Nat /\ Owed(p)' \in Nat
      /\ Rest(p)' + RestOf(req[r]) = Rest(p) + RestOf(v)
      /\ Read(p)' + ReadOf(req[r]) = Read(p) + ReadOf(v)
      /\ Load(p)' + LoadOf(req[r]) = Load(p) + LoadOf(v)
      /\ Owed(p)' + OwedOf(req[r]) = Owed(p) + OwedOf(v)
      /\ req'[r] = v /\ r \in Mine(p)
  BY <1>1, <1>2, <1>4, OwnPod
<1>8. ASSUME NEW x \in Nat, Current(p, x) PROVE Current(p, x)'
  <2>1. Bounded(x, Load(p), Read(p), Rest(p))
    BY <1>8, CurrentIs
  <2>2. CASE OverBudget(c)
    <3>1. Rest(p)' = Rest(p) /\ Read(p)' = Read(p) /\ Load(p)' = Load(p)
      BY <1>6, <1>7, <2>2
    <3>2. ~OverBudget(x) => x <= c + Owed(p)' + Read(p)'
      BY <1>3, <1>7, <2>2, BudgetAssumption DEF OverBudget
    <3>3. Backed(x, Read(p)', Rest(p)', Owed(p)', c)
      BY <2>2, <3>2 DEF Backed
    <3> QED
      BY <1>5, <2>1, <3>1, <3>3, CurrentIs
  <2>3. CASE ~OverBudget(c)
    <3> DEFINE P == PodBound(Rest(p))
               Q == PodBound(Rest(p)')
               M == MaxCost * Rest(p)
               N == MaxCost * Rest(p)'
               B == Budget - 1
    <3>1. Rest(p)' = Rest(p) + 1 /\ Read(p)' + c = Read(p) /\ Load(p)' = Load(p) + MaxCost /\ Owed(p)' = Owed(p)
      <4>1. MaxCost \in Nat
        BY MaxCostIs
      <4> QED
        BY <1>3, <1>6, <1>7, <2>3, <4>1
    <3>2. /\ P \in Nat /\ Q \in Nat /\ M \in Nat /\ N \in Nat /\ B \in Nat /\ MaxCost \in Nat
          /\ Q = P + B + M + MaxCost /\ N = M + MaxCost
      <4>1. \A n \in Nat :
               /\ PodBound(n) \in Nat /\ MaxCost * n \in Nat
               /\ PodBound(n + 1) = PodBound(n) + (Budget - 1) + MaxCost * n + MaxCost
               /\ MaxCost * (n + 1) = MaxCost * n + MaxCost
        BY BoundGrows
      <4>2. Rest(p) \in Nat /\ Rest(p)' \in Nat /\ Rest(p)' = Rest(p) + 1
        BY <1>7, <3>1
      <4>3. Q = P + B + M + MaxCost /\ N = M + MaxCost
        BY <4>1, <4>2
      <4>4. P \in Nat /\ Q \in Nat /\ M \in Nat /\ N \in Nat
        BY <4>1, <4>2
      <4> QED
        BY <4>3, <4>4, BudgetAssumption, MaxCostIs
    <3>3. c <= B
      BY <1>3, <2>3, BudgetAssumption DEF OverBudget
    <3>4. /\ x + Load(p) <= Read(p) + P
          /\ ~OverBudget(x) /\ Rest(p) = 0 => x <= Read(p)
      BY <2>1 DEF Bounded
    <3> HIDE DEF P, Q, M, N, B
    <3>5. x + Load(p)' <= Read(p)' + Q
      BY <1>3, <1>7, <3>1, <3>2, <3>3, <3>4
    <3>6. x + B + N <= c + Owed(p)' + Read(p)' + Q
      BY <1>3, <1>7, <3>1, <3>2, <3>4
    <3>7. Rest(p)' # 0 /\ (Rest(p)' = 1 => Rest(p) = 0)
      BY <1>7, <3>1
    <3>8. ~OverBudget(x) /\ Rest(p)' = 1 => x <= c + Owed(p)' + Read(p)'
      BY <1>3, <1>7, <3>1, <3>4, <3>7
    <3>9. Bounded(x, Load(p)', Read(p)', Rest(p)') /\ Backed(x, Read(p)', Rest(p)', Owed(p)', c)
      BY <3>5, <3>6, <3>7, <3>8 DEF Bounded, Backed, Q, N, B
    <3> QED
      BY <1>5, <3>9, CurrentIs
  <2> QED
    BY <2>2, <2>3
<1>9. CacheHasReason(p)'
  BY <1>4, <1>7 DEF CacheHasReason
<1>10. \A m : LateOf(v, m) = 0 /\ LateOf(req[r], m) = 0
  BY <1>2, <1>4 DEF LateOf
<1> QED
  BY <1>1, <1>2, <1>4, <1>5, <1>8, <1>9, <1>10, RequestGoesOn

\* Steps that leave the cache and take at most something off the load.
LEMMA LoadFalls ==
    ASSUME IInv, NEW r \in Requests, NEW v \in Progress, GoesOn(r, v),
           month' = month, rows' = rows, lost' \in 0 .. MaxLost, cache' = cache,
           v.pc \in {"idle", "inserting", "inserted"},
           req[r].pc \in {"querying", "in_flight", "inserting"},
           LoadOf(v) <= LoadOf(req[r]),
           \A m \in Months : m < month => LateOf(v, m) <= LateOf(req[r], m)
    PROVE  IInv'
<1> DEFINE p == PodOf[r]
<1>1. /\ month \in Months /\ rows \in [Months -> Nat] /\ cache \in [Pods -> Caches]
      /\ req \in [Requests -> Progress] /\ p \in Pods /\ PodOf[r] = p
  BY TypesAre, PodsAssumption DEF IInv
<1> HIDE DEF p
<1>2. /\ RestOf(req[r]) = 1 /\ RestOf(v) = 1 /\ ReadOf(req[r]) = 0 /\ ReadOf(v) = 0 /\ OwedOf(req[r]) = 0
      /\ OwedOf(v) \in Nat /\ LoadOf(v) \in Nat /\ LoadOf(req[r]) \in Nat
  <2>1. req[r] \in Progress
    BY <1>1
  <2> QED
    BY <2>1, Weights DEF RestOf, ReadOf, OwedOf, Lets
<1>3. /\ Rest(p) \in Nat /\ Read(p) \in Nat /\ Load(p) \in Nat /\ Owed(p) \in Nat
      /\ Rest(p)' \in Nat /\ Read(p)' \in Nat /\ Load(p)' \in Nat /\ Owed(p)' \in Nat
      /\ Rest(p)' + RestOf(req[r]) = Rest(p) + RestOf(v)
      /\ Read(p)' + ReadOf(req[r]) = Read(p) + ReadOf(v)
      /\ Load(p)' + LoadOf(req[r]) = Load(p) + LoadOf(v)
      /\ Owed(p)' + OwedOf(req[r]) = Owed(p) + OwedOf(v)
      /\ req'[r] = v /\ r \in Mine(p)
  BY <1>1, OwnPod
<1>4. Rest(p)' = Rest(p) /\ Read(p)' = Read(p) /\ Load(p)' <= Load(p) /\ Owed(p)' >= Owed(p)
  <2>1. LoadOf(v) <= LoadOf(req[r])
    OBVIOUS
  <2> QED
    BY ONLY <1>2, <1>3, <2>1
<1>5. ASSUME NEW x \in Nat, Current(p, x) PROVE Current(p, x)'
  <2> DEFINE P == PodBound(Rest(p))
             M == MaxCost * Rest(p)
             B == Budget - 1
             c == cache[p].cost
  <2>1. P \in Nat /\ M \in Nat /\ B \in Nat
    BY <1>3, BoundGrows, BudgetAssumption
  <2>2. Bounded(x, Load(p), Read(p), Rest(p)) /\ (Cached(p) => Backed(x, Read(p), Rest(p), Owed(p), c))
    BY <1>5, CurrentIs
  <2>3. Bounded(x, Load(p)', Read(p), Rest(p))
    <3>1. x + Load(p) <= Read(p) + P
      BY <2>2 DEF Bounded
    <3> HIDE DEF P
    <3>2. x + Load(p)' <= Read(p) + P
      BY <1>3, <1>4, <2>1, <3>1
    <3> QED
      BY <2>2, <3>2 DEF Bounded, P
  <2>4. ASSUME Cached(p) PROVE Backed(x, Read(p), Rest(p), Owed(p)', c)
    <3>1. c \in Nat
      BY <1>1, <2>4, EntryIs DEF Cached
    <3>2. /\ ~OverBudget(c) => x + B + M <= c + Owed(p) + Read(p) + P
          /\ ~OverBudget(x) /\ Rest(p) = 1 => x <= c + Owed(p) + Read(p)
      BY <2>2, <2>4 DEF Backed
    <3> HIDE DEF P, M, B, c
    <3>3. /\ ~OverBudget(c) => x + B + M <= c + Owed(p)' + Read(p) + P
          /\ ~OverBudget(x) /\ Rest(p) = 1 => x <= c + Owed(p)' + Read(p)
      BY <1>3, <1>4, <2>1, <3>1, <3>2
    <3> QED
      BY <3>3 DEF Backed, P, M, B
  <2> QED
    BY <1>4, <2>3, <2>4, CurrentIs DEF Cached
<1>6. CacheHasReason(p)'
  BY <1>3 DEF CacheHasReason
<1> QED
  BY <1>1, <1>5, <1>6, RequestGoesOn

\* The provider answers.
LEMMA ProviderAnswersKeeps ==
    ASSUME IInv, NEW r \in Requests, NEW c \in Costs, ProviderAnswers(r, c)
    PROVE  IInv'
<1> DEFINE v == [pc |-> "inserting", cost |-> c, since |-> month]
<1>1. month \in Months /\ lost \in 0 .. MaxLost
  BY TypesAre DEF IInv
<1>2. v \in Progress /\ v.pc = "inserting" /\ v.since = month
  BY <1>1, ProgressIs
<1>3. /\ req[r].pc = "in_flight" /\ GoesOn(r, v)
      /\ month' = month /\ rows' = rows /\ lost' = lost /\ cache' = cache
  BY DEF ProviderAnswers, At, GoesOn
<1> HIDE DEF v
<1>4. LoadOf(v) = MaxCost /\ LoadOf(req[r]) = MaxCost /\ MaxCost \in Nat
  BY <1>2, <1>3, MaxCostIs DEF LoadOf
<1>5. \A m \in Months : m < month => LateOf(v, m) = 0 /\ LateOf(req[r], m) = 0
  BY <1>1, <1>2, <1>3 DEF LateOf, Months
<1> QED
  BY <1>1, <1>2, <1>3, <1>4, <1>5, LoadFalls

\* The query fails, or the provider, or nothing is charged.
LEMMA EndUnchargedKeeps ==
    ASSUME IInv, NEW r \in Requests, QueryFails(r) \/ EndUncharged(r)
    PROVE  IInv'
<1>1. lost \in 0 .. MaxLost
  BY TypesAre DEF IInv
<1>2. /\ req[r].pc \in {"querying", "in_flight"} /\ GoesOn(r, Idle)
      /\ month' = month /\ rows' = rows /\ lost' = lost /\ cache' = cache
  BY DEF QueryFails, EndUncharged, At, GoesOn
<1>3. Idle \in Progress /\ Idle.pc = "idle"
  BY ProgressIs
<1>4. LoadOf(Idle) = 0 /\ LoadOf(req[r]) \in {0, MaxCost} /\ MaxCost \in Nat
  BY <1>2, <1>3, MaxCostIs DEF LoadOf
<1>5. \A m : LateOf(Idle, m) = 0 /\ LateOf(req[r], m) = 0
  BY <1>2, <1>3 DEF LateOf
<1> QED
  BY <1>1, <1>2, <1>3, <1>4, <1>5, LoadFalls

\* record_tokens fails.
LEMMA ChargeFailsKeeps ==
    ASSUME IInv, NEW r \in Requests, NEW c \in Costs, ChargeFails(r, c)
    PROVE  IInv'
<1>1. lost \in 0 .. MaxLost /\ c \in Nat
  BY TypesAre, MaxCostIs DEF IInv
<1>2. /\ req[r].pc = "in_flight" /\ GoesOn(r, Idle) /\ lost + c <= MaxLost /\ lost' = lost + c
      /\ month' = month /\ rows' = rows /\ cache' = cache
  BY DEF ChargeFails, At, GoesOn
<1>3. Idle \in Progress /\ Idle.pc = "idle"
  BY ProgressIs
<1>4. LoadOf(Idle) = 0 /\ LoadOf(req[r]) = MaxCost /\ MaxCost \in Nat
  BY <1>2, <1>3, MaxCostIs DEF LoadOf
<1>5. \A m : LateOf(Idle, m) = 0 /\ LateOf(req[r], m) = 0
  BY <1>2, <1>3 DEF LateOf
<1>6. lost' \in 0 .. MaxLost
  BY <1>1, <1>2, BoundsAssumption
<1> QED
  BY <1>2, <1>3, <1>4, <1>5, <1>6, LoadFalls

\* The insert fails.
LEMMA InsertFailsKeeps ==
    ASSUME IInv, NEW r \in Requests, InsertFails(r)
    PROVE  IInv'
<1> DEFINE c == req[r].cost
           v == Inserted(c)
<1>1. lost \in 0 .. MaxLost /\ req \in [Requests -> Progress] /\ month \in Months
  BY TypesAre DEF IInv
<1>2. /\ req[r].pc = "inserting" /\ GoesOn(r, v) /\ lost + c <= MaxLost /\ lost' = lost + c
      /\ month' = month /\ rows' = rows /\ cache' = cache
  BY DEF InsertFails, At, GoesOn
<1>3. c \in Costs /\ c \in Nat
  BY <1>1, <1>2, ProgressIs, MaxCostIs
<1> HIDE DEF c
<1>4. v \in Progress /\ v.pc = "inserted"
  BY <1>3, ProgressIs
<1> HIDE DEF v
<1>5. LoadOf(v) = 0 /\ LoadOf(req[r]) = MaxCost /\ MaxCost \in Nat
  BY <1>2, <1>4, MaxCostIs DEF LoadOf
<1>6. \A m : LateOf(v, m) = 0 /\ LateOf(req[r], m) \in Nat
  BY <1>4, MaxCostIs DEF LateOf
<1>7. lost' \in 0 .. MaxLost
  BY <1>1, <1>2, <1>3, BoundsAssumption
<1> QED
  BY <1>2, <1>4, <1>5, <1>6, <1>7, LoadFalls

\* The row is committed: what the completion might cost is now spent, in the
\* month the row got, and owed to the cache.
LEMMA InsertCommitsShare ==
    ASSUME req \in [Requests -> Progress], month \in Months, month' = month, cache' = cache,
           cache \in [Pods -> Caches],
           NEW r \in Requests, NEW p \in Pods, PodOf[r] = p, req[r].pc = "inserting",
           NEW c \in Costs, GoesOn(r, Inserted(c)),
           NEW k \in Months, req[r].since <= k, k <= month,
           NEW m \in Months, NEW d \in Nat, d = IF m = k THEN c ELSE 0,
           NEW x \in Nat, Share(p, m, x)
    PROVE  Share(p, m, x + d)'
<1> DEFINE v == Inserted(c)
<1>1. v \in Progress /\ v.pc = "inserted" /\ v.cost = c /\ c \in Nat /\ c <= MaxCost /\ MaxCost \in Nat
  BY ProgressIs, MaxCostIs
<1>2. /\ RestOf(req[r]) = 1 /\ ReadOf(req[r]) = 0 /\ LoadOf(req[r]) = MaxCost /\ OwedOf(req[r]) = 0
      /\ RestOf(v) = 1 /\ ReadOf(v) = 0 /\ LoadOf(v) = 0 /\ OwedOf(v) = c
      /\ LateOf(v, m) = 0
  BY <1>1 DEF RestOf, ReadOf, LoadOf, OwedOf, LateOf, Lets
<1>3. /\ Rest(p) \in Nat /\ Read(p) \in Nat /\ Load(p) \in Nat /\ Owed(p) \in Nat
      /\ Rest(p)' \in Nat /\ Read(p)' \in Nat /\ Load(p)' \in Nat /\ Owed(p)' \in Nat
      /\ Rest(p)' + RestOf(req[r]) = Rest(p) + RestOf(v)
      /\ Read(p)' + ReadOf(req[r]) = Read(p) + ReadOf(v)
      /\ Load(p)' + LoadOf(req[r]) = Load(p) + LoadOf(v)
      /\ Owed(p)' + OwedOf(req[r]) = Owed(p) + OwedOf(v)
      /\ Late(p, m)' + LateOf(req[r], m) = Late(p, m) + LateOf(v, m)
      /\ req' \in [Requests -> Progress] /\ req'[r] = v /\ r \in Mine(p)
  BY <1>1, OwnPod
<1> HIDE DEF v
<1>4. /\ Rest(p)' = Rest(p) /\ Read(p)' = Read(p)
      /\ Load(p)' + MaxCost = Load(p) /\ Owed(p)' = Owed(p) + c
  <2>1. c \in Nat /\ MaxCost \in Nat
    BY <1>1
  <2>2. Rest(p)' = Rest(p)
    BY <1>2, <1>3
  <2>3. Read(p)' = Read(p)
    BY <1>2, <1>3
  <2>4. Load(p)' + MaxCost = Load(p)
    BY <1>2, <1>3, <2>1
  <2>5. Owed(p)' = Owed(p) + c
    BY <1>2, <1>3, <2>1
  <2> QED
    BY <2>2, <2>3, <2>4, <2>5
<1>5. Rest(p)' >= 1
  BY <1>2, <1>3, RestCounts
<1>6. d <= c
  BY <1>1
<1> DEFINE P == PodBound(Rest(p))
           M == MaxCost * Rest(p)
           B == Budget - 1
<1>7. P \in Nat /\ M \in Nat /\ B \in Nat /\ ~OverBudget(x + d) => ~OverBudget(x)
  BY <1>3, BoundGrows, BudgetAssumption DEF OverBudget
<1>8. ASSUME Current(p, x) PROVE Current(p, x + d)'
  <2> DEFINE e == cache[p].cost
  <2>1. Bounded(x, Load(p), Read(p), Rest(p)) /\ (Cached(p) => Backed(x, Read(p), Rest(p), Owed(p), e))
    BY <1>8, CurrentIs
  <2>2. Bounded(x + d, Load(p)', Read(p), Rest(p))
    <3>1. x + Load(p) <= Read(p) + P
      BY <2>1 DEF Bounded
    <3>2. P \in Nat
      BY <1>3, BoundGrows
    <3> HIDE DEF P
    <3>3. x + d + Load(p)' <= Read(p) + P
      BY ONLY <1>1, <1>3, <1>4, <1>6, <3>1, <3>2, d \in Nat, x \in Nat
    <3> QED
      BY <1>4, <1>5, <3>3 DEF Bounded, P
  <2>3. ASSUME Cached(p) PROVE Backed(x + d, Read(p), Rest(p), Owed(p)', e)
    <3>1. e \in Nat
      BY <2>3, EntryIs DEF Cached
    <3>2. /\ ~OverBudget(e) => x + B + M <= e + Owed(p) + Read(p) + P
          /\ ~OverBudget(x) /\ Rest(p) = 1 => x <= e + Owed(p) + Read(p)
      BY <2>1, <2>3 DEF Backed
    <3>3. P \in Nat /\ M \in Nat /\ B \in Nat
      BY <1>3, BoundGrows, BudgetAssumption
    <3>4. ~OverBudget(x + d) => ~OverBudget(x)
      BY BudgetAssumption DEF OverBudget
    <3> HIDE DEF P, M, B, e
    <3>5. /\ ~OverBudget(e) => x + d + B + M <= e + Owed(p)' + Read(p) + P
          /\ ~OverBudget(x + d) /\ Rest(p) = 1 => x + d <= e + Owed(p)' + Read(p)
      BY ONLY <1>1, <1>3, <1>4, <1>6, <3>1, <3>2, <3>3, <3>4, d \in Nat, x \in Nat
    <3> QED
      BY <3>5 DEF Backed, P, M, B
  <2> QED
    BY <1>4, <2>2, <2>3, CurrentIs DEF Cached
<1>9. ASSUME month > m, Past(p, m, x) PROVE Past(p, m, x + d)'
  <2>1. LateOf(req[r], m) \in Nat /\ d <= LateOf(req[r], m)
    BY <1>1 DEF LateOf
  <2>2. Late(p, m) \in Nat /\ Late(p, m)' \in Nat
    BY <1>3, Numbers, NumbersNext
  <2>3. Late(p, m)' + d <= Late(p, m)
    BY ONLY <1>2, <1>3, <2>1, <2>2, d \in Nat
  <2>4. x + Late(p, m) <= PodBound(Cardinality(Mine(p)))
    BY <1>9 DEF Past
  <2>5. PodBound(Cardinality(Mine(p))) \in Nat
    BY Numbers, BoundGrows
  <2>6. x + d + Late(p, m)' <= PodBound(Cardinality(Mine(p)))
    BY ONLY <2>2, <2>3, <2>4, <2>5, d \in Nat, x \in Nat
  <2> QED
    BY <2>6 DEF Past
<1>10. month < m => d = 0
  BY DEF Months
<1> QED
  BY <1>8, <1>9, <1>10 DEF Share

\* The row is committed.
LEMMA InsertCommitsKeeps ==
    ASSUME IInv, NEW r \in Requests, InsertCommits(r)
    PROVE  IInv'
<1> DEFINE p == PodOf[r]
<1>1. /\ month \in Months /\ rows \in [Months -> Nat] /\ cache \in [Pods -> Caches]
      /\ req \in [Requests -> Progress] /\ lost \in 0 .. MaxLost /\ p \in Pods /\ PodOf[r] = p
  BY TypesAre, PodsAssumption DEF IInv
<1>2. req[r].pc = "inserting"
  BY DEF InsertCommits, At
<1>3. req[r].cost \in Costs /\ req[r].since \in Months
  BY <1>1, <1>2, ProgressIs
<1>4. PICK c \in Costs : c = req[r].cost
  BY <1>3
<1> DEFINE v == Inserted(c)
<1>5. /\ GoesOn(r, v)
      /\ month' = month /\ lost' = lost /\ cache' = cache
      /\ \E k \in req[r].since .. month : rows' = [rows EXCEPT ![k] = @ + c]
  BY <1>4 DEF InsertCommits, GoesOn
<1>6. c \in Nat /\ req[r].since \in Months
  BY <1>3, MaxCostIs
<1>7. PICK k \in req[r].since .. month : rows' = [rows EXCEPT ![k] = @ + c]
  BY <1>5
<1>8. k \in Months /\ req[r].since <= k /\ k <= month
  <2>1. month \in Int /\ req[r].since \in 1 .. LastMonth /\ LastMonth \in Nat /\ month \in 1 .. LastMonth
    BY <1>1, <1>6, BoundsAssumption DEF Months
  <2> QED
    BY <2>1 DEF Months
<1> HIDE DEF p
<1>9. v \in Progress /\ v.pc = "inserted"
  BY <1>6, ProgressIs
<1>10. req' \in [Requests -> Progress] /\ req'[r] = v /\ r \in Mine(p) /\ \A s \in Requests : s # r => req'[s] = req[s]
  BY <1>1, <1>5, <1>9, OwnPod
<1>11. rows' \in [Months -> Nat] /\ \A m \in Months : rows'[m] = IF m = k THEN rows[m] + c ELSE rows[m]
  BY <1>1, <1>6, <1>7, <1>8
<1>12. TypeOK'
  BY <1>1, <1>5, <1>10, <1>11, TypesAreNext
<1>13. ReadsAreDated'
  BY <1>5, <1>9, <1>10 DEF IInv, ReadsAreDated, At
<1>14. ASSUME NEW q \in Pods PROVE CacheHasReason(q)'
  <2>1. CASE q = p
    BY <1>9, <1>10, <2>1 DEF CacheHasReason
  <2>2. CASE q # p
    <3>1. \A s \in Mine(q) : s \in Requests /\ s # r
      BY <1>1, <2>2 DEF Mine
    <3> QED
      BY <1>5, <1>10, <3>1 DEF IInv, CacheHasReason, Cached
  <2> QED
    BY <2>1, <2>2
<1>15. ASSUME NEW m \in Months
       PROVE  \E s \in [Pods -> Nat] :
                 /\ SumFunctionOnSet(s, Pods) = rows'[m]
                 /\ \A q \in Pods : Share(q, m, s[q])'
  <2> DEFINE d == IF m = k THEN c ELSE 0
  <2>1. d \in Nat
    BY <1>6
  <2>2. rows'[m] = rows[m] + d
    BY <1>1, <1>11
  <2>3. PICK s \in [Pods -> Nat] :
           /\ SumFunctionOnSet(s, Pods) = rows[m]
           /\ \A q \in Pods : Share(q, m, s[q])
    BY DEF IInv, RowsAreShared
  <2> DEFINE t == [s EXCEPT ![p] = @ + d]
  <2>4. /\ t \in [Pods -> Nat] /\ t[p] = s[p] + d /\ \A q \in Pods \ {p} : t[q] = s[q]
        /\ \A q \in Pods : t[q] \in Nat /\ s[q] \in Nat
    BY <1>1, <2>1
  <2> HIDE DEF t
  <2>5. SumFunctionOnSet(t, Pods) = rows'[m]
    <3>1. SumFunctionOnSet(t, Pods) + s[p] = SumFunctionOnSet(s, Pods) + t[p]
      BY <1>1, <2>4, SumChanged, PodsAssumption
    <3>2. SumFunctionOnSet(t, Pods) \in Nat /\ rows[m] \in Nat
      BY <1>1, <2>4, ShareIsPart
    <3> HIDE DEF d
    <3> QED
      BY <1>1, <2>1, <2>2, <2>3, <2>4, <3>1, <3>2
  <2>6. Share(p, m, t[p])'
    <3>1. Share(p, m, s[p]) /\ s[p] \in Nat
      BY <1>1, <2>3
    <3>2. Share(p, m, s[p] + d)'
      BY <1>1, <1>2, <1>5, <1>6, <1>8, <2>1, <3>1, InsertCommitsShare
    <3> QED
      BY <2>4, <3>2
  <2>7. ASSUME NEW q \in Pods, q # p PROVE Share(q, m, t[q])'
    <3>1. \A u \in Mine(q) : req'[u] = req[u]
      BY <1>1, <1>10, <2>7 DEF Mine
    <3>2. Share(q, m, s[q])'
      BY <1>1, <1>5, <1>10, <2>3, <3>1, ShareStays
    <3> QED
      BY <2>4, <2>7, <3>2
  <2> QED
    BY <2>4, <2>5, <2>6, <2>7
<1>16. RowsAreShared'
  BY <1>15 DEF RowsAreShared, Months
<1> QED
  BY <1>12, <1>13, <1>14, <1>16 DEF IInv

\* record_spend: what was owed to the cache is now in it.
LEMMA RecordSpendKeeps ==
    ASSUME IInv, NEW r \in Requests, RecordSpend(r)
    PROVE  IInv'
<1> DEFINE p == PodOf[r]
           c == req[r].cost
           e == cache[p]
<1>1. /\ month \in Months /\ rows \in [Months -> Nat] /\ cache \in [Pods -> Caches]
      /\ req \in [Requests -> Progress] /\ lost \in 0 .. MaxLost /\ p \in Pods /\ PodOf[r] = p
  BY TypesAre, PodsAssumption DEF IInv
<1>2. /\ req[r].pc = "inserted" /\ GoesOn(r, Idle)
      /\ month' = month /\ rows' = rows /\ lost' = lost
      /\ cache' = IF e # NotCached THEN [cache EXCEPT ![p] = AfterSpend(e, c)] ELSE cache
  BY DEF RecordSpend, At, GoesOn, Cached
<1>3. c \in Nat /\ e \in Caches
  BY <1>1, <1>2, ProgressIs, MaxCostIs
<1>4. Idle \in Progress /\ Idle.pc = "idle"
  BY ProgressIs
<1>5. /\ RestOf(req[r]) = 1 /\ ReadOf(req[r]) = 0 /\ LoadOf(req[r]) = 0 /\ OwedOf(req[r]) = c
      /\ RestOf(Idle) = 1 /\ ReadOf(Idle) = 0 /\ LoadOf(Idle) = 0 /\ OwedOf(Idle) = 0
  BY <1>2, <1>4 DEF RestOf, ReadOf, LoadOf, OwedOf, Lets
<1>6. ASSUME e # NotCached PROVE AfterSpend(e, c) \in Caches /\ AfterSpend(e, c) # NotCached /\ AfterSpend(e, c).cost = e.cost + c
  <2>1. e.cost \in Nat /\ e.cost + c \in Nat
    BY <1>3, <1>6, EntryIs
  <2>2. CASE c > 0
    BY <2>1, <2>2, EntryIs DEF AfterSpend
  <2>3. CASE ~(c > 0)
    <3>1. e.cost + c = e.cost
      BY <1>3, <2>1, <2>3
    <3> QED
      BY <1>3, <1>6, <2>3, <3>1 DEF AfterSpend
  <2> QED
    BY <2>2, <2>3
<1>7. /\ cache' \in [Pods -> Caches]
      /\ \A q \in Pods : q # p => cache'[q] = cache[q]
      /\ Cached(p)' => e # NotCached /\ cache'[p].cost = e.cost + c
  BY <1>1, <1>2, <1>6 DEF Cached
<1> HIDE DEF p, c
<1>8. /\ Rest(p) \in Nat /\ Read(p) \in Nat /\ Load(p) \in Nat /\ Owed(p) \in Nat
      /\ Rest(p)' \in Nat /\ Read(p)' \in Nat /\ Load(p)' \in Nat /\ Owed(p)' \in Nat
      /\ Rest(p)' + RestOf(req[r]) = Rest(p) + RestOf(Idle)
      /\ Read(p)' + ReadOf(req[r]) = Read(p) + ReadOf(Idle)
      /\ Load(p)' + LoadOf(req[r]) = Load(p) + LoadOf(Idle)
      /\ Owed(p)' + OwedOf(req[r]) = Owed(p) + OwedOf(Idle)
      /\ req'[r] = Idle /\ r \in Mine(p)
  BY <1>1, <1>2, <1>4, OwnPod
<1>9. Rest(p)' = Rest(p) /\ Read(p)' = Read(p) /\ Load(p)' = Load(p) /\ Owed(p)' + c = Owed(p)
  <2>1. Rest(p)' = Rest(p)
    BY <1>5, <1>8
  <2>2. Read(p)' = Read(p)
    BY <1>5, <1>8
  <2>3. Load(p)' = Load(p)
    BY <1>5, <1>8
  <2>4. Owed(p)' + c = Owed(p)
    BY <1>3, <1>5, <1>8
  <2> QED
    BY <2>1, <2>2, <2>3, <2>4
<1>10. ASSUME NEW x \in Nat, Current(p, x) PROVE Current(p, x)'
  <2>1. Bounded(x, Load(p), Read(p), Rest(p))
    BY <1>10, CurrentIs
  <2>2. ASSUME Cached(p)' PROVE Backed(x, Read(p), Rest(p), Owed(p)', cache'[p].cost)
    <3> DEFINE f == e.cost
               P == PodBound(Rest(p))
               M == MaxCost * Rest(p)
               B == Budget - 1
    <3>1. f \in Nat /\ cache'[p].cost = f + c
      BY <1>3, <1>7, <2>2, EntryIs
    <3>2. Backed(x, Read(p), Rest(p), Owed(p), f)
      BY <1>7, <1>10, <2>2, CurrentIs DEF Cached
    <3>3. /\ ~OverBudget(f) => x + B + M <= f + Owed(p) + Read(p) + P
          /\ ~OverBudget(x) /\ Rest(p) = 1 => x <= f + Owed(p) + Read(p)
      BY <3>2 DEF Backed
    <3>4. ~OverBudget(f + c) => ~OverBudget(f)
      BY <1>3, <3>1, BudgetAssumption DEF OverBudget
    <3>5. f + Owed(p) = f + c + Owed(p)'
      BY <1>3, <1>8, <1>9, <3>1
    <3>6. Backed(x, Read(p), Rest(p), Owed(p)', f + c)
      BY <3>3, <3>4, <3>5 DEF Backed
    <3> QED
      BY <3>1, <3>6
  <2> QED
    BY <1>9, <2>1, <2>2, CurrentIs
<1>11. CacheHasReason(p)'
  BY <1>4, <1>8 DEF CacheHasReason
<1>12. \A m : LateOf(Idle, m) = 0 /\ LateOf(req[r], m) = 0
  BY <1>2, <1>4 DEF LateOf
<1> QED
  BY <1>1, <1>2, <1>4, <1>7, <1>10, <1>11, <1>12, RequestGoesOn

-----------------------------------------------------------------------------
(* The other steps                                                          *)

\* The bound grows with the requests, and a request that an answer lets
\* through takes no more of it than one that is not held up.
LEMMA BoundIs ==
    ASSUME NEW k \in Nat, NEW n \in Nat, k <= n, NEW a \in Nat, (Budget - 1) * k + a <= (Budget - 1) * n
    PROVE  a + PodBound(k) <= PodBound(n)
<1> DEFINE B == Budget - 1
           K(i) == (i * (i + 1)) \div 2
<1>1. B \in Nat /\ MaxCost \in Nat
  BY MaxCostIs, BudgetAssumption
<1>2. K(k) \in Nat /\ K(n) \in Nat /\ K(k) <= K(n)
  <2>1. k * (k + 1) \in Nat /\ n * (n + 1) \in Nat /\ k * (k + 1) <= n * (n + 1)
    OBVIOUS
  <2>2. \A i, j \in Nat : i <= j => i \div 2 \in Nat /\ j \div 2 \in Nat /\ i \div 2 <= j \div 2
    OBVIOUS
  <2> QED
    BY <2>1, <2>2
<1>3. PodBound(k) = k * B + K(k) * MaxCost /\ PodBound(n) = n * B + K(n) * MaxCost
  BY DEF PodBound
<1>4. B * k + a <= B * n
  OBVIOUS
<1> HIDE DEF B, K
<1>5. /\ K(k) * MaxCost \in Nat /\ K(n) * MaxCost \in Nat /\ k * B \in Nat /\ n * B \in Nat
      /\ K(k) * MaxCost <= K(n) * MaxCost /\ k * B = B * k /\ n * B = B * n
  BY <1>1, <1>2
<1> QED
  BY <1>3, <1>4, <1>5

\* So much can a pod have, in the end.
LEMMA WithinBound ==
    ASSUME req \in [Requests -> Progress], NEW p
    PROVE  /\ Read(p) + PodBound(Rest(p)) <= PodBound(Cardinality(Mine(p)))
           /\ PodBound(Rest(p)) \in Nat /\ PodBound(Cardinality(Mine(p))) \in Nat
BY Numbers, BoundIs, BoundGrows

\* A share never exceeds it.
LEMMA ShareIsBounded ==
    ASSUME req \in [Requests -> Progress], month \in Months, NEW p, NEW m \in Months,
           NEW x \in Nat, Share(p, m, x)
    PROVE  x + Late(p, m) <= PodBound(Cardinality(Mine(p))) \/ (month < m /\ x = 0)
<1>1. month \in Int /\ m \in Int
  BY DEF Months
<1>2. CASE month = m
  <2>1. x + Load(p) <= Read(p) + PodBound(Rest(p))
    BY <1>2 DEF Share, Current, Bounded
  <2>2. /\ Load(p) \in Nat /\ Read(p) \in Nat /\ Late(p, m) \in Nat /\ Late(p, m) <= Load(p)
    BY Numbers
  <2> QED
    BY <2>1, <2>2, WithinBound
<1>3. CASE month > m
  BY <1>3 DEF Share, Past
<1>4. CASE month < m
  BY <1>4 DEF Share
<1> QED
  BY <1>1, <1>2, <1>3, <1>4

\* A pod that has spent nothing yet.
LEMMA NothingSpent ==
    ASSUME TypeOK', NEW p \in Pods, CacheHasReason(p)'
    PROVE  Current(p, 0)'
<1>1. req' \in [Requests -> Progress] /\ cache' \in [Pods -> Caches]
  BY TypesAreNext
<1>2. /\ Rest(p)' \in Nat /\ Read(p)' \in Nat /\ Load(p)' \in Nat /\ Owed(p)' \in Nat
      /\ Load(p)' + Owed(p)' <= MaxCost * Rest(p)'
  BY <1>1, NumbersNext
<1>3. ~OverBudget(0) /\ 0 \in Nat
  BY BudgetAssumption DEF OverBudget
<1>4. Bounded(0, Load(p)', Read(p)', Rest(p)')
  <2>1. 0 <= Read(p)'
    BY <1>2
  <2> QED
    BY <1>2, <1>3, <2>1, Early
<1>5. ASSUME Cached(p)' PROVE Backed(0, Read(p)', Rest(p)', Owed(p)', cache'[p].cost)
  <2> DEFINE c == cache'[p].cost
  <2>1. c \in Nat
    BY <1>1, <1>5, EntryIs DEF Cached
  <2>2. PICK r \in Mine(p) : req'[r].pc \notin {"querying", "answered"}
    BY <1>5 DEF CacheHasReason
  <2>3. RestOf(req'[r]) = 1
    BY <2>2 DEF RestOf, Lets
  <2>4. Rest(p)' >= 1
    BY <1>1, <2>3, RestCounts
  <2> HIDE DEF c
  <2>5. 0 <= c + Owed(p)' + Read(p)'
    BY <1>2, <2>1
  <2>6. Backed(0, Read(p)', Rest(p)', Owed(p)', c)
    BY <1>2, <1>3, <2>1, <2>4, <2>5, Early
  <2> QED
    BY <2>6 DEF c
<1> QED
  BY <1>4, <1>5, CurrentIs

\* The clock: an entry becomes older, or is gone.
LEMMA TickKeeps ==
    ASSUME IInv, Tick
    PROVE  IInv'
<1>1. /\ month \in Months /\ rows \in [Months -> Nat] /\ cache \in [Pods -> Caches]
      /\ req \in [Requests -> Progress] /\ lost \in 0 .. MaxLost
  BY TypesAre DEF IInv
<1>2. /\ cache' = [p \in Pods |-> Aged(cache[p])]
      /\ month' = month /\ rows' = rows /\ lost' = lost /\ req' = req
  BY DEF Tick
<1>3. /\ cache' \in [Pods -> Caches]
      /\ \A p \in Pods : Cached(p)' => Cached(p) /\ cache'[p].cost = cache[p].cost
  BY <1>1, <1>2, AgedIs DEF Cached
<1>4. TypeOK'
  BY <1>1, <1>2, <1>3, TypesAreNext
<1>5. ReadsAreDated'
  BY <1>2 DEF IInv, ReadsAreDated, At
<1>6. \A p \in Pods : CacheHasReason(p)'
  BY <1>2, <1>3 DEF IInv, CacheHasReason
<1>7. ASSUME NEW m \in Months, NEW p \in Pods, NEW x \in Nat, Share(p, m, x)
      PROVE  Share(p, m, x)'
  <2>1. /\ Rest(p)' = Rest(p) /\ Read(p)' = Read(p) /\ Load(p)' = Load(p) /\ Owed(p)' = Owed(p)
        /\ Late(p, m)' = Late(p, m)
    BY <1>1, <1>2, PodStays
  <2>2. Current(p, x) => Current(p, x)'
    BY <1>3, <2>1, CurrentIs
  <2>3. Past(p, m, x) => Past(p, m, x)'
    BY <2>1 DEF Past
  <2> QED
    BY <1>2, <1>7, <2>2, <2>3 DEF Share
<1>8. RowsAreShared'
  BY <1>2, <1>7 DEF IInv, RowsAreShared, Months
<1> QED
  BY <1>4, <1>5, <1>6, <1>8 DEF IInv

\* A month is over: what its rows may still get is bounded like the rest.
LEMMA NewMonthKeeps ==
    ASSUME IInv, NewMonth
    PROVE  IInv'
<1>1. /\ month \in Months /\ rows \in [Months -> Nat] /\ cache \in [Pods -> Caches]
      /\ req \in [Requests -> Progress] /\ lost \in 0 .. MaxLost
  BY TypesAre DEF IInv
<1>2. /\ month < LastMonth /\ month' = month + 1
      /\ cache' = cache /\ rows' = rows /\ lost' = lost /\ req' = req
  BY DEF NewMonth
<1>3. month' \in Months /\ month \in Int
  BY <1>1, <1>2, BoundsAssumption DEF Months
<1>4. TypeOK'
  BY <1>1, <1>2, <1>3, TypesAreNext
<1>5. ReadsAreDated'
  <2>1. \A r \in Requests : At(r, "querying") => req[r].since \in Months
    BY <1>1, ProgressIs DEF At
  <2> QED
    BY <1>2, <1>3, <2>1 DEF IInv, ReadsAreDated, At, Months
<1>6. \A p \in Pods : CacheHasReason(p)'
  BY <1>2 DEF IInv, CacheHasReason, Cached
<1>7. ASSUME NEW m \in Months, NEW p \in Pods, NEW x \in Nat, Share(p, m, x)
      PROVE  Share(p, m, x)'
  <2>1. Late(p, m)' = Late(p, m) /\ m \in Int
    BY <1>1, <1>2, PodStays DEF Months
  <2>2. ASSUME month' > m PROVE Past(p, m, x)'
    <3>1. ~(month < m)
      BY <1>2, <1>3, <2>1, <2>2
    <3> QED
      BY <1>1, <1>7, <2>1, <3>1, ShareIsBounded DEF Past
  <2>3. ASSUME month' = m PROVE Current(p, x)'
    <3>1. month < m
      BY <1>2, <1>3, <2>1, <2>3
    <3>2. x = 0
      BY <1>7, <3>1 DEF Share
    <3> QED
      BY <1>4, <1>6, <3>2, NothingSpent
  <2>4. ASSUME month' < m PROVE x = 0
    <3>1. month < m
      BY <1>2, <1>3, <2>1, <2>4
    <3> QED
      BY <1>7, <3>1 DEF Share
  <2> QED
    BY <2>2, <2>3, <2>4 DEF Share
<1>8. RowsAreShared'
  BY <1>2, <1>7 DEF IInv, RowsAreShared, Months
<1> QED
  BY <1>4, <1>5, <1>6, <1>8 DEF IInv

\* A pod none of whose requests is under way.
LEMMA AllIdle ==
    ASSUME req' \in [Requests -> Progress], NEW p, \A r \in Mine(p) : req'[r] = Idle
    PROVE  /\ Rest(p)' = Cardinality(Mine(p)) /\ Read(p)' = 0 /\ Load(p)' = 0
           /\ \A m : Late(p, m)' = 0
<1> DEFINE S == Mine(p)
           f == Rests(req')
           g == Reads(req')
           h == Loads(req')
           one == [r \in S |-> 1]
<1>1. IsFiniteSet(S) /\ S \subseteq Requests
  BY MineIsFinite
<1>2. RestOf(Idle) = 1 /\ ReadOf(Idle) = 0 /\ LoadOf(Idle) = 0
  BY ProgressIs DEF RestOf, ReadOf, LoadOf, Lets
<1>3. /\ \A r \in S : f[r] = 1 /\ g[r] = 0 /\ h[r] = 0
      /\ \A r \in S : one[r] = 1
  BY <1>1, <1>2 DEF Rests, Reads, Loads
<1>4. SumFunctionOnSet(one, S) = Cardinality(S)
  BY <1>1, SumOfOnes
<1>5. Rest(p)' = SumFunctionOnSet(f, S) /\ Read(p)' = SumFunctionOnSet(g, S) /\ Load(p)' = SumFunctionOnSet(h, S)
  BY DEF Rest, Read, Load
<1>6. \A m : Late(p, m)' \in Nat /\ Late(p, m)' <= Load(p)'
  BY Together DEF Late, Load
<1> HIDE DEF f, g, h, one
<1>7. SumFunctionOnSet(f, S) = SumFunctionOnSet(one, S)
  BY <1>1, <1>3, SumEqual
<1>8. SumFunctionOnSet(g, S) = 0 /\ SumFunctionOnSet(h, S) = 0
  BY <1>1, <1>3, SumOfZeros
<1> QED
  BY <1>4, <1>5, <1>6, <1>7, <1>8

\* A pod is replaced: all its requests are idle, and nothing is cached.
LEMMA RestartKeeps ==
    ASSUME IInv, NEW p \in Pods, Restart(p)
    PROVE  IInv'
<1>1. /\ month \in Months /\ rows \in [Months -> Nat] /\ cache \in [Pods -> Caches]
      /\ req \in [Requests -> Progress] /\ lost \in 0 .. MaxLost
  BY TypesAre DEF IInv
<1>2. /\ cache' = [cache EXCEPT ![p] = NotCached]
      /\ req' = [r \in Requests |-> IF PodOf[r] = p THEN Idle ELSE req[r]]
      /\ month' = month /\ rows' = rows /\ lost' = lost
  BY DEF Restart
<1>3. /\ cache' \in [Pods -> Caches] /\ ~Cached(p)'
      /\ \A q \in Pods : q # p => cache'[q] = cache[q]
  BY <1>1, <1>2, EntryIs DEF Cached
<1>4. /\ req' \in [Requests -> Progress]
      /\ \A r \in Mine(p) : req'[r] = Idle
      /\ \A q : q # p => \A r \in Mine(q) : req'[r] = req[r]
  BY <1>1, <1>2, ProgressIs DEF Mine
<1>5. TypeOK'
  BY <1>1, <1>2, <1>3, <1>4, TypesAreNext
<1>6. ReadsAreDated'
  BY <1>2, ProgressIs DEF IInv, ReadsAreDated, At
<1>7. ASSUME NEW q \in Pods PROVE CacheHasReason(q)'
  <2>1. CASE q = p
    BY <1>3, <2>1 DEF CacheHasReason
  <2>2. CASE q # p
    <3>1. \A r \in Mine(q) : req'[r] = req[r]
      BY <1>4, <2>2
    <3> QED
      BY <1>3, <2>2, <3>1 DEF IInv, CacheHasReason, Cached
  <2> QED
    BY <2>1, <2>2
<1>8. ASSUME NEW m \in Months, NEW x \in Nat, Share(p, m, x)
      PROVE  Share(p, m, x)'
  <2> DEFINE P == PodBound(Cardinality(Mine(p)))
  <2>1. /\ Rest(p)' = Cardinality(Mine(p)) /\ Read(p)' = 0 /\ Load(p)' = 0 /\ Late(p, m)' = 0
    BY <1>4, AllIdle
  <2>2. month \in Int /\ m \in Int /\ (month < m => x = 0)
    BY <1>1, <1>8 DEF Share, Months
  <2>3. x + Late(p, m) <= P \/ x = 0
    BY <1>1, <1>8, ShareIsBounded
  <2>4. Late(p, m) \in Nat /\ P \in Nat /\ PodBound(0) = 0
    BY <1>1, Numbers, BoundGrows
  <2> HIDE DEF P
  <2>5. x <= P
    BY <2>3, <2>4
  <2>6. x + Load(p)' <= Read(p)' + P /\ (Rest(p)' = 0 => P = 0) /\ x + Late(p, m)' <= P
    BY <2>1, <2>4, <2>5 DEF P
  <2>7. Rest(p)' = 0 => x <= Read(p)'
    BY <2>1, <2>4, <2>5, <2>6
  <2>8. Bounded(x, Load(p)', Read(p)', Rest(p)')
    BY <2>1, <2>6, <2>7 DEF Bounded, P
  <2>9. Current(p, x)' /\ Past(p, m, x)'
    BY <1>3, <2>6, <2>8, CurrentIs DEF Past, P
  <2> QED
    BY <1>2, <2>2, <2>9 DEF Share
<1>9. ASSUME NEW m \in Months, NEW q \in Pods, q # p, NEW x \in Nat, Share(q, m, x)
      PROVE  Share(q, m, x)'
  <2>1. \A r \in Mine(q) : req'[r] = req[r]
    BY <1>4, <1>9
  <2> QED
    BY <1>1, <1>2, <1>3, <1>4, <1>9, <2>1, ShareStays
<1>10. \A m \in Months, q \in Pods, x \in Nat : Share(q, m, x) => Share(q, m, x)'
  BY <1>8, <1>9
<1>11. RowsAreShared'
  BY <1>2, <1>10 DEF IInv, RowsAreShared, Months
<1> QED
  BY <1>5, <1>6, <1>7, <1>11 DEF IInv

\* At first nothing has been spent.
LEMMA InitShared == Init => IInv
<1> SUFFICES ASSUME Init PROVE IInv
  OBVIOUS
<1>1. /\ month = 1 /\ rows = [m \in Months |-> 0] /\ lost = 0
      /\ cache = [p \in Pods |-> NotCached] /\ req = [r \in Requests |-> Idle]
  BY DEF Init
<1>2. TypeOK
  BY <1>1, EntryIs, ProgressIs, BoundsAssumption, TypesAre DEF Months
<1>3. ReadsAreDated
  BY <1>1, ProgressIs DEF ReadsAreDated, At
<1>4. \A p \in Pods : ~Cached(p) /\ CacheHasReason(p)
  BY <1>1 DEF CacheHasReason, Cached
<1>5. ASSUME NEW p \in Pods PROVE Current(p, 0)
  <2>1. /\ Rest(p) \in Nat /\ Read(p) \in Nat /\ Load(p) \in Nat /\ Owed(p) \in Nat
        /\ Load(p) + Owed(p) <= MaxCost * Rest(p)
    BY <1>2, TypesAre, Numbers
  <2>2. ~OverBudget(0) /\ 0 \in Nat /\ 0 <= Read(p)
    BY <2>1, BudgetAssumption DEF OverBudget
  <2>3. Bounded(0, Load(p), Read(p), Rest(p))
    BY <2>1, <2>2, Early
  <2> QED
    BY <1>4, <2>3, CurrentIs
<1>6. ASSUME NEW m \in Months
      PROVE  \E s \in [Pods -> Nat] :
                /\ SumFunctionOnSet(s, Pods) = rows[m]
                /\ \A p \in Pods : Share(p, m, s[p])
  <2> DEFINE s == [p \in Pods |-> 0]
  <2>1. s \in [Pods -> Nat] /\ \A p \in Pods : s[p] = 0
    OBVIOUS
  <2> HIDE DEF s
  <2>2. SumFunctionOnSet(s, Pods) = rows[m]
    BY <1>1, <2>1, SumOfZeros, PodsAssumption
  <2>3. ~(month > m)
    BY <1>1 DEF Months
  <2>4. \A p \in Pods : Share(p, m, s[p])
    BY <1>5, <2>1, <2>3 DEF Share
  <2> QED
    BY <2>1, <2>2, <2>4
<1> QED
  BY <1>2, <1>3, <1>4, <1>6 DEF IInv, RowsAreShared

-----------------------------------------------------------------------------
(* The theorems                                                             *)

\* The inductive invariant: the rows of every month can be shared out among
\* the pods so that what a pod has, and what it may still add, is bounded by
\* what its requests know (check_budget, _record_completion, record_spend).
THEOREM BudgetInvariant == Spec => []IInv
<1>1. Init => IInv
  BY InitShared
<1>2. IInv /\ [Next]_vars => IInv'
  <2> SUFFICES ASSUME IInv, [Next]_vars PROVE IInv'
    OBVIOUS
  <2>1. CASE UNCHANGED vars
    <3>1. month' = month /\ rows' = rows /\ lost' = lost /\ cache' = cache /\ req' = req
      BY <2>1 DEF vars
    <3>2. /\ month \in Months /\ rows \in [Months -> Nat] /\ cache \in [Pods -> Caches]
          /\ req \in [Requests -> Progress] /\ lost \in 0 .. MaxLost
      BY TypesAre DEF IInv
    <3>3. TypeOK' /\ ReadsAreDated' /\ \A p \in Pods : CacheHasReason(p)'
      BY <3>1, <3>2, TypesAreNext DEF IInv, ReadsAreDated, At, CacheHasReason, Cached
    <3>4. \A m \in Months, p \in Pods, x \in Nat : Share(p, m, x) => Share(p, m, x)'
      BY <3>1, <3>2, ShareStays
    <3>5. RowsAreShared'
      BY <3>1, <3>4 DEF IInv, RowsAreShared, Months
    <3> QED
      BY <3>3, <3>5 DEF IInv
  <2>2. ASSUME NEW r \in Requests, CheckCached(r) PROVE IInv'
    BY <2>2, CheckCachedKeeps
  <2>3. ASSUME NEW r \in Requests, CheckUncached(r) PROVE IInv'
    BY <2>3, CheckUncachedKeeps
  <2>4. ASSUME NEW r \in Requests, Step(r) PROVE IInv'
    <3>1. CASE QueryRuns(r)
      BY <3>1, QueryRunsKeeps
    <3>2. CASE CheckEnds(r)
      BY <3>2, CheckEndsKeeps
    <3>3. ASSUME NEW c \in Costs, ProviderAnswers(r, c) PROVE IInv'
      BY <3>3, ProviderAnswersKeeps
    <3>4. ASSUME NEW c \in Costs, ChargeFails(r, c) PROVE IInv'
      BY <3>4, ChargeFailsKeeps
    <3>5. CASE QueryFails(r) \/ EndUncharged(r)
      BY <3>5, EndUnchargedKeeps
    <3>6. CASE InsertCommits(r)
      BY <3>6, InsertCommitsKeeps
    <3>7. CASE InsertFails(r)
      BY <3>7, InsertFailsKeeps
    <3>8. CASE RecordSpend(r)
      BY <3>8, RecordSpendKeeps
    <3> QED
      BY <2>4, <3>1, <3>2, <3>3, <3>4, <3>5, <3>6, <3>7, <3>8 DEF Step
  <2>5. CASE Tick
    BY <2>5, TickKeeps
  <2>6. CASE NewMonth
    BY <2>6, NewMonthKeeps
  <2>7. ASSUME NEW p \in Pods, Restart(p) PROVE IInv'
    BY <2>7, RestartKeeps
  <2> QED
    BY <2>1, <2>2, <2>3, <2>4, <2>5, <2>6, <2>7 DEF Next
<1> QED
  BY <1>1, <1>2, PTL DEF Spec

\* The months, the cached costs and the requests' progress have their types,
\* and what is lost stays within its bound.
THEOREM BudgetTypeOK == Spec => []TypeOK
<1>1. IInv => TypeOK
  BY DEF IInv
<1> QED
  BY <1>1, BudgetInvariant, PTL

\* The overshoot of the budget is bounded by the number of concurrent requests,
\* and does not grow with time (check_budget, record_spend).
THEOREM SpendIsBounded == Spec => []SpendBounded
<1>1. ASSUME IInv PROVE SpendBounded
  <2>1. month \in Months /\ rows \in [Months -> Nat] /\ req \in [Requests -> Progress]
    BY <1>1, TypesAre DEF IInv
  <2>2. ASSUME NEW m \in Months PROVE rows[m] <= MaxRows
    <3> DEFINE f == [p \in Pods |-> PodBound(Cardinality({r \in Requests : PodOf[r] = p}))]
    <3>1. PICK s \in [Pods -> Nat] :
             /\ SumFunctionOnSet(s, Pods) = rows[m]
             /\ \A p \in Pods : Share(p, m, s[p])
      BY <1>1 DEF IInv, RowsAreShared
    <3>2. ASSUME NEW p \in Pods PROVE s[p] \in Nat /\ f[p] \in Nat /\ s[p] <= f[p]
      <4>1. f[p] = PodBound(Cardinality(Mine(p)))
        BY DEF Mine
      <4>2. s[p] \in Nat /\ Share(p, m, s[p])
        BY <3>1
      <4>3. s[p] + Late(p, m) <= PodBound(Cardinality(Mine(p))) \/ s[p] = 0
        BY <2>1, <4>2, ShareIsBounded
      <4>4. Late(p, m) \in Nat /\ PodBound(Cardinality(Mine(p))) \in Nat
        BY <2>1, Numbers, BoundGrows
      <4> HIDE DEF f
      <4> QED
        BY <4>1, <4>2, <4>3, <4>4
    <3>3. MaxRows = SumFunctionOnSet(f, Pods)
      BY DEF MaxRows, SumFunction, SumFunctionOnSet
    <3> HIDE DEF f
    <3>4. SumFunctionOnSet(s, Pods) <= SumFunctionOnSet(f, Pods)
      BY <3>2, SumMonotone, PodsAssumption
    <3> QED
      BY <3>1, <3>3, <3>4
  <2> QED
    BY <2>2 DEF SpendBounded
<1> QED
  BY <1>1, BudgetInvariant, PTL

-----------------------------------------------------------------------------
(* Refusals wear off                                                        *)

\* The steps that a request may still take, and a pod that refuses.
StepsLeft(q) ==
    CASE q.pc = "querying"  -> 5
      [] q.pc = "answered"  -> 4
      [] q.pc = "in_flight" -> 3
      [] q.pc = "inserting" -> 2
      [] q.pc = "inserted"  -> 1
      [] q.pc \in {"idle", "refused"} -> 0

Refuses(p) == Cached(p) /\ OverBudget(cache[p].cost)

\* While a pod refuses, none of its requests begins anew, its cached cost is
\* renewed only by a request that comes nearer to its end, and the clock
\* goes on with it.
WearsOff(p) ==
    Refuses(p) /\ Refuses(p)' =>
        /\ \A r \in Mine(p) : StepsLeft(req'[r]) <= StepsLeft(req[r])
        /\ cache'[p].ttl > cache[p].ttl =>
              \E r \in Mine(p) : StepsLeft(req'[r]) < StepsLeft(req[r])
        /\ Tick => cache'[p].ttl < cache[p].ttl

\* How many steps at each place.
LEMMA StepsLeftIs ==
    ASSUME NEW q
    PROVE  /\ q.pc = "querying" => StepsLeft(q) = 5
           /\ q.pc = "answered" => StepsLeft(q) = 4
           /\ q.pc = "in_flight" => StepsLeft(q) = 3
           /\ q.pc = "inserting" => StepsLeft(q) = 2
           /\ q.pc = "inserted" => StepsLeft(q) = 1
           /\ q.pc \in {"idle", "refused"} => StepsLeft(q) = 0
BY DEF StepsLeft

\* A number of them.
LEMMA StepsLeftCount ==
    ASSUME NEW q \in Progress
    PROVE  StepsLeft(q) \in 0 .. 5
BY ProgressIs, StepsLeftIs

\* A step of a request takes it on, and touches neither another nor the cache
\* of another pod.
LEMMA StepRunsDown ==
    ASSUME TypeOK, NEW r \in Requests, Step(r)
    PROVE  /\ StepsLeft(req'[r]) \in Int /\ StepsLeft(req'[r]) < StepsLeft(req[r])
           /\ \A s \in Requests \ {r} : req'[s] = req[s]
           /\ \A p \in Pods \ {PodOf[r]} : cache'[p] = cache[p]
<1>1. req \in [Requests -> Progress] /\ cache \in [Pods -> Caches]
  BY TypesAre
<1>2. ASSUME NEW q, req' = [req EXCEPT ![r] = q],
             StepsLeft(q) \in Int /\ StepsLeft(q) < StepsLeft(req[r]),
             \A p \in Pods \ {PodOf[r]} : cache'[p] = cache[p]
      PROVE  /\ StepsLeft(req'[r]) \in Int /\ StepsLeft(req'[r]) < StepsLeft(req[r])
             /\ \A s \in Requests \ {r} : req'[s] = req[s]
             /\ \A p \in Pods \ {PodOf[r]} : cache'[p] = cache[p]
  BY <1>1, <1>2
<1>3. CASE QueryRuns(r)
  <2>1. PICK q : q.pc = "answered" /\ req' = [req EXCEPT ![r] = q]
    <3>1. [pc |-> "answered", spent |-> CostSince(req[r].since)].pc = "answered"
      OBVIOUS
    <3> QED
      BY <1>3, <3>1 DEF QueryRuns
  <2>2. At(r, "querying") /\ cache' = cache
    BY <1>3 DEF QueryRuns
  <2>3. StepsLeft(q) \in Int /\ StepsLeft(q) < StepsLeft(req[r])
    BY <2>1, <2>2, StepsLeftIs DEF At
  <2> QED
    BY <1>2, <2>1, <2>2, <2>3
<1>4. CASE CheckEnds(r)
  <2> DEFINE d == Decided(req[r].spent)
  <2>1. d.pc \in {"refused", "in_flight"}
    BY DEF Decided
  <2>2. req' = [req EXCEPT ![r] = d] /\ At(r, "answered")
    BY <1>4 DEF CheckEnds
  <2>3. \A p \in Pods \ {PodOf[r]} : cache'[p] = cache[p]
    BY <1>1, <1>4 DEF CheckEnds
  <2> HIDE DEF d
  <2>4. StepsLeft(d) \in Int /\ StepsLeft(d) < StepsLeft(req[r])
    BY <2>1, <2>2, StepsLeftIs DEF At
  <2> QED
    BY <1>2, <2>2, <2>3, <2>4
<1>5. CASE (\E c \in Costs : ProviderAnswers(r, c) \/ ChargeFails(r, c)) \/ EndUncharged(r)
  <2>1. PICK q : q.pc \in {"inserting", "idle"} /\ req' = [req EXCEPT ![r] = q]
    <3>1. Idle.pc = "idle" /\ \A c : [pc |-> "inserting", cost |-> c, since |-> month].pc = "inserting"
      BY DEF Idle
    <3> QED
      BY <1>5, <3>1 DEF ProviderAnswers, ChargeFails, EndUncharged
  <2>2. At(r, "in_flight") /\ cache' = cache
    BY <1>5 DEF ProviderAnswers, ChargeFails, EndUncharged
  <2>3. StepsLeft(q) \in Int /\ StepsLeft(q) < StepsLeft(req[r])
    BY <2>1, <2>2, StepsLeftIs DEF At
  <2> QED
    BY <1>2, <2>1, <2>2, <2>3
<1>6. CASE QueryFails(r)
  <2>1. PICK q : q.pc = "idle" /\ req' = [req EXCEPT ![r] = q]
    BY <1>6 DEF QueryFails, Idle
  <2>2. At(r, "querying") /\ cache' = cache
    BY <1>6 DEF QueryFails
  <2>3. StepsLeft(q) \in Int /\ StepsLeft(q) < StepsLeft(req[r])
    BY <2>1, <2>2, StepsLeftIs DEF At
  <2> QED
    BY <1>2, <2>1, <2>2, <2>3
<1>7. CASE InsertCommits(r) \/ InsertFails(r)
  <2>1. req' = [req EXCEPT ![r] = Inserted(req[r].cost)] /\ At(r, "inserting") /\ cache' = cache
    BY <1>7 DEF InsertCommits, InsertFails
  <2>2. Inserted(req[r].cost).pc = "inserted"
    BY DEF Inserted
  <2>3. PICK q : q.pc = "inserted" /\ req' = [req EXCEPT ![r] = q]
    BY <2>1, <2>2
  <2>4. StepsLeft(q) \in Int /\ StepsLeft(q) < StepsLeft(req[r])
    BY <2>1, <2>3, StepsLeftIs DEF At
  <2> QED
    BY <1>2, <2>1, <2>3, <2>4
<1>8. CASE RecordSpend(r)
  <2>1. req' = [req EXCEPT ![r] = Idle] /\ At(r, "inserted") /\ Idle.pc = "idle"
    BY <1>8 DEF RecordSpend, Idle
  <2>2. \A p \in Pods \ {PodOf[r]} : cache'[p] = cache[p]
    BY <1>1, <1>8 DEF RecordSpend
  <2>3. PICK q : q.pc = "idle" /\ req' = [req EXCEPT ![r] = q]
    BY <2>1
  <2>4. StepsLeft(q) \in Int /\ StepsLeft(q) < StepsLeft(req[r])
    BY <2>1, <2>3, StepsLeftIs DEF At
  <2> QED
    BY <1>2, <2>2, <2>3, <2>4
<1> QED
  BY <1>3, <1>4, <1>5, <1>6, <1>7, <1>8 DEF Step

\* A pod that refuses is on its way to ask the database again: however often
\* it is asked, only the requests that were under way can renew what it has
\* cached, in the few steps they have left, and otherwise the entry ages
\* (check_budget, _MtdCostCache).  It remains of RefusalsAreReconsidered that
\* those steps are taken and that the clock goes on.
THEOREM RefusalsWearOff == Spec => [][\A p \in Pods : WearsOff(p)]_vars
<1>1. TypeOK /\ [Next]_vars => [\A p \in Pods : WearsOff(p)]_vars
  <2> SUFFICES ASSUME TypeOK, Next, NEW p \in Pods, Refuses(p), Refuses(p)'
               PROVE  /\ \A r \in Mine(p) : StepsLeft(req'[r]) <= StepsLeft(req[r])
                      /\ cache'[p].ttl > cache[p].ttl =>
                            \E r \in Mine(p) : StepsLeft(req'[r]) < StepsLeft(req[r])
                      /\ Tick => cache'[p].ttl < cache[p].ttl
    BY DEF WearsOff
  <2> DEFINE NoneBegins == \A r \in Mine(p) : StepsLeft(req'[r]) <= StepsLeft(req[r])
             Renews == \E r \in Mine(p) : StepsLeft(req'[r]) < StepsLeft(req[r])
  <2>1. /\ req \in [Requests -> Progress] /\ cache \in [Pods -> Caches]
        /\ \A r \in Requests : StepsLeft(req[r]) \in 0 .. 5
        /\ cache[p] # NotCached /\ cache'[p] # NotCached /\ cache[p].ttl \in 0 .. Ttl
    BY TypesAre, StepsLeftCount, EntryIs DEF Refuses, Cached
  <2>2. ASSUME Tick PROVE cache'[p].ttl \in Int /\ cache'[p].ttl < cache[p].ttl
    <3>1. cache'[p] = Aged(cache[p])
      BY <2>2 DEF Tick
    <3>2. cache[p].ttl # 0 /\ cache'[p] = [cache[p] EXCEPT !.ttl = @ - 1]
      BY <2>1, <3>1 DEF Aged
    <3>3. cache'[p].ttl = cache[p].ttl - 1
      BY <2>1, <3>2 DEF Caches
    <3> QED
      BY <2>1, <3>3, BoundsAssumption
  <2>3. ASSUME \A r \in Mine(p) : req'[r] = req[r] PROVE NoneBegins
    BY <2>1, <2>3 DEF Mine
  <2>4. ASSUME NEW r \in Requests, Step(r)
        PROVE  NoneBegins /\ (cache'[p] = cache[p] \/ Renews)
    <3>1. /\ StepsLeft(req'[r]) \in Int /\ StepsLeft(req'[r]) < StepsLeft(req[r])
          /\ \A s \in Requests \ {r} : req'[s] = req[s]
          /\ \A x \in Pods \ {PodOf[r]} : cache'[x] = cache[x]
      BY <2>4, StepRunsDown
    <3>2. ASSUME PodOf[r] = p PROVE NoneBegins /\ Renews
      <4>1. r \in Mine(p)
        BY <3>2 DEF Mine
      <4>2. ASSUME NEW s \in Mine(p) PROVE StepsLeft(req[s]) \in 0 .. 5
        BY <2>1 DEF Mine
      <4>3. ASSUME NEW s \in Mine(p) PROVE StepsLeft(req'[s]) <= StepsLeft(req[s])
        <5>1. CASE s = r
          BY <3>1, <4>2, <5>1
        <5>2. CASE s # r
          BY <3>1, <4>2, <5>2 DEF Mine
        <5> QED
          BY <5>1, <5>2
      <4> QED
        BY <3>1, <4>1, <4>3
    <3>3. ASSUME PodOf[r] # p PROVE NoneBegins /\ cache'[p] = cache[p]
      BY <2>3, <3>1, <3>3 DEF Mine
    <3> QED
      BY <3>2, <3>3
  <2>5. ASSUME NEW r \in Requests, CheckCached(r) PROVE NoneBegins /\ cache'[p] = cache[p]
    <3>1. cache' = cache /\ \A s \in Requests \ {r} : req'[s] = req[s]
      BY <2>1, <2>5 DEF CheckCached
    <3>2. ASSUME PodOf[r] = p PROVE StepsLeft(req'[r]) = 0
      <4>1. req'[r] = [pc |-> "refused"]
        BY <2>1, <2>5, <3>2 DEF CheckCached, Decided, Refuses
      <4> QED
        BY <4>1, StepsLeftIs
    <3>3. ASSUME NEW s \in Mine(p) PROVE StepsLeft(req'[s]) <= StepsLeft(req[s])
      BY <2>1, <3>1, <3>2 DEF Mine
    <3> QED
      BY <3>1, <3>3
  <2>6. ASSUME NEW r \in Requests, CheckUncached(r) PROVE NoneBegins /\ cache'[p] = cache[p]
    <3>1. PodOf[r] # p
      BY <2>6 DEF CheckUncached, Refuses
    <3>2. cache' = cache /\ \A s \in Requests \ {r} : req'[s] = req[s]
      BY <2>1, <2>6 DEF CheckUncached
    <3> QED
      BY <2>3, <3>1, <3>2 DEF Mine
  <2>7. ASSUME NEW x \in Pods, Restart(x) PROVE NoneBegins /\ cache'[p] = cache[p]
    <3>1. x # p
      BY <2>1, <2>7 DEF Restart
    <3>2. cache'[p] = cache[p] /\ \A r \in Mine(p) : req'[r] = req[r]
      BY <2>1, <2>7, <3>1 DEF Restart, Mine
    <3> QED
      BY <2>3, <3>2
  <2>8. ASSUME Tick \/ NewMonth PROVE NoneBegins
    BY <2>3, <2>8 DEF Tick, NewMonth
  <2>9. NewMonth => cache' = cache
    BY DEF NewMonth
  <2>10. cache'[p] = cache[p] => ~(cache'[p].ttl > cache[p].ttl)
    BY <2>1, BoundsAssumption
  <2>11. Tick => ~(cache'[p].ttl > cache[p].ttl)
    BY <2>1, <2>2, BoundsAssumption
  <2>12. NoneBegins
    BY <2>4, <2>5, <2>6, <2>7, <2>8 DEF Next
  <2>13. cache'[p].ttl > cache[p].ttl => Renews
    BY <2>4, <2>5, <2>6, <2>7, <2>9, <2>10, <2>11 DEF Next
  <2> QED
    BY <2>2, <2>12, <2>13
<1> QED
  BY <1>1, BudgetTypeOK, PTL DEF Spec
=============================================================================
