----------------------------- MODULE FoldLemmas -----------------------------
(* What the modules' proofs need of the library's folds: that a fold over a  *)
(* finite set is what its recursive definition says, and what follows for    *)
(* sums.  Each is proved by looking at a smallest counterexample.            *)
EXTENDS Integers, SequencesExt, FiniteSetTheorems, WellFoundedInduction, TLAPS

\* A non-empty set of naturals has a least element.
LEMMA FirstExists ==
    ASSUME NEW S \in SUBSET Nat, S # {}
    PROVE  \E i \in S : \A j \in S : i <= j
<1> DEFINE R == OpToRel(<, Nat)
<1>1. IsWellFoundedOn(R, Nat)
  BY NatLessThanWellFounded
<1>2. \A i, j \in Nat : i < j => <<i, j>> \in R
  BY DEF OpToRel
<1> HIDE DEF R
<1>3. PICK i \in S : \A j \in S : <<j, i>> \notin R
  BY <1>1, WFMin
<1>4. ASSUME NEW j \in S PROVE i <= j
  BY <1>2, <1>3, ~(j < i)
<1> QED
  BY <1>4

\* The last of some positions.
Latest(T) == CHOOSE x \in T : \A y \in T : x >= y

\* Some positions of a sequence have a last one.
LEMMA LastExists ==
    ASSUME NEW n \in Nat, NEW T \in SUBSET (1 .. n), T # {}
    PROVE  Latest(T) \in T /\ \A y \in T : Latest(T) >= y
<1> DEFINE N == {n - x : x \in T}
<1>1. N \in SUBSET Nat /\ N # {}
  <2>1. \A x \in 1 .. n : n - x \in Nat
    OBVIOUS
  <2> QED
    BY <2>1
<1>2. PICK k \in N : \A j \in N : k <= j
  BY <1>1, FirstExists
<1>3. PICK x \in T : k = n - x
  BY <1>2
<1>4. \A y \in T : n - y \in N /\ n - x <= n - y
  BY <1>2, <1>3
<1>5. \A y \in T : x >= y
  <2> TAKE y \in T
  <2>1. x \in 1 .. n /\ y \in 1 .. n /\ n - x <= n - y
    BY <1>4
  <2> QED
    BY <2>1
<1> QED
  BY <1>3, <1>5 DEF Latest

\* A non-empty set of finite sets has a smallest one.
LEMMA SmallestExists ==
    ASSUME NEW C, C # {}, \A S \in C : IsFiniteSet(S)
    PROVE  \E S \in C : \A T \in C : Cardinality(S) <= Cardinality(T)
<1> DEFINE N == {Cardinality(S) : S \in C}
<1>1. N \in SUBSET Nat /\ N # {}
  BY FS_CardinalityType
<1>2. PICK n \in N : \A k \in N : n <= k
  BY <1>1, FirstExists
<1> QED
  BY <1>2

\* Taking an element out of a finite set.
LEMMA OneLess ==
    ASSUME NEW S, IsFiniteSet(S), NEW x \in S
    PROVE  /\ IsFiniteSet(S \ {x})
           /\ Cardinality(S) \in Nat
           /\ Cardinality(S \ {x}) \in Nat
           /\ Cardinality(S \ {x}) = Cardinality(S) - 1
<1>1. IsFiniteSet(S \ {x}) /\ Cardinality(S \ {x}) = Cardinality(S) - 1
  BY FS_RemoveElement
<1> QED
  BY <1>1, FS_CardinalityType

\* A fold that takes the elements of a set in the order of ch.
Folded(S, ch, g, base, it) ==
    it = [T \in SUBSET S |-> IF T = {} THEN base ELSE g[<<ch[T], it[T \ {ch[T]}]>>]]

\* There is a function that satisfies the equation of a fold over a finite set.
LEMMA FoldExists ==
    ASSUME NEW S, IsFiniteSet(S), NEW V, NEW base \in V, NEW g \in [S \X V -> V],
           NEW ch, \A T \in SUBSET S : T # {} => ch[T] \in T
    PROVE  \E it \in [SUBSET S -> V] : Folded(S, ch, g, base, it)
<1> DEFINE Rhs(f, T) == IF T = {} THEN base ELSE g[<<ch[T], f[T \ {ch[T]}]>>]
           UpTo(n, f) == \A T \in SUBSET S : Cardinality(T) <= n => f[T] = Rhs(f, T)
           Bad == {n \in Nat : ~ \E f \in [SUBSET S -> V] : UpTo(n, f)}
<1>1. \A f \in [SUBSET S -> V] : [T \in SUBSET S |-> Rhs(f, T)] \in [SUBSET S -> V]
  OBVIOUS
<1>2. \A T \in SUBSET S : IsFiniteSet(T) /\ Cardinality(T) \in Nat /\ Cardinality(T) <= Cardinality(S)
  BY FS_Subset, FS_CardinalityType
<1>3. ASSUME Bad # {} PROVE FALSE
  <2>1. PICK n \in Bad : \A k \in Bad : n <= k
    BY <1>3, FirstExists
  <2>2. CASE n = 0
    <3> DEFINE f == [T \in SUBSET S |-> base]
    <3>1. \A T \in SUBSET S : Cardinality(T) <= 0 => T = {}
      BY <1>2, FS_EmptySet
    <3>2. f \in [SUBSET S -> V] /\ UpTo(0, f)
      BY <3>1
    <3> QED
      BY <2>1, <2>2, <3>2
  <2>3. CASE n # 0
    <3>0. n \in Nat
      BY <2>1
    <3>1. n - 1 \in Nat /\ n - 1 \notin Bad
      <4>1. n - 1 \in Nat /\ ~(n <= n - 1)
        BY <3>0, <2>3
      <4> QED
        BY <4>1, <2>1
    <3>2. PICK f \in [SUBSET S -> V] : UpTo(n - 1, f)
      BY <3>1
    <3> DEFINE h == [T \in SUBSET S |-> Rhs(f, T)]
    <3>3. h \in [SUBSET S -> V]
      BY <1>1
    <3>4. ASSUME NEW T \in SUBSET S, Cardinality(T) <= n, T # {}
          PROVE  h[T] = g[<<ch[T], h[T \ {ch[T]}]>>]
      <4> DEFINE U == T \ {ch[T]}
      <4>1. ch[T] \in T /\ U \in SUBSET S
        BY <3>4
      <4>2. Cardinality(U) <= n - 1
        BY <1>2, <3>1, <3>4, <4>1, OneLess
      <4>3. f[U] = Rhs(f, U)
        BY <3>2, <4>1, <4>2
      <4>4. f[U] = h[U]
        BY <4>1, <4>3
      <4> QED
        BY <3>4, <4>4
    <3>5. UpTo(n, h)
      <4>1. \A T \in SUBSET S : T = {} => h[T] = Rhs(h, T)
        OBVIOUS
      <4> QED
        BY <3>4, <4>1
    <3> QED
      BY <2>1, <3>3, <3>5
  <2> QED
    BY <2>2, <2>3
<1>4. Cardinality(S) \in Nat /\ Cardinality(S) \notin Bad
  BY <1>3, FS_CardinalityType
<1>5. PICK it \in [SUBSET S -> V] : UpTo(Cardinality(S), it)
  BY <1>4
<1>6. \A T \in SUBSET S : it[T] = Rhs(it, T)
  BY <1>2, <1>5
<1>7. it = [T \in SUBSET S |-> Rhs(it, T)]
  BY <1>6
<1> QED
  BY <1>7 DEF Folded

-----------------------------------------------------------------------------
(* Walks                                                                    *)

\* it[T] is what a walk through the positions T of a list comes to.
Walk(S, g, base, it) ==
    \A T \in SUBSET S :
        it[T] = IF T = {} THEN base ELSE g[<<Latest(T), it[T \ {Latest(T)}]>>]

\* There is such a function.
LEMMA WalkExists ==
    ASSUME NEW n \in Nat, NEW S, S = 1 .. n, NEW V, NEW base \in V, NEW g \in [S \X V -> V]
    PROVE  \E it \in [SUBSET S -> V] : Walk(S, g, base, it)
<1> DEFINE ch == [T \in SUBSET S |-> Latest(T)]
<1>1. \A T \in SUBSET S : ch[T] = Latest(T) /\ (T # {} => ch[T] \in T)
  BY LastExists
<1>2. IsFiniteSet(S)
  <2>1. 1 \in Int /\ n \in Int
    OBVIOUS
  <2> QED
    BY <2>1, FS_Interval
<1> HIDE DEF ch
<1>3. PICK it \in [SUBSET S -> V] : Folded(S, ch, g, base, it)
  BY <1>1, <1>2, FoldExists
<1>4. ASSUME NEW T \in SUBSET S
      PROVE  it[T] = IF T = {} THEN base ELSE g[<<Latest(T), it[T \ {Latest(T)}]>>]
  <2>1. it[T] = IF T = {} THEN base ELSE g[<<ch[T], it[T \ {ch[T]}]>>]
    BY <1>3 DEF Folded
  <2>2. ch[T] = Latest(T)
    BY <1>1
  <2> QED
    BY <2>1, <2>2
<1> QED
  BY <1>4 DEF Walk

\* The last of the first positions.
LEMMA LastOfPrefix ==
    ASSUME NEW n \in Nat, NEW i \in 1 .. n
    PROVE  /\ 1 .. i \in SUBSET (1 .. n) /\ 1 .. i - 1 \in SUBSET (1 .. n) /\ 1 .. i # {}
           /\ Latest(1 .. i) = i
           /\ (1 .. i) \ {i} = 1 .. i - 1
<1>1. 1 .. i \in SUBSET (1 .. n) /\ 1 .. i - 1 \in SUBSET (1 .. n) /\ i \in 1 .. i /\ i \in Nat
  OBVIOUS
<1>2. Latest(1 .. i) \in 1 .. i /\ Latest(1 .. i) >= i
  BY <1>1, LastExists
<1>3. Latest(1 .. i) = i
  BY <1>1, <1>2
<1>4. (1 .. i) \ {i} = 1 .. i - 1
  OBVIOUS
<1> QED
  BY <1>1, <1>3, <1>4

-----------------------------------------------------------------------------
(* Sums                                                                     *)

\* The element that a sum takes first.
First(T) == CHOOSE x \in T : TRUE

\* it[T] is the sum over T, for the subsets T of S.
Sums(f, S, it) ==
    it = [T \in SUBSET S |-> IF T = {} THEN 0 ELSE f[First(T)] + it[T \ {First(T)}]]

\* A sum is the result of a fold.
LEMMA SumIsFold ==
    ASSUME NEW S, IsFiniteSet(S), NEW f, \A x \in S : f[x] \in Nat
    PROVE  \E it \in [SUBSET S -> Nat] : Sums(f, S, it) /\ SumFunctionOnSet(f, S) = it[S]
<1> DEFINE ch == [T \in SUBSET S |-> First(T)]
           g == [p \in S \X Nat |-> f[p[1]] + p[2]]
<1>1. \A T \in SUBSET S : T # {} => First(T) \in T
  BY DEF First
<1>2. \A T \in SUBSET S : T # {} => ch[T] \in T
  BY <1>1
<1>3. \A x \in S, n \in Nat : <<x, n>> \in S \X Nat /\ g[<<x, n>>] = f[x] + n
  OBVIOUS
<1>4. g \in [S \X Nat -> Nat]
  OBVIOUS
<1>5. 0 \in Nat
  OBVIOUS
<1> HIDE DEF g
<1>6. PICK it \in [SUBSET S -> Nat] : Folded(S, ch, g, 0, it)
  <2> HIDE DEF ch
  <2> QED
    BY <1>2, <1>4, <1>5, FoldExists
<1>7. \A T \in SUBSET S : it[T] = IF T = {} THEN 0 ELSE f[First(T)] + it[T \ {First(T)}]
  <2> TAKE T \in SUBSET S
  <2>1. CASE T = {}
    BY <1>6, <2>1 DEF Folded
  <2>2. CASE T # {}
    <3>1. it[T] = g[<<First(T), it[T \ {First(T)}]>>]
      BY <1>6, <2>2 DEF Folded
    <3>2. First(T) \in S /\ it[T \ {First(T)}] \in Nat
      BY <1>1, <1>6, <2>2
    <3> QED
      BY <1>3, <2>2, <3>1, <3>2
  <2> QED
    BY <2>1, <2>2
<1>8. Sums(f, S, it)
  BY <1>7 DEF Sums
<1>9. SumFunctionOnSet(f, S) = (CHOOSE i : Sums(f, S, i))[S]
  BY DEF SumFunctionOnSet, FoldFunctionOnSet, MapThenFoldSet, Sums, First
<1> DEFINE other == CHOOSE i : Sums(f, S, i)
<1>10. Sums(f, S, other)
  BY <1>8
<1>11. other \in [SUBSET S -> Nat]
  <2> DEFINE Bad == {T \in SUBSET S : other[T] \notin Nat}
  <2>1. \A T \in SUBSET S : other[T] = IF T = {} THEN 0 ELSE f[First(T)] + other[T \ {First(T)}]
    BY <1>10 DEF Sums
  <2>2. \A T \in SUBSET S : IsFiniteSet(T)
    BY FS_Subset
  <2> HIDE DEF other
  <2>3. ASSUME Bad # {} PROVE FALSE
    <3>1. PICK T \in Bad : \A W \in Bad : Cardinality(T) <= Cardinality(W)
      BY <2>2, <2>3, SmallestExists
    <3>2. T \in SUBSET S /\ other[T] \notin Nat
      BY <3>1
    <3>3. T # {} /\ First(T) \in T
      <4>1. T # {}
        BY <2>1, <3>2
      <4> QED
        BY <1>1, <3>2, <4>1
    <3>4. /\ Cardinality(T) \in Nat
          /\ Cardinality(T \ {First(T)}) = Cardinality(T) - 1
      BY <2>2, <3>2, <3>3, OneLess
    <3>5. T \ {First(T)} \in SUBSET S /\ other[T \ {First(T)}] \in Nat
      BY <3>1, <3>2, <3>4
    <3>6. other[T] = f[First(T)] + other[T \ {First(T)}] /\ f[First(T)] \in Nat
      BY <2>1, <3>2, <3>3
    <3> QED
      BY <3>2, <3>5, <3>6
  <2>4. other = [T \in SUBSET S |-> IF T = {} THEN 0 ELSE f[First(T)] + other[T \ {First(T)}]]
    BY <1>10 DEF Sums, other
  <2> QED
    BY <2>3, <2>4
<1> QED
  BY <1>9, <1>10, <1>11

\* A sum over one element less.
LEMMA SumFirst ==
    ASSUME NEW S, IsFiniteSet(S), S # {}, NEW f, \A x \in S : f[x] \in Nat
    PROVE  /\ First(S) \in S
           /\ SumFunctionOnSet(f, S) \in Nat
           /\ SumFunctionOnSet(f, S) = f[First(S)] + SumFunctionOnSet(f, S \ {First(S)})
<1> DEFINE x == First(S)
           U == S \ {x}
<1>1. \A T \in SUBSET S : T # {} => First(T) \in T
  BY DEF First
<1>2. IsFiniteSet(U) /\ U \in SUBSET S
  BY FS_Subset
<1>3. PICK it \in [SUBSET S -> Nat] : Sums(f, S, it) /\ SumFunctionOnSet(f, S) = it[S]
  BY SumIsFold
<1>4. PICK ut \in [SUBSET U -> Nat] : Sums(f, U, ut) /\ SumFunctionOnSet(f, U) = ut[U]
  BY <1>2, SumIsFold
<1>5. \A T \in SUBSET S : it[T] = IF T = {} THEN 0 ELSE f[First(T)] + it[T \ {First(T)}]
  BY <1>3 DEF Sums
<1>6. \A T \in SUBSET U : ut[T] = IF T = {} THEN 0 ELSE f[First(T)] + ut[T \ {First(T)}]
  BY <1>4 DEF Sums
<1> DEFINE Bad == {T \in SUBSET U : it[T] # ut[T]}
<1>7. ASSUME Bad # {} PROVE FALSE
  <2>1. \A T \in Bad : IsFiniteSet(T)
    BY <1>2, FS_Subset
  <2>2. PICK T \in Bad : \A W \in Bad : Cardinality(T) <= Cardinality(W)
    BY <1>7, <2>1, SmallestExists
  <2>3. T \in SUBSET U /\ T \in SUBSET S /\ it[T] # ut[T]
    BY <2>2
  <2>4. T # {} /\ First(T) \in T
    BY <1>1, <1>5, <1>6, <2>3
  <2>5. T \ {First(T)} \in SUBSET U /\ it[T \ {First(T)}] # ut[T \ {First(T)}]
    BY <1>5, <1>6, <2>3, <2>4
  <2>6. /\ Cardinality(T) \in Nat
        /\ Cardinality(T \ {First(T)}) = Cardinality(T) - 1
    BY <2>1, <2>2, <2>4, OneLess
  <2> QED
    BY <2>2, <2>5, <2>6
<1>8. it[U] = ut[U]
  BY <1>7
<1>9. it[S] = f[x] + it[U]
  BY <1>5
<1>10. it[S] \in Nat /\ x \in S
  BY <1>1, <1>3
<1> QED
  BY <1>3, <1>4, <1>8, <1>9, <1>10

\* The sum over no element.
LEMMA SumEmpty == \A f : SumFunctionOnSet(f, {}) = 0
<1> TAKE f
<1>1. IsFiniteSet({})
  BY FS_EmptySet
<1>2. PICK it \in [SUBSET {} -> Nat] : Sums(f, {}, it) /\ SumFunctionOnSet(f, {}) = it[{}]
  BY <1>1, SumIsFold
<1> QED
  BY <1>2 DEF Sums

\* A sum of naturals is a natural.
LEMMA SumNat ==
    ASSUME NEW S, IsFiniteSet(S), NEW f, \A x \in S : f[x] \in Nat
    PROVE  SumFunctionOnSet(f, S) \in Nat
<1>1. CASE S = {}
  BY <1>1, SumEmpty
<1>2. CASE S # {}
  BY <1>2, SumFirst
<1> QED
  BY <1>1, <1>2

\* Any element may be taken out of a sum.
LEMMA SumRemove ==
    ASSUME NEW S, IsFiniteSet(S), NEW f, \A x \in S : f[x] \in Nat, NEW y \in S
    PROVE  SumFunctionOnSet(f, S) = f[y] + SumFunctionOnSet(f, S \ {y})
<1> DEFINE Sum(T) == SumFunctionOnSet(f, T)
           Fails(T, z) == z \in T /\ Sum(T) # f[z] + Sum(T \ {z})
           Bad == {T \in SUBSET S : \E z \in T : Fails(T, z)}
<1> HIDE DEF Sum
<1>1. \A T \in SUBSET S : IsFiniteSet(T) /\ Sum(T) \in Nat
  BY FS_Subset, SumNat DEF Sum
<1>2. \A T \in SUBSET S : T # {} => First(T) \in T /\ Sum(T) = f[First(T)] + Sum(T \ {First(T)})
  BY <1>1, SumFirst DEF Sum
<1>3. ASSUME Bad # {} PROVE FALSE
  <2>1. PICK T \in Bad : \A W \in Bad : Cardinality(T) <= Cardinality(W)
    BY <1>1, <1>3, SmallestExists
  <2>2. PICK z \in T : Fails(T, z)
    BY <2>1
  <2>3. PICK x \in T : x = First(T) /\ Sum(T) = f[x] + Sum(T \ {x})
    BY <1>2, <2>1, <2>2
  <2>4. x # z
    BY <2>2, <2>3
  <2>5. \A w \in T : T \ {w} \in SUBSET S /\ T \ {w} \notin Bad
    <3> SUFFICES ASSUME NEW w \in T PROVE T \ {w} \in SUBSET S /\ T \ {w} \notin Bad
      OBVIOUS
    <3>1. /\ Cardinality(T) \in Nat
          /\ Cardinality(T \ {w}) = Cardinality(T) - 1
      BY <1>1, <2>1, OneLess
    <3> QED
      BY <2>1, <3>1
  <2>6. Sum(T \ {x}) = f[z] + Sum((T \ {x}) \ {z})
    BY <2>2, <2>4, <2>5
  <2>7. Sum(T \ {z}) = f[x] + Sum((T \ {z}) \ {x})
    BY <2>3, <2>4, <2>5
  <2>8. (T \ {z}) \ {x} = (T \ {x}) \ {z} /\ (T \ {x}) \ {z} \in SUBSET S
    BY <2>1
  <2>9. f[x] \in Nat /\ f[z] \in Nat /\ Sum((T \ {x}) \ {z}) \in Nat
    BY <1>1, <2>1, <2>8
  <2> QED
    BY <2>2, <2>3, <2>6, <2>7, <2>8, <2>9
<1> QED
  BY <1>3 DEF Sum

\* One element more.
LEMMA SumAdd ==
    ASSUME NEW S, IsFiniteSet(S), NEW f, NEW y, y \notin S, \A x \in S \cup {y} : f[x] \in Nat
    PROVE  SumFunctionOnSet(f, S \cup {y}) = f[y] + SumFunctionOnSet(f, S)
<1>1. IsFiniteSet(S \cup {y}) /\ (S \cup {y}) \ {y} = S
  BY FS_AddElement
<1> QED
  BY <1>1, SumRemove

\* A sum is at most another one, when its elements are mapped one-to-one to
\* elements of the other that are no smaller.
LEMMA SumInjection ==
    ASSUME NEW S, IsFiniteSet(S), NEW f, \A x \in S : f[x] \in Nat,
           NEW R, IsFiniteSet(R), NEW g, \A x \in R : g[x] \in Nat,
           NEW h \in [S -> R], \A x, y \in S : h[x] = h[y] => x = y,
           \A x \in S : f[x] <= g[h[x]]
    PROVE  SumFunctionOnSet(f, S) <= SumFunctionOnSet(g, R)
<1> DEFINE SumF(T) == SumFunctionOnSet(f, T)
           SumG(T) == SumFunctionOnSet(g, T)
           Image(T) == {h[x] : x \in T}
           Bad == {T \in SUBSET S : \E W \in SUBSET R : Image(T) \subseteq W /\ ~(SumF(T) <= SumG(W))}
<1> HIDE DEF SumF, SumG
<1>1. \A T \in SUBSET S : IsFiniteSet(T) /\ SumF(T) \in Nat
  BY FS_Subset, SumNat DEF SumF
<1>2. \A W \in SUBSET R : IsFiniteSet(W) /\ SumG(W) \in Nat
  BY FS_Subset, SumNat DEF SumG
<1>3. ASSUME Bad # {} PROVE FALSE
  <2>1. PICK T \in Bad : \A W \in Bad : Cardinality(T) <= Cardinality(W)
    BY <1>1, <1>3, SmallestExists
  <2>2. PICK W \in SUBSET R : Image(T) \subseteq W /\ ~(SumF(T) <= SumG(W))
    BY <2>1
  <2>3. T \in SUBSET S /\ IsFiniteSet(T)
    BY <1>1, <2>1
  <2>4. T # {}
    <3>1. SumF({}) = 0
      BY SumEmpty DEF SumF
    <3> QED
      BY <1>2, <2>2, <3>1
  <2>5. PICK x \in T : TRUE
    BY <2>4
  <2>6. h[x] \in W
    BY <2>2
  <2>7. Image(T \ {x}) \subseteq W \ {h[x]}
    BY <2>2, <2>3
  <2>8. T \ {x} \notin Bad
    <3>1. /\ Cardinality(T) \in Nat
          /\ Cardinality(T \ {x}) = Cardinality(T) - 1
      BY <2>3, OneLess
    <3> QED
      BY <2>1, <3>1
  <2>9. SumF(T \ {x}) <= SumG(W \ {h[x]})
    BY <2>3, <2>7, <2>8
  <2>10. SumF(T) = f[x] + SumF(T \ {x})
    BY <2>3, SumRemove DEF SumF
  <2>11. SumG(W) = g[h[x]] + SumG(W \ {h[x]})
    BY <1>2, <2>2, <2>6, SumRemove DEF SumG
  <2>12. f[x] \in Nat /\ g[h[x]] \in Nat /\ f[x] <= g[h[x]]
    BY <2>3
  <2>13. SumF(T \ {x}) \in Nat /\ SumG(W \ {h[x]}) \in Nat
    BY <1>1, <1>2, <2>2, <2>3
  <2> QED
    BY <2>2, <2>9, <2>10, <2>11, <2>12, <2>13
<1>4. S \notin Bad /\ Image(S) \subseteq R
  BY <1>3
<1> QED
  BY <1>4 DEF SumF, SumG

\* A sum over a part of a set, or with smaller summands, is no larger.
LEMMA SumMonotone ==
    ASSUME NEW S, NEW R, S \subseteq R, IsFiniteSet(R),
           NEW f, NEW g, \A x \in S : f[x] \in Nat, \A x \in R : g[x] \in Nat,
           \A x \in S : f[x] <= g[x]
    PROVE  SumFunctionOnSet(f, S) <= SumFunctionOnSet(g, R)
<1> DEFINE h == [x \in S |-> x]
<1>1. h \in [S -> R] /\ (\A x, y \in S : h[x] = h[y] => x = y) /\ \A x \in S : f[x] <= g[h[x]]
  OBVIOUS
<1>2. IsFiniteSet(S)
  BY FS_Subset
<1> HIDE DEF h
<1> QED
  BY <1>1, <1>2, SumInjection

\* Equal summands, equal sums.
LEMMA SumEqual ==
    ASSUME NEW S, IsFiniteSet(S), NEW f, NEW g, \A x \in S : f[x] \in Nat,
           \A x \in S : f[x] = g[x]
    PROVE  SumFunctionOnSet(f, S) = SumFunctionOnSet(g, S)
<1>1. \A x \in S : g[x] \in Nat /\ f[x] <= g[x] /\ g[x] <= f[x]
  OBVIOUS
<1>2. SumFunctionOnSet(f, S) <= SumFunctionOnSet(g, S)
  BY <1>1, SumMonotone
<1>3. SumFunctionOnSet(g, S) <= SumFunctionOnSet(f, S)
  BY <1>1, SumMonotone
<1>4. SumFunctionOnSet(f, S) \in Nat /\ SumFunctionOnSet(g, S) \in Nat
  BY <1>1, SumNat
<1> QED
  BY <1>2, <1>3, <1>4

\* Two sums that differ in one summand only.
LEMMA SumChanged ==
    ASSUME NEW S, IsFiniteSet(S), NEW y \in S, NEW f, NEW g,
           \A x \in S : f[x] \in Nat /\ g[x] \in Nat,
           \A x \in S \ {y} : f[x] = g[x]
    PROVE  SumFunctionOnSet(f, S) + g[y] = SumFunctionOnSet(g, S) + f[y]
<1> DEFINE U == S \ {y}
<1>1. IsFiniteSet(U) /\ \A x \in U : f[x] \in Nat /\ g[x] \in Nat /\ f[x] = g[x]
  BY FS_Subset
<1>2. SumFunctionOnSet(f, U) = SumFunctionOnSet(g, U) /\ SumFunctionOnSet(f, U) \in Nat
  BY <1>1, SumEqual, SumNat
<1>3. SumFunctionOnSet(f, S) = f[y] + SumFunctionOnSet(f, U)
  BY SumRemove
<1>4. SumFunctionOnSet(g, S) = g[y] + SumFunctionOnSet(g, U)
  BY SumRemove
<1> QED
  BY <1>2, <1>3, <1>4

\* The elements of the classes of a set are its elements.
LEMMA SumOfClasses ==
    ASSUME NEW S, IsFiniteSet(S), NEW V, IsFiniteSet(V), NEW h \in [S -> V]
    PROVE  SumFunctionOnSet([v \in V |-> Cardinality({x \in S : h[x] = v})], V) = Cardinality(S)
<1> DEFINE Class(v) == {x \in S : h[x] = v}
           Of(W) == {x \in S : h[x] \in W}
           f == [v \in V |-> Cardinality(Class(v))]
           Bad == {W \in SUBSET V : SumFunctionOnSet(f, W) # Cardinality(Of(W))}
<1>1. \A v \in V : IsFiniteSet(Class(v)) /\ f[v] \in Nat /\ f[v] = Cardinality(Class(v))
  <2> TAKE v \in V
  <2>1. IsFiniteSet(Class(v))
    BY FS_Subset
  <2> QED
    BY <2>1, FS_CardinalityType
<1>2. ASSUME Bad # {} PROVE FALSE
  <2>1. \A W \in Bad : IsFiniteSet(W)
    BY FS_Subset
  <2>2. PICK W \in Bad : \A U \in Bad : Cardinality(W) <= Cardinality(U)
    BY <1>2, <2>1, SmallestExists
  <2>3. W \in SUBSET V /\ SumFunctionOnSet(f, W) # Cardinality(Of(W))
    BY <2>2
  <2>4. IsFiniteSet(W)
    BY <2>3, FS_Subset
  <2>5. W # {}
    <3>1. Of({}) = {} /\ Cardinality({}) = 0
      BY FS_EmptySet
    <3> QED
      BY <2>3, <3>1, SumEmpty
  <2>6. PICK w \in W : TRUE
    BY <2>5
  <2> DEFINE U == W \ {w}
  <2>7. U \in SUBSET V /\ U \notin Bad
    <3>1. Cardinality(W) \in Nat /\ Cardinality(U) = Cardinality(W) - 1
      BY <2>4, OneLess
    <3>2. ~(Cardinality(W) <= Cardinality(U))
      BY <3>1
    <3> HIDE DEF Bad
    <3> QED
      BY <2>2, <2>3, <3>2
  <2>8. SumFunctionOnSet(f, U) = Cardinality(Of(U))
    BY <2>7
  <2>9. SumFunctionOnSet(f, W) = f[w] + SumFunctionOnSet(f, U)
    <3>1. \A v \in W : f[v] \in Nat
      BY <1>1, <2>3
    <3> HIDE DEF f
    <3> QED
      BY <2>4, <3>1, SumRemove
  <2>10. Of(W) = Of(U) \cup Class(w) /\ Of(U) \cap Class(w) = {}
    OBVIOUS
  <2>11. IsFiniteSet(Of(U)) /\ IsFiniteSet(Class(w))
    BY FS_Subset
  <2> HIDE DEF Of, Class, U
  <2>12. Cardinality(Of(W)) = Cardinality(Of(U)) + Cardinality(Class(w)) - Cardinality(Of(U) \cap Class(w))
    BY <2>10, <2>11, FS_Union
  <2>13. Cardinality(Of(U) \cap Class(w)) = 0
    BY <2>10, FS_EmptySet
  <2>14. Cardinality(Of(U)) \in Nat /\ Cardinality(Class(w)) \in Nat
    BY <2>11, FS_CardinalityType
  <2>15. f[w] = Cardinality(Class(w))
    BY <1>1, <2>3
  <2> HIDE DEF f
  <2> QED
    BY <2>3, <2>8, <2>9, <2>12, <2>13, <2>14, <2>15
<1>3. SumFunctionOnSet(f, V) = Cardinality(Of(V))
  BY <1>2
<1>4. Of(V) = S
  OBVIOUS
<1> QED
  BY <1>3, <1>4

\* What holds of the summands, scaled, holds of the sums.
LEMMA SumScaled ==
    ASSUME NEW S, IsFiniteSet(S), NEW f, NEW g, NEW h, NEW a \in Nat, NEW b \in Nat,
           \A x \in S : f[x] \in Nat /\ g[x] \in Nat /\ h[x] \in Nat,
           \A x \in S : a * f[x] + g[x] <= b * h[x]
    PROVE  a * SumFunctionOnSet(f, S) + SumFunctionOnSet(g, S) <= b * SumFunctionOnSet(h, S)
<1> DEFINE Sum(k, T) == SumFunctionOnSet(k, T)
           Fails(T) == ~(a * Sum(f, T) + Sum(g, T) <= b * Sum(h, T))
           Bad == {T \in SUBSET S : Fails(T)}
<1> HIDE DEF Sum
<1>1. \A T \in SUBSET S : IsFiniteSet(T) /\ Sum(f, T) \in Nat /\ Sum(g, T) \in Nat /\ Sum(h, T) \in Nat
  BY FS_Subset, SumNat DEF Sum
<1>2. ASSUME Bad # {} PROVE FALSE
  <2>1. PICK T \in Bad : \A W \in Bad : Cardinality(T) <= Cardinality(W)
    BY <1>1, <1>2, SmallestExists
  <2>2. T # {}
    <3>1. Sum(f, {}) = 0 /\ Sum(g, {}) = 0 /\ Sum(h, {}) = 0
      BY SumEmpty DEF Sum
    <3> SUFFICES ASSUME T = {} PROVE FALSE
      OBVIOUS
    <3>2. ~(a * Sum(f, {}) + Sum(g, {}) <= b * Sum(h, {}))
      BY <2>1
    <3>3. a * 0 = 0 /\ b * 0 = 0
      OBVIOUS
    <3> QED
      BY <3>1, <3>2, <3>3
  <2>3. PICK x \in T : TRUE
    BY <2>2
  <2> DEFINE U == T \ {x}
  <2>4. U \in SUBSET S /\ ~Fails(U)
    <3>1. Cardinality(T) \in Nat /\ Cardinality(U) = Cardinality(T) - 1
      BY <1>1, <2>1, OneLess
    <3> QED
      BY <2>1, <3>1
  <2>5. /\ Sum(f, T) = f[x] + Sum(f, U)
        /\ Sum(g, T) = g[x] + Sum(g, U)
        /\ Sum(h, T) = h[x] + Sum(h, U)
    BY <1>1, <2>1, SumRemove DEF Sum
  <2>6. /\ f[x] \in Nat /\ g[x] \in Nat /\ h[x] \in Nat /\ a * f[x] + g[x] <= b * h[x]
        /\ Sum(f, U) \in Nat /\ Sum(g, U) \in Nat /\ Sum(h, U) \in Nat
    BY <1>1, <2>1, <2>4
  <2>7. \A i, j, k, l, m, n \in Nat :
           a * i + k <= b * m /\ a * j + l <= b * n => a * (i + j) + (k + l) <= b * (m + n)
    OBVIOUS
  <2> HIDE DEF U
  <2> QED
    BY <2>1, <2>4, <2>5, <2>6, <2>7
<1> QED
  BY <1>2 DEF Sum

\* A sum of ones counts.
LEMMA SumOfOnes ==
    ASSUME NEW S, IsFiniteSet(S)
    PROVE  SumFunctionOnSet([x \in S |-> 1], S) = Cardinality(S)
<1> DEFINE one == [x \in S |-> 1]
           Bad == {T \in SUBSET S : SumFunctionOnSet(one, T) # Cardinality(T)}
<1>1. \A T \in SUBSET S : IsFiniteSet(T)
  BY FS_Subset
<1>2. \A x \in S : one[x] = 1
  OBVIOUS
<1> HIDE DEF one
<1>3. ASSUME Bad # {} PROVE FALSE
  <2>1. PICK T \in Bad : \A W \in Bad : Cardinality(T) <= Cardinality(W)
    BY <1>1, <1>3, SmallestExists
  <2>2. T # {}
    BY <2>1, SumEmpty, FS_EmptySet
  <2>3. PICK x \in T : TRUE
    BY <2>2
  <2>4. Cardinality(T) \in Nat /\ Cardinality(T \ {x}) = Cardinality(T) - 1 /\ T \ {x} \in SUBSET S
    BY <1>1, <2>1, OneLess
  <2>5. SumFunctionOnSet(one, T \ {x}) = Cardinality(T \ {x})
    BY <2>1, <2>4
  <2>6. SumFunctionOnSet(one, T) = one[x] + SumFunctionOnSet(one, T \ {x})
    <3>1. IsFiniteSet(T) /\ \A y \in T : one[y] \in Nat
      BY <1>1, <1>2, <2>1
    <3> HIDE DEF Bad
    <3> QED
      BY <3>1, SumRemove
  <2> QED
    BY <1>2, <2>1, <2>4, <2>5, <2>6
<1> QED
  BY <1>3 DEF one

\* Zeros add up to zero.
LEMMA SumOfZeros ==
    ASSUME NEW S, IsFiniteSet(S), NEW f, \A x \in S : f[x] = 0
    PROVE  SumFunctionOnSet(f, S) = 0
<1>1. SumFunctionOnSet(f, S) \in Nat
  BY SumNat
<1>2. 0 \in Nat /\ \A x \in S : f[x] \in Nat /\ 0 * f[x] + f[x] <= 0 * f[x]
  OBVIOUS
<1>3. 0 * SumFunctionOnSet(f, S) + SumFunctionOnSet(f, S) <= 0 * SumFunctionOnSet(f, S)
  BY ONLY <1>2, SumScaled, IsFiniteSet(S)
<1> QED
  BY <1>1, <1>3

=============================================================================
