--------------------------------- MODULE Sums ---------------------------------
(***************************************************************************)
(* Lemmas about SumFunctionOnSet(f, S), with which the models add up       *)
(* counters and buckets: the sum of f[x] over a finite set S.              *)
(*                                                                         *)
(* The operator takes the elements in an order that nothing is known of.   *)
(* What it returns is shown without induction: a set for which a sum does  *)
(* not exist, or is not the one claimed, would have a smallest such subset.*)
(***************************************************************************)
EXTENDS Integers, Functions, FiniteSetTheorems, TLAPS

\* The element of s that is added last.
First(s) == CHOOSE x \in s : TRUE

\* it maps every subset of S to the sum of g over it.
IsSum(it, g, S) ==
    it = [s \in SUBSET S |-> IF s = {} THEN 0 ELSE g[First(s)] + it[s \ {First(s)}]]

\* What f has at every element of S is a natural number.
Terms(f, S) == IsFiniteSet(S) /\ \A x \in S : f[x] \in Nat

LEMMA FirstIn == ASSUME NEW s, s # {} PROVE First(s) \in s
  BY DEF First

LEMMA IterEmpty == ASSUME NEW S, NEW g, NEW it, IsSum(it, g, S) PROVE it[{}] = 0
  BY DEF IsSum

LEMMA IterStep ==
    ASSUME NEW S, NEW g, NEW it, IsSum(it, g, S), NEW s, s \in SUBSET S, s # {}
    PROVE  /\ First(s) \in S /\ s \ {First(s)} \in SUBSET S
           /\ it[s] = g[First(s)] + it[s \ {First(s)}]
  BY FirstIn DEF IsSum

\* A property of the finite subsets of S that fails for some of them fails for a smallest.
LEMMA SmallestSubset ==
    ASSUME NEW S, IsFiniteSet(S), NEW Bad \in SUBSET SUBSET S, Bad # {}
    PROVE  \E T \in Bad : \A U \in SUBSET T : U # T => U \notin Bad
  <1>1. Bad \subseteq FiniteSubsetsOf(S)
    BY FS_Subset DEF FiniteSubsetsOf
  <1>2. PICK T \in Bad : \A U \in Bad : ~(<<U, T>> \in StrictSubsetOrdering(S))
    BY <1>1, FS_StrictSubsetOrderingWellFounded, WFMin
  <1>3. ASSUME NEW U \in SUBSET T, U # T PROVE U \notin Bad
    BY <1>2, <1>3 DEF StrictSubsetOrdering
  <1>4. QED
    BY <1>3

\* So does a property of natural numbers up to n.
LEMMA SmallestNumber ==
    ASSUME NEW Bad \in SUBSET Nat, Bad # {}
    PROVE  \E m \in Bad : \A k \in Nat : k < m => k \notin Bad
  <1>1. PICK m \in Bad : \A k \in Bad : ~(<<k, m>> \in OpToRel(<, Nat))
    BY NatLessThanWellFounded, WFMin
  <1>2. QED
    BY <1>1 DEF OpToRel

-----------------------------------------------------------------------------
(* What the operator computes *)

LEMMA IterUnique ==
    ASSUME NEW S, IsFiniteSet(S), NEW g, NEW f, NEW it, NEW jt,
           NEW T \in SUBSET S, NEW U \in SUBSET S,
           IsSum(it, g, T), IsSum(jt, f, U), \A x \in T \cap U : g[x] = f[x]
    PROVE  \A s \in SUBSET (T \cap U) : it[s] = jt[s]
  <1> DEFINE Bad == {s \in SUBSET (T \cap U) : it[s] # jt[s]}
  <1> SUFFICES ASSUME Bad # {} PROVE FALSE
    OBVIOUS
  <1>1. PICK s \in Bad : \A r \in SUBSET s : r # s => r \notin Bad
    <2>1. Bad \in SUBSET SUBSET S
      OBVIOUS
    <2> HIDE DEF Bad
    <2>2. QED
      BY <2>1, SmallestSubset
  <1>2. s \in SUBSET T /\ s \in SUBSET U /\ it[s] # jt[s]
    OBVIOUS
  <1>3. s # {}
    <2>1. it[{}] = 0
      BY IterEmpty
    <2>2. jt[{}] = 0
      BY IterEmpty
    <2>3. QED
      BY <1>2, <2>1, <2>2
  <1>4. First(s) \in T /\ First(s) \in U
    BY <1>2, <1>3, FirstIn
  <1>5. it[s \ {First(s)}] = jt[s \ {First(s)}]
    BY <1>1, <1>2, <1>3, FirstIn
  <1>6. it[s] = g[First(s)] + it[s \ {First(s)}]
    <2>1. IsSum(it, g, T) /\ s \in SUBSET T /\ s # {}
      BY <1>2, <1>3
    <2>2. QED
      BY ONLY <2>1, IterStep
  <1>7. jt[s] = f[First(s)] + jt[s \ {First(s)}]
    <2>1. IsSum(jt, f, U) /\ s \in SUBSET U /\ s # {}
      BY <1>2, <1>3
    <2>2. QED
      BY ONLY <2>1, IterStep
  <1>8. QED
    BY <1>2, <1>4, <1>5, <1>6, <1>7

LEMMA IterExists ==
    ASSUME NEW S, NEW g, Terms(g, S)
    PROVE  \E it \in [SUBSET S -> Nat] : IsSum(it, g, S)
  <1> DEFINE Good(T) == \E it \in [SUBSET T -> Nat] : IsSum(it, g, T)
             Bad == {T \in SUBSET S : ~Good(T)}
  <1> SUFFICES ASSUME Bad # {} PROVE FALSE
    OBVIOUS
  <1>1. PICK T \in Bad : \A U \in SUBSET T : U # T => U \notin Bad
    <2>1. Bad \in SUBSET SUBSET S
      OBVIOUS
    <2> HIDE DEF Bad
    <2>2. QED
      BY <2>1, SmallestSubset DEF Terms
  <1>2. T \in SUBSET S /\ ~Good(T)
    OBVIOUS
  <1>3. \A U \in SUBSET T : U # T => Good(U)
    BY <1>1, <1>2
  <1> DEFINE sum(U) == CHOOSE it : it \in [SUBSET U -> Nat] /\ IsSum(it, g, U)
             all == [U \in SUBSET T |->
                       IF U = {} THEN 0
                       ELSE g[First(U)] + sum(U \ {First(U)})[U \ {First(U)}]]
  <1>4. ASSUME NEW U \in SUBSET T, U # T PROVE sum(U) \in [SUBSET U -> Nat] /\ IsSum(sum(U), g, U)
    BY <1>3, <1>4
  <1> HIDE DEF sum
  <1>5. ASSUME NEW U \in SUBSET T, U # {}
        PROVE  /\ U \ {First(U)} \in SUBSET T /\ U \ {First(U)} # T
               /\ First(U) \in S /\ First(U) \in U
               /\ g[First(U)] \in Nat
               /\ sum(U \ {First(U)})[U \ {First(U)}] \in Nat
    <2>1. First(U) \in U
      BY <1>5, FirstIn
    <2>2. U \ {First(U)} \in SUBSET T /\ U \ {First(U)} # T /\ First(U) \in S
      BY <1>2, <2>1
    <2>3. QED
      BY <1>4, <2>1, <2>2 DEF Terms
  <1>6. all \in [SUBSET T -> Nat]
    BY <1>5
  <1>7. ASSUME NEW U \in SUBSET T, U # T PROVE all[U] = sum(U)[U]
    <2>1. CASE U = {}
      <3>1. IsSum(sum(U), g, U) /\ U \in SUBSET U
        BY <1>4, <1>7
      <3>2. sum(U)[U] = 0
        BY <2>1, <3>1, IterEmpty
      <3>3. QED
        BY <2>1, <3>2
    <2>2. CASE U # {}
      <3> DEFINE V == U \ {First(U)}
      <3>1. V \in SUBSET T /\ V # T /\ V \in SUBSET U
        BY <1>5, <2>2
      <3>2. sum(U)[U] = g[First(U)] + sum(U)[V]
        <4>1. IsSum(sum(U), g, U) /\ U \in SUBSET U /\ U # {}
          BY <1>4, <1>7, <2>2
        <4>2. QED
          BY ONLY <4>1, IterStep
      <3>3. sum(U)[V] = sum(V)[V]
        <4>1. IsSum(sum(U), g, U) /\ IsSum(sum(V), g, V)
          BY <1>4, <1>7, <3>1
        <4>2. U \in SUBSET S /\ V \in SUBSET S /\ V \in SUBSET (U \cap V)
          BY <1>2, <3>1
        <4> HIDE DEF V
        <4>3. QED
          BY <4>1, <4>2, IterUnique DEF Terms
      <3>4. all[U] = g[First(U)] + sum(V)[V]
        BY <2>2
      <3>5. QED
        BY <3>2, <3>3, <3>4
    <2>3. QED
      BY <2>1, <2>2
  <1>8. ASSUME NEW U \in SUBSET T
        PROVE  all[U] = IF U = {} THEN 0 ELSE g[First(U)] + all[U \ {First(U)}]
    <2>1. CASE U = {}
      BY <2>1
    <2>2. CASE U # {}
      <3>1. all[U \ {First(U)}] = sum(U \ {First(U)})[U \ {First(U)}]
        BY <1>5, <1>7, <2>2
      <3>2. QED
        BY <2>2, <3>1
    <2>3. QED
      BY <2>1, <2>2
  <1> HIDE DEF all
  <1>9. IsSum(all, g, T)
    BY <1>6, <1>8 DEF IsSum
  <1>10. QED
    BY <1>2, <1>6, <1>9

\* it is the iteration, and what the operator returns for each subset of S.
IsSums(it, f, S) ==
    /\ it \in [SUBSET S -> Nat]
    /\ IsSum(it, f, S)
    /\ \A T \in SUBSET S : it[T] = SumFunctionOnSet(f, T)

\* The sum over every subset of S comes from the same iteration.
LEMMA SumIsIter ==
    ASSUME NEW S, NEW f, Terms(f, S)
    PROVE  \E it : IsSums(it, f, S)
  <1>1. PICK it \in [SUBSET S -> Nat] : IsSum(it, f, S)
    BY IterExists
  <1>2. ASSUME NEW T \in SUBSET S PROVE it[T] = SumFunctionOnSet(f, T)
    <2> DEFINE tt == CHOOSE jt : IsSum(jt, f, T)
    <2>1. SumFunctionOnSet(f, T) = tt[T]
      BY DEF SumFunctionOnSet, FoldFunctionOnSet, MapThenFoldSet, First, IsSum
    <2>2. Terms(f, T) /\ IsFiniteSet(S)
      BY FS_Subset DEF Terms
    <2>3. IsSum(tt, f, T)
      BY <2>2, IterExists
    <2> HIDE DEF tt
    <2>4. \A x \in S \cap T : f[x] = f[x]
      OBVIOUS
    <2>5. it[T] = tt[T]
      BY <1>1, <2>2, <2>3, <2>4, IterUnique
    <2>6. QED
      BY <2>1, <2>5
  <1>3. QED
    BY <1>1, <1>2 DEF IsSums

-----------------------------------------------------------------------------
(* The laws of a sum *)

LEMMA SumNat == ASSUME NEW S, NEW f, Terms(f, S) PROVE SumFunctionOnSet(f, S) \in Nat
  <1>1. PICK it : IsSums(it, f, S)
    BY SumIsIter
  <1>2. S \in SUBSET S
    OBVIOUS
  <1>3. it[S] \in Nat /\ it[S] = SumFunctionOnSet(f, S)
    BY <1>1, <1>2 DEF IsSums
  <1>4. QED
    BY <1>3

LEMMA SumEmpty == ASSUME NEW f PROVE SumFunctionOnSet(f, {}) = 0
  <1>1. Terms(f, {})
    BY FS_EmptySet DEF Terms
  <1>2. PICK it : IsSums(it, f, {})
    BY <1>1, SumIsIter
  <1>3. {} \in SUBSET {}
    OBVIOUS
  <1>4. IsSum(it, f, {}) /\ it[{}] = SumFunctionOnSet(f, {})
    BY <1>2, <1>3 DEF IsSums
  <1>5. QED
    BY <1>4, IterEmpty

\* Any element may be taken out first.
LEMMA SumRemove ==
    ASSUME NEW S, NEW f, Terms(f, S), NEW x \in S
    PROVE  SumFunctionOnSet(f, S) = SumFunctionOnSet(f, S \ {x}) + f[x]
  <1>0. PICK it : IsSums(it, f, S)
    BY SumIsIter
  <1>1. /\ it \in [SUBSET S -> Nat] /\ IsSum(it, f, S)
        /\ \A T \in SUBSET S : it[T] = SumFunctionOnSet(f, T)
    BY <1>0 DEF IsSums
  <1> DEFINE Bad == {T \in SUBSET S : \E y \in T : it[T] # it[T \ {y}] + f[y]}
  <1>2. ASSUME Bad # {} PROVE FALSE
    <2>1. PICK T \in Bad : \A U \in SUBSET T : U # T => U \notin Bad
      <3>1. Bad \in SUBSET SUBSET S
        OBVIOUS
      <3> HIDE DEF Bad
      <3>2. QED
        BY <1>2, <3>1, SmallestSubset DEF Terms
    <2>2. T \in SUBSET S
      OBVIOUS
    <2>3. PICK y \in T : it[T] # it[T \ {y}] + f[y]
      OBVIOUS
    <2> DEFINE z == First(T)
    <2>4. z \in T /\ z \in S /\ y \in S
      BY <2>2, FirstIn
    <2>5. it[T] = f[z] + it[T \ {z}]
      BY <1>1, <2>2, <2>4, IterStep
    <2> HIDE DEF z
    <2>6. /\ f[z] \in Nat /\ f[y] \in Nat
          /\ T \ {z} \in SUBSET S /\ T \ {y} \in SUBSET S /\ T \ {y, z} \in SUBSET S
          /\ it[T \ {z}] \in Nat /\ it[T \ {y}] \in Nat /\ it[T \ {y, z}] \in Nat
      BY <1>1, <2>2, <2>4 DEF Terms
    <2>7. z # y
      <3>1. it[T] = it[T \ {z}] + f[z]
        BY <2>5, <2>6
      <3>2. QED
        BY <2>3, <3>1
    <2>8. /\ it[T \ {z}] = it[T \ {y, z}] + f[y]
          /\ it[T \ {y}] = it[T \ {y, z}] + f[z]
      <3>1. T \ {z} \notin Bad /\ T \ {y} \notin Bad
        BY <2>1, <2>4
      <3>2. (T \ {z}) \ {y} = T \ {y, z} /\ (T \ {y}) \ {z} = T \ {y, z}
        OBVIOUS
      <3>3. y \in T \ {z} /\ z \in T \ {y}
        BY <2>4, <2>7
      <3>4. QED
        BY <2>6, <3>1, <3>2, <3>3
    <2>9. QED
      BY <2>3, <2>5, <2>6, <2>8
  <1>3. S \in SUBSET S /\ S \ {x} \in SUBSET S /\ S \notin Bad
    BY <1>2
  <1>4. it[S] = it[S \ {x}] + f[x]
    BY <1>3
  <1>5. QED
    BY <1>1, <1>3, <1>4

LEMMA SumAdd ==
    ASSUME NEW S, NEW f, Terms(f, S), NEW x, x \notin S, f[x] \in Nat
    PROVE  /\ Terms(f, S \cup {x})
           /\ SumFunctionOnSet(f, S \cup {x}) = SumFunctionOnSet(f, S) + f[x]
  <1>1. Terms(f, S \cup {x})
    BY FS_AddElement DEF Terms
  <1>2. (S \cup {x}) \ {x} = S /\ x \in S \cup {x}
    OBVIOUS
  <1>3. QED
    BY <1>1, <1>2, SumRemove

\* Sums of the same terms are equal,
LEMMA SumSame ==
    ASSUME NEW S, NEW f, NEW g, Terms(f, S), \A x \in S : g[x] = f[x]
    PROVE  Terms(g, S) /\ SumFunctionOnSet(g, S) = SumFunctionOnSet(f, S)
  <1>1. Terms(g, S)
    BY DEF Terms
  <1>2. PICK it : IsSums(it, f, S)
    BY SumIsIter
  <1>3. PICK jt : IsSums(jt, g, S)
    BY <1>1, SumIsIter
  <1>4. \A x \in S \cap S : f[x] = g[x]
    OBVIOUS
  <1>5. it[S] = jt[S]
    BY <1>2, <1>3, <1>4, IterUnique DEF Terms, IsSums
  <1>6. S \in SUBSET S
    OBVIOUS
  <1>7. it[S] = SumFunctionOnSet(f, S) /\ jt[S] = SumFunctionOnSet(g, S)
    BY <1>2, <1>3, <1>6 DEF IsSums
  <1>8. QED
    BY <1>1, <1>5, <1>7

\* a sum of zeros is zero,
LEMMA SumZero ==
    ASSUME NEW S, NEW f, Terms(f, S), \A x \in S : f[x] = 0
    PROVE  SumFunctionOnSet(f, S) = 0
  <1> DEFINE F(T) == SumFunctionOnSet(f, T)
             Bad == {T \in SUBSET S : F(T) # 0}
  <1>1. ASSUME Bad # {} PROVE FALSE
    <2>1. PICK T \in Bad : \A U \in SUBSET T : U # T => U \notin Bad
      <3>1. Bad \in SUBSET SUBSET S
        OBVIOUS
      <3> HIDE DEF Bad
      <3>2. QED
        BY <1>1, <3>1, SmallestSubset DEF Terms
    <2>2. T \in SUBSET S /\ F(T) # 0
      OBVIOUS
    <2>3. PICK x \in T : x \in S /\ T \ {x} \in SUBSET S
      BY <2>2, SumEmpty
    <2>4. F(T) = F(T \ {x}) + f[x]
      BY <2>2, FS_Subset, SumRemove DEF Terms
    <2>5. F(T \ {x}) = 0 /\ f[x] = 0
      BY <2>1, <2>3
    <2> HIDE DEF F
    <2>6. QED
      BY <2>2, <2>4, <2>5
  <1>2. S \in SUBSET S
    OBVIOUS
  <1>3. QED
    BY <1>1, <1>2

\* a sum grows with its terms,
LEMMA SumGrows ==
    ASSUME NEW S, NEW f, NEW g, Terms(f, S), Terms(g, S), \A x \in S : f[x] <= g[x]
    PROVE  SumFunctionOnSet(f, S) <= SumFunctionOnSet(g, S)
  <1> DEFINE F(T) == SumFunctionOnSet(f, T)
             G(T) == SumFunctionOnSet(g, T)
             Bad == {T \in SUBSET S : ~(F(T) <= G(T))}
  <1>1. ASSUME Bad # {} PROVE FALSE
    <2>1. PICK T \in Bad : \A U \in SUBSET T : U # T => U \notin Bad
      <3>1. Bad \in SUBSET SUBSET S
        OBVIOUS
      <3> HIDE DEF Bad
      <3>2. QED
        BY <1>1, <3>1, SmallestSubset DEF Terms
    <2>2. T \in SUBSET S /\ ~(F(T) <= G(T))
      OBVIOUS
    <2>3. ASSUME NEW U \in SUBSET S PROVE Terms(f, U) /\ Terms(g, U)
      BY FS_Subset DEF Terms
    <2>4. T # {}
      <3>1. F({}) = 0 /\ G({}) = 0
        BY SumEmpty
      <3>2. F({}) <= G({})
        BY <3>1
      <3>3. QED
        BY <2>2, <3>2
    <2>5. PICK x \in T : x \in S /\ T \ {x} \in SUBSET S
      BY <2>2, <2>4
    <2>6. F(T) = F(T \ {x}) + f[x] /\ G(T) = G(T \ {x}) + g[x]
      BY <2>2, <2>3, SumRemove
    <2>7. F(T \ {x}) \in Nat /\ G(T \ {x}) \in Nat /\ f[x] \in Nat /\ g[x] \in Nat
      BY <2>3, <2>5, SumNat DEF Terms
    <2>8. F(T \ {x}) <= G(T \ {x})
      BY <2>1, <2>5
    <2> HIDE DEF F, G
    <2>9. QED
      BY <2>2, <2>5, <2>6, <2>7, <2>8
  <1>2. S \in SUBSET S
    OBVIOUS
  <1>3. QED
    BY <1>1, <1>2

\* with the set that is summed over,
LEMMA SumSubset ==
    ASSUME NEW S, NEW f, Terms(f, S), NEW T \in SUBSET S
    PROVE  Terms(f, T) /\ SumFunctionOnSet(f, T) <= SumFunctionOnSet(f, S)
  <1> DEFINE F(U) == SumFunctionOnSet(f, U)
             Bad == {U \in SUBSET S : T \subseteq U /\ ~(F(T) <= F(U))}
  <1>1. ASSUME NEW U \in SUBSET S PROVE Terms(f, U) /\ F(U) \in Nat
    BY FS_Subset, SumNat DEF Terms
  <1>2. ASSUME Bad # {} PROVE FALSE
    <2>1. PICK U \in Bad : \A V \in SUBSET U : V # U => V \notin Bad
      <3>1. Bad \in SUBSET SUBSET S
        OBVIOUS
      <3> HIDE DEF Bad
      <3>2. QED
        BY <1>2, <3>1, SmallestSubset DEF Terms
    <2>2. U \in SUBSET S /\ T \subseteq U /\ ~(F(T) <= F(U))
      OBVIOUS
    <2>3. T # U
      BY <1>1, <2>2
    <2>4. PICK x \in U : x \notin T /\ x \in S /\ U \ {x} \in SUBSET S /\ T \subseteq U \ {x}
      BY <2>2, <2>3
    <2>5. F(U) = F(U \ {x}) + f[x] /\ f[x] \in Nat
      BY <1>1, <2>2, <2>4, SumRemove DEF Terms
    <2>6. F(T) <= F(U \ {x})
      BY <2>1, <2>4
    <2>7. F(T) \in Nat /\ F(U \ {x}) \in Nat
      BY <1>1, <2>4
    <2> HIDE DEF F
    <2>8. QED
      BY <2>2, <2>5, <2>6, <2>7
  <1>3. S \in SUBSET S
    OBVIOUS
  <1>4. QED
    BY <1>1, <1>2, <1>3

\* and by one with one of its terms.
OneMoreAt(x, f, g, S) == g[x] = f[x] + 1 /\ \A y \in S : y # x => g[y] = f[y]

LEMMA SumOneMore ==
    ASSUME NEW S, NEW f, NEW g, NEW x \in S, Terms(f, S), OneMoreAt(x, f, g, S)
    PROVE  Terms(g, S) /\ SumFunctionOnSet(g, S) = SumFunctionOnSet(f, S) + 1
  <1>1. f[x] \in Nat /\ g[x] = f[x] + 1 /\ \A y \in S \ {x} : g[y] = f[y]
    BY DEF Terms, OneMoreAt
  <1>2. Terms(f, S \ {x})
    BY SumSubset
  <1>3. /\ Terms(g, S \ {x})
        /\ SumFunctionOnSet(g, S \ {x}) = SumFunctionOnSet(f, S \ {x})
    BY <1>1, <1>2, SumSame
  <1>4. Terms(g, S)
    BY <1>1 DEF Terms, OneMoreAt
  <1>5. /\ SumFunctionOnSet(f, S) = SumFunctionOnSet(f, S \ {x}) + f[x]
        /\ SumFunctionOnSet(g, S) = SumFunctionOnSet(g, S \ {x}) + g[x]
    BY <1>4, SumRemove
  <1>6. SumFunctionOnSet(f, S \ {x}) \in Nat
    BY <1>2, SumNat
  <1>7. QED
    BY <1>1, <1>3, <1>4, <1>5, <1>6

-----------------------------------------------------------------------------
(* Sums over an interval *)

LEMMA IntervalTerms ==
    ASSUME NEW a \in Int, NEW b \in Int, NEW f, \A i \in a .. b : f[i] \in Nat
    PROVE  Terms(f, a .. b)
  <1>1. IsFiniteSet(a .. b)
    BY FS_Interval
  <1>2. QED
    BY <1>1 DEF Terms

LEMMA SumNext ==
    ASSUME NEW a \in Int, NEW b \in Int, a <= b + 1, NEW f, Terms(f, a .. b), f[b + 1] \in Nat
    PROVE  SumFunctionOnSet(f, a .. b + 1) = SumFunctionOnSet(f, a .. b) + f[b + 1]
  <1> DEFINE S == a .. b
             x == b + 1
  <1>1. a .. b + 1 = S \cup {x} /\ x \notin S
    OBVIOUS
  <1>2. Terms(f, S) /\ f[x] \in Nat
    OBVIOUS
  <1> HIDE DEF S, x
  <1>3. SumFunctionOnSet(f, S \cup {x}) = SumFunctionOnSet(f, S) + f[x]
    BY <1>1, <1>2, SumAdd
  <1>4. QED
    BY <1>1, <1>3 DEF S, x
=============================================================================
