--------------------------- MODULE DeliveryProofs ---------------------------
(***************************************************************************)
(* Proofs about the deliveries of a coin: no record is paid twice, what    *)
(* was bought is accounted for, and of a coin somebody burns, as long as   *)
(* no landed transfer is overlooked, nobody gets more than its share and   *)
(* who gets less has a record that says so.                                *)
(***************************************************************************)
EXTENDS Delivery, FiniteSetTheorems, SequenceTheorems, WellFoundedInduction, TLAPS

-----------------------------------------------------------------------------
(* Sums over finite sets.                                                  *)

\* What holds of a set when it holds of its proper subsets holds of every
\* subset of a finite set.
LEMMA SmallerFirst ==
  ASSUME NEW S, IsFiniteSet(S), NEW P,
         \A T \in SUBSET S : (\A U \in SUBSET T : U # T => U \in P) => T \in P
  PROVE  SUBSET S \subseteq P
<1> DEFINE Bad == (SUBSET S) \ P
<1>1. IsWellFoundedOn(StrictSubsetOrdering(S), SUBSET S)
  BY FS_StrictSubsetOrderingWellFounded, FS_FiniteSubsetsOfFinite
<1>2. ASSUME Bad # {} PROVE FALSE
  <2>1. PICK T \in Bad : \A U \in Bad : ~ (<<U, T>> \in StrictSubsetOrdering(S))
    <3> HIDE DEF Bad
    <3>1. Bad \subseteq SUBSET S
      BY DEF Bad
    <3> QED
      BY <1>1, <1>2, <3>1, WFMin
  <2>2. \A U \in SUBSET T : U # T => U \in P
    <3> SUFFICES ASSUME NEW U \in SUBSET T, U # T, U \notin P PROVE FALSE
      OBVIOUS
    <3>1. T \in SUBSET S /\ U \in SUBSET S /\ U \in Bad
      OBVIOUS
    <3>2. <<U, T>> \in StrictSubsetOrdering(S)
      <4> HIDE DEF Bad
      <4> QED
        BY <3>1 DEF StrictSubsetOrdering
    <3> QED
      BY <2>1, <3>1, <3>2
  <2>3. T \in SUBSET S /\ T \notin P
    BY <2>1
  <2> HIDE DEF Bad
  <2> QED
    BY <2>2, <2>3
<1> QED
  BY <1>2

\* The member a sum begins with.
FirstOf(S) == CHOOSE x \in S : TRUE

\* The table a sum is read from: what every subset of S adds up to.
IsTally(g, f, S) ==
  g = [s \in SUBSET S |-> IF s = {} THEN 0
                          ELSE f[FirstOf(s)] + g[s \ {FirstOf(s)}]]

\* A table's entry, from its definition.
LEMMA TallyEntry ==
  ASSUME NEW f, NEW S, NEW g, IsTally(g, f, S), NEW T \in SUBSET S
  PROVE  g[T] = IF T = {} THEN 0
                ELSE f[FirstOf(T)] + g[T \ {FirstOf(T)}]
BY DEF IsTally

\* Two tables of the same numbers agree where both have an entry.
LEMMA TalliesAgree ==
  ASSUME NEW f, NEW S, NEW R, IsFiniteSet(S),
         NEW g, IsTally(g, f, S), NEW h, IsTally(h, f, R), S \subseteq R
  PROVE  g[S] = h[S]
<1> DEFINE P == {T \in SUBSET S : g[T] = h[T]}
<1>1. ASSUME NEW T \in SUBSET S, \A U \in SUBSET T : U # T => U \in P PROVE T \in P
  <2>1. g[T] = IF T = {} THEN 0 ELSE f[FirstOf(T)] + g[T \ {FirstOf(T)}]
    BY TallyEntry
  <2>2. h[T] = IF T = {} THEN 0 ELSE f[FirstOf(T)] + h[T \ {FirstOf(T)}]
    <3>1. T \in SUBSET R
      OBVIOUS
    <3> QED
      BY <3>1, TallyEntry
  <2>3. T # {} => FirstOf(T) \in T
    BY DEF FirstOf
  <2>4. T # {} => g[T \ {FirstOf(T)}] = h[T \ {FirstOf(T)}]
    BY <1>1, <2>3
  <2> QED
    BY <2>1, <2>2, <2>4
<1>2. SUBSET S \subseteq P
  <2> HIDE DEF P
  <2> QED
    BY <1>1, SmallerFirst
<1> QED
  BY <1>2

\* Every finite set has a table.
LEMMA TallyExists ==
  ASSUME NEW f, NEW S, IsFiniteSet(S)
  PROVE  \E g : IsTally(g, f, S)
<1> DEFINE P == {T \in SUBSET S : \E g : IsTally(g, f, T)}
<1>1. ASSUME NEW T \in SUBSET S, \A U \in SUBSET T : U # T => U \in P PROVE T \in P
  <2> DEFINE Table(U) == CHOOSE g : IsTally(g, f, U)
             Entry(U) == IF U = {} THEN 0 ELSE f[FirstOf(U)] + Table(U \ {FirstOf(U)})[U \ {FirstOf(U)}]
             g == [U \in SUBSET T |-> Entry(U)]
  <2>1. \A U \in SUBSET T : U # T => IsTally(Table(U), f, U)
    BY <1>1
  <2>2. \A U \in SUBSET T : U # {} => FirstOf(U) \in U /\ U \ {FirstOf(U)} \in SUBSET T
    BY DEF FirstOf
  <2>3. \A U \in SUBSET T : U # T => Table(U)[U] = Entry(U)
    <3> SUFFICES ASSUME NEW U \in SUBSET T, U # T PROVE Table(U)[U] = Entry(U)
      OBVIOUS
    <3>1. Table(U)[U] = IF U = {} THEN 0 ELSE f[FirstOf(U)] + Table(U)[U \ {FirstOf(U)}]
      <4> HIDE DEF Table
      <4> QED
        BY <2>1, TallyEntry
    <3>2. CASE U # {}
      <4> DEFINE V == U \ {FirstOf(U)}
      <4>1. V \in SUBSET T /\ V # T /\ V \subseteq U
        BY <2>2, <3>2
      <4>2. IsTally(Table(V), f, V) /\ IsTally(Table(U), f, U)
        BY <2>1, <4>1
      <4>3. IsFiniteSet(V)
        BY <4>1, FS_Subset
      <4>4. Table(V)[V] = Table(U)[V]
        <5> HIDE DEF Table, V
        <5> QED
          BY <4>1, <4>2, <4>3, TalliesAgree
      <4> QED
        BY <3>1, <3>2, <4>4
    <3> QED
      BY <3>1, <3>2
  <2>4. IsTally(g, f, T)
    <3>1. \A U \in SUBSET T : Entry(U) = IF U = {} THEN 0 ELSE f[FirstOf(U)] + g[U \ {FirstOf(U)}]
      <4> SUFFICES ASSUME NEW U \in SUBSET T, U # {}
                   PROVE  Table(U \ {FirstOf(U)})[U \ {FirstOf(U)}] = g[U \ {FirstOf(U)}]
        <5> HIDE DEF g, Table
        <5> QED
          OBVIOUS
      <4> DEFINE V == U \ {FirstOf(U)}
      <4>1. V \in SUBSET T /\ V # T
        BY <2>2
      <4>2. g[V] = Entry(V) /\ Table(V)[V] = Entry(V)
        BY <2>3, <4>1
      <4> QED
        BY <4>2
    <3>2. g = [U \in SUBSET T |-> IF U = {} THEN 0 ELSE f[FirstOf(U)] + g[U \ {FirstOf(U)}]]
      <4> HIDE DEF Entry
      <4> QED
        BY <3>1
    <3> QED
      BY <3>2 DEF IsTally
  <2> QED
    BY <2>4
<1>2. SUBSET S \subseteq P
  <2> HIDE DEF P
  <2> QED
    BY <1>1, SmallerFirst
<1> QED
  BY <1>2

\* A sum is the last entry of any table of its set, or of a larger one.
LEMMA SumIsTallied ==
  ASSUME NEW f, NEW S, NEW R, IsFiniteSet(R), S \subseteq R, NEW h, IsTally(h, f, R)
  PROVE  SumFunctionOnSet(f, S) = h[S]
<1> DEFINE g == CHOOSE t : IsTally(t, f, S)
<1>1. SumFunctionOnSet(f, S) = g[S]
  BY DEF SumFunctionOnSet, FoldFunctionOnSet, MapThenFoldSet, IsTally, FirstOf
<1>2. IsFiniteSet(S)
  BY FS_Subset
<1>3. IsTally(g, f, S)
  BY <1>2, TallyExists
<1> QED
  <2> HIDE DEF g
  <2> QED
    BY <1>1, <1>2, <1>3, TalliesAgree

\* A sum takes one number and the sum of the rest.
LEMMA SumFirst ==
  ASSUME NEW f, NEW S, IsFiniteSet(S)
  PROVE  SumFunctionOnSet(f, S) =
           IF S = {} THEN 0
           ELSE f[FirstOf(S)] + SumFunctionOnSet(f, S \ {FirstOf(S)})
<1>1. PICK g : IsTally(g, f, S)
  BY TallyExists
<1>2. g[S] = IF S = {} THEN 0 ELSE f[FirstOf(S)] + g[S \ {FirstOf(S)}]
  BY <1>1, TallyEntry
<1>3. SumFunctionOnSet(f, S) = g[S] /\ SumFunctionOnSet(f, S \ {FirstOf(S)}) = g[S \ {FirstOf(S)}]
  BY <1>1, SumIsTallied
<1> QED
  BY <1>2, <1>3

\* The sum of no numbers, and of one.
LEMMA SumOfFew ==
  ASSUME NEW f
  PROVE  /\ SumFunctionOnSet(f, {}) = 0
         /\ \A x : f[x] \in Nat => SumFunctionOnSet(f, {x}) = f[x]
<1>1. SumFunctionOnSet(f, {}) = 0
  BY SumFirst, FS_EmptySet
<1>2. ASSUME NEW x, f[x] \in Nat PROVE SumFunctionOnSet(f, {x}) = f[x]
  <2>1. FirstOf({x}) = x /\ {x} \ {x} = {}
    BY DEF FirstOf
  <2>2. IsFiniteSet({x}) /\ {x} # {}
    BY FS_Singleton
  <2>3. SumFunctionOnSet(f, {x}) = f[x] + SumFunctionOnSet(f, {})
    BY <2>1, <2>2, SumFirst
  <2> QED
    BY <1>1, <1>2, <2>3
<1> QED
  BY <1>1, <1>2

\* Natural numbers add up to a natural number.
LEMMA SumIsNat ==
  ASSUME NEW S, IsFiniteSet(S), NEW f, \A x \in S : f[x] \in Nat
  PROVE  \A T \in SUBSET S : SumFunctionOnSet(f, T) \in Nat
<1> DEFINE P == {T \in SUBSET S : SumFunctionOnSet(f, T) \in Nat}
<1>1. ASSUME NEW T \in SUBSET S, \A U \in SUBSET T : U # T => U \in P PROVE T \in P
  <2>1. IsFiniteSet(T)
    BY FS_Subset
  <2>2. T # {} => FirstOf(T) \in T /\ T \ {FirstOf(T)} \in P
    BY <1>1 DEF FirstOf
  <2>3. SumFunctionOnSet(f, T) =
          IF T = {} THEN 0 ELSE f[FirstOf(T)] + SumFunctionOnSet(f, T \ {FirstOf(T)})
    BY <2>1, SumFirst
  <2>4. SumFunctionOnSet(f, T) \in Nat
    BY <2>2, <2>3
  <2> QED
    BY <2>4
<1>2. SUBSET S \subseteq P
  <2> HIDE DEF P
  <2> QED
    BY <1>1, SmallerFirst
<1> QED
  BY <1>2

\* Any one number may be taken out of a sum.
LEMMA SumTakesOut ==
  ASSUME NEW S, IsFiniteSet(S), NEW f, \A x \in S : f[x] \in Nat
  PROVE  \A T \in SUBSET S : \A x \in T :
           SumFunctionOnSet(f, T) = f[x] + SumFunctionOnSet(f, T \ {x})
<1> DEFINE Sum(T) == SumFunctionOnSet(f, T)
           P == {T \in SUBSET S : \A x \in T : Sum(T) = f[x] + Sum(T \ {x})}
<1>1. ASSUME NEW T \in SUBSET S, \A U \in SUBSET T : U # T => U \in P PROVE T \in P
  <2> SUFFICES ASSUME NEW x \in T PROVE Sum(T) = f[x] + Sum(T \ {x})
    OBVIOUS
  <2> DEFINE c == FirstOf(T)
  <2>1. IsFiniteSet(T) /\ T # {}
    BY FS_Subset
  <2>2. c \in T
    BY DEF FirstOf
  <2>3. Sum(T) = f[c] + Sum(T \ {c})
    BY <2>1, SumFirst
  <2> HIDE DEF Sum, c
  <2>4. CASE x = c
    BY <2>3, <2>4
  <2>5. CASE x # c
    <3>1. T \ {c} \in P /\ T \ {x} \in P
      BY <1>1, <2>2
    <3>2. Sum(T \ {c}) = f[x] + Sum((T \ {c}) \ {x})
      BY <2>5, <3>1
    <3>3. Sum(T \ {x}) = f[c] + Sum((T \ {x}) \ {c})
      BY <2>2, <2>5, <3>1
    <3>4. (T \ {c}) \ {x} = (T \ {x}) \ {c}
      OBVIOUS
    <3>5. f[x] \in Nat /\ f[c] \in Nat
      BY <2>2
    <3>6. Sum((T \ {x}) \ {c}) \in Nat
      BY SumIsNat DEF Sum
    <3> QED
      BY <2>3, <3>2, <3>3, <3>4, <3>5, <3>6
  <2> QED
    BY <2>4, <2>5
<1>2. SUBSET S \subseteq P
  <2> HIDE DEF P
  <2> QED
    BY <1>1, SmallerFirst
<1> QED
  BY <1>2

\* Shares that are each rounded down add up to no more than what is shared.
LEMMA SumOfShares ==
  ASSUME NEW S, IsFiniteSet(S), NEW f, NEW g, NEW n \in Nat, NEW m \in Nat,
         \A x \in S : f[x] \in Nat /\ g[x] \in Nat /\ f[x] * n <= m * g[x]
  PROVE  \A T \in SUBSET S :
           SumFunctionOnSet(f, T) * n <= m * SumFunctionOnSet(g, T)
<1> DEFINE F(T) == SumFunctionOnSet(f, T)
           G(T) == SumFunctionOnSet(g, T)
           P == {T \in SUBSET S : F(T) * n <= m * G(T)}
<1>1. ASSUME NEW T \in SUBSET S, \A U \in SUBSET T : U # T => U \in P PROVE T \in P
  <2>1. IsFiniteSet(T)
    BY FS_Subset
  <2>2. F(T) = (IF T = {} THEN 0 ELSE f[FirstOf(T)] + F(T \ {FirstOf(T)}))
        /\ G(T) = (IF T = {} THEN 0 ELSE g[FirstOf(T)] + G(T \ {FirstOf(T)}))
    BY <2>1, SumFirst
  <2>3. F(T \ {FirstOf(T)}) \in Nat /\ G(T \ {FirstOf(T)}) \in Nat
    BY SumIsNat
  <2> HIDE DEF F, G
  <2>4. T # {} => FirstOf(T) \in T /\ T \ {FirstOf(T)} \in P
    BY <1>1 DEF FirstOf
  <2>5. CASE T = {}
    <3>1. 0 * n <= m * 0
      OBVIOUS
    <3> QED
      BY <2>2, <2>5, <3>1
  <2>6. CASE T # {}
    <3>1. \A a, b, c, d \in Nat : a * n <= m * c /\ b * n <= m * d => (a + b) * n <= m * (c + d)
      OBVIOUS
    <3>2. F(T) * n <= m * G(T)
      BY <2>2, <2>3, <2>4, <2>6, <3>1
    <3> QED
      BY <3>2
  <2> QED
    BY <2>5, <2>6
<1>2. SUBSET S \subseteq P
  <2> HIDE DEF P
  <2> QED
    BY <1>1, SmallerFirst
<1> QED
  BY <1>2

-----------------------------------------------------------------------------
(* Orders, and the larger and the smaller of two numbers.                  *)

\* The larger and the smaller of two are one of them and bound the other.
LEMMA OfTwo ==
  ASSUME NEW x \in Int, NEW y \in Int
  PROVE  /\ Max({x, y}) \in {x, y} /\ Max({x, y}) >= x /\ Max({x, y}) >= y
         /\ Min({x, y}) \in {x, y} /\ Min({x, y}) <= x /\ Min({x, y}) <= y
<1>1. \E z \in {x, y} : \A v \in {x, y} : z >= v
  <2>1. x >= y \/ y >= x
    OBVIOUS
  <2> QED
    BY <2>1
<1>2. \E z \in {x, y} : \A v \in {x, y} : z =< v
  <2>1. x =< y \/ y =< x
    OBVIOUS
  <2> QED
    BY <2>1
<1>3. Max({x, y}) \in {x, y} /\ \A v \in {x, y} : Max({x, y}) >= v
  BY <1>1 DEF Max
<1>4. Min({x, y}) \in {x, y} /\ \A v \in {x, y} : Min({x, y}) =< v
  BY <1>2 DEF Min
<1> QED
  BY <1>3, <1>4

\* The same of numbers that are not negative.
LEMMA OfTwoNats ==
  /\ \A d \in Int : Max({0, d}) \in Nat /\ Max({0, d}) \in {0, d} /\ Max({0, d}) >= d
  /\ \A x, y \in Nat : Min({x, y}) \in Nat /\ Min({x, y}) \in {x, y}
                        /\ Min({x, y}) <= x /\ Min({x, y}) <= y
<1>1. ASSUME NEW d \in Int
      PROVE  Max({0, d}) \in Nat /\ Max({0, d}) \in {0, d} /\ Max({0, d}) >= d
  <2>1. Max({0, d}) \in {0, d} /\ Max({0, d}) >= 0 /\ Max({0, d}) >= d
    BY OfTwo
  <2> QED
    BY <2>1
<1>2. ASSUME NEW x \in Nat, NEW y \in Nat
      PROVE  Min({x, y}) \in Nat /\ Min({x, y}) \in {x, y} /\ Min({x, y}) <= x /\ Min({x, y}) <= y
  <2>1. Min({x, y}) \in {x, y} /\ Min({x, y}) <= x /\ Min({x, y}) <= y
    BY OfTwo
  <2> QED
    BY <2>1
<1> QED
  BY <1>1, <1>2

\* What comes before each member of a finite set, in an order that is total.
IsOrderOf(before, D) ==
  /\ IsFiniteSet(D) /\ before \in [D -> SUBSET D]
  /\ \A x \in D : x \notin before[x] /\ \A y \in before[x] : before[y] \subseteq before[x]
  /\ \A x, y \in D : x = y \/ x \in before[y] \/ y \in before[x]

\* An order that is total names every member of a finite set once.
LEMMA OrderedNamesOnce ==
  ASSUME NEW D, NEW before, IsOrderOf(before, D)
  PROVE  /\ Cardinality(D) \in Nat
         /\ Ordered(before) \in [1..Cardinality(D) -> D]
         /\ \A m, n \in 1..Cardinality(D) : Ordered(before)[m] = Ordered(before)[n] => m = n
<1> USE DEF IsOrderOf
<1> DEFINE N == Cardinality(D)
           rank == [x \in D |-> Cardinality(before[x])]
<1>1. N \in Nat
  BY FS_CardinalityType
<1>2. \A x \in D : IsFiniteSet(before[x]) /\ Cardinality(before[x]) \in 0..(N - 1)
  <2> SUFFICES ASSUME NEW x \in D
               PROVE  IsFiniteSet(before[x]) /\ Cardinality(before[x]) \in 0..(N - 1)
    OBVIOUS
  <2>1. IsFiniteSet(D \ {x}) /\ Cardinality(D \ {x}) = N - 1
    BY FS_RemoveElement
  <2>2. before[x] \in SUBSET (D \ {x})
    OBVIOUS
  <2>3. IsFiniteSet(before[x]) /\ Cardinality(before[x]) <= N - 1
    BY <2>1, <2>2, FS_Subset
  <2>4. Cardinality(before[x]) \in Nat
    BY <2>3, FS_CardinalityType
  <2> QED
    BY <1>1, <2>3, <2>4
<1>3. \A x, y \in D : rank[x] = rank[y] => x = y
  <2>1. ASSUME NEW x \in D, NEW y \in D, x \in before[y] PROVE rank[x] # rank[y]
    <3>1. before[x] \in SUBSET before[y] /\ before[x] # before[y]
      BY <2>1
    <3>2. Cardinality(before[x]) # Cardinality(before[y])
      BY <1>2, <3>1, FS_Subset
    <3> QED
      BY <3>2
  <2> HIDE DEF rank
  <2> QED
    BY <2>1
<1>4. rank \in Injection(D, 0..(N - 1))
  BY <1>2, <1>3 DEF Injection, IsInjective
<1>5. IsFiniteSet(0..(N - 1)) /\ Cardinality(0..(N - 1)) = N
  <2> HIDE DEF N
  <2> QED
    BY <1>1, FS_Interval
<1>6. rank \in Surjection(D, 0..(N - 1))
  <2> HIDE DEF rank
  <2> QED
    BY <1>4, <1>5, FS_Injection
<1>7. \A n \in 1..N : \E x \in D : Cardinality(before[x]) = n - 1
  <2> SUFFICES ASSUME NEW n \in 1..N PROVE \E x \in D : Cardinality(before[x]) = n - 1
    OBVIOUS
  <2>1. n - 1 \in 0..(N - 1)
    BY <1>1
  <2>2. PICK x \in D : rank[x] = n - 1
    BY <1>6, <2>1 DEF Surjection
  <2> QED
    BY <2>2
<1> DEFINE O == Ordered(before)
<1>8. O = [n \in 1..N |-> CHOOSE x \in D : Cardinality(before[x]) = n - 1]
  BY DEF Ordered
<1>9. \A n \in 1..N : O[n] \in D /\ Cardinality(before[O[n]]) = n - 1
  <2> SUFFICES ASSUME NEW n \in 1..N PROVE O[n] \in D /\ Cardinality(before[O[n]]) = n - 1
    OBVIOUS
  <2>1. O[n] = CHOOSE x \in D : Cardinality(before[x]) = n - 1
    BY <1>8
  <2> HIDE DEF O, N
  <2> QED
    BY <1>7, <2>1
<1> HIDE DEF O, N
<1>10. O \in [1..N -> D]
  BY <1>8, <1>9
<1>11. \A m, n \in 1..N : O[m] = O[n] => m = n
  BY <1>1, <1>9
<1> QED
  BY <1>1, <1>10, <1>11 DEF O, N

\* It leaves none of them out.
LEMMA OrderedNamesAll ==
  ASSUME NEW D, NEW before, IsOrderOf(before, D), NEW x \in D
  PROVE  \E n \in 1..Cardinality(D) : Ordered(before)[n] = x
<1> DEFINE N == Cardinality(D)
           o == Ordered(before)
<1>1. N \in Nat /\ o \in [1..N -> D] /\ \A m, n \in 1..N : o[m] = o[n] => m = n
  BY OrderedNamesOnce
<1> HIDE DEF o
<1>2. IsFiniteSet(D) /\ IsFiniteSet(1..N) /\ Cardinality(1..N) = N
  <2>1. IsFiniteSet(D)
    BY DEF IsOrderOf
  <2> HIDE DEF N
  <2> QED
    BY <1>1, <2>1, FS_Interval
<1>3. o \in Injection(1..N, D)
  BY <1>1 DEF Injection, IsInjective
<1>4. o \in Surjection(1..N, D)
  BY <1>2, <1>3, FS_Injection
<1>5. \E n \in 1..N : o[n] = x
  BY <1>4 DEF Surjection
<1> QED
  BY <1>5 DEF o

\* A finite set of numbers in their own order.
LEMMA InOrderNamesOnce ==
  ASSUME NEW S \in SUBSET Nat, IsFiniteSet(S)
  PROVE  /\ Cardinality(S) \in Nat
         /\ InOrder(S) \in [1..Cardinality(S) -> S]
         /\ \A m, n \in 1..Cardinality(S) : InOrder(S)[m] = InOrder(S)[n] => m = n
<1> DEFINE before == [i \in S |-> {j \in S : j < i}]
<1>1. before \in [S -> SUBSET S]
  OBVIOUS
<1>2. \A x, y \in S : x \in before[y] <=> x < y
  OBVIOUS
<1>3. InOrder(S) = Ordered(before)
  BY DEF InOrder
<1> HIDE DEF before
<1>4. \A x \in S : before[x] \subseteq S
  BY <1>1
<1>5. \A x, y, z \in S : ~(x < x) /\ (x < y /\ y < z => x < z) /\ (x = y \/ x < y \/ y < x)
  OBVIOUS
<1>6. ASSUME NEW x \in S, NEW y \in before[x] PROVE before[y] \subseteq before[x]
  <2>1. y \in S /\ y < x
    BY <1>2, <1>4
  <2>2. \A z \in before[y] : z \in S /\ z < y
    BY <1>2, <1>4, <2>1
  <2>3. \A z \in before[y] : z < x
    BY <1>5, <2>1, <2>2
  <2> QED
    BY <1>2, <2>2, <2>3
<1>7. \A x \in S : x \notin before[x]
  BY <1>2, <1>5
<1>8. \A x, y \in S : x = y \/ x \in before[y] \/ y \in before[x]
  BY <1>2, <1>5
<1>9. IsOrderOf(before, S)
  BY <1>1, <1>6, <1>7, <1>8 DEF IsOrderOf
<1> QED
  BY <1>3, <1>9, OrderedNamesOnce

-----------------------------------------------------------------------------
(* The amounts.                                                            *)

\* Dividing rounds down.
LEMMA RoundsDown ==
  ASSUME NEW x \in Nat, NEW n \in Nat \ {0}
  PROVE  /\ x \div n \in Nat /\ (x \div n) * n <= x
         /\ (x \div n) * (n - 1) <= x
<1>1. x \div n \in Nat /\ (x \div n) * n <= x
  OBVIOUS
<1>2. \A q, k \in Nat : q * (k - 1) <= q * k
  OBVIOUS
<1>3. (x \div n) * (n - 1) \in Int /\ (x \div n) * (n - 1) <= (x \div n) * n
  BY <1>1, <1>2
<1> QED
  BY <1>1, <1>3

\* The sum of what is left when one number is taken out is no larger.
LEMMA SumOfRest ==
  ASSUME NEW S, IsFiniteSet(S), NEW f, \A x \in S : f[x] \in Nat, NEW x \in S
  PROVE  /\ SumFunctionOnSet(f, S) \in Nat /\ SumFunctionOnSet(f, S \ {x}) \in Nat
         /\ SumFunctionOnSet(f, S) = f[x] + SumFunctionOnSet(f, S \ {x})
<1>1. S \in SUBSET S /\ S \ {x} \in SUBSET S
  OBVIOUS
<1> QED
  BY <1>1, SumIsNat, SumTakesOut

\* calculateDeficitAmounts gives every send a whole amount: what the last wallet
\* and each wallet's last send are left with is never less than nothing.
LEMMA AmountsAreNat ==
  ASSUME NEW s, NEW active \in SUBSET Nat, IsFiniteSet(active),
         \A i \in active : s[i].wallet \in Wallets,
         NEW balance \in Nat, NEW sent \in [Wallets -> Nat], NEW target \in [Wallets -> Int]
  PROVE  DeficitAmounts(s, active, balance, sent, target) \in [active -> Nat]
<1> DEFINE wallets  == {s[i].wallet : i \in active}
           Of(w)    == {i \in active : s[i].wallet = w}
           last     == CHOOSE w \in wallets : \A v \in wallets : Min(Of(v)) <= Min(Of(w))
           short    == [w \in wallets |-> Max({0, target[w] - sent[w]})]
           total    == SumFunction(short)
           part     == [w \in wallets |-> IF total <= balance THEN short[w]
                                          ELSE (balance * short[w]) \div total]
           Share(w) == IF w = last
                       THEN Min({total, balance}) - SumFunctionOnSet(part, wallets \ {w})
                       ELSE part[w]
           Each(w)  == Share(w) \div Cardinality(Of(w))
<1>1. wallets \subseteq Wallets /\ IsFiniteSet(wallets)
  <2>1. wallets \in SUBSET Wallets
    OBVIOUS
  <2> QED
    BY <2>1, SendAssumption, FS_Subset
<1>2. \A w \in wallets : short[w] \in Nat
  <2> SUFFICES ASSUME NEW w \in wallets PROVE short[w] \in Nat
    OBVIOUS
  <2>1. target[w] - sent[w] \in Int
    BY <1>1
  <2>2. Max({0, target[w] - sent[w]}) \in Nat
    BY <2>1, OfTwoNats
  <2> QED
    BY <2>2
<1>3. total = SumFunctionOnSet(short, wallets)
  BY DEF SumFunction
<1>4. total \in Nat
  <2> HIDE DEF short, wallets
  <2> QED
    BY <1>1, <1>2, <1>3, SumIsNat
<1>5. \A w \in wallets :
        /\ part[w] \in Nat
        /\ total <= balance => part[w] = short[w]
        /\ total > balance => part[w] * total <= balance * short[w]
  <2> SUFFICES ASSUME NEW w \in wallets
               PROVE  /\ part[w] \in Nat
                      /\ total <= balance => part[w] = short[w]
                      /\ total > balance => part[w] * total <= balance * short[w]
    OBVIOUS
  <2> HIDE DEF total, short, wallets
  <2>1. part[w] = IF total <= balance THEN short[w] ELSE (balance * short[w]) \div total
    OBVIOUS
  <2>2. short[w] \in Nat /\ balance * short[w] \in Nat
    BY <1>2
  <2> HIDE DEF part
  <2>3. CASE total <= balance
    BY <1>2, <1>4, <2>1, <2>3
  <2>4. CASE total > balance
    <3> DEFINE x == balance * short[w]
    <3>1. total \in Nat \ {0} /\ ~(total <= balance) /\ x \in Nat
      BY <1>4, <2>2, <2>4
    <3>2. part[w] = x \div total
      BY <2>1, <3>1
    <3> HIDE DEF x
    <3>3. x \div total \in Nat /\ (x \div total) * total <= x
      BY <3>1, RoundsDown
    <3> QED
      BY <3>1, <3>2, <3>3 DEF x
  <2> QED
    BY <1>4, <2>3, <2>4
<1>6. \A w \in wallets : SumFunctionOnSet(part, wallets \ {w}) \in Nat
                         /\ SumFunctionOnSet(part, wallets \ {w}) <= Min({total, balance})
  <2> SUFFICES ASSUME NEW w \in wallets
               PROVE  /\ SumFunctionOnSet(part, wallets \ {w}) \in Nat
                      /\ SumFunctionOnSet(part, wallets \ {w}) <= Min({total, balance})
    OBVIOUS
  <2> DEFINE rest == wallets \ {w}
             parts == SumFunctionOnSet(part, rest)
             shorts == SumFunctionOnSet(short, rest)
  <2> HIDE DEF part, short, wallets, total
  <2>1. parts \in Nat
    BY <1>1, <1>5, SumOfRest
  <2>2. shorts \in Nat /\ total = short[w] + shorts /\ short[w] \in Nat
    BY <1>1, <1>2, <1>3, SumOfRest
  <2>3. IsFiniteSet(rest) /\ rest \in SUBSET rest /\ rest \subseteq wallets
    BY <1>1, FS_Subset
  <2>4. Min({total, balance}) \in {total, balance}
    BY <1>4, OfTwoNats
  <2>5. CASE total <= balance
    <3>1. \A v \in rest : /\ part[v] \in Nat /\ short[v] \in Nat
                          /\ part[v] * 1 <= 1 * short[v]
      BY <1>2, <1>5, <2>3, <2>5
    <3>2. parts * 1 <= 1 * shorts
      <4> HIDE DEF rest
      <4> QED
        BY <2>3, <3>1, SumOfShares
    <3> HIDE DEF parts, shorts
    <3>3. parts <= total
      BY <2>1, <2>2, <3>2
    <3> QED
      BY <1>4, <2>1, <2>4, <2>5, <3>3 DEF parts
  <2>6. CASE total > balance
    <3>1. \A v \in rest : /\ part[v] \in Nat /\ short[v] \in Nat
                          /\ part[v] * total <= balance * short[v]
      BY <1>2, <1>5, <2>3, <2>6
    <3>2. parts * total <= balance * shorts
      <4> HIDE DEF rest
      <4> QED
        BY <1>4, <2>3, <3>1, SumOfShares
    <3> HIDE DEF parts, shorts
    <3>3. \A p, t, b, c \in Nat : t > 0 /\ c <= t /\ p * t <= b * c => p <= b
      <4> SUFFICES ASSUME NEW p \in Nat, NEW t \in Nat, NEW b \in Nat, NEW c \in Nat,
                          t > 0, c <= t, p * t <= b * c, p >= b + 1
                   PROVE  FALSE
        OBVIOUS
      <4>1. p * t >= (b + 1) * t
        OBVIOUS
      <4>2. (b + 1) * t = b * t + t
        OBVIOUS
      <4>3. b * t >= b * c
        OBVIOUS
      <4>4. p * t \in Nat /\ b * t \in Nat /\ b * c \in Nat
        OBVIOUS
      <4> QED
        BY <4>1, <4>2, <4>3, <4>4
    <3>4. shorts <= total /\ total > 0
      BY <1>4, <2>2, <2>6
    <3>5. parts <= balance
      BY <1>4, <2>1, <2>2, <3>2, <3>3, <3>4
    <3> QED
      BY <1>4, <2>1, <2>4, <2>6, <3>5 DEF parts
  <2> QED
    BY <1>4, <2>5, <2>6
<1>7. \A w \in wallets : Share(w) \in Nat
  <2> SUFFICES ASSUME NEW w \in wallets PROVE Share(w) \in Nat
    OBVIOUS
  <2> HIDE DEF part, short, wallets, total
  <2>1. Min({total, balance}) \in Nat
    BY <1>4, OfTwoNats
  <2>2. SumFunctionOnSet(part, wallets \ {w}) \in Nat
        /\ SumFunctionOnSet(part, wallets \ {w}) <= Min({total, balance})
    BY <1>6
  <2>3. Min({total, balance}) - SumFunctionOnSet(part, wallets \ {w}) \in Nat
    BY <2>1, <2>2
  <2> QED
    BY <1>5, <2>3
<1>8. \A w \in wallets : Cardinality(Of(w)) \in Nat \ {0}
  <2> SUFFICES ASSUME NEW w \in wallets PROVE Cardinality(Of(w)) \in Nat \ {0}
    OBVIOUS
  <2>1. Of(w) # {} /\ Of(w) \in SUBSET active
    OBVIOUS
  <2> HIDE DEF Of
  <2>2. IsFiniteSet(Of(w))
    BY <2>1, FS_Subset
  <2> QED
    BY <2>1, <2>2, FS_CardinalityType, FS_EmptySet
<1>9. \A w \in wallets : /\ Each(w) \in Nat
                         /\ Share(w) - (Cardinality(Of(w)) - 1) * Each(w) \in Nat
  <2> SUFFICES ASSUME NEW w \in wallets
               PROVE  /\ Each(w) \in Nat
                      /\ Share(w) - (Cardinality(Of(w)) - 1) * Each(w) \in Nat
    OBVIOUS
  <2> DEFINE x == Share(w)
             n == Cardinality(Of(w))
  <2>1. x \in Nat /\ n \in Nat \ {0}
    BY <1>7, <1>8
  <2>2. Each(w) = x \div n
    OBVIOUS
  <2> HIDE DEF x, n, Each, Share
  <2>3. x \div n \in Nat /\ (x \div n) * (n - 1) <= x
    BY <2>1, RoundsDown
  <2>4. (n - 1) * (x \div n) = (x \div n) * (n - 1) /\ (n - 1) * (x \div n) \in Nat
    BY <2>1, <2>3
  <2>5. x - (n - 1) * (x \div n) \in Nat
    BY <2>1, <2>3, <2>4
  <2> QED
    BY <2>2, <2>3, <2>5 DEF x, n
<1> DEFINE Amount(i) == LET w == s[i].wallet IN
                        IF i = Max(Of(w)) THEN Share(w) - (Cardinality(Of(w)) - 1) * Each(w)
                        ELSE Each(w)
<1>10. \A i \in active : Amount(i) \in Nat
  <2> SUFFICES ASSUME NEW i \in active PROVE Amount(i) \in Nat
    OBVIOUS
  <2>1. s[i].wallet \in wallets
    OBVIOUS
  <2> HIDE DEF wallets, Of, Share, Each
  <2> QED
    BY <1>9, <2>1
<1>11. DeficitAmounts(s, active, balance, sent, target) = [i \in active |-> Amount(i)]
  BY DEF DeficitAmounts
<1> HIDE DEF Amount
<1> QED
  BY <1>10, <1>11

-----------------------------------------------------------------------------
(* The inductive invariant.  Its parts are predicates on records, transfers *)
(* and batches, since a step changes them together.                        *)

Statuses == {"pending", "in_progress", "completed", "abandoned", "satisfied", "ata_mismatch"}
Fates == {"signed", "flying", "landed", "void"}
Positive == Nat \ {0}

\* A record that may hold the signature of one of n transfers.
RecordType(n) ==
  [wallet : Wallets, round : 1..Rounds, attempts : 0..MaxAttempts, amount : Nat, tx : 0..n,
   status : Statuses]

TransferType == [fate : Fates, pays : UNION {[D -> Positive] : D \in SUBSET Nat}]

BatchType ==
  [ids : Seq(Nat), later : Seq(Seq(Nat)), at : {"building", "sending", "confirming", "over"}]

FilesTyped(s, t) ==
  /\ s \in Seq(RecordType(Len(t)))
  /\ t \in Seq(TransferType)
  /\ \A k \in DOMAIN t : DOMAIN t[k].pays \subseteq DOMAIN s

\* Transfer k carries something for record i, or may still do so.
Carries(t, k, i) == k \in DOMAIN t /\ i \in DOMAIN t[k].pays /\ t[k].fate # "void"

\* What carries something for a record is the transfer whose signature it holds,
\* or the one it was closed with.
CarriedFit(s, t) ==
  \A k \in DOMAIN t, i \in DOMAIN s :
    Carries(t, k, i) =>
      \/ s[i].tx = k
      \/ t[k].fate = "landed" /\ s[i].tx = 0 /\ s[i].status \in {"completed", "ata_mismatch"}

CarriedOnce(t) ==
  \A k, l \in DOMAIN t : \A i \in Nat : Carries(t, k, i) /\ Carries(t, l, i) => k = l

\* A record says what its transfer carries, and is closed with one that landed.
RecordsFit(s, t) ==
  \A i \in DOMAIN s :
    /\ s[i].tx # 0 => i \in DOMAIN t[s[i].tx].pays /\ t[s[i].tx].pays[i] = s[i].amount
    /\ s[i].status = "completed" =>
         /\ s[i].tx = 0
         /\ \E k \in DOMAIN t : /\ i \in DOMAIN t[k].pays /\ t[k].fate = "landed"
                                /\ t[k].pays[i] = s[i].amount
    /\ s[i].status \in {"pending", "in_progress"} => s[i].attempts < MaxAttempts

Paid(s, t) == CarriedFit(s, t) /\ CarriedOnce(t) /\ RecordsFit(s, t)

\* A batch's lists: the sends in hand, then the halves that wait.
Lists(x) == IF x.at = "over" THEN {} ELSE 0..Len(x.later)
List(x, p) == IF p = 0 THEN x.ids ELSE x.later[p]

Held(x) == UNION {{List(x, p)[n] : n \in DOMAIN List(x, p)} : p \in Lists(x)}

TxOf(x, s) == s[x.ids[1]].tx
Underway(x) == x.at \in {"sending", "confirming"}

\* A batch works on marked sends with something to carry; those in hand hold the
\* signature of its transfer once there is one, the others hold none.
BatchFits(x, s, t) ==
  /\ \A p \in Lists(x) :
       /\ List(x, p) # <<>>
       /\ \A n \in DOMAIN List(x, p) :
            /\ List(x, p)[n] \in DOMAIN s
            /\ s[List(x, p)[n]].status = "in_progress" /\ s[List(x, p)[n]].amount > 0
            /\ p > 0 \/ x.at = "building" => s[List(x, p)[n]].tx = 0
            /\ p = 0 /\ Underway(x) => s[List(x, p)[n]].tx = TxOf(x, s)
  /\ Underway(x) => TxOf(x, s) \in DOMAIN t
  /\ x.at = "sending" => t[TxOf(x, s)].fate = "signed"

\* No send stands twice in a batch, nor in two.
OwnApart(x) ==
  \A p, q \in Lists(x) : \A m \in DOMAIN List(x, p), n \in DOMAIN List(x, q) :
    List(x, p)[m] = List(x, q)[n] => p = q /\ m = n

WorkFits(w, s, t) ==
  /\ w \in Seq(BatchType)
  /\ \A b \in DOMAIN w : BatchFits(w[b], s, t) /\ OwnApart(w[b])
  /\ \A b, c \in DOMAIN w : b # c =>
       /\ Held(w[b]) \cap Held(w[c]) = {}
       /\ Underway(w[b]) /\ Underway(w[c]) => TxOf(w[b], s) # TxOf(w[c], s)

\* Where the visit stands: amounts are shared out among sends without a
\* signature, the settlement asks about sends with one.
VisitFits ==
  /\ pc # "sending" => work = <<>>
  /\ pc = "sharing" => \A i \in due : sends[i].tx = 0
  /\ pc = "settling" => \A i \in due : sends[i].tx # 0

OtherTypes ==
  /\ [burn |-> burn, hadAta |-> hadAta] \in Backings
  /\ lots \in Nat /\ read \in 0..lots /\ burned \in Nat /\ keeper \in Nat
  /\ got \in [Wallets -> Nat]
  /\ phase \in {"rounds", "settle", "sweep", "done"}
  /\ pass \in 1..Max({Rounds, Sweeps})
  /\ pc \in {"waiting", "checking", "sharing", "sending", "settling"}
  /\ due \subseteq Ids /\ skip \subseteq Ids
  /\ crashes \in 0..MaxCrashes /\ broke \in BOOLEAN
  /\ ignored \subseteq Ids
  /\ settledPot \in Nat /\ leftQueued \subseteq Wallets /\ sharedShort \in BOOLEAN

IInv ==
  /\ FilesTyped(sends, txs)
  /\ Paid(sends, txs)
  /\ WorkFits(work, sends, txs)
  /\ VisitFits
  /\ OtherTypes

-----------------------------------------------------------------------------
(* Records and transfers.                                                  *)

\* What the types say of a record and of a transfer.
LEMMA Typed ==
  ASSUME NEW s, NEW t, FilesTyped(s, t)
  PROVE  /\ Len(s) \in Nat /\ DOMAIN s = 1..Len(s)
         /\ Len(t) \in Nat /\ DOMAIN t = 1..Len(t)
         /\ \A i \in DOMAIN s :
              /\ s[i] \in RecordType(Len(t))
              /\ i \in Nat
              /\ s[i].wallet \in Wallets /\ s[i].attempts \in 0..MaxAttempts /\ s[i].amount \in Nat
              /\ s[i].tx \in 0..Len(t) /\ s[i].status \in Statuses
         /\ \A k \in DOMAIN t :
              /\ t[k] \in TransferType
              /\ k \in Nat \ {0}
              /\ t[k].fate \in Fates
              /\ t[k].pays \in [DOMAIN t[k].pays -> Positive]
              /\ DOMAIN t[k].pays \subseteq DOMAIN s
<1>1. s \in Seq(RecordType(Len(t))) /\ t \in Seq(TransferType)
  BY DEF FilesTyped
<1>2. /\ Len(s) \in Nat /\ DOMAIN s = 1..Len(s)
      /\ Len(t) \in Nat /\ DOMAIN t = 1..Len(t)
      /\ \A i \in DOMAIN s : s[i] \in RecordType(Len(t))
      /\ \A k \in DOMAIN t : t[k] \in TransferType
  BY <1>1, LenProperties, ElementOfSeq
<1>3. \A x \in RecordType(Len(t)) :
        /\ x.wallet \in Wallets /\ x.attempts \in 0..MaxAttempts /\ x.amount \in Nat
        /\ x.tx \in 0..Len(t) /\ x.status \in Statuses
  BY DEF RecordType
<1>4. ASSUME NEW x \in TransferType
      PROVE  x.fate \in Fates /\ x.pays \in [DOMAIN x.pays -> Positive]
  <2>1. x.fate \in Fates /\ x.pays \in UNION {[D -> Positive] : D \in SUBSET Nat}
    BY DEF TransferType
  <2>2. PICK D \in SUBSET Nat : x.pays \in [D -> Positive]
    BY <2>1
  <2> QED
    BY <2>1, <2>2
<1>5. \A k \in DOMAIN t : DOMAIN t[k].pays \subseteq DOMAIN s
  BY DEF FilesTyped
<1>6. (\A i \in DOMAIN s : i \in Nat) /\ (\A k \in DOMAIN t : k \in Nat \ {0})
  BY <1>2
<1> QED
  BY <1>2, <1>3, <1>4, <1>5, <1>6

\* Transfer k with another fate.
Fated(t, k, f) == [t EXCEPT ![k].fate = f]

\* The chain decides about a transfer, or it is handed to a node.
LEMMA FateMoves ==
  ASSUME NEW s, NEW t, FilesTyped(s, t), Paid(s, t),
         NEW k \in DOMAIN t, t[k].fate \in {"signed", "flying"},
         NEW f \in {"flying", "landed", "void"}, NEW u, u = Fated(t, k, f)
  PROVE  /\ FilesTyped(s, u) /\ Paid(s, u)
         /\ Len(u) = Len(t) /\ DOMAIN u = DOMAIN t
         /\ u[k].fate = f /\ u[k].pays = t[k].pays
         /\ \A l \in DOMAIN t : l # k => u[l] = t[l]
<1>t. /\ DOMAIN s = 1..Len(s) /\ DOMAIN t = 1..Len(t) /\ Len(t) \in Nat
      /\ \A l \in DOMAIN t : t[l] \in TransferType /\ l \in Nat \ {0}
      /\ \A i \in DOMAIN s : i \in Nat
      /\ t \in Seq(TransferType) /\ s \in Seq(RecordType(Len(t)))
  BY Typed DEF FilesTyped
<1>1. [t[k] EXCEPT !.fate = f] \in TransferType /\ [t[k] EXCEPT !.fate = f].fate = f
      /\ [t[k] EXCEPT !.fate = f].pays = t[k].pays
  BY <1>t DEF TransferType, Fates
<1>2. /\ DOMAIN u = DOMAIN t
      /\ u[k] = [t[k] EXCEPT !.fate = f]
      /\ \A l \in DOMAIN t : l # k => u[l] = t[l]
  BY <1>t DEF Fated
<1>3. u \in Seq(TransferType) /\ Len(u) = Len(t)
  <2>1. u = [t EXCEPT ![k] = [t[k] EXCEPT !.fate = f]]
    BY DEF Fated
  <2> QED
    BY <1>t, <1>1, <2>1, ExceptSeq
<1>4. \A l \in DOMAIN t : u[l].pays = t[l].pays /\ (u[l].fate # "void" => t[l].fate # "void")
                          /\ (l # k => u[l].fate = t[l].fate)
  BY <1>1, <1>2
<1>5. FilesTyped(s, u)
  BY <1>t, <1>2, <1>3, <1>4 DEF FilesTyped
<1>6. \A l \in Nat, i \in Nat : Carries(u, l, i) => Carries(t, l, i)
  BY <1>2, <1>4 DEF Carries
<1>7. CarriedFit(s, u)
  <2> SUFFICES ASSUME NEW l \in DOMAIN u, NEW i \in DOMAIN s, Carries(u, l, i)
               PROVE  \/ s[i].tx = l
                      \/ /\ u[l].fate = "landed" /\ s[i].tx = 0
                         /\ s[i].status \in {"completed", "ata_mismatch"}
    BY DEF CarriedFit
  <2>1. Carries(t, l, i) /\ l \in DOMAIN t
    BY <1>t, <1>2, <1>6
  <2>2. \/ s[i].tx = l
        \/ t[l].fate = "landed" /\ s[i].tx = 0 /\ s[i].status \in {"completed", "ata_mismatch"}
    BY <2>1 DEF Paid, CarriedFit
  <2> QED
    BY <1>4, <2>1, <2>2
<1>8. CarriedOnce(u)
  BY <1>t, <1>2, <1>6 DEF Paid, CarriedOnce
<1>9. RecordsFit(s, u)
  <2> SUFFICES ASSUME NEW i \in DOMAIN s
               PROVE  /\ s[i].tx # 0 => i \in DOMAIN u[s[i].tx].pays /\ u[s[i].tx].pays[i] = s[i].amount
                      /\ s[i].status = "completed" =>
                           /\ s[i].tx = 0
                           /\ \E l \in DOMAIN u : /\ i \in DOMAIN u[l].pays /\ u[l].fate = "landed"
                                                  /\ u[l].pays[i] = s[i].amount
                      /\ s[i].status \in {"pending", "in_progress"} => s[i].attempts < MaxAttempts
    BY DEF RecordsFit
  <2>1. s[i].tx # 0 => s[i].tx \in DOMAIN t
    BY Typed
  <2>2. /\ s[i].tx # 0 => i \in DOMAIN t[s[i].tx].pays /\ t[s[i].tx].pays[i] = s[i].amount
        /\ s[i].status = "completed" =>
             /\ s[i].tx = 0
             /\ \E l \in DOMAIN t : /\ i \in DOMAIN t[l].pays /\ t[l].fate = "landed"
                                    /\ t[l].pays[i] = s[i].amount
        /\ s[i].status \in {"pending", "in_progress"} => s[i].attempts < MaxAttempts
    BY DEF Paid, RecordsFit
  <2>3. \A l \in DOMAIN t : t[l].fate = "landed" => u[l].fate = "landed"
    BY <1>4
  <2> QED
    BY <1>2, <1>4, <2>1, <2>2, <2>3
<1> QED
  BY <1>1, <1>2, <1>3, <1>5, <1>7, <1>8, <1>9 DEF Paid

\* What may become of record x in a step that signs nothing.
RecordMoves(x, y, t) ==
  /\ y.status \in {"pending", "in_progress"} => y.attempts < MaxAttempts
  /\ \/ y = x
     \/ /\ x.status \in {"pending", "in_progress"} /\ y.status # "completed"
        /\ y.tx = x.tx /\ y.amount = x.amount
     \/ /\ x.tx # 0 \/ x.status \in {"pending", "in_progress"}
        /\ y.status # "completed"
        /\ y.tx = 0 /\ (x.tx # 0 => t[x.tx].fate = "void")
     \/ /\ x.tx # 0 /\ t[x.tx].fate = "landed"
        /\ y.status = "completed" /\ y.tx = 0 /\ y.amount = x.amount
     \/ /\ x.tx = 0 /\ y.status = "ata_mismatch" /\ y.tx = 0

\* Records that so move still fit their transfers.
LEMMA RecordsMove ==
  ASSUME NEW s, NEW t, FilesTyped(s, t), Paid(s, t),
         NEW r, r \in Seq(RecordType(Len(t))), Len(r) = Len(s),
         \A i \in DOMAIN s : RecordMoves(s[i], r[i], t)
  PROVE  FilesTyped(r, t) /\ Paid(r, t)
<1>t. /\ DOMAIN s = 1..Len(s) /\ DOMAIN t = 1..Len(t) /\ Len(t) \in Nat
      /\ DOMAIN r = DOMAIN s
      /\ t \in Seq(TransferType)
      /\ \A i \in DOMAIN s : s[i].tx # 0 => s[i].tx \in DOMAIN t
  <2>1. DOMAIN r = 1..Len(r)
    BY LenProperties
  <2>2. t \in Seq(TransferType)
    BY DEF FilesTyped
  <2>3. /\ DOMAIN s = 1..Len(s) /\ DOMAIN t = 1..Len(t) /\ Len(t) \in Nat
        /\ \A i \in DOMAIN s : s[i].tx \in 0..Len(t)
    BY Typed
  <2>4. \A i \in DOMAIN s : s[i].tx # 0 => s[i].tx \in DOMAIN t
    BY <2>3
  <2>5. DOMAIN r = DOMAIN s
    BY <2>1, <2>3
  <2> QED
    BY <2>2, <2>3, <2>4, <2>5
<1>1. FilesTyped(r, t)
  BY <1>t DEF FilesTyped
<1>2. CarriedFit(r, t)
  <2> SUFFICES ASSUME NEW l \in DOMAIN t, NEW i \in DOMAIN s, Carries(t, l, i)
               PROVE  \/ r[i].tx = l
                      \/ /\ t[l].fate = "landed" /\ r[i].tx = 0
                         /\ r[i].status \in {"completed", "ata_mismatch"}
    BY <1>t DEF CarriedFit
  <2>1. \/ s[i].tx = l
        \/ t[l].fate = "landed" /\ s[i].tx = 0 /\ s[i].status \in {"completed", "ata_mismatch"}
    BY DEF Paid, CarriedFit
  <2>2. l # 0 /\ t[l].fate # "void"
    BY <1>t DEF Carries
  <2> QED
    BY <2>1, <2>2 DEF RecordMoves
<1>3. RecordsFit(r, t)
  <2> SUFFICES ASSUME NEW i \in DOMAIN s
               PROVE  /\ r[i].tx # 0 => i \in DOMAIN t[r[i].tx].pays /\ t[r[i].tx].pays[i] = r[i].amount
                      /\ r[i].status = "completed" =>
                           /\ r[i].tx = 0
                           /\ \E l \in DOMAIN t : /\ i \in DOMAIN t[l].pays /\ t[l].fate = "landed"
                                                  /\ t[l].pays[i] = r[i].amount
                      /\ r[i].status \in {"pending", "in_progress"} => r[i].attempts < MaxAttempts
    BY <1>t DEF RecordsFit
  <2>1. /\ s[i].tx # 0 => i \in DOMAIN t[s[i].tx].pays /\ t[s[i].tx].pays[i] = s[i].amount
        /\ s[i].status = "completed" =>
             /\ s[i].tx = 0
             /\ \E l \in DOMAIN t : /\ i \in DOMAIN t[l].pays /\ t[l].fate = "landed"
                                    /\ t[l].pays[i] = s[i].amount
    BY DEF Paid, RecordsFit
  <2>2. RecordMoves(s[i], r[i], t)
    OBVIOUS
  <2> QED
    BY <1>t, <2>1, <2>2 DEF RecordMoves
<1> QED
  BY <1>1, <1>2, <1>3 DEF Paid

\* A transfer signed for the sends of H, and the records with its signature.
Signed(s, t, H) == Append(t, [fate |-> "signed", pays |-> [i \in H |-> s[i].amount]])
Holding(s, t, H) == [i \in DOMAIN s |-> IF i \in H THEN [s[i] EXCEPT !.tx = Len(t) + 1] ELSE s[i]]

\* A transfer is signed for marked sends that nothing is carried for, and is
\* written down with each of them.
LEMMA SigningFits ==
  ASSUME NEW s, NEW t, FilesTyped(s, t), Paid(s, t), NEW H \in SUBSET DOMAIN s,
         \A i \in H : s[i].tx = 0 /\ s[i].status = "in_progress" /\ s[i].amount > 0,
         NEW u, u = Signed(s, t, H), NEW r, r = Holding(s, t, H)
  PROVE  /\ FilesTyped(r, u) /\ Paid(r, u)
         /\ Len(u) = Len(t) + 1 /\ u[Len(t) + 1].fate = "signed"
         /\ \A k \in DOMAIN t : u[k] = t[k]
<1> USE DEF Signed, Holding
<1> DEFINE n == Len(t) + 1
           new == [fate |-> "signed", pays |-> [i \in H |-> s[i].amount]]
<1>t. /\ DOMAIN s = 1..Len(s) /\ DOMAIN t = 1..Len(t) /\ Len(t) \in Nat /\ Len(s) \in Nat
      /\ \A i \in DOMAIN s : i \in Nat /\ s[i] \in RecordType(Len(t)) /\ s[i].tx \in 0..Len(t)
                             /\ s[i].amount \in Nat
      /\ \A k \in DOMAIN t : /\ k \in Nat \ {0} /\ DOMAIN t[k].pays \subseteq DOMAIN s
      /\ t \in Seq(TransferType)
  BY Typed DEF FilesTyped
<1>1. new \in TransferType /\ new.fate = "signed" /\ DOMAIN new.pays = H
      /\ \A i \in H : new.pays[i] = s[i].amount
  <2>1. [i \in H |-> s[i].amount] \in [H -> Positive]
    BY <1>t DEF Positive
  <2>2. H \in SUBSET Nat
    BY <1>t
  <2>3. [i \in H |-> s[i].amount] \in UNION {[D -> Positive] : D \in SUBSET Nat}
    BY <2>1, <2>2
  <2> QED
    BY <2>3 DEF TransferType, Fates
<1>2. /\ u \in Seq(TransferType) /\ Len(u) = n /\ u[n] = new
      /\ \A k \in DOMAIN t : u[k] = t[k]
      /\ DOMAIN u = 1..n
  <2> HIDE DEF new
  <2>1. u = Append(t, new)
    BY DEF new
  <2>2. /\ u \in Seq(TransferType) /\ Len(u) = n /\ u[n] = new
        /\ \A k \in 1..Len(t) : u[k] = t[k]
    BY <1>t, <1>1, <2>1, AppendProperties
  <2>3. DOMAIN u = 1..Len(u)
    BY <2>2, LenProperties
  <2> QED
    BY <1>t, <2>2, <2>3
<1>3. \A i \in DOMAIN s :
        /\ r[i] \in RecordType(n)
        /\ r[i].tx = IF i \in H THEN n ELSE s[i].tx
        /\ r[i].status = s[i].status /\ r[i].amount = s[i].amount /\ r[i].attempts = s[i].attempts
  <2> SUFFICES ASSUME NEW i \in DOMAIN s
               PROVE  /\ r[i] \in RecordType(n)
                      /\ r[i].tx = IF i \in H THEN n ELSE s[i].tx
                      /\ r[i].status = s[i].status /\ r[i].amount = s[i].amount
                      /\ r[i].attempts = s[i].attempts
    OBVIOUS
  <2>1. r[i] = IF i \in H THEN [s[i] EXCEPT !.tx = n] ELSE s[i]
    OBVIOUS
  <2>2. s[i] \in RecordType(Len(t)) /\ n \in 0..n /\ \A x \in 0..Len(t) : x \in 0..n
    BY <1>t
  <2> HIDE DEF n
  <2> QED
    BY <2>1, <2>2 DEF RecordType
<1>4. DOMAIN r = DOMAIN s /\ r \in Seq(RecordType(Len(u)))
  <2>1. r \in [1..Len(s) -> RecordType(n)]
    BY <1>t, <1>3
  <2> QED
    BY <1>t, <1>2, <2>1, SeqDef
<1> HIDE DEF n, new
<1>5. n \in DOMAIN u /\ n \notin DOMAIN t /\ (\A k \in DOMAIN u : k = n \/ k \in DOMAIN t)
      /\ n # 0 /\ DOMAIN t \subseteq DOMAIN u
  BY <1>t, <1>2 DEF n
<1>6. FilesTyped(r, u)
  <2>1. \A k \in DOMAIN u : DOMAIN u[k].pays \subseteq DOMAIN r
    BY <1>t, <1>1, <1>2, <1>4, <1>5
  <2> QED
    BY <1>2, <1>4, <2>1 DEF FilesTyped
<1>7. \A i \in H, k \in DOMAIN t : ~Carries(t, k, i)
  <2> SUFFICES ASSUME NEW i \in H, NEW k \in DOMAIN t, Carries(t, k, i) PROVE FALSE
    OBVIOUS
  <2>1. \/ s[i].tx = k
        \/ t[k].fate = "landed" /\ s[i].tx = 0 /\ s[i].status \in {"completed", "ata_mismatch"}
    BY DEF Paid, CarriedFit
  <2> QED
    BY <1>t, <2>1
<1>8. \A k, i : Carries(u, k, i) <=> (k = n /\ i \in H) \/ Carries(t, k, i)
  BY <1>1, <1>2, <1>5 DEF Carries
<1>9. CarriedFit(r, u)
  <2> SUFFICES ASSUME NEW l \in DOMAIN u, NEW i \in DOMAIN s, Carries(u, l, i)
               PROVE  \/ r[i].tx = l
                      \/ /\ u[l].fate = "landed" /\ r[i].tx = 0
                         /\ r[i].status \in {"completed", "ata_mismatch"}
    BY <1>4 DEF CarriedFit
  <2>1. CASE l = n /\ i \in H
    BY <1>3, <2>1
  <2>2. CASE Carries(t, l, i)
    <3>1. l \in DOMAIN t /\ i \notin H
      BY <1>7, <2>2 DEF Carries
    <3>2. \/ s[i].tx = l
          \/ t[l].fate = "landed" /\ s[i].tx = 0 /\ s[i].status \in {"completed", "ata_mismatch"}
      BY <2>2, <3>1 DEF Paid, CarriedFit
    <3> QED
      BY <1>2, <1>3, <3>1, <3>2
  <2> QED
    BY <1>8, <2>1, <2>2
<1>10. CarriedOnce(u)
  <2> SUFFICES ASSUME NEW k \in DOMAIN u, NEW l \in DOMAIN u, NEW i \in Nat,
                      Carries(u, k, i), Carries(u, l, i)
               PROVE  k = l
    BY DEF CarriedOnce
  <2>1. (k = n /\ i \in H) \/ (k \in DOMAIN t /\ Carries(t, k, i) /\ i \notin H)
    BY <1>7, <1>8 DEF Carries
  <2>2. (l = n /\ i \in H) \/ (l \in DOMAIN t /\ Carries(t, l, i) /\ i \notin H)
    BY <1>7, <1>8 DEF Carries
  <2> QED
    BY <2>1, <2>2 DEF Paid, CarriedOnce
<1>11. RecordsFit(r, u)
  <2> SUFFICES ASSUME NEW i \in DOMAIN s
               PROVE  /\ r[i].tx # 0 => i \in DOMAIN u[r[i].tx].pays /\ u[r[i].tx].pays[i] = r[i].amount
                      /\ r[i].status = "completed" =>
                           /\ r[i].tx = 0
                           /\ \E l \in DOMAIN u : /\ i \in DOMAIN u[l].pays /\ u[l].fate = "landed"
                                                  /\ u[l].pays[i] = r[i].amount
                      /\ r[i].status \in {"pending", "in_progress"} => r[i].attempts < MaxAttempts
    BY <1>4 DEF RecordsFit
  <2>1. /\ s[i].tx # 0 => i \in DOMAIN t[s[i].tx].pays /\ t[s[i].tx].pays[i] = s[i].amount
        /\ s[i].status = "completed" =>
             /\ s[i].tx = 0
             /\ \E l \in DOMAIN t : /\ i \in DOMAIN t[l].pays /\ t[l].fate = "landed"
                                    /\ t[l].pays[i] = s[i].amount
        /\ s[i].status \in {"pending", "in_progress"} => s[i].attempts < MaxAttempts
    BY DEF Paid, RecordsFit
  <2>2. s[i].tx # 0 => s[i].tx \in DOMAIN t
    BY <1>t
  <2>3. CASE i \in H
    <3>1. r[i].tx = n /\ r[i].amount = s[i].amount /\ r[i].status = "in_progress"
          /\ r[i].attempts = s[i].attempts
      BY <1>3, <2>3
    <3>2. i \in DOMAIN u[n].pays /\ u[n].pays[i] = s[i].amount
      BY <1>1, <1>2, <2>3
    <3> QED
      BY <2>1, <2>3, <3>1, <3>2
  <2>4. CASE i \notin H
    <3>1. r[i].tx = s[i].tx /\ r[i].amount = s[i].amount /\ r[i].status = s[i].status
          /\ r[i].attempts = s[i].attempts
      BY <1>3, <2>4
    <3>2. \A l \in DOMAIN t : l \in DOMAIN u /\ u[l] = t[l]
      BY <1>2, <1>5
    <3>3. r[i].tx # 0 => i \in DOMAIN u[r[i].tx].pays /\ u[r[i].tx].pays[i] = r[i].amount
      BY <2>1, <2>2, <3>1, <3>2
    <3>4. ASSUME r[i].status = "completed"
          PROVE  /\ r[i].tx = 0
                 /\ \E l \in DOMAIN u : /\ i \in DOMAIN u[l].pays /\ u[l].fate = "landed"
                                        /\ u[l].pays[i] = r[i].amount
      <4>1. PICK l \in DOMAIN t : /\ i \in DOMAIN t[l].pays /\ t[l].fate = "landed"
                                  /\ t[l].pays[i] = s[i].amount
        BY <2>1, <3>1, <3>4
      <4>2. l \in DOMAIN u /\ u[l] = t[l]
        BY <3>2
      <4> QED
        BY <2>1, <3>1, <3>4, <4>1, <4>2
    <3> QED
      BY <2>1, <3>1, <3>3, <3>4
  <2> QED
    BY <2>3, <2>4
<1> QED
  BY <1>1, <1>2, <1>6, <1>9, <1>10, <1>11 DEF Paid, n

\* Records of sends not yet made fit as they are.
LEMMA RecordsJoin ==
  ASSUME NEW s, NEW t, FilesTyped(s, t), Paid(s, t),
         NEW more, more \in Seq(RecordType(Len(t))),
         \A n \in DOMAIN more : more[n].tx = 0 /\ more[n].status = "pending" /\ more[n].attempts = 0
  PROVE  FilesTyped(s \o more, t) /\ Paid(s \o more, t) /\ DOMAIN s \subseteq DOMAIN (s \o more)
<1> DEFINE r == s \o more
<1>t. /\ DOMAIN s = 1..Len(s) /\ Len(s) \in Nat /\ DOMAIN more = 1..Len(more) /\ Len(more) \in Nat
      /\ s \in Seq(RecordType(Len(t))) /\ t \in Seq(TransferType)
      /\ \A k \in DOMAIN t : DOMAIN t[k].pays \subseteq DOMAIN s
  BY Typed, LenProperties DEF FilesTyped
<1>1. /\ r \in Seq(RecordType(Len(t))) /\ Len(r) = Len(s) + Len(more)
      /\ \A i \in 1..(Len(s) + Len(more)) : r[i] = IF i <= Len(s) THEN s[i] ELSE more[i - Len(s)]
  BY <1>t, ConcatProperties
<1>2. DOMAIN r = 1..Len(r)
  BY <1>1, LenProperties
<1> HIDE DEF r
<1>3. \A i \in DOMAIN r : \/ i \in DOMAIN s /\ r[i] = s[i]
                          \/ /\ i \notin DOMAIN s /\ r[i].tx = 0 /\ r[i].status = "pending"
                             /\ r[i].attempts = 0
  <2> SUFFICES ASSUME NEW i \in DOMAIN r
               PROVE  \/ i \in DOMAIN s /\ r[i] = s[i]
                      \/ /\ i \notin DOMAIN s /\ r[i].tx = 0 /\ r[i].status = "pending"
                         /\ r[i].attempts = 0
    OBVIOUS
  <2>1. CASE i <= Len(s)
    BY <1>t, <1>1, <1>2, <2>1
  <2>2. CASE ~(i <= Len(s))
    <3>1. i - Len(s) \in DOMAIN more /\ i \notin DOMAIN s /\ r[i] = more[i - Len(s)]
      BY <1>t, <1>1, <1>2, <2>2
    <3> QED
      BY <3>1
  <2> QED
    BY <2>1, <2>2
<1>4. DOMAIN s \subseteq DOMAIN r
  BY <1>t, <1>1, <1>2
<1>5. FilesTyped(r, t)
  BY <1>t, <1>1, <1>4 DEF FilesTyped
<1>6. CarriedFit(r, t)
  <2> SUFFICES ASSUME NEW k \in DOMAIN t, NEW i \in DOMAIN r, Carries(t, k, i)
               PROVE  \/ r[i].tx = k
                      \/ /\ t[k].fate = "landed" /\ r[i].tx = 0
                         /\ r[i].status \in {"completed", "ata_mismatch"}
    BY DEF CarriedFit
  <2>1. i \in DOMAIN s /\ r[i] = s[i]
    BY <1>t, <1>3 DEF Carries
  <2> QED
    BY <2>1 DEF Paid, CarriedFit
<1>7. RecordsFit(r, t)
  <2>1. 0 < MaxAttempts
    BY DeliveryAssumption
  <2> QED
    BY <1>3, <2>1 DEF Paid, RecordsFit
<1> QED
  BY <1>4, <1>5, <1>6, <1>7 DEF Paid, r

-----------------------------------------------------------------------------
(* Batches.                                                                *)

\* A send is held where it stands in one of the lists.
LEMMA HeldWhere ==
  ASSUME NEW x
  PROVE  /\ \A p \in Lists(x) : \A n \in DOMAIN List(x, p) : List(x, p)[n] \in Held(x)
         /\ \A y \in Held(x) : \E p \in Lists(x) : \E n \in DOMAIN List(x, p) : y = List(x, p)[n]
BY DEF Held

\* A batch that works has sends in hand.
LEMMA InHandFirst ==
  ASSUME NEW x \in BatchType, NEW s, NEW t, BatchFits(x, s, t), x.at # "over"
  PROVE  /\ 0 \in Lists(x) /\ List(x, 0) = x.ids /\ 1 \in DOMAIN x.ids
         /\ x.ids[1] \in Held(x) /\ Len(x.later) \in Nat /\ Lists(x) = 0..Len(x.later)
         /\ x.ids \in Seq(Nat) /\ x.later \in Seq(Seq(Nat))
         /\ Len(x.ids) \in Nat \ {0} /\ DOMAIN x.ids = 1..Len(x.ids)
<1>1. x.ids \in Seq(Nat) /\ x.later \in Seq(Seq(Nat))
  BY DEF BatchType
<1>2. Len(x.later) \in Nat /\ Len(x.ids) \in Nat /\ DOMAIN x.ids = 1..Len(x.ids)
  BY <1>1, LenProperties
<1>3. Lists(x) = 0..Len(x.later) /\ 0 \in Lists(x) /\ List(x, 0) = x.ids
  BY <1>2 DEF Lists, List
<1>4. x.ids # <<>>
  BY <1>3 DEF BatchFits
<1>5. Len(x.ids) # 0
  BY <1>1, <1>4, EmptySeq
<1>6. 1 \in DOMAIN x.ids
  BY <1>2, <1>5
<1> QED
  BY <1>1, <1>2, <1>3, <1>5, <1>6, HeldWhere

\* Batch b becomes x, and changes nothing but what it holds and its transfer.
KeepsToItself(w, s, t, b, x, r, u) ==
  /\ BatchFits(x, r, u) /\ OwnApart(x) /\ Held(x) \subseteq Held(w[b])
  /\ DOMAIN r = DOMAIN s
  /\ \A i \in DOMAIN s : i \notin Held(w[b]) => r[i] = s[i]
  /\ DOMAIN t \subseteq DOMAIN u
  /\ \A k \in DOMAIN t : u[k] = t[k] \/ (Underway(w[b]) /\ k = TxOf(w[b], s))
  /\ Underway(x) => \/ TxOf(x, r) \notin DOMAIN t
                    \/ Underway(w[b]) /\ TxOf(x, r) = TxOf(w[b], s)

\* One batch moves on; nothing the others hold is touched.
LEMMA BatchMoves ==
  ASSUME NEW w, NEW s, NEW t, WorkFits(w, s, t), NEW b \in DOMAIN w, NEW r, NEW u,
         NEW x \in BatchType, KeepsToItself(w, s, t, b, x, r, u)
  PROVE  WorkFits([w EXCEPT ![b] = x], r, u)
<1> USE DEF KeepsToItself
<1> DEFINE v == [w EXCEPT ![b] = x]
<1>1. w \in Seq(BatchType) /\ DOMAIN w = 1..Len(w)
  BY LenProperties DEF WorkFits
<1>2. /\ v \in Seq(BatchType) /\ DOMAIN v = DOMAIN w /\ v[b] = x
      /\ \A c \in DOMAIN w : c # b => v[c] = w[c]
  <2>1. v \in Seq(BatchType)
    BY <1>1, ExceptSeq
  <2> QED
    BY <1>1, <2>1
<1> HIDE DEF v
<1>3. ASSUME NEW c \in DOMAIN w, c # b
      PROVE  /\ BatchFits(w[c], s, t) /\ OwnApart(w[c]) /\ w[c] \in BatchType
             /\ Held(w[c]) \cap Held(w[b]) = {}
             /\ \A p \in Lists(w[c]) : \A n \in DOMAIN List(w[c], p) :
                  /\ List(w[c], p)[n] \in DOMAIN s /\ List(w[c], p)[n] \notin Held(w[b])
                  /\ r[List(w[c], p)[n]] = s[List(w[c], p)[n]]
             /\ Underway(w[c]) => TxOf(w[c], r) = TxOf(w[c], s) /\ TxOf(w[c], s) \in DOMAIN t
                                  /\ u[TxOf(w[c], s)] = t[TxOf(w[c], s)]
  <2>1. /\ BatchFits(w[c], s, t) /\ OwnApart(w[c]) /\ Held(w[c]) \cap Held(w[b]) = {}
        /\ Underway(w[b]) /\ Underway(w[c]) => TxOf(w[b], s) # TxOf(w[c], s)
    BY <1>3 DEF WorkFits
  <2>2. w[c] \in BatchType
    BY <1>1, ElementOfSeq
  <2>3. \A p \in Lists(w[c]) : \A n \in DOMAIN List(w[c], p) :
          /\ List(w[c], p)[n] \in DOMAIN s /\ List(w[c], p)[n] \notin Held(w[b])
          /\ r[List(w[c], p)[n]] = s[List(w[c], p)[n]]
    <3> SUFFICES ASSUME NEW p \in Lists(w[c]), NEW n \in DOMAIN List(w[c], p)
                 PROVE  /\ List(w[c], p)[n] \in DOMAIN s /\ List(w[c], p)[n] \notin Held(w[b])
                        /\ r[List(w[c], p)[n]] = s[List(w[c], p)[n]]
      OBVIOUS
    <3>1. List(w[c], p)[n] \in Held(w[c])
      BY HeldWhere
    <3>2. List(w[c], p)[n] \in DOMAIN s
      BY <2>1 DEF BatchFits
    <3> QED
      BY <2>1, <3>1, <3>2
  <2>4. ASSUME Underway(w[c])
        PROVE  TxOf(w[c], r) = TxOf(w[c], s) /\ TxOf(w[c], s) \in DOMAIN t
               /\ u[TxOf(w[c], s)] = t[TxOf(w[c], s)]
    <3>1. w[c].at # "over"
      BY <2>4 DEF Underway
    <3>2. w[c].ids[1] \in Held(w[c]) /\ 0 \in Lists(w[c]) /\ List(w[c], 0) = w[c].ids
          /\ 1 \in DOMAIN w[c].ids
      BY <2>1, <2>2, <3>1, InHandFirst
    <3>3. r[w[c].ids[1]] = s[w[c].ids[1]]
      BY <2>3, <3>2
    <3>4. TxOf(w[c], s) \in DOMAIN t
      BY <2>1, <2>4 DEF BatchFits
    <3> QED
      BY <2>1, <2>4, <3>3, <3>4 DEF TxOf
  <2> QED
    BY <2>1, <2>2, <2>3, <2>4
<1>4. ASSUME NEW c \in DOMAIN w, c # b PROVE BatchFits(w[c], r, u)
  <2> DEFINE y == w[c]
  <2>1. BatchFits(y, s, t)
    BY <1>3, <1>4
  <2>2. \A p \in Lists(y) : \A n \in DOMAIN List(y, p) :
          /\ List(y, p)[n] \in DOMAIN s /\ r[List(y, p)[n]] = s[List(y, p)[n]]
    BY <1>3, <1>4
  <2>3. Underway(y) => TxOf(y, r) = TxOf(y, s) /\ TxOf(y, s) \in DOMAIN t
                       /\ u[TxOf(y, s)] = t[TxOf(y, s)]
    BY <1>3, <1>4
  <2> HIDE DEF y
  <2>4. y.at = "sending" => Underway(y)
    BY DEF Underway
  <2>5. BatchFits(y, r, u)
    BY <2>1, <2>2, <2>3, <2>4 DEF BatchFits
  <2> QED
    BY <2>5 DEF y
<1>5. \A c \in DOMAIN v : BatchFits(v[c], r, u) /\ OwnApart(v[c])
  BY <1>2, <1>3, <1>4
<1>6. ASSUME NEW c \in DOMAIN w, c # b
      PROVE  /\ Held(v[b]) \cap Held(v[c]) = {}
             /\ Underway(v[b]) /\ Underway(v[c]) => TxOf(v[b], r) # TxOf(v[c], r)
  <2>1. Held(x) \cap Held(w[c]) = {}
    BY <1>3, <1>6
  <2>2. Underway(w[c]) => TxOf(w[c], r) = TxOf(w[c], s) /\ TxOf(w[c], s) \in DOMAIN t
    BY <1>3, <1>6
  <2>3. Underway(w[b]) /\ Underway(w[c]) => TxOf(w[b], s) # TxOf(w[c], s)
    BY <1>6 DEF WorkFits
  <2> QED
    BY <1>2, <1>6, <2>1, <2>2, <2>3
<1>7. \A c, d \in DOMAIN w : c # b /\ d # b /\ c # d =>
        /\ Held(v[c]) \cap Held(v[d]) = {}
        /\ Underway(v[c]) /\ Underway(v[d]) => TxOf(v[c], r) # TxOf(v[d], r)
  <2> SUFFICES ASSUME NEW c \in DOMAIN w, NEW d \in DOMAIN w, c # b, d # b, c # d
               PROVE  /\ Held(w[c]) \cap Held(w[d]) = {}
                      /\ Underway(w[c]) /\ Underway(w[d]) => TxOf(w[c], r) # TxOf(w[d], r)
    BY <1>2
  <2>1. /\ Held(w[c]) \cap Held(w[d]) = {}
        /\ Underway(w[c]) /\ Underway(w[d]) => TxOf(w[c], s) # TxOf(w[d], s)
    BY DEF WorkFits
  <2>2. /\ Underway(w[c]) => TxOf(w[c], r) = TxOf(w[c], s)
        /\ Underway(w[d]) => TxOf(w[d], r) = TxOf(w[d], s)
    BY <1>3
  <2> QED
    BY <2>1, <2>2
<1>8. \A c, d \in DOMAIN v : c # d =>
        /\ Held(v[c]) \cap Held(v[d]) = {}
        /\ Underway(v[c]) /\ Underway(v[d]) => TxOf(v[c], r) # TxOf(v[d], r)
  BY <1>2, <1>6, <1>7
<1> QED
  BY <1>2, <1>5, <1>8 DEF WorkFits, v

\* Nothing under way is touched by what the chain decides about another transfer.
LEMMA OthersDecided ==
  ASSUME NEW w, NEW s, NEW t, WorkFits(w, s, t), NEW u, DOMAIN u = DOMAIN t,
         \A b \in DOMAIN w : w[b].at = "sending" => u[TxOf(w[b], s)] = t[TxOf(w[b], s)]
  PROVE  WorkFits(w, s, u)
<1>1. ASSUME NEW b \in DOMAIN w PROVE BatchFits(w[b], s, u)
  <2> DEFINE x == w[b]
  <2>1. BatchFits(x, s, t)
    BY DEF WorkFits
  <2>2. x.at = "sending" => u[TxOf(x, s)] = t[TxOf(x, s)]
    OBVIOUS
  <2> HIDE DEF x
  <2>3. BatchFits(x, s, u)
    BY <2>1, <2>2 DEF BatchFits
  <2> QED
    BY <2>3 DEF x
<1> QED
  BY <1>1 DEF WorkFits

\* A batch that turns to the lists that wait.
Turned(x, later) ==
  IF later = <<>> THEN [x EXCEPT !.at = "over"]
  ELSE [ids |-> Head(later), later |-> Tail(later), at |-> "building"]

\* Lists that may be taken in hand: marked sends with something to carry and no
\* signature, each standing in one place.
WaitFit(later, r) ==
  /\ \A p \in DOMAIN later :
       /\ later[p] # <<>>
       /\ \A n \in DOMAIN later[p] :
            /\ later[p][n] \in DOMAIN r /\ r[later[p][n]].status = "in_progress"
            /\ r[later[p][n]].amount > 0 /\ r[later[p][n]].tx = 0
  /\ \A p, q \in DOMAIN later : \A m \in DOMAIN later[p], n \in DOMAIN later[q] :
       later[p][m] = later[q][n] => p = q /\ m = n

\* It then holds what those lists hold.
LEMMA TurnFits ==
  ASSUME NEW old \in BatchType, NEW later \in Seq(Seq(Nat)), NEW r, NEW u, WaitFit(later, r)
  PROVE  LET x == Turned(old, later) IN
         /\ x \in BatchType /\ BatchFits(x, r, u) /\ OwnApart(x) /\ ~Underway(x)
         /\ \A y \in Held(x) : \E p \in DOMAIN later : \E n \in DOMAIN later[p] : y = later[p][n]
<1> DEFINE x == Turned(old, later)
<1>1. CASE later = <<>>
  <2>1. x = [old EXCEPT !.at = "over"]
    BY <1>1 DEF Turned
  <2>2. x \in BatchType /\ x.at = "over"
    BY <2>1 DEF BatchType
  <2> HIDE DEF x
  <2>3. Lists(x) = {} /\ ~Underway(x)
    BY <2>2 DEF Lists, Underway
  <2>4. BatchFits(x, r, u)
    BY <2>2, <2>3 DEF BatchFits
  <2>5. OwnApart(x) /\ Held(x) = {}
    BY <2>3 DEF OwnApart, Held
  <2> QED
    BY <2>2, <2>3, <2>4, <2>5 DEF x
<1>2. CASE later # <<>>
  <2>1. /\ Head(later) \in Seq(Nat) /\ Tail(later) \in Seq(Seq(Nat))
        /\ Len(Tail(later)) = Len(later) - 1 /\ Head(later) = later[1]
        /\ \A i \in 1..Len(Tail(later)) : Tail(later)[i] = later[i + 1]
        /\ Len(later) \in Nat /\ DOMAIN later = 1..Len(later) /\ Len(later) # 0
    BY <1>2, HeadTailProperties, LenProperties, EmptySeq
  <2>2. x = [ids |-> Head(later), later |-> Tail(later), at |-> "building"]
    BY <1>2 DEF Turned
  <2>3. x \in BatchType /\ x.at = "building" /\ x.ids = later[1] /\ x.later = Tail(later)
    BY <2>1, <2>2 DEF BatchType
  <2> HIDE DEF x
  <2>4. ~Underway(x) /\ Lists(x) = 0..(Len(later) - 1)
    BY <2>1, <2>3 DEF Lists, Underway
  <2>5. \A p \in Lists(x) : p \in Nat /\ p + 1 \in DOMAIN later /\ List(x, p) = later[p + 1]
    <3> SUFFICES ASSUME NEW p \in 0..(Len(later) - 1)
                 PROVE  p \in Nat /\ p + 1 \in DOMAIN later /\ List(x, p) = later[p + 1]
      BY <2>4
    <3>1. p \in Nat /\ p + 1 \in DOMAIN later
      BY <2>1
    <3>2. CASE p = 0
      BY <2>3, <3>1, <3>2 DEF List
    <3>3. CASE p # 0
      <4>1. p \in 1..Len(Tail(later))
        BY <2>1, <3>3
      <4> QED
        BY <2>1, <2>3, <3>1, <3>3, <4>1 DEF List
    <3> QED
      BY <3>2, <3>3
  <2>6. BatchFits(x, r, u)
    <3>1. \A p \in Lists(x) :
            /\ List(x, p) # <<>>
            /\ \A n \in DOMAIN List(x, p) :
                 /\ List(x, p)[n] \in DOMAIN r /\ r[List(x, p)[n]].status = "in_progress"
                 /\ r[List(x, p)[n]].amount > 0 /\ r[List(x, p)[n]].tx = 0
      BY <2>5 DEF WaitFit
    <3> QED
      BY <2>3, <2>4, <3>1 DEF BatchFits
  <2>7. OwnApart(x)
    <3> SUFFICES ASSUME NEW p \in Lists(x), NEW q \in Lists(x),
                        NEW m \in DOMAIN List(x, p), NEW n \in DOMAIN List(x, q),
                        List(x, p)[m] = List(x, q)[n]
                 PROVE  p = q /\ m = n
      BY DEF OwnApart
    <3>1. p + 1 = q + 1 /\ m = n
      BY <2>5 DEF WaitFit
    <3> QED
      BY <2>5, <3>1
  <2>8. ASSUME NEW y \in Held(x)
        PROVE  \E p \in DOMAIN later : \E n \in DOMAIN later[p] : y = later[p][n]
    <3>1. PICK p \in Lists(x) : \E n \in DOMAIN List(x, p) : y = List(x, p)[n]
      BY HeldWhere
    <3> QED
      BY <2>5, <3>1
  <2> QED
    BY <2>3, <2>4, <2>6, <2>7, <2>8 DEF x
<1> QED
  BY <1>1, <1>2

\* The halves that wait may be taken in hand.
LEMMA LaterWaits ==
  ASSUME NEW old \in BatchType, old.at # "over", NEW s, NEW t, BatchFits(old, s, t), OwnApart(old),
         NEW r, DOMAIN r = DOMAIN s, \A i \in DOMAIN s : i \notin ToSet(old.ids) => r[i] = s[i]
  PROVE  /\ WaitFit(old.later, r)
         /\ \A p \in DOMAIN old.later : \A n \in DOMAIN old.later[p] :
              old.later[p][n] \in Held(old) /\ old.later[p][n] \notin ToSet(old.ids)
<1> DEFINE later == old.later
<1>1. /\ 0 \in Lists(old) /\ List(old, 0) = old.ids /\ Len(later) \in Nat /\ Lists(old) = 0..Len(later)
      /\ later \in Seq(Seq(Nat))
  BY InHandFirst
<1>2. \A p \in DOMAIN later : p \in Nat /\ p > 0 /\ p \in Lists(old) /\ List(old, p) = later[p]
  <2>1. DOMAIN later = 1..Len(later)
    BY <1>1, LenProperties
  <2> QED
    BY <1>1, <2>1 DEF List
<1> HIDE DEF later
<1>3. \A p \in DOMAIN later :
        /\ later[p] # <<>>
        /\ \A n \in DOMAIN later[p] :
             /\ later[p][n] \in DOMAIN s /\ s[later[p][n]].status = "in_progress"
             /\ s[later[p][n]].amount > 0 /\ s[later[p][n]].tx = 0
  <2> SUFFICES ASSUME NEW p \in DOMAIN later
               PROVE  /\ later[p] # <<>>
                      /\ \A n \in DOMAIN later[p] :
                           /\ later[p][n] \in DOMAIN s /\ s[later[p][n]].status = "in_progress"
                           /\ s[later[p][n]].amount > 0 /\ s[later[p][n]].tx = 0
    OBVIOUS
  <2>1. p > 0 /\ p \in Lists(old) /\ List(old, p) = later[p]
    BY <1>2
  <2> QED
    BY <2>1 DEF BatchFits
<1>4. \A p, q \in DOMAIN later : \A m \in DOMAIN later[p], n \in DOMAIN later[q] :
        later[p][m] = later[q][n] => p = q /\ m = n
  BY <1>2 DEF OwnApart
<1>5. \A p \in DOMAIN later : \A n \in DOMAIN later[p] :
        later[p][n] \in Held(old) /\ later[p][n] \notin ToSet(old.ids)
  <2> SUFFICES ASSUME NEW p \in DOMAIN later, NEW n \in DOMAIN later[p]
               PROVE  later[p][n] \in Held(old) /\ later[p][n] \notin ToSet(old.ids)
    OBVIOUS
  <2>1. p > 0 /\ p \in Nat /\ p \in Lists(old) /\ List(old, p) = later[p]
    BY <1>2
  <2>2. later[p][n] \in Held(old)
    BY <2>1, HeldWhere
  <2>3. ASSUME later[p][n] \in ToSet(old.ids) PROVE FALSE
    <3>1. PICK m \in DOMAIN old.ids : old.ids[m] = later[p][n]
      BY <2>3 DEF ToSet
    <3>2. List(old, 0)[m] = List(old, p)[n]
      BY <1>1, <2>1, <3>1
    <3>3. 0 \in Lists(old) /\ DOMAIN List(old, 0) = DOMAIN old.ids
      BY <1>1
    <3>4. \A k, l \in Lists(old) : \A a \in DOMAIN List(old, k), b \in DOMAIN List(old, l) :
            List(old, k)[a] = List(old, l)[b] => k = l
      BY DEF OwnApart
    <3>5. 0 = p
      BY <2>1, <3>1, <3>2, <3>3, <3>4
    <3> QED
      BY <2>1, <3>5
  <2> QED
    BY <2>2, <2>3
<1>6. WaitFit(later, r)
  <2>1. \A p \in DOMAIN later : \A n \in DOMAIN later[p] : r[later[p][n]] = s[later[p][n]]
    BY <1>3, <1>5
  <2> QED
    BY <1>3, <1>4, <2>1 DEF WaitFit
<1> QED
  BY <1>5, <1>6 DEF later

\* The list in hand cut in two, before the ones that wait.
Halved(x) ==
  LET n    == Len(x.ids)
      half == (n + 1) \div 2
  IN <<SubSeq(x.ids, 1, half), SubSeq(x.ids, half + 1, n)>> \o x.later

\* The halves may be taken in hand when the signature has been forgotten.
LEMMA HalvesWait ==
  ASSUME NEW old \in BatchType, old.at # "over", NEW s, NEW t, BatchFits(old, s, t), OwnApart(old),
         Len(old.ids) > 1,
         NEW r, DOMAIN r = DOMAIN s, \A i \in DOMAIN s : i \notin ToSet(old.ids) => r[i] = s[i],
         \A i \in ToSet(old.ids) : /\ r[i].status = "in_progress" /\ r[i].tx = 0
                                   /\ r[i].amount = s[i].amount
  PROVE  /\ Halved(old) \in Seq(Seq(Nat)) /\ WaitFit(Halved(old), r)
         /\ \A p \in DOMAIN Halved(old) : \A n \in DOMAIN Halved(old)[p] :
              Halved(old)[p][n] \in Held(old)
<1> DEFINE n == Len(old.ids)
           half == (n + 1) \div 2
           one == SubSeq(old.ids, 1, half)
           two == SubSeq(old.ids, half + 1, n)
           all == Halved(old)
<1>1. /\ 0 \in Lists(old) /\ List(old, 0) = old.ids /\ Len(old.later) \in Nat
      /\ Lists(old) = 0..Len(old.later)
      /\ old.later \in Seq(Seq(Nat)) /\ old.ids \in Seq(Nat)
      /\ DOMAIN old.ids = 1..n /\ n \in Nat /\ DOMAIN old.later = 1..Len(old.later)
      /\ \A i \in 1..n : old.ids[i] \in Nat
  BY InHandFirst, LenProperties, ElementOfSeq
<1>2. half \in Nat /\ 1 <= half /\ half < n
  <2>1. \A k \in Nat : k > 1 => (k + 1) \div 2 \in Nat /\ 1 <= (k + 1) \div 2 /\ (k + 1) \div 2 < k
    OBVIOUS
  <2>2. n \in Nat /\ n > 1
    BY <1>1
  <2> HIDE DEF n
  <2> QED
    BY <2>1, <2>2
<1>3. all = <<one, two>> \o old.later
  BY DEF Halved
<1> HIDE DEF n, half, all
<1>4. one \in Seq(Nat) /\ Len(one) = half /\ \A i \in 1..half : one[i] = old.ids[i]
  <2>1. /\ one \in Seq(Nat) /\ Len(one) = IF 1 <= half THEN half - 1 + 1 ELSE 0
        /\ \A i \in 1..(half - 1 + 1) : one[i] = old.ids[1 + i - 1]
    BY <1>1, <1>2, SubSeqProperties
  <2> QED
    BY <1>2, <2>1
<1>5. two \in Seq(Nat) /\ Len(two) = n - half /\ \A i \in 1..(n - half) : two[i] = old.ids[half + i]
  <2>0. half + 1 \in Int /\ n \in Int /\ \A i \in (half + 1)..n : old.ids[i] \in Nat
    BY <1>1, <1>2
  <2>1. /\ two \in Seq(Nat) /\ Len(two) = IF half + 1 <= n THEN n - (half + 1) + 1 ELSE 0
        /\ \A i \in 1..(n - (half + 1) + 1) : two[i] = old.ids[half + 1 + i - 1]
    BY <2>0, SubSeqProperties
  <2> QED
    BY <1>1, <1>2, <2>1
<1> HIDE DEF one, two
<1>6. DOMAIN one = 1..half /\ DOMAIN two = 1..(n - half)
  BY <1>4, <1>5, LenProperties
<1>7. /\ all \in Seq(Seq(Nat)) /\ DOMAIN all = 1..(2 + Len(old.later))
      /\ all[1] = one /\ all[2] = two
      /\ \A p \in 3..(2 + Len(old.later)) : all[p] = old.later[p - 2]
  <2>1. <<one, two>> \in Seq(Seq(Nat)) /\ Len(<<one, two>>) = 2
        /\ <<one, two>>[1] = one /\ <<one, two>>[2] = two
    BY <1>4, <1>5
  <2>2. /\ all \in Seq(Seq(Nat)) /\ Len(all) = 2 + Len(old.later)
        /\ \A i \in 1..(2 + Len(old.later)) :
             all[i] = IF i <= 2 THEN <<one, two>>[i] ELSE old.later[i - 2]
    BY <1>1, <1>3, <2>1, ConcatProperties
  <2>3. DOMAIN all = 1..Len(all)
    BY <2>2, LenProperties
  <2>4. \A m \in Nat : /\ 1 \in 1..(2 + m) /\ 2 \in 1..(2 + m) /\ 1 <= 2 /\ 2 <= 2
                        /\ \A p \in 3..(2 + m) : p \in 1..(2 + m) /\ ~(p <= 2)
    OBVIOUS
  <2>5. Len(old.later) \in Nat
    BY <1>1
  <2>6. all[1] = one /\ all[2] = two
    BY <2>1, <2>2, <2>4, <2>5
  <2>7. \A p \in 3..(2 + Len(old.later)) : all[p] = old.later[p - 2]
    BY <2>2, <2>4, <2>5
  <2> QED
    BY <2>2, <2>3, <2>6, <2>7
<1> DEFINE P(p) == IF p <= 2 THEN 0 ELSE p - 2
           K(p, m) == IF p = 2 THEN half + m ELSE m
<1>8. ASSUME NEW p \in DOMAIN all
      PROVE  /\ p \in Nat /\ P(p) \in Lists(old) /\ all[p] # <<>>
             /\ \A m \in DOMAIN all[p] : /\ m \in Nat /\ K(p, m) \in DOMAIN List(old, P(p))
                                         /\ all[p][m] = List(old, P(p))[K(p, m)]
                                         /\ p = 1 => m <= half
                                         /\ p = 2 => m > 0
  <2>1. CASE p = 1
    <3>1. all[p] = one /\ P(p) = 0 /\ \A m : K(p, m) = m
      BY <1>7, <2>1
    <3>2. one # <<>>
      BY <1>2, <1>4, EmptySeq
    <3> QED
      BY <1>1, <1>2, <1>4, <1>6, <2>1, <3>1, <3>2
  <2>2. CASE p = 2
    <3>1. all[p] = two /\ P(p) = 0 /\ \A m : K(p, m) = half + m
      BY <1>7, <2>2
    <3>2. two # <<>>
      BY <1>1, <1>2, <1>5, EmptySeq
    <3>3. \A m \in DOMAIN two : m \in Nat /\ m > 0 /\ half + m \in DOMAIN old.ids
                              /\ two[m] = old.ids[half + m]
      <4>1. \A x, y \in Nat : \A k \in 1..(y - x) : k \in Nat /\ k > 0 /\ x + k \in 1..y
        OBVIOUS
      <4> QED
        BY <1>1, <1>2, <1>5, <1>6, <4>1
    <3> HIDE DEF P, K
    <3> QED
      BY <1>1, <2>2, <3>1, <3>2, <3>3
  <2>3. CASE p # 1 /\ p # 2
    <3>1. p \in Nat /\ p >= 3 /\ p - 2 \in 1..Len(old.later) /\ all[p] = old.later[p - 2]
      <4>1. p \in 1..(2 + Len(old.later)) /\ Len(old.later) \in Nat
        BY <1>1, <1>7
      <4>2. p \in Nat /\ p >= 3 /\ p - 2 \in 1..Len(old.later) /\ p \in 3..(2 + Len(old.later))
        <5> HIDE DEF P, K
        <5> QED
          BY <2>3, <4>1
      <4> QED
        BY <1>7, <4>2
    <3>2. P(p) = p - 2 /\ P(p) \in Lists(old) /\ \A m : K(p, m) = m
      BY <1>1, <2>3, <3>1
    <3>3. List(old, P(p)) = old.later[p - 2]
      BY <3>1, <3>2 DEF List
    <3>4. old.later[p - 2] # <<>>
      BY <3>2, <3>3 DEF BatchFits
    <3>5. \A m \in DOMAIN old.later[p - 2] : m \in Nat
      <4>1. old.later[p - 2] \in Seq(Nat)
        BY <1>1, <3>1, ElementOfSeq
      <4>2. DOMAIN old.later[p - 2] = 1..Len(old.later[p - 2])
        BY <4>1, LenProperties
      <4> QED
        BY <4>2
    <3> QED
      BY <2>3, <3>1, <3>2, <3>3, <3>4, <3>5
  <2> QED
    BY <2>1, <2>2, <2>3
<1>9. ASSUME NEW p \in DOMAIN all, NEW m \in DOMAIN all[p]
      PROVE  /\ all[p][m] \in Held(old) /\ all[p][m] \in DOMAIN s
             /\ s[all[p][m]].status = "in_progress" /\ s[all[p][m]].amount > 0
             /\ P(p) > 0 => s[all[p][m]].tx = 0
             /\ P(p) = 0 => all[p][m] \in ToSet(old.ids)
             /\ P(p) > 0 => all[p][m] \notin ToSet(old.ids)
  <2>1. P(p) \in Lists(old) /\ K(p, m) \in DOMAIN List(old, P(p))
        /\ all[p][m] = List(old, P(p))[K(p, m)]
    BY <1>8
  <2>2. all[p][m] \in Held(old)
    BY <2>1, HeldWhere
  <2>3. ASSUME P(p) > 0 PROVE all[p][m] \notin ToSet(old.ids)
    <3> SUFFICES ASSUME NEW i \in DOMAIN old.ids, old.ids[i] = all[p][m] PROVE FALSE
      BY DEF ToSet
    <3>1. i \in DOMAIN List(old, 0) /\ List(old, 0)[i] = List(old, P(p))[K(p, m)]
      BY <1>1, <2>1
    <3> HIDE DEF P, K
    <3>2. P(p) = 0
      BY <1>1, <2>1, <3>1 DEF OwnApart
    <3> QED
      BY <2>3, <3>2
  <2>4. ASSUME P(p) = 0 PROVE all[p][m] \in ToSet(old.ids)
    <3> HIDE DEF P, K
    <3>1. List(old, P(p)) = old.ids
      BY <2>4 DEF List
    <3>2. K(p, m) \in DOMAIN old.ids /\ all[p][m] = old.ids[K(p, m)]
      BY <2>1, <3>1
    <3> QED
      BY <3>2 DEF ToSet
  <2> HIDE DEF P, K
  <2> QED
    BY <2>1, <2>2, <2>3, <2>4 DEF BatchFits
<1>10. ASSUME NEW p \in DOMAIN all, NEW m \in DOMAIN all[p]
       PROVE  /\ all[p][m] \in DOMAIN r /\ r[all[p][m]].status = "in_progress"
              /\ r[all[p][m]].amount > 0 /\ r[all[p][m]].tx = 0
  <2>1. P(p) = 0 \/ P(p) > 0
    BY <1>8
  <2> HIDE DEF P
  <2> QED
    BY <1>9, <2>1
<1>11. ASSUME NEW p \in DOMAIN all, NEW q \in DOMAIN all, NEW k \in DOMAIN all[p],
              NEW m \in DOMAIN all[q], all[p][k] = all[q][m]
       PROVE  p = q /\ k = m
  <2>1. P(p) = P(q) /\ K(p, k) = K(q, m)
    <3>1. /\ P(p) \in Lists(old) /\ K(p, k) \in DOMAIN List(old, P(p))
          /\ P(q) \in Lists(old) /\ K(q, m) \in DOMAIN List(old, P(q))
          /\ List(old, P(p))[K(p, k)] = List(old, P(q))[K(q, m)]
      BY <1>8, <1>11
    <3> HIDE DEF P, K
    <3> QED
      BY <3>1 DEF OwnApart
  <2>2. /\ p \in Nat /\ q \in Nat /\ k \in Nat /\ m \in Nat /\ p > 0 /\ q > 0
        /\ p = 1 => k <= half
        /\ q = 1 => m <= half
        /\ p = 2 => k > 0
        /\ q = 2 => m > 0
    <3> HIDE DEF P, K
    <3>1. p \in 1..(2 + Len(old.later)) /\ q \in 1..(2 + Len(old.later))
      BY <1>7
    <3>2. \A x \in 1..(2 + Len(old.later)) : x > 0
      OBVIOUS
    <3> QED
      BY <1>8, <3>1, <3>2
  <2> QED
    BY <1>2, <2>1, <2>2
<1>12. WaitFit(all, r)
  <2>1. \A p \in DOMAIN all : all[p] # <<>>
    BY <1>8
  <2> HIDE DEF P, K
  <2> QED
    BY <1>10, <1>11, <2>1 DEF WaitFit
<1> QED
  BY <1>7, <1>9, <1>12 DEF all

\* The order of the amounts cut into batches of BatchSize.
Batches(order) ==
  [b \in 1..((Len(order) + BatchSize - 1) \div BatchSize) |->
     Batch(SubSeq(order, (b - 1) * BatchSize + 1, Min({b * BatchSize, Len(order)})))]

\* The first batches of a visit fit its sends.
LEMMA FirstBatches ==
  ASSUME NEW order, order \in Seq(Nat), NEW r, NEW u,
         \A m, n \in DOMAIN order : order[m] = order[n] => m = n,
         \A n \in DOMAIN order : /\ order[n] \in DOMAIN r /\ r[order[n]].status = "in_progress"
                                 /\ r[order[n]].amount > 0 /\ r[order[n]].tx = 0
  PROVE  WorkFits(Batches(order), r, u)
<1> DEFINE N == Len(order)
           B == (N + BatchSize - 1) \div BatchSize
           w == Batches(order)
           from(b) == (b - 1) * BatchSize
           to(b) == Min({b * BatchSize, N})
           ids(b) == SubSeq(order, from(b) + 1, to(b))
<1>1. /\ N \in Nat /\ DOMAIN order = 1..N /\ \A i \in 1..N : order[i] \in Nat
      /\ BatchSize \in Nat \ {0} /\ N + BatchSize - 1 \in Nat
  BY DeliveryAssumption, LenProperties, ElementOfSeq
<1>2. w = [b \in 1..B |-> Batch(ids(b))]
  BY DEF Batches
<1> HIDE DEF N, w
<1>3. B \in Nat /\ B * BatchSize <= N + BatchSize - 1
  <2> DEFINE x == N + BatchSize - 1
  <2>1. x \in Nat
    BY <1>1
  <2> HIDE DEF x
  <2>2. x \div BatchSize \in Nat /\ (x \div BatchSize) * BatchSize <= x
    BY <1>1, <2>1, RoundsDown
  <2> QED
    BY <2>2 DEF x
<1> HIDE DEF B
<1>4. ASSUME NEW b \in 1..B
      PROVE  /\ from(b) \in Nat /\ to(b) \in Nat /\ from(b) + 1 <= to(b) /\ to(b) <= N
             /\ to(b) <= from(b) + BatchSize
  <2>1. \A z \in Nat \ {0} : \A x, y \in Nat : x <= y => x * z <= y * z
    OBVIOUS
  <2>2. b \in Nat /\ b - 1 \in Nat /\ b <= B
    BY <1>3
  <2>3. from(b) \in Nat /\ b * BatchSize \in Nat /\ b * BatchSize = from(b) + BatchSize
    BY <1>1, <2>2
  <2>4. b * BatchSize <= N + BatchSize - 1
    <3>1. b * BatchSize <= B * BatchSize /\ B * BatchSize \in Nat
      BY <1>1, <1>3, <2>1, <2>2
    <3> QED
      BY <1>1, <1>3, <2>3, <3>1
  <2>5. to(b) \in {b * BatchSize, N} /\ to(b) <= N /\ to(b) <= b * BatchSize
    BY <1>1, <2>3, OfTwoNats
  <2> HIDE DEF from, to
  <2> QED
    BY <1>1, <2>3, <2>4, <2>5
<1>5. ASSUME NEW b \in 1..B, NEW c \in 1..B, b < c PROVE to(b) <= from(c)
  <2>1. \A z \in Nat \ {0} : \A x, y \in Nat : x <= y => x * z <= y * z
    OBVIOUS
  <2>2. b \in Nat /\ c - 1 \in Nat /\ b <= c - 1 /\ b - 1 \in Nat
    BY <1>3, <1>5
  <2>3. b * BatchSize <= from(c) /\ b * BatchSize \in Nat /\ b * BatchSize = from(b) + BatchSize
    BY <1>1, <2>1, <2>2
  <2>4. to(b) <= from(b) + BatchSize /\ to(b) \in Nat /\ from(b) \in Nat /\ from(c) \in Nat
    BY <1>4
  <2> HIDE DEF from, to
  <2> QED
    BY <1>1, <2>3, <2>4
<1> HIDE DEF from, to
<1>6. ASSUME NEW b \in 1..B
      PROVE  /\ ids(b) \in Seq(Nat) /\ ids(b) # <<>>
             /\ \A n \in DOMAIN ids(b) : /\ from(b) + n \in 1..N /\ n \in Nat
                                         /\ from(b) + n <= to(b) /\ n > 0
                                         /\ ids(b)[n] = order[from(b) + n]
  <2>1. from(b) \in Nat /\ to(b) \in Nat /\ from(b) + 1 <= to(b) /\ to(b) <= N
    BY <1>4
  <2>2. \A i \in (from(b) + 1)..to(b) : order[i] \in Nat
    BY <1>1, <2>1
  <2>3. /\ ids(b) \in Seq(Nat)
        /\ Len(ids(b)) = IF from(b) + 1 <= to(b) THEN to(b) - (from(b) + 1) + 1 ELSE 0
        /\ \A i \in 1..(to(b) - (from(b) + 1) + 1) : ids(b)[i] = order[from(b) + 1 + i - 1]
    <3>1. from(b) + 1 \in Int /\ to(b) \in Int
      BY <2>1
    <3> QED
      BY <2>2, <3>1, SubSeqProperties
  <2> HIDE DEF ids
  <2>4. Len(ids(b)) = to(b) - from(b) /\ DOMAIN ids(b) = 1..(to(b) - from(b))
    BY <2>1, <2>3, LenProperties
  <2>5. ids(b) # <<>>
    BY <2>1, <2>4, EmptySeq
  <2>6. ASSUME NEW n \in 1..(to(b) - from(b))
        PROVE  /\ from(b) + n \in 1..N /\ n \in Nat /\ from(b) + n <= to(b) /\ n > 0
               /\ n \in 1..(to(b) - (from(b) + 1) + 1) /\ from(b) + 1 + n - 1 = from(b) + n
    <3>2. from(b) \in Nat /\ to(b) \in Nat /\ N \in Nat /\ to(b) <= N
      BY <1>1, <2>1
    <3> HIDE DEF from, to, N
    <3>3. n \in Nat /\ 1 <= n /\ n <= to(b) - from(b)
      BY <3>2
    <3> QED
      BY <3>2, <3>3
  <2> QED
    BY <2>3, <2>4, <2>5, <2>6
<1> HIDE DEF ids
<1>7. w \in Seq(BatchType) /\ DOMAIN w = 1..B
  <2>1. \A b \in 1..B : Batch(ids(b)) \in BatchType
    <3> SUFFICES ASSUME NEW b \in 1..B PROVE Batch(ids(b)) \in BatchType
      OBVIOUS
    <3>1. ids(b) \in Seq(Nat) /\ <<>> \in Seq(Seq(Nat))
      BY <1>6
    <3> QED
      BY <3>1 DEF Batch, BatchType
  <2>2. w \in [1..B -> BatchType]
    BY <1>2, <2>1
  <2> QED
    BY <1>3, <2>2, SeqDef
<1>8. ASSUME NEW b \in 1..B
      PROVE  /\ w[b].ids = ids(b) /\ w[b].at = "building" /\ Lists(w[b]) = {0}
             /\ List(w[b], 0) = ids(b) /\ ~Underway(w[b])
  <2>1. w[b] = Batch(ids(b))
    BY <1>2
  <2>2. w[b].ids = ids(b) /\ w[b].at = "building" /\ w[b].later = <<>>
    BY <2>1 DEF Batch
  <2>3. 0..Len(<<>>) = {0}
    OBVIOUS
  <2> QED
    BY <2>2, <2>3 DEF Lists, List, Underway
<1>9. ASSUME NEW b \in 1..B PROVE BatchFits(w[b], r, u)
  <2>1. \A n \in DOMAIN ids(b) : from(b) + n \in DOMAIN order /\ ids(b)[n] = order[from(b) + n]
    BY <1>1, <1>6
  <2>2. \A n \in DOMAIN ids(b) : /\ ids(b)[n] \in DOMAIN r /\ r[ids(b)[n]].status = "in_progress"
                                 /\ r[ids(b)[n]].amount > 0 /\ r[ids(b)[n]].tx = 0
    BY <2>1
  <2>3. ids(b) # <<>>
    BY <1>6
  <2>4. \A p \in Lists(w[b]) : p = 0 /\ List(w[b], p) = ids(b)
    BY <1>8
  <2>5. w[b].at = "building" /\ ~Underway(w[b])
    BY <1>8
  <2> QED
    BY <2>2, <2>3, <2>4, <2>5 DEF BatchFits
<1>10. ASSUME NEW b \in 1..B, NEW c \in 1..B, NEW m \in DOMAIN ids(b), NEW n \in DOMAIN ids(c),
              ids(b)[m] = ids(c)[n]
       PROVE  b = c /\ m = n
  <2>1. /\ from(b) + m \in DOMAIN order /\ from(c) + n \in DOMAIN order
        /\ order[from(b) + m] = order[from(c) + n]
    BY <1>1, <1>6, <1>10
  <2>2. from(b) + m = from(c) + n
    BY <2>1
  <2>3. /\ from(b) + m <= to(b) /\ from(c) + n <= to(c) /\ m \in Nat /\ n \in Nat /\ m > 0 /\ n > 0
        /\ from(b) \in Nat /\ to(b) \in Nat /\ from(c) \in Nat /\ to(c) \in Nat
    BY <1>4, <1>6
  <2>4. ~(b < c) /\ ~(c < b)
    BY <1>5, <2>2, <2>3
  <2>5. b = c
    BY <1>3, <2>4
  <2> QED
    BY <2>2, <2>3, <2>5
<1>11. ASSUME NEW b \in 1..B PROVE OwnApart(w[b])
  <2>1. Lists(w[b]) = {0} /\ List(w[b], 0) = ids(b)
    BY <1>8
  <2>2. \A m, n \in DOMAIN ids(b) : ids(b)[m] = ids(b)[n] => m = n
    BY <1>10
  <2> QED
    BY <2>1, <2>2 DEF OwnApart
<1>12. \A b, c \in 1..B : b # c => Held(w[b]) \cap Held(w[c]) = {}
  <2> SUFFICES ASSUME NEW b \in 1..B, NEW c \in 1..B, NEW y \in Held(w[b]), y \in Held(w[c])
               PROVE  b = c
    OBVIOUS
  <2>1. PICK m \in DOMAIN ids(b) : y = ids(b)[m]
    <3>1. Lists(w[b]) = {0} /\ List(w[b], 0) = ids(b)
      BY <1>8
    <3> QED
      BY <3>1, HeldWhere
  <2>2. PICK n \in DOMAIN ids(c) : y = ids(c)[n]
    <3>1. Lists(w[c]) = {0} /\ List(w[c], 0) = ids(c)
      BY <1>8
    <3> QED
      BY <3>1, HeldWhere
  <2> QED
    BY <1>10, <2>1, <2>2
<1> QED
  BY <1>7, <1>8, <1>9, <1>11, <1>12 DEF WorkFits, w

-----------------------------------------------------------------------------
(* What a batch does to its sends.                                         *)

\* A send in hand is marked, and holds the signature of the batch's transfer.
LEMMA InHandMarked ==
  ASSUME NEW x \in BatchType, NEW s, NEW t, BatchFits(x, s, t), x.at # "over", NEW i \in ToSet(x.ids)
  PROVE  /\ i \in DOMAIN s /\ s[i].status = "in_progress" /\ s[i].amount > 0 /\ i \in Held(x)
         /\ x.at = "building" => s[i].tx = 0
         /\ Underway(x) => s[i].tx = TxOf(x, s)
<1>1. 0 \in Lists(x) /\ List(x, 0) = x.ids
  BY InHandFirst
<1>2. PICK n \in DOMAIN x.ids : x.ids[n] = i
  BY DEF ToSet
<1>3. n \in DOMAIN List(x, 0) /\ List(x, 0)[n] = i
  BY <1>1, <1>2
<1>4. i \in Held(x)
  BY <1>1, <1>3, HeldWhere
<1> QED
  BY <1>1, <1>3, <1>4 DEF BatchFits

\* Batch b is at work, and its transfer may have moved the chain from t to u.
Working(w, s, t, u, b) ==
  /\ WorkFits(w, s, t) /\ b \in DOMAIN w /\ w[b].at # "over"
  /\ FilesTyped(s, u) /\ Paid(s, u) /\ DOMAIN u = DOMAIN t
  /\ \A k \in DOMAIN t : u[k] = t[k] \/ (Underway(w[b]) /\ k = TxOf(w[b], s))

\* The records r after the sends in hand have moved, and the lists to turn to.
HandMoved(w, s, u, b, r, later) ==
  /\ r \in Seq(RecordType(Len(u))) /\ Len(r) = Len(s)
  /\ \A i \in DOMAIN s : i \notin ToSet(w[b].ids) => r[i] = s[i]
  /\ \A i \in ToSet(w[b].ids) : RecordMoves(s[i], r[i], u)
  /\ \/ later = w[b].later
     \/ /\ later = Halved(w[b]) /\ Len(w[b].ids) > 1
        /\ \A i \in ToSet(w[b].ids) : /\ r[i].status = "in_progress" /\ r[i].tx = 0
                                      /\ r[i].amount = s[i].amount

\* A batch has done with the sends in hand: it turns to its lists, or to the halves.
LEMMA HandMoves ==
  ASSUME NEW w, NEW s, NEW t, NEW u, NEW b, Working(w, s, t, u, b),
         NEW r, NEW later, HandMoved(w, s, u, b, r, later)
  PROVE  /\ FilesTyped(r, u) /\ Paid(r, u)
         /\ WorkFits([w EXCEPT ![b] = Turned(w[b], later)], r, u)
         /\ DOMAIN r = DOMAIN s
<1> USE DEF Working, HandMoved
<1> DEFINE x == w[b]
<1>1. x \in BatchType /\ BatchFits(x, s, t) /\ OwnApart(x) /\ x.at # "over"
  <2>1. w \in Seq(BatchType) /\ DOMAIN w = 1..Len(w)
    BY LenProperties DEF WorkFits
  <2>2. w[b] \in BatchType
    BY <2>1, ElementOfSeq
  <2> QED
    BY <2>2 DEF WorkFits
<1>2. DOMAIN r = DOMAIN s
  BY LenProperties, Typed
<1>3. FilesTyped(r, u) /\ Paid(r, u)
  <2>1. ASSUME NEW i \in DOMAIN s PROVE RecordMoves(s[i], r[i], u)
    <3>1. CASE i \in ToSet(w[b].ids)
      BY <3>1
    <3>2. CASE i \notin ToSet(w[b].ids)
      <4>1. r[i] = s[i]
        BY <3>2
      <4>2. s[i].status \in {"pending", "in_progress"} => s[i].attempts < MaxAttempts
        BY DEF Paid, RecordsFit
      <4> QED
        BY <4>1, <4>2 DEF RecordMoves
    <3> QED
      BY <3>1, <3>2
  <2> QED
    BY <2>1, RecordsMove
<1>4. /\ later \in Seq(Seq(Nat)) /\ WaitFit(later, r)
      /\ \A p \in DOMAIN later : \A n \in DOMAIN later[p] : later[p][n] \in Held(x)
  <2>1. \A i \in DOMAIN s : i \notin ToSet(x.ids) => r[i] = s[i]
    OBVIOUS
  <2>2. CASE later = x.later
    <3>1. x.later \in Seq(Seq(Nat))
      BY <1>1 DEF BatchType
    <3> HIDE DEF x
    <3> QED
      BY <1>1, <1>2, <2>1, <2>2, <3>1, LaterWaits
  <2>3. CASE later = Halved(x) /\ Len(x.ids) > 1
             /\ \A i \in ToSet(x.ids) : /\ r[i].status = "in_progress" /\ r[i].tx = 0
                                        /\ r[i].amount = s[i].amount
    <3> HIDE DEF x
    <3> QED
      BY <1>1, <1>2, <2>1, <2>3, HalvesWait
  <2> QED
    BY <2>2, <2>3
<1>5. LET y == Turned(x, later) IN
      /\ y \in BatchType /\ BatchFits(y, r, u) /\ OwnApart(y) /\ ~Underway(y)
      /\ Held(y) \subseteq Held(x)
  <2> HIDE DEF x
  <2> DEFINE y == Turned(x, later)
  <2>1. /\ y \in BatchType /\ BatchFits(y, r, u) /\ OwnApart(y) /\ ~Underway(y)
        /\ \A z \in Held(y) : \E p \in DOMAIN later : \E n \in DOMAIN later[p] : z = later[p][n]
    BY <1>1, <1>4, TurnFits
  <2> HIDE DEF y
  <2>2. Held(y) \subseteq Held(x)
    BY <1>4, <2>1
  <2> QED
    BY <2>1, <2>2 DEF y
<1>6. \A i \in DOMAIN s : i \notin Held(w[b]) => r[i] = s[i]
  BY <1>1, InHandMarked
<1>7. WorkFits([w EXCEPT ![b] = Turned(w[b], later)], r, u)
  <2> DEFINE y == Turned(w[b], later)
  <2>1. /\ y \in BatchType /\ BatchFits(y, r, u) /\ OwnApart(y) /\ ~Underway(y)
        /\ Held(y) \subseteq Held(w[b])
    BY <1>5
  <2> HIDE DEF y
  <2>2. KeepsToItself(w, s, t, b, y, r, u)
    BY <1>2, <1>6, <2>1 DEF KeepsToItself
  <2>3. WorkFits([w EXCEPT ![b] = y], r, u)
    BY <2>1, <2>2, BatchMoves
  <2> QED
    BY <2>3 DEF y
<1> QED
  BY <1>2, <1>3, <1>7

\* What the catch block makes of a send in hand.
Undone(x, error, halving) ==
  IF halving THEN [x EXCEPT !.tx = 0]
  ELSE IF error = "fatal" \/ LastAttempt(x) THEN Abandoned(x) ELSE QueuedAgain(x)

\* Too large, with more than one send in hand.
Halving(x, error) == error = "large" /\ Len(x.ids) > 1

\* The records after batch x has failed, and the lists it turns to.
UndoneIn(s, x, error) ==
  [i \in DOMAIN s |-> IF i \in ToSet(x.ids) THEN Undone(s[i], error, Halving(x, error)) ELSE s[i]]
NextLists(x, error) == IF Halving(x, error) THEN Halved(x) ELSE x.later

\* Only a transfer that can no longer land is found too large.
LargeIsVoid(x, s, u, error) == error = "large" => Underway(x) /\ u[TxOf(x, s)].fate = "void"

\* The catch block keeps what is signed on record, and the batch goes on.
LEMMA FailFits ==
  ASSUME NEW w, NEW s, NEW t, NEW u, NEW b, Working(w, s, t, u, b),
         NEW error, LargeIsVoid(w[b], s, u, error), NEW r, r = UndoneIn(s, w[b], error)
  PROVE  /\ FilesTyped(r, u) /\ Paid(r, u)
         /\ WorkFits([w EXCEPT ![b] = Turned(w[b], NextLists(w[b], error))], r, u)
         /\ DOMAIN r = DOMAIN s
<1> DEFINE halving == Halving(w[b], error)
           later == NextLists(w[b], error)
<1>0. /\ WorkFits(w, s, t) /\ b \in DOMAIN w /\ w[b].at # "over"
      /\ FilesTyped(s, u) /\ Paid(s, u)
  BY DEF Working
<1>1. w[b] \in BatchType /\ BatchFits(w[b], s, t)
  <2>1. w \in Seq(BatchType) /\ DOMAIN w = 1..Len(w)
    BY <1>0, LenProperties DEF WorkFits
  <2>2. w[b] \in BatchType
    BY <1>0, <2>1, ElementOfSeq
  <2> QED
    BY <1>0, <2>2 DEF WorkFits
<1>2. /\ DOMAIN s = 1..Len(s) /\ Len(s) \in Nat
      /\ \A i \in DOMAIN s : s[i] \in RecordType(Len(u)) /\ s[i].attempts \in 0..MaxAttempts
  BY <1>0, Typed
<1>3. ASSUME NEW i \in ToSet(w[b].ids)
      PROVE  /\ i \in DOMAIN s /\ s[i].status = "in_progress" /\ s[i].attempts < MaxAttempts
             /\ s[i].amount > 0
             /\ Underway(w[b]) => s[i].tx = TxOf(w[b], s)
  <2>1. /\ i \in DOMAIN s /\ s[i].status = "in_progress" /\ s[i].amount > 0
        /\ Underway(w[b]) => s[i].tx = TxOf(w[b], s)
    BY <1>0, <1>1, InHandMarked
  <2> QED
    BY <1>0, <2>1 DEF Paid, RecordsFit
<1>4. ASSUME NEW i \in ToSet(w[b].ids)
      PROVE  /\ Undone(s[i], error, halving) \in RecordType(Len(u))
             /\ RecordMoves(s[i], Undone(s[i], error, halving), u)
             /\ halving => /\ Undone(s[i], error, halving).status = "in_progress"
                           /\ Undone(s[i], error, halving).tx = 0
                           /\ Undone(s[i], error, halving).amount = s[i].amount
  <2> DEFINE x == s[i]
  <2>1. /\ x \in RecordType(Len(u)) /\ x.status = "in_progress" /\ x.attempts < MaxAttempts
        /\ x.attempts \in 0..MaxAttempts /\ MaxAttempts \in Nat
        /\ Underway(w[b]) => x.tx = TxOf(w[b], s)
    BY <1>2, <1>3, DeliveryAssumption
  <2> HIDE DEF x
  <2>2. CASE halving
    <3>1. x.tx # 0 => u[x.tx].fate = "void"
      BY <2>1, <2>2 DEF Halving, LargeIsVoid
    <3>2. [x EXCEPT !.tx = 0] \in RecordType(Len(u))
      <4>1. 0 \in 0..Len(u)
        BY <1>0, Typed
      <4> QED
        BY <2>1, <4>1 DEF RecordType
    <3>3. [x EXCEPT !.tx = 0].status = x.status /\ [x EXCEPT !.tx = 0].tx = 0
          /\ [x EXCEPT !.tx = 0].amount = x.amount /\ [x EXCEPT !.tx = 0].attempts = x.attempts
      BY <2>1 DEF RecordType
    <3>4. RecordMoves(x, [x EXCEPT !.tx = 0], u)
      BY <2>1, <3>1, <3>3 DEF RecordMoves
    <3>5. Undone(x, error, halving) = [x EXCEPT !.tx = 0]
      BY <2>2 DEF Undone
    <3> QED
      BY <2>1, <3>2, <3>3, <3>4, <3>5 DEF x
  <2>3. CASE ~halving /\ (error = "fatal" \/ LastAttempt(x))
    <3> DEFINE y == [x EXCEPT !.status = "abandoned", !.attempts = @ + 1]
    <3>1. y \in RecordType(Len(u))
      <4>1. x.attempts + 1 \in 0..MaxAttempts
        BY <2>1
      <4> QED
        BY <2>1, <4>1 DEF RecordType, Statuses
    <3>2. y.status = "abandoned" /\ y.tx = x.tx /\ y.amount = x.amount
      BY <2>1 DEF RecordType
    <3>3. Undone(x, error, halving) = y
      BY <2>3 DEF Undone, Abandoned
    <3> HIDE DEF y
    <3>4. RecordMoves(x, y, u)
      BY <2>1, <3>2 DEF RecordMoves
    <3> QED
      BY <2>3, <3>1, <3>3, <3>4 DEF x
  <2>4. CASE ~halving /\ ~(error = "fatal" \/ LastAttempt(x))
    <3> DEFINE y == [x EXCEPT !.status = "pending", !.attempts = @ + 1]
    <3>1. x.attempts + 1 \in 0..MaxAttempts /\ x.attempts + 1 < MaxAttempts
      BY <2>1, <2>4 DEF LastAttempt
    <3>2. y \in RecordType(Len(u))
      BY <2>1, <3>1 DEF RecordType, Statuses
    <3>3. y.status = "pending" /\ y.tx = x.tx /\ y.amount = x.amount /\ y.attempts = x.attempts + 1
      BY <2>1 DEF RecordType
    <3>4. Undone(x, error, halving) = y
      BY <2>4 DEF Undone, QueuedAgain
    <3> HIDE DEF y
    <3>5. RecordMoves(x, y, u)
      BY <2>1, <3>1, <3>3 DEF RecordMoves
    <3> QED
      BY <2>4, <3>2, <3>4, <3>5 DEF x
  <2> QED
    BY <2>2, <2>3, <2>4
<1>5. /\ \A i \in ToSet(w[b].ids) : i \in DOMAIN s /\ r[i] = Undone(s[i], error, halving)
      /\ \A i \in DOMAIN s : i \notin ToSet(w[b].ids) => r[i] = s[i]
  BY <1>3 DEF UndoneIn
<1>6. r \in Seq(RecordType(Len(u))) /\ Len(r) = Len(s)
  <2>1. \A i \in DOMAIN s : r[i] \in RecordType(Len(u))
    BY <1>2, <1>4, <1>5
  <2>2. r \in [1..Len(s) -> RecordType(Len(u))]
    BY <1>2, <2>1 DEF UndoneIn
  <2>3. r \in Seq(RecordType(Len(u)))
    BY <1>2, <2>2, SeqDef
  <2>4. DOMAIN r = 1..Len(r) /\ Len(r) \in Nat
    BY <2>3, LenProperties
  <2> QED
    BY <1>2, <2>2, <2>3, <2>4
<1>7. \A i \in ToSet(w[b].ids) : RecordMoves(s[i], r[i], u)
  BY <1>4, <1>5
<1>8. \/ later = w[b].later
      \/ /\ later = Halved(w[b]) /\ Len(w[b].ids) > 1
         /\ \A i \in ToSet(w[b].ids) : /\ r[i].status = "in_progress" /\ r[i].tx = 0
                                       /\ r[i].amount = s[i].amount
  <2>1. CASE halving
    BY <1>4, <1>5, <2>1 DEF Halving, NextLists
  <2>2. CASE ~halving
    BY <2>2 DEF NextLists
  <2> QED
    BY <2>1, <2>2
<1>9. HandMoved(w, s, u, b, r, later)
  BY <1>5, <1>6, <1>7, <1>8 DEF HandMoved
<1> QED
  BY <1>9, HandMoves

\* A batch goes from one stage to the next with the same lists.
LEMMA StageKeeps ==
  ASSUME NEW x \in BatchType, x.at # "over", NEW at \in {"building", "sending", "confirming"}
  PROVE  LET y == [x EXCEPT !.at = at] IN
         /\ y \in BatchType /\ y.at = at /\ y.ids = x.ids
         /\ Lists(y) = Lists(x) /\ (\A p : List(y, p) = List(x, p))
         /\ Held(y) = Held(x) /\ (OwnApart(x) => OwnApart(y))
         /\ \A s : TxOf(y, s) = TxOf(x, s)
<1> DEFINE y == [x EXCEPT !.at = at]
<1>1. y \in BatchType /\ y.at = at /\ y.ids = x.ids /\ y.later = x.later
  BY DEF BatchType
<1> HIDE DEF y
<1>2. Lists(y) = Lists(x) /\ (\A p : List(y, p) = List(x, p)) /\ \A s : TxOf(y, s) = TxOf(x, s)
  BY <1>1 DEF Lists, List, TxOf
<1>3. Held(y) = Held(x)
  BY <1>2 DEF Held
<1>4. OwnApart(x) => OwnApart(y)
  BY <1>2 DEF OwnApart
<1> QED
  BY <1>1, <1>2, <1>3, <1>4 DEF y

\* What batches are.
LEMMA BatchOf ==
  ASSUME NEW w, NEW s, NEW t, WorkFits(w, s, t), NEW b \in DOMAIN w
  PROVE  w[b] \in BatchType /\ BatchFits(w[b], s, t) /\ OwnApart(w[b])
<1>1. w \in Seq(BatchType) /\ DOMAIN w = 1..Len(w)
  BY LenProperties DEF WorkFits
<1>2. w[b] \in BatchType
  BY <1>1, ElementOfSeq
<1> QED
  BY <1>2 DEF WorkFits

\* A transfer is handed to a node: the batch waits for it.
LEMMA SendFits ==
  ASSUME NEW w, NEW s, NEW t, WorkFits(w, s, t), NEW b \in DOMAIN w, w[b].at = "sending",
         NEW u, DOMAIN u = DOMAIN t,
         \A k \in DOMAIN t : u[k] = t[k] \/ k = TxOf(w[b], s)
  PROVE  WorkFits([w EXCEPT ![b].at = "confirming"], s, u)
<1> DEFINE x == w[b]
           y == [x EXCEPT !.at = "confirming"]
<1>1. x \in BatchType /\ BatchFits(x, s, t) /\ OwnApart(x) /\ x.at = "sending"
  BY BatchOf
<1>2. [w EXCEPT ![b].at = "confirming"] = [w EXCEPT ![b] = y]
  OBVIOUS
<1> HIDE DEF x
<1>3. /\ y \in BatchType /\ y.at = "confirming" /\ y.ids = x.ids
      /\ Lists(y) = Lists(x) /\ (\A p : List(y, p) = List(x, p))
      /\ Held(y) = Held(x) /\ OwnApart(y)
      /\ TxOf(y, s) = TxOf(x, s)
  BY <1>1, StageKeeps
<1> HIDE DEF y
<1>4. Underway(x) /\ Underway(y)
  BY <1>1, <1>3 DEF Underway
<1>5. BatchFits(y, s, u)
  <2>1. \A p \in Lists(x) :
          /\ List(x, p) # <<>>
          /\ \A n \in DOMAIN List(x, p) :
               /\ List(x, p)[n] \in DOMAIN s
               /\ s[List(x, p)[n]].status = "in_progress" /\ s[List(x, p)[n]].amount > 0
               /\ p > 0 => s[List(x, p)[n]].tx = 0
               /\ p = 0 => s[List(x, p)[n]].tx = TxOf(x, s)
    BY <1>1, <1>4 DEF BatchFits
  <2>2. TxOf(x, s) \in DOMAIN t
    BY <1>1, <1>4 DEF BatchFits
  <2> QED
    BY <1>3, <2>1, <2>2 DEF BatchFits
<1>6. /\ DOMAIN t \subseteq DOMAIN u
      /\ \A k \in DOMAIN t : u[k] = t[k] \/ (Underway(w[b]) /\ k = TxOf(w[b], s))
      /\ Underway(w[b]) /\ TxOf(y, s) = TxOf(w[b], s)
      /\ Held(y) \subseteq Held(w[b])
  BY <1>3, <1>4 DEF x
<1>7. KeepsToItself(w, s, t, b, y, s, u)
  BY <1>3, <1>5, <1>6 DEF KeepsToItself
<1> QED
  BY <1>2, <1>3, <1>7, BatchMoves

\* A transfer is signed for the sends in hand.
LEMMA SignFits ==
  ASSUME NEW w, NEW s, NEW t, WorkFits(w, s, t), NEW b \in DOMAIN w, w[b].at = "building",
         FilesTyped(s, t), Paid(s, t),
         NEW u, u = Signed(s, t, ToSet(w[b].ids)), NEW r, r = Holding(s, t, ToSet(w[b].ids))
  PROVE  /\ FilesTyped(r, u) /\ Paid(r, u)
         /\ WorkFits([w EXCEPT ![b].at = "sending"], r, u)
         /\ DOMAIN r = DOMAIN s
<1> DEFINE x == w[b]
           H == ToSet(x.ids)
           y == [x EXCEPT !.at = "sending"]
           n == Len(t) + 1
<1>1. x \in BatchType /\ BatchFits(x, s, t) /\ OwnApart(x) /\ x.at = "building"
  BY BatchOf
<1>2. \A i \in H : /\ i \in DOMAIN s /\ s[i].tx = 0 /\ s[i].status = "in_progress" /\ s[i].amount > 0
                   /\ i \in Held(x)
  BY <1>1, InHandMarked
<1>3. /\ u = Signed(s, t, H) /\ r = Holding(s, t, H)
      /\ [w EXCEPT ![b].at = "sending"] = [w EXCEPT ![b] = y]
  OBVIOUS
<1>4. /\ Len(t) \in Nat /\ DOMAIN t = 1..Len(t) /\ \A i \in DOMAIN s : s[i] \in RecordType(Len(t))
  BY Typed
<1> HIDE DEF x, H
<1>5. /\ FilesTyped(r, u) /\ Paid(r, u) /\ Len(u) = n /\ u[n].fate = "signed"
      /\ \A k \in DOMAIN t : u[k] = t[k]
  <2>1. H \in SUBSET DOMAIN s
    BY <1>2
  <2> QED
    BY <1>2, <1>3, <2>1, SigningFits
<1>6. /\ y \in BatchType /\ y.at = "sending" /\ y.ids = x.ids
      /\ Lists(y) = Lists(x) /\ (\A p : List(y, p) = List(x, p))
      /\ Held(y) = Held(x) /\ OwnApart(y)
      /\ TxOf(y, r) = TxOf(x, r)
  BY <1>1, StageKeeps
<1> HIDE DEF y
<1>7. /\ \A i \in H : r[i].tx = n /\ r[i].status = s[i].status /\ r[i].amount = s[i].amount
      /\ \A i \in DOMAIN s : i \notin H => r[i] = s[i]
      /\ DOMAIN r = DOMAIN s
  <2>1. ASSUME NEW i \in H
        PROVE  r[i].tx = n /\ r[i].status = s[i].status /\ r[i].amount = s[i].amount
    <3>1. r[i] = [s[i] EXCEPT !.tx = n] /\ s[i] \in RecordType(Len(t))
      BY <1>2, <1>3, <1>4 DEF Holding
    <3> HIDE DEF n
    <3> QED
      BY <3>1 DEF RecordType
  <2> QED
    BY <1>3, <2>1 DEF Holding
<1>8. /\ 0 \in Lists(x) /\ List(x, 0) = x.ids /\ 1 \in DOMAIN x.ids
      /\ Lists(x) = 0..Len(x.later) /\ Len(x.later) \in Nat
  BY <1>1, InHandFirst
<1>9. \A m \in DOMAIN x.ids : x.ids[m] \in H
  BY DEF ToSet, H, x
<1>10. TxOf(y, r) = n
  BY <1>6, <1>7, <1>8, <1>9 DEF TxOf
<1>11. n \in DOMAIN u /\ n \notin DOMAIN t /\ DOMAIN t \subseteq DOMAIN u
  <2>1. DOMAIN u = 1..Len(u)
    BY <1>5, Typed
  <2> QED
    BY <1>4, <1>5, <2>1
<1>12. ASSUME NEW p \in Lists(x), NEW m \in DOMAIN List(x, p)
       PROVE  /\ List(x, p) # <<>> /\ List(x, p)[m] \in DOMAIN r
              /\ r[List(x, p)[m]].status = "in_progress" /\ r[List(x, p)[m]].amount > 0
              /\ p > 0 => r[List(x, p)[m]].tx = 0
              /\ p = 0 => r[List(x, p)[m]].tx = n
  <2>1. /\ List(x, p) # <<>> /\ List(x, p)[m] \in DOMAIN s
        /\ s[List(x, p)[m]].status = "in_progress" /\ s[List(x, p)[m]].amount > 0
        /\ s[List(x, p)[m]].tx = 0
    BY <1>1 DEF BatchFits
  <2>2. p = 0 => List(x, p)[m] \in H
    BY <1>8, <1>9
  <2>3. ASSUME p > 0 PROVE List(x, p)[m] \notin H
    <3> SUFFICES ASSUME NEW j \in DOMAIN x.ids, x.ids[j] = List(x, p)[m] PROVE FALSE
      BY DEF ToSet, H, x
    <3>1. j \in DOMAIN List(x, 0) /\ List(x, 0)[j] = List(x, p)[m]
      BY <1>8
    <3>2. p = 0
      BY <1>1, <1>8, <3>1 DEF OwnApart
    <3> QED
      BY <2>3, <3>2
  <2>4. p = 0 \/ p > 0
    BY <1>8
  <2> QED
    BY <1>7, <2>1, <2>2, <2>3, <2>4
<1>13. BatchFits(y, r, u)
  <2>1. \A p \in Lists(x) :
          /\ List(x, p) # <<>>
          /\ \A m \in DOMAIN List(x, p) :
               /\ List(x, p)[m] \in DOMAIN r
               /\ r[List(x, p)[m]].status = "in_progress" /\ r[List(x, p)[m]].amount > 0
               /\ p > 0 => r[List(x, p)[m]].tx = 0
               /\ p = 0 => r[List(x, p)[m]].tx = TxOf(y, r)
    <3>1. \A p \in Lists(x) : List(x, p) # <<>>
      BY <1>1 DEF BatchFits
    <3> HIDE DEF n
    <3> QED
      BY <1>10, <1>12, <3>1
  <2>2. TxOf(y, r) \in DOMAIN u /\ u[TxOf(y, r)].fate = "signed"
    BY <1>5, <1>10, <1>11
  <2> QED
    BY <1>6, <2>1, <2>2 DEF BatchFits
<1>14. /\ Held(y) \subseteq Held(w[b])
       /\ \A i \in DOMAIN s : i \notin Held(w[b]) => r[i] = s[i]
       /\ \A k \in DOMAIN t : u[k] = t[k] \/ (Underway(w[b]) /\ k = TxOf(w[b], s))
       /\ TxOf(y, r) \notin DOMAIN t
  <2>1. Held(w[b]) = Held(y)
    BY <1>6 DEF x
  <2> QED
    BY <1>2, <1>5, <1>6, <1>7, <1>10, <1>11, <2>1
<1>15. WorkFits([w EXCEPT ![b] = y], r, u)
  <2>1. KeepsToItself(w, s, t, b, y, r, u)
    BY <1>6, <1>7, <1>11, <1>13, <1>14 DEF KeepsToItself
  <2> QED
    BY <1>6, <2>1, BatchMoves
<1> QED
  BY <1>3, <1>5, <1>7, <1>15

-----------------------------------------------------------------------------
(* The frame of the visits, the fire and the amounts.                      *)

\* No batches fit any records.
LEMMA NoWork ==
  ASSUME NEW s, NEW t
  PROVE  WorkFits(<<>>, s, t)
<1>1. <<>> \in Seq(BatchType) /\ DOMAIN <<>> = {}
  BY EmptySeq
<1> QED
  BY <1>1 DEF WorkFits

\* A visit that is over leaves nothing of itself behind.
LEMMA OnwardLeaves ==
  ASSUME OtherTypes, NEW after, Onward(after)
  PROVE  /\ phase' \in {"rounds", "settle", "sweep", "done"}
         /\ pass' \in 1..Max({Rounds, Sweeps})
         /\ pc' = "waiting" /\ due' = {} /\ skip' = {} /\ work' = <<>>
<1>1. Max({Rounds, Sweeps}) \in {Rounds, Sweeps}
      /\ Max({Rounds, Sweeps}) >= Rounds /\ Max({Rounds, Sweeps}) >= Sweeps
  BY DeliveryAssumption, OfTwo
<1>2. Max({Rounds, Sweeps}) \in Nat /\ Rounds \in Nat \ {0} /\ Sweeps \in Nat \ {0}
  BY <1>1, DeliveryAssumption
<1>3. pass \in 1..Max({Rounds, Sweeps})
  BY DEF OtherTypes
<1>4. pc' = "waiting" /\ due' = {} /\ skip' = {} /\ work' = <<>>
  BY DEF Onward, ClearPass
<1>5. \/ phase' = "rounds" /\ pass' = pass + 1 /\ pass < Rounds
      \/ phase' = "settle" /\ pass' = 1
      \/ phase' = "sweep" /\ pass' = 1
      \/ phase' = "sweep" /\ pass' = pass + 1 /\ pass < Sweeps
      \/ phase' = "done" /\ pass' = 1
  BY DEF Onward
<1> QED
  BY <1>1, <1>2, <1>3, <1>4, <1>5

\* The wallets' commits, and what they burn, add up.
LEMMA Totals ==
  ASSUME NEW weights \in [Wallets -> Nat], Wallets # {}
  PROVE  /\ SumFunctionOnSet(weights, Wallets) \in Nat
         /\ TotalBet \in Nat \ {0} /\ Full \in Nat \ {0} /\ TotalBet * Full \in Nat \ {0}
<1>1. IsFiniteSet(Wallets) /\ Wallets \in SUBSET Wallets /\ Bet \in [Wallets -> Nat \ {0}]
      /\ Full \in Nat \ {0}
  BY SendAssumption
<1>2. SumFunctionOnSet(weights, Wallets) \in Nat
  BY <1>1, SumIsNat
<1>3. PICK w \in Wallets : TRUE
  OBVIOUS
<1>4. /\ SumFunctionOnSet(Bet, Wallets) = Bet[w] + SumFunctionOnSet(Bet, Wallets \ {w})
      /\ SumFunctionOnSet(Bet, Wallets \ {w}) \in Nat
  BY <1>1, SumOfRest
<1>5. TotalBet \in Nat \ {0}
  BY <1>1, <1>4 DEF TotalBet
<1>6. \A x, y \in Nat \ {0} : x * y \in Nat \ {0}
  OBVIOUS
<1> QED
  BY <1>1, <1>2, <1>5, <1>6

\* The weights a round starts with are within the commits.
LEMMA Weights ==
  ASSUME OtherTypes
  PROVE  /\ burn \in [Wallets -> Nat] /\ hadAta \in SUBSET Wallets
         /\ \A w \in Wallets : burn[w] <= Bet[w] * Full
<1> DEFINE start == [burn |-> burn, hadAta |-> hadAta]
<1>1. start \in Backings /\ start.burn = burn /\ start.hadAta = hadAta
  BY DEF OtherTypes
<1> HIDE DEF start
<1>2. start \in [burn : [Wallets -> Nat], hadAta : SUBSET Wallets]
      /\ \A w \in Wallets : start.burn[w] <= Bet[w] * Full
  BY <1>1, DeliveryAssumption
<1>3. start.burn \in [Wallets -> Nat] /\ start.hadAta \in SUBSET Wallets
  BY <1>2
<1> QED
  BY <1>1, <1>2, <1>3

\* Reading the purchases and burning keeps the counts what they are.
LEMMA FireTypes ==
  ASSUME OtherTypes, ReadAndBurn
  PROVE  read' \in 0..lots /\ burned' \in Nat /\ keeper' \in Nat
<1>1. lots \in Nat /\ read \in 0..lots /\ burned \in Nat /\ keeper \in Nat /\ Lot \in Nat
  BY DeliveryAssumption DEF OtherTypes
<1>2. CASE ~Exact
  BY <1>1, <1>2 DEF ReadAndBurn
<1>3. CASE Exact
  <2> DEFINE Owed(n) == Max({0, Min({BurnOwed(n * Lot, burn) - burned, keeper})})
  <2>1. PICK n \in read..lots : /\ read' = n
                                /\ \E d \in {0, Owed(n)} : burned' = burned + d /\ keeper' = keeper - d
    BY <1>3 DEF ReadAndBurn
  <2>2. n \in Nat /\ n \in 0..lots /\ n * Lot \in Nat
    BY <1>1
  <2>3. BurnOwed(n * Lot, burn) \in Nat
    <3>1. Wallets # {}
      BY <1>3 DEF Exact
    <3>2. SumFunctionOnSet(burn, Wallets) \in Nat /\ TotalBet * Full \in Nat \ {0}
      BY <3>1, Weights, Totals
    <3>3. (n * Lot) * SumFunctionOnSet(burn, Wallets) \in Nat
      BY <2>2, <3>2
    <3>4. ((n * Lot) * SumFunctionOnSet(burn, Wallets)) \div (TotalBet * Full) \in Nat
      BY <3>2, <3>3, RoundsDown
    <3> QED
      BY <3>4 DEF BurnOwed
  <2> DEFINE x == BurnOwed(n * Lot, burn) - burned
             y == Min({x, keeper})
  <2>4. x \in Int
    BY <1>1, <2>3
  <2> HIDE DEF x
  <2>5. y \in Int /\ y <= keeper
    <3>1. x \in Int /\ keeper \in Int
      BY <1>1, <2>4
    <3>2. Min({x, keeper}) \in {x, keeper} /\ Min({x, keeper}) <= keeper
      BY <3>1, OfTwo
    <3> QED
      BY <3>1, <3>2
  <2> HIDE DEF y
  <2>6. Max({0, y}) \in {0, y} /\ Max({0, y}) \in Nat
    BY <2>5, OfTwoNats
  <2>7. Owed(n) \in Nat /\ Owed(n) <= keeper
    <3>1. Owed(n) = Max({0, y})
      BY DEF x, y
    <3> QED
      BY <1>1, <2>5, <2>6, <3>1
  <2> HIDE DEF Owed
  <2> QED
    BY <1>1, <2>1, <2>2, <2>7
<1> QED
  BY <1>2, <1>3

\* What the records say arrived, the pot and what a wallet is to have of it.
LEMMA AmountTypes ==
  ASSUME OtherTypes, FilesTyped(sends, txs)
  PROVE  /\ Sent \in [Wallets -> Nat] /\ AllSent \in Nat
         /\ \A balance \in Nat : Pot(balance) \in Nat
         /\ \A pot \in Nat, w \in Wallets : Target(pot, w) \in Nat
<1>1. /\ Ids = 1..Len(sends) /\ Len(sends) \in Nat /\ \A i \in Ids : sends[i].amount \in Nat
  BY Typed DEF Ids
<1>2. IsFiniteSet(Ids)
  BY <1>1, FS_Interval
<1>3. Sent \in [Wallets -> Nat]
  <2> DEFINE f == [i \in Ids |-> sends[i].amount]
             of(w) == {i \in With("completed") : sends[i].wallet = w}
  <2>1. \A i \in Ids : f[i] \in Nat
    BY <1>1
  <2>2. \A w : of(w) \in SUBSET Ids
    BY DEF With
  <2>3. Sent = [w \in Wallets |-> SumFunctionOnSet(f, of(w))]
    BY DEF Sent
  <2> HIDE DEF f, of
  <2>4. \A w : SumFunctionOnSet(f, of(w)) \in Nat
    BY <1>2, <2>1, <2>2, SumIsNat
  <2> QED
    BY <2>3, <2>4
<1>4. AllSent \in Nat
  <2>1. DOMAIN Sent = Wallets /\ \A w \in Wallets : Sent[w] \in Nat
    BY <1>3
  <2>2. IsFiniteSet(Wallets) /\ Wallets \in SUBSET Wallets
    BY SendAssumption
  <2>3. SumFunctionOnSet(Sent, Wallets) \in Nat
    BY <2>1, <2>2, SumIsNat
  <2> QED
    BY <2>1, <2>3 DEF AllSent, SumFunction
<1>5. \A balance \in Nat : Pot(balance) \in Nat
  <2>1. \A x, y \in Nat : x * y \in Nat /\ x + y \in Nat
    OBVIOUS
  <2>2. lots \in Nat /\ read \in 0..lots /\ Lot \in Nat
    BY DeliveryAssumption DEF OtherTypes
  <2>3. read \in Nat
    BY <2>2
  <2> QED
    BY <1>4, <2>1, <2>2, <2>3 DEF Pot
<1>6. ASSUME NEW pot \in Nat, NEW w \in Wallets PROVE Target(pot, w) \in Nat
  <2>1. burn \in [Wallets -> Nat] /\ burn[w] <= Bet[w] * Full /\ Wallets # {}
    BY Weights
  <2>2. TotalBet * Full \in Nat \ {0} /\ Full \in Nat \ {0} /\ Bet[w] \in Nat
    BY <2>1, Totals, SendAssumption
  <2>3. Bet[w] * Full - burn[w] \in Nat
    <3>1. Bet[w] * Full \in Nat /\ burn[w] \in Nat
      BY <2>1, <2>2
    <3> QED
      BY <2>1, <3>1
  <2>4. pot * (Bet[w] * Full - burn[w]) \in Nat
    BY <2>3
  <2>5. (pot * (Bet[w] * Full - burn[w])) \div (TotalBet * Full) \in Nat
    BY <2>2, <2>4, RoundsDown
  <2> QED
    BY <2>5 DEF Target, DeliveryOwed
<1> QED
  BY <1>3, <1>4, <1>5, <1>6

-----------------------------------------------------------------------------
(* The steps.                                                              *)

\* A purchase changes nothing but the keeper's account.
LEMMA BuyKeeps ==
  ASSUME IInv, Buy
  PROVE  IInv'
<1>1. lots \in Nat /\ keeper \in Nat /\ Lot \in Nat /\ read \in 0..lots
  BY DeliveryAssumption DEF IInv, OtherTypes
<1>2. lots' = lots + 1 /\ keeper' = keeper + Lot /\ UNCHANGED <<read, burned>>
  BY DEF Buy
<1>3. lots' \in Nat /\ keeper' \in Nat /\ read' \in 0..lots'
  BY <1>1, <1>2
<1>4. UNCHANGED <<burn, hadAta, burned, got, sends, txs, phase, pass, pc, due, skip, work, crashes,
                  broke, ignored, settledPot, leftQueued, sharedShort>>
  BY DEF Buy, startVars, passVars, histVars
<1>5. FilesTyped(sends', txs') /\ Paid(sends', txs') /\ WorkFits(work', sends', txs')
  BY <1>4 DEF IInv
<1>6. OtherTypes'
  BY <1>3, <1>4 DEF IInv, OtherTypes, Ids
<1>7. VisitFits'
  BY <1>4 DEF IInv, VisitFits
<1> QED
  BY <1>5, <1>6, <1>7 DEF IInv

\* A transfer lands or can no longer land.
LEMMA DecideKeeps ==
  ASSUME IInv, NEW k \in DOMAIN txs, NEW fate, Decide(k, fate)
  PROVE  IInv'
<1>1. FilesTyped(sends, txs) /\ Paid(sends, txs) /\ WorkFits(work, sends, txs) /\ OtherTypes
  BY DEF IInv
<1>2. UNCHANGED <<burn, hadAta, lots, read, burned, sends, phase, pass, pc, due, skip, work, crashes,
                  broke, ignored, settledPot, leftQueued, sharedShort>>
  BY DEF Decide, startVars, passVars, histVars
<1>3. \/ /\ fate = "landed" /\ txs[k].fate = "flying" /\ Pays(k) <= keeper
         /\ keeper' = keeper - Pays(k)
         /\ got' = [w \in Wallets |-> got[w] +
              SumFunctionOnSet(txs[k].pays, {i \in DOMAIN txs[k].pays : sends[i].wallet = w})]
      \/ /\ fate = "void" /\ txs[k].fate \in {"signed", "flying"} /\ ~BeingSent(k)
         /\ keeper' = keeper /\ got' = got
  BY DEF Decide
<1>4. txs' = [txs EXCEPT ![k].fate = fate]
  BY DEF Decide
<1>5. /\ FilesTyped(sends, txs') /\ Paid(sends, txs') /\ DOMAIN txs' = DOMAIN txs
      /\ \A l \in DOMAIN txs : l # k => txs'[l] = txs[l]
  <2>1. txs[k].fate \in {"signed", "flying"} /\ fate \in {"flying", "landed", "void"}
    BY <1>3
  <2>2. txs' = Fated(txs, k, fate)
    BY <1>4 DEF Fated
  <2> QED
    BY <1>1, <2>1, <2>2, FateMoves
<1>6. WorkFits(work, sends, txs')
  <2>1. ASSUME NEW b \in DOMAIN work, work[b].at = "sending"
        PROVE  TxOf(work[b], sends) # k /\ TxOf(work[b], sends) \in DOMAIN txs
    <3>1. BatchFits(work[b], sends, txs)
      BY <1>1, BatchOf
    <3>2. txs[TxOf(work[b], sends)].fate = "signed" /\ TxOf(work[b], sends) \in DOMAIN txs
      BY <2>1, <3>1 DEF BatchFits, Underway
    <3>3. BeingSent(TxOf(work[b], sends))
      BY <2>1 DEF BeingSent, TxOf
    <3> QED
      BY <1>3, <3>2, <3>3
  <2>2. \A b \in DOMAIN work : work[b].at = "sending" =>
          txs'[TxOf(work[b], sends)] = txs[TxOf(work[b], sends)]
    BY <1>5, <2>1
  <2> QED
    BY <1>1, <1>5, <2>2, OthersDecided
<1>7. \A T \in SUBSET DOMAIN txs[k].pays : SumFunctionOnSet(txs[k].pays, T) \in Nat
  <2>1. /\ txs[k].pays \in [DOMAIN txs[k].pays -> Positive] /\ DOMAIN txs[k].pays \subseteq DOMAIN sends
        /\ DOMAIN sends = 1..Len(sends) /\ Len(sends) \in Nat
    BY <1>1, Typed
  <2>2. IsFiniteSet(DOMAIN txs[k].pays)
    <3>1. IsFiniteSet(DOMAIN sends)
      BY <2>1, FS_Interval
    <3> QED
      BY <2>1, <3>1, FS_Subset
  <2>3. \A i \in DOMAIN txs[k].pays : txs[k].pays[i] \in Nat
    BY <2>1 DEF Positive
  <2> DEFINE f == txs[k].pays
             S == DOMAIN f
  <2> HIDE DEF S
  <2>4. \A T \in SUBSET S : SumFunctionOnSet(f, T) \in Nat
    <3>1. IsFiniteSet(S) /\ \A i \in S : f[i] \in Nat
      BY <2>2, <2>3 DEF S
    <3> HIDE DEF f
    <3> QED
      BY <3>1, SumIsNat
  <2> QED
    BY <2>4 DEF S
<1>8. keeper' \in Nat /\ got' \in [Wallets -> Nat]
  <2>1. keeper \in Nat /\ got \in [Wallets -> Nat]
    BY <1>1 DEF OtherTypes
  <2>2. Pays(k) \in Nat
    BY <1>7 DEF Pays, SumFunction
  <2>3. CASE keeper' = keeper /\ got' = got
    BY <2>1, <2>3
  <2>4. CASE /\ keeper' = keeper - Pays(k) /\ Pays(k) <= keeper
             /\ got' = [w \in Wallets |-> got[w] +
                  SumFunctionOnSet(txs[k].pays, {i \in DOMAIN txs[k].pays : sends[i].wallet = w})]
    <3> DEFINE Gets(w) == SumFunctionOnSet(txs[k].pays, {i \in DOMAIN txs[k].pays : sends[i].wallet = w})
    <3>1. \A w : Gets(w) \in Nat
      BY <1>7
    <3>2. got' = [w \in Wallets |-> got[w] + Gets(w)]
      BY <2>4
    <3> HIDE DEF Gets
    <3>3. \A w \in Wallets : got[w] + Gets(w) \in Nat
      BY <2>1, <3>1
    <3> QED
      BY <2>1, <2>2, <2>4, <3>2, <3>3
  <2> QED
    BY <1>3, <2>3, <2>4
<1>9. OtherTypes'
  BY <1>1, <1>2, <1>8 DEF OtherTypes, Ids
<1>10. VisitFits'
  BY <1>2 DEF IInv, VisitFits
<1>11. FilesTyped(sends', txs') /\ Paid(sends', txs') /\ WorkFits(work', sends', txs')
  BY <1>2, <1>5, <1>6
<1> QED
  BY <1>9, <1>10, <1>11 DEF IInv

\* The visit begins, or is over at once.
LEMMA StartVisitKeeps ==
  ASSUME IInv, StartVisit
  PROVE  IInv'
<1>1. FilesTyped(sends, txs) /\ Paid(sends, txs) /\ WorkFits(work, sends, txs) /\ OtherTypes
      /\ pc = "waiting" /\ work = <<>>
  BY DEF IInv, VisitFits, StartVisit
<1>2. UNCHANGED <<burn, hadAta, lots, got, sends, txs, crashes,
                  broke, ignored, settledPot, leftQueued, sharedShort>>
  BY DEF StartVisit, startVars, histVars
<1>3. read' \in 0..lots /\ burned' \in Nat /\ keeper' \in Nat
  BY <1>1, FireTypes DEF StartVisit
<1>4. /\ due' \subseteq Ids /\ skip' \subseteq Ids /\ work' = <<>> /\ pc' \in {"waiting", "checking"}
      /\ phase' \in {"rounds", "settle", "sweep", "done"} /\ pass' \in 1..Max({Rounds, Sweeps})
  <2>1. CASE /\ due' = DueNow /\ pc' = "checking" /\ UNCHANGED <<phase, pass, skip, work>>
    BY <1>1, <2>1 DEF OtherTypes, DueNow, With
  <2>2. CASE Onward(sends)
    BY <1>1, <2>2, OnwardLeaves
  <2> QED
    BY <2>1, <2>2 DEF StartVisit
<1>5. OtherTypes'
  BY <1>1, <1>2, <1>3, <1>4 DEF OtherTypes, Ids
<1>6. VisitFits'
  BY <1>4 DEF VisitFits
<1>7. FilesTyped(sends', txs') /\ Paid(sends', txs') /\ WorkFits(work', sends', txs')
  BY <1>1, <1>2, <1>4
<1> QED
  BY <1>5, <1>6, <1>7 DEF IInv

\* Records of which each stays or moves as a record may.
LEMMA FileMoves ==
  ASSUME NEW s, NEW t, FilesTyped(s, t), Paid(s, t), NEW r, r = [i \in DOMAIN s |-> r[i]],
         \A i \in DOMAIN s : \/ r[i] = s[i]
                             \/ r[i] \in RecordType(Len(t)) /\ RecordMoves(s[i], r[i], t)
  PROVE  FilesTyped(r, t) /\ Paid(r, t) /\ DOMAIN r = DOMAIN s
<1>1. /\ DOMAIN s = 1..Len(s) /\ Len(s) \in Nat /\ \A i \in DOMAIN s : s[i] \in RecordType(Len(t))
  BY Typed
<1>2. \A i \in DOMAIN s : r[i] \in RecordType(Len(t))
  BY <1>1
<1>3. r \in [1..Len(s) -> RecordType(Len(t))]
  BY <1>1, <1>2
<1>4. r \in Seq(RecordType(Len(t)))
  BY <1>1, <1>3, SeqDef
<1>5. DOMAIN r = 1..Len(r) /\ Len(r) \in Nat /\ DOMAIN r = DOMAIN s
  BY <1>1, <1>3, <1>4, LenProperties
<1>6. Len(r) = Len(s)
  BY <1>1, <1>5
<1>7. ASSUME NEW i \in DOMAIN s PROVE RecordMoves(s[i], r[i], t)
  <2>1. s[i].status \in {"pending", "in_progress"} => s[i].attempts < MaxAttempts
    BY DEF Paid, RecordsFit
  <2>2. RecordMoves(s[i], s[i], t)
    BY <2>1 DEF RecordMoves
  <2> QED
    BY <2>2
<1> QED
  BY <1>4, <1>5, <1>6, <1>7, RecordsMove

\* A record whose transfer has landed may be closed.
LEMMA Closing ==
  ASSUME NEW n \in Nat, NEW x \in RecordType(n), NEW t, x.tx # 0, t[x.tx].fate = "landed"
  PROVE  Close(x) \in RecordType(n) /\ RecordMoves(x, Close(x), t)
<1>1. Close(x) = [x EXCEPT !.status = "completed", !.tx = 0]
  BY DEF Close
<1>2. Close(x) \in RecordType(n)
  <2>1. 0 \in 0..n
    OBVIOUS
  <2> QED
    BY <1>1, <2>1 DEF RecordType, Statuses
<1>3. Close(x).status = "completed" /\ Close(x).tx = 0 /\ Close(x).amount = x.amount
  BY <1>1 DEF RecordType
<1> QED
  BY <1>2, <1>3 DEF RecordMoves

\* One pending send's signature is asked about.
LEMMA CheckPendingSendKeeps ==
  ASSUME IInv, NEW i \in Ids, NEW verdict \in AnyVerdict, CheckPendingSend(i, verdict)
  PROVE  IInv'
<1>1. FilesTyped(sends, txs) /\ Paid(sends, txs) /\ WorkFits(work, sends, txs) /\ OtherTypes
      /\ pc = "checking" /\ work = <<>>
  BY DEF IInv, VisitFits, CheckPendingSend
<1>2. UNCHANGED <<burn, hadAta, lots, read, burned, keeper, got, txs, phase, pass, pc, due, work,
                  crashes, broke, ignored, settledPot, leftQueued, sharedShort>>
  BY DEF CheckPendingSend, startVars, chainVars, histVars
<1>3. /\ i \in DOMAIN sends /\ sends[i].tx # 0 /\ i \in Ids
      /\ verdict \in Verdicts(txs[sends[i].tx].fate)
  BY DEF CheckPendingSend, Unasked, Ids
<1>4. /\ sends[i] \in RecordType(Len(txs)) /\ Len(txs) \in Nat /\ sends[i].tx \in DOMAIN txs
      /\ DOMAIN sends = 1..Len(sends)
      /\ sends[i].status \in {"pending", "in_progress"} => sends[i].attempts < MaxAttempts
      /\ sends[i].status # "completed"
  <2>1. /\ sends[i].status \in {"pending", "in_progress"} => sends[i].attempts < MaxAttempts
        /\ sends[i].status # "completed"
    BY <1>1, <1>3 DEF Paid, RecordsFit
  <2> QED
    BY <1>1, <1>3, <2>1, Typed
<1>5. verdict = "landed" => txs[sends[i].tx].fate = "landed"
  BY <1>3 DEF Verdicts
<1>6. verdict = "nothing" => txs[sends[i].tx].fate = "void"
  BY <1>3 DEF Verdicts
<1>7. /\ FilesTyped(sends', txs) /\ Paid(sends', txs) /\ DOMAIN sends' = DOMAIN sends
      /\ skip' \subseteq Ids
  <2>1. CASE verdict = "landed"
    <3>1. sends' = [sends EXCEPT ![i] = Close(@)] /\ skip' = skip
      BY <2>1 DEF CheckPendingSend
    <3>2. sends' = [j \in DOMAIN sends |-> sends'[j]]
          /\ \A j \in DOMAIN sends : sends'[j] = IF j = i THEN Close(sends[i]) ELSE sends[j]
      BY <1>3, <3>1
    <3>3. Close(sends[i]) \in RecordType(Len(txs)) /\ RecordMoves(sends[i], Close(sends[i]), txs)
      BY <1>3, <1>4, <1>5, <2>1, Closing
    <3>4. \A j \in DOMAIN sends :
            \/ sends'[j] = sends[j]
            \/ sends'[j] \in RecordType(Len(txs)) /\ RecordMoves(sends[j], sends'[j], txs)
      BY <3>2, <3>3
    <3>5. FilesTyped(sends', txs) /\ Paid(sends', txs) /\ DOMAIN sends' = DOMAIN sends
      BY <1>1, <3>2, <3>4, FileMoves
    <3> QED
      BY <1>1, <3>1, <3>5 DEF OtherTypes
  <2>2. CASE verdict = "unknown"
    <3>1. sends' = sends /\ skip' = skip \cup {i}
      BY <2>2 DEF CheckPendingSend
    <3> QED
      BY <1>1, <3>1 DEF OtherTypes
  <2>3. CASE verdict = "nothing"
    <3> DEFINE y == [sends[i] EXCEPT !.tx = 0]
    <3>1. sends' = [sends EXCEPT ![i].tx = 0] /\ skip' = skip
      BY <2>3 DEF CheckPendingSend
    <3>2. sends' = [j \in DOMAIN sends |-> sends'[j]]
          /\ \A j \in DOMAIN sends : sends'[j] = IF j = i THEN y ELSE sends[j]
      BY <1>3, <3>1
    <3>3. y \in RecordType(Len(txs))
      <4>1. 0 \in 0..Len(txs)
        BY <1>4
      <4> QED
        BY <1>4, <4>1 DEF RecordType
    <3>4. y.status = sends[i].status /\ y.tx = 0 /\ y.attempts = sends[i].attempts
      BY <1>4 DEF RecordType
    <3> HIDE DEF y
    <3>5. RecordMoves(sends[i], y, txs)
      BY <1>3, <1>4, <1>6, <2>3, <3>4 DEF RecordMoves
    <3>6. \A j \in DOMAIN sends :
            \/ sends'[j] = sends[j]
            \/ sends'[j] \in RecordType(Len(txs)) /\ RecordMoves(sends[j], sends'[j], txs)
      BY <3>2, <3>3, <3>5
    <3>7. FilesTyped(sends', txs) /\ Paid(sends', txs) /\ DOMAIN sends' = DOMAIN sends
      BY <1>1, <3>2, <3>6, FileMoves
    <3> QED
      BY <1>1, <3>1, <3>7 DEF OtherTypes
  <2> QED
    BY <2>1, <2>2, <2>3 DEF AnyVerdict
<1>8. OtherTypes'
  BY <1>1, <1>2, <1>7 DEF OtherTypes, Ids
<1>9. VisitFits' /\ work' = <<>>
  BY <1>1, <1>2 DEF VisitFits
<1>10. FilesTyped(sends', txs') /\ Paid(sends', txs') /\ WorkFits(work', sends', txs')
  BY <1>2, <1>7, <1>9, NoWork
<1> QED
  BY <1>8, <1>9, <1>10 DEF IInv

\* The rules for missing accounts mark sends, and leave none with a signature.
LEMMA CheckAtasKeeps ==
  ASSUME IInv, NEW missing, CheckAtas(missing)
  PROVE  IInv'
<1> DEFINE gone     == {i \in Sure : sends[i].wallet \in missing}
           blocked  == {i \in gone : Bet[sends[i].wallet] < 5}
           deferred == {i \in gone : Bet[sends[i].wallet] >= 10 /\ phase = "rounds" /\ pass < Rounds}
<1>1. FilesTyped(sends, txs) /\ Paid(sends, txs) /\ WorkFits(work, sends, txs) /\ OtherTypes
      /\ pc = "checking" /\ work = <<>>
  BY DEF IInv, VisitFits, CheckAtas
<1>2. UNCHANGED <<burn, hadAta, lots, read, burned, keeper, got, txs, phase, pass, skip, work,
                  crashes, broke, ignored, settledPot, leftQueued, sharedShort>>
  BY DEF CheckAtas, startVars, chainVars, histVars
<1>3. /\ sends' = [i \in Ids |-> IF i \in blocked THEN [sends[i] EXCEPT !.status = "ata_mismatch"]
                                 ELSE sends[i]]
      /\ due' = Sure \ (blocked \cup deferred) /\ pc' = "sharing" /\ Unasked = {}
  BY DEF CheckAtas
<1>4. blocked \subseteq Sure
  OBVIOUS
<1> HIDE DEF blocked, deferred, gone
<1>5. \A i \in Sure : i \in DOMAIN sends /\ i \in due /\ sends[i].tx = 0
  <2> SUFFICES ASSUME NEW i \in Sure PROVE i \in DOMAIN sends /\ i \in due /\ sends[i].tx = 0
    OBVIOUS
  <2>1. i \in due /\ i \notin skip
    BY DEF Sure
  <2>2. due \subseteq Ids
    BY <1>1 DEF OtherTypes
  <2> QED
    BY <1>3, <2>1, <2>2 DEF Unasked, Ids
<1>6. ASSUME NEW i \in blocked
      PROVE  LET y == [sends[i] EXCEPT !.status = "ata_mismatch"] IN
             y \in RecordType(Len(txs)) /\ RecordMoves(sends[i], y, txs) /\ y.tx = 0
  <2> DEFINE x == sends[i]
             y == [x EXCEPT !.status = "ata_mismatch"]
  <2>1. x \in RecordType(Len(txs)) /\ x.tx = 0
    BY <1>1, <1>4, <1>5, Typed
  <2> HIDE DEF x
  <2>2. y \in RecordType(Len(txs))
    BY <2>1 DEF RecordType, Statuses
  <2>3. y.status = "ata_mismatch" /\ y.tx = 0
    BY <2>1 DEF RecordType
  <2> HIDE DEF y
  <2>4. RecordMoves(x, y, txs)
    BY <2>1, <2>3 DEF RecordMoves
  <2> QED
    BY <2>2, <2>3, <2>4 DEF x, y
<1>7. /\ sends' = [i \in DOMAIN sends |-> sends'[i]]
      /\ \A i \in DOMAIN sends : sends'[i] = IF i \in blocked THEN [sends[i] EXCEPT !.status = "ata_mismatch"]
                                             ELSE sends[i]
  BY <1>3 DEF Ids
<1>8. FilesTyped(sends', txs) /\ Paid(sends', txs) /\ DOMAIN sends' = DOMAIN sends
  <2>1. \A i \in DOMAIN sends :
          \/ sends'[i] = sends[i]
          \/ sends'[i] \in RecordType(Len(txs)) /\ RecordMoves(sends[i], sends'[i], txs)
    BY <1>6, <1>7
  <2> QED
    BY <1>1, <1>7, <2>1, FileMoves
<1>9. \A i \in due' : i \in DOMAIN sends /\ sends'[i].tx = 0
  BY <1>3, <1>5, <1>6, <1>7
<1>10. OtherTypes'
  BY <1>1, <1>2, <1>3, <1>8, <1>9 DEF OtherTypes, Ids
<1>11. VisitFits' /\ work' = <<>>
  BY <1>1, <1>2, <1>3, <1>9 DEF VisitFits
<1>12. FilesTyped(sends', txs') /\ Paid(sends', txs') /\ WorkFits(work', sends', txs')
  BY <1>2, <1>8, <1>11, NoWork
<1> QED
  BY <1>10, <1>11, <1>12 DEF IInv

\* An account that cannot be read ends the phase.
LEMMA AtaUnreadableKeeps ==
  ASSUME IInv, AtaUnreadable
  PROVE  IInv'
<1>1. FilesTyped(sends, txs) /\ Paid(sends, txs) /\ OtherTypes
  BY DEF IInv
<1>2. /\ UNCHANGED <<burn, hadAta, lots, read, burned, keeper, got, sends, txs,
                     crashes, ignored, settledPot, leftQueued, sharedShort>>
      /\ phase' = "done" /\ pass' = 1 /\ pc' = "waiting" /\ broke' = TRUE
      /\ due' = {} /\ skip' = {} /\ work' = <<>>
  BY DEF AtaUnreadable, startVars, chainVars, ClearPass
<1>3. 1 \in 1..Max({Rounds, Sweeps})
  BY DeliveryAssumption, OfTwo
<1>4. OtherTypes'
  BY <1>1, <1>2, <1>3 DEF OtherTypes, Ids
<1>5. VisitFits'
  BY <1>2 DEF VisitFits
<1>6. FilesTyped(sends', txs') /\ Paid(sends', txs') /\ WorkFits(work', sends', txs')
  BY <1>1, <1>2, NoWork
<1> QED
  BY <1>4, <1>5, <1>6 DEF IInv

\* The amounts are shared out among sends without a signature, and the batches
\* are cut from those that have something to carry.
LEMMA ShareOutKeeps ==
  ASSUME IInv, NEW balance \in {0, keeper}, ShareOut(balance)
  PROVE  IInv'
<1> DEFINE open   == {i \in due : sends[i].status = "pending"}
           pot    == Pot(balance)
           target == [w \in Wallets |-> Target(pot, w)]
           amount == DeficitAmounts(sends, open, balance, Sent, target)
           filled == {i \in open : amount[i] = 0}
           order  == InOrder(open \ filled)
           after  == [i \in Ids |->
                        IF i \in filled THEN [sends[i] EXCEPT !.status = "satisfied"]
                        ELSE IF i \in open
                        THEN [sends[i] EXCEPT !.status = "in_progress", !.amount = amount[i]]
                        ELSE sends[i]]
<1>1. FilesTyped(sends, txs) /\ Paid(sends, txs) /\ WorkFits(work, sends, txs) /\ OtherTypes
      /\ pc = "sharing" /\ work = <<>>
  BY DEF IInv, VisitFits, ShareOut
<1>2. UNCHANGED <<burn, hadAta, lots, read, burned, keeper, got, txs,
                  crashes, broke, settledPot, leftQueued>>
  BY DEF ShareOut, startVars, chainVars
<1>3. /\ due \subseteq Ids /\ Ids = DOMAIN sends /\ DOMAIN sends = 1..Len(sends) /\ Len(sends) \in Nat
      /\ keeper \in Nat /\ balance \in Nat /\ ignored \subseteq Ids /\ sharedShort \in BOOLEAN
      /\ Len(txs) \in Nat
  BY <1>1, Typed DEF OtherTypes, Ids
<1>4. open \in SUBSET Nat /\ open \subseteq DOMAIN sends /\ IsFiniteSet(open)
  <2>1. open \subseteq DOMAIN sends /\ DOMAIN sends \subseteq Nat
    BY <1>3
  <2>2. IsFiniteSet(DOMAIN sends)
    BY <1>3, FS_Interval
  <2> HIDE DEF open
  <2> QED
    BY <2>1, <2>2, FS_Subset
<1>5. amount \in [open -> Nat]
  <2>1. \A i \in open : sends[i].wallet \in Wallets
    BY <1>1, <1>4, Typed
  <2>2. pot \in Nat
    BY <1>1, <1>3, AmountTypes
  <2>3. target \in [Wallets -> Int]
    <3> HIDE DEF pot
    <3> QED
      BY <1>1, <2>2, AmountTypes
  <2>4. Sent \in [Wallets -> Nat]
    BY <1>1, AmountTypes
  <2> HIDE DEF open, pot, target
  <2> QED
    BY <1>3, <1>4, <2>1, <2>3, <2>4, AmountsAreNat
<1>6. CASE balance <= 0
  <2>1. Onward(sends) /\ UNCHANGED <<sends, ignored, sharedShort>>
    BY <1>6 DEF ShareOut
  <2>2. /\ due' = {} /\ skip' = {} /\ work' = <<>> /\ pc' = "waiting"
        /\ phase' \in {"rounds", "settle", "sweep", "done"} /\ pass' \in 1..Max({Rounds, Sweeps})
    BY <1>1, <2>1, OnwardLeaves
  <2>3. OtherTypes'
    BY <1>1, <1>2, <2>1, <2>2 DEF OtherTypes, Ids
  <2>4. VisitFits'
    BY <2>2 DEF VisitFits
  <2>5. FilesTyped(sends', txs') /\ Paid(sends', txs') /\ WorkFits(work', sends', txs')
    BY <1>1, <1>2, <2>1, <2>2, NoWork
  <2> QED
    BY <2>3, <2>4, <2>5 DEF IInv
<1>7. CASE ~(balance <= 0)
  <2>1. /\ sends' = after
        /\ ignored' = ignored \cup {j \in Overlooked :
                                    \E i \in open \ filled : sends[i].wallet = sends[j].wallet}
        /\ sharedShort' = (sharedShort \/ (~Exact /\ pot < lots * Lot))
        /\ \/ Onward(after)
           \/ /\ pc' = "sending"
              /\ work' = [b \in 1..((Len(order) + BatchSize - 1) \div BatchSize) |->
                            Batch(SubSeq(order, (b - 1) * BatchSize + 1,
                                         Min({b * BatchSize, Len(order)})))]
              /\ due' = {} /\ skip' = {}
              /\ UNCHANGED <<phase, pass>>
    BY <1>7 DEF ShareOut
  <2>2. work' = Batches(order) \/ Onward(after)
    BY <2>1 DEF Batches
  <2> HIDE DEF amount, pot, target
  <2>3. \A i \in open : sends[i].status = "pending" /\ sends[i].tx = 0 /\ i \in DOMAIN sends
    BY <1>1, <1>4 DEF IInv, VisitFits
  <2>4. filled \subseteq open /\ \A i \in open \ filled : amount[i] \in Nat /\ amount[i] > 0
    BY <1>5
  <2>5. /\ after = [i \in DOMAIN sends |-> after[i]]
        /\ \A i \in DOMAIN sends :
             after[i] = IF i \in filled THEN [sends[i] EXCEPT !.status = "satisfied"]
                        ELSE IF i \in open
                        THEN [sends[i] EXCEPT !.status = "in_progress", !.amount = amount[i]]
                        ELSE sends[i]
    BY <1>3
  <2> HIDE DEF open, filled, after
  <2>6. ASSUME NEW i \in open
        PROVE  /\ after[i] \in RecordType(Len(txs)) /\ RecordMoves(sends[i], after[i], txs)
               /\ i \notin filled => /\ after[i].status = "in_progress" /\ after[i].amount > 0
                                     /\ after[i].tx = 0
    <3> DEFINE x == sends[i]
               y == [x EXCEPT !.status = "satisfied"]
               z == [x EXCEPT !.status = "in_progress", !.amount = amount[i]]
    <3>1. /\ x \in RecordType(Len(txs)) /\ x.status = "pending" /\ x.tx = 0
          /\ x.attempts < MaxAttempts
      <4>1. x \in RecordType(Len(txs)) /\ x.status = "pending" /\ x.tx = 0
        BY <1>1, <2>3, Typed
      <4> QED
        BY <1>1, <2>3, <4>1 DEF Paid, RecordsFit
    <3>2. after[i] = IF i \in filled THEN y ELSE z
      BY <2>3, <2>5
    <3> HIDE DEF x
    <3>3. CASE i \in filled
      <4>1. y \in RecordType(Len(txs))
        BY <3>1 DEF RecordType, Statuses
      <4>2. y.status = "satisfied" /\ y.tx = x.tx /\ y.amount = x.amount
        BY <3>1 DEF RecordType
      <4> HIDE DEF y
      <4>3. RecordMoves(x, y, txs)
        BY <3>1, <4>2 DEF RecordMoves
      <4> QED
        BY <3>2, <3>3, <4>1, <4>3 DEF x
    <3>4. CASE i \notin filled
      <4>1. amount[i] \in Nat /\ amount[i] > 0
        BY <2>4, <3>4
      <4>2. z \in RecordType(Len(txs))
        BY <3>1, <4>1 DEF RecordType, Statuses
      <4>3. z.status = "in_progress" /\ z.tx = x.tx /\ z.amount = amount[i] /\ z.attempts = x.attempts
        BY <3>1 DEF RecordType
      <4> HIDE DEF z
      <4>4. RecordMoves(x, z, txs)
        BY <3>1, <4>3 DEF RecordMoves
      <4> QED
        BY <3>1, <3>2, <3>4, <4>1, <4>2, <4>3, <4>4 DEF x
    <3> QED
      BY <3>3, <3>4
  <2>7. FilesTyped(after, txs) /\ Paid(after, txs) /\ DOMAIN after = DOMAIN sends
    <3>1. \A i \in DOMAIN sends :
            \/ after[i] = sends[i]
            \/ after[i] \in RecordType(Len(txs)) /\ RecordMoves(sends[i], after[i], txs)
      BY <2>4, <2>5, <2>6
    <3> QED
      BY <1>1, <2>5, <3>1, FileMoves
  <2>8. WorkFits(Batches(order), after, txs)
    <3> DEFINE S == open \ filled
    <3>1. S \in SUBSET Nat /\ IsFiniteSet(S) /\ S \subseteq open
      <4>1. S \in SUBSET open
        OBVIOUS
      <4> HIDE DEF S
      <4> QED
        BY <1>4, <4>1, FS_Subset
    <3>2. \A i \in S : /\ i \in DOMAIN after /\ after[i].status = "in_progress"
                       /\ after[i].amount > 0 /\ after[i].tx = 0
      BY <2>3, <2>6, <2>7
    <3> HIDE DEF S
    <3>3. /\ Cardinality(S) \in Nat
          /\ InOrder(S) \in [1..Cardinality(S) -> S]
          /\ \A m, n \in 1..Cardinality(S) : InOrder(S)[m] = InOrder(S)[n] => m = n
      BY <3>1, InOrderNamesOnce
    <3> DEFINE o == InOrder(S)
    <3>4. o = order
      BY DEF S
    <3> HIDE DEF o, order
    <3>5. o \in [1..Cardinality(S) -> Nat]
      BY <3>1, <3>3 DEF o
    <3>6. o \in Seq(Nat) /\ DOMAIN o = 1..Cardinality(S)
      BY <3>3, <3>5, SeqDef
    <3>7. \A m, n \in DOMAIN o : o[m] = o[n] => m = n
      BY <3>3, <3>6 DEF o
    <3>8. \A n \in DOMAIN o : /\ o[n] \in DOMAIN after /\ after[o[n]].status = "in_progress"
                              /\ after[o[n]].amount > 0 /\ after[o[n]].tx = 0
      BY <3>2, <3>3, <3>6 DEF o
    <3>9. WorkFits(Batches(o), after, txs)
      BY <3>6, <3>7, <3>8, FirstBatches
    <3> QED
      BY <3>4, <3>9
  <2>9. WorkFits(work', after, txs) /\ due' = {} /\ skip' = {}
        /\ phase' \in {"rounds", "settle", "sweep", "done"} /\ pass' \in 1..Max({Rounds, Sweeps})
        /\ \/ pc' = "sending"
           \/ pc' = "waiting" /\ work' = <<>>
    <3> HIDE DEF order
    <3>1. CASE Onward(after)
      <4>1. /\ phase' \in {"rounds", "settle", "sweep", "done"}
            /\ pass' \in 1..Max({Rounds, Sweeps})
            /\ pc' = "waiting" /\ due' = {} /\ skip' = {} /\ work' = <<>>
        BY <1>1, <3>1, OnwardLeaves
      <4> QED
        BY <4>1, NoWork
    <3>2. CASE ~Onward(after)
      <4>1. pc' = "sending" /\ due' = {} /\ skip' = {} /\ UNCHANGED <<phase, pass>>
        BY <2>1, <3>2
      <4>2. work' = Batches(order)
        BY <2>2, <3>2
      <4> QED
        BY <1>1, <2>8, <4>1, <4>2 DEF OtherTypes
    <3> QED
      BY <3>1, <3>2
  <2>10. ignored' \subseteq Ids /\ sharedShort' \in BOOLEAN
    <3>1. Overlooked \subseteq Ids
      BY DEF Overlooked
    <3> QED
      BY <1>3, <2>1, <3>1
  <2>11. OtherTypes'
    BY <1>1, <1>2, <2>1, <2>7, <2>9, <2>10 DEF OtherTypes, Ids
  <2>12. VisitFits'
    BY <2>9 DEF VisitFits
  <2>13. FilesTyped(sends', txs') /\ Paid(sends', txs') /\ WorkFits(work', sends', txs')
    BY <1>2, <2>1, <2>7, <2>9
  <2> QED
    BY <2>11, <2>12, <2>13 DEF IInv
<1> QED
  BY <1>6, <1>7

\* What a step of a batch leaves alone.
LEMMA BatchStepKeeps ==
  ASSUME IInv, NEW b \in DOMAIN work,
         UNCHANGED <<burn, hadAta, lots, read, burned, keeper, got, phase, pass, pc, due, skip, crashes,
                     broke, ignored, settledPot, leftQueued, sharedShort>>,
         FilesTyped(sends', txs'), Paid(sends', txs'), WorkFits(work', sends', txs'),
         DOMAIN sends' = DOMAIN sends
  PROVE  IInv'
<1>1. pc = "sending"
  <2>1. work # <<>>
    OBVIOUS
  <2> QED
    BY <2>1 DEF IInv, VisitFits
<1>2. OtherTypes'
  BY DEF IInv, OtherTypes, Ids
<1>3. VisitFits'
  BY <1>1 DEF VisitFits
<1> QED
  BY <1>2, <1>3 DEF IInv

\* A transfer is signed.
LEMMA SignKeeps ==
  ASSUME IInv, NEW b \in DOMAIN work, Sign(b)
  PROVE  IInv'
<1> DEFINE H == ToSet(work[b].ids)
<1>1. FilesTyped(sends, txs) /\ Paid(sends, txs) /\ WorkFits(work, sends, txs)
      /\ work[b].at = "building"
  BY DEF IInv, Sign
<1>2. UNCHANGED <<burn, hadAta, lots, read, burned, keeper, got, phase, pass, pc, due, skip, crashes,
                  broke, ignored, settledPot, leftQueued, sharedShort>>
  BY DEF Sign, startVars, histVars
<1>3. txs' = Signed(sends, txs, H)
  BY DEF Sign, Signed, InHand
<1>4. sends' = Holding(sends, txs, H)
  BY DEF Sign, Holding, InHand, Change, Ids
<1>5. work' = [work EXCEPT ![b].at = "sending"]
  BY DEF Sign, Goto
<1>6. /\ FilesTyped(sends', txs') /\ Paid(sends', txs')
      /\ WorkFits([work EXCEPT ![b].at = "sending"], sends', txs')
      /\ DOMAIN sends' = DOMAIN sends
  BY <1>1, <1>3, <1>4, SignFits
<1> QED
  BY <1>2, <1>5, <1>6, BatchStepKeeps

\* The catch block in terms of the records and the batch.
LEMMA FailedIs ==
  ASSUME NEW b, NEW error, Failed(b, error)
  PROVE  /\ sends' = UndoneIn(sends, work[b], error)
         /\ work' = [work EXCEPT ![b] = Turned(work[b], NextLists(work[b], error))]
<1>1. sends' = UndoneIn(sends, work[b], error)
  <2>1. CASE Halving(work[b], error)
    <3>1. sends' = [i \in Ids |-> IF i \in InHand(b) THEN [sends[i] EXCEPT !.tx = 0] ELSE sends[i]]
      BY <2>1 DEF Failed, Change, Halving
    <3> QED
      BY <2>1, <3>1 DEF Undone, UndoneIn, Ids, InHand
  <2>2. CASE ~Halving(work[b], error)
    <3>1. sends' = [i \in Ids |-> IF i \in InHand(b)
                                  THEN IF error = "fatal" \/ LastAttempt(sends[i]) THEN Abandoned(sends[i])
                                       ELSE QueuedAgain(sends[i])
                                  ELSE sends[i]]
      BY <2>2 DEF Failed, Change, Halving
    <3> QED
      BY <2>2, <3>1 DEF Undone, UndoneIn, Ids, InHand
  <2> QED
    BY <2>1, <2>2
<1>2. work' = [work EXCEPT ![b] = Turned(work[b], NextLists(work[b], error))]
  <2>1. CASE Halving(work[b], error)
    BY <2>1 DEF Failed, Turn, Turned, Halved, Halving, NextLists
  <2>2. CASE ~Halving(work[b], error)
    BY <2>2 DEF Failed, Turn, Turned, Halving, NextLists
  <2> QED
    BY <2>1, <2>2
<1> QED
  BY <1>1, <1>2

\* The catch block, whatever had become of the transfer.
LEMMA FailedKeeps ==
  ASSUME NEW b, Working(work, sends, txs, txs', b), NEW error,
         LargeIsVoid(work[b], sends, txs', error), Failed(b, error)
  PROVE  /\ FilesTyped(sends', txs') /\ Paid(sends', txs') /\ WorkFits(work', sends', txs')
         /\ DOMAIN sends' = DOMAIN sends
<1>1. sends' = UndoneIn(sends, work[b], error)
  BY FailedIs
<1>2. work' = [work EXCEPT ![b] = Turned(work[b], NextLists(work[b], error))]
  BY FailedIs
<1>3. /\ FilesTyped(sends', txs') /\ Paid(sends', txs')
      /\ WorkFits([work EXCEPT ![b] = Turned(work[b], NextLists(work[b], error))], sends', txs')
      /\ DOMAIN sends' = DOMAIN sends
  BY <1>1, FailFits
<1> QED
  BY <1>2, <1>3

\* A batch at work while the chain stands still.
LEMMA WorkingStill ==
  ASSUME IInv, NEW b \in DOMAIN work, work[b].at # "over", txs' = txs
  PROVE  Working(work, sends, txs, txs', b)
BY DEF IInv, Working

\* The transfer cannot be built or signed.
LEMMA BuildFailsKeeps ==
  ASSUME IInv, NEW b \in DOMAIN work, NEW error \in Errors, BuildFails(b, error)
  PROVE  IInv'
<1>1. UNCHANGED <<burn, hadAta, lots, read, burned, keeper, got, phase, pass, pc, due, skip, crashes,
                  broke, ignored, settledPot, leftQueued, sharedShort, txs>>
  BY DEF BuildFails, startVars, chainVars, histVars
<1>2. work[b].at # "over" /\ Failed(b, error)
  BY DEF BuildFails
<1>3. Working(work, sends, txs, txs', b)
  BY <1>1, <1>2, WorkingStill
<1>4. /\ FilesTyped(sends', txs') /\ Paid(sends', txs') /\ WorkFits(work', sends', txs')
      /\ DOMAIN sends' = DOMAIN sends
  <2>1. LargeIsVoid(work[b], sends, txs', error)
    BY DEF BuildFails, LargeIsVoid
  <2> QED
    BY <1>2, <1>3, <2>1, FailedKeeps
<1> QED
  BY <1>1, <1>4, BatchStepKeeps

\* The wait for a transfer ends without a confirmation.
LEMMA NotConfirmedKeeps ==
  ASSUME IInv, NEW b \in DOMAIN work, NEW error \in Errors, NotConfirmed(b, error)
  PROVE  IInv'
<1>1. UNCHANGED <<burn, hadAta, lots, read, burned, keeper, got, phase, pass, pc, due, skip, crashes,
                  broke, ignored, settledPot, leftQueued, sharedShort, txs>>
  BY DEF NotConfirmed, startVars, chainVars, histVars
<1>2. work[b].at # "over" /\ Failed(b, error)
  BY DEF NotConfirmed
<1>3. Working(work, sends, txs, txs', b)
  BY <1>1, <1>2, WorkingStill
<1>4. /\ FilesTyped(sends', txs') /\ Paid(sends', txs') /\ WorkFits(work', sends', txs')
      /\ DOMAIN sends' = DOMAIN sends
  <2>1. LargeIsVoid(work[b], sends, txs', error)
    BY <1>1 DEF NotConfirmed, LargeIsVoid, Underway, TxOf
  <2> QED
    BY <1>2, <1>3, <2>1, FailedKeeps
<1> QED
  BY <1>1, <1>4, BatchStepKeeps

\* The node takes the transfer, or refuses it.
LEMMA SendRawKeeps ==
  ASSUME IInv, NEW b \in DOMAIN work, SendRaw(b)
  PROVE  IInv'
<1> DEFINE k == TxOf(work[b], sends)
<1>1. UNCHANGED <<burn, hadAta, lots, read, burned, keeper, got, phase, pass, pc, due, skip, crashes,
                  broke, ignored, settledPot, leftQueued, sharedShort>>
  BY DEF SendRaw, startVars, histVars
<1>2. FilesTyped(sends, txs) /\ Paid(sends, txs) /\ WorkFits(work, sends, txs)
      /\ work[b].at = "sending" /\ Underway(work[b])
  BY DEF IInv, SendRaw, Underway
<1>3. \/ /\ txs' = [txs EXCEPT ![k].fate = "flying"]
         /\ work' = [work EXCEPT ![b].at = "confirming"] /\ sends' = sends
      \/ txs' = [txs EXCEPT ![k].fate = "flying"] /\ Failed(b, "other")
      \/ txs' = [txs EXCEPT ![k].fate = "void"] /\ \E e \in Errors : Failed(b, e)
  BY DEF SendRaw, TxOf, Goto
<1>4. k \in DOMAIN txs /\ txs[k].fate = "signed"
  <2>1. BatchFits(work[b], sends, txs)
    BY <1>2, BatchOf
  <2> QED
    BY <1>2, <2>1 DEF BatchFits
<1> HIDE DEF k
<1>5. ASSUME NEW f \in {"flying", "void"}, txs' = [txs EXCEPT ![k].fate = f]
      PROVE  /\ FilesTyped(sends, txs') /\ Paid(sends, txs') /\ DOMAIN txs' = DOMAIN txs
             /\ txs'[k].fate = f /\ \A l \in DOMAIN txs : txs'[l] = txs[l] \/ l = k
  <2>1. txs[k].fate \in {"signed", "flying"} /\ f \in {"flying", "landed", "void"}
    BY <1>4
  <2>2. txs' = Fated(txs, k, f)
    BY <1>5 DEF Fated
  <2> QED
    BY <1>2, <1>4, <2>1, <2>2, FateMoves
<1>6. CASE /\ txs' = [txs EXCEPT ![k].fate = "flying"]
           /\ work' = [work EXCEPT ![b].at = "confirming"] /\ sends' = sends
  <2>1. WorkFits(work', sends, txs')
    BY <1>2, <1>5, <1>6, SendFits DEF k
  <2> QED
    BY <1>1, <1>5, <1>6, <2>1, BatchStepKeeps
<1>7. ASSUME NEW f \in {"flying", "void"}, txs' = [txs EXCEPT ![k].fate = f],
             NEW e \in Errors, Failed(b, e), e = "large" => f = "void"
      PROVE  IInv'
  <2>1. Working(work, sends, txs, txs', b)
    BY <1>2, <1>5, <1>7 DEF Working, k
  <2>2. LargeIsVoid(work[b], sends, txs', e)
    BY <1>2, <1>5, <1>7 DEF k, LargeIsVoid
  <2>3. /\ FilesTyped(sends', txs') /\ Paid(sends', txs') /\ WorkFits(work', sends', txs')
        /\ DOMAIN sends' = DOMAIN sends
    BY <1>7, <2>1, <2>2, FailedKeeps
  <2> QED
    BY <1>1, <2>3, BatchStepKeeps
<1> QED
  BY <1>3, <1>6, <1>7 DEF Errors

\* The transfer is seen to have landed: its sends are closed.
LEMMA ConfirmedKeeps ==
  ASSUME IInv, NEW b \in DOMAIN work, Confirmed(b)
  PROVE  IInv'
<1> DEFINE H == ToSet(work[b].ids)
           Done(x) == [Close(x) EXCEPT !.attempts = @ + 1]
<1>1. UNCHANGED <<burn, hadAta, lots, read, burned, keeper, got, phase, pass, pc, due, skip, crashes,
                  broke, ignored, settledPot, leftQueued, sharedShort, txs>>
  BY DEF Confirmed, startVars, chainVars, histVars
<1>2. /\ FilesTyped(sends, txs) /\ Paid(sends, txs) /\ WorkFits(work, sends, txs)
      /\ work[b].at # "over" /\ Underway(work[b]) /\ txs[TxOf(work[b], sends)].fate = "landed"
  BY DEF IInv, Confirmed, Underway, TxOf
<1>3. Working(work, sends, txs, txs', b)
  BY <1>1, <1>2, WorkingStill
<1>4. /\ sends' = [i \in DOMAIN sends |-> IF i \in H THEN Done(sends[i]) ELSE sends[i]]
      /\ work' = [work EXCEPT ![b] = Turned(work[b], work[b].later)]
  BY DEF Confirmed, Change, InHand, Ids, Turn, Turned
<1>5. /\ DOMAIN sends = 1..Len(sends) /\ Len(sends) \in Nat /\ Len(txs) \in Nat
      /\ \A i \in DOMAIN sends : sends[i] \in RecordType(Len(txs))
  BY <1>2, Typed
<1>6. work[b] \in BatchType /\ BatchFits(work[b], sends, txs)
  BY <1>2, BatchOf
<1>7. ASSUME NEW i \in H
      PROVE  /\ i \in DOMAIN sends /\ Done(sends[i]) \in RecordType(Len(txs))
             /\ RecordMoves(sends[i], Done(sends[i]), txs)
  <2> DEFINE x == sends[i]
  <2>1. /\ i \in DOMAIN sends /\ x \in RecordType(Len(txs)) /\ x.status = "in_progress"
        /\ x.tx = TxOf(work[b], sends) /\ TxOf(work[b], sends) \in DOMAIN txs
    BY <1>2, <1>5, <1>6, InHandMarked DEF BatchFits
  <2>2. x.attempts < MaxAttempts /\ MaxAttempts \in Nat /\ x.tx # 0 /\ txs[x.tx].fate = "landed"
    <3>1. TxOf(work[b], sends) # 0
      BY <1>2, <2>1, Typed
    <3> QED
      BY <1>2, <2>1, <3>1, DeliveryAssumption DEF Paid, RecordsFit
  <2> HIDE DEF x
  <2>3. Done(x) = [[x EXCEPT !.status = "completed", !.tx = 0] EXCEPT !.attempts = @ + 1]
    BY DEF Close
  <2>4. x.attempts + 1 \in 0..MaxAttempts /\ 0 \in 0..Len(txs)
    <3>1. x.attempts \in 0..MaxAttempts
      BY <2>1 DEF RecordType
    <3> QED
      BY <1>5, <2>2, <3>1
  <2>5. Done(x) \in RecordType(Len(txs))
    BY <2>1, <2>3, <2>4 DEF RecordType, Statuses
  <2>6. Done(x).status = "completed" /\ Done(x).tx = 0 /\ Done(x).amount = x.amount
    BY <2>1, <2>3 DEF RecordType
  <2> HIDE DEF Done
  <2>7. RecordMoves(x, Done(x), txs)
    BY <2>2, <2>6 DEF RecordMoves
  <2> QED
    BY <2>1, <2>5, <2>7 DEF x
<1> HIDE DEF Done
<1>8. HandMoved(work, sends, txs', b, sends', work[b].later)
  <2>1. \A i \in DOMAIN sends : i \notin H => sends'[i] = sends[i]
    BY <1>4
  <2>2. \A i \in H : sends'[i] = Done(sends[i])
    BY <1>4, <1>7
  <2>3. sends' \in [1..Len(sends) -> RecordType(Len(txs))]
    BY <1>4, <1>5, <1>7
  <2>4. sends' \in Seq(RecordType(Len(txs)))
    BY <1>5, <2>3, SeqDef
  <2>5. Len(sends') = Len(sends)
    <3>1. DOMAIN sends' = 1..Len(sends') /\ Len(sends') \in Nat
      BY <2>4, LenProperties
    <3>2. 1..Len(sends') = 1..Len(sends)
      BY <2>3, <3>1
    <3>3. \A m, n \in Nat : 1..m = 1..n => m = n
      OBVIOUS
    <3> QED
      BY <1>5, <3>1, <3>2, <3>3
  <2> QED
    BY <1>1, <1>7, <2>1, <2>2, <2>4, <2>5 DEF HandMoved
<1>9. /\ FilesTyped(sends', txs') /\ Paid(sends', txs')
      /\ WorkFits([work EXCEPT ![b] = Turned(work[b], work[b].later)], sends', txs')
      /\ DOMAIN sends' = DOMAIN sends
  BY <1>3, <1>8, HandMoves
<1> QED
  BY <1>1, <1>4, <1>9, BatchStepKeeps

\* The visit ends when every batch is over.
LEMMA EndVisitKeeps ==
  ASSUME IInv, EndVisit
  PROVE  IInv'
<1>1. FilesTyped(sends, txs) /\ Paid(sends, txs) /\ OtherTypes /\ Onward(sends)
  BY DEF IInv, EndVisit
<1>2. UNCHANGED <<burn, hadAta, lots, read, burned, keeper, got, sends, txs, crashes,
                  broke, ignored, settledPot, leftQueued, sharedShort>>
  BY DEF EndVisit, startVars, chainVars, histVars
<1>3. /\ due' = {} /\ skip' = {} /\ work' = <<>> /\ pc' = "waiting"
      /\ phase' \in {"rounds", "settle", "sweep", "done"} /\ pass' \in 1..Max({Rounds, Sweeps})
  BY <1>1, OnwardLeaves
<1>4. OtherTypes'
  BY <1>1, <1>2, <1>3 DEF OtherTypes, Ids
<1>5. VisitFits'
  BY <1>3 DEF VisitFits
<1>6. FilesTyped(sends', txs') /\ Paid(sends', txs') /\ WorkFits(work', sends', txs')
  BY <1>1, <1>2, <1>3, NoWork
<1> QED
  BY <1>4, <1>5, <1>6 DEF IInv

\* The settlement burns what is owed, and takes the abandoned sends with a
\* signature.
LEMMA SettleStartKeeps ==
  ASSUME IInv, SettleStart
  PROVE  IInv'
<1>1. FilesTyped(sends, txs) /\ Paid(sends, txs) /\ OtherTypes /\ pc = "waiting" /\ work = <<>>
  BY DEF IInv, VisitFits, SettleStart
<1>2. /\ UNCHANGED <<burn, hadAta, lots, got, sends, txs, phase, pass, skip, work, crashes,
                     broke, ignored, settledPot, leftQueued, sharedShort>>
      /\ due' = {i \in With("abandoned") : sends[i].tx # 0} /\ pc' = "settling"
  BY DEF SettleStart, startVars, histVars
<1>3. read' \in 0..lots /\ burned' \in Nat /\ keeper' \in Nat
  BY <1>1, FireTypes DEF SettleStart
<1>4. due' \subseteq Ids
  BY <1>2 DEF With
<1>5. OtherTypes'
  BY <1>1, <1>2, <1>3, <1>4 DEF OtherTypes, Ids
<1>6. VisitFits'
  BY <1>1, <1>2 DEF VisitFits
<1>7. FilesTyped(sends', txs') /\ Paid(sends', txs') /\ WorkFits(work', sends', txs')
  BY <1>1, <1>2, NoWork
<1> QED
  BY <1>5, <1>6, <1>7 DEF IInv

\* One abandoned send's signature is asked about.
LEMMA SettleAbandonedKeeps ==
  ASSUME IInv, NEW i \in Ids, NEW verdict \in AnyVerdict, SettleAbandoned(i, verdict)
  PROVE  IInv'
<1>1. FilesTyped(sends, txs) /\ Paid(sends, txs) /\ OtherTypes /\ pc = "settling" /\ work = <<>>
      /\ \A j \in due : sends[j].tx # 0
  BY DEF IInv, VisitFits, SettleAbandoned
<1>2. /\ UNCHANGED <<burn, hadAta, lots, read, burned, keeper, got, txs, phase, pass, pc, work,
                     crashes, broke, ignored, settledPot, leftQueued, sharedShort>>
      /\ due' = due \ {i} /\ skip' \in {skip, skip \cup {i}}
  BY DEF SettleAbandoned, startVars, chainVars, histVars
<1>3. /\ i \in DOMAIN sends /\ i \in due /\ sends[i].tx # 0
      /\ verdict \in Verdicts(txs[sends[i].tx].fate)
  BY <1>1 DEF SettleAbandoned, Ids
<1>4. sends[i] \in RecordType(Len(txs)) /\ Len(txs) \in Nat
  BY <1>1, <1>3, Typed
<1>5. verdict = "landed" => txs[sends[i].tx].fate = "landed"
  BY <1>3 DEF Verdicts
<1>6. /\ FilesTyped(sends', txs) /\ Paid(sends', txs) /\ DOMAIN sends' = DOMAIN sends
      /\ \A j \in DOMAIN sends : j # i => sends'[j] = sends[j]
  <2>1. CASE verdict = "landed"
    <3>1. sends' = [sends EXCEPT ![i] = Close(@)]
      BY <2>1 DEF SettleAbandoned
    <3>2. sends' = [j \in DOMAIN sends |-> sends'[j]]
          /\ \A j \in DOMAIN sends : sends'[j] = IF j = i THEN Close(sends[i]) ELSE sends[j]
      BY <1>3, <3>1
    <3>3. Close(sends[i]) \in RecordType(Len(txs)) /\ RecordMoves(sends[i], Close(sends[i]), txs)
      BY <1>3, <1>4, <1>5, <2>1, Closing
    <3>4. \A j \in DOMAIN sends :
            \/ sends'[j] = sends[j]
            \/ sends'[j] \in RecordType(Len(txs)) /\ RecordMoves(sends[j], sends'[j], txs)
      BY <3>2, <3>3
    <3>5. FilesTyped(sends', txs) /\ Paid(sends', txs) /\ DOMAIN sends' = DOMAIN sends
      BY <1>1, <3>2, <3>4, FileMoves
    <3> QED
      BY <3>2, <3>5
  <2>2. CASE verdict # "landed"
    <3>1. sends' = sends
      BY <2>2 DEF SettleAbandoned
    <3> QED
      BY <1>1, <3>1
  <2> QED
    BY <2>1, <2>2
<1>7. due' \subseteq Ids /\ skip' \subseteq Ids /\ \A j \in due' : sends'[j].tx # 0
  <2>1. due \subseteq DOMAIN sends /\ skip \subseteq DOMAIN sends
    BY <1>1 DEF OtherTypes, Ids
  <2>2. \A j \in due' : j \in due /\ j # i
    BY <1>2
  <2> QED
    BY <1>1, <1>2, <1>3, <1>6, <2>1, <2>2 DEF Ids
<1>8. OtherTypes'
  BY <1>1, <1>2, <1>6, <1>7 DEF OtherTypes, Ids
<1>9. VisitFits' /\ work' = <<>>
  BY <1>1, <1>2, <1>7 DEF VisitFits
<1>10. FilesTyped(sends', txs') /\ Paid(sends', txs') /\ WorkFits(work', sends', txs')
  BY <1>2, <1>6, <1>9, NoWork
<1> QED
  BY <1>8, <1>9, <1>10 DEF IInv

\* Sends not yet tried, with nothing on record.
LEMMA NewSends ==
  ASSUME NEW n \in Nat, NEW m \in Nat, NEW more, more = [k \in 1..m |-> more[k]],
         \A k \in 1..m : \E w \in Wallets, r \in 1..Rounds : more[k] = NewSend(w, r)
  PROVE  /\ more \in Seq(RecordType(n)) /\ DOMAIN more = 1..m
         /\ \A k \in DOMAIN more : more[k].tx = 0 /\ more[k].status = "pending" /\ more[k].attempts = 0
<1>1. ASSUME NEW w \in Wallets, NEW r \in 1..Rounds
      PROVE  /\ NewSend(w, r) \in RecordType(n) /\ NewSend(w, r).tx = 0
             /\ NewSend(w, r).status = "pending" /\ NewSend(w, r).attempts = 0
  <2>1. 0 \in 0..MaxAttempts /\ 0 \in 0..n /\ 0 \in Nat
    BY DeliveryAssumption
  <2> QED
    BY <2>1 DEF NewSend, RecordType, Statuses
<1>2. \A k \in 1..m : /\ more[k] \in RecordType(n)
                      /\ more[k].tx = 0 /\ more[k].status = "pending" /\ more[k].attempts = 0
  BY <1>1
<1>3. more \in [1..m -> RecordType(n)]
  BY <1>2
<1>4. more \in Seq(RecordType(n))
  BY <1>3, SeqDef
<1> QED
  BY <1>2, <1>3, <1>4

\* The settlement makes one more send for each wallet that is short.
LEMMA TopUpsKeeps ==
  ASSUME IInv, NEW balance \in {0, keeper}, TopUps(balance)
  PROVE  IInv'
<1> DEFINE pot   == Pot(balance)
           first == {i \in Ids : \A j \in Ids : j < i => sends[j].wallet # sends[i].wallet}
           short == {i \in first :
                       LET missing == Target(pot, sends[i].wallet) - Sent[sends[i].wallet] IN
                       sends[i].wallet \notin Busy /\ missing > 0 /\ missing >= MinTopUp}
           order == InOrder(short)
           more  == [n \in DOMAIN order |-> NewSend(sends[order[n]].wallet, Rounds)]
           after == sends \o more
<1>1. FilesTyped(sends, txs) /\ Paid(sends, txs) /\ OtherTypes
  BY DEF IInv
<1>2. /\ UNCHANGED <<burn, hadAta, lots, read, burned, keeper, got, txs, crashes, broke, ignored>>
      /\ sends' = after /\ settledPot' = pot /\ sharedShort' = FALSE
      /\ leftQueued' = {sends[i].wallet : i \in {j \in With("pending") : sends[j].tx # 0}}
      /\ Onward(after)
  BY DEF TopUps, startVars, chainVars
<1>3. /\ Ids = DOMAIN sends /\ DOMAIN sends = 1..Len(sends) /\ Len(sends) \in Nat /\ Len(txs) \in Nat
      /\ \A i \in DOMAIN sends : sends[i].wallet \in Wallets
      /\ keeper \in Nat /\ balance \in Nat
  BY <1>1, Typed DEF OtherTypes, Ids
<1>4. pot \in Nat
  BY <1>1, <1>3, AmountTypes
<1>5. short \in SUBSET DOMAIN sends
  BY <1>3
<1> HIDE DEF pot, short
<1>6. short \in SUBSET Nat /\ IsFiniteSet(short)
  <2>1. DOMAIN sends \subseteq Nat /\ IsFiniteSet(DOMAIN sends)
    BY <1>3, FS_Interval
  <2> QED
    BY <1>5, <2>1, FS_Subset
<1>7. Cardinality(short) \in Nat /\ order \in [1..Cardinality(short) -> short]
  BY <1>6, InOrderNamesOnce
<1>8. /\ more \in Seq(RecordType(Len(txs)))
      /\ \A n \in DOMAIN more : more[n].tx = 0 /\ more[n].status = "pending" /\ more[n].attempts = 0
  <2> DEFINE m == Cardinality(short)
  <2> HIDE DEF order
  <2>1. DOMAIN order = 1..m /\ \A n \in 1..m : sends[order[n]].wallet \in Wallets
    BY <1>3, <1>5, <1>7
  <2>2. Rounds \in 1..Rounds
    BY DeliveryAssumption
  <2>3. /\ more = [n \in 1..m |-> more[n]]
        /\ \A n \in 1..m : more[n] = NewSend(sends[order[n]].wallet, Rounds)
    BY <2>1
  <2> HIDE DEF more, m
  <2>4. \A n \in 1..m : \E w \in Wallets, r \in 1..Rounds : more[n] = NewSend(w, r)
    BY <2>1, <2>2, <2>3
  <2>5. m \in Nat
    BY <1>7 DEF m
  <2> QED
    BY <1>3, <2>3, <2>4, <2>5, NewSends
<1> HIDE DEF more
<1>9. FilesTyped(after, txs) /\ Paid(after, txs) /\ DOMAIN sends \subseteq DOMAIN after
  BY <1>1, <1>8, RecordsJoin
<1> HIDE DEF after
<1>10. /\ due' = {} /\ skip' = {} /\ work' = <<>> /\ pc' = "waiting"
       /\ phase' \in {"rounds", "settle", "sweep", "done"} /\ pass' \in 1..Max({Rounds, Sweeps})
  BY <1>1, <1>2, OnwardLeaves
<1>11. leftQueued' \subseteq Wallets
  BY <1>2, <1>3 DEF With
<1>12. OtherTypes'
  BY <1>1, <1>2, <1>4, <1>9, <1>10, <1>11 DEF OtherTypes, Ids
<1>13. VisitFits'
  BY <1>10 DEF VisitFits
<1>14. FilesTyped(sends', txs') /\ Paid(sends', txs') /\ WorkFits(work', sends', txs')
  BY <1>2, <1>9, <1>10, NoWork
<1> QED
  BY <1>12, <1>13, <1>14 DEF IInv

\* The process dies; the file is read again.
LEMMA CrashKeeps ==
  ASSUME IInv, Crash
  PROVE  IInv'
<1>1. FilesTyped(sends, txs) /\ Paid(sends, txs) /\ OtherTypes
  BY DEF IInv
<1>2. /\ UNCHANGED <<burn, hadAta, lots, read, burned, keeper, got, txs,
                     broke, ignored, settledPot, leftQueued, sharedShort>>
      /\ crashes < MaxCrashes /\ crashes' = crashes + 1
      /\ phase' = "rounds" /\ pass' = 1 /\ pc' = "waiting"
      /\ due' = {} /\ skip' = {} /\ work' = <<>>
      /\ sends' = [i \in Ids |-> Resumed(sends[i])]
  BY DEF Crash, startVars, chainVars, histVars, ClearPass
<1>3. ASSUME NEW i \in DOMAIN sends
      PROVE  \/ Resumed(sends[i]) = sends[i]
             \/ Resumed(sends[i]) \in RecordType(Len(txs)) /\ RecordMoves(sends[i], Resumed(sends[i]), txs)
  <2> DEFINE x == sends[i]
             y == [x EXCEPT !.status = "pending"]
  <2>1. x \in RecordType(Len(txs)) /\ (x.status = "in_progress" => x.attempts < MaxAttempts)
    BY <1>1, Typed DEF Paid, RecordsFit
  <2> HIDE DEF x
  <2>2. CASE x.status = "in_progress"
    <3>1. y \in RecordType(Len(txs))
      BY <2>1 DEF RecordType, Statuses
    <3>2. y.status = "pending" /\ y.tx = x.tx /\ y.amount = x.amount /\ y.attempts = x.attempts
      BY <2>1 DEF RecordType
    <3>3. Resumed(x) = y
      BY <2>2 DEF Resumed
    <3> HIDE DEF y
    <3>4. RecordMoves(x, y, txs)
      BY <2>1, <2>2, <3>2 DEF RecordMoves
    <3> QED
      BY <3>1, <3>3, <3>4 DEF x
  <2>3. CASE x.status # "in_progress"
    <3>1. Resumed(x) = x
      BY <2>3 DEF Resumed
    <3> QED
      BY <3>1 DEF x
  <2> QED
    BY <2>2, <2>3
<1>4. FilesTyped(sends', txs) /\ Paid(sends', txs) /\ DOMAIN sends' = DOMAIN sends
  <2>1. sends' = [i \in DOMAIN sends |-> sends'[i]]
        /\ \A i \in DOMAIN sends : sends'[i] = Resumed(sends[i])
    BY <1>2 DEF Ids
  <2>2. \A i \in DOMAIN sends :
          \/ sends'[i] = sends[i]
          \/ sends'[i] \in RecordType(Len(txs)) /\ RecordMoves(sends[i], sends'[i], txs)
    BY <1>3, <2>1
  <2> QED
    BY <1>1, <2>1, <2>2, FileMoves
<1>5. crashes' \in 0..MaxCrashes /\ 1 \in 1..Max({Rounds, Sweeps})
  <2>1. Max({Rounds, Sweeps}) \in Nat /\ Max({Rounds, Sweeps}) >= Rounds /\ Rounds >= 1
    BY DeliveryAssumption, OfTwo
  <2>2. crashes \in 0..MaxCrashes /\ MaxCrashes \in Nat
    BY <1>1, DeliveryAssumption DEF OtherTypes
  <2>3. \A x, y \in Nat : x < y => x + 1 \in 0..y
    OBVIOUS
  <2>4. \A x \in Nat : x >= Rounds /\ Rounds >= 1 /\ Rounds \in Nat => 1 \in 1..x
    OBVIOUS
  <2>5. crashes \in Nat /\ Rounds \in Nat
    BY <2>2, DeliveryAssumption
  <2> QED
    BY <1>2, <2>1, <2>2, <2>3, <2>4, <2>5
<1>6. OtherTypes'
  BY <1>1, <1>2, <1>4, <1>5 DEF OtherTypes, Ids
<1>7. VisitFits'
  BY <1>2 DEF VisitFits
<1>8. FilesTyped(sends', txs') /\ Paid(sends', txs') /\ WorkFits(work', sends', txs')
  BY <1>2, <1>4, NoWork
<1> QED
  BY <1>6, <1>7, <1>8 DEF IInv

\* A step is one of these, or none.
LEMMA StepKeeps ==
  ASSUME IInv, [Next]_vars
  PROVE  IInv'
<1>1. ASSUME NEW k \in DOMAIN txs, NEW f \in {"landed", "void"}, Decide(k, f) PROVE IInv'
  BY <1>1, DecideKeeps
<1>2. ASSUME NEW i \in Ids, NEW v \in AnyVerdict, CheckPendingSend(i, v) \/ SettleAbandoned(i, v)
      PROVE  IInv'
  BY <1>2, CheckPendingSendKeeps, SettleAbandonedKeeps
<1>3. ASSUME NEW missing, CheckAtas(missing) PROVE IInv'
  BY <1>3, CheckAtasKeeps
<1>4. ASSUME NEW balance \in {0, keeper}, ShareOut(balance) \/ TopUps(balance) PROVE IInv'
  BY <1>4, ShareOutKeeps, TopUpsKeeps
<1>5. ASSUME NEW b \in DOMAIN work, SendBatch(b) PROVE IInv'
  <2>1. CASE Sign(b)
    BY <2>1, SignKeeps
  <2>2. CASE SendRaw(b)
    BY <2>2, SendRawKeeps
  <2>3. CASE Confirmed(b)
    BY <2>3, ConfirmedKeeps
  <2>4. ASSUME NEW e \in Errors, BuildFails(b, e) PROVE IInv'
    BY <2>4, BuildFailsKeeps
  <2>5. ASSUME NEW e \in Errors, NotConfirmed(b, e) PROVE IInv'
    BY <2>5, NotConfirmedKeeps
  <2> QED
    BY <1>5, <2>1, <2>2, <2>3, <2>4, <2>5 DEF SendBatch
<1>6. ASSUME UNCHANGED vars PROVE IInv'
  <2>1. UNCHANGED <<burn, hadAta, lots, read, burned, keeper, got, sends, txs, phase, pass, pc, due,
                    skip, work, crashes, broke, ignored, settledPot, leftQueued, sharedShort>>
    BY <1>6 DEF vars
  <2>2. OtherTypes'
    BY <2>1 DEF IInv, OtherTypes, Ids
  <2>3. VisitFits'
    BY <2>1 DEF IInv, VisitFits
  <2> QED
    BY <2>1, <2>2, <2>3 DEF IInv
<1>7. ASSUME Visit PROVE IInv'
  BY <1>2, <1>3, <1>4, <1>5, <1>7, StartVisitKeeps, AtaUnreadableKeeps, EndVisitKeeps DEF Visit
<1>8. ASSUME Settle PROVE IInv'
  BY <1>2, <1>4, <1>8, SettleStartKeeps DEF Settle
<1> QED
  BY <1>1, <1>6, <1>7, <1>8, BuyKeeps, CrashKeeps DEF Next, Chain

-----------------------------------------------------------------------------
(* The start.                                                              *)

\* Every parcel of a commit is due in one of the rounds.
LEMMA RoundsAssigned ==
  ASSUME NEW n \in Nat \ {0}, NEW rounds \in Nat \ {0}
  PROVE  \A i \in DOMAIN AssignRounds(n, rounds) : AssignRounds(n, rounds)[i] \in 1..rounds
<1>1. CASE n >= rounds
  BY <1>1 DEF AssignRounds
<1>2. CASE ~(n >= rounds)
  <2> DEFINE x(i) == i * rounds + n - 1
  <2>1. AssignRounds(n, rounds) = [i \in 1..n |-> x(i) \div n]
    BY <1>2 DEF AssignRounds
  <2>2. ASSUME NEW i \in 1..n PROVE x(i) \div n \in 1..rounds
    <3>1. i \in Nat \ {0} /\ i <= n
      OBVIOUS
    <3>2. i * rounds \in Nat /\ 1 <= i * rounds /\ i * rounds <= n * rounds
      <4>1. \A a \in Nat \ {0}, b \in Nat \ {0}, c \in Nat : a <= b => a * c <= b * c
        OBVIOUS
      <4>2. \A a, b \in Nat \ {0} : a * b \in Nat /\ 1 <= a * b
        OBVIOUS
      <4> QED
        BY <3>1, <4>1, <4>2
    <3>3. x(i) \in Nat /\ n <= x(i) /\ x(i) < n * rounds + n
      <4>1. \A a \in Nat, b \in Nat, c \in Nat \ {0} :
              1 <= a /\ a <= b => /\ a + c - 1 \in Nat /\ c <= a + c - 1 /\ a + c - 1 < b + c
        OBVIOUS
      <4>2. n * rounds \in Nat
        OBVIOUS
      <4> QED
        BY <3>2, <4>1, <4>2
    <3> HIDE DEF x
    <3>4. /\ x(i) \div n \in Nat /\ n * (x(i) \div n) <= x(i)
          /\ x(i) < n * (x(i) \div n) + n
      BY <3>3, SMT
    <3>5. \A a \in Nat \ {0}, q \in Nat, y \in Nat, r \in Nat \ {0} :
            a <= y /\ y < a * q + a => q >= 1
      OBVIOUS
    <3>6. \A a \in Nat \ {0}, q \in Nat, r \in Nat \ {0} : a * q < a * r + a => q <= r
      <4> SUFFICES ASSUME NEW a \in Nat \ {0}, NEW q \in Nat, NEW r \in Nat \ {0}, q > r
                   PROVE  a * q >= a * r + a
        OBVIOUS
      <4>1. q = r + 1 + (q - r - 1) /\ q - r - 1 \in Nat
        OBVIOUS
      <4>2. a * q = a * r + a + a * (q - r - 1)
        BY <4>1
      <4>3. a * (q - r - 1) \in Nat
        BY <4>1
      <4> QED
        BY <4>2, <4>3
    <3>7. n * (x(i) \div n) < n * rounds + n
      <4>1. n * (x(i) \div n) \in Nat /\ n * rounds + n \in Nat
        BY <3>4
      <4>2. \A a, b, c \in Nat : a <= b /\ b < c => a < c
        OBVIOUS
      <4> QED
        BY <3>3, <3>4, <4>1, <4>2
    <3>8. x(i) \div n >= 1 /\ x(i) \div n <= rounds
      BY <3>3, <3>4, <3>5, <3>6, <3>7
    <3> QED
      BY <3>4, <3>8
  <2> HIDE DEF x
  <2> QED
    BY <2>1, <2>2
<1> QED
  BY <1>1, <1>2

\* A commit is cut into parcels, one at least.
LEMMA ParcelsToSend ==
  ASSUME NEW bet \in Nat \ {0}
  PROVE  SendN(bet) \in Nat \ {0}
<1> DEFINE q == (100 + 7 * bet) \div 150
<1>1. q \in Nat
  BY RoundsDown
<1> HIDE DEF q
<1>2. Max({1, q}) \in Nat /\ Max({1, q}) >= 1
  <2>1. Max({1, q}) \in {1, q} /\ Max({1, q}) >= 1
    BY <1>1, OfTwo
  <2> QED
    BY <1>1, <2>1
<1>3. SendN(bet) = IF bet < 10 THEN 1 ELSE IF bet >= 200 THEN 10 ELSE Max({1, q})
  BY DEF SendN, q
<1> QED
  BY <1>2, <1>3

\* The backers can be put in a row.
LEMMA BackersInARow ==
  /\ Cardinality(Wallets) \in Nat
  /\ SetToSeq(Wallets) \in [1..Cardinality(Wallets) -> Wallets]
  /\ \A w \in Wallets : \E n \in 1..Cardinality(Wallets) : SetToSeq(Wallets)[n] = w
<1> DEFINE N == Cardinality(Wallets)
           row == SetToSeq(Wallets)
<1>1. N \in Nat /\ ExistsBijection(1..N, Wallets) /\ IsFiniteSet(Wallets)
  BY SendAssumption, FS_CardinalityType
<1>2. \E f \in [1..N -> Wallets] : IsInjective(f)
  BY <1>1 DEF ExistsBijection, Bijection, Injection
<1>3. row \in [1..N -> Wallets] /\ IsInjective(row)
  BY <1>1, <1>2 DEF SetToSeq
<1> HIDE DEF row
<1>4. IsFiniteSet(1..N) /\ Cardinality(1..N) = N
  <2> HIDE DEF N
  <2> QED
    BY <1>1, FS_Interval
<1>5. row \in Injection(1..N, Wallets)
  BY <1>3 DEF Injection
<1>6. row \in Surjection(1..N, Wallets)
  BY <1>1, <1>4, <1>5, FS_Injection
<1>7. \A w \in Wallets : \E n \in 1..N : row[n] = w
  BY <1>6 DEF Surjection
<1> QED
  BY <1>1, <1>3, <1>7 DEF row

\* The parcels of the wallet at place n of a row, and all parcels by their places.
ParcelsAt(row, weights, n) ==
  IF weights[row[n]] = Bet[row[n]] * Full THEN <<>>
  ELSE AssignRounds(SendN(Bet[row[n]]), Rounds)

ParcelPlaces(row, weights) ==
  {p \in (DOMAIN row) \X (1..Rounds) : p[2] \in DOMAIN ParcelsAt(row, weights, p[1])}

\* What is listed before a parcel.
PlacesBefore(row, weights) ==
  [p \in ParcelPlaces(row, weights) |->
     {q \in ParcelPlaces(row, weights) : q[1] < p[1] \/ (q[1] = p[1] /\ q[2] < p[2])}]

ParcelOrder(row, weights) == Ordered(PlacesBefore(row, weights))

\* The parcels have an order that names each of them.
LEMMA ParcelsInOrder ==
  ASSUME NEW weights, NEW n \in Nat, NEW row \in [1..n -> Wallets]
  PROVE  \E m \in Nat :
           /\ ParcelOrder(row, weights) \in [1..m -> ParcelPlaces(row, weights)]
           /\ \A p \in ParcelPlaces(row, weights) : \E k \in 1..m : ParcelOrder(row, weights)[k] = p
<1> DEFINE D == ParcelPlaces(row, weights)
           B == PlacesBefore(row, weights)
<1>1. D \subseteq (1..n) \X (1..Rounds)
  BY DEF ParcelPlaces
<1>2. IsFiniteSet(D)
  <2>1. IsFiniteSet(1..n) /\ IsFiniteSet(1..Rounds)
    BY DeliveryAssumption, FS_Interval
  <2>2. IsFiniteSet((1..n) \X (1..Rounds))
    BY <2>1, FS_Product
  <2> QED
    BY <1>1, <2>2, FS_Subset
<1>3. \A p \in D : p[1] \in Int /\ p[2] \in Int /\ p = <<p[1], p[2]>>
  BY <1>1
<1>4. B = [p \in D |-> {q \in D : q[1] < p[1] \/ (q[1] = p[1] /\ q[2] < p[2])}]
  BY DEF PlacesBefore
<1> HIDE DEF D, B
<1>5. B \in [D -> SUBSET D]
  BY <1>4
<1>6. \A p, q \in D : q \in B[p] <=> (q[1] < p[1] \/ (q[1] = p[1] /\ q[2] < p[2]))
  BY <1>4
<1>7. \A a, b, c, x, y, z \in Int :
        /\ ~(a < a \/ (a = a /\ x < x))
        /\ (a < b \/ (a = b /\ x < y)) /\ (b < c \/ (b = c /\ y < z)) => (a < c \/ (a = c /\ x < z))
        /\ (a = b /\ x = y) \/ (a < b \/ (a = b /\ x < y)) \/ (b < a \/ (b = a /\ y < x))
  OBVIOUS
<1>8. \A p \in D : p \notin B[p]
  BY <1>3, <1>6, <1>7
<1>9. ASSUME NEW p \in D, NEW q \in B[p] PROVE B[q] \subseteq B[p]
  <2>1. q \in D
    BY <1>5
  <2>2. ASSUME NEW r \in B[q] PROVE r \in B[p]
    <3>1. r \in D
      BY <1>5, <2>1
    <3>2. /\ r[1] < q[1] \/ (r[1] = q[1] /\ r[2] < q[2])
          /\ q[1] < p[1] \/ (q[1] = p[1] /\ q[2] < p[2])
      BY <1>6, <2>1, <3>1, <2>2, <1>9
    <3>3. p[1] \in Int /\ p[2] \in Int /\ q[1] \in Int /\ q[2] \in Int /\ r[1] \in Int /\ r[2] \in Int
      BY <1>3, <2>1, <3>1
    <3>4. r[1] < p[1] \/ (r[1] = p[1] /\ r[2] < p[2])
      BY <3>2, <3>3
    <3> QED
      BY <1>6, <3>1, <3>4
  <2> QED
    BY <2>2
<1>10. \A p, q \in D : p = q \/ p \in B[q] \/ q \in B[p]
  BY <1>3, <1>6, <1>7
<1>11. IsOrderOf(B, D)
  BY <1>2, <1>5, <1>8, <1>9, <1>10 DEF IsOrderOf
<1>12. Cardinality(D) \in Nat /\ Ordered(B) \in [1..Cardinality(D) -> D]
  BY <1>11, OrderedNamesOnce
<1>13. \A p \in D : \E k \in 1..Cardinality(D) : Ordered(B)[k] = p
  BY <1>11, OrderedNamesAll
<1> QED
  BY <1>12, <1>13 DEF ParcelOrder, D, B

\* generateSendRecords makes sends that were not tried yet.
LEMMA FirstSendsAreNew ==
  ASSUME NEW weights
  PROVE  \E m \in Nat :
           /\ FirstSends(weights) = [k \in 1..m |-> FirstSends(weights)[k]]
           /\ \A k \in 1..m : \E w \in Wallets, r \in 1..Rounds :
                FirstSends(weights)[k] = NewSend(w, r)
<1> DEFINE row == SetToSeq(Wallets)
           order == ParcelOrder(row, weights)
           first == FirstSends(weights)
           n == Cardinality(Wallets)
<1>1. n \in Nat /\ row \in [1..n -> Wallets]
  BY BackersInARow
<1>2. first = [m \in DOMAIN order |->
                 NewSend(row[order[m][1]], ParcelsAt(row, weights, order[m][1])[order[m][2]])]
  BY DEF FirstSends, ParcelOrder, PlacesBefore, ParcelPlaces, ParcelsAt
<1> HIDE DEF row, first, n
<1>3. PICK m \in Nat : order \in [1..m -> ParcelPlaces(row, weights)]
  BY <1>1, ParcelsInOrder
<1> HIDE DEF order
<1>4. DOMAIN order = 1..m /\ \A k \in 1..m : order[k] \in ParcelPlaces(row, weights)
  BY <1>3
<1>5. ASSUME NEW p \in ParcelPlaces(row, weights)
      PROVE  row[p[1]] \in Wallets /\ ParcelsAt(row, weights, p[1])[p[2]] \in 1..Rounds
  <2>1. p[1] \in 1..n /\ p[2] \in DOMAIN ParcelsAt(row, weights, p[1])
    BY <1>1 DEF ParcelPlaces
  <2>2. row[p[1]] \in Wallets
    BY <1>1, <2>1
  <2>3. Bet[row[p[1]]] \in Nat \ {0} /\ Rounds \in Nat \ {0}
    BY <2>2, SendAssumption, DeliveryAssumption
  <2>4. SendN(Bet[row[p[1]]]) \in Nat \ {0}
    BY <2>3, ParcelsToSend
  <2>5. \A i \in DOMAIN AssignRounds(SendN(Bet[row[p[1]]]), Rounds) :
          AssignRounds(SendN(Bet[row[p[1]]]), Rounds)[i] \in 1..Rounds
    BY <2>3, <2>4, RoundsAssigned
  <2>6. ParcelsAt(row, weights, p[1]) # <<>>
    BY <2>1
  <2>7. ParcelsAt(row, weights, p[1]) = AssignRounds(SendN(Bet[row[p[1]]]), Rounds)
    BY <2>6 DEF ParcelsAt
  <2> QED
    BY <2>1, <2>2, <2>5, <2>7
<1>6. first = [k \in 1..m |-> first[k]]
  BY <1>2, <1>4
<1>7. \A k \in 1..m : \E w \in Wallets, r \in 1..Rounds : first[k] = NewSend(w, r)
  BY <1>2, <1>4, <1>5
<1> QED
  BY <1>6, <1>7 DEF first

\* The start.
LEMMA InitKeeps ==
  ASSUME Init
  PROVE  IInv
<1>1. PICK start \in Backings : burn = start.burn /\ hadAta = start.hadAta
  BY DEF Init
<1>2. sends = FirstSends(burn) /\ txs = <<>> /\ work = <<>> /\ due = {} /\ pc = "waiting"
  BY DEF Init
<1>3. Len(txs) = 0 /\ DOMAIN txs = {} /\ txs \in Seq(TransferType)
  BY <1>2, EmptySeq
<1>4. PICK m \in Nat :
        /\ sends = [k \in 1..m |-> sends[k]]
        /\ \A k \in 1..m : \E w \in Wallets, r \in 1..Rounds : sends[k] = NewSend(w, r)
  BY <1>2, FirstSendsAreNew
<1>5. /\ sends \in Seq(RecordType(0)) /\ DOMAIN sends = 1..m
      /\ \A k \in DOMAIN sends : sends[k].tx = 0 /\ sends[k].status = "pending" /\ sends[k].attempts = 0
  <2>1. 0 \in Nat
    OBVIOUS
  <2> QED
    BY <1>4, <2>1, NewSends
<1>6. FilesTyped(sends, txs)
  BY <1>3, <1>5 DEF FilesTyped
<1>7. Paid(sends, txs)
  <2>1. 0 < MaxAttempts
    BY DeliveryAssumption
  <2>2. RecordsFit(sends, txs)
    BY <1>5, <2>1 DEF RecordsFit
  <2> QED
    BY <1>3, <2>2 DEF Paid, CarriedFit, CarriedOnce
<1>8. WorkFits(work, sends, txs)
  BY <1>2, NoWork
<1>9. VisitFits
  BY <1>2 DEF VisitFits
<1>10. [burn |-> burn, hadAta |-> hadAta] \in Backings
  <2>1. start \in [burn : [Wallets -> Nat], hadAta : SUBSET Wallets]
    BY <1>1, DeliveryAssumption
  <2>2. start = [burn |-> start.burn, hadAta |-> start.hadAta]
    BY <2>1
  <2> QED
    BY <1>1, <2>2
<1>11. 1 \in 1..Max({Rounds, Sweeps})
  <2>1. Max({Rounds, Sweeps}) \in {Rounds, Sweeps}
    <3>1. Rounds \in Int /\ Sweeps \in Int
      BY DeliveryAssumption
    <3> QED
      BY <3>1, OfTwo
  <2>2. Max({Rounds, Sweeps}) \in Nat \ {0}
    BY <2>1, DeliveryAssumption
  <2> QED
    BY <2>2
<1>12. OtherTypes
  <2>1. 0 \in 0..MaxCrashes /\ 0 \in 0..0 /\ 0 \in Nat /\ FALSE \in BOOLEAN
    BY DeliveryAssumption
  <2>2. [w \in Wallets |-> 0] \in [Wallets -> Nat]
    OBVIOUS
  <2> QED
    BY <1>10, <1>11, <2>1, <2>2 DEF OtherTypes, Init
<1> QED
  BY <1>6, <1>7, <1>8, <1>9, <1>12 DEF IInv

-----------------------------------------------------------------------------
(* More about sums.                                                        *)

\* A smaller number for each leaves a smaller sum.
LEMMA SumOfLess ==
  ASSUME NEW S, IsFiniteSet(S), NEW f, NEW g,
         \A x \in S : f[x] \in Nat /\ g[x] \in Nat /\ f[x] <= g[x]
  PROVE  /\ SumFunctionOnSet(f, S) <= SumFunctionOnSet(g, S)
         /\ SumFunctionOnSet(f, S) \in Nat /\ SumFunctionOnSet(g, S) \in Nat
<1> DEFINE F == SumFunctionOnSet(f, S)
           G == SumFunctionOnSet(g, S)
<1>1. \A x \in S : f[x] \in Nat /\ g[x] \in Nat /\ f[x] * 1 <= 1 * g[x]
  OBVIOUS
<1>2. S \in SUBSET S /\ 1 \in Nat
  OBVIOUS
<1>3. F * 1 <= 1 * G
  BY <1>1, <1>2, SumOfShares
<1>4. F \in Nat /\ G \in Nat
  BY <1>2, SumIsNat
<1> HIDE DEF F, G
<1>5. F <= G
  BY <1>3, <1>4
<1> QED
  BY <1>4, <1>5 DEF F, G

\* The same numbers add up to the same.
LEMMA SumOfEqual ==
  ASSUME NEW S, IsFiniteSet(S), NEW f, NEW g, \A x \in S : f[x] \in Nat /\ f[x] = g[x]
  PROVE  SumFunctionOnSet(f, S) = SumFunctionOnSet(g, S)
<1> DEFINE F == SumFunctionOnSet(f, S)
           G == SumFunctionOnSet(g, S)
<1>1. \A x \in S : f[x] \in Nat /\ g[x] \in Nat /\ f[x] <= g[x] /\ g[x] <= f[x]
  OBVIOUS
<1>2. F <= G /\ F \in Nat /\ G \in Nat
  BY <1>1, SumOfLess
<1>3. G <= F
  BY <1>1, SumOfLess
<1> HIDE DEF F, G
<1>4. F = G
  BY <1>2, <1>3
<1> QED
  BY <1>4 DEF F, G

\* A sum is that of a part and that of the rest.
LEMMA SumOfParts ==
  ASSUME NEW S, IsFiniteSet(S), NEW f, \A x \in S : f[x] \in Nat, NEW R \in SUBSET S
  PROVE  /\ SumFunctionOnSet(f, S) = SumFunctionOnSet(f, R) + SumFunctionOnSet(f, S \ R)
         /\ SumFunctionOnSet(f, R) \in Nat /\ SumFunctionOnSet(f, S \ R) \in Nat
         /\ SumFunctionOnSet(f, S) \in Nat
<1> DEFINE Sum(T) == SumFunctionOnSet(f, T)
           P == {T \in SUBSET S : Sum(T) = Sum(T \intersect R) + Sum(T \ R)}
<1>n. \A T \in SUBSET S : Sum(T) \in Nat
  BY SumIsNat
<1>t. \A T \in SUBSET S : \A x \in T : Sum(T) = f[x] + Sum(T \ {x})
  <2> SUFFICES ASSUME NEW T \in SUBSET S, NEW x \in T PROVE Sum(T) = f[x] + Sum(T \ {x})
    OBVIOUS
  <2> QED
    BY SumTakesOut
<1>0. Sum({}) = 0
  BY SumOfFew
<1> HIDE DEF Sum
<1>1. ASSUME NEW T \in SUBSET S, \A U \in SUBSET T : U # T => U \in P PROVE T \in P
  <2>1. CASE T = {}
    <3>1. T \intersect R = {} /\ T \ R = {}
      BY <2>1
    <3> QED
      BY <2>1, <3>1, <1>0
  <2>2. CASE T # {}
    <3>1. PICK c \in T : TRUE
      BY <2>2
    <3> DEFINE U == T \ {c}
               A == T \intersect R
               B == T \ R
    <3>2. U \in P /\ U \in SUBSET S /\ A \in SUBSET S /\ B \in SUBSET S
      BY <1>1
    <3>3. Sum(T) = f[c] + Sum(U) /\ f[c] \in Nat /\ Sum(U) = Sum(U \intersect R) + Sum(U \ R)
      BY <1>t, <3>2
    <3>4. CASE c \in R
      <4>1. U \intersect R = A \ {c} /\ U \ R = B /\ c \in A
        BY <3>4
      <4>2. Sum(A) = f[c] + Sum(A \ {c})
        BY <1>t, <3>2, <4>1
      <4>3. Sum(A \ {c}) \in Nat /\ Sum(B) \in Nat
        BY <1>n, <3>2
      <4>4. Sum(U \intersect R) = Sum(A \ {c}) /\ Sum(U \ R) = Sum(B)
        BY <4>1
      <4> HIDE DEF U, A, B
      <4>5. Sum(T) = Sum(A) + Sum(B)
        BY <3>3, <4>2, <4>3, <4>4
      <4> QED
        BY <4>5 DEF A, B
    <3>5. CASE c \notin R
      <4>1. U \intersect R = A /\ U \ R = B \ {c} /\ c \in B
        BY <3>5
      <4>2. Sum(B) = f[c] + Sum(B \ {c})
        BY <1>t, <3>2, <4>1
      <4>3. Sum(B \ {c}) \in Nat /\ Sum(A) \in Nat
        BY <1>n, <3>2
      <4>4. Sum(U \intersect R) = Sum(A) /\ Sum(U \ R) = Sum(B \ {c})
        BY <4>1
      <4> HIDE DEF U, A, B
      <4>5. Sum(T) = Sum(A) + Sum(B)
        BY <3>3, <4>2, <4>3, <4>4
      <4> QED
        BY <4>5 DEF A, B
    <3> QED
      BY <3>4, <3>5
  <2> QED
    BY <2>1, <2>2
<1>2. SUBSET S \subseteq P
  <2> HIDE DEF P
  <2> QED
    BY <1>1, SmallerFirst
<1>3. S \intersect R = R /\ S \in P /\ S \ R \in SUBSET S
  BY <1>2
<1> QED
  BY <1>3, <1>n DEF Sum

\* Two numbers for each add up to the two sums.
LEMMA SumOfBoth ==
  ASSUME NEW S, IsFiniteSet(S), NEW f, NEW g, NEW h,
         \A x \in S : f[x] \in Nat /\ g[x] \in Nat /\ h[x] = f[x] + g[x]
  PROVE  SumFunctionOnSet(h, S) = SumFunctionOnSet(f, S) + SumFunctionOnSet(g, S)
<1> DEFINE F(T) == SumFunctionOnSet(f, T)
           G(T) == SumFunctionOnSet(g, T)
           H(T) == SumFunctionOnSet(h, T)
           P == {T \in SUBSET S : H(T) = F(T) + G(T)}
<1>0. \A x \in S : f[x] \in Nat /\ g[x] \in Nat /\ h[x] \in Nat
  OBVIOUS
<1>n. \A T \in SUBSET S : F(T) \in Nat /\ G(T) \in Nat /\ H(T) \in Nat
  <2>1. \A T \in SUBSET S : F(T) \in Nat
    BY <1>0, SumIsNat
  <2>2. \A T \in SUBSET S : G(T) \in Nat
    BY <1>0, SumIsNat
  <2>3. \A T \in SUBSET S : H(T) \in Nat
    BY <1>0, SumIsNat
  <2> QED
    BY <2>1, <2>2, <2>3
<1>1. ASSUME NEW T \in SUBSET S, \A U \in SUBSET T : U # T => U \in P PROVE T \in P
  <2> DEFINE c == FirstOf(T)
             U == T \ {c}
  <2>1. IsFiniteSet(T)
    BY FS_Subset
  <2>2. F(T) = (IF T = {} THEN 0 ELSE f[c] + F(U))
    BY <2>1, SumFirst
  <2>3. G(T) = (IF T = {} THEN 0 ELSE g[c] + G(U))
    BY <2>1, SumFirst
  <2>4. H(T) = (IF T = {} THEN 0 ELSE h[c] + H(U))
    BY <2>1, SumFirst
  <2>5. T # {} => c \in T /\ c \in S /\ U \in P /\ U \in SUBSET S
    BY <1>1 DEF FirstOf
  <2> HIDE DEF F, G, H, c
  <2>6. H(T) = F(T) + G(T)
    <3>1. CASE T = {}
      BY <2>2, <2>3, <2>4, <3>1
    <3>2. CASE T # {}
      <4>1. H(U) = F(U) + G(U) /\ h[c] = f[c] + g[c] /\ f[c] \in Nat /\ g[c] \in Nat
        BY <2>5, <3>2
      <4>2. F(U) \in Nat /\ G(U) \in Nat
        BY <1>n, <2>5, <3>2
      <4> HIDE DEF U
      <4> QED
        BY <2>2, <2>3, <2>4, <3>2, <4>1, <4>2
    <3> QED
      BY <3>1, <3>2
  <2> QED
    BY <2>6
<1>2. SUBSET S \subseteq P
  <2> HIDE DEF P
  <2> QED
    BY <1>1, SmallerFirst
<1>3. S \in P
  BY <1>2
<1> QED
  BY <1>3

\* The same number for each is counted as often.
LEMMA SumOfSame ==
  ASSUME NEW S, IsFiniteSet(S), NEW f, NEW c \in Nat, \A x \in S : f[x] = c
  PROVE  SumFunctionOnSet(f, S) = Cardinality(S) * c
<1> DEFINE Sum(T) == SumFunctionOnSet(f, T)
           Size(T) == Cardinality(T)
           P == {T \in SUBSET S : Sum(T) = Size(T) * c}
<1>n. \A T \in SUBSET S : Size(T) \in Nat /\ IsFiniteSet(T)
  BY FS_Subset, FS_CardinalityType
<1>0. Sum({}) = 0 /\ Size({}) = 0
  BY SumOfFew, FS_EmptySet
<1>t. \A T \in SUBSET S : \A x \in T : Sum(T) = c + Sum(T \ {x}) /\ Size(T) = Size(T \ {x}) + 1
  <2> SUFFICES ASSUME NEW T \in SUBSET S, NEW x \in T
               PROVE  Sum(T) = c + Sum(T \ {x}) /\ Size(T) = Size(T \ {x}) + 1
    OBVIOUS
  <2>1. Sum(T) = f[x] + Sum(T \ {x}) /\ f[x] = c
    BY SumTakesOut
  <2>2. Size(T \ {x}) = Size(T) - 1 /\ Size(T) \in Nat
    BY <1>n, FS_RemoveElement
  <2> HIDE DEF Sum, Size
  <2> QED
    BY <2>1, <2>2
<1> HIDE DEF Sum, Size
<1>1. ASSUME NEW T \in SUBSET S, \A U \in SUBSET T : U # T => U \in P PROVE T \in P
  <2>1. CASE T = {}
    <3>1. 0 = 0 * c
      OBVIOUS
    <3> QED
      BY <2>1, <3>1, <1>0
  <2>2. CASE T # {}
    <3>1. PICK x \in T : TRUE
      BY <2>2
    <3> DEFINE U == T \ {x}
    <3>2. U \in P /\ U \in SUBSET S
      BY <1>1
    <3>3. Sum(T) = c + Sum(U) /\ Size(T) = Size(U) + 1 /\ Size(U) \in Nat /\ Sum(U) = Size(U) * c
      BY <1>n, <1>t, <3>2
    <3> HIDE DEF U
    <3>4. \A n \in Nat : c + n * c = (n + 1) * c
      OBVIOUS
    <3>5. Sum(T) = Size(T) * c
      BY <3>3, <3>4
    <3> QED
      BY <3>5
  <2> QED
    BY <2>1, <2>2
<1>2. SUBSET S \subseteq P
  <2> HIDE DEF P
  <2> QED
    BY <1>1, SmallerFirst
<1>3. S \in P
  BY <1>2
<1> QED
  BY <1>3 DEF Sum, Size

\* One number among nothing.
LEMMA SumOfOne ==
  ASSUME NEW S, IsFiniteSet(S), NEW f, NEW x \in S, f[x] \in Nat, \A y \in S : y # x => f[y] = 0
  PROVE  SumFunctionOnSet(f, S) = f[x]
<1>1. \A y \in S : f[y] \in Nat
  OBVIOUS
<1>2. SumFunctionOnSet(f, S) = f[x] + SumFunctionOnSet(f, S \ {x})
  BY <1>1, SumOfRest
<1>3. SumFunctionOnSet(f, S \ {x}) = Cardinality(S \ {x}) * 0
  <2> DEFINE R == S \ {x}
  <2>1. IsFiniteSet(R) /\ 0 \in Nat /\ \A y \in R : f[y] = 0
    BY FS_RemoveElement
  <2> HIDE DEF R
  <2>2. SumFunctionOnSet(f, R) = Cardinality(R) * 0
    BY <2>1, SumOfSame
  <2> QED
    BY <2>2 DEF R
<1>4. Cardinality(S \ {x}) \in Nat
  BY FS_RemoveElement, FS_CardinalityType
<1> QED
  BY <1>2, <1>3, <1>4

\* Sums by kind add up to the sum.
LEMMA SumByKind ==
  ASSUME NEW S, IsFiniteSet(S), NEW f, \A x \in S : f[x] \in Nat,
         NEW W, IsFiniteSet(W), NEW kind, \A x \in S : kind[x] \in W
  PROVE  SumFunctionOnSet([w \in W |-> SumFunctionOnSet(f, {x \in S : kind[x] = w})], W)
           = SumFunctionOnSet(f, S)
<1> DEFINE Sum(T) == SumFunctionOnSet(f, T)
           Of(T, w) == {x \in T : kind[x] = w}
           Kinds(T) == [w \in W |-> Sum(Of(T, w))]
           P == {T \in SUBSET S : SumFunctionOnSet(Kinds(T), W) = Sum(T)}
<1>n. \A T \in SUBSET S : Sum(T) \in Nat
  BY SumIsNat
<1>t. \A T \in SUBSET S : \A x \in T : Sum(T) = f[x] + Sum(T \ {x})
  <2> SUFFICES ASSUME NEW T \in SUBSET S, NEW x \in T PROVE Sum(T) = f[x] + Sum(T \ {x})
    OBVIOUS
  <2> QED
    BY SumTakesOut
<1>0. Sum({}) = 0
  BY SumOfFew
<1> HIDE DEF Sum
<1>1. ASSUME NEW T \in SUBSET S, \A U \in SUBSET T : U # T => U \in P PROVE T \in P
  <2>1. CASE T = {}
    <3> DEFINE k == Kinds(T)
    <3>1. \A w \in W : Of(T, w) = {}
      BY <2>1
    <3>2. \A w \in W : k[w] = 0
      BY <3>1, <1>0
    <3> HIDE DEF k
    <3>3. SumFunctionOnSet(k, W) = Cardinality(W) * 0 /\ Cardinality(W) \in Nat
      BY <3>2, SumOfSame, FS_CardinalityType
    <3>4. SumFunctionOnSet(k, W) = 0
      BY <3>3
    <3> QED
      BY <2>1, <1>0, <3>4 DEF k
  <2>2. CASE T # {}
    <3>1. PICK c \in T : TRUE
      BY <2>2
    <3> DEFINE U == T \ {c}
               k == Kinds(T)
               l == Kinds(U)
               d == [w \in W |-> IF w = kind[c] THEN f[c] ELSE 0]
    <3>2. U \in P /\ U \in SUBSET S /\ c \in S /\ f[c] \in Nat /\ kind[c] \in W
      BY <1>1
    <3>3. Sum(T) = f[c] + Sum(U)
      BY <1>t
    <3>4. ASSUME NEW w \in W PROVE l[w] \in Nat /\ d[w] \in Nat /\ k[w] = l[w] + d[w]
      <4>1. Of(U, w) \in SUBSET S /\ Of(T, w) \in SUBSET S
        OBVIOUS
      <4>2. Sum(Of(U, w)) \in Nat
        BY <1>n, <4>1
      <4>3. CASE w = kind[c]
        <5>1. c \in Of(T, w) /\ Of(T, w) \ {c} = Of(U, w)
          BY <4>3
        <5>2. Sum(Of(T, w)) = f[c] + Sum(Of(U, w))
          BY <1>t, <4>1, <5>1
        <5> HIDE DEF Of
        <5> QED
          BY <3>2, <4>2, <4>3, <5>2
      <4>4. CASE w # kind[c]
        <5>1. Of(T, w) = Of(U, w)
          BY <4>4
        <5> HIDE DEF Of
        <5> QED
          BY <4>2, <4>4, <5>1
      <4> QED
        BY <4>3, <4>4
    <3>5. d[kind[c]] = f[c] /\ \A w \in W : w # kind[c] => d[w] = 0
      BY <3>2
    <3>6. SumFunctionOnSet(l, W) = Sum(U)
      BY <3>2
    <3> HIDE DEF k, l, d, U
    <3>7. SumFunctionOnSet(k, W) = SumFunctionOnSet(l, W) + SumFunctionOnSet(d, W)
      BY <3>4, SumOfBoth
    <3>8. SumFunctionOnSet(d, W) = f[c]
      <4>1. kind[c] \in W /\ d[kind[c]] \in Nat
        BY <3>2, <3>5
      <4> QED
        BY <3>5, <4>1, SumOfOne
    <3>9. SumFunctionOnSet(k, W) = Sum(T)
      <4>1. Sum(U) \in Nat
        BY <1>n, <3>2
      <4> QED
        BY <3>2, <3>3, <3>6, <3>7, <3>8, <4>1
    <3> QED
      BY <3>9 DEF k
  <2> QED
    BY <2>1, <2>2
<1>2. SUBSET S \subseteq P
  <2> HIDE DEF P
  <2> QED
    BY <1>1, SmallerFirst
<1>3. S \in P
  BY <1>2
<1> QED
  BY <1>3 DEF Sum

-----------------------------------------------------------------------------
(* The amounts where the balance covers what is missing.                   *)

\* A finite set of numbers that has any has a largest.
LEMMA LargestIsOne ==
  ASSUME NEW S \in SUBSET Nat, IsFiniteSet(S)
  PROVE  \A T \in SUBSET S : T # {} => Max(T) \in T
<1> DEFINE P == {T \in SUBSET S : T # {} => \E x \in T : \A y \in T : x >= y}
<1>1. ASSUME NEW T \in SUBSET S, \A U \in SUBSET T : U # T => U \in P PROVE T \in P
  <2> SUFFICES ASSUME NEW c \in T PROVE \E x \in T : \A y \in T : x >= y
    OBVIOUS
  <2> DEFINE U == T \ {c}
  <2>1. U \in P /\ c \in Nat /\ T \subseteq Nat /\ T = U \cup {c}
    BY <1>1
  <2> HIDE DEF U
  <2>2. CASE U = {}
    <3>1. \A y \in T : y = c /\ c >= y
      BY <2>1, <2>2
    <3> QED
      BY <3>1
  <2>3. CASE U # {}
    <3>1. PICK x \in U : \A y \in U : x >= y
      BY <2>1, <2>3
    <3>2. x \in Nat /\ U \subseteq Nat
      BY <2>1
    <3>3. CASE x >= c
      BY <2>1, <3>1, <3>3
    <3>4. CASE ~(x >= c)
      <4>1. \A y \in U : c >= y
        BY <2>1, <3>1, <3>2, <3>4
      <4> QED
        BY <2>1, <4>1
    <3> QED
      BY <3>3, <3>4
  <2> QED
    BY <2>2, <2>3
<1>2. SUBSET S \subseteq P
  <2> HIDE DEF P
  <2> QED
    BY <1>1, SmallerFirst
<1> QED
  BY <1>2 DEF Max

\* What n sends of x get, split evenly, the last with what is left.
LEMMA SharesOf ==
  ASSUME NEW S, IsFiniteSet(S), NEW l \in S, NEW x \in Nat, NEW f,
         LET each == x \div Cardinality(S) IN
         /\ f[l] = x - (Cardinality(S) - 1) * each
         /\ \A i \in S : i # l => f[i] = each
  PROVE  SumFunctionOnSet(f, S) = x /\ \A i \in S : f[i] \in Nat
<1> DEFINE n == Cardinality(S)
           each == x \div n
           rest == S \ {l}
<1>1. n \in Nat /\ IsFiniteSet(rest) /\ Cardinality(rest) = n - 1
  BY FS_CardinalityType, FS_RemoveElement
<1>2. n # 0
  BY FS_EmptySet
<1>3. f[l] = x - (n - 1) * each /\ \A i \in rest : f[i] = each
  OBVIOUS
<1>4. each \in Nat /\ each * (n - 1) <= x
  <2> HIDE DEF n
  <2> QED
    BY <1>1, <1>2, RoundsDown
<1> HIDE DEF each, n
<1>5. (n - 1) * each = each * (n - 1) /\ (n - 1) * each \in Nat
  <2>1. \A a, b \in Nat : a # 0 => (a - 1) * b = b * (a - 1) /\ (a - 1) * b \in Nat
    <3> SUFFICES ASSUME NEW a \in Nat, NEW b \in Nat, a # 0
                 PROVE  (a - 1) * b = b * (a - 1) /\ (a - 1) * b \in Nat
      OBVIOUS
    <3>1. a - 1 \in Nat
      OBVIOUS
    <3> DEFINE c == a - 1
    <3>2. c \in Nat
      BY <3>1
    <3> HIDE DEF c
    <3>3. c * b = b * c /\ c * b \in Nat
      BY <3>2
    <3> QED
      BY <3>3 DEF c
  <2> QED
    BY <1>1, <1>2, <1>4, <2>1
<1>6. f[l] \in Nat /\ f[l] + (n - 1) * each = x
  BY <1>3, <1>4, <1>5
<1>7. \A i \in S : f[i] \in Nat
  BY <1>3, <1>4, <1>6
<1>8. SumFunctionOnSet(f, S) = f[l] + SumFunctionOnSet(f, rest)
  BY <1>7, SumOfRest
<1>9. SumFunctionOnSet(f, rest) = Cardinality(rest) * each
  <2> HIDE DEF rest
  <2> QED
    BY <1>1, <1>3, <1>4, SumOfSame
<1>10. SumFunctionOnSet(f, S) = x
  BY <1>1, <1>6, <1>8, <1>9
<1> QED
  BY <1>7, <1>10

\* What a sum leaves for one when the others have had theirs.
LEMMA LeftForOne ==
  ASSUME NEW S, IsFiniteSet(S), NEW f, NEW g, \A x \in S : f[x] \in Nat /\ g[x] = f[x], NEW x \in S
  PROVE  SumFunctionOnSet(f, S) - SumFunctionOnSet(g, S \ {x}) = f[x]
<1> DEFINE R == S \ {x}
<1>1. SumFunctionOnSet(f, S) = f[x] + SumFunctionOnSet(f, R) /\ SumFunctionOnSet(f, R) \in Nat
  BY SumOfRest
<1>2. SumFunctionOnSet(f, R) = SumFunctionOnSet(g, R)
  <2>1. IsFiniteSet(R) /\ \A y \in R : f[y] \in Nat /\ f[y] = g[y]
    BY FS_RemoveElement
  <2> HIDE DEF R
  <2> QED
    BY <2>1, SumOfEqual
<1> QED
  BY <1>1, <1>2

\* The wallets of some sends.
WalletsOf(s, active) == {s[i].wallet : i \in active}

\* What the wallets of the active sends are short of.
Shortage(s, active, sent, target) ==
  [w \in WalletsOf(s, active) |-> Max({0, target[w] - sent[w]})]

\* A wallet's sends are given, together, what it is short of.
LEMMA AmountsAddUp ==
  ASSUME NEW s, NEW active \in SUBSET Nat, IsFiniteSet(active),
         \A i \in active : s[i].wallet \in Wallets,
         NEW balance \in Nat, NEW sent \in [Wallets -> Nat], NEW target \in [Wallets -> Int],
         NEW short, short = Shortage(s, active, sent, target),
         SumFunctionOnSet(short, WalletsOf(s, active)) <= balance,
         NEW amount, amount = DeficitAmounts(s, active, balance, sent, target)
  PROVE  \A w \in WalletsOf(s, active) :
           SumFunctionOnSet(amount, {i \in active : s[i].wallet = w}) = short[w]
<1> DEFINE wallets  == {s[i].wallet : i \in active}
           Of(w)    == {i \in active : s[i].wallet = w}
           last     == CHOOSE w \in wallets : \A v \in wallets : Min(Of(v)) <= Min(Of(w))
           total    == SumFunction(short)
           part     == [w \in wallets |-> IF total <= balance THEN short[w]
                                          ELSE (balance * short[w]) \div total]
           Share(w) == IF w = last
                       THEN Min({total, balance}) - SumFunctionOnSet(part, wallets \ {w})
                       ELSE part[w]
           Each(w)  == Share(w) \div Cardinality(Of(w))
           Amount(i) == LET w == s[i].wallet IN
                        IF i = Max(Of(w)) THEN Share(w) - (Cardinality(Of(w)) - 1) * Each(w)
                        ELSE Each(w)
<1>0. wallets = WalletsOf(s, active)
  BY DEF WalletsOf
<1>1. wallets \subseteq Wallets /\ IsFiniteSet(wallets)
  <2>1. wallets \in SUBSET Wallets
    OBVIOUS
  <2> QED
    BY <2>1, SendAssumption, FS_Subset
<1>2. \A w \in wallets : short[w] \in Nat
  <2> SUFFICES ASSUME NEW w \in wallets PROVE short[w] \in Nat
    OBVIOUS
  <2>1. target[w] - sent[w] \in Int
    BY <1>1
  <2>2. Max({0, target[w] - sent[w]}) \in Nat
    BY <2>1, OfTwoNats
  <2> QED
    BY <1>0, <2>2 DEF Shortage
<1>3. total = SumFunctionOnSet(short, wallets) /\ total <= balance
  <2>1. DOMAIN short = wallets
    BY <1>0 DEF Shortage
  <2> QED
    BY <1>0, <2>1 DEF SumFunction
<1>4. total \in Nat
  <2> HIDE DEF wallets, total
  <2> QED
    BY <1>1, <1>2, <1>3, SumIsNat
<1>5. amount = [i \in active |-> Amount(i)]
  <2>1. short = [w \in wallets |-> Max({0, target[w] - sent[w]})]
    BY <1>0 DEF Shortage
  <2> QED
    BY <2>1 DEF DeficitAmounts
<1>6. \A w \in wallets : part[w] = short[w]
  <2> HIDE DEF total, wallets
  <2> QED
    BY <1>3
<1>7. Min({total, balance}) = total
  <2> HIDE DEF total
  <2>1. Min({total, balance}) \in {total, balance} /\ Min({total, balance}) <= total
        /\ Min({total, balance}) <= balance
    BY <1>4, OfTwoNats
  <2> QED
    BY <1>3, <1>4, <2>1
<1> HIDE DEF part, last, total
<1>8. ASSUME NEW w \in wallets PROVE Share(w) = short[w]
  <2> HIDE DEF wallets
  <2>1. /\ w \in wallets /\ IsFiniteSet(wallets)
        /\ \A v \in wallets : short[v] \in Nat /\ part[v] = short[v]
    BY <1>1, <1>2, <1>6, <1>8
  <2>2. SumFunctionOnSet(short, wallets) - SumFunctionOnSet(part, wallets \ {w}) = short[w]
    BY ONLY <2>1, LeftForOne
  <2> QED
    BY <1>3, <1>7, <2>1, <2>2
<1> HIDE DEF Share
<1>9. ASSUME NEW w \in wallets PROVE SumFunctionOnSet(amount, Of(w)) = short[w]
  <2> DEFINE T == Of(w)
             l == Max(T)
             each == short[w] \div Cardinality(T)
  <2>1. T \in SUBSET active /\ T # {} /\ IsFiniteSet(T)
    <3>1. T \in SUBSET active
      OBVIOUS
    <3>2. T # {}
      BY <1>9
    <3> QED
      BY <3>1, <3>2, FS_Subset
  <2>2. l \in T
    <3> HIDE DEF T
    <3> QED
      BY <2>1, LargestIsOne
  <2>3. \A i \in T : i \in active /\ s[i].wallet = w
    OBVIOUS
  <2>4. \A i \in T : amount[i] = Amount(i)
    BY <1>5, <2>3
  <2>5. Each(w) = each /\ Share(w) = short[w]
    BY <1>8, <1>9
  <2> HIDE DEF Each
  <2>6. \A i \in T : Amount(i) = IF i = l THEN short[w] - (Cardinality(T) - 1) * each ELSE each
    <3> SUFFICES ASSUME NEW i \in T
                 PROVE  Amount(i) = IF i = l THEN short[w] - (Cardinality(T) - 1) * each ELSE each
      OBVIOUS
    <3>1. s[i].wallet = w
      BY <2>3
    <3>2. Amount(i) = IF i = Max(Of(w)) THEN Share(w) - (Cardinality(Of(w)) - 1) * Each(w) ELSE Each(w)
      BY <3>1
    <3> QED
      BY <2>5, <3>2
  <2> HIDE DEF Amount, Of
  <2>7. /\ amount[l] = short[w] - (Cardinality(T) - 1) * each
        /\ \A i \in T : i # l => amount[i] = each
    BY <2>2, <2>4, <2>6
  <2>8. short[w] \in Nat
    BY <1>2, <1>9
  <2> HIDE DEF T, l
  <2>9. SumFunctionOnSet(amount, T) = short[w]
    <3>1. IsFiniteSet(T) /\ l \in T /\ short[w] \in Nat
      BY <2>1, <2>2, <2>8
    <3> QED
      BY ONLY <2>7, <3>1, SharesOf
  <2> QED
    BY <2>9 DEF T
<1> QED
  BY <1>0, <1>9

-----------------------------------------------------------------------------
(* What a wallet has a claim to, and what has arrived.                     *)

\* Numbers that are nothing outside a part.
LEMMA SumOnPart ==
  ASSUME NEW S, IsFiniteSet(S), NEW R \in SUBSET S, NEW f, NEW g,
         \A x \in R : f[x] \in Nat /\ f[x] = g[x], \A x \in S \ R : f[x] = 0
  PROVE  SumFunctionOnSet(f, S) = SumFunctionOnSet(g, R)
         /\ SumFunctionOnSet(f, S) \in Nat
<1> DEFINE Q == S \ R
<1>1. IsFiniteSet(R) /\ IsFiniteSet(Q)
  BY FS_Subset
<1>2. \A x \in S : f[x] \in Nat
  OBVIOUS
<1>3. SumFunctionOnSet(f, S) = SumFunctionOnSet(f, R) + SumFunctionOnSet(f, Q)
      /\ SumFunctionOnSet(f, R) \in Nat
  BY <1>2, SumOfParts
<1>4. SumFunctionOnSet(f, Q) = Cardinality(Q) * 0 /\ Cardinality(Q) \in Nat
  <2>1. \A x \in Q : f[x] = 0
    OBVIOUS
  <2> HIDE DEF Q
  <2> QED
    BY <1>1, <2>1, SumOfSame, FS_CardinalityType
<1>5. SumFunctionOnSet(f, R) = SumFunctionOnSet(g, R)
  BY <1>1, SumOfEqual
<1> QED
  BY <1>3, <1>4, <1>5

\* The records of a wallet.
RecordsOf(s, w) == {i \in DOMAIN s : s[i].wallet = w}

\* Something is carried for a record, or may still be; something has landed.
Borne(t, i) == \E k \in DOMAIN t : Carries(t, k, i)
Landed(t, i) == \E k \in DOMAIN t : i \in DOMAIN t[k].pays /\ t[k].fate = "landed"

\* What a record has a claim to: what it was delivered, what it is marked with,
\* what may land for it.
Claims(s, t) ==
  [i \in DOMAIN s |-> IF s[i].status \in {"completed", "in_progress"} \/ Borne(t, i)
                      THEN s[i].amount ELSE 0]
Claimed(s, t, w) == SumFunctionOnSet(Claims(s, t), RecordsOf(s, w))

\* What has arrived for a record.
Arrivals(s, t) == [i \in DOMAIN s |-> IF Landed(t, i) THEN s[i].amount ELSE 0]
Arrived(s, t, w) == SumFunctionOnSet(Arrivals(s, t), RecordsOf(s, w))

\* What the records of a wallet say it was delivered.
SentTo(s, w) ==
  SumFunctionOnSet([i \in DOMAIN s |-> s[i].amount],
                   {i \in {j \in DOMAIN s : s[j].status = "completed"} : s[i].wallet = w})

\* A transfer carries what the record says, a record that was satisfied holds no
\* signature, and g is what has arrived for each wallet.
CarriesAmount(s, t) ==
  \A k \in DOMAIN t, i \in DOMAIN s : Carries(t, k, i) => t[k].pays[i] = s[i].amount

SatisfiedBare(s) == \A i \in DOMAIN s : s[i].status = "satisfied" => s[i].tx = 0

ArrivedIs(s, t, g) == \A w \in Wallets : g[w] = Arrived(s, t, w)

BooksFit(s, t, g) == CarriesAmount(s, t) /\ SatisfiedBare(s) /\ ArrivedIs(s, t, g)

\* Records are finitely many, and have whole claims; what has landed is claimed.
LEMMA Booked ==
  ASSUME NEW s, NEW t, FilesTyped(s, t)
  PROVE  /\ IsFiniteSet(DOMAIN s) /\ DOMAIN s \subseteq Nat
         /\ \A w : /\ RecordsOf(s, w) \in SUBSET DOMAIN s /\ IsFiniteSet(RecordsOf(s, w))
                   /\ Claimed(s, t, w) \in Nat /\ Arrived(s, t, w) \in Nat
                   /\ Arrived(s, t, w) <= Claimed(s, t, w)
         /\ \A i \in DOMAIN s :
              /\ s[i].amount \in Nat
              /\ Claims(s, t)[i] = IF s[i].status \in {"completed", "in_progress"} \/ Borne(t, i)
                                   THEN s[i].amount ELSE 0
              /\ Arrivals(s, t)[i] = IF Landed(t, i) THEN s[i].amount ELSE 0
<1>1. /\ DOMAIN s = 1..Len(s) /\ Len(s) \in Nat /\ \A i \in DOMAIN s : s[i].amount \in Nat
  BY Typed
<1>2. IsFiniteSet(DOMAIN s) /\ DOMAIN s \subseteq Nat
  BY <1>1, FS_Interval
<1>3. \A i \in DOMAIN s :
        /\ Claims(s, t)[i] = IF s[i].status \in {"completed", "in_progress"} \/ Borne(t, i)
                             THEN s[i].amount ELSE 0
        /\ Arrivals(s, t)[i] = IF Landed(t, i) THEN s[i].amount ELSE 0
  BY DEF Claims, Arrivals
<1>4. \A i : Landed(t, i) => Borne(t, i)
  BY DEF Landed, Borne, Carries
<1>5. \A i \in DOMAIN s : /\ Arrivals(s, t)[i] \in Nat /\ Claims(s, t)[i] \in Nat
                          /\ Arrivals(s, t)[i] <= Claims(s, t)[i]
  BY <1>1, <1>3, <1>4
<1>6. ASSUME NEW w
      PROVE  /\ RecordsOf(s, w) \in SUBSET DOMAIN s /\ IsFiniteSet(RecordsOf(s, w))
             /\ Claimed(s, t, w) \in Nat /\ Arrived(s, t, w) \in Nat
             /\ Arrived(s, t, w) <= Claimed(s, t, w)
  <2>1. RecordsOf(s, w) \in SUBSET DOMAIN s
    BY DEF RecordsOf
  <2>2. IsFiniteSet(RecordsOf(s, w))
    BY <1>2, <2>1, FS_Subset
  <2>3. \A i \in RecordsOf(s, w) : /\ Arrivals(s, t)[i] \in Nat /\ Claims(s, t)[i] \in Nat
                                   /\ Arrivals(s, t)[i] <= Claims(s, t)[i]
    BY <1>5, <2>1
  <2> QED
    BY <2>1, <2>2, <2>3, SumOfLess DEF Claimed, Arrived
<1> QED
  BY <1>1, <1>2, <1>3, <1>6

\* Smaller claims of the same records.
LEMMA ClaimsFall ==
  ASSUME NEW s, NEW t, FilesTyped(s, t), NEW r, NEW u, FilesTyped(r, u), DOMAIN r = DOMAIN s,
         \A i \in DOMAIN s : r[i].wallet = s[i].wallet, NEW w,
         \A i \in RecordsOf(s, w) : Claims(r, u)[i] <= Claims(s, t)[i]
  PROVE  Claimed(r, u, w) <= Claimed(s, t, w)
<1>1. RecordsOf(r, w) = RecordsOf(s, w)
  BY DEF RecordsOf
<1>2. RecordsOf(s, w) \in SUBSET DOMAIN s /\ IsFiniteSet(RecordsOf(s, w))
  BY Booked
<1>3. \A i \in DOMAIN s : Claims(s, t)[i] \in Nat /\ Claims(r, u)[i] \in Nat
  <2>1. \A i \in DOMAIN s : Claims(s, t)[i] \in Nat
    BY Booked
  <2>2. \A i \in DOMAIN r : Claims(r, u)[i] \in Nat
    BY Booked
  <2> QED
    BY <2>1, <2>2
<1>4. \A i \in RecordsOf(s, w) : /\ Claims(r, u)[i] \in Nat /\ Claims(s, t)[i] \in Nat
                                 /\ Claims(r, u)[i] <= Claims(s, t)[i]
  BY <1>2, <1>3
<1> QED
  BY <1>1, <1>2, <1>4, SumOfLess DEF Claimed

\* The same arrivals of the same records.
LEMMA ArrivalsStay ==
  ASSUME NEW s, NEW t, FilesTyped(s, t), NEW r, NEW u, DOMAIN r = DOMAIN s,
         \A i \in DOMAIN s : r[i].wallet = s[i].wallet,
         \A i \in DOMAIN s : (Landed(u, i) <=> Landed(t, i)) /\ (Landed(t, i) => r[i].amount = s[i].amount)
  PROVE  \A g : ArrivedIs(s, t, g) => ArrivedIs(r, u, g)
<1>1. \A w : RecordsOf(r, w) = RecordsOf(s, w)
  BY DEF RecordsOf
<1>2. Arrivals(r, u) = Arrivals(s, t)
  BY DEF Arrivals
<1>3. \A w : Arrived(r, u, w) = Arrived(s, t, w)
  BY <1>1, <1>2 DEF Arrived
<1> QED
  BY <1>3 DEF ArrivedIs

\* What may become of record x while its amount stays.
Goes(x, y, t) ==
  /\ y.wallet = x.wallet /\ y.amount = x.amount
  /\ y.status = "in_progress" => x.status = "in_progress"
  /\ y.status = "completed" => x.status = "completed" \/ (x.tx # 0 /\ t[x.tx].fate = "landed")
  /\ y.status = "satisfied" => x.status = "satisfied" /\ y.tx \in {x.tx, 0}

\* Records that so move have no larger claims.
LEMMA RecordsGo ==
  ASSUME NEW s, NEW t, NEW g, FilesTyped(s, t), Paid(s, t), BooksFit(s, t, g),
         NEW r, FilesTyped(r, t), DOMAIN r = DOMAIN s, \A i \in DOMAIN s : Goes(s[i], r[i], t)
  PROVE  BooksFit(r, t, g) /\ \A w : Claimed(r, t, w) <= Claimed(s, t, w)
<1> USE DEF Goes
<1>1. CarriesAmount(r, t)
  BY DEF BooksFit, CarriesAmount
<1>2. SatisfiedBare(r)
  BY DEF BooksFit, SatisfiedBare
<1>3. ArrivedIs(r, t, g)
  <2>1. \A i \in DOMAIN s : r[i].wallet = s[i].wallet /\ r[i].amount = s[i].amount
    OBVIOUS
  <2> QED
    BY <2>1, ArrivalsStay DEF BooksFit
<1>4. ASSUME NEW i \in DOMAIN s PROVE Claims(r, t)[i] <= Claims(s, t)[i]
  <2>1. /\ s[i].amount \in Nat /\ i \in DOMAIN r /\ r[i].amount = s[i].amount
        /\ s[i].tx # 0 => s[i].tx \in DOMAIN t /\ i \in DOMAIN t[s[i].tx].pays
    BY Typed DEF Paid, RecordsFit
  <2>2. Claims(s, t)[i] = IF s[i].status \in {"completed", "in_progress"} \/ Borne(t, i)
                          THEN s[i].amount ELSE 0
    BY Booked
  <2>3. Claims(r, t)[i] = IF r[i].status \in {"completed", "in_progress"} \/ Borne(t, i)
                          THEN r[i].amount ELSE 0
    BY <2>1, Booked
  <2>4. s[i].tx # 0 /\ t[s[i].tx].fate = "landed" => Borne(t, i)
    BY <2>1 DEF Borne, Carries
  <2>5. r[i].status \in {"completed", "in_progress"} =>
          s[i].status \in {"completed", "in_progress"} \/ Borne(t, i)
    BY <2>4
  <2> QED
    BY <2>1, <2>2, <2>3, <2>5
<1>5. ASSUME NEW w PROVE Claimed(r, t, w) <= Claimed(s, t, w)
  <2>1. \A i \in RecordsOf(s, w) : Claims(r, t)[i] <= Claims(s, t)[i]
    BY <1>4 DEF RecordsOf
  <2>2. \A i \in DOMAIN s : r[i].wallet = s[i].wallet
    OBVIOUS
  <2> QED
    BY <2>1, <2>2, ClaimsFall
<1> QED
  BY <1>1, <1>2, <1>3, <1>5 DEF BooksFit

\* A transfer that is handed to a node, or can no longer land, adds no claims.
LEMMA FateGoes ==
  ASSUME NEW s, NEW t, NEW g, FilesTyped(s, t), Paid(s, t), BooksFit(s, t, g),
         NEW k \in DOMAIN t, t[k].fate \in {"signed", "flying"},
         NEW f \in {"flying", "void"}, NEW u, u = Fated(t, k, f)
  PROVE  BooksFit(s, u, g) /\ \A w : Claimed(s, u, w) <= Claimed(s, t, w)
<1>1. /\ FilesTyped(s, u) /\ DOMAIN u = DOMAIN t
      /\ u[k].fate = f /\ u[k].pays = t[k].pays
      /\ \A l \in DOMAIN t : l # k => u[l] = t[l]
  BY FateMoves
<1>2. \A l, i : Carries(u, l, i) => Carries(t, l, i)
  BY <1>1 DEF Carries
<1>3. \A i : (Landed(u, i) <=> Landed(t, i)) /\ (Borne(u, i) => Borne(t, i))
  <2>1. \A l \in DOMAIN t : u[l].pays = t[l].pays /\ (u[l].fate = "landed" <=> t[l].fate = "landed")
    BY <1>1
  <2> QED
    BY <1>1, <1>2, <2>1 DEF Landed, Borne
<1>4. CarriesAmount(s, u) /\ SatisfiedBare(s)
  <2>1. \A l \in DOMAIN t : u[l].pays = t[l].pays
    BY <1>1
  <2> QED
    BY <1>1, <1>2, <2>1 DEF BooksFit, CarriesAmount
<1>5. ArrivedIs(s, u, g)
  BY <1>3, ArrivalsStay DEF BooksFit
<1>6. ASSUME NEW w PROVE Claimed(s, u, w) <= Claimed(s, t, w)
  <2>1. ASSUME NEW i \in DOMAIN s PROVE Claims(s, u)[i] <= Claims(s, t)[i]
    <3>1. /\ s[i].amount \in Nat
          /\ Claims(s, t)[i] = IF s[i].status \in {"completed", "in_progress"} \/ Borne(t, i)
                               THEN s[i].amount ELSE 0
      BY Booked
    <3>2. Claims(s, u)[i] = IF s[i].status \in {"completed", "in_progress"} \/ Borne(u, i)
                            THEN s[i].amount ELSE 0
      BY <1>1, Booked
    <3> QED
      BY <1>3, <3>1, <3>2
  <2>2. \A i \in RecordsOf(s, w) : Claims(s, u)[i] <= Claims(s, t)[i]
    BY <2>1 DEF RecordsOf
  <2> QED
    BY <1>1, <2>2, ClaimsFall
<1> QED
  BY <1>4, <1>5, <1>6 DEF BooksFit

\* What transfer k brings wallet w.
Brings(t, k, s, w) == SumFunctionOnSet(t[k].pays, {i \in DOMAIN t[k].pays : s[i].wallet = w})

\* A transfer that lands brings each wallet what it had a claim to.
LEMMA FateLands ==
  ASSUME NEW s, NEW t, NEW g, FilesTyped(s, t), Paid(s, t), BooksFit(s, t, g),
         NEW k \in DOMAIN t, t[k].fate = "flying", NEW u, u = Fated(t, k, "landed"),
         NEW h, \A w \in Wallets : h[w] = g[w] + Brings(t, k, s, w)
  PROVE  BooksFit(s, u, h) /\ \A w : Claimed(s, u, w) <= Claimed(s, t, w)
<1>1. /\ FilesTyped(s, u) /\ DOMAIN u = DOMAIN t
      /\ u[k].fate = "landed" /\ u[k].pays = t[k].pays
      /\ \A l \in DOMAIN t : l # k => u[l] = t[l]
  <2>1. t[k].fate \in {"signed", "flying"} /\ "landed" \in {"flying", "landed", "void"}
    OBVIOUS
  <2> QED
    BY <2>1, FateMoves
<1>2. \A l, i : Carries(u, l, i) <=> Carries(t, l, i)
  BY <1>1 DEF Carries
<1>3. \A i : Borne(u, i) <=> Borne(t, i)
  BY <1>1, <1>2 DEF Borne
<1>4. CarriesAmount(s, u) /\ SatisfiedBare(s)
  <2>1. \A l \in DOMAIN t : u[l].pays = t[l].pays
    BY <1>1
  <2> QED
    BY <1>1, <1>2, <2>1 DEF BooksFit, CarriesAmount
<1>t. /\ DOMAIN t[k].pays \subseteq DOMAIN s /\ t[k].pays \in [DOMAIN t[k].pays -> Positive]
      /\ DOMAIN s \subseteq Nat /\ \A i \in DOMAIN s : s[i].amount \in Nat
  BY Typed, Booked
<1>5. ASSUME NEW i \in DOMAIN s
      PROVE  /\ Arrivals(s, t)[i] \in Nat
             /\ i \in DOMAIN t[k].pays => /\ Arrivals(s, u)[i] = t[k].pays[i] /\ Arrivals(s, t)[i] = 0
                                          /\ t[k].pays[i] \in Nat
             /\ i \notin DOMAIN t[k].pays => Arrivals(s, u)[i] = Arrivals(s, t)[i]
  <2>1. /\ Arrivals(s, t)[i] = IF Landed(t, i) THEN s[i].amount ELSE 0
        /\ Arrivals(s, u)[i] = IF Landed(u, i) THEN s[i].amount ELSE 0
        /\ s[i].amount \in Nat
    <3>1. Arrivals(s, t)[i] = (IF Landed(t, i) THEN s[i].amount ELSE 0) /\ s[i].amount \in Nat
      BY Booked
    <3>2. Arrivals(s, u)[i] = IF Landed(u, i) THEN s[i].amount ELSE 0
      BY <1>1, Booked
    <3> QED
      BY <3>1, <3>2
  <2>2. ASSUME i \in DOMAIN t[k].pays
        PROVE  Landed(u, i) /\ ~Landed(t, i) /\ t[k].pays[i] = s[i].amount
    <3>1. Landed(u, i)
      BY <1>1, <2>2 DEF Landed
    <3>2. Carries(t, k, i)
      BY <2>2 DEF Carries
    <3>3. ~Landed(t, i)
      <4> SUFFICES ASSUME NEW l \in DOMAIN t, i \in DOMAIN t[l].pays, t[l].fate = "landed" PROVE FALSE
        BY DEF Landed
      <4>1. Carries(t, l, i)
        BY DEF Carries
      <4>2. l = k
        BY <1>t, <3>2, <4>1 DEF Paid, CarriedOnce
      <4> QED
        BY <4>2
    <3> QED
      BY <3>1, <3>2, <3>3 DEF BooksFit, CarriesAmount
  <2>3. ASSUME i \notin DOMAIN t[k].pays PROVE Landed(u, i) <=> Landed(t, i)
    BY <1>1, <2>3 DEF Landed
  <2> QED
    BY <2>1, <2>2, <2>3
<1>6. ASSUME NEW w \in Wallets PROVE h[w] = Arrived(s, u, w)
  <2> DEFINE S == RecordsOf(s, w)
             R == {i \in DOMAIN t[k].pays : s[i].wallet = w}
             f == [i \in S |-> IF i \in R THEN t[k].pays[i] ELSE 0]
  <2>1. S \in SUBSET DOMAIN s /\ IsFiniteSet(S) /\ Arrived(s, t, w) \in Nat
    BY Booked
  <2>2. R \in SUBSET S /\ \A i \in S : i \in R <=> i \in DOMAIN t[k].pays
    BY <1>t DEF RecordsOf
  <2>3. \A i \in S : /\ Arrivals(s, t)[i] \in Nat /\ f[i] \in Nat
                     /\ Arrivals(s, u)[i] = Arrivals(s, t)[i] + f[i]
    <3> HIDE DEF R, S
    <3> SUFFICES ASSUME NEW i \in S
                 PROVE  /\ Arrivals(s, t)[i] \in Nat /\ f[i] \in Nat
                        /\ Arrivals(s, u)[i] = Arrivals(s, t)[i] + f[i]
      OBVIOUS
    <3>1. i \in DOMAIN s /\ f[i] = IF i \in DOMAIN t[k].pays THEN t[k].pays[i] ELSE 0
      BY <2>1, <2>2
    <3> HIDE DEF f
    <3> QED
      BY <1>5, <3>1
  <2>4. (\A i \in R : f[i] \in Nat /\ f[i] = t[k].pays[i]) /\ \A i \in S \ R : f[i] = 0
    <3>1. \A i \in R : i \in S /\ f[i] = t[k].pays[i]
      BY <2>2
    <3> QED
      BY <2>3, <3>1
  <2> HIDE DEF S, R, f
  <2>5. SumFunctionOnSet(Arrivals(s, u), S)
          = SumFunctionOnSet(Arrivals(s, t), S) + SumFunctionOnSet(f, S)
    BY <2>1, <2>3, SumOfBoth
  <2>6. SumFunctionOnSet(f, S) = SumFunctionOnSet(t[k].pays, R)
    BY <2>1, <2>2, <2>4, SumOnPart
  <2>7. g[w] = Arrived(s, t, w)
    BY DEF BooksFit, ArrivedIs
  <2> QED
    BY <2>5, <2>6, <2>7 DEF S, R, Arrived, Brings
<1>7. ASSUME NEW w PROVE Claimed(s, u, w) <= Claimed(s, t, w)
  <2>1. ASSUME NEW i \in DOMAIN s PROVE Claims(s, u)[i] <= Claims(s, t)[i]
    <3>1. /\ s[i].amount \in Nat
          /\ Claims(s, t)[i] = IF s[i].status \in {"completed", "in_progress"} \/ Borne(t, i)
                               THEN s[i].amount ELSE 0
      BY Booked
    <3>2. Claims(s, u)[i] = IF s[i].status \in {"completed", "in_progress"} \/ Borne(u, i)
                            THEN s[i].amount ELSE 0
      BY <1>1, Booked
    <3> QED
      BY <1>3, <3>1, <3>2
  <2>2. \A i \in RecordsOf(s, w) : Claims(s, u)[i] <= Claims(s, t)[i]
    BY <2>1 DEF RecordsOf
  <2> QED
    BY <1>1, <2>2, ClaimsFall
<1> QED
  BY <1>4, <1>6, <1>7 DEF BooksFit, ArrivedIs

\* A transfer signed for marked sends carries what they are marked with.
LEMMA SigningGoes ==
  ASSUME NEW s, NEW t, NEW g, FilesTyped(s, t), Paid(s, t), BooksFit(s, t, g),
         NEW H \in SUBSET DOMAIN s,
         \A i \in H : s[i].tx = 0 /\ s[i].status = "in_progress" /\ s[i].amount > 0,
         NEW u, u = Signed(s, t, H), NEW r, r = Holding(s, t, H)
  PROVE  BooksFit(r, u, g) /\ \A w : Claimed(r, u, w) <= Claimed(s, t, w)
<1> DEFINE n == Len(t) + 1
           new == [fate |-> "signed", pays |-> [i \in H |-> s[i].amount]]
<1>1. /\ FilesTyped(r, u) /\ Len(u) = n /\ \A k \in DOMAIN t : u[k] = t[k]
  BY SigningFits
<1>2. /\ t \in Seq(TransferType) /\ Len(t) \in Nat /\ DOMAIN t = 1..Len(t)
      /\ \A i \in DOMAIN s : s[i] \in RecordType(Len(t)) /\ s[i].amount \in Nat
  BY Typed DEF FilesTyped
<1>3. DOMAIN u = 1..n
  BY <1>1, Typed
<1>4. u[n] = new
  <2>1. u = Append(t, new)
    BY DEF Signed
  <2> HIDE DEF new
  <2> QED
    BY <1>2, <2>1
<1>5. /\ DOMAIN r = DOMAIN s
      /\ \A i \in DOMAIN s : /\ r[i].wallet = s[i].wallet /\ r[i].amount = s[i].amount
                             /\ r[i].status = s[i].status
                             /\ i \notin H => r[i] = s[i]
  <2>1. ASSUME NEW i \in H
        PROVE  r[i].wallet = s[i].wallet /\ r[i].amount = s[i].amount /\ r[i].status = s[i].status
    <3>1. r[i] = [s[i] EXCEPT !.tx = n] /\ s[i] \in RecordType(Len(t))
      BY <1>2 DEF Holding
    <3> HIDE DEF n
    <3> QED
      BY <3>1 DEF RecordType
  <2> QED
    BY <2>1 DEF Holding
<1>6. new.fate = "signed" /\ DOMAIN new.pays = H /\ \A i \in H : new.pays[i] = s[i].amount
  OBVIOUS
<1>7. \A l \in DOMAIN u : l = n \/ l \in DOMAIN t
  BY <1>2, <1>3
<1> HIDE DEF n, new
<1>8. \A l, i : Carries(u, l, i) => Carries(t, l, i) \/ (l = n /\ i \in H)
  BY <1>1, <1>4, <1>6, <1>7 DEF Carries
<1>9. CarriesAmount(r, u)
  <2> SUFFICES ASSUME NEW l \in DOMAIN u, NEW i \in DOMAIN s, Carries(u, l, i)
               PROVE  u[l].pays[i] = s[i].amount
    BY <1>5 DEF CarriesAmount
  <2>1. CASE l = n /\ i \in H
    BY <1>4, <1>6, <2>1
  <2>2. CASE Carries(t, l, i)
    <3>1. l \in DOMAIN t /\ u[l] = t[l]
      BY <1>1, <2>2 DEF Carries
    <3> QED
      BY <2>2, <3>1 DEF BooksFit, CarriesAmount
  <2> QED
    BY <1>8, <2>1, <2>2
<1>10. SatisfiedBare(r)
  BY <1>5 DEF BooksFit, SatisfiedBare
<1>11. ArrivedIs(r, u, g)
  <2>1. \A i \in DOMAIN s : Landed(u, i) <=> Landed(t, i)
    <3>1. DOMAIN t \subseteq DOMAIN u
      <4>1. \A a \in Nat : 1..a \subseteq 1..(a + 1)
        OBVIOUS
      <4> QED
        BY <1>2, <1>3, <4>1 DEF n
    <3> QED
      BY <1>1, <1>4, <1>6, <1>7, <3>1 DEF Landed
  <2> QED
    BY <1>5, <2>1, ArrivalsStay DEF BooksFit
<1>12. ASSUME NEW i \in DOMAIN s PROVE Claims(r, u)[i] <= Claims(s, t)[i]
  <2>1. /\ s[i].amount \in Nat
        /\ Claims(s, t)[i] = IF s[i].status \in {"completed", "in_progress"} \/ Borne(t, i)
                             THEN s[i].amount ELSE 0
    BY Booked
  <2>2. Claims(r, u)[i] = IF s[i].status \in {"completed", "in_progress"} \/ Borne(u, i)
                          THEN s[i].amount ELSE 0
    <3>1. i \in DOMAIN r /\ r[i].amount = s[i].amount /\ r[i].status = s[i].status
      BY <1>5
    <3> QED
      BY <1>1, <3>1, Booked
  <2>3. Borne(u, i) => Borne(t, i) \/ s[i].status = "in_progress"
    BY <1>8 DEF Borne, Carries
  <2> QED
    BY <2>1, <2>2, <2>3
<1>13. ASSUME NEW w PROVE Claimed(r, u, w) <= Claimed(s, t, w)
  <2>1. \A i \in RecordsOf(s, w) : Claims(r, u)[i] <= Claims(s, t)[i]
    BY <1>12 DEF RecordsOf
  <2> QED
    BY <1>1, <1>5, <2>1, ClaimsFall
<1> QED
  BY <1>9, <1>10, <1>11, <1>13 DEF BooksFit

\* More records with nothing on them, and nothing carried for them.
LEMMA RecordsJoinGoes ==
  ASSUME NEW s, NEW t, NEW g, FilesTyped(s, t), BooksFit(s, t, g),
         NEW r, FilesTyped(r, t), DOMAIN s \subseteq DOMAIN r, \A i \in DOMAIN s : r[i] = s[i],
         \A i \in DOMAIN r \ DOMAIN s : r[i].amount = 0 /\ r[i].status = "pending"
  PROVE  BooksFit(r, t, g) /\ \A w : Claimed(r, t, w) = Claimed(s, t, w)
<1>1. CarriesAmount(r, t)
  <2> SUFFICES ASSUME NEW k \in DOMAIN t, NEW i \in DOMAIN r, Carries(t, k, i)
               PROVE  t[k].pays[i] = r[i].amount
    BY DEF CarriesAmount
  <2>1. i \in DOMAIN s
    BY DEF FilesTyped, Carries
  <2> QED
    BY <2>1 DEF BooksFit, CarriesAmount
<1>2. SatisfiedBare(r)
  <2>1. \A i \in DOMAIN r : i \in DOMAIN s \/ r[i].status = "pending"
    OBVIOUS
  <2> QED
    BY <2>1 DEF BooksFit, SatisfiedBare
<1>3. ASSUME NEW w
      PROVE  Claimed(r, t, w) = Claimed(s, t, w) /\ Arrived(r, t, w) = Arrived(s, t, w)
  <2> DEFINE S == RecordsOf(r, w)
             R == RecordsOf(s, w)
  <2>1. S \in SUBSET DOMAIN r /\ IsFiniteSet(S) /\ R \in SUBSET DOMAIN s
    BY Booked
  <2>2. R \in SUBSET S /\ \A i \in S \ R : i \in DOMAIN r \ DOMAIN s
    BY <2>1 DEF RecordsOf
  <2>3. ASSUME NEW i \in R
        PROVE  /\ Claims(r, t)[i] \in Nat /\ Claims(r, t)[i] = Claims(s, t)[i]
               /\ Arrivals(r, t)[i] \in Nat /\ Arrivals(r, t)[i] = Arrivals(s, t)[i]
    <3>1. i \in DOMAIN s /\ i \in DOMAIN r /\ r[i] = s[i]
      BY <2>1
    <3>2. /\ Claims(r, t)[i] = IF r[i].status \in {"completed", "in_progress"} \/ Borne(t, i)
                               THEN r[i].amount ELSE 0
          /\ Arrivals(r, t)[i] = (IF Landed(t, i) THEN r[i].amount ELSE 0)
          /\ r[i].amount \in Nat
      BY <3>1, Booked
    <3>3. /\ Claims(s, t)[i] = IF s[i].status \in {"completed", "in_progress"} \/ Borne(t, i)
                               THEN s[i].amount ELSE 0
          /\ Arrivals(s, t)[i] = (IF Landed(t, i) THEN s[i].amount ELSE 0)
      BY <3>1, Booked
    <3> QED
      BY <3>1, <3>2, <3>3
  <2>4. ASSUME NEW i \in S \ R PROVE Claims(r, t)[i] = 0 /\ Arrivals(r, t)[i] = 0
    <3>1. i \in DOMAIN r /\ r[i].amount = 0
      BY <2>2
    <3>2. /\ Claims(r, t)[i] = IF r[i].status \in {"completed", "in_progress"} \/ Borne(t, i)
                               THEN r[i].amount ELSE 0
          /\ Arrivals(r, t)[i] = (IF Landed(t, i) THEN r[i].amount ELSE 0)
      BY <3>1, Booked
    <3> QED
      BY <3>1, <3>2
  <2> HIDE DEF S, R
  <2>5. SumFunctionOnSet(Claims(r, t), S) = SumFunctionOnSet(Claims(s, t), R)
    <3>1. (\A i \in R : Claims(r, t)[i] \in Nat /\ Claims(r, t)[i] = Claims(s, t)[i])
          /\ \A i \in S \ R : Claims(r, t)[i] = 0
      BY <2>3, <2>4
    <3> QED
      BY <2>1, <2>2, <3>1, SumOnPart
  <2>6. SumFunctionOnSet(Arrivals(r, t), S) = SumFunctionOnSet(Arrivals(s, t), R)
    <3>1. (\A i \in R : Arrivals(r, t)[i] \in Nat /\ Arrivals(r, t)[i] = Arrivals(s, t)[i])
          /\ \A i \in S \ R : Arrivals(r, t)[i] = 0
      BY <2>3, <2>4
    <3> QED
      BY <2>1, <2>2, <3>1, SumOnPart
  <2> QED
    BY <2>5, <2>6 DEF Claimed, Arrived, S, R
<1>4. ArrivedIs(r, t, g)
  BY <1>3 DEF BooksFit, ArrivedIs
<1> QED
  BY <1>1, <1>2, <1>3, <1>4 DEF BooksFit

\* Before any transfer nothing is claimed.
LEMMA NothingYet ==
  ASSUME NEW s, NEW t, FilesTyped(s, t), DOMAIN t = {}, NEW g, \A w \in Wallets : g[w] = 0,
         \A i \in DOMAIN s : s[i].amount = 0 /\ s[i].status = "pending"
  PROVE  BooksFit(s, t, g) /\ \A w : Claimed(s, t, w) = 0
<1>1. CarriesAmount(s, t) /\ SatisfiedBare(s)
  BY DEF CarriesAmount, SatisfiedBare
<1>2. ASSUME NEW w PROVE Claimed(s, t, w) = 0 /\ Arrived(s, t, w) = 0
  <2>1. /\ RecordsOf(s, w) \in SUBSET DOMAIN s /\ IsFiniteSet(RecordsOf(s, w))
        /\ Claimed(s, t, w) \in Nat /\ Arrived(s, t, w) \in Nat
        /\ Arrived(s, t, w) <= Claimed(s, t, w)
    BY Booked
  <2>2. \A i \in RecordsOf(s, w) : Claims(s, t)[i] = 0
    <3>1. \A i \in DOMAIN s : Claims(s, t)[i] = 0
      BY DEF Claims
    <3> QED
      BY <2>1, <3>1
  <2>3. Claimed(s, t, w) = Cardinality(RecordsOf(s, w)) * 0 /\ Cardinality(RecordsOf(s, w)) \in Nat
    BY <2>1, <2>2, SumOfSame, FS_CardinalityType DEF Claimed
  <2> QED
    BY <2>1, <2>3
<1>3. ArrivedIs(s, t, g)
  BY <1>2 DEF ArrivedIs
<1> QED
  BY <1>1, <1>2, <1>3 DEF BooksFit

\* The records r after the amounts have been shared out among the open ones of s.
SharedAs(s, t, open, amount, r) ==
  /\ DOMAIN r = DOMAIN s
  /\ \A i \in DOMAIN s \ open : r[i] = s[i]
  /\ \A i \in open :
       /\ s[i].status = "pending" /\ s[i].tx = 0 /\ amount[i] \in Nat
       /\ r[i].wallet = s[i].wallet /\ r[i].tx = 0
       /\ amount[i] = 0 => r[i].status = "satisfied" /\ r[i].amount = s[i].amount
       /\ amount[i] # 0 => r[i].status = "in_progress" /\ r[i].amount = amount[i]

\* Only what was delivered is claimed for a wallet.
OnlyDelivered(s, t, w) ==
  \A i \in RecordsOf(s, w) : /\ s[i].status # "in_progress"
                             /\ Borne(t, i) => s[i].status = "completed"

\* An open send's claim is the amount it is given; the others keep theirs.
LEMMA SharedClaims ==
  ASSUME NEW s, NEW t, NEW g, FilesTyped(s, t), Paid(s, t), BooksFit(s, t, g),
         NEW open \in SUBSET DOMAIN s, NEW amount, NEW r, FilesTyped(r, t),
         SharedAs(s, t, open, amount, r)
  PROVE  /\ BooksFit(r, t, g) /\ \A w : RecordsOf(r, w) = RecordsOf(s, w)
         /\ \A i \in open : Claims(r, t)[i] = amount[i] /\ ~Borne(t, i)
         /\ \A i \in DOMAIN s \ open : Claims(r, t)[i] = Claims(s, t)[i]
<1> USE DEF SharedAs
<1>1. ASSUME NEW i \in open PROVE ~Borne(t, i)
  <2> SUFFICES ASSUME NEW k \in DOMAIN t, Carries(t, k, i) PROVE FALSE
    BY DEF Borne
  <2>1. k # 0
    <3>1. DOMAIN t = 1..Len(t) /\ Len(t) \in Nat
      BY Typed
    <3> QED
      BY <3>1
  <2> QED
    BY <2>1 DEF Paid, CarriedFit
<1>2. \A i : Landed(t, i) => Borne(t, i)
  BY DEF Landed, Borne, Carries
<1>3. CarriesAmount(r, t)
  <2> SUFFICES ASSUME NEW k \in DOMAIN t, NEW i \in DOMAIN r, Carries(t, k, i)
               PROVE  t[k].pays[i] = r[i].amount
    BY DEF CarriesAmount
  <2>1. i \notin open
    BY <1>1 DEF Borne
  <2> QED
    BY <2>1 DEF BooksFit, CarriesAmount
<1>4. SatisfiedBare(r)
  BY DEF BooksFit, SatisfiedBare
<1>5. \A i \in DOMAIN s : r[i].wallet = s[i].wallet
  OBVIOUS
<1>6. ArrivedIs(r, t, g)
  <2>1. \A i \in DOMAIN s : Landed(t, i) => r[i].amount = s[i].amount
    BY <1>1, <1>2
  <2> QED
    BY <1>5, <2>1, ArrivalsStay DEF BooksFit
<1>7. \A w : RecordsOf(r, w) = RecordsOf(s, w)
  BY <1>5 DEF RecordsOf
<1>8. \A i \in DOMAIN s : /\ Claims(s, t)[i] = IF s[i].status \in {"completed", "in_progress"} \/ Borne(t, i)
                                               THEN s[i].amount ELSE 0
  BY Booked
<1>9. \A i \in DOMAIN s : /\ Claims(r, t)[i] = IF r[i].status \in {"completed", "in_progress"} \/ Borne(t, i)
                                               THEN r[i].amount ELSE 0
  <2>1. \A i \in DOMAIN r : /\ Claims(r, t)[i] = IF r[i].status \in {"completed", "in_progress"} \/ Borne(t, i)
                                                 THEN r[i].amount ELSE 0
    BY Booked
  <2> QED
    BY <2>1
<1>10. ASSUME NEW i \in open PROVE Claims(r, t)[i] = amount[i]
  <2>1. ~Borne(t, i) /\ i \in DOMAIN s
    BY <1>1
  <2>2. CASE amount[i] = 0
    BY <1>9, <2>1, <2>2
  <2>3. CASE amount[i] # 0
    BY <1>9, <2>1, <2>3
  <2> QED
    BY <2>2, <2>3
<1>11. \A i \in DOMAIN s \ open : Claims(r, t)[i] = Claims(s, t)[i]
  BY <1>8, <1>9
<1> QED
  BY <1>1, <1>3, <1>4, <1>6, <1>7, <1>10, <1>11 DEF BooksFit

\* A wallet with no open send keeps its claims.
LEMMA SharingLeaves ==
  ASSUME NEW s, NEW t, NEW g, FilesTyped(s, t), Paid(s, t), BooksFit(s, t, g),
         NEW open \in SUBSET DOMAIN s, NEW amount, NEW r, FilesTyped(r, t),
         SharedAs(s, t, open, amount, r), NEW w, w \notin WalletsOf(s, open)
  PROVE  Claimed(r, t, w) = Claimed(s, t, w)
<1> DEFINE S == RecordsOf(s, w)
           O == {i \in open : s[i].wallet = w}
<1>1. /\ RecordsOf(r, w) = S
      /\ \A i \in open : Claims(r, t)[i] = amount[i] /\ ~Borne(t, i)
      /\ \A i \in DOMAIN s \ open : Claims(r, t)[i] = Claims(s, t)[i]
  <2>1. /\ \A v : RecordsOf(r, v) = RecordsOf(s, v)
        /\ \A i \in open : Claims(r, t)[i] = amount[i] /\ ~Borne(t, i)
        /\ \A i \in DOMAIN s \ open : Claims(r, t)[i] = Claims(s, t)[i]
    BY SharedClaims
  <2> QED
    BY <2>1
<1>2. /\ S \in SUBSET DOMAIN s /\ IsFiniteSet(S)
      /\ \A i \in S : Claims(s, t)[i] \in Nat
  BY Booked
<1>3. O = {} /\ \A i \in S \ O : i \notin open
  BY DEF WalletsOf, RecordsOf
<1>4. \A i \in S : i \in DOMAIN s \ open
  BY <1>2, <1>3
<1> HIDE DEF S
<1>5. \A i \in S : Claims(s, t)[i] \in Nat /\ Claims(s, t)[i] = Claims(r, t)[i]
  BY <1>1, <1>2, <1>4
<1>6. SumFunctionOnSet(Claims(s, t), S) = SumFunctionOnSet(Claims(r, t), S)
  BY <1>2, <1>5, SumOfEqual
<1> QED
  BY <1>1, <1>6 DEF Claimed, S

\* One for which only what was delivered is claimed gets claims to the amounts.
LEMMA SharingGoes ==
  ASSUME NEW s, NEW t, NEW g, FilesTyped(s, t), Paid(s, t), BooksFit(s, t, g),
         NEW open \in SUBSET DOMAIN s, NEW amount, NEW r, FilesTyped(r, t),
         SharedAs(s, t, open, amount, r), NEW w, OnlyDelivered(s, t, w)
  PROVE  /\ Claimed(s, t, w) = SentTo(s, w) /\ SentTo(s, w) \in Nat
         /\ Claimed(r, t, w) = SentTo(s, w)
              + SumFunctionOnSet(amount, {i \in open : s[i].wallet = w})
<1> DEFINE S == RecordsOf(s, w)
           O == {i \in open : s[i].wallet = w}
           C == {i \in {j \in DOMAIN s : s[j].status = "completed"} : s[i].wallet = w}
           a == [i \in DOMAIN s |-> s[i].amount]
<1>1. /\ RecordsOf(r, w) = S
      /\ \A i \in open : Claims(r, t)[i] = amount[i] /\ ~Borne(t, i)
      /\ \A i \in DOMAIN s \ open : Claims(r, t)[i] = Claims(s, t)[i]
  BY SharedClaims
<1>2. /\ S \in SUBSET DOMAIN s /\ IsFiniteSet(S)
      /\ \A i \in DOMAIN s :
              /\ s[i].amount \in Nat
              /\ Claims(s, t)[i] = IF s[i].status \in {"completed", "in_progress"} \/ Borne(t, i)
                                   THEN s[i].amount ELSE 0
  BY Booked
<1>3. O \in SUBSET S /\ C \in SUBSET S /\ (\A i \in O : i \in open) /\ (\A i \in S \ O : i \notin open)
      /\ (\A i \in C : s[i].status = "completed") /\ (\A i \in S \ C : s[i].status # "completed")
  BY DEF RecordsOf
<1>4. \A i \in open : s[i].status = "pending" /\ amount[i] \in Nat
  BY DEF SharedAs
<1>6. /\ Claimed(s, t, w) = SentTo(s, w) /\ SentTo(s, w) \in Nat
      /\ Claimed(r, t, w) = SentTo(s, w) + SumFunctionOnSet(amount, O)
  <2> DEFINE f == [i \in S |-> IF i \in C THEN s[i].amount ELSE 0]
             h == [i \in S |-> IF i \in O THEN amount[i] ELSE 0]
  <2>1. \A i \in S : s[i].status # "in_progress" /\ (Borne(t, i) => s[i].status = "completed")
    BY DEF OnlyDelivered
  <2>2. /\ \A i \in S : f[i] = (IF i \in C THEN s[i].amount ELSE 0) /\ h[i] = (IF i \in O THEN amount[i] ELSE 0)
    OBVIOUS
  <2>3. \A i \in C : a[i] = s[i].amount
    OBVIOUS
  <2>4. SentTo(s, w) = SumFunctionOnSet(a, C)
    BY DEF SentTo
  <2> HIDE DEF S, O, C, a, f, h
  <2>5. ASSUME NEW i \in S
        PROVE  /\ f[i] \in Nat /\ h[i] \in Nat
               /\ Claims(s, t)[i] = f[i] /\ Claims(r, t)[i] = f[i] + h[i]
    <3>1. i \in DOMAIN s /\ s[i].amount \in Nat
      BY <1>2
    <3>2. Claims(s, t)[i] = f[i] /\ f[i] \in Nat
      BY <1>2, <1>3, <2>1, <2>2, <3>1
    <3>3. CASE i \in O
      <4>1. i \in open /\ i \notin C
        BY <1>3, <1>4, <3>3
      <4> QED
        BY <1>1, <1>4, <2>2, <3>2, <3>3, <4>1
    <3>4. CASE i \notin O
      <4>1. i \in DOMAIN s \ open
        BY <1>3, <3>1, <3>4
      <4> QED
        BY <1>1, <2>2, <3>2, <3>4, <4>1
    <3> QED
      BY <3>2, <3>3, <3>4
  <2>6. SumFunctionOnSet(f, S) = SumFunctionOnSet(a, C) /\ SumFunctionOnSet(f, S) \in Nat
    <3>1. (\A i \in C : f[i] \in Nat /\ f[i] = a[i]) /\ \A i \in S \ C : f[i] = 0
      BY <1>3, <2>2, <2>3, <2>5
    <3> QED
      BY <1>2, <1>3, <3>1, SumOnPart
  <2>7. SumFunctionOnSet(h, S) = SumFunctionOnSet(amount, O)
    <3>1. (\A i \in O : h[i] \in Nat /\ h[i] = amount[i]) /\ \A i \in S \ O : h[i] = 0
      BY <1>3, <2>2, <2>5
    <3> QED
      BY <1>2, <1>3, <3>1, SumOnPart
  <2>8. SumFunctionOnSet(Claims(r, t), S) = SumFunctionOnSet(f, S) + SumFunctionOnSet(h, S)
    BY <1>2, <2>5, SumOfBoth
  <2>9. SumFunctionOnSet(Claims(s, t), S) = SumFunctionOnSet(f, S)
    <3>1. \A i \in S : f[i] \in Nat /\ f[i] = Claims(s, t)[i]
      BY <2>5
    <3> QED
      BY <1>2, <3>1, SumOfEqual
  <2>10. Claimed(s, t, w) = SumFunctionOnSet(Claims(s, t), S)
         /\ Claimed(r, t, w) = SumFunctionOnSet(Claims(r, t), S)
    BY <1>1 DEF Claimed, S
  <2> QED
    BY <2>4, <2>6, <2>7, <2>8, <2>9, <2>10
<1> QED
  BY <1>6

-----------------------------------------------------------------------------
(* Every marked send is held by a batch.                                   *)

MarkedHeld(s, w) ==
  \A i \in DOMAIN s : s[i].status = "in_progress" => \E b \in DOMAIN w : i \in Held(w[b])

\* Batch b becomes y, and lets go of nothing that stays marked.
LEMMA StillHeld ==
  ASSUME NEW s, NEW w, MarkedHeld(s, w), NEW b \in DOMAIN w, NEW y,
         NEW r, DOMAIN r = DOMAIN s,
         \A i \in DOMAIN s : r[i].status = "in_progress" =>
           s[i].status = "in_progress" /\ (i \in Held(w[b]) => i \in Held(y))
  PROVE  MarkedHeld(r, [w EXCEPT ![b] = y])
<1> DEFINE v == [w EXCEPT ![b] = y]
<1>1. DOMAIN v = DOMAIN w /\ v[b] = y /\ \A c \in DOMAIN w : c # b => v[c] = w[c]
  OBVIOUS
<1> HIDE DEF v
<1>2. ASSUME NEW i \in DOMAIN r, r[i].status = "in_progress"
      PROVE  \E c \in DOMAIN v : i \in Held(v[c])
  <2>1. i \in DOMAIN s /\ s[i].status = "in_progress" /\ (i \in Held(w[b]) => i \in Held(y))
    BY <1>2
  <2>2. PICK c \in DOMAIN w : i \in Held(w[c])
    BY <2>1 DEF MarkedHeld
  <2>3. CASE c = b
    BY <1>1, <2>1, <2>2, <2>3
  <2>4. CASE c # b
    BY <1>1, <2>2, <2>4
  <2> QED
    BY <2>3, <2>4
<1>3. MarkedHeld(r, v)
  BY <1>2 DEF MarkedHeld
<1> QED
  BY <1>3 DEF v

\* A batch that turns to its lists holds all they hold.
LEMMA TurnHolds ==
  ASSUME NEW old \in BatchType, NEW later \in Seq(Seq(Nat)), NEW q \in DOMAIN later,
         NEW n \in DOMAIN later[q]
  PROVE  later[q][n] \in Held(Turned(old, later))
<1> DEFINE x == Turned(old, later)
<1>1. later # <<>> /\ DOMAIN later = 1..Len(later) /\ Len(later) \in Nat
  BY EmptySeq, LenProperties
<1>2. /\ Head(later) \in Seq(Nat) /\ Tail(later) \in Seq(Seq(Nat))
      /\ Len(Tail(later)) = Len(later) - 1 /\ Head(later) = later[1]
      /\ \A i \in 1..Len(Tail(later)) : Tail(later)[i] = later[i + 1]
  BY <1>1, HeadTailProperties
<1>3. x = [ids |-> Head(later), later |-> Tail(later), at |-> "building"]
  BY <1>1 DEF Turned
<1>4. x.at = "building" /\ x.ids = later[1] /\ x.later = Tail(later)
  BY <1>2, <1>3
<1> HIDE DEF x
<1>5. Lists(x) = 0..(Len(later) - 1)
  BY <1>2, <1>4 DEF Lists
<1>6. q \in Nat /\ 1 <= q /\ q <= Len(later)
  BY <1>1
<1>7. \E p \in Lists(x) : List(x, p) = later[q]
  <2>1. \A p \in Nat : p + 1 = q => p \in Lists(x) /\ List(x, p) = later[q]
    <3> SUFFICES ASSUME NEW p \in Nat, p + 1 = q PROVE p \in Lists(x) /\ List(x, p) = later[q]
      OBVIOUS
    <3>1. p \in Lists(x)
      BY <1>1, <1>5, <1>6
    <3>2. CASE p = 0
      <4>1. q = 1 /\ List(x, p) = x.ids
        BY <3>2 DEF List
      <4> QED
        BY <1>4, <3>1, <4>1
    <3>3. CASE p # 0
      <4>1. p \in 1..Len(Tail(later))
        BY <1>1, <1>2, <1>6, <3>3
      <4>2. List(x, p) = x.later[p] /\ Tail(later)[p] = later[p + 1]
        BY <1>2, <3>3, <4>1 DEF List
      <4> QED
        BY <1>4, <3>1, <4>2
    <3> QED
      BY <3>2, <3>3
  <2>2. q - 1 \in Nat /\ (q - 1) + 1 = q
    BY <1>6
  <2> QED
    BY <2>1, <2>2
<1>8. PICK p \in Lists(x) : List(x, p) = later[q]
  BY <1>7
<1>9. n \in DOMAIN List(x, p) /\ List(x, p)[n] = later[q][n]
  BY <1>8
<1> QED
  BY <1>9, HeldWhere DEF x

\* What a batch held and had not in hand, it holds still.
LEMMA LaterHeld ==
  ASSUME NEW x \in BatchType, NEW s, NEW t, BatchFits(x, s, t), x.at # "over", NEW i \in Held(x),
         i \notin ToSet(x.ids)
  PROVE  i \in Held(Turned(x, x.later))
<1>1. /\ Lists(x) = 0..Len(x.later) /\ Len(x.later) \in Nat /\ x.later \in Seq(Seq(Nat))
      /\ List(x, 0) = x.ids
  BY InHandFirst
<1>2. PICK p \in Lists(x) : \E n \in DOMAIN List(x, p) : i = List(x, p)[n]
  BY HeldWhere
<1>3. PICK n \in DOMAIN List(x, p) : i = List(x, p)[n]
  BY <1>2
<1>4. p # 0
  <2>1. \A m \in DOMAIN x.ids : x.ids[m] \in ToSet(x.ids)
    BY DEF ToSet
  <2> QED
    BY <1>1, <1>3, <2>1
<1>5. List(x, p) = x.later[p]
  BY <1>4 DEF List
<1>6. p \in DOMAIN x.later
  <2>1. DOMAIN x.later = 1..Len(x.later)
    BY <1>1, LenProperties
  <2>2. \A m \in Nat : \A k \in 0..m : k # 0 => k \in 1..m
    OBVIOUS
  <2> QED
    BY <1>1, <1>2, <1>4, <2>1, <2>2
<1> QED
  BY <1>1, <1>3, <1>5, <1>6, TurnHolds

\* Halved, a batch holds all it held.
LEMMA HalvesHeld ==
  ASSUME NEW x \in BatchType, NEW s, NEW t, BatchFits(x, s, t), x.at # "over", Len(x.ids) > 1,
         NEW i \in Held(x), Halved(x) \in Seq(Seq(Nat))
  PROVE  i \in Held(Turned(x, Halved(x)))
<1> DEFINE n == Len(x.ids)
           half == (n + 1) \div 2
           one == SubSeq(x.ids, 1, half)
           two == SubSeq(x.ids, half + 1, n)
           all == Halved(x)
<1>1. /\ 0 \in Lists(x) /\ List(x, 0) = x.ids /\ Len(x.later) \in Nat
      /\ Lists(x) = 0..Len(x.later)
      /\ x.later \in Seq(Seq(Nat)) /\ x.ids \in Seq(Nat)
      /\ DOMAIN x.ids = 1..n /\ n \in Nat /\ DOMAIN x.later = 1..Len(x.later)
      /\ \A k \in 1..n : x.ids[k] \in Nat
  BY InHandFirst, LenProperties, ElementOfSeq
<1>2. half \in Nat /\ 1 <= half /\ half < n
  <2>1. \A k \in Nat : k > 1 => (k + 1) \div 2 \in Nat /\ 1 <= (k + 1) \div 2 /\ (k + 1) \div 2 < k
    OBVIOUS
  <2>2. n \in Nat /\ n > 1
    BY <1>1
  <2> HIDE DEF n
  <2> QED
    BY <2>1, <2>2
<1>3. all = <<one, two>> \o x.later
  BY DEF Halved
<1> HIDE DEF n, half, all
<1>4. one \in Seq(Nat) /\ Len(one) = half /\ \A k \in 1..half : one[k] = x.ids[k]
  <2>1. /\ one \in Seq(Nat) /\ Len(one) = IF 1 <= half THEN half - 1 + 1 ELSE 0
        /\ \A k \in 1..(half - 1 + 1) : one[k] = x.ids[1 + k - 1]
    BY <1>1, <1>2, SubSeqProperties
  <2> QED
    BY <1>2, <2>1
<1>5. two \in Seq(Nat) /\ Len(two) = n - half /\ \A k \in 1..(n - half) : two[k] = x.ids[half + k]
  <2>0. half + 1 \in Int /\ n \in Int /\ \A k \in (half + 1)..n : x.ids[k] \in Nat
    BY <1>1, <1>2
  <2>1. /\ two \in Seq(Nat) /\ Len(two) = IF half + 1 <= n THEN n - (half + 1) + 1 ELSE 0
        /\ \A k \in 1..(n - (half + 1) + 1) : two[k] = x.ids[half + 1 + k - 1]
    BY <2>0, SubSeqProperties
  <2> QED
    BY <1>1, <1>2, <2>1
<1> HIDE DEF one, two
<1>6. DOMAIN one = 1..half /\ DOMAIN two = 1..(n - half)
  BY <1>4, <1>5, LenProperties
<1>7. /\ DOMAIN all = 1..(2 + Len(x.later))
      /\ all[1] = one /\ all[2] = two
      /\ \A p \in 3..(2 + Len(x.later)) : all[p] = x.later[p - 2]
  <2>1. <<one, two>> \in Seq(Seq(Nat)) /\ Len(<<one, two>>) = 2
        /\ <<one, two>>[1] = one /\ <<one, two>>[2] = two
    BY <1>4, <1>5
  <2>2. /\ all \in Seq(Seq(Nat)) /\ Len(all) = 2 + Len(x.later)
        /\ \A k \in 1..(2 + Len(x.later)) :
             all[k] = IF k <= 2 THEN <<one, two>>[k] ELSE x.later[k - 2]
    BY <1>1, <1>3, <2>1, ConcatProperties
  <2>3. DOMAIN all = 1..Len(all)
    BY <2>2, LenProperties
  <2> QED
    BY <1>1, <2>1, <2>2, <2>3
<1>8. PICK p \in Lists(x) : \E m \in DOMAIN List(x, p) : i = List(x, p)[m]
  BY HeldWhere
<1>9. PICK m \in DOMAIN List(x, p) : i = List(x, p)[m]
  BY <1>8
<1>10. \E q \in DOMAIN all : \E k \in DOMAIN all[q] : i = all[q][k]
  <2>1. CASE p = 0
    <3>1. m \in 1..n /\ i = x.ids[m]
      BY <1>1, <1>9, <2>1
    <3>2. 1 \in DOMAIN all /\ 2 \in DOMAIN all
      <4>1. \A z \in Nat : 1 \in 1..(2 + z) /\ 2 \in 1..(2 + z)
        OBVIOUS
      <4> QED
        BY <1>1, <1>7, <4>1
    <3>3. CASE m <= half
      <4>1. m \in 1..half
        BY <1>1, <1>2, <3>1, <3>3
      <4>2. m \in DOMAIN all[1] /\ all[1][m] = i
        BY <1>4, <1>6, <1>7, <3>1, <4>1
      <4> QED
        BY <3>2, <4>2
    <3>4. CASE ~(m <= half)
      <4>1. m - half \in 1..(n - half) /\ half + (m - half) = m
        BY <1>1, <1>2, <3>1, <3>4
      <4>2. m - half \in DOMAIN all[2] /\ all[2][m - half] = i
        BY <1>5, <1>6, <1>7, <3>1, <4>1
      <4> QED
        BY <3>2, <4>2
    <3> QED
      BY <3>3, <3>4
  <2>2. CASE p # 0
    <3>1. p + 2 \in 3..(2 + Len(x.later)) /\ p + 2 \in 1..(2 + Len(x.later)) /\ (p + 2) - 2 = p
      <4>1. p \in 0..Len(x.later)
        BY <1>1
      <4>2. \A z \in Nat : \A y \in 0..z :
              y # 0 => y + 2 \in 3..(2 + z) /\ y + 2 \in 1..(2 + z) /\ (y + 2) - 2 = y
        OBVIOUS
      <4> QED
        BY <1>1, <2>2, <4>1, <4>2
    <3>2. all[p + 2] = x.later[p] /\ p + 2 \in DOMAIN all
      BY <1>7, <3>1
    <3>3. List(x, p) = x.later[p]
      BY <2>2 DEF List
    <3>4. m \in DOMAIN all[p + 2] /\ i = all[p + 2][m]
      BY <1>9, <3>2, <3>3
    <3> QED
      BY <3>2, <3>4
  <2> QED
    BY <2>1, <2>2
<1> QED
  BY <1>10, TurnHolds DEF all

\* A number in a set has its place in the order.
LEMMA InOrderNamesAll ==
  ASSUME NEW S \in SUBSET Nat, IsFiniteSet(S), NEW x \in S
  PROVE  \E n \in 1..Cardinality(S) : InOrder(S)[n] = x
<1> DEFINE N == Cardinality(S)
           o == InOrder(S)
<1>1. N \in Nat /\ o \in [1..N -> S] /\ \A m, n \in 1..N : o[m] = o[n] => m = n
  BY InOrderNamesOnce
<1> HIDE DEF o
<1>2. IsFiniteSet(1..N) /\ Cardinality(1..N) = N
  <2> HIDE DEF N
  <2> QED
    BY <1>1, FS_Interval
<1>3. o \in Injection(1..N, S)
  BY <1>1 DEF Injection, IsInjective
<1>4. o \in Surjection(1..N, S)
  BY <1>2, <1>3, FS_Injection
<1>5. \E n \in 1..N : o[n] = x
  BY <1>4 DEF Surjection
<1> QED
  BY <1>5 DEF o

\* The first batches of a visit hold all of its sends.
LEMMA FirstHeld ==
  ASSUME NEW order, order \in Seq(Nat), NEW n \in DOMAIN order
  PROVE  \E b \in DOMAIN Batches(order) : order[n] \in Held(Batches(order)[b])
<1> DEFINE N == Len(order)
           B == (N + BatchSize - 1) \div BatchSize
           w == Batches(order)
           from(b) == (b - 1) * BatchSize
           to(b) == Min({b * BatchSize, N})
           ids(b) == SubSeq(order, from(b) + 1, to(b))
           q == (n - 1) \div BatchSize
           c == q + 1
<1>1. /\ N \in Nat /\ DOMAIN order = 1..N /\ \A i \in 1..N : order[i] \in Nat
      /\ BatchSize \in Nat \ {0} /\ N + BatchSize - 1 \in Nat
  BY DeliveryAssumption, LenProperties, ElementOfSeq
<1>2. w = [b \in 1..B |-> Batch(ids(b))]
  BY DEF Batches
<1>3. n \in Nat /\ 1 <= n /\ n <= N /\ n - 1 \in Nat
  BY <1>1
<1> HIDE DEF N, w
<1>d. \A x \in Nat : /\ x \div BatchSize \in Nat /\ (x \div BatchSize) * BatchSize <= x
                     /\ x < (x \div BatchSize) * BatchSize + BatchSize
  <2> DEFINE z == BatchSize
  <2>1. z \in Nat \ {0}
    BY <1>1
  <2> HIDE DEF z
  <2>2. \A x \in Nat : /\ x \div z \in Nat /\ (x \div z) * z <= x /\ x < (x \div z) * z + z
    <3> SUFFICES ASSUME NEW x \in Nat
                 PROVE  x \div z \in Nat /\ (x \div z) * z <= x /\ x < (x \div z) * z + z
      OBVIOUS
    <3>1. x \div z \in Nat /\ (x \div z) * z <= x
      BY <2>1, RoundsDown
    <3>2. x < (x \div z) * z + z
      BY <2>1
    <3> QED
      BY <3>1, <3>2
  <2> QED
    BY <2>2 DEF z
<1>4. B \in Nat /\ N + BatchSize - 1 < B * BatchSize + BatchSize
  <2> DEFINE x == N + BatchSize - 1
  <2>1. x \in Nat
    BY <1>1
  <2> HIDE DEF x
  <2>2. x \div BatchSize \in Nat /\ x < (x \div BatchSize) * BatchSize + BatchSize
    BY <1>d, <2>1
  <2> QED
    BY <2>2 DEF x
<1>5. q \in Nat /\ q * BatchSize <= n - 1 /\ n - 1 < q * BatchSize + BatchSize
  BY <1>3, <1>d
<1> HIDE DEF B, q
<1>6. q < B
  <2>1. q * BatchSize \in Nat /\ B * BatchSize \in Nat
    BY <1>1, <1>4, <1>5
  <2>2. q * BatchSize < B * BatchSize
    <3>1. \A x, y, i, j \in Nat, z \in Nat \ {0} :
            x <= i - 1 /\ i <= j /\ j + z - 1 < y + z => x < y
      OBVIOUS
    <3>2. /\ q * BatchSize <= n - 1 /\ n <= N
          /\ N + BatchSize - 1 < B * BatchSize + BatchSize
      BY <1>3, <1>4, <1>5
    <3> QED
      BY <1>1, <1>3, <2>1, <3>1, <3>2
  <2>3. \A x, y, z \in Nat : y <= x => y * z <= x * z
    OBVIOUS
  <2>4. ~(B <= q)
    <3>1. B <= q => B * BatchSize <= q * BatchSize
      BY <1>1, <1>4, <1>5, <2>3
    <3> QED
      BY <2>1, <2>2, <3>1
  <2> QED
    BY <1>4, <1>5, <2>4
<1>7. c \in 1..B /\ c - 1 = q /\ c \in Nat
  BY <1>4, <1>5, <1>6
<1>8. from(c) = q * BatchSize /\ c * BatchSize = q * BatchSize + BatchSize
      /\ from(c) \in Nat /\ c * BatchSize \in Nat
  BY <1>1, <1>5, <1>7
<1>9. to(c) \in Nat /\ n <= to(c) /\ to(c) <= N
  <2>1. to(c) \in {c * BatchSize, N} /\ to(c) <= N
    BY <1>1, <1>8, OfTwoNats
  <2> HIDE DEF to
  <2> QED
    BY <1>1, <1>3, <1>5, <1>8, <2>1
<1> HIDE DEF from, to, c
<1>10. /\ ids(c) \in Seq(Nat) /\ n - from(c) \in DOMAIN ids(c)
       /\ ids(c)[n - from(c)] = order[n]
  <2>1. \A i \in (from(c) + 1)..to(c) : order[i] \in Nat
    BY <1>1, <1>8, <1>9
  <2>2. /\ ids(c) \in Seq(Nat)
        /\ Len(ids(c)) = IF from(c) + 1 <= to(c) THEN to(c) - (from(c) + 1) + 1 ELSE 0
        /\ \A i \in 1..(to(c) - (from(c) + 1) + 1) : ids(c)[i] = order[from(c) + 1 + i - 1]
    <3>1. from(c) + 1 \in Int /\ to(c) \in Int
      BY <1>8, <1>9
    <3> QED
      BY <2>1, <3>1, SubSeqProperties
  <2>3. /\ from(c) + 1 <= to(c)
        /\ n - from(c) \in 1..(to(c) - (from(c) + 1) + 1)
        /\ from(c) + 1 + (n - from(c)) - 1 = n
    <3>1. \A x, i, y \in Nat : x <= i - 1 /\ i <= y =>
            x + 1 <= y /\ i - x \in 1..(y - (x + 1) + 1) /\ x + 1 + (i - x) - 1 = i
      OBVIOUS
    <3>2. from(c) <= n - 1
      BY <1>5, <1>8
    <3> QED
      BY <1>3, <1>8, <1>9, <3>1, <3>2
  <2> HIDE DEF ids
  <2>4. DOMAIN ids(c) = 1..Len(ids(c))
    BY <2>2, LenProperties
  <2> QED
    BY <2>2, <2>3, <2>4
<1> HIDE DEF ids
<1>11. Lists(w[c]) = {0} /\ List(w[c], 0) = ids(c)
  <2>1. w[c] = Batch(ids(c))
    BY <1>2, <1>7
  <2>2. w[c].ids = ids(c) /\ w[c].at = "building" /\ w[c].later = <<>>
    BY <2>1 DEF Batch
  <2>3. 0..Len(<<>>) = {0}
    OBVIOUS
  <2> QED
    BY <2>2, <2>3 DEF Lists, List
<1>12. order[n] \in Held(w[c]) /\ c \in DOMAIN w
  <2>1. 0 \in Lists(w[c]) /\ n - from(c) \in DOMAIN List(w[c], 0)
        /\ List(w[c], 0)[n - from(c)] = order[n]
    BY <1>10, <1>11
  <2>2. \A m \in DOMAIN List(w[c], 0) : List(w[c], 0)[m] \in Held(w[c])
    BY <2>1, HeldWhere
  <2> QED
    BY <1>2, <1>7, <2>1, <2>2
<1> QED
  BY <1>12 DEF w

-----------------------------------------------------------------------------
(* What is owed, and what the keeper has.                                  *)

\* Division by a positive number is monotone.
LEMMA DivisionGrows ==
  ASSUME NEW x \in Nat, NEW y \in Nat, x <= y, NEW n \in Nat \ {0}
  PROVE  x \div n <= y \div n
<1> DEFINE p == x \div n
           q == y \div n
<1>1. p \in Nat /\ p * n <= x /\ q \in Nat
  BY RoundsDown
<1>2. y < q * n + n
  OBVIOUS
<1> HIDE DEF p, q
<1>3. \A a, b, c \in Nat : b + 1 <= a => b * c + c <= a * c
  <2> SUFFICES ASSUME NEW a \in Nat, NEW b \in Nat, NEW c \in Nat, b + 1 <= a
               PROVE  b * c + c <= a * c
    OBVIOUS
  <2>1. (b + 1) * c <= a * c
    OBVIOUS
  <2>2. (b + 1) * c = b * c + c
    OBVIOUS
  <2> QED
    BY <2>1, <2>2
<1>4. ~(q + 1 <= p)
  <2>1. q * n \in Nat /\ p * n \in Nat
    BY <1>1
  <2>2. q + 1 <= p => q * n + n <= p * n
    BY <1>1, <1>3
  <2> QED
    BY <1>1, <1>2, <2>1, <2>2
<1>5. p <= q
  BY <1>1, <1>4
<1> QED
  BY <1>5 DEF p, q

\* Burn weights within the commits.
WeightsFit(b) == b \in [Wallets -> Nat] /\ \A w \in Wallets : b[w] <= Bet[w] * Full

\* What each wallet is owed is a whole number, and so is what is left of a commit.
LEMMA OwedTypes ==
  ASSUME NEW b, WeightsFit(b), NEW w \in Wallets, NEW x \in Nat
  PROVE  /\ Bet[w] * Full - b[w] \in Nat /\ Bet[w] * Full \in Nat /\ b[w] \in Nat
         /\ x * (Bet[w] * Full - b[w]) \in Nat /\ x * SumFunctionOnSet(b, Wallets) \in Nat
         /\ SumFunctionOnSet(b, Wallets) \in Nat /\ TotalBet * Full \in Nat \ {0}
         /\ DeliveryOwed(x, w, b) \in Nat /\ BurnOwed(x, b) \in Nat
         /\ DeliveryOwed(x, w, b) * (TotalBet * Full) <= x * (Bet[w] * Full - b[w])
         /\ BurnOwed(x, b) * (TotalBet * Full) <= x * SumFunctionOnSet(b, Wallets)
<1>1. b \in [Wallets -> Nat] /\ b[w] <= Bet[w] * Full /\ Wallets # {} /\ b[w] \in Nat
  BY DEF WeightsFit
<1>2. /\ SumFunctionOnSet(b, Wallets) \in Nat
      /\ TotalBet * Full \in Nat \ {0} /\ Full \in Nat /\ Bet[w] \in Nat
  BY <1>1, Totals, SendAssumption
<1>3. Bet[w] * Full \in Nat
  BY <1>2
<1>4. Bet[w] * Full - b[w] \in Nat
  BY <1>1, <1>3
<1>5. x * (Bet[w] * Full - b[w]) \in Nat /\ x * SumFunctionOnSet(b, Wallets) \in Nat
  <2>1. \A p, q \in Nat : p * q \in Nat
    OBVIOUS
  <2> QED
    BY <1>2, <1>4, <2>1
<1>6. /\ DeliveryOwed(x, w, b) \in Nat
      /\ DeliveryOwed(x, w, b) * (TotalBet * Full) <= x * (Bet[w] * Full - b[w])
  BY <1>2, <1>5, RoundsDown DEF DeliveryOwed
<1>7. /\ BurnOwed(x, b) \in Nat
      /\ BurnOwed(x, b) * (TotalBet * Full) <= x * SumFunctionOnSet(b, Wallets)
  BY <1>2, <1>5, RoundsDown DEF BurnOwed
<1> QED
  BY <1>1, <1>2, <1>3, <1>4, <1>5, <1>6, <1>7

\* More is owed of more.
LEMMA OwedGrows ==
  ASSUME NEW b, WeightsFit(b), NEW w \in Wallets, NEW x \in Nat, NEW y \in Nat, x <= y
  PROVE  DeliveryOwed(x, w, b) <= DeliveryOwed(y, w, b) /\ BurnOwed(x, b) <= BurnOwed(y, b)
<1>1. \A p, q, r \in Nat : p <= q => p * r <= q * r
  OBVIOUS
<1>2. /\ Bet[w] * Full - b[w] \in Nat /\ SumFunctionOnSet(b, Wallets) \in Nat
      /\ TotalBet * Full \in Nat \ {0}
      /\ x * (Bet[w] * Full - b[w]) \in Nat /\ x * SumFunctionOnSet(b, Wallets) \in Nat
  BY OwedTypes
<1>3. y * (Bet[w] * Full - b[w]) \in Nat /\ y * SumFunctionOnSet(b, Wallets) \in Nat
  BY OwedTypes
<1>4. DeliveryOwed(x, w, b) <= DeliveryOwed(y, w, b)
  <2>1. x * (Bet[w] * Full - b[w]) <= y * (Bet[w] * Full - b[w])
    BY <1>1, <1>2
  <2> QED
    BY <1>2, <1>3, <2>1, DivisionGrows DEF DeliveryOwed
<1>5. BurnOwed(x, b) <= BurnOwed(y, b)
  <2>1. x * SumFunctionOnSet(b, Wallets) <= y * SumFunctionOnSet(b, Wallets)
    BY <1>1, <1>2
  <2> QED
    BY <1>2, <1>3, <2>1, DivisionGrows DEF BurnOwed
<1> QED
  BY <1>4, <1>5

\* What is owed to the wallets and to the fire is no more than there is.
LEMMA OwedFits ==
  ASSUME NEW b, WeightsFit(b), Wallets # {}, NEW x \in Nat,
         NEW owed, \A w \in Wallets : owed[w] = DeliveryOwed(x, w, b)
  PROVE  /\ SumFunctionOnSet(owed, Wallets) \in Nat /\ BurnOwed(x, b) \in Nat
         /\ SumFunctionOnSet(owed, Wallets) + BurnOwed(x, b) <= x
<1> DEFINE D == TotalBet * Full
           g == [w \in Wallets |-> Bet[w] * Full - b[w]]
           h == [w \in Wallets |-> Bet[w] * Full]
           F == SumFunctionOnSet(owed, Wallets)
           G == SumFunctionOnSet(g, Wallets)
           H == SumFunctionOnSet(h, Wallets)
           K == SumFunctionOnSet(b, Wallets)
           fire == BurnOwed(x, b)
<1>1. PICK v \in Wallets : TRUE
  OBVIOUS
<1>2. fire \in Nat /\ K \in Nat /\ D \in Nat \ {0} /\ fire * D <= x * K
  BY OwedTypes
<1>3. IsFiniteSet(Wallets) /\ Wallets \in SUBSET Wallets /\ Full \in Nat
  BY SendAssumption
<1>4. ASSUME NEW w \in Wallets
      PROVE  /\ owed[w] \in Nat /\ g[w] \in Nat /\ h[w] \in Nat /\ b[w] \in Nat /\ Bet[w] \in Nat
             /\ owed[w] * D <= x * g[w] /\ h[w] = g[w] + b[w] /\ h[w] * 1 <= Full * Bet[w]
  <2>1. /\ Bet[w] * Full - b[w] \in Nat /\ Bet[w] * Full \in Nat /\ b[w] \in Nat
        /\ DeliveryOwed(x, w, b) \in Nat
        /\ DeliveryOwed(x, w, b) * (TotalBet * Full) <= x * (Bet[w] * Full - b[w])
    BY OwedTypes
  <2>2. Bet[w] \in Nat /\ Full * Bet[w] = Bet[w] * Full
    BY SendAssumption
  <2>3. g[w] = Bet[w] * Full - b[w] /\ h[w] = Bet[w] * Full
    OBVIOUS
  <2> HIDE DEF g, h
  <2> QED
    BY <2>1, <2>2, <2>3
<1> HIDE DEF g, h, D
<1>5. F * D <= x * G /\ F \in Nat /\ G \in Nat
  <2>1. \A w \in Wallets : owed[w] \in Nat /\ g[w] \in Nat /\ owed[w] * D <= x * g[w]
    BY <1>4
  <2>2. F * D <= x * G
    BY <1>2, <1>3, <2>1, SumOfShares
  <2> QED
    BY <1>3, <2>1, <2>2, SumIsNat
<1>6. H = G + K /\ H \in Nat
  <2>1. \A w \in Wallets : g[w] \in Nat /\ b[w] \in Nat /\ h[w] = g[w] + b[w] /\ h[w] \in Nat
    BY <1>4
  <2> QED
    BY <1>3, <2>1, SumOfBoth, SumIsNat
<1>7. H <= D
  <2>1. \A w \in Wallets : h[w] \in Nat /\ Bet[w] \in Nat /\ h[w] * 1 <= Full * Bet[w]
    BY <1>4
  <2>2. H * 1 <= Full * TotalBet /\ TotalBet \in Nat
    BY <1>3, <2>1, SumOfShares, SumIsNat DEF TotalBet
  <2>3. Full * TotalBet = D
    BY <1>3, <2>2 DEF D
  <2> QED
    BY <1>2, <1>6, <2>2, <2>3
<1> HIDE DEF F, G, H, K, fire
<1>8. (F + fire) * D <= x * D
  <2>1. (F + fire) * D = F * D + fire * D /\ x * H = x * G + x * K
        /\ F * D \in Nat /\ fire * D \in Nat /\ x * G \in Nat /\ x * K \in Nat
    BY <1>2, <1>5, <1>6
  <2>2. x * H <= x * D /\ x * H \in Nat /\ x * D \in Nat
    BY <1>2, <1>6, <1>7
  <2> QED
    BY <1>2, <1>5, <2>1, <2>2
<1>9. F + fire <= x
  <2>1. \A p, q, r \in Nat : r # 0 /\ p * r <= q * r => p <= q
    <3> SUFFICES ASSUME NEW p \in Nat, NEW q \in Nat, NEW r \in Nat, r # 0, p * r <= q * r, q + 1 <= p
                 PROVE  FALSE
      OBVIOUS
    <3>1. (q + 1) * r <= p * r
      OBVIOUS
    <3>2. (q + 1) * r = q * r + r /\ q * r \in Nat /\ p * r \in Nat
      OBVIOUS
    <3> QED
      BY <3>1, <3>2
  <2> QED
    BY <1>2, <1>5, <1>8, <2>1
<1> QED
  BY <1>2, <1>5, <1>9 DEF F, fire

\* Where nobody has more than what is owed, what is still missing is there.
LEMMA MissingIsThere ==
  ASSUME NEW owed, NEW has, NEW W \in SUBSET Wallets, NEW short,
         \A w \in Wallets : owed[w] \in Nat /\ has[w] \in Nat /\ has[w] <= owed[w],
         \A w \in W : short[w] \in Nat /\ has[w] + short[w] <= owed[w],
         NEW left \in Nat, NEW gone \in Nat, NEW fire \in Nat, gone <= fire,
         SumFunctionOnSet(owed, Wallets) + fire <= left + gone + SumFunctionOnSet(has, Wallets)
  PROVE  SumFunctionOnSet(short, W) <= left
<1> DEFINE f == [w \in Wallets |-> IF w \in W THEN short[w] ELSE 0]
           h == [w \in Wallets |-> has[w] + f[w]]
           S == SumFunctionOnSet(short, W)
           Has == SumFunctionOnSet(has, Wallets)
           Owed == SumFunctionOnSet(owed, Wallets)
<1>1. IsFiniteSet(Wallets) /\ Wallets \in SUBSET Wallets
  BY SendAssumption
<1>2. \A w \in Wallets : f[w] = (IF w \in W THEN short[w] ELSE 0) /\ h[w] = has[w] + f[w]
  OBVIOUS
<1> HIDE DEF f, h
<1>3. ASSUME NEW w \in Wallets
      PROVE  has[w] \in Nat /\ f[w] \in Nat /\ h[w] \in Nat /\ h[w] = has[w] + f[w] /\ h[w] <= owed[w]
  <2>1. CASE w \in W
    BY <1>2, <2>1
  <2>2. CASE w \notin W
    BY <1>2, <2>2
  <2> QED
    BY <2>1, <2>2
<1>4. SumFunctionOnSet(f, Wallets) = S /\ S \in Nat
  <2>1. (\A w \in W : f[w] \in Nat /\ f[w] = short[w]) /\ \A w \in Wallets \ W : f[w] = 0
    BY <1>2
  <2> QED
    BY <1>1, <2>1, SumOnPart
<1>5. SumFunctionOnSet(h, Wallets) = Has + SumFunctionOnSet(f, Wallets)
  BY <1>1, <1>3, SumOfBoth
<1>6. SumFunctionOnSet(h, Wallets) <= Owed
  <2>1. \A w \in Wallets : h[w] \in Nat /\ owed[w] \in Nat /\ h[w] <= owed[w]
    BY <1>3
  <2> QED
    BY <1>1, <2>1, SumOfLess
<1>7. Has \in Nat /\ Owed \in Nat
  BY <1>1, SumIsNat
<1> HIDE DEF S, Has, Owed
<1>8. S <= left
  BY <1>4, <1>5, <1>6, <1>7 DEF Has, Owed
<1> QED
  BY <1>8 DEF S

\* What a landed transfer takes from the keeper arrives.
LEMMA BroughtAddsUp ==
  ASSUME NEW s, NEW t, FilesTyped(s, t), NEW k \in DOMAIN t, NEW g \in [Wallets -> Nat],
         NEW h, \A w \in Wallets : h[w] = g[w] + Brings(t, k, s, w)
  PROVE  /\ SumFunctionOnSet(h, Wallets)
              = SumFunctionOnSet(g, Wallets) + SumFunctionOnSet(t[k].pays, DOMAIN t[k].pays)
         /\ SumFunctionOnSet(t[k].pays, DOMAIN t[k].pays) \in Nat
         /\ SumFunctionOnSet(g, Wallets) \in Nat
<1> DEFINE S == DOMAIN t[k].pays
           pays == t[k].pays
           kind == [i \in S |-> s[i].wallet]
           brings == [w \in Wallets |-> SumFunctionOnSet(pays, {i \in S : kind[i] = w})]
<1>1. /\ S \subseteq DOMAIN s /\ pays \in [S -> Positive] /\ DOMAIN s \subseteq Nat
      /\ IsFiniteSet(DOMAIN s) /\ \A i \in DOMAIN s : s[i].wallet \in Wallets
  BY Typed, Booked
<1>2. IsFiniteSet(S) /\ \A i \in S : pays[i] \in Nat
  <2>1. IsFiniteSet(S)
    BY <1>1, FS_Subset
  <2> QED
    BY <1>1, <2>1 DEF Positive
<1>3. IsFiniteSet(Wallets) /\ \A i \in S : kind[i] \in Wallets
  BY <1>1, SendAssumption
<1>4. \A w \in Wallets : brings[w] = Brings(t, k, s, w) /\ brings[w] \in Nat
  <2> SUFFICES ASSUME NEW w \in Wallets PROVE brings[w] = Brings(t, k, s, w) /\ brings[w] \in Nat
    OBVIOUS
  <2> DEFINE T == {i \in S : kind[i] = w}
  <2>1. T = {i \in DOMAIN t[k].pays : s[i].wallet = w} /\ T \in SUBSET S
    OBVIOUS
  <2>2. brings[w] = SumFunctionOnSet(pays, T)
    OBVIOUS
  <2>3. Brings(t, k, s, w) = SumFunctionOnSet(pays, T)
    BY <2>1 DEF Brings
  <2> HIDE DEF T, S, pays, brings
  <2>4. SumFunctionOnSet(pays, T) \in Nat
    BY <1>2, <2>1, SumIsNat
  <2> QED
    BY <2>2, <2>3, <2>4
<1>5. SumFunctionOnSet(brings, Wallets) = SumFunctionOnSet(pays, S)
  <2> HIDE DEF S, pays, kind
  <2> QED
    BY <1>2, <1>3, SumByKind
<1> HIDE DEF brings, S, pays
<1>6. \A w \in Wallets : g[w] \in Nat /\ brings[w] \in Nat /\ h[w] = g[w] + brings[w]
  BY <1>4
<1>7. SumFunctionOnSet(h, Wallets) = SumFunctionOnSet(g, Wallets) + SumFunctionOnSet(brings, Wallets)
  BY <1>3, <1>6, SumOfBoth
<1>8. SumFunctionOnSet(pays, S) \in Nat /\ SumFunctionOnSet(g, Wallets) \in Nat
  <2>1. S \in SUBSET S /\ Wallets \in SUBSET Wallets
    OBVIOUS
  <2> QED
    BY <1>2, <1>3, <2>1, SumIsNat
<1> QED
  BY <1>5, <1>7, <1>8 DEF S, pays

-----------------------------------------------------------------------------
(* The invariant behind the shares.                                        *)

\* A visit takes every send that is due; when it shares out, it still has all the
\* due sends of the wallets it serves.
DueTaken ==
  /\ pc = "checking" => DueNow \subseteq due
  /\ pc = "sharing" => \A i \in DueNow, j \in due : sends[i].wallet = sends[j].wallet => i \in due

\* What was bought is on the keeper, burned, or delivered.
Balanced == keeper + burned + SumFunctionOnSet(got, Wallets) = lots * Lot

\* The fire has had no more than its share of what was read.
FireWithin == Exact => burned <= BurnOwed(read * Lot, burn)

\* Where somebody burns, nobody has a claim to more than its share of what was
\* read.
Within == Exact => \A w \in Wallets : Claimed(sends, txs, w) <= Target(read * Lot, w)

BookInv ==
  /\ BooksFit(sends, txs, got)
  /\ MarkedHeld(sends, work)
  /\ DueTaken
  /\ Balanced
  /\ FireWithin

\* What a step keeps.
Onwards == BookInv' /\ (Within => Within')

\* The counts of an exact pot.
LEMMA Counts ==
  ASSUME IInv
  PROVE  /\ WeightsFit(burn) /\ lots \in Nat /\ read \in Nat /\ read <= lots /\ Lot \in Nat
         /\ read * Lot \in Nat /\ lots * Lot \in Nat /\ read * Lot <= lots * Lot
         /\ burned \in Nat /\ keeper \in Nat /\ got \in [Wallets -> Nat]
         /\ SumFunctionOnSet(got, Wallets) \in Nat
         /\ \A w \in Wallets : /\ Target(read * Lot, w) \in Nat
                               /\ Target(read * Lot, w) <= DeliveryOwed(lots * Lot, w, burn)
                               /\ DeliveryOwed(lots * Lot, w, burn) \in Nat
<1>1. OtherTypes
  BY DEF IInv
<1>2. /\ lots \in Nat /\ read \in Nat /\ read <= lots /\ Lot \in Nat /\ burned \in Nat /\ keeper \in Nat
      /\ got \in [Wallets -> Nat]
  BY <1>1, DeliveryAssumption DEF OtherTypes
<1>3. WeightsFit(burn)
  BY <1>1, Weights DEF WeightsFit
<1>4. read * Lot \in Nat /\ lots * Lot \in Nat /\ read * Lot <= lots * Lot
  <2>1. \A x, y, z \in Nat : x <= y => x * z \in Nat /\ y * z \in Nat /\ x * z <= y * z
    OBVIOUS
  <2> QED
    BY <1>2, <2>1
<1>5. SumFunctionOnSet(got, Wallets) \in Nat
  <2>1. IsFiniteSet(Wallets) /\ Wallets \in SUBSET Wallets /\ \A w \in Wallets : got[w] \in Nat
    BY <1>2, SendAssumption
  <2> QED
    BY <2>1, SumIsNat
<1>6. ASSUME NEW w \in Wallets
      PROVE  /\ Target(read * Lot, w) \in Nat
             /\ Target(read * Lot, w) <= DeliveryOwed(lots * Lot, w, burn)
             /\ DeliveryOwed(lots * Lot, w, burn) \in Nat
  <2>1. DeliveryOwed(read * Lot, w, burn) <= DeliveryOwed(lots * Lot, w, burn)
    BY <1>3, <1>4, OwedGrows
  <2>2. DeliveryOwed(read * Lot, w, burn) \in Nat /\ DeliveryOwed(lots * Lot, w, burn) \in Nat
    BY <1>3, <1>4, OwedTypes
  <2> QED
    BY <2>1, <2>2 DEF Target
<1> QED
  BY <1>2, <1>3, <1>4, <1>5, <1>6

\* Claims that do not grow stay within the shares.
LEMMA WithinStays ==
  ASSUME IInv, IInv', UNCHANGED <<burn, read>>,
         \A w \in Wallets : Claimed(sends', txs', w) <= Claimed(sends, txs, w)
  PROVE  Within => Within'
<1>1. SUFFICES ASSUME Within, Exact'
               PROVE  \A w \in Wallets : Claimed(sends', txs', w) <= (Target(read * Lot, w))'
  BY DEF Within
<1>2. Exact
  BY <1>1 DEF Exact
<1>3. \A w \in Wallets : Claimed(sends, txs, w) <= Target(read * Lot, w)
  BY <1>1, <1>2 DEF Within
<1>4. ASSUME NEW w \in Wallets PROVE Claimed(sends', txs', w) <= (Target(read * Lot, w))'
  <2>1. Claimed(sends', txs', w) \in Nat
    BY Booked DEF IInv
  <2>2. Claimed(sends, txs, w) \in Nat
    BY Booked DEF IInv
  <2>3. Target(read * Lot, w) \in Nat
    BY Counts
  <2>4. (Target(read * Lot, w))' = Target(read * Lot, w)
    BY DEF Target
  <2>5. Claimed(sends', txs', w) <= Claimed(sends, txs, w) /\ Claimed(sends, txs, w) <= Target(read * Lot, w)
    BY <1>3
  <2> DEFINE a == Claimed(sends', txs', w)
             b == Claimed(sends, txs, w)
             c == Target(read * Lot, w)
  <2>6. a \in Nat /\ b \in Nat /\ c \in Nat /\ a <= b /\ b <= c
    BY <2>1, <2>2, <2>3, <2>5
  <2> HIDE DEF a, b, c
  <2>7. a <= c
    BY <2>6
  <2> QED
    BY <2>4, <2>7 DEF a, c
<1> QED
  BY <1>4

\* What the fire has had.
LEMMA FireStays ==
  ASSUME FireWithin, UNCHANGED <<burn, read, burned>>
  PROVE  FireWithin'
BY DEF FireWithin, Exact

\* A step that moves no money.
LEMMA RecordsStep ==
  ASSUME IInv, IInv', BookInv, UNCHANGED <<burn, read, burned, lots, keeper, got>>,
         BooksFit(sends', txs', got),
         \A w \in Wallets : Claimed(sends', txs', w) <= Claimed(sends, txs, w),
         MarkedHeld(sends', work'), DueTaken'
  PROVE  Onwards
<1>1. Within => Within'
  BY WithinStays
<1>2. Balanced'
  BY DEF BookInv, Balanced
<1>3. BooksFit(sends', txs', got') /\ FireWithin'
  BY FireStays DEF BookInv
<1> QED
  BY <1>1, <1>2, <1>3 DEF BookInv, Onwards

\* A step of nothing but the chain leaves what is due.
LEMMA DueStays ==
  ASSUME DueTaken, UNCHANGED <<pc, phase, pass, due, sends>>
  PROVE  DueTaken'
BY DEF DueTaken, DueNow, With, Ids

\* Claims that stay as they are.
LEMMA SameClaims ==
  ASSUME IInv
  PROVE  \A w : Claimed(sends, txs, w) <= Claimed(sends, txs, w)
<1>1. \A w : Claimed(sends, txs, w) \in Nat
  BY Booked DEF IInv
<1>2. \A x \in Nat : x <= x
  OBVIOUS
<1> QED
  BY <1>1, <1>2

\* A purchase adds to the keeper's account what it adds to what was bought.
LEMMA BuyFair ==
  ASSUME IInv, IInv', BookInv, Buy
  PROVE  Onwards
<1>1. /\ UNCHANGED <<burn, read, burned, got, sends, txs, phase, pass, pc, due, work>>
      /\ lots' = lots + 1 /\ keeper' = keeper + Lot
  BY DEF Buy, startVars, passVars
<1>2. Balanced'
  <2> DEFINE g == SumFunctionOnSet(got, Wallets)
  <2>1. keeper \in Nat /\ burned \in Nat /\ g \in Nat /\ lots \in Nat /\ Lot \in Nat
    BY Counts
  <2>2. keeper + burned + g = lots * Lot
    BY DEF BookInv, Balanced
  <2>3. SumFunctionOnSet(got', Wallets) = g
    BY <1>1
  <2> HIDE DEF g
  <2>4. (lots + 1) * Lot = lots * Lot + Lot
    BY <2>1
  <2>5. lots * Lot \in Nat
    BY <2>1
  <2>6. keeper + Lot + burned + g = lots * Lot + Lot
    BY <2>1, <2>2, <2>5
  <2> QED
    BY <1>1, <2>3, <2>4, <2>6 DEF Balanced
<1>3. Within => Within'
  <2>1. \A w \in Wallets : Claimed(sends', txs', w) <= Claimed(sends, txs, w)
    BY <1>1, SameClaims
  <2> QED
    BY <1>1, <2>1, WithinStays
<1>4. DueTaken' /\ MarkedHeld(sends', work') /\ BooksFit(sends', txs', got') /\ FireWithin'
  BY <1>1, DueStays, FireStays DEF BookInv
<1> QED
  BY <1>2, <1>3, <1>4 DEF BookInv, Onwards

\* What a transfer that lands takes from the keeper arrives, and was claimed.
LEMMA DecideFair ==
  ASSUME IInv, IInv', BookInv, NEW k \in DOMAIN txs, NEW fate \in {"landed", "void"}, Decide(k, fate)
  PROVE  Onwards
<1>1. /\ UNCHANGED <<burn, read, burned, lots, sends, phase, pass, pc, due, work>>
      /\ txs' = Fated(txs, k, fate)
  BY DEF Decide, startVars, passVars, Fated
<1>2. \/ /\ fate = "landed" /\ txs[k].fate = "flying" /\ Pays(k) <= keeper
         /\ keeper' = keeper - Pays(k)
         /\ got' = [w \in Wallets |-> got[w] + Brings(txs, k, sends, w)]
      \/ /\ fate = "void" /\ txs[k].fate \in {"signed", "flying"}
         /\ keeper' = keeper /\ got' = got
  BY DEF Decide, Brings
<1>3. FilesTyped(sends, txs) /\ Paid(sends, txs) /\ BooksFit(sends, txs, got)
  BY DEF IInv, BookInv
<1>4. CASE fate = "void"
  <2>1. BooksFit(sends, txs', got) /\ \A w : Claimed(sends, txs', w) <= Claimed(sends, txs, w)
    BY <1>1, <1>2, <1>3, <1>4, FateGoes
  <2>2. DueTaken' /\ MarkedHeld(sends', work')
    BY <1>1, DueStays DEF BookInv
  <2> QED
    BY <1>1, <1>2, <1>4, <2>1, <2>2, RecordsStep
<1>5. CASE fate = "landed"
  <2> DEFINE h == [w \in Wallets |-> got[w] + Brings(txs, k, sends, w)]
             g == SumFunctionOnSet(got, Wallets)
             p == SumFunctionOnSet(txs[k].pays, DOMAIN txs[k].pays)
  <2>1. /\ txs[k].fate = "flying" /\ keeper' = keeper - p /\ p <= keeper
        /\ got' = h /\ \A w \in Wallets : h[w] = got[w] + Brings(txs, k, sends, w)
    BY <1>2, <1>5 DEF Pays, SumFunction
  <2> HIDE DEF h
  <2>2. BooksFit(sends, txs', h) /\ \A w : Claimed(sends, txs', w) <= Claimed(sends, txs, w)
    BY <1>1, <1>3, <1>5, <2>1, FateLands
  <2>3. SumFunctionOnSet(h, Wallets) = g + p /\ p \in Nat /\ g \in Nat
    <3>1. got \in [Wallets -> Nat]
      BY Counts
    <3> QED
      BY <1>3, <2>1, <3>1, BroughtAddsUp
  <2>4. Balanced'
    <3>1. keeper \in Nat /\ burned \in Nat /\ keeper + burned + g = lots * Lot
      BY Counts DEF BookInv, Balanced
    <3> HIDE DEF g, p
    <3>2. (keeper - p) + burned + (g + p) = keeper + burned + g
      BY <2>3, <3>1
    <3>3. keeper' = keeper - p /\ burned' = burned /\ SumFunctionOnSet(got', Wallets) = g + p /\ lots' = lots
      BY <1>1, <2>1, <2>3
    <3> QED
      BY <3>1, <3>2, <3>3 DEF Balanced
  <2>5. Within => Within'
    <3>1. \A w \in Wallets : Claimed(sends', txs', w) <= Claimed(sends, txs, w)
      BY <1>1, <2>2
    <3> QED
      BY <1>1, <3>1, WithinStays
  <2>6. DueTaken' /\ MarkedHeld(sends', work') /\ FireWithin'
    BY <1>1, DueStays, FireStays DEF BookInv
  <2>7. BooksFit(sends', txs', got')
    BY <1>1, <2>1, <2>2
  <2> QED
    BY <2>4, <2>5, <2>6, <2>7 DEF BookInv, Onwards
<1> QED
  BY <1>4, <1>5

\* No batches hold no marked sends.
LEMMA NobodyMarked ==
  ASSUME NEW s
  PROVE  MarkedHeld(s, <<>>) <=> \A i \in DOMAIN s : s[i].status # "in_progress"
<1>1. DOMAIN <<>> = {}
  BY EmptySeq
<1> QED
  BY <1>1 DEF MarkedHeld

\* Outside the sending no send is marked.
LEMMA NoneMarked ==
  ASSUME IInv, BookInv, pc # "sending"
  PROVE  work = <<>> /\ \A i \in Ids : sends[i].status # "in_progress"
<1>1. work = <<>> /\ MarkedHeld(sends, work)
  BY DEF IInv, VisitFits, BookInv
<1> QED
  BY <1>1, NobodyMarked DEF Ids

\* An account that cannot be read moves no money.
LEMMA AtaUnreadableFair ==
  ASSUME IInv, IInv', BookInv, AtaUnreadable
  PROVE  Onwards
<1>1. /\ UNCHANGED <<burn, read, burned, lots, keeper, got, sends, txs>>
      /\ pc' = "waiting" /\ work' = <<>> /\ pc = "checking"
  BY DEF AtaUnreadable, startVars, chainVars, ClearPass
<1>2. DueTaken'
  BY <1>1 DEF DueTaken
<1>3. MarkedHeld(sends', work')
  <2>1. MarkedHeld(sends, <<>>)
    BY <1>1, NoneMarked DEF BookInv
  <2> QED
    BY <1>1, <2>1
<1>4. BooksFit(sends', txs', got) /\ \A w \in Wallets : Claimed(sends', txs', w) <= Claimed(sends, txs, w)
  BY <1>1, SameClaims DEF BookInv
<1> QED
  BY <1>1, <1>2, <1>3, <1>4, RecordsStep

\* A step outside the sending that leaves no send marked.
LEMMA QuietStep ==
  ASSUME IInv, IInv', BookInv, UNCHANGED <<burn, read, burned, lots, keeper, got, txs>>,
         DOMAIN sends' = DOMAIN sends, \A i \in DOMAIN sends : Goes(sends[i], sends'[i], txs),
         work' = <<>>, \A i \in DOMAIN sends : sends'[i].status # "in_progress", DueTaken'
  PROVE  Onwards
<1>1. FilesTyped(sends, txs) /\ Paid(sends, txs) /\ BooksFit(sends, txs, got)
  BY DEF IInv, BookInv
<1>2. FilesTyped(sends', txs)
  BY DEF IInv
<1>3. BooksFit(sends', txs, got) /\ \A w : Claimed(sends', txs, w) <= Claimed(sends, txs, w)
  BY <1>1, <1>2, RecordsGo
<1>4. MarkedHeld(sends', work')
  BY NobodyMarked
<1>5. BooksFit(sends', txs', got)
      /\ \A w \in Wallets : Claimed(sends', txs', w) <= Claimed(sends, txs, w)
  BY <1>3
<1> QED
  BY <1>4, <1>5, RecordsStep

\* A record that stays moves as it may.
LEMMA Stays ==
  ASSUME NEW x, NEW t
  PROVE  Goes(x, x, t)
BY DEF Goes

\* A record that is closed with a landed transfer, too.
LEMMA ClosingGoes ==
  ASSUME NEW n \in Nat, NEW x \in RecordType(n), NEW t, x.tx # 0, t[x.tx].fate = "landed"
  PROVE  Goes(x, Close(x), t) /\ Close(x).status = "completed"
         /\ Close(x).wallet = x.wallet /\ Close(x).round = x.round
<1>1. Close(x) = [x EXCEPT !.status = "completed", !.tx = 0]
  BY DEF Close
<1>2. Close(x).status = "completed" /\ Close(x).tx = 0 /\ Close(x).amount = x.amount
      /\ Close(x).wallet = x.wallet /\ Close(x).round = x.round
  BY <1>1 DEF RecordType
<1> QED
  BY <1>2 DEF Goes

\* More of what was bought is known, and the fire takes no more than its share.
LEMMA ReadingFair ==
  ASSUME IInv, IInv', BookInv, ReadAndBurn, UNCHANGED <<burn, lots, got, sends, txs>>
  PROVE  (Within => Within') /\ Balanced' /\ FireWithin'
<1>1. /\ WeightsFit(burn) /\ lots \in Nat /\ read \in Nat /\ read <= lots /\ Lot \in Nat
      /\ read * Lot \in Nat /\ burned \in Nat /\ keeper \in Nat
      /\ SumFunctionOnSet(got, Wallets) \in Nat
  BY Counts
<1>2. CASE ~Exact
  <2>1. UNCHANGED <<read, burned, keeper>>
    BY <1>2 DEF ReadAndBurn
  <2>2. \A w \in Wallets : Claimed(sends', txs', w) <= Claimed(sends, txs, w)
    BY SameClaims
  <2>3. Within => Within'
    BY <2>1, <2>2, WithinStays
  <2>4. Balanced' /\ FireWithin'
    BY <2>1, FireStays DEF BookInv, Balanced
  <2> QED
    BY <2>3, <2>4
<1>3. CASE Exact
  <2> DEFINE Owed(m) == Max({0, Min({BurnOwed(m * Lot, burn) - burned, keeper})})
  <2>1. PICK n \in read..lots : /\ read' = n
                                /\ \E d \in {0, Owed(n)} : burned' = burned + d /\ keeper' = keeper - d
    BY <1>3 DEF ReadAndBurn
  <2>2. PICK d \in {0, Owed(n)} : burned' = burned + d /\ keeper' = keeper - d
    BY <2>1
  <2>3. n \in Nat /\ read <= n
    BY <1>1
  <2>4. n * Lot \in Nat /\ read * Lot <= n * Lot
    <3>1. \A x, y, z \in Nat : x <= y => y * z \in Nat /\ x * z <= y * z
      OBVIOUS
    <3> QED
      BY <1>1, <2>3, <3>1
  <2>5. PICK v \in Wallets : TRUE
    BY <1>3 DEF Exact
  <2>6. /\ BurnOwed(read * Lot, burn) <= BurnOwed(n * Lot, burn)
        /\ BurnOwed(read * Lot, burn) \in Nat /\ BurnOwed(n * Lot, burn) \in Nat
    BY <1>1, <2>4, OwedGrows, OwedTypes
  <2>7. burned <= BurnOwed(read * Lot, burn)
    BY <1>3 DEF BookInv, FireWithin
  <2> DEFINE x == BurnOwed(n * Lot, burn) - burned
             y == Min({x, keeper})
  <2>8. x \in Nat /\ burned + x = BurnOwed(n * Lot, burn)
    BY <1>1, <2>6, <2>7
  <2>9. Owed(n) = Max({0, y})
    OBVIOUS
  <2> HIDE DEF x, Owed
  <2>10. y \in Nat /\ y <= x
    <3>1. y \in {x, keeper} /\ y <= x
      BY <1>1, <2>8, OfTwoNats
    <3> QED
      BY <1>1, <2>8, <3>1
  <2> HIDE DEF y
  <2>11. Max({0, y}) \in {0, y}
    BY <2>10, OfTwo
  <2>12. d \in Nat /\ d <= x
    BY <2>2, <2>8, <2>9, <2>10, <2>11
  <2>13. burned' <= BurnOwed(n * Lot, burn)
    BY <1>1, <2>2, <2>8, <2>12
  <2>14. ASSUME Within, NEW w \in Wallets PROVE Claimed(sends', txs', w) <= (Target(read * Lot, w))'
    <3> DEFINE a == Claimed(sends, txs, w)
               b == Target(read * Lot, w)
               c == DeliveryOwed(n * Lot, w, burn)
    <3>1. a \in Nat
      BY Booked DEF IInv
    <3>2. b <= c /\ b \in Nat /\ c \in Nat
      <4>1. b = DeliveryOwed(read * Lot, w, burn)
        BY DEF Target
      <4>2. DeliveryOwed(read * Lot, w, burn) <= c
        BY <1>1, <2>4, OwedGrows
      <4>3. DeliveryOwed(read * Lot, w, burn) \in Nat /\ c \in Nat
        BY <1>1, <2>4, OwedTypes
      <4> QED
        BY <4>1, <4>2, <4>3
    <3>3. a <= b
      BY <1>3, <2>14 DEF Within
    <3>4. Claimed(sends', txs', w) = a
      OBVIOUS
    <3>5. (Target(read * Lot, w))' = c
      BY <2>1 DEF Target
    <3> HIDE DEF a, b, c
    <3>6. a <= c
      BY <3>1, <3>2, <3>3
    <3> QED
      BY <3>4, <3>5, <3>6
  <2>15. Within => Within'
    BY <2>14 DEF Within
  <2>16. Balanced'
    <3> DEFINE g == SumFunctionOnSet(got, Wallets)
    <3>1. keeper + burned + g = lots * Lot /\ g \in Nat
      BY <1>1 DEF BookInv, Balanced
    <3>2. SumFunctionOnSet(got', Wallets) = g
      OBVIOUS
    <3> HIDE DEF g
    <3>3. (keeper - d) + (burned + d) + g = keeper + burned + g
      BY <1>1, <2>12, <3>1
    <3> QED
      BY <2>2, <3>1, <3>2, <3>3 DEF Balanced
  <2>17. FireWithin'
    BY <2>1, <2>13 DEF FireWithin
  <2> QED
    BY <2>15, <2>16, <2>17
<1> QED
  BY <1>2, <1>3

\* A visit begins with what is due.
LEMMA StartVisitFair ==
  ASSUME IInv, IInv', BookInv, StartVisit
  PROVE  Onwards
<1>1. UNCHANGED <<burn, lots, got, sends, txs>> /\ pc = "waiting" /\ ReadAndBurn
  BY DEF StartVisit, startVars
<1>2. work = <<>> /\ OtherTypes
  BY <1>1 DEF IInv, VisitFits
<1>3. \/ due' = DueNow /\ pc' = "checking" /\ phase' = phase /\ pass' = pass /\ work' = work
      \/ pc' = "waiting" /\ work' = <<>>
  BY <1>2, OnwardLeaves DEF StartVisit
<1>4. DueTaken'
  <2>1. CASE due' = DueNow /\ pc' = "checking" /\ phase' = phase /\ pass' = pass
    <3>1. DueNow' = DueNow
      BY <1>1, <2>1 DEF DueNow, With, Ids
    <3> QED
      BY <2>1, <3>1 DEF DueTaken
  <2>2. CASE pc' = "waiting"
    BY <2>2 DEF DueTaken
  <2> QED
    BY <1>3, <2>1, <2>2
<1>5. MarkedHeld(sends', work')
  <2>1. work' = work
    BY <1>2, <1>3
  <2> QED
    BY <1>1, <2>1 DEF BookInv
<1>6. (Within => Within') /\ Balanced' /\ FireWithin'
  BY <1>1, ReadingFair
<1>7. BooksFit(sends', txs', got')
  BY <1>1 DEF BookInv
<1> QED
  BY <1>4, <1>5, <1>6, <1>7 DEF BookInv, Onwards

\* The settlement begins.
LEMMA SettleStartFair ==
  ASSUME IInv, IInv', BookInv, SettleStart
  PROVE  Onwards
<1>1. UNCHANGED <<burn, lots, got, sends, txs, work>> /\ pc' = "settling" /\ ReadAndBurn
  BY DEF SettleStart, startVars
<1>2. (Within => Within') /\ Balanced' /\ FireWithin'
  BY <1>1, ReadingFair
<1>3. BooksFit(sends', txs', got') /\ MarkedHeld(sends', work')
  BY <1>1 DEF BookInv
<1>4. DueTaken'
  BY <1>1 DEF DueTaken
<1> QED
  BY <1>2, <1>3, <1>4 DEF BookInv, Onwards

\* A pending send's signature is asked about.
LEMMA CheckPendingSendFair ==
  ASSUME IInv, IInv', BookInv, NEW i \in Ids, NEW verdict \in AnyVerdict,
         CheckPendingSend(i, verdict)
  PROVE  Onwards
<1>1. UNCHANGED <<burn, read, burned, lots, keeper, got, txs, phase, pass, pc, due, work>>
      /\ pc = "checking"
  BY DEF CheckPendingSend, startVars, chainVars
<1>2. work = <<>> /\ \A j \in Ids : sends[j].status # "in_progress"
  BY <1>1, NoneMarked
<1>3. /\ i \in DOMAIN sends /\ sends[i].tx # 0
      /\ verdict \in Verdicts(txs[sends[i].tx].fate)
  BY DEF CheckPendingSend, Unasked, Ids
<1>4. /\ \A j \in DOMAIN sends : sends[j] \in RecordType(Len(txs))
      /\ Len(txs) \in Nat
  BY Typed DEF IInv
<1>5. /\ DOMAIN sends' = DOMAIN sends
      /\ \A j \in DOMAIN sends :
           /\ Goes(sends[j], sends'[j], txs) /\ sends'[j].round = sends[j].round
           /\ sends'[j].status \in {sends[j].status, "completed"}
  <2>1. CASE verdict = "landed"
    <3>1. sends' = [sends EXCEPT ![i] = Close(@)]
      BY <2>1 DEF CheckPendingSend
    <3>2. DOMAIN sends' = DOMAIN sends
          /\ \A j \in DOMAIN sends : sends'[j] = IF j = i THEN Close(sends[i]) ELSE sends[j]
      BY <1>3, <3>1
    <3>3. txs[sends[i].tx].fate = "landed"
      BY <1>3, <2>1 DEF Verdicts
    <3>4. Goes(sends[i], Close(sends[i]), txs) /\ Close(sends[i]).status = "completed"
          /\ Close(sends[i]).round = sends[i].round
      BY <1>3, <1>4, <3>3, ClosingGoes
    <3> QED
      BY <3>2, <3>4, Stays
  <2>2. CASE verdict = "unknown"
    <3>1. sends' = sends
      BY <2>2 DEF CheckPendingSend
    <3> QED
      BY <3>1, Stays
  <2>3. CASE verdict = "nothing"
    <3> DEFINE x == sends[i]
               y == [x EXCEPT !.tx = 0]
    <3>1. sends' = [sends EXCEPT ![i].tx = 0]
      BY <2>3 DEF CheckPendingSend
    <3>2. DOMAIN sends' = DOMAIN sends
          /\ \A j \in DOMAIN sends : sends'[j] = IF j = i THEN y ELSE sends[j]
      BY <1>3, <3>1
    <3>3. x \in RecordType(Len(txs))
      BY <1>3, <1>4
    <3> HIDE DEF x
    <3>4. y.tx = 0 /\ y.status = x.status /\ y.round = x.round /\ y.wallet = x.wallet
          /\ y.amount = x.amount
      BY <3>3 DEF RecordType
    <3> HIDE DEF y
    <3>5. Goes(x, y, txs)
      BY <3>4 DEF Goes
    <3> QED
      BY <3>2, <3>4, <3>5, Stays DEF x
  <2> QED
    BY <2>1, <2>2, <2>3 DEF AnyVerdict
<1>6. DueTaken'
  <2>1. DueNow' \subseteq DueNow
    <3> SUFFICES ASSUME NEW j \in DueNow' PROVE j \in DueNow
      OBVIOUS
    <3>1. j \in DOMAIN sends' /\ sends'[j].status = "pending"
          /\ (phase = "sweep" \/ sends'[j].round <= pass)
      BY <1>1 DEF DueNow, With, Ids
    <3>2. j \in DOMAIN sends /\ sends[j].status = "pending" /\ sends'[j].round = sends[j].round
      BY <1>5, <3>1
    <3> QED
      BY <3>1, <3>2 DEF DueNow, With, Ids
  <2>2. DueNow \subseteq due
    BY <1>1 DEF BookInv, DueTaken
  <2>3. pc' = "checking" /\ due' = due
    BY <1>1
  <2> QED
    BY <2>1, <2>2, <2>3 DEF DueTaken
<1>7. \A j \in DOMAIN sends : sends'[j].status # "in_progress"
  BY <1>2, <1>5 DEF Ids
<1> QED
  BY <1>1, <1>2, <1>5, <1>6, <1>7, QuietStep

\* The rules for missing accounts take a wallet's due sends together.
LEMMA CheckAtasFair ==
  ASSUME IInv, IInv', BookInv, NEW missing, CheckAtas(missing)
  PROVE  Onwards
<1> DEFINE gone     == {i \in Sure : sends[i].wallet \in missing}
           blocked  == {i \in gone : Bet[sends[i].wallet] < 5}
           deferred == {i \in gone : Bet[sends[i].wallet] >= 10 /\ phase = "rounds" /\ pass < Rounds}
<1>1. UNCHANGED <<burn, read, burned, lots, keeper, got, txs, phase, pass, skip, work>>
      /\ pc = "checking"
  BY DEF CheckAtas, startVars, chainVars
<1>2. work = <<>> /\ \A j \in Ids : sends[j].status # "in_progress"
  BY <1>1, NoneMarked
<1>3. /\ sends' = [i \in Ids |-> IF i \in blocked THEN [sends[i] EXCEPT !.status = "ata_mismatch"]
                                 ELSE sends[i]]
      /\ due' = Sure \ (blocked \cup deferred) /\ pc' = "sharing"
  BY DEF CheckAtas
<1>4. ASSUME NEW i \in Sure, NEW j \in Sure, sends[i].wallet = sends[j].wallet
      PROVE  (i \in blocked <=> j \in blocked) /\ (i \in deferred <=> j \in deferred)
  BY <1>4
<1>5. /\ DOMAIN sends' = DOMAIN sends
      /\ \A i \in DOMAIN sends :
           sends'[i] = IF i \in blocked THEN [sends[i] EXCEPT !.status = "ata_mismatch"] ELSE sends[i]
  BY <1>3 DEF Ids
<1> HIDE DEF blocked, deferred, gone
<1>6. ASSUME NEW i \in DOMAIN sends
      PROVE  /\ Goes(sends[i], sends'[i], txs) /\ sends'[i].status # "in_progress"
             /\ sends'[i].status = "pending" => i \notin blocked /\ sends[i].status = "pending"
             /\ sends'[i].round = sends[i].round /\ sends'[i].wallet = sends[i].wallet
  <2> DEFINE x == sends[i]
             y == [x EXCEPT !.status = "ata_mismatch"]
  <2>1. x \in RecordType(Len(txs)) /\ x.status # "in_progress"
    BY <1>2, Typed DEF IInv, Ids
  <2>2. sends'[i] = IF i \in blocked THEN y ELSE x
    BY <1>5
  <2> HIDE DEF x
  <2>3. y.status = "ata_mismatch" /\ y.amount = x.amount /\ y.wallet = x.wallet /\ y.round = x.round
    BY <2>1 DEF RecordType
  <2> HIDE DEF y
  <2>4. Goes(x, y, txs)
    BY <2>3 DEF Goes
  <2>5. Goes(x, x, txs)
    BY Stays
  <2> QED
    BY <2>1, <2>2, <2>3, <2>4, <2>5 DEF x
<1>7. DueTaken'
  <2> SUFFICES ASSUME NEW i \in DueNow', NEW j \in due', sends'[i].wallet = sends'[j].wallet
               PROVE  i \in due'
    BY <1>3 DEF DueTaken
  <2>1. i \in DOMAIN sends /\ sends'[i].status = "pending" /\ (phase = "sweep" \/ sends'[i].round <= pass)
    BY <1>1, <1>5 DEF DueNow, With, Ids
  <2>2. i \notin blocked /\ sends[i].status = "pending" /\ sends'[i].round = sends[i].round
    BY <1>6, <2>1
  <2>3. i \in due
    <3>1. i \in DueNow
      BY <2>1, <2>2 DEF DueNow, With, Ids
    <3> QED
      BY <1>1, <3>1 DEF BookInv, DueTaken
  <2>4. j \in Sure /\ j \notin blocked /\ j \notin deferred
    BY <1>3
  <2>5. j \in DOMAIN sends
    <3>1. j \in due
      BY <2>4 DEF Sure
    <3> QED
      BY <3>1 DEF IInv, OtherTypes, Ids
  <2>6. sends[i].wallet = sends[j].wallet
    BY <1>6, <2>1, <2>5
  <2>7. i \in Sure
    BY <2>3, <2>4, <2>6 DEF Sure
  <2>8. i \notin deferred
    BY <1>4, <2>4, <2>6, <2>7
  <2> QED
    BY <1>3, <2>2, <2>7, <2>8
<1> QED
  BY <1>1, <1>2, <1>5, <1>6, <1>7, QuietStep

\* An abandoned send's signature is asked about.
LEMMA SettleAbandonedFair ==
  ASSUME IInv, IInv', BookInv, NEW i \in Ids, NEW verdict \in AnyVerdict,
         SettleAbandoned(i, verdict)
  PROVE  Onwards
<1>1. UNCHANGED <<burn, read, burned, lots, keeper, got, txs, phase, pass, pc, work>>
      /\ pc = "settling" /\ i \in due /\ verdict \in Verdicts(txs[sends[i].tx].fate)
  BY DEF SettleAbandoned, startVars, chainVars
<1>2. work = <<>> /\ \A j \in Ids : sends[j].status # "in_progress"
  BY <1>1, NoneMarked
<1>3. i \in DOMAIN sends /\ sends[i].tx # 0
  BY <1>1 DEF IInv, VisitFits, Ids
<1>4. sends[i] \in RecordType(Len(txs)) /\ Len(txs) \in Nat
  BY <1>3, Typed DEF IInv
<1>5. /\ DOMAIN sends' = DOMAIN sends
      /\ \A j \in DOMAIN sends : /\ Goes(sends[j], sends'[j], txs)
                                 /\ sends'[j].status \in {sends[j].status, "completed"}
  <2>1. CASE verdict = "landed"
    <3>1. sends' = [sends EXCEPT ![i] = Close(@)]
      BY <2>1 DEF SettleAbandoned
    <3>2. DOMAIN sends' = DOMAIN sends
          /\ \A j \in DOMAIN sends : sends'[j] = IF j = i THEN Close(sends[i]) ELSE sends[j]
      BY <1>3, <3>1
    <3>3. txs[sends[i].tx].fate = "landed"
      BY <1>1, <2>1 DEF Verdicts
    <3>4. Goes(sends[i], Close(sends[i]), txs) /\ Close(sends[i]).status = "completed"
      BY <1>3, <1>4, <3>3, ClosingGoes
    <3> QED
      BY <3>2, <3>4, Stays
  <2>2. CASE verdict # "landed"
    <3>1. sends' = sends
      BY <2>2 DEF SettleAbandoned
    <3> QED
      BY <3>1, Stays
  <2> QED
    BY <2>1, <2>2
<1>6. DueTaken'
  BY <1>1 DEF DueTaken
<1>7. \A j \in DOMAIN sends : sends'[j].status # "in_progress"
  BY <1>2, <1>5 DEF Ids
<1> QED
  BY <1>1, <1>2, <1>5, <1>6, <1>7, QuietStep

\* The visit ends: every batch is over, and no send is left marked.
LEMMA EndVisitFair ==
  ASSUME IInv, IInv', BookInv, EndVisit
  PROVE  Onwards
<1>1. /\ UNCHANGED <<burn, read, burned, lots, keeper, got, sends, txs>> /\ Onward(sends)
      /\ \A b \in DOMAIN work : work[b].at = "over"
  BY DEF EndVisit, startVars, chainVars
<1>2. pc' = "waiting" /\ work' = <<>>
  BY <1>1, OnwardLeaves DEF IInv
<1>3. \A b \in DOMAIN work : Held(work[b]) = {}
  BY <1>1 DEF Held, Lists
<1>4. \A i \in DOMAIN sends : sends'[i].status # "in_progress"
  BY <1>1, <1>3 DEF BookInv, MarkedHeld
<1>5. DueTaken'
  BY <1>2 DEF DueTaken
<1>6. \A i \in DOMAIN sends : Goes(sends[i], sends'[i], txs)
  BY <1>1, Stays
<1> QED
  BY <1>1, <1>2, <1>4, <1>5, <1>6, QuietStep

\* The process dies; marked sends are queued.
LEMMA CrashFair ==
  ASSUME IInv, IInv', BookInv, Crash
  PROVE  Onwards
<1>1. /\ UNCHANGED <<burn, read, burned, lots, keeper, got, txs>>
      /\ pc' = "waiting" /\ work' = <<>>
      /\ sends' = [i \in Ids |-> Resumed(sends[i])]
  BY DEF Crash, startVars, chainVars, ClearPass
<1>2. DOMAIN sends' = DOMAIN sends /\ \A i \in DOMAIN sends : sends'[i] = Resumed(sends[i])
  BY <1>1 DEF Ids
<1>3. ASSUME NEW i \in DOMAIN sends
      PROVE  Goes(sends[i], sends'[i], txs) /\ sends'[i].status # "in_progress"
  <2> DEFINE x == sends[i]
             y == [x EXCEPT !.status = "pending"]
  <2>1. x \in RecordType(Len(txs)) /\ sends'[i] = Resumed(x)
    BY <1>2, Typed DEF IInv
  <2> HIDE DEF x
  <2>2. y.status = "pending" /\ y.amount = x.amount /\ y.wallet = x.wallet
    BY <2>1 DEF RecordType
  <2> HIDE DEF y
  <2>3. Goes(x, y, txs) /\ Goes(x, x, txs)
    BY <2>2, Stays DEF Goes
  <2>4. Resumed(x) = IF x.status = "in_progress" THEN y ELSE x
    BY DEF Resumed, y
  <2> QED
    BY <2>1, <2>2, <2>3, <2>4 DEF x
<1>4. DueTaken'
  BY <1>1 DEF DueTaken
<1> QED
  BY <1>1, <1>2, <1>3, <1>4, QuietStep

\* The settlement's new sends have no claim yet.
LEMMA TopUpsFair ==
  ASSUME IInv, IInv', BookInv, NEW balance \in {0, keeper}, TopUps(balance)
  PROVE  Onwards
<1>1. UNCHANGED <<burn, read, burned, lots, keeper, got, txs>> /\ pc = "settling"
  BY DEF TopUps, startVars, chainVars
<1>2. PICK more \in Seq(RecordType(Len(txs))) :
        /\ \A n \in DOMAIN more : more[n].amount = 0 /\ more[n].status = "pending"
        /\ sends' = sends \o more /\ Onward(sends \o more)
  <2> DEFINE pot   == Pot(balance)
             first == {i \in Ids : \A j \in Ids : j < i => sends[j].wallet # sends[i].wallet}
             short == {i \in first :
                         LET missing == Target(pot, sends[i].wallet) - Sent[sends[i].wallet] IN
                         sends[i].wallet \notin Busy /\ missing > 0 /\ missing >= MinTopUp}
             o == InOrder(short)
             m == [n \in DOMAIN o |-> NewSend(sends[o[n]].wallet, Rounds)]
             c == Cardinality(short)
  <2>1. sends' = sends \o m /\ Onward(sends \o m)
    BY DEF TopUps
  <2>2. short \in SUBSET DOMAIN sends
    BY DEF Ids
  <2> HIDE DEF short
  <2>3. /\ DOMAIN sends \subseteq Nat /\ IsFiniteSet(DOMAIN sends) /\ Len(txs) \in Nat
        /\ \A i \in DOMAIN sends : sends[i].wallet \in Wallets
    BY Booked, Typed DEF IInv
  <2>4. short \in SUBSET Nat /\ IsFiniteSet(short)
    BY <2>2, <2>3, FS_Subset
  <2>5. c \in Nat /\ o \in [1..c -> short]
    BY <2>4, InOrderNamesOnce
  <2> HIDE DEF o, c
  <2>6. /\ m = [n \in 1..c |-> m[n]]
        /\ \A n \in 1..c : m[n] = NewSend(sends[o[n]].wallet, Rounds)
    BY <2>5
  <2>7. \A n \in 1..c : sends[o[n]].wallet \in Wallets
    BY <2>2, <2>3, <2>5
  <2>8. Rounds \in 1..Rounds
    BY DeliveryAssumption
  <2> HIDE DEF m
  <2>9. \A n \in 1..c : \E w \in Wallets, r \in 1..Rounds : m[n] = NewSend(w, r)
    BY <2>6, <2>7, <2>8
  <2>10. m \in Seq(RecordType(Len(txs))) /\ DOMAIN m = 1..c
    BY <2>3, <2>5, <2>6, <2>9, NewSends
  <2>11. \A n \in DOMAIN m : m[n].amount = 0 /\ m[n].status = "pending"
    BY <2>6, <2>10 DEF NewSend
  <2> QED
    BY <2>1, <2>10, <2>11
<1>3. pc' = "waiting" /\ work' = <<>>
  BY <1>2, OnwardLeaves DEF IInv
<1>4. /\ sends \in Seq(RecordType(Len(txs))) /\ DOMAIN sends = 1..Len(sends) /\ Len(sends) \in Nat
      /\ DOMAIN more = 1..Len(more) /\ Len(more) \in Nat
  BY <1>2, Typed, LenProperties DEF IInv, FilesTyped
<1>5. /\ DOMAIN sends \subseteq DOMAIN sends' /\ \A i \in DOMAIN sends : sends'[i] = sends[i]
      /\ \A i \in DOMAIN sends' \ DOMAIN sends : sends'[i].amount = 0 /\ sends'[i].status = "pending"
  <2> DEFINE r == sends \o more
  <2>1. /\ r \in Seq(RecordType(Len(txs))) /\ Len(r) = Len(sends) + Len(more)
        /\ \A i \in 1..(Len(sends) + Len(more)) :
             r[i] = IF i <= Len(sends) THEN sends[i] ELSE more[i - Len(sends)]
    BY <1>2, <1>4, ConcatProperties
  <2>2. DOMAIN r = 1..Len(r)
    BY <2>1, LenProperties
  <2>3. sends' = r
    BY <1>2
  <2> HIDE DEF r
  <2>4. DOMAIN sends \subseteq DOMAIN r /\ \A i \in DOMAIN sends : r[i] = sends[i]
    BY <1>4, <2>1, <2>2
  <2>5. ASSUME NEW i \in DOMAIN r \ DOMAIN sends PROVE r[i].amount = 0 /\ r[i].status = "pending"
    <3>1. ~(i <= Len(sends)) /\ i - Len(sends) \in DOMAIN more /\ r[i] = more[i - Len(sends)]
      BY <1>4, <2>1, <2>2
    <3> QED
      BY <1>2, <3>1
  <2> QED
    BY <2>3, <2>4, <2>5
<1>6. BooksFit(sends', txs, got) /\ \A w : Claimed(sends', txs, w) = Claimed(sends, txs, w)
  <2>1. FilesTyped(sends, txs) /\ BooksFit(sends, txs, got)
    BY DEF IInv, BookInv
  <2>2. FilesTyped(sends', txs)
    BY <1>1 DEF IInv
  <2> QED
    BY <1>5, <2>1, <2>2, RecordsJoinGoes
<1>7. \A w \in Wallets : Claimed(sends', txs', w) <= Claimed(sends, txs, w)
  BY <1>1, <1>6, SameClaims
<1>8. MarkedHeld(sends', work')
  <2>1. \A i \in DOMAIN sends : sends[i].status # "in_progress"
    BY <1>1, NoneMarked DEF Ids
  <2>2. \A i \in DOMAIN sends' : sends'[i].status # "in_progress"
    BY <1>5, <2>1
  <2> QED
    BY <1>3, <2>2, NobodyMarked
<1>9. DueTaken'
  BY <1>3 DEF DueTaken
<1>10. BooksFit(sends', txs', got)
  BY <1>1, <1>6
<1> QED
  BY <1>1, <1>7, <1>8, <1>9, <1>10, RecordsStep

\* What the catch block makes of a record.
LEMMA UndoneGoes ==
  ASSUME NEW n \in Nat, NEW x \in RecordType(n), NEW t, NEW error, NEW halving \in BOOLEAN
  PROVE  LET y == Undone(x, error, halving) IN
         /\ Goes(x, y, t)
         /\ halving => y.status = x.status /\ y.tx = 0 /\ y.amount = x.amount
         /\ ~halving => y.status # "in_progress"
<1>1. CASE halving
  <2> DEFINE y == [x EXCEPT !.tx = 0]
  <2>1. y.status = x.status /\ y.tx = 0 /\ y.amount = x.amount /\ y.wallet = x.wallet
    BY DEF RecordType
  <2>2. Undone(x, error, halving) = y
    BY <1>1 DEF Undone
  <2> HIDE DEF y
  <2>3. Goes(x, y, t)
    BY <2>1 DEF Goes
  <2> QED
    BY <1>1, <2>1, <2>2, <2>3
<1>2. CASE ~halving
  <2> DEFINE y == [x EXCEPT !.status = "abandoned", !.attempts = @ + 1]
             z == [x EXCEPT !.status = "pending", !.attempts = @ + 1]
  <2>1. /\ y.status = "abandoned" /\ y.amount = x.amount /\ y.wallet = x.wallet
        /\ z.status = "pending" /\ z.amount = x.amount /\ z.wallet = x.wallet
    BY DEF RecordType
  <2>2. Undone(x, error, halving) \in {y, z}
    BY <1>2 DEF Undone, Abandoned, QueuedAgain
  <2> HIDE DEF y, z
  <2>3. Goes(x, y, t) /\ Goes(x, z, t)
    BY <2>1 DEF Goes
  <2> QED
    BY <1>2, <2>1, <2>2, <2>3
<1> QED
  BY <1>1, <1>2

\* The catch block takes claims back, and holds what stays marked.
LEMMA FailedGoes ==
  ASSUME NEW b, Working(work, sends, txs, txs', b), NEW error, LargeIsVoid(work[b], sends, txs', error),
         Failed(b, error), NEW g, BooksFit(sends, txs', g), MarkedHeld(sends, work)
  PROVE  /\ BooksFit(sends', txs', g) /\ MarkedHeld(sends', work')
         /\ \A w : Claimed(sends', txs', w) <= Claimed(sends, txs', w)
<1> DEFINE x == work[b]
           halving == Halving(x, error)
           y == Turned(x, NextLists(x, error))
<1>1. /\ WorkFits(work, sends, txs) /\ b \in DOMAIN work /\ x.at # "over"
      /\ FilesTyped(sends, txs') /\ Paid(sends, txs')
  BY DEF Working
<1>2. sends' = UndoneIn(sends, x, error) /\ work' = [work EXCEPT ![b] = y]
  BY FailedIs
<1>3. FilesTyped(sends', txs')
  BY FailedKeeps
<1>4. x \in BatchType /\ BatchFits(x, sends, txs) /\ OwnApart(x)
  BY <1>1, BatchOf
<1>5. \A i \in DOMAIN sends : sends[i] \in RecordType(Len(txs')) /\ Len(txs') \in Nat
  BY <1>1, Typed
<1>6. /\ DOMAIN sends' = DOMAIN sends
      /\ \A i \in DOMAIN sends : sends'[i] = IF i \in ToSet(x.ids) THEN Undone(sends[i], error, halving)
                                             ELSE sends[i]
  BY <1>2 DEF UndoneIn
<1>7. halving \in BOOLEAN
  BY DEF Halving
<1> HIDE DEF x, halving
<1>8. ASSUME NEW i \in DOMAIN sends
      PROVE  /\ Goes(sends[i], sends'[i], txs')
             /\ i \in ToSet(x.ids) => /\ halving => /\ sends'[i].status = sends[i].status
                                                    /\ sends'[i].tx = 0 /\ sends'[i].amount = sends[i].amount
                                      /\ ~halving => sends'[i].status # "in_progress"
  <2>1. CASE i \in ToSet(x.ids)
    <3>1. sends'[i] = Undone(sends[i], error, halving)
      BY <1>6, <2>1
    <3>2. sends[i] \in RecordType(Len(txs')) /\ Len(txs') \in Nat
      BY <1>5
    <3> QED
      BY <1>7, <3>1, <3>2, UndoneGoes
  <2>2. CASE i \notin ToSet(x.ids)
    BY <1>6, <2>2, Stays
  <2> QED
    BY <2>1, <2>2
<1>9. BooksFit(sends', txs', g) /\ \A w : Claimed(sends', txs', w) <= Claimed(sends, txs', w)
  BY <1>1, <1>3, <1>6, <1>8, RecordsGo
<1>10. ASSUME NEW i \in DOMAIN sends, sends'[i].status = "in_progress"
       PROVE  sends[i].status = "in_progress" /\ (i \in Held(x) => i \in Held(y))
  <2>1. sends[i].status = "in_progress"
    BY <1>8, <1>10 DEF Goes
  <2>2. ASSUME halving, i \in Held(x) PROVE i \in Held(y)
    <3>1. Len(x.ids) > 1 /\ NextLists(x, error) = Halved(x)
      BY <2>2 DEF halving, Halving, NextLists
    <3>2. \A j \in ToSet(x.ids) : j \in DOMAIN sends /\ sends[j].status = "in_progress"
      BY <1>1, <1>4, InHandMarked DEF x
    <3>3. \A j \in ToSet(x.ids) : /\ sends'[j].status = "in_progress" /\ sends'[j].tx = 0
                                  /\ sends'[j].amount = sends[j].amount
      BY <1>8, <2>2, <3>2
    <3>4. \A j \in DOMAIN sends : j \notin ToSet(x.ids) => sends'[j] = sends[j]
      BY <1>6
    <3>5. Halved(x) \in Seq(Seq(Nat))
      BY <1>1, <1>4, <1>6, <3>1, <3>3, <3>4, HalvesWait DEF x
    <3>6. i \in Held(Turned(x, Halved(x)))
      BY <1>1, <1>4, <2>2, <3>1, <3>5, HalvesHeld DEF x
    <3> QED
      BY <3>1, <3>6
  <2>3. ASSUME ~halving, i \in Held(x) PROVE i \in Held(y)
    <3>1. i \notin ToSet(x.ids)
      BY <1>8, <1>10, <2>3
    <3>2. i \in Held(Turned(x, x.later))
      BY <1>1, <1>4, <2>3, <3>1, LaterHeld DEF x
    <3>3. NextLists(x, error) = x.later
      BY <2>3 DEF halving, NextLists
    <3> QED
      BY <3>2, <3>3
  <2> QED
    BY <2>1, <2>2, <2>3
<1> HIDE DEF y
<1>11. MarkedHeld(sends', [work EXCEPT ![b] = y])
  BY <1>1, <1>6, <1>10, StillHeld DEF x
<1> QED
  BY <1>2, <1>9, <1>11

\* A step of a batch.
LEMMA BatchFair ==
  ASSUME IInv, IInv', BookInv, NEW b \in DOMAIN work,
         UNCHANGED <<burn, lots, read, burned, keeper, got, pc>>,
         BooksFit(sends', txs', got), MarkedHeld(sends', work'),
         \A w \in Wallets : Claimed(sends', txs', w) <= Claimed(sends, txs, w)
  PROVE  Onwards
<1>1. pc = "sending"
  <2>1. work # <<>>
    OBVIOUS
  <2> QED
    BY <2>1 DEF IInv, VisitFits
<1>2. DueTaken'
  BY <1>1 DEF DueTaken
<1> QED
  BY <1>2, RecordsStep

\* A transfer is signed.
LEMMA SignFair ==
  ASSUME IInv, IInv', BookInv, NEW b \in DOMAIN work, Sign(b)
  PROVE  Onwards
<1> DEFINE x == work[b]
           H == ToSet(x.ids)
           y == [x EXCEPT !.at = "sending"]
<1>1. UNCHANGED <<burn, lots, read, burned, keeper, got, pc>> /\ x.at = "building"
  BY DEF Sign, startVars
<1>2. txs' = Signed(sends, txs, H) /\ sends' = Holding(sends, txs, H)
  BY DEF Sign, Signed, Holding, InHand, Change, Ids
<1>3. work' = [work EXCEPT ![b] = y]
  BY DEF Sign, Goto
<1>4. /\ FilesTyped(sends, txs) /\ Paid(sends, txs) /\ BooksFit(sends, txs, got)
      /\ WorkFits(work, sends, txs) /\ MarkedHeld(sends, work)
  BY DEF IInv, BookInv
<1>5. x \in BatchType /\ BatchFits(x, sends, txs)
  BY <1>4, BatchOf
<1> HIDE DEF x, H
<1>6. \A i \in H : i \in DOMAIN sends /\ sends[i].tx = 0 /\ sends[i].status = "in_progress" /\ sends[i].amount > 0
  BY <1>1, <1>5, InHandMarked DEF H
<1>7. H \in SUBSET DOMAIN sends
  BY <1>6
<1>8. BooksFit(sends', txs', got) /\ \A w : Claimed(sends', txs', w) <= Claimed(sends, txs, w)
  BY <1>2, <1>4, <1>6, <1>7, SigningGoes
<1>9. /\ DOMAIN sends' = DOMAIN sends
      /\ \A i \in DOMAIN sends : sends'[i].status = sends[i].status
  <2>1. /\ DOMAIN sends' = DOMAIN sends
        /\ \A i \in DOMAIN sends : sends'[i] = IF i \in H THEN [sends[i] EXCEPT !.tx = Len(txs) + 1] ELSE sends[i]
    BY <1>2 DEF Holding
  <2>2. \A i \in DOMAIN sends : sends[i] \in RecordType(Len(txs))
    BY <1>4, Typed
  <2>3. ASSUME NEW i \in DOMAIN sends PROVE sends'[i].status = sends[i].status
    <3> DEFINE r == sends[i]
               n == Len(txs) + 1
    <3>1. r \in RecordType(Len(txs)) /\ sends'[i] = IF i \in H THEN [r EXCEPT !.tx = n] ELSE r
      BY <2>1, <2>2
    <3> HIDE DEF r, n
    <3>2. [r EXCEPT !.tx = n].status = r.status
      BY <3>1 DEF RecordType
    <3> QED
      BY <3>1, <3>2 DEF r
  <2> QED
    BY <2>1, <2>3
<1>10. Held(y) = Held(x)
  BY <1>1, <1>5, StageKeeps
<1> HIDE DEF y
<1>11. MarkedHeld(sends', [work EXCEPT ![b] = y])
  BY <1>4, <1>9, <1>10, StillHeld DEF x
<1> QED
  BY <1>1, <1>3, <1>8, <1>11, BatchFair

\* The transfer cannot be built or signed.
LEMMA BuildFailsFair ==
  ASSUME IInv, IInv', BookInv, NEW b \in DOMAIN work, NEW error \in Errors, BuildFails(b, error)
  PROVE  Onwards
<1>1. /\ UNCHANGED <<burn, lots, read, burned, keeper, got, pc, txs>>
      /\ work[b].at # "over" /\ Failed(b, error)
  BY DEF BuildFails, startVars, chainVars
<1>2. Working(work, sends, txs, txs', b)
  BY <1>1, WorkingStill
<1>3. LargeIsVoid(work[b], sends, txs', error)
  BY DEF BuildFails, LargeIsVoid
<1>4. BooksFit(sends, txs', got) /\ MarkedHeld(sends, work)
  BY <1>1 DEF BookInv
<1>5. /\ BooksFit(sends', txs', got) /\ MarkedHeld(sends', work')
      /\ \A w : Claimed(sends', txs', w) <= Claimed(sends, txs', w)
  BY <1>1, <1>2, <1>3, <1>4, FailedGoes
<1>6. \A w \in Wallets : Claimed(sends', txs', w) <= Claimed(sends, txs, w)
  BY <1>1, <1>5
<1> QED
  BY <1>1, <1>5, <1>6, BatchFair

\* The wait for a transfer ends without a confirmation.
LEMMA NotConfirmedFair ==
  ASSUME IInv, IInv', BookInv, NEW b \in DOMAIN work, NEW error \in Errors, NotConfirmed(b, error)
  PROVE  Onwards
<1>1. /\ UNCHANGED <<burn, lots, read, burned, keeper, got, pc, txs>>
      /\ work[b].at # "over" /\ Failed(b, error)
  BY DEF NotConfirmed, startVars, chainVars
<1>2. Working(work, sends, txs, txs', b)
  BY <1>1, WorkingStill
<1>3. LargeIsVoid(work[b], sends, txs', error)
  BY <1>1 DEF NotConfirmed, LargeIsVoid, Underway, TxOf
<1>4. BooksFit(sends, txs', got) /\ MarkedHeld(sends, work)
  BY <1>1 DEF BookInv
<1>5. /\ BooksFit(sends', txs', got) /\ MarkedHeld(sends', work')
      /\ \A w : Claimed(sends', txs', w) <= Claimed(sends, txs', w)
  BY <1>1, <1>2, <1>3, <1>4, FailedGoes
<1>6. \A w \in Wallets : Claimed(sends', txs', w) <= Claimed(sends, txs, w)
  BY <1>1, <1>5
<1> QED
  BY <1>1, <1>5, <1>6, BatchFair

\* The node takes the transfer, or refuses it.
LEMMA SendRawFair ==
  ASSUME IInv, IInv', BookInv, NEW b \in DOMAIN work, SendRaw(b)
  PROVE  Onwards
<1> DEFINE k == TxOf(work[b], sends)
<1>1. UNCHANGED <<burn, lots, read, burned, keeper, got, pc>>
  BY DEF SendRaw, startVars
<1>2. /\ FilesTyped(sends, txs) /\ Paid(sends, txs) /\ WorkFits(work, sends, txs)
      /\ work[b].at = "sending" /\ Underway(work[b])
      /\ BooksFit(sends, txs, got) /\ MarkedHeld(sends, work)
  BY DEF IInv, SendRaw, Underway, BookInv
<1>3. \/ /\ txs' = [txs EXCEPT ![k].fate = "flying"]
         /\ work' = [work EXCEPT ![b].at = "confirming"] /\ sends' = sends
      \/ txs' = [txs EXCEPT ![k].fate = "flying"] /\ Failed(b, "other")
      \/ txs' = [txs EXCEPT ![k].fate = "void"] /\ \E e \in Errors : Failed(b, e)
  BY DEF SendRaw, TxOf, Goto
<1>4. work[b] \in BatchType /\ k \in DOMAIN txs /\ txs[k].fate = "signed"
  <2>1. work[b] \in BatchType /\ BatchFits(work[b], sends, txs)
    BY <1>2, BatchOf
  <2> QED
    BY <1>2, <2>1 DEF BatchFits
<1> HIDE DEF k
<1>5. ASSUME NEW f \in {"flying", "void"}, txs' = [txs EXCEPT ![k].fate = f]
      PROVE  /\ FilesTyped(sends, txs') /\ Paid(sends, txs') /\ DOMAIN txs' = DOMAIN txs
             /\ txs'[k].fate = f /\ \A l \in DOMAIN txs : txs'[l] = txs[l] \/ l = k
             /\ BooksFit(sends, txs', got) /\ \A w : Claimed(sends, txs', w) <= Claimed(sends, txs, w)
  <2>1. txs[k].fate \in {"signed", "flying"} /\ f \in {"flying", "landed", "void"}
    BY <1>4
  <2>2. txs' = Fated(txs, k, f)
    BY <1>5 DEF Fated
  <2>3. /\ FilesTyped(sends, txs') /\ Paid(sends, txs') /\ DOMAIN txs' = DOMAIN txs
        /\ txs'[k].fate = f /\ \A l \in DOMAIN txs : txs'[l] = txs[l] \/ l = k
    BY <1>2, <1>4, <2>1, <2>2, FateMoves
  <2>4. BooksFit(sends, txs', got) /\ \A w : Claimed(sends, txs', w) <= Claimed(sends, txs, w)
    BY <1>2, <1>4, <2>1, <2>2, FateGoes
  <2> QED
    BY <2>3, <2>4
<1>6. CASE /\ txs' = [txs EXCEPT ![k].fate = "flying"]
           /\ work' = [work EXCEPT ![b].at = "confirming"] /\ sends' = sends
  <2> DEFINE x == work[b]
             y == [x EXCEPT !.at = "confirming"]
  <2>1. work' = [work EXCEPT ![b] = y]
    BY <1>6
  <2>2. Held(y) = Held(x)
    BY <1>2, <1>4, StageKeeps
  <2> HIDE DEF y
  <2>3. MarkedHeld(sends, [work EXCEPT ![b] = y])
    BY <1>2, <2>2, StillHeld
  <2> QED
    BY <1>1, <1>5, <1>6, <2>1, <2>3, BatchFair
<1>7. ASSUME NEW f \in {"flying", "void"}, txs' = [txs EXCEPT ![k].fate = f],
             NEW e \in Errors, Failed(b, e), e = "large" => f = "void"
      PROVE  Onwards
  <2>1. Working(work, sends, txs, txs', b)
    BY <1>2, <1>5, <1>7 DEF Working, k
  <2>2. LargeIsVoid(work[b], sends, txs', e)
    BY <1>2, <1>5, <1>7 DEF k, LargeIsVoid
  <2>3. BooksFit(sends, txs', got)
    BY <1>5, <1>7
  <2>4. /\ BooksFit(sends', txs', got) /\ MarkedHeld(sends', work')
        /\ \A w : Claimed(sends', txs', w) <= Claimed(sends, txs', w)
    BY <1>2, <1>7, <2>1, <2>2, <2>3, FailedGoes
  <2>5. ASSUME NEW w \in Wallets PROVE Claimed(sends', txs', w) <= Claimed(sends, txs, w)
    <3>1. Claimed(sends', txs', w) \in Nat /\ Claimed(sends, txs', w) \in Nat /\ Claimed(sends, txs, w) \in Nat
      <4>1. FilesTyped(sends', txs') /\ FilesTyped(sends, txs')
        BY <1>5, <1>7 DEF IInv
      <4> QED
        BY <1>2, <4>1, Booked
    <3>2. Claimed(sends', txs', w) <= Claimed(sends, txs', w) /\ Claimed(sends, txs', w) <= Claimed(sends, txs, w)
      BY <1>5, <1>7, <2>4
    <3>3. \A m, n, l \in Nat : m <= n /\ n <= l => m <= l
      OBVIOUS
    <3> QED
      BY <3>1, <3>2, <3>3
  <2> QED
    BY <1>1, <2>4, <2>5, BatchFair
<1> QED
  BY <1>3, <1>6, <1>7 DEF Errors

\* The transfer is seen to have landed.
LEMMA ConfirmedFair ==
  ASSUME IInv, IInv', BookInv, NEW b \in DOMAIN work, Confirmed(b)
  PROVE  Onwards
<1> DEFINE x == work[b]
           H == ToSet(x.ids)
           Done(r) == [Close(r) EXCEPT !.attempts = @ + 1]
           y == Turned(x, x.later)
<1>1. UNCHANGED <<burn, lots, read, burned, keeper, got, pc, txs>>
  BY DEF Confirmed, startVars, chainVars
<1>2. /\ FilesTyped(sends, txs) /\ Paid(sends, txs) /\ WorkFits(work, sends, txs)
      /\ x.at # "over" /\ Underway(x) /\ txs[TxOf(x, sends)].fate = "landed"
      /\ BooksFit(sends, txs, got) /\ MarkedHeld(sends, work)
  BY DEF IInv, BookInv, Confirmed, Underway, TxOf
<1>3. /\ sends' = [i \in DOMAIN sends |-> IF i \in H THEN Done(sends[i]) ELSE sends[i]]
      /\ work' = [work EXCEPT ![b] = y]
  BY DEF Confirmed, Change, InHand, Ids, Turn, Turned
<1>4. x \in BatchType /\ BatchFits(x, sends, txs)
  BY <1>2, BatchOf
<1>5. FilesTyped(sends', txs)
  BY <1>1 DEF IInv
<1> HIDE DEF H, x
<1>6. \A i \in DOMAIN sends : sends[i] \in RecordType(Len(txs))
  BY <1>2, Typed
<1>7. \A i \in DOMAIN sends : i \in H => sends'[i] = Done(sends[i])
  BY <1>3
<1>8. DOMAIN sends' = DOMAIN sends /\ \A i \in DOMAIN sends : i \notin H => sends'[i] = sends[i]
  BY <1>3
<1>9. ASSUME NEW i \in DOMAIN sends
      PROVE  Goes(sends[i], sends'[i], txs) /\ (i \in H => sends'[i].status = "completed")
  <2>1. CASE i \in H
    <3> DEFINE r == sends[i]
    <3>1. r \in RecordType(Len(txs)) /\ sends'[i] = Done(r)
      BY <1>6, <1>7, <2>1
    <3>2. r.tx = TxOf(x, sends) /\ TxOf(x, sends) \in DOMAIN txs
      BY <1>2, <1>4, <2>1, InHandMarked DEF H, BatchFits
    <3>3. r.tx # 0 /\ txs[r.tx].fate = "landed"
      <4>1. TxOf(x, sends) # 0
        BY <1>2, <3>2, Typed
      <4> QED
        BY <1>2, <3>2, <4>1
    <3> HIDE DEF r
    <3>4. Done(r) = [[r EXCEPT !.status = "completed", !.tx = 0] EXCEPT !.attempts = @ + 1]
      BY DEF Close
    <3>5. Done(r).status = "completed" /\ Done(r).amount = r.amount /\ Done(r).wallet = r.wallet
      BY <3>1, <3>4 DEF RecordType
    <3> HIDE DEF Done
    <3>6. Goes(r, Done(r), txs)
      BY <3>3, <3>5 DEF Goes
    <3> QED
      BY <3>1, <3>5, <3>6 DEF r
  <2>2. CASE i \notin H
    BY <1>8, <2>2, Stays
  <2> QED
    BY <2>1, <2>2
<1> HIDE DEF Done
<1>10. BooksFit(sends', txs, got) /\ \A w : Claimed(sends', txs, w) <= Claimed(sends, txs, w)
  BY <1>2, <1>5, <1>8, <1>9, RecordsGo
<1>11. ASSUME NEW i \in DOMAIN sends, sends'[i].status = "in_progress"
       PROVE  sends[i].status = "in_progress" /\ (i \in Held(x) => i \in Held(y))
  <2>1. i \notin H /\ sends[i].status = "in_progress"
    BY <1>9, <1>11 DEF Goes
  <2>2. ASSUME i \in Held(x) PROVE i \in Held(y)
    BY <1>2, <1>4, <2>1, <2>2, LaterHeld DEF H
  <2> QED
    BY <2>1, <2>2
<1> HIDE DEF y
<1>12. MarkedHeld(sends', [work EXCEPT ![b] = y])
  BY <1>2, <1>8, <1>11, StillHeld DEF x
<1>13. BooksFit(sends', txs', got) /\ \A w \in Wallets : Claimed(sends', txs', w) <= Claimed(sends, txs, w)
  BY <1>1, <1>10
<1> QED
  BY <1>1, <1>3, <1>12, <1>13, BatchFair

\* No wallet that is to be given something has a transfer that was given up,
\* overwritten or left for a later round and has landed, or still may.
NothingOverlooked ==
  pc = "sharing" =>
    \A i \in due, j \in Overlooked : sends[i].status = "pending" => sends[i].wallet # sends[j].wallet

\* Nothing else is then claimed for such a wallet than what it was delivered.
LEMMA ServedBare ==
  ASSUME IInv, BookInv, NothingOverlooked, pc = "sharing",
         NEW j \in due, sends[j].status = "pending"
  PROVE  OnlyDelivered(sends, txs, sends[j].wallet)
<1> DEFINE w == sends[j].wallet
<1>1. /\ FilesTyped(sends, txs) /\ CarriedFit(sends, txs) /\ SatisfiedBare(sends)
      /\ \A i \in due : sends[i].tx = 0
  BY DEF IInv, Paid, VisitFits, BookInv, BooksFit
<1>2. ASSUME NEW i \in RecordsOf(sends, w), Borne(txs, i), sends[i].status # "completed"
      PROVE  FALSE
  <2>1. i \in DOMAIN sends /\ sends[i].wallet = w /\ sends[i].status \in Statuses
    BY <1>1, Typed DEF RecordsOf
  <2>2. PICK k \in DOMAIN txs : Carries(txs, k, i)
    BY <1>2 DEF Borne
  <2>3. k # 0 /\ txs[k].fate \in {"signed", "flying", "landed"} /\ i \in DOMAIN txs[k].pays
    BY <1>1, <2>2, Typed DEF Carries, Fates
  <2>4. i \notin Overlooked
    BY <2>1 DEF NothingOverlooked
  <2>5. sends[i].status \notin {"abandoned", "ata_mismatch"}
        /\ (sends[i].status = "pending" => i \in DueNow)
    BY <2>1, <2>2, <2>3, <2>4 DEF Overlooked, Ids
  <2>6. sends[i].tx = k
    BY <1>1, <1>2, <2>1, <2>2, <2>5 DEF CarriedFit
  <2>7. CASE sends[i].status = "pending"
    <3>1. i \in due
      BY <2>1, <2>5, <2>7 DEF BookInv, DueTaken
    <3> QED
      BY <1>1, <2>3, <2>6, <3>1
  <2>8. CASE sends[i].status = "satisfied"
    BY <1>1, <2>1, <2>3, <2>6, <2>8 DEF SatisfiedBare
  <2>9. sends[i].status # "in_progress"
    BY <2>1, NoneMarked DEF Ids
  <2> QED
    BY <1>2, <2>1, <2>5, <2>7, <2>8, <2>9 DEF Statuses
<1>3. \A i \in RecordsOf(sends, w) : sends[i].status # "in_progress"
  BY NoneMarked DEF RecordsOf, Ids
<1> QED
  BY <1>2, <1>3 DEF OnlyDelivered

\* What the records say a wallet was delivered.
LEMMA SentIs ==
  ASSUME NEW w \in Wallets
  PROVE  Sent[w] = SentTo(sends, w)
BY DEF Sent, SentTo, With, Ids

\* Where somebody burns, what is shared out stays within the shares, and who is
\* given something has the whole of its share.
LEMMA SharedWithin ==
  ASSUME IInv, BookInv, Within, Exact, NothingOverlooked, pc = "sharing",
         NEW open, open = {i \in due : sends[i].status = "pending"},
         NEW target, target = [w \in Wallets |-> Target(read * Lot, w)],
         NEW amount, amount = DeficitAmounts(sends, open, keeper, Sent, target),
         NEW r, FilesTyped(r, txs), SharedAs(sends, txs, open, amount, r)
  PROVE  /\ \A w \in Wallets : Claimed(r, txs, w) <= Target(read * Lot, w)
         /\ \A w \in WalletsOf(sends, open) : Claimed(r, txs, w) = Target(read * Lot, w)
<1> DEFINE W == WalletsOf(sends, open)
           short == Shortage(sends, open, Sent, target)
           fire == BurnOwed(read * Lot, burn)
<1>1. /\ FilesTyped(sends, txs) /\ Paid(sends, txs) /\ BooksFit(sends, txs, got)
      /\ ArrivedIs(sends, txs, got) /\ OtherTypes
  BY DEF IInv, BookInv, BooksFit
<1>2. /\ WeightsFit(burn) /\ lots \in Nat /\ read \in Nat /\ read <= lots /\ Lot \in Nat
      /\ read * Lot \in Nat /\ lots * Lot \in Nat /\ read * Lot <= lots * Lot
      /\ burned \in Nat /\ keeper \in Nat /\ got \in [Wallets -> Nat]
      /\ SumFunctionOnSet(got, Wallets) \in Nat
      /\ \A w \in Wallets : Target(read * Lot, w) \in Nat
  BY Counts
<1>3. open \in SUBSET DOMAIN sends
  <2>1. due \subseteq DOMAIN sends
    BY <1>1 DEF OtherTypes, Ids
  <2> QED
    BY <2>1
<1>4. /\ open \in SUBSET Nat /\ IsFiniteSet(open)
      /\ \A i \in open : sends[i].wallet \in Wallets
  <2>1. IsFiniteSet(DOMAIN sends) /\ DOMAIN sends \subseteq Nat
        /\ \A i \in DOMAIN sends : sends[i].wallet \in Wallets
    BY <1>1, Booked, Typed
  <2> QED
    BY <1>3, <2>1, FS_Subset
<1>5. W \in SUBSET Wallets
  BY <1>4 DEF WalletsOf
<1>6. ASSUME NEW w \in W PROVE OnlyDelivered(sends, txs, w)
  <2>1. PICK j \in open : sends[j].wallet = w
    BY DEF WalletsOf
  <2>2. j \in due /\ sends[j].status = "pending"
    OBVIOUS
  <2> QED
    BY <2>1, <2>2, ServedBare
<1>7. Sent \in [Wallets -> Nat]
  BY <1>1, AmountTypes
<1>8. /\ target \in [Wallets -> Int]
      /\ \A w \in Wallets : target[w] \in Nat /\ target[w] = Target(read * Lot, w)
  BY <1>2
<1>9. \A w \in Wallets : /\ got[w] \in Nat /\ got[w] <= Claimed(sends, txs, w)
                         /\ Claimed(sends, txs, w) \in Nat /\ Claimed(sends, txs, w) <= target[w]
  <2> SUFFICES ASSUME NEW w \in Wallets
               PROVE  /\ got[w] \in Nat /\ got[w] <= Claimed(sends, txs, w)
                      /\ Claimed(sends, txs, w) \in Nat /\ Claimed(sends, txs, w) <= target[w]
    OBVIOUS
  <2>1. Claimed(sends, txs, w) \in Nat /\ Arrived(sends, txs, w) <= Claimed(sends, txs, w)
    BY <1>1, Booked
  <2>2. got[w] = Arrived(sends, txs, w)
    BY <1>1 DEF ArrivedIs
  <2>3. Claimed(sends, txs, w) <= Target(read * Lot, w)
    BY DEF Within
  <2> QED
    BY <1>2, <1>8, <2>1, <2>2, <2>3
<1>10. SharedAs(sends, txs, open, amount, r) /\ FilesTyped(r, txs)
  OBVIOUS
<1>11. ASSUME NEW w \in W
       PROVE  /\ Claimed(sends, txs, w) = Sent[w]
              /\ Claimed(r, txs, w) = Sent[w] + SumFunctionOnSet(amount, {i \in open : sends[i].wallet = w})
  <2>1. w \in Wallets /\ OnlyDelivered(sends, txs, w)
    BY <1>5, <1>6
  <2>2. /\ Claimed(sends, txs, w) = SentTo(sends, w)
        /\ Claimed(r, txs, w) = SentTo(sends, w)
                                  + SumFunctionOnSet(amount, {i \in open : sends[i].wallet = w})
    BY ONLY <1>1, <1>3, <1>10, <2>1, SharingGoes
  <2>3. Sent[w] = SentTo(sends, w)
    BY <2>1, SentIs
  <2> QED
    BY <2>2, <2>3
<1> HIDE DEF short
<1>12. ASSUME NEW w \in W
       PROVE  short[w] \in Nat /\ Sent[w] + short[w] = target[w] /\ got[w] + short[w] <= target[w]
  <2>1. short[w] = Max({0, target[w] - Sent[w]})
    BY DEF short, Shortage
  <2>2. target[w] \in Nat /\ Sent[w] \in Nat /\ Sent[w] <= target[w] /\ got[w] <= Sent[w] /\ got[w] \in Nat
    BY <1>5, <1>7, <1>8, <1>9, <1>11
  <2>3. target[w] - Sent[w] \in Nat
    BY <2>2
  <2>4. Max({0, target[w] - Sent[w]}) \in {0, target[w] - Sent[w]}
        /\ Max({0, target[w] - Sent[w]}) >= target[w] - Sent[w]
    <3>1. target[w] - Sent[w] \in Int /\ 0 \in Int
      BY <2>3
    <3> QED
      BY <3>1, OfTwo
  <2>5. short[w] = target[w] - Sent[w]
    BY <2>1, <2>3, <2>4
  <2> QED
    BY <2>2, <2>5
<1>13. SumFunctionOnSet(target, Wallets) \in Nat /\ fire \in Nat
       /\ SumFunctionOnSet(target, Wallets) + fire <= read * Lot
  <2>1. Wallets # {}
    BY DEF Exact
  <2>2. \A w \in Wallets : target[w] = DeliveryOwed(read * Lot, w, burn)
    BY <1>8 DEF Target
  <2> QED
    BY ONLY <1>2, <2>1, <2>2, OwedFits DEF fire
<1>14. burned <= fire
  BY DEF BookInv, FireWithin
<1> HIDE DEF fire
<1>15. SumFunctionOnSet(target, Wallets) + fire <= keeper + burned + SumFunctionOnSet(got, Wallets)
  <2> DEFINE a == SumFunctionOnSet(target, Wallets)
             g == SumFunctionOnSet(got, Wallets)
             m == read * Lot
             n == lots * Lot
  <2>1. keeper + burned + g = n
    BY DEF BookInv, Balanced
  <2>2. a \in Nat /\ g \in Nat /\ m \in Nat /\ n \in Nat /\ m <= n /\ a + fire <= m /\ fire \in Nat
    BY <1>2, <1>13
  <2> HIDE DEF a, g, m, n
  <2>3. a + fire <= n
    BY <2>2
  <2>4. a + fire <= keeper + burned + g
    BY <2>1, <2>3
  <2> QED
    BY <2>4 DEF a, g
<1>16. SumFunctionOnSet(short, W) <= keeper
  <2>1. \A w \in Wallets : target[w] \in Nat /\ got[w] \in Nat /\ got[w] <= target[w]
    BY <1>8, <1>9
  <2>2. \A w \in W : short[w] \in Nat /\ got[w] + short[w] <= target[w]
    BY <1>12
  <2> HIDE DEF W
  <2> QED
    BY ONLY <1>2, <1>5, <1>13, <1>14, <1>15, <2>1, <2>2, MissingIsThere
<1>17. ASSUME NEW w \in W
       PROVE  SumFunctionOnSet(amount, {i \in open : sends[i].wallet = w}) = short[w]
  <2>1. short = Shortage(sends, open, Sent, target)
    BY DEF short
  <2>2. amount = DeficitAmounts(sends, open, keeper, Sent, target)
    OBVIOUS
  <2>3. SumFunctionOnSet(short, WalletsOf(sends, open)) <= keeper /\ w \in WalletsOf(sends, open)
    BY <1>16 DEF W
  <2>4. /\ open \in SUBSET Nat /\ IsFiniteSet(open) /\ (\A i \in open : sends[i].wallet \in Wallets)
        /\ keeper \in Nat /\ Sent \in [Wallets -> Nat] /\ target \in [Wallets -> Int]
    BY <1>2, <1>4, <1>7, <1>8
  <2>5. \A v \in WalletsOf(sends, open) :
          SumFunctionOnSet(amount, {i \in open : sends[i].wallet = v}) = short[v]
    BY ONLY <2>1, <2>2, <2>3, <2>4, AmountsAddUp
  <2> QED
    BY ONLY <2>3, <2>5
<1>18. ASSUME NEW w \in W PROVE Claimed(r, txs, w) = target[w]
  <2> DEFINE given == SumFunctionOnSet(amount, {i \in open : sends[i].wallet = w})
  <2>1. Claimed(r, txs, w) = Sent[w] + given
    BY <1>11
  <2>2. given = short[w]
    BY <1>17
  <2>3. Sent[w] + short[w] = target[w]
    BY <1>12
  <2> HIDE DEF given
  <2> QED
    BY <2>1, <2>2, <2>3
<1>19. ASSUME NEW w \in Wallets PROVE Claimed(r, txs, w) <= target[w]
  <2>1. CASE w \in W
    <3>1. Claimed(r, txs, w) = target[w]
      BY <1>18, <2>1
    <3>2. \A x \in Nat : x <= x
      OBVIOUS
    <3> QED
      BY <1>8, <3>1, <3>2
  <2>2. CASE w \notin W
    <3>1. Claimed(r, txs, w) = Claimed(sends, txs, w)
      <4>1. w \notin WalletsOf(sends, open)
        BY <2>2 DEF W
      <4> QED
        BY ONLY <1>1, <1>3, <1>10, <4>1, SharingLeaves
    <3> QED
      BY <1>9, <3>1
  <2> QED
    BY <2>1, <2>2
<1>20. \A w \in WalletsOf(sends, open) : Claimed(r, txs, w) = Target(read * Lot, w)
  <2> SUFFICES ASSUME NEW w \in WalletsOf(sends, open) PROVE Claimed(r, txs, w) = Target(read * Lot, w)
    OBVIOUS
  <2>1. w \in W
    BY DEF W
  <2>2. w \in Wallets
    BY <1>5, <2>1
  <2>3. Claimed(r, txs, w) = target[w] /\ target[w] = Target(read * Lot, w)
    BY <1>8, <1>18, <2>1, <2>2
  <2> QED
    BY <2>3
<1> QED
  BY <1>8, <1>19, <1>20

\* Nothing is shared out of an empty account.
LEMMA ShareOutNothing ==
  ASSUME IInv, IInv', BookInv, NEW balance \in {0, keeper}, ShareOut(balance), balance <= 0
  PROVE  Onwards
<1>1. /\ UNCHANGED <<burn, read, burned, lots, keeper, got, txs, sends>> /\ pc = "sharing"
      /\ Onward(sends)
  BY DEF ShareOut, startVars, chainVars
<1>2. work' = <<>> /\ pc' = "waiting"
  BY <1>1, OnwardLeaves DEF IInv
<1>3. \A i \in DOMAIN sends : sends'[i].status # "in_progress" /\ Goes(sends[i], sends'[i], txs)
  BY <1>1, NoneMarked, Stays DEF Ids
<1>4. DueTaken'
  BY <1>2 DEF DueTaken
<1> QED
  BY <1>1, <1>2, <1>3, <1>4, QuietStep

\* What is shared out.
LEMMA SharesOut ==
  ASSUME IInv, IInv', BookInv, NEW balance \in {0, keeper}, ShareOut(balance), ~(balance <= 0)
  PROVE  \E open, target, amount :
           /\ open = {i \in due : sends[i].status = "pending"} /\ open \in SUBSET DOMAIN sends
           /\ target = [w \in Wallets |-> Target(Pot(balance), w)]
           /\ amount = DeficitAmounts(sends, open, balance, Sent, target)
           /\ SharedAs(sends, txs, open, amount, sends') /\ FilesTyped(sends', txs)
           /\ MarkedHeld(sends', work')
<1> DEFINE open   == {i \in due : sends[i].status = "pending"}
           pot    == Pot(balance)
           target == [w \in Wallets |-> Target(pot, w)]
           amount == DeficitAmounts(sends, open, balance, Sent, target)
           filled == {i \in open : amount[i] = 0}
           order  == InOrder(open \ filled)
           after  == [i \in Ids |->
                        IF i \in filled THEN [sends[i] EXCEPT !.status = "satisfied"]
                        ELSE IF i \in open
                        THEN [sends[i] EXCEPT !.status = "in_progress", !.amount = amount[i]]
                        ELSE sends[i]]
<1>1. FilesTyped(sends, txs) /\ Paid(sends, txs) /\ OtherTypes /\ pc = "sharing"
  BY DEF IInv, ShareOut
<1>2. /\ due \subseteq Ids /\ Ids = DOMAIN sends /\ DOMAIN sends = 1..Len(sends) /\ Len(sends) \in Nat
      /\ keeper \in Nat /\ balance \in Nat
  BY <1>1, Typed DEF OtherTypes, Ids
<1>3. open \in SUBSET Nat /\ open \subseteq DOMAIN sends /\ IsFiniteSet(open)
  <2>1. open \subseteq DOMAIN sends /\ DOMAIN sends \subseteq Nat
    BY <1>2
  <2>2. IsFiniteSet(DOMAIN sends)
    BY <1>2, FS_Interval
  <2> HIDE DEF open
  <2> QED
    BY <2>1, <2>2, FS_Subset
<1>4. \A i \in open : amount[i] \in Nat
  <2>1. \A i \in open : sends[i].wallet \in Wallets
    BY <1>1, <1>3, Typed
  <2>2. pot \in Nat
    BY <1>1, <1>2, AmountTypes
  <2>3. target \in [Wallets -> Int]
    <3> HIDE DEF pot
    <3> QED
      BY <1>1, <2>2, AmountTypes
  <2>4. Sent \in [Wallets -> Nat]
    BY <1>1, AmountTypes
  <2> HIDE DEF open, pot, target
  <2>5. amount \in [open -> Nat]
    BY <1>2, <1>3, <2>1, <2>3, <2>4, AmountsAreNat
  <2> HIDE DEF amount
  <2> QED
    BY <2>5
<1>5. /\ sends' = after
      /\ IF open = filled THEN Onward(after) ELSE work' = Batches(order)
      /\ UNCHANGED txs
  <2>1. /\ sends' = after
        /\ IF open = filled THEN Onward(after)
           ELSE work' = [b \in 1..((Len(order) + BatchSize - 1) \div BatchSize) |->
                            Batch(SubSeq(order, (b - 1) * BatchSize + 1,
                                         Min({b * BatchSize, Len(order)})))]
        /\ UNCHANGED txs
    BY DEF ShareOut, startVars, chainVars
  <2> QED
    BY <2>1 DEF Batches
<1>6. work = <<>> /\ (\A i \in DOMAIN sends : sends[i].status # "in_progress")
  BY <1>1, NoneMarked DEF Ids
<1>7. \A i \in open : sends[i].status = "pending" /\ sends[i].tx = 0 /\ i \in DOMAIN sends
  BY <1>1, <1>3 DEF IInv, VisitFits
<1> HIDE DEF amount, pot, target
<1>8. filled \subseteq open /\ \A i \in open : i \in filled <=> amount[i] = 0
  OBVIOUS
<1>9. /\ DOMAIN after = DOMAIN sends
      /\ \A i \in DOMAIN sends :
           after[i] = IF i \in filled THEN [sends[i] EXCEPT !.status = "satisfied"]
                      ELSE IF i \in open
                      THEN [sends[i] EXCEPT !.status = "in_progress", !.amount = amount[i]]
                      ELSE sends[i]
  BY <1>2
<1> HIDE DEF open, filled, after
<1>10. ASSUME NEW i \in open
       PROVE  /\ after[i].wallet = sends[i].wallet /\ after[i].tx = 0
              /\ amount[i] = 0 => after[i].status = "satisfied" /\ after[i].amount = sends[i].amount
              /\ amount[i] # 0 => after[i].status = "in_progress" /\ after[i].amount = amount[i]
  <2> DEFINE x == sends[i]
             y == [x EXCEPT !.status = "satisfied"]
             z == [x EXCEPT !.status = "in_progress", !.amount = amount[i]]
  <2>1. x \in RecordType(Len(txs)) /\ x.tx = 0
    BY <1>1, <1>7, Typed
  <2>2. after[i] = IF i \in filled THEN y ELSE z
    BY <1>7, <1>9
  <2> HIDE DEF x
  <2>3. y.status = "satisfied" /\ y.tx = x.tx /\ y.amount = x.amount /\ y.wallet = x.wallet
    BY <2>1 DEF RecordType
  <2>4. z.status = "in_progress" /\ z.tx = x.tx /\ z.amount = amount[i] /\ z.wallet = x.wallet
    BY <2>1 DEF RecordType
  <2> HIDE DEF y, z
  <2> QED
    BY <1>8, <2>1, <2>2, <2>3, <2>4 DEF x
<1>11. \A i \in DOMAIN sends \ open : after[i] = sends[i]
  BY <1>8, <1>9
<1>12. SharedAs(sends, txs, open, amount, after)
  BY <1>4, <1>7, <1>9, <1>10, <1>11 DEF SharedAs
<1>13. FilesTyped(sends', txs)
  BY <1>5 DEF IInv
<1>14. ASSUME NEW i \in DOMAIN after, after[i].status = "in_progress"
       PROVE  i \in open \ filled
  BY <1>6, <1>8, <1>9, <1>10, <1>11, <1>14
<1>15. MarkedHeld(after, work')
  <2>1. CASE open = filled
    <3>1. work' = <<>>
      BY <1>1, <1>5, <2>1, OnwardLeaves
    <3>2. \A i \in DOMAIN after : after[i].status # "in_progress"
      BY <1>14, <2>1
    <3> QED
      BY <3>1, <3>2, NobodyMarked
  <2>2. CASE open # filled
    <3> DEFINE S == open \ filled
    <3>1. S \in SUBSET Nat /\ IsFiniteSet(S)
      <4>1. S \in SUBSET open
        OBVIOUS
      <4> HIDE DEF S
      <4> QED
        BY <1>3, <4>1, FS_Subset
    <3>2. \A i \in DOMAIN after : after[i].status = "in_progress" => i \in S
      BY <1>14
    <3>3. order = InOrder(S)
      OBVIOUS
    <3> HIDE DEF S, order
    <3>4. Cardinality(S) \in Nat /\ InOrder(S) \in [1..Cardinality(S) -> S]
      BY <3>1, InOrderNamesOnce
    <3>5. order \in [1..Cardinality(S) -> Nat]
      BY <3>1, <3>3, <3>4
    <3>6. order \in Seq(Nat) /\ DOMAIN order = 1..Cardinality(S)
      BY <3>4, <3>5, SeqDef
    <3>7. ASSUME NEW i \in S PROVE \E b \in DOMAIN Batches(order) : i \in Held(Batches(order)[b])
      <4>1. PICK n \in 1..Cardinality(S) : InOrder(S)[n] = i
        BY <3>1, InOrderNamesAll
      <4>2. n \in DOMAIN order /\ order[n] = i
        BY <3>3, <3>6, <4>1
      <4>3. \E b \in DOMAIN Batches(order) : order[n] \in Held(Batches(order)[b])
        BY <3>6, <4>2, FirstHeld
      <4> QED
        BY <4>2, <4>3
    <3>8. work' = Batches(order)
      BY <1>5, <2>2
    <3> QED
      BY <3>2, <3>7, <3>8 DEF MarkedHeld
  <2> QED
    BY <2>1, <2>2
<1>16. /\ SharedAs(sends, txs, open, amount, sends') /\ MarkedHeld(sends', work')
  BY <1>5, <1>12, <1>15
<1> QED
  BY <1>3, <1>13, <1>16 DEF open, amount, target, pot

\* Sharing out keeps the books, and the shares where nothing is overlooked.
LEMMA ShareOutFair ==
  ASSUME IInv, IInv', BookInv, NEW balance \in {0, keeper}, ShareOut(balance)
  PROVE  BookInv' /\ (NothingOverlooked /\ Within => Within')
<1>1. CASE balance <= 0
  BY <1>1, ShareOutNothing DEF Onwards
<1>2. CASE ~(balance <= 0)
  <2>1. PICK open, target, amount :
           /\ open = {i \in due : sends[i].status = "pending"} /\ open \in SUBSET DOMAIN sends
           /\ target = [w \in Wallets |-> Target(Pot(balance), w)]
           /\ amount = DeficitAmounts(sends, open, balance, Sent, target)
           /\ SharedAs(sends, txs, open, amount, sends') /\ FilesTyped(sends', txs)
           /\ MarkedHeld(sends', work')
    BY <1>2, SharesOut
  <2>2. /\ UNCHANGED <<burn, read, burned, lots, keeper, got, txs>>
        /\ pc = "sharing" /\ balance = keeper
    <3>1. UNCHANGED <<burn, read, burned, lots, keeper, got, txs>> /\ pc = "sharing"
      BY DEF ShareOut, startVars, chainVars
    <3>2. balance = keeper
      BY <1>2
    <3> QED
      BY <3>1, <3>2
  <2>3. FilesTyped(sends, txs) /\ Paid(sends, txs) /\ BooksFit(sends, txs, got)
    BY DEF IInv, BookInv
  <2>4. BooksFit(sends', txs', got')
    <3>1. BooksFit(sends', txs, got)
      BY <2>1, <2>3, SharedClaims
    <3> QED
      BY <2>2, <3>1
  <2>5. DueTaken'
    <3>1. pc' \in {"waiting", "sending"}
      <4>1. CASE pc' = "sending"
        BY <4>1
      <4>2. CASE pc' # "sending"
        <5>1. \E after : Onward(after)
          BY <1>2, <4>2 DEF ShareOut
        <5> QED
          BY <5>1, OnwardLeaves DEF IInv
      <4> QED
        BY <4>1, <4>2
    <3> QED
      BY <3>1 DEF DueTaken
  <2>6. Balanced' /\ FireWithin'
    <3>1. Balanced'
      BY <2>2 DEF BookInv, Balanced
    <3> QED
      BY <2>2, <3>1, FireStays DEF BookInv
  <2>7. BookInv'
    BY <2>1, <2>4, <2>5, <2>6 DEF BookInv
  <2>8. ASSUME NothingOverlooked, Within PROVE Within'
    <3>1. SUFFICES ASSUME Exact'
                   PROVE  \A w \in Wallets : Claimed(sends', txs', w) <= (Target(read * Lot, w))'
      BY DEF Within
    <3>2. Exact
      BY <2>2, <3>1 DEF Exact
    <3>3. target = [w \in Wallets |-> Target(read * Lot, w)]
      BY <2>1, <3>2 DEF Pot
    <3>4. amount = DeficitAmounts(sends, open, keeper, Sent, target)
      BY <2>1, <2>2
    <3>5. \A w \in Wallets : Claimed(sends', txs, w) <= Target(read * Lot, w)
      BY <2>1, <2>2, <2>8, <3>2, <3>3, <3>4, SharedWithin
    <3>6. \A w \in Wallets : (Target(read * Lot, w))' = Target(read * Lot, w)
      BY <2>2 DEF Target
    <3> QED
      BY <2>2, <3>5, <3>6
  <2> QED
    BY <2>7, <2>8
<1> QED
  BY <1>1, <1>2

\* A step.
LEMMA StepFair ==
  ASSUME IInv, IInv', BookInv, [Next]_vars
  PROVE  BookInv' /\ (NothingOverlooked /\ Within => Within')
<1> USE DEF Onwards
<1>1. ASSUME NEW k \in DOMAIN txs, NEW f \in {"landed", "void"}, Decide(k, f) PROVE Onwards
  BY <1>1, DecideFair
<1>2. ASSUME NEW i \in Ids, NEW v \in AnyVerdict, CheckPendingSend(i, v) \/ SettleAbandoned(i, v)
      PROVE  Onwards
  BY <1>2, CheckPendingSendFair, SettleAbandonedFair
<1>3. ASSUME NEW missing, CheckAtas(missing) PROVE Onwards
  BY <1>3, CheckAtasFair
<1>4. ASSUME NEW balance \in {0, keeper}, TopUps(balance) PROVE Onwards
  BY <1>4, TopUpsFair
<1>5. ASSUME NEW b \in DOMAIN work, SendBatch(b) PROVE Onwards
  <2>1. CASE Sign(b)
    BY <2>1, SignFair
  <2>2. CASE SendRaw(b)
    BY <2>2, SendRawFair
  <2>3. CASE Confirmed(b)
    BY <2>3, ConfirmedFair
  <2>4. ASSUME NEW e \in Errors, BuildFails(b, e) PROVE Onwards
    BY <2>4, BuildFailsFair
  <2>5. ASSUME NEW e \in Errors, NotConfirmed(b, e) PROVE Onwards
    BY <2>5, NotConfirmedFair
  <2> QED
    BY <1>5, <2>1, <2>2, <2>3, <2>4, <2>5 DEF SendBatch
<1>6. ASSUME UNCHANGED vars PROVE Onwards
  <2>1. UNCHANGED <<burn, hadAta, lots, read, burned, keeper, got, sends, txs, phase, pass, pc, due,
                    skip, work, crashes, broke, ignored, settledPot, leftQueued, sharedShort>>
    BY <1>6 DEF vars
  <2>2. BooksFit(sends', txs', got) /\ MarkedHeld(sends', work')
    BY <2>1 DEF BookInv
  <2>3. DueTaken'
    BY <2>1, DueStays DEF BookInv
  <2>4. \A w \in Wallets : Claimed(sends', txs', w) <= Claimed(sends, txs, w)
    BY <2>1, SameClaims
  <2> QED
    BY <2>1, <2>2, <2>3, <2>4, RecordsStep
<1>7. ASSUME Visit PROVE BookInv' /\ (NothingOverlooked /\ Within => Within')
  BY <1>2, <1>3, <1>5, <1>7, ShareOutFair, StartVisitFair, AtaUnreadableFair, EndVisitFair DEF Visit
<1>8. ASSUME Settle PROVE Onwards
  BY <1>2, <1>4, <1>8, SettleStartFair DEF Settle
<1> QED
  BY <1>1, <1>6, <1>7, <1>8, BuyFair, CrashFair DEF Next, Chain

\* The start.
LEMMA InitFair ==
  ASSUME Init
  PROVE  BookInv /\ Within
<1>1. /\ sends = FirstSends(burn) /\ txs = <<>> /\ work = <<>> /\ due = {} /\ pc = "waiting"
      /\ lots = 0 /\ read = 0 /\ burned = 0 /\ keeper = 0 /\ \A w \in Wallets : got[w] = 0
  BY DEF Init
<1>2. IInv
  BY InitKeeps
<1>3. FilesTyped(sends, txs) /\ DOMAIN txs = {}
  BY <1>1, <1>2, EmptySeq DEF IInv
<1>4. \A i \in DOMAIN sends : sends[i].amount = 0 /\ sends[i].status = "pending"
  <2>1. PICK m \in Nat :
          /\ sends = [k \in 1..m |-> sends[k]]
          /\ \A k \in 1..m : \E w \in Wallets, r \in 1..Rounds : sends[k] = NewSend(w, r)
    BY <1>1, FirstSendsAreNew
  <2>2. DOMAIN sends = 1..m
    BY <2>1
  <2> QED
    BY <2>1, <2>2 DEF NewSend
<1>5. BooksFit(sends, txs, got) /\ \A w : Claimed(sends, txs, w) = 0
  BY <1>1, <1>3, <1>4, NothingYet
<1>6. MarkedHeld(sends, work) /\ DueTaken
  <2>1. \A i \in DOMAIN sends : sends[i].status # "in_progress"
    BY <1>4
  <2> QED
    BY <1>1, <2>1, NobodyMarked DEF DueTaken
<1>7. Balanced
  <2>1. IsFiniteSet(Wallets) /\ Cardinality(Wallets) \in Nat
    BY SendAssumption, FS_CardinalityType
  <2>2. SumFunctionOnSet(got, Wallets) = Cardinality(Wallets) * 0
    BY <1>1, <2>1, SumOfSame
  <2>3. \A c \in Nat : c * 0 = 0
    OBVIOUS
  <2>4. Lot \in Nat
    BY DeliveryAssumption
  <2> QED
    BY <1>1, <2>1, <2>2, <2>3, <2>4 DEF Balanced
<1>8. FireWithin
  <2>1. WeightsFit(burn) /\ read * Lot \in Nat
    BY <1>2, Counts
  <2>2. ASSUME Exact PROVE BurnOwed(read * Lot, burn) \in Nat
    <3>1. PICK w \in Wallets : TRUE
      BY <2>2 DEF Exact
    <3> QED
      BY <2>1, OwedTypes
  <2> QED
    BY <1>1, <2>2 DEF FireWithin
<1>9. Within
  <2>1. \A w \in Wallets : Target(read * Lot, w) \in Nat /\ Claimed(sends, txs, w) = 0
    BY <1>2, <1>5, Counts
  <2> QED
    BY <2>1 DEF Within
<1> QED
  BY <1>5, <1>6, <1>7, <1>8, <1>9 DEF BookInv

-----------------------------------------------------------------------------
(* The settlement, and what is on record after it.                         *)

\* A record that says its wallet has not had everything, and one whose tokens are
\* delivered, on their way, or may be.
OnFile(x) == x.status \in {"abandoned", "ata_mismatch"} \/ (x.status = "pending" /\ x.tx = 0)
Counted(x) == x.status \in {"completed", "in_progress"} \/ (x.status = "pending" /\ x.tx # 0)

Weighed(s) == [i \in DOMAIN s |-> IF Counted(s[i]) THEN s[i].amount ELSE 0]
Covered(s, w) == SumFunctionOnSet(Weighed(s), RecordsOf(s, w))
OnFileFor(s, w) == \E i \in RecordsOf(s, w) : OnFile(s[i])

\* The wallet has its share of a pot, or a record says it has not.
Served(s, w, pot) ==
  OnFileFor(s, w) \/ Target(pot, w) < Max({1, MinTopUp}) + Covered(s, w)

\* Where the visits and the settlement have their place; the settlement holds
\* nothing but sends that were given up.
PlaceFits ==
  /\ pc \in {"checking", "sharing", "sending"} => phase \in {"rounds", "sweep"}
  /\ pc = "settling" => /\ phase = "settle" /\ due \cap skip = {}
                        /\ \A i \in due \cup skip : sends[i].status = "abandoned"
  /\ pc = "checking" => \A i \in due : sends[i].tx # 0 => sends[i].status = "pending"
  /\ pc = "waiting" => skip = {}
  /\ phase = "rounds" => pass <= Rounds

\* Who does not burn everything has a delivery.
EverybodyListed == \A w \in Wallets : burn[w] # Bet[w] * Full => RecordsOf(sends, w) # {}

\* After the settlement everybody it looked at is served.
AfterSettling == phase \in {"sweep", "done"} /\ ~broke
SettledFits ==
  Exact /\ AfterSettling =>
    /\ settledPot \in Nat /\ settledPot <= read * Lot
    /\ \A w \in Wallets \ leftQueued : Served(sends, w, settledPot)

SettleInv == PlaceFits /\ EverybodyListed /\ SettledFits

\* How a record moves outside the sharing and the settlement.
Turns(x, y) ==
  /\ y.wallet = x.wallet /\ y.amount = x.amount
  /\ OnFile(x) => OnFile(y)
  /\ Counted(x) => Counted(y) \/ OnFile(y)

\* What is covered is a whole number.
LEMMA CoveredTypes ==
  ASSUME NEW s, NEW t, FilesTyped(s, t), NEW w
  PROVE  /\ RecordsOf(s, w) \in SUBSET DOMAIN s /\ IsFiniteSet(RecordsOf(s, w))
         /\ \A i \in RecordsOf(s, w) : /\ Weighed(s)[i] \in Nat /\ s[i].amount \in Nat
                                       /\ Weighed(s)[i] = IF Counted(s[i]) THEN s[i].amount ELSE 0
         /\ Covered(s, w) \in Nat
<1>1. RecordsOf(s, w) \in SUBSET DOMAIN s /\ IsFiniteSet(RecordsOf(s, w))
      /\ \A i \in DOMAIN s : s[i].amount \in Nat
  BY Booked
<1>2. \A i \in RecordsOf(s, w) : /\ Weighed(s)[i] \in Nat /\ s[i].amount \in Nat
                                 /\ Weighed(s)[i] = IF Counted(s[i]) THEN s[i].amount ELSE 0
  BY <1>1 DEF Weighed
<1>3. RecordsOf(s, w) \in SUBSET RecordsOf(s, w)
  OBVIOUS
<1>4. Covered(s, w) \in Nat
  BY <1>1, <1>2, <1>3, SumIsNat DEF Covered
<1> QED
  BY <1>1, <1>2, <1>4

\* Records that so move leave a wallet covered or on file.
LEMMA TurnsKeep ==
  ASSUME NEW s, NEW t, FilesTyped(s, t), NEW r, NEW u, FilesTyped(r, u), DOMAIN r = DOMAIN s,
         \A i \in DOMAIN s : r[i].wallet = s[i].wallet, NEW w,
         \A i \in RecordsOf(s, w) : Turns(s[i], r[i]), ~OnFileFor(r, w)
  PROVE  ~OnFileFor(s, w) /\ Covered(s, w) <= Covered(r, w)
<1> DEFINE R == RecordsOf(s, w)
<1>1. RecordsOf(r, w) = R
  BY DEF RecordsOf
<1>2. /\ R \in SUBSET DOMAIN s /\ IsFiniteSet(R)
      /\ \A i \in R : Weighed(s)[i] \in Nat /\ s[i].amount \in Nat
                      /\ Weighed(s)[i] = IF Counted(s[i]) THEN s[i].amount ELSE 0
  BY CoveredTypes
<1>3. \A i \in R : Weighed(r)[i] \in Nat /\ Weighed(r)[i] = IF Counted(r[i]) THEN r[i].amount ELSE 0
  <2>1. \A i \in RecordsOf(r, w) : Weighed(r)[i] \in Nat
                                   /\ Weighed(r)[i] = IF Counted(r[i]) THEN r[i].amount ELSE 0
    BY CoveredTypes
  <2> QED
    BY <1>1, <2>1
<1>4. \A i \in R : ~OnFile(r[i])
  BY <1>1 DEF OnFileFor
<1>5. \A i \in R : /\ r[i].amount = s[i].amount /\ ~OnFile(s[i]) /\ (Counted(s[i]) => Counted(r[i]))
  BY <1>2, <1>4 DEF Turns
<1>6. \A i \in R : /\ Weighed(s)[i] \in Nat /\ Weighed(r)[i] \in Nat
                   /\ Weighed(s)[i] <= Weighed(r)[i]
  <2> SUFFICES ASSUME NEW i \in R PROVE Weighed(s)[i] <= Weighed(r)[i]
    BY <1>2, <1>3
  <2>1. CASE Counted(s[i])
    <3>1. Weighed(s)[i] = s[i].amount /\ Weighed(r)[i] = s[i].amount /\ s[i].amount \in Nat
      BY <1>2, <1>3, <1>5, <2>1
    <3> QED
      BY <3>1
  <2>2. CASE ~Counted(s[i])
    <3>1. Weighed(s)[i] = 0 /\ Weighed(r)[i] \in Nat
      BY <1>2, <1>3, <2>2
    <3> QED
      BY <3>1
  <2> QED
    BY <2>1, <2>2
<1> HIDE DEF R
<1>7. SumFunctionOnSet(Weighed(s), R) <= SumFunctionOnSet(Weighed(r), R)
  BY <1>2, <1>6, SumOfLess
<1>8. ~OnFileFor(s, w)
  BY <1>5 DEF OnFileFor, R
<1> QED
  BY <1>1, <1>7, <1>8 DEF Covered, R

\* What a top-up is at least.
LEMMA SmallestTopUp ==
  /\ MinTopUp \in Nat /\ Max({1, MinTopUp}) \in Nat
  /\ Max({1, MinTopUp}) >= 1 /\ Max({1, MinTopUp}) >= MinTopUp
<1>1. MinTopUp \in Nat
  BY DeliveryAssumption
<1>2. MinTopUp \in Int /\ 1 \in Int
  BY <1>1
<1>3. /\ Max({1, MinTopUp}) \in {1, MinTopUp}
      /\ Max({1, MinTopUp}) >= 1 /\ Max({1, MinTopUp}) >= MinTopUp
  BY <1>2, OfTwo
<1> QED
  BY <1>1, <1>3

\* A wallet that was served stays so.
LEMMA ServedStays ==
  ASSUME NEW s, NEW t, FilesTyped(s, t), NEW r, NEW u, FilesTyped(r, u), DOMAIN r = DOMAIN s,
         \A i \in DOMAIN s : r[i].wallet = s[i].wallet, NEW w,
         \A i \in RecordsOf(s, w) : Turns(s[i], r[i]), NEW pot, Target(pot, w) \in Int, Served(s, w, pot)
  PROVE  Served(r, w, pot)
<1>1. SUFFICES ASSUME ~OnFileFor(r, w) PROVE Target(pot, w) < Max({1, MinTopUp}) + Covered(r, w)
  BY DEF Served
<1>2. ~OnFileFor(s, w) /\ Covered(s, w) <= Covered(r, w)
  BY <1>1, TurnsKeep
<1>3. Target(pot, w) < Max({1, MinTopUp}) + Covered(s, w)
  BY <1>2 DEF Served
<1>4. Covered(s, w) \in Nat /\ Covered(r, w) \in Nat
  BY CoveredTypes
<1>5. Max({1, MinTopUp}) \in Nat
  BY SmallestTopUp
<1> DEFINE a == Target(pot, w)
           b == Max({1, MinTopUp})
           c == Covered(s, w)
           d == Covered(r, w)
<1>6. a \in Int /\ b \in Nat /\ c \in Nat /\ d \in Nat /\ a < b + c /\ c <= d
  BY <1>2, <1>3, <1>4, <1>5
<1> HIDE DEF a, b, c, d
<1>7. a < b + d
  BY <1>6
<1> QED
  BY <1>7 DEF a, b, d

\* What is owed of a pot.
LEMMA OwedOfPot ==
  ASSUME IInv, NEW pot \in Nat, NEW w \in Wallets
  PROVE  Target(pot, w) \in Nat
<1>1. WeightsFit(burn)
  BY Counts
<1> QED
  BY <1>1, OwedTypes DEF Target

\* A step in which no record leaves the file.
LEMMA SettleStays ==
  ASSUME IInv, IInv', EverybodyListed, SettledFits, PlaceFits',
         UNCHANGED <<burn, settledPot, leftQueued>>, read <= read',
         DOMAIN sends' = DOMAIN sends, \A i \in DOMAIN sends : Turns(sends[i], sends'[i]),
         AfterSettling' => AfterSettling
  PROVE  SettleInv'
<1>1. FilesTyped(sends, txs) /\ FilesTyped(sends', txs')
  BY DEF IInv
<1>2. EverybodyListed'
  <2>1. \A w : RecordsOf(sends', w) = RecordsOf(sends, w)
    BY DEF RecordsOf, Turns
  <2> QED
    BY <2>1 DEF EverybodyListed
<1>3. SettledFits'
  <2> SUFFICES ASSUME Exact', AfterSettling'
               PROVE  /\ settledPot \in Nat /\ settledPot <= read' * Lot
                      /\ \A w \in Wallets \ leftQueued : Served(sends, w, settledPot)'
    BY DEF SettledFits
  <2>1. Exact /\ AfterSettling
    BY DEF Exact
  <2>2. /\ settledPot \in Nat /\ settledPot <= read * Lot
        /\ \A w \in Wallets \ leftQueued : Served(sends, w, settledPot)
    BY <2>1 DEF SettledFits
  <2>3. settledPot <= read' * Lot
    <3>1. read \in Nat /\ read' \in Nat /\ Lot \in Nat
      BY DeliveryAssumption DEF IInv, OtherTypes
    <3>2. \A x, y, z, p \in Nat : x <= y /\ p <= x * z => p <= y * z
      <4>1. \A x, y, z \in Nat : x <= y => x * z <= y * z /\ x * z \in Nat /\ y * z \in Nat
        OBVIOUS
      <4>2. \A p, q, v \in Nat : p <= q /\ q <= v => p <= v
        OBVIOUS
      <4> QED
        BY <4>1, <4>2
    <3> QED
      BY <2>2, <3>1, <3>2
  <2>4. ASSUME NEW w \in Wallets \ leftQueued PROVE Served(sends', w, settledPot)
    <3>1. Target(settledPot, w) \in Int
      BY <2>2, OwedOfPot
    <3>2. Served(sends, w, settledPot)
      BY <2>2
    <3>3. /\ \A i \in DOMAIN sends : sends'[i].wallet = sends[i].wallet
          /\ \A i \in RecordsOf(sends, w) : Turns(sends[i], sends'[i])
      BY DEF Turns, RecordsOf
    <3> QED
      BY <1>1, <3>1, <3>2, <3>3, ServedStays
  <2>5. \A w : Served(sends, w, settledPot)' <=> Served(sends', w, settledPot)
    BY DEF Served, Target
  <2> QED
    BY <2>2, <2>3, <2>4, <2>5
<1> QED
  BY <1>2, <1>3 DEF SettleInv


\* A step after which nothing is settled.
LEMMA SettleOff ==
  ASSUME IInv, EverybodyListed, PlaceFits', UNCHANGED burn,
         DOMAIN sends' = DOMAIN sends, \A i \in DOMAIN sends : sends'[i].wallet = sends[i].wallet,
         ~AfterSettling'
  PROVE  SettleInv'
<1>1. EverybodyListed'
  <2>1. \A w : RecordsOf(sends', w) = RecordsOf(sends, w)
    BY DEF RecordsOf
  <2> QED
    BY <2>1 DEF EverybodyListed
<1> QED
  BY <1>1 DEF SettleInv, SettledFits

\* A record that stays stays on file.
LEMMA TurnsSame ==
  \A x : Turns(x, x)
BY DEF Turns

\* A step that leaves the records alone.
LEMMA SettleIdle ==
  ASSUME IInv, IInv', SettleInv, PlaceFits',
         UNCHANGED <<burn, sends, settledPot, leftQueued>>, read <= read',
         AfterSettling' => AfterSettling
  PROVE  SettleInv'
<1>1. DOMAIN sends' = DOMAIN sends /\ \A i \in DOMAIN sends : Turns(sends[i], sends'[i])
  BY TurnsSame
<1> QED
  BY <1>1, SettleStays DEF SettleInv

\* What is read is not forgotten.
LEMMA ReadGrows ==
  ASSUME IInv, UNCHANGED read \/ ReadAndBurn
  PROVE  read <= read'
<1>1. read \in Nat /\ lots \in Nat
  BY DEF IInv, OtherTypes
<1>2. UNCHANGED read \/ \E n \in read..lots : read' = n
  BY DEF ReadAndBurn
<1> QED
  BY <1>1, <1>2

\* Where a visit ends, and what comes after.
LEMMA OnwardFrame ==
  ASSUME IInv, PlaceFits, NEW after, Onward(after), phase \in {"rounds", "sweep"}, UNCHANGED broke
  PROVE  PlaceFits' /\ (AfterSettling' => AfterSettling)
<1>1. pass \in Nat /\ Rounds \in Nat
  <2>1. Rounds \in Nat /\ Sweeps \in Nat
    BY DeliveryAssumption
  <2>2. Max({Rounds, Sweeps}) \in Nat
    <3>1. Rounds \in Int /\ Sweeps \in Int
      BY <2>1
    <3>2. Max({Rounds, Sweeps}) \in {Rounds, Sweeps}
      BY <3>1, OfTwo
    <3> QED
      BY <2>1, <3>2
  <2>3. pass \in 1..Max({Rounds, Sweeps})
    BY DEF IInv, OtherTypes
  <2> QED
    BY <2>1, <2>2, <2>3
<1>2. pc' = "waiting" /\ skip' = {}
  BY DEF Onward, ClearPass
<1>3. CASE phase = "rounds"
  <2>1. pass <= Rounds
    BY <1>3 DEF PlaceFits
  <2>2. CASE pass < Rounds
    <3>1. phase' = "rounds" /\ pass' = pass + 1
      <4>1. pass # Rounds
        BY <1>1, <2>2
      <4> QED
        BY <1>3, <2>2, <4>1 DEF Onward
    <3>2. pass' <= Rounds
      BY <1>1, <2>2, <3>1
    <3> QED
      BY <1>2, <3>1, <3>2 DEF PlaceFits, AfterSettling
  <2>3. CASE pass = Rounds
    <3>1. phase' = "settle"
      <4>1. ~(pass < Rounds)
        BY <1>1, <2>3
      <4> QED
        BY <1>3, <2>3, <4>1 DEF Onward
    <3> QED
      BY <1>2, <3>1 DEF PlaceFits, AfterSettling
  <2> QED
    BY <1>1, <2>1, <2>2, <2>3
<1>4. CASE phase = "sweep"
  <2>1. phase' \in {"sweep", "done"}
    BY <1>4 DEF Onward
  <2> QED
    BY <1>2, <1>4, <2>1 DEF PlaceFits, AfterSettling
<1> QED
  BY <1>3, <1>4

\* A step within a place.
LEMMA PlaceStays ==
  ASSUME PlaceFits, UNCHANGED <<phase, pass, pc, broke>>,
         pc = "waiting" => UNCHANGED skip, pc = "checking" => UNCHANGED <<due, sends>>,
         pc = "settling" => UNCHANGED <<due, skip, sends>>
  PROVE  PlaceFits' /\ (AfterSettling' => AfterSettling)
BY DEF PlaceFits, AfterSettling

\* A purchase, and what becomes of a transfer on the chain.
LEMMA ChainSettles ==
  ASSUME IInv, IInv', SettleInv, Buy \/ Chain \/ UNCHANGED vars
  PROVE  SettleInv'
<1>1. UNCHANGED <<burn, sends, settledPot, leftQueued, read, phase, pass, pc, broke, due, skip>>
  BY DEF Buy, Chain, Decide, vars, startVars, passVars, histVars
<1>2. PlaceFits' /\ (AfterSettling' => AfterSettling)
  BY <1>1, PlaceStays DEF SettleInv
<1>3. read <= read'
  BY <1>1, ReadGrows
<1> QED
  BY <1>1, <1>2, <1>3, SettleIdle

\* A visit begins.
LEMMA StartVisitSettles ==
  ASSUME IInv, IInv', SettleInv, StartVisit
  PROVE  SettleInv'
<1>1. /\ UNCHANGED <<burn, sends, settledPot, leftQueued, broke>> /\ ReadAndBurn
      /\ phase \in {"rounds", "sweep"} /\ pc = "waiting"
  BY DEF StartVisit, startVars, histVars
<1>2. read <= read'
  BY <1>1, ReadGrows
<1>3. PlaceFits' /\ (AfterSettling' => AfterSettling)
  <2>1. CASE Onward(sends)
    BY <1>1, <2>1, OnwardFrame DEF SettleInv
  <2>2. CASE pc' = "checking" /\ due' = DueNow /\ UNCHANGED <<phase, pass>>
    <3>1. \A i \in due' : sends'[i].status = "pending"
      BY <1>1, <2>2 DEF DueNow, With
    <3> QED
      BY <1>1, <2>2, <3>1 DEF SettleInv, PlaceFits, AfterSettling
  <2> QED
    BY <2>1, <2>2 DEF StartVisit
<1> QED
  BY <1>1, <1>2, <1>3, SettleIdle

\* A visit ends.
LEMMA EndVisitSettles ==
  ASSUME IInv, IInv', SettleInv, EndVisit
  PROVE  SettleInv'
<1>1. /\ UNCHANGED <<burn, sends, settledPot, leftQueued, broke, read>> /\ Onward(sends)
      /\ pc = "sending"
  BY DEF EndVisit, startVars, histVars
<1>2. phase \in {"rounds", "sweep"}
  BY <1>1 DEF SettleInv, PlaceFits
<1>3. PlaceFits' /\ (AfterSettling' => AfterSettling)
  BY <1>1, <1>2, OnwardFrame DEF SettleInv
<1>4. read <= read'
  BY <1>1, ReadGrows
<1> QED
  BY <1>1, <1>3, <1>4, SettleIdle

\* An account that cannot be read breaks the round off.
LEMMA AtaUnreadableSettles ==
  ASSUME IInv, IInv', SettleInv, AtaUnreadable
  PROVE  SettleInv'
<1>1. /\ UNCHANGED <<burn, sends>> /\ broke' = TRUE /\ pc' = "waiting" /\ skip' = {} /\ phase' = "done"
  BY DEF AtaUnreadable, startVars, ClearPass
<1>2. PlaceFits' /\ ~AfterSettling'
  BY <1>1 DEF PlaceFits, AfterSettling
<1>3. DOMAIN sends' = DOMAIN sends /\ \A i \in DOMAIN sends : sends'[i].wallet = sends[i].wallet
  BY <1>1
<1> QED
  BY <1>1, <1>2, <1>3, SettleOff DEF SettleInv

\* The process dies.
LEMMA CrashSettles ==
  ASSUME IInv, IInv', SettleInv, Crash
  PROVE  SettleInv'
<1>1. /\ UNCHANGED burn /\ pc' = "waiting" /\ skip' = {} /\ phase' = "rounds" /\ pass' = 1
      /\ sends' = [i \in Ids |-> Resumed(sends[i])]
  BY DEF Crash, startVars, ClearPass
<1>2. PlaceFits' /\ ~AfterSettling'
  <2>1. 1 <= Rounds
    BY DeliveryAssumption
  <2> QED
    BY <1>1, <2>1 DEF PlaceFits, AfterSettling
<1>3. DOMAIN sends' = DOMAIN sends /\ \A i \in DOMAIN sends : sends'[i].wallet = sends[i].wallet
  <2>1. \A i \in DOMAIN sends : sends[i] \in RecordType(Len(txs))
    BY Typed DEF IInv
  <2>2. ASSUME NEW i \in DOMAIN sends PROVE sends'[i].wallet = sends[i].wallet
    <3> DEFINE x == sends[i]
    <3>1. x \in RecordType(Len(txs)) /\ sends'[i] = IF x.status = "in_progress"
                                                    THEN [x EXCEPT !.status = "pending"] ELSE x
      BY <1>1, <2>1 DEF Resumed, Ids
    <3> HIDE DEF x
    <3>2. [x EXCEPT !.status = "pending"].wallet = x.wallet
      BY <3>1 DEF RecordType
    <3> QED
      BY <3>1, <3>2 DEF x
  <2>3. DOMAIN sends' = DOMAIN sends
    BY <1>1 DEF Ids
  <2> QED
    BY <2>2, <2>3
<1> QED
  BY <1>1, <1>2, <1>3, SettleOff DEF SettleInv

\* The settlement begins.
LEMMA SettleStartSettles ==
  ASSUME IInv, IInv', SettleInv, SettleStart
  PROVE  SettleInv'
<1>1. /\ UNCHANGED <<burn, sends, phase, skip>> /\ phase = "settle" /\ pc = "waiting" /\ pc' = "settling"
      /\ due' = {i \in With("abandoned") : sends[i].tx # 0}
  BY DEF SettleStart, startVars
<1>2. skip' = {}
  BY <1>1 DEF SettleInv, PlaceFits
<1>3. \A i \in due' : sends'[i].status = "abandoned"
  BY <1>1 DEF With
<1>4. PlaceFits' /\ ~AfterSettling'
  <2>1. due' \cap skip' = {}
    BY <1>2
  <2> QED
    BY <1>1, <1>2, <1>3, <2>1 DEF PlaceFits, AfterSettling
<1>5. DOMAIN sends' = DOMAIN sends /\ \A i \in DOMAIN sends : sends'[i].wallet = sends[i].wallet
  BY <1>1
<1> QED
  BY <1>1, <1>4, <1>5, SettleOff DEF SettleInv

\* The settlement asks about a send that was given up.
LEMMA SettleAbandonedSettles ==
  ASSUME IInv, IInv', SettleInv, NEW i \in Ids, NEW verdict, SettleAbandoned(i, verdict)
  PROVE  SettleInv'
<1>1. /\ UNCHANGED <<burn, phase, pc>> /\ pc = "settling" /\ due' = due \ {i} /\ i \in due
      /\ skip' = IF verdict = "unknown" THEN skip \cup {i} ELSE skip
      /\ sends' = IF verdict = "landed" THEN [sends EXCEPT ![i] = Close(@)] ELSE sends
  BY DEF SettleAbandoned, startVars
<1>2. phase = "settle" /\ due \cap skip = {} /\ \A j \in due \cup skip : sends[j].status = "abandoned"
  BY <1>1 DEF SettleInv, PlaceFits
<1>3. sends[i] \in RecordType(Len(txs)) /\ due \subseteq Ids /\ skip \subseteq Ids
  BY Typed DEF IInv, OtherTypes, Ids
<1>4. /\ DOMAIN sends' = DOMAIN sends /\ \A j \in DOMAIN sends : j # i => sends'[j] = sends[j]
      /\ sends'[i] = IF verdict = "landed" THEN Close(sends[i]) ELSE sends[i]
  BY <1>1 DEF Ids
<1>5. Close(sends[i]).wallet = sends[i].wallet
  <2> DEFINE x == sends[i]
  <2> HIDE DEF x
  <2>1. x \in RecordType(Len(txs)) => Close(x).wallet = x.wallet
    BY DEF RecordType, Close
  <2> QED
    BY <1>3, <2>1 DEF x
<1>6. DOMAIN sends' = DOMAIN sends /\ \A j \in DOMAIN sends : sends'[j].wallet = sends[j].wallet
  BY <1>4, <1>5
<1>7. \A j \in due' \cup skip' : sends'[j].status = "abandoned"
  <2> SUFFICES ASSUME NEW j \in due' \cup skip' PROVE sends'[j].status = "abandoned"
    OBVIOUS
  <2>1. CASE j # i
    <3>1. j \in due \cup skip /\ j \in DOMAIN sends
      BY <1>1, <1>3, <2>1 DEF Ids
    <3> QED
      BY <1>2, <1>4, <2>1, <3>1
  <2>2. CASE j = i
    <3>1. verdict # "landed"
      BY <1>1, <1>2, <2>2
    <3> QED
      BY <1>1, <1>2, <2>2, <3>1
  <2> QED
    BY <2>1, <2>2
<1>8. PlaceFits' /\ ~AfterSettling'
  <2>1. due' \cap skip' = {}
    BY <1>1, <1>2
  <2> QED
    BY <1>1, <1>2, <1>7, <2>1 DEF PlaceFits, AfterSettling
<1> QED
  BY <1>1, <1>6, <1>8, SettleOff DEF SettleInv

\* A step of a batch.
LEMMA BatchSettles ==
  ASSUME IInv, IInv', SettleInv, NEW b \in DOMAIN work,
         UNCHANGED <<burn, read, phase, pass, pc, due, skip, broke, settledPot, leftQueued>>,
         DOMAIN sends' = DOMAIN sends, \A i \in DOMAIN sends : Turns(sends[i], sends'[i])
  PROVE  SettleInv'
<1>1. pc = "sending"
  <2>1. work # <<>>
    OBVIOUS
  <2> QED
    BY <2>1 DEF IInv, VisitFits
<1>2. PlaceFits' /\ (AfterSettling' => AfterSettling)
  BY <1>1, PlaceStays DEF SettleInv
<1>3. read <= read'
  BY ReadGrows
<1> QED
  BY <1>2, <1>3, SettleStays DEF SettleInv

\* A transfer is signed.
LEMMA SignSettles ==
  ASSUME IInv, IInv', SettleInv, NEW b \in DOMAIN work, Sign(b)
  PROVE  SettleInv'
<1> DEFINE x == work[b]
           H == ToSet(x.ids)
<1>1. /\ UNCHANGED <<burn, read, phase, pass, pc, due, skip, broke, settledPot, leftQueued>>
      /\ x.at = "building"
  BY DEF Sign, startVars, histVars
<1>2. sends' = Holding(sends, txs, H)
  BY DEF Sign, Holding, InHand, Change, Ids
<1>3. FilesTyped(sends, txs) /\ WorkFits(work, sends, txs)
  BY DEF IInv
<1>4. x \in BatchType /\ BatchFits(x, sends, txs)
  BY <1>3, BatchOf
<1> HIDE DEF x, H
<1>5. \A i \in H : sends[i].status = "in_progress"
  BY <1>1, <1>4, InHandMarked DEF H
<1>6. DOMAIN sends' = DOMAIN sends
      /\ \A i \in DOMAIN sends : sends'[i] = IF i \in H THEN [sends[i] EXCEPT !.tx = Len(txs) + 1] ELSE sends[i]
  BY <1>2 DEF Holding
<1>7. \A i \in DOMAIN sends : sends[i] \in RecordType(Len(txs))
  BY <1>3, Typed
<1>8. ASSUME NEW i \in DOMAIN sends PROVE Turns(sends[i], sends'[i])
  <2> DEFINE r == sends[i]
             n == Len(txs) + 1
             y == [r EXCEPT !.tx = n]
  <2>1. r \in RecordType(Len(txs)) /\ sends'[i] = IF i \in H THEN y ELSE r
    BY <1>6, <1>7
  <2>2. i \in H => r.status = "in_progress"
    BY <1>5
  <2> HIDE DEF r, n
  <2>3. y.status = r.status /\ y.wallet = r.wallet /\ y.amount = r.amount
    BY <2>1 DEF RecordType
  <2> HIDE DEF y
  <2>4. r.status = "in_progress" => Turns(r, y)
    BY <2>3 DEF Turns, OnFile, Counted
  <2> QED
    BY <2>1, <2>2, <2>4, TurnsSame DEF r
<1> QED
  BY <1>1, <1>6, <1>8, BatchSettles

\* What the catch block makes of a send stays counted, or goes on file.
LEMMA UndoneTurns ==
  ASSUME NEW n, NEW x \in RecordType(n), x.status = "in_progress", NEW error, NEW halving \in BOOLEAN
  PROVE  Turns(x, Undone(x, error, halving))
<1> DEFINE y == [x EXCEPT !.tx = 0]
           a == Abandoned(x)
           q == QueuedAgain(x)
<1>1. y.status = "in_progress" /\ y.wallet = x.wallet /\ y.amount = x.amount
  BY DEF RecordType
<1>2. a.status = "abandoned" /\ a.wallet = x.wallet /\ a.amount = x.amount
  BY DEF RecordType, Abandoned
<1>3. q.status = "pending" /\ q.wallet = x.wallet /\ q.amount = x.amount
  BY DEF RecordType, QueuedAgain
<1>4. Undone(x, error, halving) \in {y, a, q}
  <2> HIDE DEF y, a, q
  <2>1. \/ Undone(x, error, halving) = y \/ Undone(x, error, halving) = a
        \/ Undone(x, error, halving) = q
    BY DEF Undone, y, a, q
  <2> QED
    BY <2>1
<1> HIDE DEF y, a, q
<1>5. Turns(x, y)
  BY <1>1 DEF Turns, OnFile, Counted
<1>6. Turns(x, a)
  BY <1>2 DEF Turns, OnFile, Counted
<1>7. Turns(x, q)
  BY <1>3 DEF Turns, OnFile, Counted
<1> QED
  BY <1>4, <1>5, <1>6, <1>7

\* The catch block.
LEMMA FailedSettles ==
  ASSUME IInv, IInv', SettleInv, NEW b \in DOMAIN work, NEW error, Failed(b, error), work[b].at # "over",
         UNCHANGED <<burn, read, phase, pass, pc, due, skip, broke, settledPot, leftQueued>>
  PROVE  SettleInv'
<1> DEFINE x == work[b]
           H == ToSet(x.ids)
<1>1. sends' = UndoneIn(sends, x, error)
  BY FailedIs
<1>2. FilesTyped(sends, txs) /\ WorkFits(work, sends, txs)
  BY DEF IInv
<1>3. x \in BatchType /\ BatchFits(x, sends, txs)
  BY <1>2, BatchOf
<1>4. x.at # "over"
  OBVIOUS
<1> HIDE DEF x, H
<1>5. \A i \in H : sends[i].status = "in_progress"
  BY <1>3, <1>4, InHandMarked DEF H
<1>6. DOMAIN sends' = DOMAIN sends
      /\ \A i \in DOMAIN sends :
           sends'[i] = IF i \in H THEN Undone(sends[i], error, Halving(x, error)) ELSE sends[i]
  BY <1>1 DEF UndoneIn, H
<1>7. \A i \in DOMAIN sends : sends[i] \in RecordType(Len(txs))
  BY <1>2, Typed
<1>8. Halving(x, error) \in BOOLEAN
  BY DEF Halving
<1>9. ASSUME NEW i \in DOMAIN sends PROVE Turns(sends[i], sends'[i])
  <2>1. CASE i \in H
    <3>1. sends'[i] = Undone(sends[i], error, Halving(x, error))
      BY <1>6, <2>1
    <3>2. sends[i] \in RecordType(Len(txs)) /\ sends[i].status = "in_progress"
      BY <1>5, <1>7, <2>1
    <3>3. Turns(sends[i], Undone(sends[i], error, Halving(x, error)))
      BY <1>8, <3>2, UndoneTurns
    <3> QED
      BY <3>1, <3>3
  <2>2. CASE i \notin H
    <3>1. sends'[i] = sends[i]
      BY <1>6, <2>2
    <3> QED
      BY <3>1, TurnsSame
  <2> QED
    BY <2>1, <2>2
<1> QED
  BY <1>6, <1>9, BatchSettles

\* The transfer cannot be built, or is not seen to land.
LEMMA UnsentSettles ==
  ASSUME IInv, IInv', SettleInv, NEW b \in DOMAIN work, NEW error \in Errors,
         BuildFails(b, error) \/ NotConfirmed(b, error)
  PROVE  SettleInv'
<1>1. /\ UNCHANGED <<burn, read, phase, pass, pc, due, skip, broke, settledPot, leftQueued>>
      /\ work[b].at # "over" /\ Failed(b, error)
  BY DEF BuildFails, NotConfirmed, startVars, histVars
<1> QED
  BY <1>1, FailedSettles

\* The node takes the transfer, or refuses it.
LEMMA SendRawSettles ==
  ASSUME IInv, IInv', SettleInv, NEW b \in DOMAIN work, SendRaw(b)
  PROVE  SettleInv'
<1>1. /\ UNCHANGED <<burn, read, phase, pass, pc, due, skip, broke, settledPot, leftQueued>>
      /\ work[b].at # "over"
  BY DEF SendRaw, startVars, histVars
<1>2. \/ sends' = sends
      \/ \E e \in Errors : Failed(b, e)
  BY DEF SendRaw, Errors
<1>3. CASE sends' = sends
  <2>1. DOMAIN sends' = DOMAIN sends /\ \A i \in DOMAIN sends : Turns(sends[i], sends'[i])
    BY <1>3, TurnsSame
  <2> QED
    BY <1>1, <2>1, BatchSettles
<1>4. ASSUME NEW e \in Errors, Failed(b, e) PROVE SettleInv'
  BY <1>1, <1>4, FailedSettles
<1> QED
  BY <1>2, <1>3, <1>4

\* The transfer is seen to have landed.
LEMMA ConfirmedSettles ==
  ASSUME IInv, IInv', SettleInv, NEW b \in DOMAIN work, Confirmed(b)
  PROVE  SettleInv'
<1> DEFINE x == work[b]
           H == ToSet(x.ids)
           Done(r) == [Close(r) EXCEPT !.attempts = @ + 1]
<1>1. /\ UNCHANGED <<burn, read, phase, pass, pc, due, skip, broke, settledPot, leftQueued>>
      /\ x.at # "over"
  BY DEF Confirmed, startVars, histVars
<1>2. FilesTyped(sends, txs) /\ WorkFits(work, sends, txs)
  BY DEF IInv
<1>3. sends' = [i \in DOMAIN sends |-> IF i \in H THEN Done(sends[i]) ELSE sends[i]]
  BY DEF Confirmed, Change, InHand, Ids
<1>4. x \in BatchType /\ BatchFits(x, sends, txs)
  BY <1>2, BatchOf
<1> HIDE DEF H, x
<1>5. \A i \in H : sends[i].status = "in_progress"
  BY <1>1, <1>4, InHandMarked DEF H
<1>6. \A i \in DOMAIN sends : sends[i] \in RecordType(Len(txs))
  BY <1>2, Typed
<1>7. DOMAIN sends' = DOMAIN sends
      /\ \A i \in DOMAIN sends : sends'[i] = IF i \in H THEN Done(sends[i]) ELSE sends[i]
  BY <1>3
<1>8. ASSUME NEW i \in DOMAIN sends PROVE Turns(sends[i], sends'[i])
  <2> DEFINE r == sends[i]
             y == Done(r)
  <2>1. r \in RecordType(Len(txs)) /\ sends'[i] = IF i \in H THEN y ELSE r
    BY <1>6, <1>7
  <2>2. i \in H => r.status = "in_progress"
    BY <1>5
  <2> HIDE DEF r
  <2>3. y = [[r EXCEPT !.status = "completed", !.tx = 0] EXCEPT !.attempts = @ + 1]
    BY DEF Close
  <2>4. y.status = "completed" /\ y.amount = r.amount /\ y.wallet = r.wallet
    BY <2>1, <2>3 DEF RecordType
  <2> HIDE DEF y, Done
  <2>5. r.status = "in_progress" => Turns(r, y)
    BY <2>4 DEF Turns, OnFile, Counted
  <2> QED
    BY <2>1, <2>2, <2>5, TurnsSame DEF r
<1> QED
  BY <1>1, <1>7, <1>8, BatchSettles

\* A due send's signature is asked about.
LEMMA CheckPendingSendSettles ==
  ASSUME IInv, IInv', SettleInv, NEW i \in Ids, NEW verdict \in AnyVerdict,
         CheckPendingSend(i, verdict)
  PROVE  SettleInv'
<1>1. UNCHANGED <<burn, read, phase, pass, pc, due, broke, settledPot, leftQueued>> /\ pc = "checking"
  BY DEF CheckPendingSend, startVars, histVars
<1>2. i \in DOMAIN sends /\ i \in due /\ sends[i].tx # 0
  BY DEF CheckPendingSend, Unasked, Ids
<1>3. /\ \A j \in due : sends[j].tx # 0 => sends[j].status = "pending"
      /\ sends[i].status = "pending"
  BY <1>1, <1>2 DEF SettleInv, PlaceFits
<1>4. sends[i] \in RecordType(Len(txs))
  BY <1>2, Typed DEF IInv
<1> DEFINE x == sends[i]
           y == Close(x)
           z == [x EXCEPT !.tx = 0]
<1>5. y.status = "completed" /\ y.tx = 0 /\ y.wallet = x.wallet /\ y.amount = x.amount
  <2> HIDE DEF x
  <2> QED
    BY <1>4 DEF RecordType, Close, x
<1>6. z.status = x.status /\ z.tx = 0 /\ z.wallet = x.wallet /\ z.amount = x.amount
  <2> HIDE DEF x
  <2> QED
    BY <1>4 DEF RecordType, x
<1>7. sends' = [sends EXCEPT ![i] = y] \/ sends' = sends \/ sends' = [sends EXCEPT ![i] = z]
  BY DEF CheckPendingSend, AnyVerdict
<1>8. x.status = "pending" /\ x.tx # 0
  BY <1>2, <1>3
<1> HIDE DEF x, y, z
<1>9. Turns(x, y) /\ Turns(x, z)
  BY <1>5, <1>6, <1>8 DEF Turns, OnFile, Counted
<1>10. DOMAIN sends' = DOMAIN sends
       /\ \A j \in DOMAIN sends : sends'[j] \in IF j = i THEN {x, y, z} ELSE {sends[j]}
  BY <1>2, <1>7 DEF x
<1>11. \A j \in DOMAIN sends : Turns(sends[j], sends'[j])
  <2> SUFFICES ASSUME NEW j \in DOMAIN sends PROVE Turns(sends[j], sends'[j])
    OBVIOUS
  <2>1. CASE j = i
    BY <1>9, <1>10, <2>1, TurnsSame DEF x
  <2>2. CASE j # i
    BY <1>10, <2>2, TurnsSame
  <2> QED
    BY <2>1, <2>2
<1>12. \A j \in due : sends'[j].tx # 0 => sends'[j].status = "pending"
  <2> SUFFICES ASSUME NEW j \in due, sends'[j].tx # 0 PROVE sends'[j].status = "pending"
    OBVIOUS
  <2>1. j \in DOMAIN sends
    BY DEF IInv, OtherTypes, Ids
  <2>2. CASE j = i
    BY <1>5, <1>6, <1>8, <1>10, <2>1, <2>2
  <2>3. CASE j # i
    BY <1>3, <1>10, <2>1, <2>3
  <2> QED
    BY <2>2, <2>3
<1>13. PlaceFits' /\ (AfterSettling' => AfterSettling)
  BY <1>1, <1>12 DEF SettleInv, PlaceFits, AfterSettling
<1>14. read <= read'
  BY <1>1, ReadGrows
<1> QED
  BY <1>1, <1>10, <1>11, <1>13, <1>14, SettleStays DEF SettleInv

\* The rules for missing accounts.
LEMMA CheckAtasSettles ==
  ASSUME IInv, IInv', SettleInv, NEW missing, CheckAtas(missing)
  PROVE  SettleInv'
<1> DEFINE gone     == {i \in Sure : sends[i].wallet \in missing}
           blocked  == {i \in gone : Bet[sends[i].wallet] < 5}
<1>1. UNCHANGED <<burn, read, phase, pass, broke, settledPot, leftQueued>> /\ pc = "checking"
      /\ pc' = "sharing"
  BY DEF CheckAtas, startVars, histVars
<1>2. sends' = [i \in Ids |-> IF i \in blocked THEN [sends[i] EXCEPT !.status = "ata_mismatch"]
                              ELSE sends[i]]
  BY DEF CheckAtas
<1>3. /\ DOMAIN sends' = DOMAIN sends
      /\ \A i \in DOMAIN sends :
           sends'[i] = IF i \in blocked THEN [sends[i] EXCEPT !.status = "ata_mismatch"] ELSE sends[i]
  BY <1>2 DEF Ids
<1> HIDE DEF blocked, gone
<1>4. ASSUME NEW i \in DOMAIN sends PROVE Turns(sends[i], sends'[i])
  <2> DEFINE x == sends[i]
             y == [x EXCEPT !.status = "ata_mismatch"]
  <2>1. x \in RecordType(Len(txs)) /\ sends'[i] \in {x, y}
    BY <1>3, Typed DEF IInv
  <2> HIDE DEF x
  <2>2. y.status = "ata_mismatch" /\ y.wallet = x.wallet /\ y.amount = x.amount
    BY <2>1 DEF RecordType
  <2> HIDE DEF y
  <2>3. Turns(x, y)
    BY <2>2 DEF Turns, OnFile
  <2> QED
    BY <2>1, <2>3, TurnsSame DEF x
<1>5. PlaceFits' /\ (AfterSettling' => AfterSettling)
  BY <1>1 DEF SettleInv, PlaceFits, AfterSettling
<1>6. read <= read'
  BY <1>1, ReadGrows
<1> QED
  BY <1>1, <1>3, <1>4, <1>5, <1>6, SettleStays DEF SettleInv

\* A finite set of numbers has a least one.
LEMMA LeastIsOne ==
  ASSUME NEW S \in SUBSET Nat, IsFiniteSet(S), S # {}
  PROVE  \E x \in S : \A y \in S : x <= y
<1> DEFINE P == {T \in SUBSET S : T # {} => \E x \in T : \A y \in T : x <= y}
<1>1. ASSUME NEW T \in SUBSET S, \A U \in SUBSET T : U # T => U \in P PROVE T \in P
  <2> SUFFICES ASSUME NEW c \in T PROVE \E x \in T : \A y \in T : x <= y
    OBVIOUS
  <2> DEFINE U == T \ {c}
  <2>0. U \in SUBSET T /\ U # T
    OBVIOUS
  <2>1. U \in P /\ c \in Nat /\ T \subseteq Nat /\ T = U \cup {c}
    <3>1. U \in P
      <4> HIDE DEF U, P
      <4> QED
        BY <1>1, <2>0
    <3>2. c \in Nat /\ T \subseteq Nat /\ T = U \cup {c}
      OBVIOUS
    <3> QED
      BY <3>1, <3>2
  <2> HIDE DEF U
  <2>2. CASE U = {}
    <3>1. \A y \in T : y = c /\ c <= y
      BY <2>1, <2>2
    <3> QED
      BY <3>1
  <2>3. CASE U # {}
    <3>1. PICK x \in U : \A y \in U : x <= y
      BY <2>1, <2>3
    <3>2. x \in Nat /\ U \subseteq Nat
      BY <2>1
    <3>3. CASE x <= c
      BY <2>1, <3>1, <3>3
    <3>4. CASE ~(x <= c)
      <4>1. \A y \in U : c <= y
        <5> SUFFICES ASSUME NEW y \in U PROVE c <= y
          OBVIOUS
        <5>1. x <= y /\ y \in Nat
          BY <3>1, <3>2
        <5> QED
          BY <2>1, <3>2, <3>4, <5>1
      <4>2. c <= c
        BY <2>1
      <4> QED
        BY <2>1, <4>1, <4>2
    <3> QED
      BY <3>3, <3>4
  <2> QED
    BY <2>2, <2>3
<1> HIDE DEF P
<1>2. SUBSET S \subseteq P
  BY <1>1, SmallerFirst
<1>3. S \in P
  BY <1>2
<1> QED
  BY <1>3 DEF P

\* What is claimed for a wallet nothing overlooked belongs to is covered.
LEMMA SharedIsCovered ==
  ASSUME NEW s, NEW t, NEW g, FilesTyped(s, t), Paid(s, t), BooksFit(s, t, g),
         NEW open \in SUBSET DOMAIN s, NEW amount, NEW r, FilesTyped(r, t),
         SharedAs(s, t, open, amount, r), NEW w, OnlyDelivered(s, t, w)
  PROVE  Claimed(r, t, w) <= Covered(r, w) /\ Claimed(r, t, w) \in Nat /\ Covered(r, w) \in Nat
<1> DEFINE R == RecordsOf(r, w)
<1>1. /\ R \in SUBSET DOMAIN r /\ IsFiniteSet(R) /\ Claimed(r, t, w) \in Nat
      /\ \A i \in DOMAIN r :
           /\ r[i].amount \in Nat
           /\ Claims(r, t)[i] = IF r[i].status \in {"completed", "in_progress"} \/ Borne(t, i)
                                THEN r[i].amount ELSE 0
  BY Booked
<1>2. /\ \A i \in R : /\ Weighed(r)[i] \in Nat
                      /\ Weighed(r)[i] = IF Counted(r[i]) THEN r[i].amount ELSE 0
      /\ Covered(r, w) \in Nat
  BY CoveredTypes
<1>3. DOMAIN r = DOMAIN s /\ R = RecordsOf(s, w)
  BY DEF SharedAs, RecordsOf
<1>4. \A i \in open : Claims(r, t)[i] = amount[i] /\ ~Borne(t, i)
  BY SharedClaims
<1>5. \A i \in R : Borne(t, i) => s[i].status = "completed"
  BY <1>3 DEF OnlyDelivered
<1>6. \A i \in R \ open : r[i] = s[i]
  BY <1>1, <1>3 DEF SharedAs
<1>7. \A i \in R : Claims(r, t)[i] \in Nat /\ Claims(r, t)[i] <= Weighed(r)[i]
  <2> SUFFICES ASSUME NEW i \in R PROVE Claims(r, t)[i] \in Nat /\ Claims(r, t)[i] <= Weighed(r)[i]
    OBVIOUS
  <2>1. i \in DOMAIN r /\ r[i].amount \in Nat
    BY <1>1
  <2>2. Borne(t, i) => r[i].status = "completed"
    BY <1>4, <1>5, <1>6
  <2>3. CASE r[i].status \in {"completed", "in_progress"}
    <3>1. Claims(r, t)[i] = r[i].amount /\ Weighed(r)[i] = r[i].amount
      BY <1>1, <1>2, <2>1, <2>3 DEF Counted
    <3> QED
      BY <2>1, <3>1
  <2>4. CASE r[i].status \notin {"completed", "in_progress"}
    <3>1. Claims(r, t)[i] = 0 /\ Weighed(r)[i] \in Nat
      BY <1>1, <1>2, <2>1, <2>2, <2>4
    <3> QED
      BY <3>1
  <2> QED
    BY <2>3, <2>4
<1> HIDE DEF R
<1>8. \A i \in R : /\ Claims(r, t)[i] \in Nat /\ Weighed(r)[i] \in Nat
                   /\ Claims(r, t)[i] <= Weighed(r)[i]
  BY <1>2, <1>7
<1>9. SumFunctionOnSet(Claims(r, t), R) <= SumFunctionOnSet(Weighed(r), R)
  BY <1>1, <1>8, SumOfLess
<1> QED
  BY <1>1, <1>2, <1>9 DEF Claimed, Covered, R

\* One who has a claim to its share of what is read is served.
LEMMA ShareServes ==
  ASSUME IInv, NEW pot \in Nat, pot <= read * Lot, NEW w \in Wallets, NEW r,
         Target(read * Lot, w) <= Covered(r, w), Covered(r, w) \in Nat
  PROVE  Served(r, w, pot)
<1>1. WeightsFit(burn) /\ read * Lot \in Nat
  BY Counts
<1>2. Target(pot, w) \in Nat /\ Target(read * Lot, w) \in Nat
      /\ Target(pot, w) <= Target(read * Lot, w)
  BY <1>1, OwedGrows, OwedTypes DEF Target
<1>3. Max({1, MinTopUp}) \in Nat /\ Max({1, MinTopUp}) >= 1
  BY SmallestTopUp
<1> DEFINE a == Target(pot, w)
           b == Target(read * Lot, w)
           c == Covered(r, w)
           m == Max({1, MinTopUp})
<1>4. a \in Nat /\ b \in Nat /\ c \in Nat /\ m \in Nat /\ a <= b /\ b <= c /\ m >= 1
  BY <1>2, <1>3
<1> HIDE DEF a, b, c, m
<1>5. a < m + c
  BY <1>4
<1> QED
  BY <1>5 DEF a, c, m, Served

\* A visit shares out.
LEMMA ShareOutSettles ==
  ASSUME IInv, IInv', BookInv, Within, NothingOverlooked, SettleInv,
         NEW balance \in {0, keeper}, ShareOut(balance)
  PROVE  SettleInv'
<1>1. /\ UNCHANGED <<burn, read, broke, settledPot, leftQueued, txs>> /\ pc = "sharing"
      /\ phase \in {"rounds", "sweep"}
  BY DEF ShareOut, startVars, chainVars, SettleInv, PlaceFits
<1>2. CASE balance <= 0
  <2>1. Onward(sends) /\ sends' = sends
    BY <1>2 DEF ShareOut
  <2>2. PlaceFits' /\ (AfterSettling' => AfterSettling)
    BY <1>1, <2>1, OnwardFrame DEF SettleInv
  <2>3. read <= read'
    BY <1>1, ReadGrows
  <2> QED
    BY <1>1, <2>1, <2>2, <2>3, SettleIdle
<1>3. CASE ~(balance <= 0)
  <2>1. PICK open, target, amount :
           /\ open = {i \in due : sends[i].status = "pending"} /\ open \in SUBSET DOMAIN sends
           /\ target = [w \in Wallets |-> Target(Pot(balance), w)]
           /\ amount = DeficitAmounts(sends, open, balance, Sent, target)
           /\ SharedAs(sends, txs, open, amount, sends') /\ FilesTyped(sends', txs)
           /\ MarkedHeld(sends', work')
    BY <1>3, SharesOut
  <2>2. balance = keeper
    BY <1>3
  <2>3. PlaceFits' /\ (AfterSettling' => AfterSettling)
    <3>1. ASSUME NEW after, Onward(after) PROVE PlaceFits' /\ (AfterSettling' => AfterSettling)
      BY <1>1, <3>1, OnwardFrame DEF SettleInv
    <3>2. CASE pc' = "sending" /\ UNCHANGED <<phase, pass>>
      BY <1>1, <3>2 DEF SettleInv, PlaceFits, AfterSettling
    <3>3. (pc' = "sending" /\ UNCHANGED <<phase, pass>>) \/ \E after : Onward(after)
      BY <1>3 DEF ShareOut
    <3> QED
      BY <3>1, <3>2, <3>3
  <2>4. /\ DOMAIN sends' = DOMAIN sends
        /\ \A i \in DOMAIN sends : sends'[i].wallet = sends[i].wallet
        /\ \A i \in DOMAIN sends \ open : sends'[i] = sends[i]
    BY <2>1 DEF SharedAs
  <2>5. EverybodyListed'
    <3>1. \A w : RecordsOf(sends', w) = RecordsOf(sends, w)
      BY <2>4 DEF RecordsOf
    <3> QED
      BY <1>1, <3>1 DEF EverybodyListed, SettleInv
  <2>6. SettledFits'
    <3> SUFFICES ASSUME Exact', AfterSettling'
                 PROVE  /\ settledPot \in Nat /\ settledPot <= read * Lot
                        /\ \A w \in Wallets \ leftQueued : Served(sends, w, settledPot)'
      BY <1>1 DEF SettledFits
    <3>1. Exact
      BY <1>1 DEF Exact
    <3>2. /\ settledPot \in Nat /\ settledPot <= read * Lot
          /\ \A w \in Wallets \ leftQueued : Served(sends, w, settledPot)
      BY <2>3, <3>1 DEF SettleInv, SettledFits
    <3>3. FilesTyped(sends, txs) /\ Paid(sends, txs) /\ BooksFit(sends, txs, got)
      BY DEF IInv, BookInv
    <3>4. ASSUME NEW w \in WalletsOf(sends, open), w \in Wallets
          PROVE  Served(sends', w, settledPot)
      <4>1. target = [v \in Wallets |-> Target(read * Lot, v)]
        BY <2>1, <3>1 DEF Pot
      <4>2. amount = DeficitAmounts(sends, open, keeper, Sent, target)
        BY <2>1, <2>2
      <4>3. \A v \in WalletsOf(sends, open) : Claimed(sends', txs, v) = Target(read * Lot, v)
        BY <1>1, <2>1, <3>1, <4>1, <4>2, SharedWithin
      <4>4. OnlyDelivered(sends, txs, w)
        <5>1. PICK j \in open : sends[j].wallet = w
          BY DEF WalletsOf
        <5>2. j \in due /\ sends[j].status = "pending"
          BY <2>1
        <5> QED
          BY <1>1, <5>1, <5>2, ServedBare
      <4>5. Claimed(sends', txs, w) <= Covered(sends', w) /\ Covered(sends', w) \in Nat
        BY <2>1, <3>3, <4>4, SharedIsCovered
      <4>6. Target(read * Lot, w) <= Covered(sends', w)
        BY <4>3, <4>5
      <4> QED
        BY <3>2, <3>4, <4>5, <4>6, ShareServes
    <3>5. ASSUME NEW w \in Wallets \ leftQueued, w \notin WalletsOf(sends, open)
          PROVE  Served(sends', w, settledPot)
      <4>1. \A i \in RecordsOf(sends, w) : sends'[i] = sends[i]
        BY <2>4, <3>5 DEF RecordsOf, WalletsOf
      <4>2. \A i \in RecordsOf(sends, w) : Turns(sends[i], sends'[i])
        BY <4>1, TurnsSame
      <4>3. Target(settledPot, w) \in Int
        BY <3>2, OwedOfPot
      <4>4. Served(sends, w, settledPot)
        BY <3>2
      <4> QED
        BY <2>1, <2>4, <3>3, <4>2, <4>3, <4>4, ServedStays
    <3>6. \A w : Served(sends, w, settledPot)' <=> Served(sends', w, settledPot)
      BY <1>1 DEF Served, Target
    <3>7. \A w \in Wallets \ leftQueued : Served(sends', w, settledPot)
      BY <3>4, <3>5
    <3> QED
      BY <3>2, <3>6, <3>7
  <2> QED
    BY <2>3, <2>5, <2>6 DEF SettleInv
<1> QED
  BY <1>2, <1>3

\* Records that are added to the file.
LEMMA FileJoins ==
  ASSUME NEW n, NEW s \in Seq(RecordType(n)), NEW more \in Seq(RecordType(n))
  PROVE  /\ DOMAIN s \subseteq DOMAIN (s \o more) /\ \A i \in DOMAIN s : (s \o more)[i] = s[i]
         /\ \A k \in DOMAIN more : Len(s) + k \in DOMAIN (s \o more) /\ (s \o more)[Len(s) + k] = more[k]
<1> DEFINE r == s \o more
<1>1. /\ DOMAIN s = 1..Len(s) /\ Len(s) \in Nat /\ DOMAIN more = 1..Len(more) /\ Len(more) \in Nat
  BY LenProperties
<1>2. /\ r \in Seq(RecordType(n)) /\ Len(r) = Len(s) + Len(more)
      /\ \A i \in 1..(Len(s) + Len(more)) : r[i] = IF i <= Len(s) THEN s[i] ELSE more[i - Len(s)]
  BY ConcatProperties
<1>3. DOMAIN r = 1..Len(r)
  BY <1>2, LenProperties
<1> HIDE DEF r
<1>4. DOMAIN s \subseteq DOMAIN r /\ \A i \in DOMAIN s : r[i] = s[i]
  BY <1>1, <1>2, <1>3
<1>5. ASSUME NEW k \in DOMAIN more PROVE Len(s) + k \in DOMAIN r /\ r[Len(s) + k] = more[k]
  <2>1. /\ k \in Nat /\ Len(s) + k \in 1..(Len(s) + Len(more)) /\ ~(Len(s) + k <= Len(s))
        /\ (Len(s) + k) - Len(s) = k
    BY <1>1
  <2> QED
    BY <1>2, <1>3, <2>1
<1> QED
  BY <1>4, <1>5 DEF r

\* What was delivered is covered.
LEMMA SentIsCovered ==
  ASSUME NEW s, NEW t, FilesTyped(s, t), NEW r, NEW u, FilesTyped(r, u),
         DOMAIN s \subseteq DOMAIN r, \A i \in DOMAIN s : r[i] = s[i], NEW w
  PROVE  SentTo(s, w) <= Covered(r, w) /\ SentTo(s, w) \in Nat /\ Covered(r, w) \in Nat
<1> DEFINE R == RecordsOf(r, w)
           C == {i \in {j \in DOMAIN s : s[j].status = "completed"} : s[i].wallet = w}
           a == [i \in DOMAIN s |-> s[i].amount]
           f == [i \in R |-> IF i \in C THEN s[i].amount ELSE 0]
<1>1. /\ IsFiniteSet(R) /\ Covered(r, w) \in Nat
      /\ \A i \in R : /\ Weighed(r)[i] \in Nat /\ r[i].amount \in Nat
                      /\ Weighed(r)[i] = IF Counted(r[i]) THEN r[i].amount ELSE 0
  BY CoveredTypes
<1>2. C \in SUBSET R
  BY DEF RecordsOf
<1>3. \A i \in C : r[i] = s[i] /\ s[i].status = "completed" /\ a[i] = s[i].amount
  OBVIOUS
<1>4. \A i \in R : f[i] = IF i \in C THEN s[i].amount ELSE 0
  OBVIOUS
<1>5. SentTo(s, w) = SumFunctionOnSet(a, C)
  BY DEF SentTo
<1>6. Covered(r, w) = SumFunctionOnSet(Weighed(r), R)
  BY DEF Covered
<1> HIDE DEF R, C, a, f
<1>7. \A i \in R : f[i] \in Nat /\ Weighed(r)[i] \in Nat /\ f[i] <= Weighed(r)[i]
  <2> SUFFICES ASSUME NEW i \in R PROVE f[i] \in Nat /\ f[i] <= Weighed(r)[i]
    BY <1>1
  <2>1. CASE i \in C
    <3>1. Counted(r[i])
      BY <1>3, <2>1 DEF Counted
    <3>2. f[i] = r[i].amount /\ Weighed(r)[i] = r[i].amount /\ r[i].amount \in Nat
      BY <1>1, <1>3, <1>4, <2>1, <3>1
    <3> QED
      BY <3>2
  <2>2. CASE i \notin C
    <3>1. f[i] = 0 /\ Weighed(r)[i] \in Nat
      BY <1>1, <1>4, <2>2
    <3> QED
      BY <3>1
  <2> QED
    BY <2>1, <2>2
<1>8. SumFunctionOnSet(f, R) = SumFunctionOnSet(a, C) /\ SumFunctionOnSet(f, R) \in Nat
  <2>1. (\A i \in C : f[i] \in Nat /\ f[i] = a[i]) /\ \A i \in R \ C : f[i] = 0
    BY <1>2, <1>3, <1>4, <1>7
  <2> QED
    BY <1>1, <1>2, <2>1, SumOnPart
<1>9. SumFunctionOnSet(f, R) <= SumFunctionOnSet(Weighed(r), R)
  BY <1>1, <1>7, SumOfLess
<1> QED
  BY <1>1, <1>5, <1>6, <1>8, <1>9

\* A wallet's first record, if the settlement makes one more for the wallet.
ShortOf(i, pot) ==
  /\ i \in Ids /\ \A j \in Ids : j < i => sends[j].wallet # sends[i].wallet
  /\ sends[i].wallet \notin Busy
  /\ Target(pot, sends[i].wallet) - Sent[sends[i].wallet] > 0
  /\ Target(pot, sends[i].wallet) - Sent[sends[i].wallet] >= MinTopUp

\* Each wallet that is short gets one more record.
LEMMA TopUpsAdd ==
  ASSUME IInv, NEW balance \in {0, keeper}, TopUps(balance)
  PROVE  \E more \in Seq(RecordType(Len(txs))) :
           /\ sends' = sends \o more /\ Onward(sends \o more)
           /\ \A i : ShortOf(i, Pot(balance)) =>
                \E n \in DOMAIN more : /\ more[n].wallet = sends[i].wallet
                                       /\ more[n].status = "pending" /\ more[n].tx = 0
<1> DEFINE pot   == Pot(balance)
           first == {i \in Ids : \A j \in Ids : j < i => sends[j].wallet # sends[i].wallet}
           short == {i \in first :
                       LET missing == Target(pot, sends[i].wallet) - Sent[sends[i].wallet] IN
                       sends[i].wallet \notin Busy /\ missing > 0 /\ missing >= MinTopUp}
           o == InOrder(short)
           m == [n \in DOMAIN o |-> NewSend(sends[o[n]].wallet, Rounds)]
           c == Cardinality(short)
<1>1. sends' = sends \o m /\ Onward(sends \o m)
  BY DEF TopUps
<1>2. short \in SUBSET DOMAIN sends /\ \A i : ShortOf(i, pot) => i \in short
  BY DEF Ids, ShortOf
<1> HIDE DEF short
<1>3. /\ DOMAIN sends \subseteq Nat /\ IsFiniteSet(DOMAIN sends) /\ Len(txs) \in Nat
      /\ \A i \in DOMAIN sends : sends[i].wallet \in Wallets
  BY Booked, Typed DEF IInv
<1>4. short \in SUBSET Nat /\ IsFiniteSet(short)
  BY <1>2, <1>3, FS_Subset
<1>5. c \in Nat /\ o \in [1..c -> short]
  BY <1>4, InOrderNamesOnce
<1>6. \A i \in short : \E n \in 1..c : o[n] = i
  BY <1>4, InOrderNamesAll
<1> HIDE DEF o, c
<1>7. /\ m = [n \in 1..c |-> m[n]]
      /\ \A n \in 1..c : m[n] = NewSend(sends[o[n]].wallet, Rounds)
  BY <1>5
<1>8. \A n \in 1..c : sends[o[n]].wallet \in Wallets
  BY <1>2, <1>3, <1>5
<1>9. Rounds \in 1..Rounds
  BY DeliveryAssumption
<1> HIDE DEF m
<1>10. \A n \in 1..c : \E w \in Wallets, r \in 1..Rounds : m[n] = NewSend(w, r)
  BY <1>7, <1>8, <1>9
<1>11. m \in Seq(RecordType(Len(txs))) /\ DOMAIN m = 1..c
  BY <1>3, <1>5, <1>7, <1>10, NewSends
<1>12. ASSUME NEW i, ShortOf(i, pot)
       PROVE  \E n \in DOMAIN m : m[n].wallet = sends[i].wallet /\ m[n].status = "pending" /\ m[n].tx = 0
  <2>1. i \in short
    BY <1>2, <1>12
  <2>2. PICK n \in 1..c : o[n] = i
    BY <1>6, <2>1
  <2>3. m[n] = NewSend(sends[i].wallet, Rounds)
    BY <1>7, <2>2
  <2>4. m[n].wallet = sends[i].wallet /\ m[n].status = "pending" /\ m[n].tx = 0
    BY <2>3 DEF NewSend
  <2> QED
    BY <1>11, <2>2, <2>4
<1> HIDE DEF pot
<1> QED
  BY <1>1, <1>11, <1>12 DEF pot

\* Nothing is owed to who burns everything.
LEMMA NothingOwed ==
  ASSUME IInv, NEW pot \in Nat, NEW w \in Wallets, burn[w] = Bet[w] * Full
  PROVE  Target(pot, w) = 0
<1>1. WeightsFit(burn)
  BY Counts
<1> DEFINE d == DeliveryOwed(pot, w, burn)
           D == TotalBet * Full
           x == Bet[w] * Full
<1>2. /\ x \in Nat /\ D \in Nat \ {0} /\ d \in Nat /\ d * D <= pot * (x - burn[w])
  BY <1>1, OwedTypes
<1>3. x - burn[w] = 0
  <2>1. burn[w] = x
    OBVIOUS
  <2> HIDE DEF x
  <2> QED
    BY <1>2, <2>1
<1> HIDE DEF d, D, x
<1>4. d * D <= 0
  BY <1>2, <1>3
<1>5. \A p \in Nat, q \in Nat \ {0} : p * q <= 0 => p = 0
  <2> SUFFICES ASSUME NEW p \in Nat, NEW q \in Nat \ {0}, p * q <= 0, p >= 1 PROVE FALSE
    OBVIOUS
  <2>1. p * q >= q
    OBVIOUS
  <2> QED
    BY <2>1
<1>6. d = 0
  BY <1>2, <1>4, <1>5
<1> QED
  BY <1>6 DEF d, Target

\* Where the settlement ends, a wallet it did not leave to a queued send is
\* served.
LEMMA TopUpsServe ==
  ASSUME IInv, IInv', BookInv, PlaceFits, EverybodyListed, Exact,
         NEW balance \in {0, keeper}, TopUps(balance),
         NEW w \in Wallets \ leftQueued'
  PROVE  Served(sends', w, read * Lot)
<1> DEFINE pot == read * Lot
<1>1. /\ pc = "settling" /\ UNCHANGED <<burn, txs>>
      /\ leftQueued' = {sends[i].wallet : i \in {j \in With("pending") : sends[j].tx # 0}}
  BY DEF TopUps, startVars, chainVars
<1>2. Pot(balance) = pot
  BY DEF Pot
<1>3. PICK more \in Seq(RecordType(Len(txs))) :
        /\ sends' = sends \o more
        /\ \A i : ShortOf(i, Pot(balance)) =>
             \E n \in DOMAIN more : /\ more[n].wallet = sends[i].wallet
                                    /\ more[n].status = "pending" /\ more[n].tx = 0
  BY TopUpsAdd
<1>4. FilesTyped(sends, txs) /\ FilesTyped(sends', txs') /\ pot \in Nat
  BY Counts DEF IInv
<1>5. /\ DOMAIN sends \subseteq DOMAIN sends' /\ \A i \in DOMAIN sends : sends'[i] = sends[i]
      /\ \A k \in DOMAIN more : Len(sends) + k \in DOMAIN sends' /\ sends'[Len(sends) + k] = more[k]
  <2>1. sends \in Seq(RecordType(Len(txs)))
    BY <1>4 DEF FilesTyped
  <2> QED
    BY <1>3, <2>1, FileJoins
<1>6. CASE OnFileFor(sends, w)
  <2>1. PICK i \in RecordsOf(sends, w) : OnFile(sends[i])
    BY <1>6 DEF OnFileFor
  <2>2. i \in RecordsOf(sends', w) /\ OnFile(sends'[i])
    BY <1>5, <2>1 DEF RecordsOf
  <2> QED
    BY <2>2 DEF Served, OnFileFor
<1>7. CASE ~OnFileFor(sends, w)
  <2>1. ASSUME NEW i \in RecordsOf(sends, w)
        PROVE  sends[i].status \notin {"pending", "in_progress", "abandoned"} /\ i \in Ids
               /\ sends[i].wallet = w
    <3>1. i \in Ids /\ sends[i].wallet = w
      BY DEF RecordsOf, Ids
    <3>2. sends[i].status # "in_progress"
      BY <1>1, <3>1, NoneMarked
    <3>3. ~OnFile(sends[i])
      BY <1>7 DEF OnFileFor
    <3>4. sends[i].status # "pending"
      BY <1>1, <3>1, <3>3 DEF With, OnFile
    <3> QED
      BY <3>1, <3>2, <3>3, <3>4 DEF OnFile
  <2>2. w \notin Busy
    <3> SUFFICES ASSUME NEW i \in With("pending") \cup With("in_progress") \cup skip, sends[i].wallet = w
                 PROVE  FALSE
      BY DEF Busy
    <3>1. i \in RecordsOf(sends, w)
      BY DEF With, Ids, RecordsOf, IInv, OtherTypes
    <3>2. sends[i].status \in {"pending", "in_progress", "abandoned"}
      BY <1>1 DEF With, PlaceFits
    <3> QED
      BY <2>1, <3>1, <3>2
  <2>3. SentTo(sends, w) <= Covered(sends', w) /\ SentTo(sends, w) \in Nat /\ Covered(sends', w) \in Nat
    BY <1>4, <1>5, SentIsCovered
  <2>4. Sent[w] = SentTo(sends, w)
    BY SentIs
  <2>5. Target(pot, w) \in Nat
    BY <1>4, OwedOfPot
  <2>6. CASE RecordsOf(sends, w) = {}
    <3>1. Target(pot, w) = 0
      BY <1>4, <2>6, NothingOwed DEF EverybodyListed
    <3> DEFINE c == Covered(sends', w)
               m == Max({1, MinTopUp})
    <3>2. c \in Nat /\ m \in Nat /\ m >= 1
      BY <2>3, SmallestTopUp
    <3> HIDE DEF c, m
    <3>3. 0 < m + c
      BY <3>2
    <3> QED
      BY <3>1, <3>3 DEF c, m, Served
  <2>7. CASE RecordsOf(sends, w) # {}
    <3>1. RecordsOf(sends, w) \in SUBSET Nat /\ IsFiniteSet(RecordsOf(sends, w))
      <4>1. /\ RecordsOf(sends, w) \in SUBSET DOMAIN sends /\ IsFiniteSet(RecordsOf(sends, w))
            /\ DOMAIN sends \subseteq Nat
        BY <1>4, Booked
      <4> QED
        BY <4>1
    <3>2. PICK i \in RecordsOf(sends, w) : \A j \in RecordsOf(sends, w) : i <= j
      BY <2>7, <3>1, LeastIsOne
    <3>3. \A j \in Ids : j < i => sends[j].wallet # sends[i].wallet
      <4> SUFFICES ASSUME NEW j \in Ids, j < i, sends[j].wallet = sends[i].wallet PROVE FALSE
        OBVIOUS
      <4>1. j \in RecordsOf(sends, w)
        BY <2>1, <3>2 DEF RecordsOf, Ids
      <4>2. i \in Nat /\ j \in Nat /\ i <= j
        BY <3>1, <3>2, <4>1
      <4> QED
        BY <4>2
    <3>4. i \in Ids /\ sends[i].wallet = w
      BY <2>1, <3>2
    <3>5. CASE ShortOf(i, pot)
      <4>1. PICK n \in DOMAIN more : /\ more[n].wallet = w
                                     /\ more[n].status = "pending" /\ more[n].tx = 0
        BY <1>2, <1>3, <3>4, <3>5
      <4>2. Len(sends) + n \in RecordsOf(sends', w) /\ OnFile(sends'[Len(sends) + n])
        BY <1>5, <4>1 DEF RecordsOf, OnFile
      <4> QED
        BY <4>2 DEF Served, OnFileFor
    <3>6. CASE ~ShortOf(i, pot)
      <4>1. ~(Target(pot, w) - Sent[w] > 0) \/ ~(Target(pot, w) - Sent[w] >= MinTopUp)
        BY <2>2, <3>3, <3>4, <3>6 DEF ShortOf
      <4> DEFINE a == Target(pot, w)
                 s == Sent[w]
                 c == Covered(sends', w)
                 m == Max({1, MinTopUp})
      <4>2. a \in Nat /\ s \in Nat /\ c \in Nat /\ m \in Nat /\ MinTopUp \in Nat
            /\ m >= 1 /\ m >= MinTopUp /\ s <= c /\ (~(a - s > 0) \/ ~(a - s >= MinTopUp))
        BY <2>3, <2>4, <2>5, <4>1, SmallestTopUp
      <4> HIDE DEF a, s, c, m
      <4>3. a < m + c
        BY <4>2
      <4> QED
        BY <4>3 DEF a, c, m, Served
    <3> QED
      BY <3>5, <3>6
  <2> QED
    BY <2>6, <2>7
<1> QED
  BY <1>6, <1>7

\* The settlement ends.
LEMMA TopUpsSettles ==
  ASSUME IInv, IInv', BookInv, SettleInv, NEW balance \in {0, keeper}, TopUps(balance)
  PROVE  SettleInv'
<1>1. /\ UNCHANGED <<burn, read, broke>> /\ pc = "settling" /\ settledPot' = Pot(balance)
  BY DEF TopUps, startVars
<1>2. phase = "settle"
  BY <1>1 DEF SettleInv, PlaceFits
<1>3. PICK more \in Seq(RecordType(Len(txs))) : sends' = sends \o more /\ Onward(sends \o more)
  BY TopUpsAdd
<1>4. pc' = "waiting" /\ skip' = {} /\ phase' \in {"sweep", "done"}
  BY <1>2, <1>3 DEF Onward, ClearPass
<1>5. PlaceFits'
  BY <1>4 DEF PlaceFits
<1>6. EverybodyListed'
  <2>1. DOMAIN sends \subseteq DOMAIN sends' /\ \A i \in DOMAIN sends : sends'[i] = sends[i]
    <3>1. sends \in Seq(RecordType(Len(txs)))
      BY DEF IInv, FilesTyped
    <3> QED
      BY <1>3, <3>1, FileJoins
  <2>2. ASSUME NEW w \in Wallets, RecordsOf(sends, w) # {} PROVE RecordsOf(sends', w) # {}
    <3>1. PICK i : i \in RecordsOf(sends, w)
      BY <2>2
    <3>2. i \in RecordsOf(sends', w)
      BY <2>1, <3>1 DEF RecordsOf
    <3> QED
      BY <3>2
  <2> QED
    BY <1>1, <2>2 DEF EverybodyListed, SettleInv
<1>7. SettledFits'
  <2> SUFFICES ASSUME Exact'
               PROVE  /\ settledPot' \in Nat /\ settledPot' <= read * Lot
                      /\ \A w \in Wallets \ leftQueued' : Served(sends, w, settledPot)'
    BY <1>1 DEF SettledFits
  <2>1. Exact
    BY <1>1 DEF Exact
  <2>2. settledPot' = read * Lot
    BY <1>1, <2>1 DEF Pot
  <2>3. read * Lot \in Nat
    BY Counts
  <2>4. \A w \in Wallets \ leftQueued' : Served(sends', w, read * Lot)
    BY <2>1, TopUpsServe DEF SettleInv
  <2>5. \A w : Served(sends, w, settledPot)' <=> Served(sends', w, settledPot')
    BY <1>1 DEF Served, Target
  <2>6. \A w \in Wallets \ leftQueued' : Served(sends, w, settledPot)'
    BY <2>2, <2>4, <2>5
  <2>7. settledPot' \in Nat /\ settledPot' <= read * Lot
    BY <2>2, <2>3
  <2> QED
    BY <2>6, <2>7
<1> QED
  BY <1>5, <1>6, <1>7 DEF SettleInv

\* A step.
LEMMA StepSettles ==
  ASSUME IInv, IInv', BookInv, Within, NothingOverlooked, SettleInv, [Next]_vars
  PROVE  SettleInv'
<1>1. ASSUME NEW i \in Ids, NEW v \in AnyVerdict, CheckPendingSend(i, v) \/ SettleAbandoned(i, v)
      PROVE  SettleInv'
  BY <1>1, CheckPendingSendSettles, SettleAbandonedSettles
<1>2. ASSUME NEW missing, CheckAtas(missing) PROVE SettleInv'
  BY <1>2, CheckAtasSettles
<1>3. ASSUME NEW balance \in {0, keeper}, ShareOut(balance) \/ TopUps(balance) PROVE SettleInv'
  BY <1>3, ShareOutSettles, TopUpsSettles
<1>4. ASSUME NEW b \in DOMAIN work, SendBatch(b) PROVE SettleInv'
  <2>1. CASE Sign(b)
    BY <2>1, SignSettles
  <2>2. CASE SendRaw(b)
    BY <2>2, SendRawSettles
  <2>3. CASE Confirmed(b)
    BY <2>3, ConfirmedSettles
  <2>4. ASSUME NEW e \in Errors, BuildFails(b, e) \/ NotConfirmed(b, e) PROVE SettleInv'
    BY <2>4, UnsentSettles
  <2> QED
    BY <1>4, <2>1, <2>2, <2>3, <2>4 DEF SendBatch
<1>5. ASSUME Visit PROVE SettleInv'
  BY <1>1, <1>2, <1>3, <1>4, <1>5, StartVisitSettles, AtaUnreadableSettles, EndVisitSettles DEF Visit
<1>6. ASSUME Settle PROVE SettleInv'
  BY <1>1, <1>3, <1>6, SettleStartSettles DEF Settle
<1>7. Buy \/ Chain \/ UNCHANGED vars => SettleInv'
  BY ChainSettles
<1>8. Crash => SettleInv'
  BY CrashSettles
<1> QED
  BY <1>5, <1>6, <1>7, <1>8 DEF Next

\* Who does not burn everything has a parcel, and so a first record.
LEMMA FirstSendsReach ==
  ASSUME NEW weights, NEW w \in Wallets, weights[w] # Bet[w] * Full
  PROVE  \E k \in DOMAIN FirstSends(weights) : FirstSends(weights)[k].wallet = w
<1> DEFINE row == SetToSeq(Wallets)
           order == ParcelOrder(row, weights)
           first == FirstSends(weights)
           n == Cardinality(Wallets)
<1>1. n \in Nat /\ row \in [1..n -> Wallets]
  BY BackersInARow
<1>2. PICK i \in 1..n : row[i] = w
  BY BackersInARow
<1>3. first = [m \in DOMAIN order |->
                 NewSend(row[order[m][1]], ParcelsAt(row, weights, order[m][1])[order[m][2]])]
  BY DEF FirstSends, ParcelOrder, PlacesBefore, ParcelPlaces, ParcelsAt
<1> HIDE DEF row, first, n
<1>4. 1 \in DOMAIN ParcelsAt(row, weights, i) /\ 1 \in 1..Rounds
  <2>1. Rounds \in Nat \ {0} /\ Bet[w] \in Nat \ {0}
    BY SendAssumption, DeliveryAssumption
  <2> DEFINE c == SendN(Bet[w])
  <2>2. c \in Nat \ {0}
    BY <2>1, ParcelsToSend
  <2>3. ParcelsAt(row, weights, i) = AssignRounds(c, Rounds)
    BY <1>2 DEF ParcelsAt
  <2> HIDE DEF c
  <2>4. DOMAIN AssignRounds(c, Rounds) \in {1..Rounds, 1..c}
    BY DEF AssignRounds
  <2>5. 1 \in 1..Rounds /\ 1 \in 1..c
    BY <2>1, <2>2
  <2> QED
    BY <2>3, <2>4, <2>5
<1>5. PICK m \in Nat :
        /\ order \in [1..m -> ParcelPlaces(row, weights)]
        /\ \A p \in ParcelPlaces(row, weights) : \E k \in 1..m : order[k] = p
  BY <1>1, ParcelsInOrder
<1>6. <<i, 1>> \in ParcelPlaces(row, weights)
  <2>1. <<i, 1>> \in (DOMAIN row) \X (1..Rounds) /\ <<i, 1>>[1] = i /\ <<i, 1>>[2] = 1
    BY <1>1, <1>4
  <2> QED
    BY <1>4, <2>1 DEF ParcelPlaces
<1>7. PICK k \in 1..m : order[k] = <<i, 1>>
  BY <1>5, <1>6
<1>8. DOMAIN order = 1..m
  BY <1>5
<1> HIDE DEF order
<1>9. k \in DOMAIN first
  BY <1>3, <1>8
<1>10. first[k] = NewSend(w, ParcelsAt(row, weights, i)[1])
  <2>1. order[k][1] = i /\ order[k][2] = 1
    BY <1>7
  <2> QED
    BY <1>2, <1>3, <1>8, <2>1
<1>11. first[k].wallet = w
  BY <1>10 DEF NewSend
<1> QED
  BY <1>9, <1>11 DEF first

\* The start.
LEMMA InitSettles ==
  ASSUME Init
  PROVE  SettleInv
<1>1. sends = FirstSends(burn) /\ phase = "rounds" /\ pass = 1 /\ pc = "waiting" /\ skip = {}
  BY DEF Init
<1>2. PlaceFits
  <2>1. 1 <= Rounds
    BY DeliveryAssumption
  <2> QED
    BY <1>1, <2>1 DEF PlaceFits
<1>3. EverybodyListed
  <2> SUFFICES ASSUME NEW w \in Wallets, burn[w] # Bet[w] * Full PROVE RecordsOf(sends, w) # {}
    BY DEF EverybodyListed
  <2>1. PICK k \in DOMAIN FirstSends(burn) : FirstSends(burn)[k].wallet = w
    BY FirstSendsReach
  <2>2. k \in RecordsOf(sends, w)
    BY <1>1, <2>1 DEF RecordsOf
  <2> QED
    BY <2>2
<1>4. SettledFits
  BY <1>1 DEF SettledFits, AfterSettling
<1> QED
  BY <1>2, <1>3, <1>4 DEF SettleInv

\* Who is served when nothing is under way is settled, or a record says it is not.
LEMMA ServedIsSettled ==
  ASSUME IInv, BookInv, pc # "sending", NEW w \in Wallets, NEW pot \in Nat, Served(sends, w, pot)
  PROVE  \/ Target(pot, w) - Sent[w] < Max({1, MinTopUp})
         \/ \E i \in Ids : /\ sends[i].wallet = w
                           /\ sends[i].status \in {"pending", "abandoned", "ata_mismatch"}
<1> DEFINE Told == \E i \in Ids : /\ sends[i].wallet = w
                                  /\ sends[i].status \in {"pending", "abandoned", "ata_mismatch"}
<1>1. SUFFICES ASSUME ~Told PROVE Target(pot, w) - Sent[w] < Max({1, MinTopUp})
  OBVIOUS
<1>2. ASSUME NEW i \in RecordsOf(sends, w)
      PROVE  sends[i].status \notin {"pending", "abandoned", "ata_mismatch", "in_progress"}
  <2>1. i \in Ids /\ sends[i].wallet = w
    BY DEF RecordsOf, Ids
  <2> QED
    BY <1>1, <2>1, NoneMarked
<1> HIDE DEF Told
<1>3. ~OnFileFor(sends, w)
  BY <1>2 DEF OnFileFor, OnFile
<1>4. FilesTyped(sends, txs)
  BY DEF IInv
<1>5. Covered(sends, w) = SentTo(sends, w) /\ Covered(sends, w) \in Nat
  <2> DEFINE R == RecordsOf(sends, w)
             C == {i \in {j \in DOMAIN sends : sends[j].status = "completed"} : sends[i].wallet = w}
             a == [i \in DOMAIN sends |-> sends[i].amount]
             f == Weighed(sends)
  <2>1. /\ IsFiniteSet(R)
        /\ \A i \in R : /\ f[i] \in Nat /\ sends[i].amount \in Nat
                        /\ f[i] = IF Counted(sends[i]) THEN sends[i].amount ELSE 0
    BY <1>4, CoveredTypes
  <2>2. C \in SUBSET R
    BY DEF RecordsOf
  <2>3. \A i \in C : Counted(sends[i]) /\ a[i] = sends[i].amount
    BY DEF Counted
  <2>4. \A i \in R \ C : ~Counted(sends[i])
    BY <1>2 DEF Counted, RecordsOf
  <2>5. Covered(sends, w) = SumFunctionOnSet(f, R) /\ SentTo(sends, w) = SumFunctionOnSet(a, C)
    BY DEF Covered, SentTo
  <2> HIDE DEF R, C, a, f
  <2>6. (\A i \in C : f[i] \in Nat /\ f[i] = a[i]) /\ \A i \in R \ C : f[i] = 0
    BY <2>1, <2>2, <2>3, <2>4
  <2> QED
    BY <2>1, <2>2, <2>5, <2>6, SumOnPart
<1>6. Sent[w] = Covered(sends, w)
  BY <1>5, SentIs
<1> DEFINE a == Target(pot, w)
           s == Sent[w]
           m == Max({1, MinTopUp})
<1>7. a \in Nat /\ s \in Nat /\ m \in Nat /\ a < m + s
  BY <1>3, <1>5, <1>6, OwedOfPot, SmallestTopUp DEF Served
<1> HIDE DEF a, s, m
<1>8. a - s < m
  BY <1>7
<1> QED
  BY <1>8 DEF a, s, m

\* After the last visit a wallet the settlement looked at has its share, or a
\* record says it has not.
LEMMA SettledInTheEnd ==
  ASSUME IInv, BookInv, SettleInv, Exact
  PROVE  ShortfallIsOnRecord
<1> SUFFICES ASSUME EndedByTheBook, NEW w \in Wallets \ leftQueued PROVE SettledOrOnRecord(w)
  BY DEF ShortfallIsOnRecord
<1>1. phase = "done" /\ ~broke
  BY DEF EndedByTheBook
<1>2. settledPot \in Nat /\ Served(sends, w, settledPot)
  BY <1>1 DEF SettleInv, SettledFits, AfterSettling
<1>3. pc # "sending"
  BY <1>1 DEF SettleInv, PlaceFits
<1> QED
  BY <1>2, <1>3, ServedIsSettled DEF SettledOrOnRecord

-----------------------------------------------------------------------------
(* The theorems.                                                           *)

\* The invariant holds always.
THEOREM Invariance == Spec => []IInv
<1>1. Init => IInv
  BY InitKeeps
<1>2. IInv /\ [Next]_vars => IInv'
  BY StepKeeps
<1> QED
  BY <1>1, <1>2, PTL DEF Spec

\* Every variable keeps its type, whatever the backers, the prices and the number
\* of rounds: the records stay a list in which each names an existing transfer
\* or none.
THEOREM TypeCorrect == Spec => []TypeOK
<1>1. IInv => TypeOK
  <2> SUFFICES ASSUME IInv PROVE TypeOK
    OBVIOUS
  <2>1. FilesTyped(sends, txs) /\ OtherTypes /\ WorkFits(work, sends, txs)
    BY DEF IInv
  <2>2. RecordType(Len(txs)) = SendType
    BY DEF RecordType, SendType, Statuses
  <2>3. sends \in Seq(SendType)
    BY <2>1, <2>2 DEF FilesTyped
  <2>4. \A k \in DOMAIN txs :
          /\ txs[k].fate \in {"signed", "flying", "landed", "void"}
          /\ DOMAIN txs[k].pays \subseteq Ids
          /\ \A i \in DOMAIN txs[k].pays : txs[k].pays[i] \in Nat \ {0}
    <3>1. \A k \in DOMAIN txs :
            /\ txs[k].fate \in Fates
            /\ txs[k].pays \in [DOMAIN txs[k].pays -> Positive]
            /\ DOMAIN txs[k].pays \subseteq DOMAIN sends
      BY <2>1, Typed
    <3> QED
      BY <3>1 DEF Fates, Positive, Ids
  <2>5. \A b \in DOMAIN work : work[b].at \in {"building", "sending", "confirming", "over"}
    <3>1. \A b \in DOMAIN work : work[b] \in BatchType
      BY <2>1, ElementOfSeq, LenProperties DEF WorkFits
    <3> QED
      BY <3>1 DEF BatchType
  <2> QED
    BY <2>1, <2>3, <2>4, <2>5 DEF TypeOK, OtherTypes
<1> QED
  BY <1>1, Invariance, PTL

\* No delivery is signed again while its last transfer has landed or still may:
\* a record is paid at most once, through lost answers, timeouts, halved batches
\* and restarts.
THEOREM OnePayment == Spec => []OnePaymentPerRecord
<1>1. IInv => OnePaymentPerRecord
  <2> SUFFICES ASSUME IInv, NEW i \in Ids
               PROVE  Cardinality({k \in DOMAIN txs :
                                     /\ i \in DOMAIN txs[k].pays
                                     /\ txs[k].fate \in {"signed", "flying", "landed"}}) <= 1
    BY DEF OnePaymentPerRecord
  <2> DEFINE S == {k \in DOMAIN txs : /\ i \in DOMAIN txs[k].pays
                                       /\ txs[k].fate \in {"signed", "flying", "landed"}}
  <2>1. FilesTyped(sends, txs) /\ CarriedOnce(txs)
    BY DEF IInv, Paid
  <2>2. i \in Nat
    BY <2>1, Typed DEF Ids
  <2>3. \A k \in S : Carries(txs, k, i)
    BY DEF Carries
  <2> HIDE DEF S
  <2>4. \A k, l \in S : k = l
    BY <2>1, <2>2, <2>3 DEF CarriedOnce, Carries
  <2>5. Cardinality(S) <= 1
    <3>1. CASE S = {}
      <4>1. Cardinality({}) = 0
        BY FS_EmptySet
      <4> QED
        BY <3>1, <4>1
    <3>2. ASSUME NEW k \in S PROVE Cardinality(S) <= 1
      <4>1. S = {k}
        BY <2>4
      <4>2. Cardinality({k}) = 1
        BY FS_Singleton
      <4> QED
        BY <4>1, <4>2
    <3> QED
      BY <3>1, <3>2
  <2> QED
    BY <2>5 DEF S
<1> QED
  BY <1>1, Invariance, PTL

\* Every token that left the keeper is on record: a landed transfer is counted at
\* its amount, or its signature is still held, or the account rules have
\* overwritten the record; and nothing is counted that did not land.
THEOREM EveryTransfer == Spec => []EveryTransferOnRecord
<1>1. IInv => EveryTransferOnRecord
  <2> SUFFICES ASSUME IInv, NEW i \in Ids
               PROVE  /\ sends[i].status = "completed" => LandedOf(i) = sends[i].amount /\ LandedOf(i) > 0
                      /\ \A k \in DOMAIN txs :
                           txs[k].fate = "landed" /\ i \in DOMAIN txs[k].pays =>
                             sends[i].status \in {"completed", "ata_mismatch"} \/ sends[i].tx = k
    BY DEF EveryTransferOnRecord
  <2>1. FilesTyped(sends, txs) /\ CarriedFit(sends, txs) /\ CarriedOnce(txs) /\ RecordsFit(sends, txs)
    BY DEF IInv, Paid
  <2>2. i \in DOMAIN sends /\ i \in Nat
    BY <2>1, Typed DEF Ids
  <2>3. ASSUME sends[i].status = "completed"
        PROVE  LandedOf(i) = sends[i].amount /\ LandedOf(i) > 0
    <3>1. PICK k \in DOMAIN txs :
            i \in DOMAIN txs[k].pays /\ txs[k].fate = "landed" /\ txs[k].pays[i] = sends[i].amount
      BY <2>1, <2>2, <2>3 DEF RecordsFit
    <3>2. txs[k].pays[i] \in Nat /\ txs[k].pays[i] > 0
      <4>1. txs[k].pays \in [DOMAIN txs[k].pays -> Positive]
        BY <2>1, Typed
      <4> QED
        BY <3>1, <4>1 DEF Positive
    <3>3. {n \in DOMAIN txs : txs[n].fate = "landed" /\ i \in DOMAIN txs[n].pays} = {k}
      BY <2>1, <2>2, <3>1 DEF CarriedOnce, Carries
    <3> DEFINE f == [n \in {k} |-> txs[n].pays[i]]
    <3>4. LandedOf(i) = SumFunction(f)
      BY <3>3 DEF LandedOf
    <3>5. DOMAIN f = {k} /\ f[k] = txs[k].pays[i]
      OBVIOUS
    <3> HIDE DEF f
    <3>6. SumFunction(f) = SumFunctionOnSet(f, {k})
      BY <3>5 DEF SumFunction
    <3>7. SumFunctionOnSet(f, {k}) = f[k]
      BY <3>2, <3>5, SumOfFew
    <3> QED
      BY <3>1, <3>2, <3>4, <3>5, <3>6, <3>7
  <2>4. ASSUME NEW k \in DOMAIN txs, txs[k].fate = "landed", i \in DOMAIN txs[k].pays
        PROVE  sends[i].status \in {"completed", "ata_mismatch"} \/ sends[i].tx = k
    BY <2>1, <2>2, <2>4 DEF CarriedFit, Carries
  <2> QED
    BY <2>3, <2>4
<1> QED
  BY <1>1, Invariance, PTL

\* Everything bought is accounted for, through crashes, lost answers and unread
\* accounts: it is on the keeper, burned or delivered; each wallet has got exactly
\* what the landed transfers carried for its records; the fire has had no more
\* than its share; and a record is marked for sending only while a batch holds it.
THEOREM BooksBalance ==
  Spec => [](Balanced /\ FireWithin /\ ArrivedIs(sends, txs, got) /\ MarkedHeld(sends, work))
<1>1. Init => BookInv
  BY InitFair
<1>2. IInv /\ IInv' /\ BookInv /\ [Next]_vars => BookInv'
  BY StepFair
<1>3. BookInv => Balanced /\ FireWithin /\ ArrivedIs(sends, txs, got) /\ MarkedHeld(sends, work)
  BY DEF BookInv, BooksFit
<1> QED
  BY <1>1, <1>2, <1>3, Invariance, PTL DEF Spec

\* Of a coin somebody burns, nobody gets more than its share of what was bought,
\* its own burn taken off, as long as no wallet is given something while a
\* transfer of it that was given up, overwritten or left for a later round has
\* landed or still may: whatever lands late, fails, is retried in halves or was
\* signed before a restart.
THEOREM FairShares == Spec /\ []NothingOverlooked => [](Exact => FairShare /\ NobodyPaidTwice)
<1>1. Init => BookInv /\ Within
  BY InitFair
<1>2. IInv /\ IInv' /\ BookInv /\ [Next]_vars => BookInv' /\ (NothingOverlooked /\ Within => Within')
  BY StepFair
<1>3. IInv /\ BookInv /\ Within => (Exact => FairShare /\ NobodyPaidTwice)
  <2> SUFFICES ASSUME IInv, BookInv, Within, Exact, NEW w \in Wallets
               PROVE  /\ got[w] <= DeliveryOwed(lots * Lot, w, burn)
                      /\ got[w] <= DeliveryOwed(lots * Lot, w, burn)
                           + SumFunction([i \in {j \in ignored : sends[j].wallet = w} |-> LandedOf(i)])
    BY DEF FairShare, NobodyPaidTwice
  <2> DEFINE S == {j \in ignored : sends[j].wallet = w}
             f == [i \in S |-> LandedOf(i)]
             extra == SumFunction(f)
             owed == DeliveryOwed(lots * Lot, w, burn)
             share == Target(read * Lot, w)
             claim == Claimed(sends, txs, w)
             came == Arrived(sends, txs, w)
  <2>1. FilesTyped(sends, txs) /\ OtherTypes /\ CarriedOnce(txs) /\ ArrivedIs(sends, txs, got)
    BY DEF IInv, Paid, BookInv, BooksFit
  <2>2. claim \in Nat /\ came \in Nat /\ came <= claim
    BY <2>1, Booked
  <2>3. got[w] = came
    BY <2>1 DEF ArrivedIs
  <2>4. claim <= share
    BY DEF Within
  <2>5. share \in Nat /\ owed \in Nat /\ share <= owed
    BY Counts
  <2>6. extra \in Nat
    <3>1. ASSUME NEW i PROVE LandedOf(i) \in Nat
      <4> DEFINE T == {n \in DOMAIN txs : txs[n].fate = "landed" /\ i \in DOMAIN txs[n].pays}
                 g == [k \in T |-> txs[k].pays[i]]
      <4>1. DOMAIN txs = 1..Len(txs) /\ Len(txs) \in Nat
        BY <2>1, Typed
      <4>2. IsFiniteSet(T)
        <5>1. T \in SUBSET DOMAIN txs /\ IsFiniteSet(DOMAIN txs)
          BY <4>1, FS_Interval
        <5> HIDE DEF T
        <5> QED
          BY <5>1, FS_Subset
      <4>3. \A k \in T : g[k] \in Nat
        <5> SUFFICES ASSUME NEW k \in T PROVE txs[k].pays[i] \in Nat
          OBVIOUS
        <5>1. txs[k].pays \in [DOMAIN txs[k].pays -> Positive]
          BY <2>1, Typed
        <5> QED
          BY <5>1 DEF Positive
      <4>4. LandedOf(i) = SumFunction(g)
        BY DEF LandedOf
      <4>5. DOMAIN g = T
        OBVIOUS
      <4> HIDE DEF g, T
      <4>6. SumFunction(g) = SumFunctionOnSet(g, T)
        BY <4>5 DEF SumFunction
      <4>7. SumFunctionOnSet(g, T) \in Nat
        BY <4>2, <4>3, SumIsNat
      <4> QED
        BY <4>4, <4>6, <4>7
    <3>2. IsFiniteSet(S)
      <4>1. S \in SUBSET DOMAIN sends /\ IsFiniteSet(DOMAIN sends)
        BY <2>1, Booked DEF OtherTypes, Ids
      <4> HIDE DEF S
      <4> QED
        BY <4>1, FS_Subset
    <3>3. DOMAIN f = S /\ \A i \in S : f[i] \in Nat
      BY <3>1
    <3> HIDE DEF f, S
    <3>4. SumFunction(f) = SumFunctionOnSet(f, S)
      BY <3>3 DEF SumFunction
    <3> QED
      BY <3>2, <3>3, <3>4, SumIsNat
  <2> HIDE DEF extra, owed, share, claim, came
  <2>7. came <= owed /\ came <= owed + extra
    <3>1. \A a, b, c, d, e \in Nat : a <= b /\ b <= c /\ c <= d => a <= d /\ a <= d + e
      OBVIOUS
    <3> QED
      BY <2>2, <2>4, <2>5, <2>6, <3>1
  <2> QED
    BY <2>3, <2>7 DEF extra, owed
<1> QED
  BY <1>1, <1>2, <1>3, Invariance, PTL DEF Spec

\* Where somebody burns, and as long as nothing is overlooked where a visit
\* shares out, a wallet the settlement looked at is short of its share when the
\* round is closed only if one of its sends says so.
THEOREM ShortfallsAreOnRecord == Spec /\ []NothingOverlooked => [](Exact => ShortfallIsOnRecord)
<1> DEFINE All == BookInv /\ Within /\ SettleInv
<1>1. Init => All
  BY InitFair, InitSettles
<1>2. IInv /\ IInv' /\ NothingOverlooked /\ All /\ [Next]_vars => All'
  BY StepFair, StepSettles
<1>3. IInv /\ All => (Exact => ShortfallIsOnRecord)
  BY SettledInTheEnd
<1>4. Spec => []IInv
  BY Invariance
<1> HIDE DEF All
<1> QED
  BY <1>1, <1>2, <1>3, <1>4, PTL DEF Spec
=============================================================================
