-------------------------- MODULE BuyerRoundProofs --------------------------
(***************************************************************************)
(* Proofs about the buyer's process: a backer is refunded at most once in  *)
(* a life of the process, a refund written down as made was made, no round *)
(* is taken up while an earlier pass still buys for it, and the refunds of *)
(* a round are covered by what it did not spend.                           *)
(*                                                                         *)
(* Everything turns on what one life may do for a round once: a state file *)
(* is written once, the refunds are planned once and leave the list of     *)
(* those to pay before they are sent, and a finished file is never opened  *)
(* again.  The money is an invariant of its own, over sums of purchases,   *)
(* rents and refunds.                                                      *)
(***************************************************************************)
EXTENDS BuyerRound, FiniteSetTheorems, SequenceTheorems, WellFoundedInduction, TLAPS

-----------------------------------------------------------------------------
(* Sums over finite sets.                                                  *)

\* What holds of a set when it holds of its proper subsets holds of every
\* subset of a finite set.
LEMMA SmallerFirst ==
  ASSUME NEW S, IsFiniteSet(S), NEW P,
         \A T \in SUBSET S : (\A U \in SUBSET T : U # T => U \in P) => T \in P
  PROVE  SUBSET S \subseteq P
<1> DEFINE Bad == (SUBSET S) \ P
<1>1. IsWellFoundedOn(StrictSubsetOrdering(S), SUBSET S)
  BY FS_StrictSubsetOrderingWellFounded, FS_FiniteSubsetsOfFinite
<1>2. ASSUME Bad # {} PROVE FALSE
  <2>1. PICK T \in Bad : \A U \in Bad : ~ (<<U, T>> \in StrictSubsetOrdering(S))
    <3> HIDE DEF Bad
    <3>1. Bad \subseteq SUBSET S
      BY DEF Bad
    <3> QED
      BY <1>1, <1>2, <3>1, WFMin
  <2>2. \A U \in SUBSET T : U # T => U \in P
    <3> SUFFICES ASSUME NEW U \in SUBSET T, U # T, U \notin P PROVE FALSE
      OBVIOUS
    <3>1. T \in SUBSET S /\ U \in SUBSET S /\ U \in Bad
      OBVIOUS
    <3>2. <<U, T>> \in StrictSubsetOrdering(S)
      <4> HIDE DEF Bad
      <4> QED
        BY <3>1 DEF StrictSubsetOrdering
    <3> QED
      BY <2>1, <3>1, <3>2
  <2>3. T \in SUBSET S /\ T \notin P
    BY <2>1
  <2> HIDE DEF Bad
  <2> QED
    BY <2>2, <2>3
<1> QED
  BY <1>2

\* The member a sum begins with.
FirstOf(S) == CHOOSE x \in S : TRUE

\* The table a sum is read from: what every subset of S adds up to.
IsTally(g, f, S) ==
  g = [s \in SUBSET S |-> IF s = {} THEN 0
                          ELSE f[FirstOf(s)] + g[s \ {FirstOf(s)}]]

\* A table's entry, from its definition.
LEMMA TallyEntry ==
  ASSUME NEW f, NEW S, NEW g, IsTally(g, f, S), NEW T \in SUBSET S
  PROVE  g[T] = IF T = {} THEN 0
                ELSE f[FirstOf(T)] + g[T \ {FirstOf(T)}]
BY DEF IsTally

\* Two tables of the same numbers agree where both have an entry.
LEMMA TalliesAgree ==
  ASSUME NEW f, NEW S, NEW R, IsFiniteSet(S),
         NEW g, IsTally(g, f, S), NEW h, IsTally(h, f, R), S \subseteq R
  PROVE  g[S] = h[S]
<1> DEFINE P == {T \in SUBSET S : g[T] = h[T]}
<1>1. ASSUME NEW T \in SUBSET S, \A U \in SUBSET T : U # T => U \in P PROVE T \in P
  <2>1. g[T] = IF T = {} THEN 0 ELSE f[FirstOf(T)] + g[T \ {FirstOf(T)}]
    BY TallyEntry
  <2>2. h[T] = IF T = {} THEN 0 ELSE f[FirstOf(T)] + h[T \ {FirstOf(T)}]
    <3>1. T \in SUBSET R
      OBVIOUS
    <3> QED
      BY <3>1, TallyEntry
  <2>3. T # {} => FirstOf(T) \in T
    BY DEF FirstOf
  <2>4. T # {} => g[T \ {FirstOf(T)}] = h[T \ {FirstOf(T)}]
    BY <1>1, <2>3
  <2> QED
    BY <2>1, <2>2, <2>4
<1>2. SUBSET S \subseteq P
  <2> HIDE DEF P
  <2> QED
    BY <1>1, SmallerFirst
<1> QED
  BY <1>2

\* Every finite set has a table.
LEMMA TallyExists ==
  ASSUME NEW f, NEW S, IsFiniteSet(S)
  PROVE  \E g : IsTally(g, f, S)
<1> DEFINE P == {T \in SUBSET S : \E g : IsTally(g, f, T)}
<1>1. ASSUME NEW T \in SUBSET S, \A U \in SUBSET T : U # T => U \in P PROVE T \in P
  <2> DEFINE Table(U) == CHOOSE g : IsTally(g, f, U)
             Entry(U) == IF U = {} THEN 0 ELSE f[FirstOf(U)] + Table(U \ {FirstOf(U)})[U \ {FirstOf(U)}]
             g == [U \in SUBSET T |-> Entry(U)]
  <2>1. \A U \in SUBSET T : U # T => IsTally(Table(U), f, U)
    BY <1>1
  <2>2. \A U \in SUBSET T : U # {} => FirstOf(U) \in U /\ U \ {FirstOf(U)} \in SUBSET T
    BY DEF FirstOf
  <2>3. \A U \in SUBSET T : U # T => Table(U)[U] = Entry(U)
    <3> SUFFICES ASSUME NEW U \in SUBSET T, U # T PROVE Table(U)[U] = Entry(U)
      OBVIOUS
    <3>1. Table(U)[U] = IF U = {} THEN 0 ELSE f[FirstOf(U)] + Table(U)[U \ {FirstOf(U)}]
      <4> HIDE DEF Table
      <4> QED
        BY <2>1, TallyEntry
    <3>2. CASE U # {}
      <4> DEFINE V == U \ {FirstOf(U)}
      <4>1. V \in SUBSET T /\ V # T /\ V \subseteq U
        BY <2>2, <3>2
      <4>2. IsTally(Table(V), f, V) /\ IsTally(Table(U), f, U)
        BY <2>1, <4>1
      <4>3. IsFiniteSet(V)
        BY <4>1, FS_Subset
      <4>4. Table(V)[V] = Table(U)[V]
        <5> HIDE DEF Table, V
        <5> QED
          BY <4>1, <4>2, <4>3, TalliesAgree
      <4> QED
        BY <3>1, <3>2, <4>4
    <3> QED
      BY <3>1, <3>2
  <2>4. IsTally(g, f, T)
    <3>1. \A U \in SUBSET T : Entry(U) = IF U = {} THEN 0 ELSE f[FirstOf(U)] + g[U \ {FirstOf(U)}]
      <4> SUFFICES ASSUME NEW U \in SUBSET T, U # {}
                   PROVE  Table(U \ {FirstOf(U)})[U \ {FirstOf(U)}] = g[U \ {FirstOf(U)}]
        <5> HIDE DEF g, Table
        <5> QED
          OBVIOUS
      <4> DEFINE V == U \ {FirstOf(U)}
      <4>1. V \in SUBSET T /\ V # T
        BY <2>2
      <4>2. g[V] = Entry(V) /\ Table(V)[V] = Entry(V)
        BY <2>3, <4>1
      <4> QED
        BY <4>2
    <3>2. g = [U \in SUBSET T |-> IF U = {} THEN 0 ELSE f[FirstOf(U)] + g[U \ {FirstOf(U)}]]
      <4> HIDE DEF Entry
      <4> QED
        BY <3>1
    <3> QED
      BY <3>2 DEF IsTally
  <2> QED
    BY <2>4
<1>2. SUBSET S \subseteq P
  <2> HIDE DEF P
  <2> QED
    BY <1>1, SmallerFirst
<1> QED
  BY <1>2

\* A sum is the last entry of any table of its set, or of a larger one.
LEMMA SumIsTallied ==
  ASSUME NEW f, NEW S, NEW R, IsFiniteSet(R), S \subseteq R, NEW h, IsTally(h, f, R)
  PROVE  SumFunctionOnSet(f, S) = h[S]
<1> DEFINE g == CHOOSE t : IsTally(t, f, S)
<1>1. SumFunctionOnSet(f, S) = g[S]
  BY DEF SumFunctionOnSet, FoldFunctionOnSet, MapThenFoldSet, IsTally, FirstOf
<1>2. IsFiniteSet(S)
  BY FS_Subset
<1>3. IsTally(g, f, S)
  BY <1>2, TallyExists
<1> QED
  <2> HIDE DEF g
  <2> QED
    BY <1>1, <1>2, <1>3, TalliesAgree

\* A sum takes one number and the sum of the rest.
LEMMA SumFirst ==
  ASSUME NEW f, NEW S, IsFiniteSet(S)
  PROVE  SumFunctionOnSet(f, S) =
           IF S = {} THEN 0
           ELSE f[FirstOf(S)] + SumFunctionOnSet(f, S \ {FirstOf(S)})
<1>1. PICK g : IsTally(g, f, S)
  BY TallyExists
<1>2. g[S] = IF S = {} THEN 0 ELSE f[FirstOf(S)] + g[S \ {FirstOf(S)}]
  BY <1>1, TallyEntry
<1>3. SumFunctionOnSet(f, S) = g[S] /\ SumFunctionOnSet(f, S \ {FirstOf(S)}) = g[S \ {FirstOf(S)}]
  BY <1>1, SumIsTallied
<1> QED
  BY <1>2, <1>3

\* Natural numbers add up to a natural number.
LEMMA SumIsNat ==
  ASSUME NEW S, IsFiniteSet(S), NEW f, \A x \in S : f[x] \in Nat
  PROVE  \A T \in SUBSET S : SumFunctionOnSet(f, T) \in Nat
<1> DEFINE P == {T \in SUBSET S : SumFunctionOnSet(f, T) \in Nat}
<1>1. ASSUME NEW T \in SUBSET S, \A U \in SUBSET T : U # T => U \in P PROVE T \in P
  <2>1. IsFiniteSet(T)
    BY FS_Subset
  <2>2. T # {} => FirstOf(T) \in T /\ T \ {FirstOf(T)} \in P
    BY <1>1 DEF FirstOf
  <2>3. SumFunctionOnSet(f, T) =
          IF T = {} THEN 0 ELSE f[FirstOf(T)] + SumFunctionOnSet(f, T \ {FirstOf(T)})
    BY <2>1, SumFirst
  <2>4. SumFunctionOnSet(f, T) \in Nat
    BY <2>2, <2>3
  <2> QED
    BY <2>4
<1>2. SUBSET S \subseteq P
  <2> HIDE DEF P
  <2> QED
    BY <1>1, SmallerFirst
<1> QED
  BY <1>2

\* Any one number may be taken out of a sum.
LEMMA SumTakesOut ==
  ASSUME NEW S, IsFiniteSet(S), NEW f, \A x \in S : f[x] \in Nat
  PROVE  \A T \in SUBSET S : \A x \in T :
           SumFunctionOnSet(f, T) = f[x] + SumFunctionOnSet(f, T \ {x})
<1> DEFINE Sum(T) == SumFunctionOnSet(f, T)
           P == {T \in SUBSET S : \A x \in T : Sum(T) = f[x] + Sum(T \ {x})}
<1>1. ASSUME NEW T \in SUBSET S, \A U \in SUBSET T : U # T => U \in P PROVE T \in P
  <2> SUFFICES ASSUME NEW x \in T PROVE Sum(T) = f[x] + Sum(T \ {x})
    OBVIOUS
  <2> DEFINE c == FirstOf(T)
  <2>1. IsFiniteSet(T) /\ T # {}
    BY FS_Subset
  <2>2. c \in T
    BY DEF FirstOf
  <2>3. Sum(T) = f[c] + Sum(T \ {c})
    BY <2>1, SumFirst
  <2> HIDE DEF Sum, c
  <2>4. CASE x = c
    BY <2>3, <2>4
  <2>5. CASE x # c
    <3>1. T \ {c} \in P /\ T \ {x} \in P
      BY <1>1, <2>2
    <3>2. Sum(T \ {c}) = f[x] + Sum((T \ {c}) \ {x})
      BY <2>5, <3>1
    <3>3. Sum(T \ {x}) = f[c] + Sum((T \ {x}) \ {c})
      BY <2>2, <2>5, <3>1
    <3>4. (T \ {c}) \ {x} = (T \ {x}) \ {c}
      OBVIOUS
    <3>5. f[x] \in Nat /\ f[c] \in Nat
      BY <2>2
    <3>6. Sum((T \ {x}) \ {c}) \in Nat
      BY SumIsNat DEF Sum
    <3> QED
      BY <2>3, <3>2, <3>3, <3>4, <3>5, <3>6
  <2> QED
    BY <2>4, <2>5
<1>2. SUBSET S \subseteq P
  <2> HIDE DEF P
  <2> QED
    BY <1>1, SmallerFirst
<1> QED
  BY <1>2

\* Shares that are each rounded down add up to no more than what is shared.
LEMMA SumOfShares ==
  ASSUME NEW S, IsFiniteSet(S), NEW f, NEW g, NEW n \in Nat, NEW m \in Nat,
         \A x \in S : f[x] \in Nat /\ g[x] \in Nat /\ f[x] * n <= m * g[x]
  PROVE  \A T \in SUBSET S :
           SumFunctionOnSet(f, T) * n <= m * SumFunctionOnSet(g, T)
<1> DEFINE F(T) == SumFunctionOnSet(f, T)
           G(T) == SumFunctionOnSet(g, T)
           P == {T \in SUBSET S : F(T) * n <= m * G(T)}
<1>1. ASSUME NEW T \in SUBSET S, \A U \in SUBSET T : U # T => U \in P PROVE T \in P
  <2>1. IsFiniteSet(T)
    BY FS_Subset
  <2>2. F(T) = (IF T = {} THEN 0 ELSE f[FirstOf(T)] + F(T \ {FirstOf(T)}))
        /\ G(T) = (IF T = {} THEN 0 ELSE g[FirstOf(T)] + G(T \ {FirstOf(T)}))
    BY <2>1, SumFirst
  <2>3. F(T \ {FirstOf(T)}) \in Nat /\ G(T \ {FirstOf(T)}) \in Nat
    BY SumIsNat
  <2> HIDE DEF F, G
  <2>4. T # {} => FirstOf(T) \in T /\ T \ {FirstOf(T)} \in P
    BY <1>1 DEF FirstOf
  <2>5. CASE T = {}
    <3>1. 0 * n <= m * 0
      OBVIOUS
    <3> QED
      BY <2>2, <2>5, <3>1
  <2>6. CASE T # {}
    <3>1. \A a, b, c, d \in Nat : a * n <= m * c /\ b * n <= m * d => (a + b) * n <= m * (c + d)
      OBVIOUS
    <3>2. F(T) * n <= m * G(T)
      BY <2>2, <2>3, <2>4, <2>6, <3>1
    <3> QED
      BY <3>2
  <2> QED
    BY <2>5, <2>6
<1>2. SUBSET S \subseteq P
  <2> HIDE DEF P
  <2> QED
    BY <1>1, SmallerFirst
<1> QED
  BY <1>2

\* A smaller number for each leaves a smaller sum, and the same numbers the same sum.
LEMMA SumOfLess ==
  ASSUME NEW S, IsFiniteSet(S), NEW f, NEW g,
         \A x \in S : f[x] \in Nat /\ g[x] \in Nat /\ f[x] <= g[x]
  PROVE  /\ SumFunctionOnSet(f, S) <= SumFunctionOnSet(g, S)
         /\ SumFunctionOnSet(f, S) \in Nat /\ SumFunctionOnSet(g, S) \in Nat
<1> DEFINE F == SumFunctionOnSet(f, S)
           G == SumFunctionOnSet(g, S)
<1>1. \A x \in S : f[x] \in Nat /\ g[x] \in Nat /\ f[x] * 1 <= 1 * g[x]
  OBVIOUS
<1>2. S \in SUBSET S /\ 1 \in Nat
  OBVIOUS
<1>3. F * 1 <= 1 * G
  BY <1>1, <1>2, SumOfShares
<1>4. F \in Nat /\ G \in Nat
  BY <1>2, SumIsNat
<1> HIDE DEF F, G
<1>5. F <= G
  BY <1>3, <1>4
<1> QED
  BY <1>4, <1>5 DEF F, G

\* Fewer numbers have a smaller sum.
LEMMA SumOfFewer ==
  ASSUME NEW S, IsFiniteSet(S), NEW f, \A x \in S : f[x] \in Nat, NEW R \in SUBSET S
  PROVE  /\ SumFunctionOnSet(f, R) <= SumFunctionOnSet(f, S)
         /\ SumFunctionOnSet(f, R) \in Nat /\ SumFunctionOnSet(f, S) \in Nat
<1> DEFINE Sum(T) == SumFunctionOnSet(f, T)
           P == {T \in SUBSET S : Sum(T \intersect R) <= Sum(T)}
<1>n. \A T \in SUBSET S : Sum(T) \in Nat
  BY SumIsNat
<1>t. \A T \in SUBSET S : \A x \in T : Sum(T) = f[x] + Sum(T \ {x})
  <2> SUFFICES ASSUME NEW T \in SUBSET S, NEW x \in T PROVE Sum(T) = f[x] + Sum(T \ {x})
    OBVIOUS
  <2> QED
    BY SumTakesOut
<1> HIDE DEF Sum
<1>1. ASSUME NEW T \in SUBSET S, \A U \in SUBSET T : U # T => U \in P PROVE T \in P
  <2>1. CASE T = {}
    <3>1. T \intersect R = T /\ Sum(T) \in Nat
      BY <2>1, <1>n
    <3> QED
      BY <3>1
  <2>2. CASE T # {}
    <3>1. PICK c \in T : TRUE
      BY <2>2
    <3>2. T \ {c} \in P
      BY <1>1
    <3>3. Sum(T) = f[c] + Sum(T \ {c}) /\ f[c] \in Nat
      BY <1>t
    <3>4. /\ T \intersect R \in SUBSET S /\ T \ {c} \in SUBSET S
          /\ (T \ {c}) \intersect R = (T \intersect R) \ {c}
          /\ (T \intersect R) \ {c} \in SUBSET S
      OBVIOUS
    <3>5. Sum((T \intersect R) \ {c}) <= Sum(T \ {c})
      BY <3>2, <3>4
    <3>6. c \in R => Sum(T \intersect R) = f[c] + Sum((T \intersect R) \ {c})
      BY <3>4, <1>t
    <3>7. c \notin R => T \intersect R = (T \intersect R) \ {c}
      OBVIOUS
    <3>8. Sum((T \intersect R) \ {c}) \in Nat /\ Sum(T \ {c}) \in Nat
      BY <3>4, <1>n
    <3>9. Sum(T \intersect R) <= Sum(T)
      <4>1. CASE c \in R
        BY <3>3, <3>5, <3>6, <3>8, <4>1
      <4>2. CASE c \notin R
        <5>1. Sum(T \intersect R) = Sum((T \intersect R) \ {c})
          BY <3>7, <4>2
        <5> QED
          BY <3>3, <3>5, <3>8, <5>1
      <4> QED
        BY <4>1, <4>2
    <3> QED
      BY <3>9
  <2> QED
    BY <2>1, <2>2
<1>2. SUBSET S \subseteq P
  <2> HIDE DEF P
  <2> QED
    BY <1>1, SmallerFirst
<1>3. S \intersect R = R /\ S \in P
  BY <1>2
<1> QED
  BY <1>3, <1>n DEF Sum

\* Numbers of at most c, but for one that may be larger by a.
LEMMA SumOfMost ==
  ASSUME NEW S, IsFiniteSet(S), NEW f, NEW c \in Nat, NEW a \in Nat,
         \A x \in S : f[x] \in Nat /\ f[x] <= c + a,
         \A x, y \in S : f[x] > c /\ f[y] > c => x = y
  PROVE  SumFunctionOnSet(f, S) <= Cardinality(S) * c + a
<1> DEFINE Sum(T) == SumFunctionOnSet(f, T)
           Size(T) == Cardinality(T)
           Extra(T) == IF \E x \in T : f[x] > c THEN a ELSE 0
           P == {T \in SUBSET S : Sum(T) <= Size(T) * c + Extra(T)}
<1>n. \A T \in SUBSET S : Sum(T) \in Nat /\ Size(T) \in Nat
  BY SumIsNat, FS_Subset, FS_CardinalityType
<1>t. \A T \in SUBSET S : \A x \in T : Sum(T) = f[x] + Sum(T \ {x}) /\ Size(T) = Size(T \ {x}) + 1
  <2> SUFFICES ASSUME NEW T \in SUBSET S, NEW x \in T
               PROVE  Sum(T) = f[x] + Sum(T \ {x}) /\ Size(T) = Size(T \ {x}) + 1
    OBVIOUS
  <2>1. Sum(T) = f[x] + Sum(T \ {x})
    BY SumTakesOut
  <2>2. IsFiniteSet(T)
    BY FS_Subset
  <2>3. Size(T \ {x}) = Size(T) - 1
    BY <2>2, FS_RemoveElement
  <2>4. Size(T) \in Nat
    BY <1>n
  <2> HIDE DEF Sum, Size
  <2> QED
    BY <2>1, <2>3, <2>4
<1>e. SumFunctionOnSet(f, {}) = 0 /\ Cardinality({}) = 0 /\ IsFiniteSet({})
  BY SumFirst, FS_EmptySet
<1>0. Sum({}) = 0 /\ Size({}) = 0
  BY <1>e
<1> HIDE DEF Sum, Size
<1>1. ASSUME NEW T \in SUBSET S, \A U \in SUBSET T : U # T => U \in P PROVE T \in P
  <2>1. CASE T = {}
    <3>1. Extra(T) = 0
      BY <2>1
    <3> QED
      BY <2>1, <3>1, <1>0
  <2>2. CASE T # {}
    <3>1. PICK x \in T : TRUE
      BY <2>2
    <3> DEFINE U == T \ {x}
    <3>2. U \in P /\ U \in SUBSET S
      BY <1>1
    <3>3. Sum(T) = f[x] + Sum(U) /\ Size(T) = Size(U) + 1
      BY <1>t
    <3>4. Sum(U) \in Nat /\ Size(U) \in Nat /\ f[x] \in Nat /\ f[x] <= c + a
      BY <3>2, <1>n
    <3>5. Sum(U) <= Size(U) * c + Extra(U)
      BY <3>2
    <3>6. f[x] + Extra(U) <= c + Extra(T) /\ Extra(U) \in Nat /\ Extra(T) \in Nat
      <4>1. CASE f[x] > c
        <5>1. \A y \in U : ~ (f[y] > c)
          BY <4>1
        <5>2. Extra(U) = 0 /\ Extra(T) = a
          BY <4>1, <5>1
        <5> QED
          BY <3>4, <5>2
      <4>2. CASE ~ (f[x] > c)
        <5>1. Extra(U) = Extra(T) /\ Extra(T) \in Nat
          BY <4>2
        <5>2. f[x] <= c
          BY <3>4, <4>2
        <5> HIDE DEF Extra
        <5> QED
          BY <3>4, <5>1, <5>2
      <4> QED
        BY <4>1, <4>2
    <3> HIDE DEF U, Extra
    <3>7. \A s, k, v, e, d \in Nat : s <= k * c + e /\ v + e <= c + d => v + s <= (k + 1) * c + d
      OBVIOUS
    <3>8. Sum(T) <= Size(T) * c + Extra(T)
      BY <3>3, <3>4, <3>5, <3>6, <3>7
    <3> QED
      BY <3>8
  <2> QED
    BY <2>1, <2>2
<1>2. SUBSET S \subseteq P
  <2> HIDE DEF P
  <2> QED
    BY <1>1, SmallerFirst
<1>3. Sum(S) <= Size(S) * c + Extra(S)
  BY <1>2
<1>4. Extra(S) \in Nat /\ Extra(S) <= a
  OBVIOUS
<1>5. Sum(S) \in Nat /\ Size(S) \in Nat
  BY <1>n
<1>6. \A s, k, e \in Nat : s <= k * c + e /\ e <= a => s <= k * c + a
  OBVIOUS
<1> HIDE DEF Extra
<1>7. Sum(S) <= Size(S) * c + a
  BY <1>3, <1>4, <1>5, <1>6
<1> QED
  BY <1>7 DEF Sum, Size

-----------------------------------------------------------------------------
(* The inductive invariant.                                                *)

Everybody == UNION {Backers(r) : r \in Rounds}
PassPhases == {"none", "starting", "trading", "settled", "refunding"}
PassType == [phase : PassPhases, buying : BOOLEAN, todo : SUBSET Everybody,
             chunk : SUBSET Everybody]
PaymentType == [round : Rounds, to : SUBSET Everybody, life : Nat,
                chain : {"flying", "landed", "lost"}]

RoundTypes ==
  /\ process \in [state : {"up", "stopping", "down"}, life : Nat]
  /\ file \in [Rounds -> {"none", "open", "finished"}]
  /\ pass \in [Rounds -> PassType]
  /\ DOMAIN refunds = Rounds
  /\ payments \in Seq(PaymentType)

\* The registry and the state file follow the pass, and only buying goes on by
\* itself when a round is over.
PassFits(r) ==
  /\ pass[r].phase # "none" <=> r \in running
  /\ pass[r].phase = "starting" => ~pass[r].buying /\ file[r] = "none"
  /\ pass[r].phase \in {"trading", "settled", "refunding"} => file[r] = "open"
  /\ pass[r].phase = "none" /\ pass[r].buying => file[r] = "finished"
  /\ pass[r].phase # "refunding" => pass[r].todo = {} /\ pass[r].chunk = {}

\* Only planned refunds are to be paid, and planned ones are for backers.
PlanFits(r) ==
  /\ pass[r].todo \subseteq DOMAIN refunds[r]
  /\ pass[r].chunk \subseteq DOMAIN refunds[r]
  /\ DOMAIN refunds[r] \subseteq Backers(r)

\* A dead process does nothing for any round.
DeadIsIdle == process.state = "down" => \A r \in Rounds : pass[r] = Idle

\* Who was paid in this life is not to be paid any more in it.
PaymentFits(p) ==
  /\ payments[p].life <= process.life
  /\ payments[p].life = process.life /\ Alive =>
       /\ pass[payments[p].round].phase = "refunding" \/ file[payments[p].round] = "finished"
       /\ payments[p].to \intersect pass[payments[p].round].todo = {}

\* Payments of one life for one round are for different backers.
PaidApart ==
  \A p, q \in DOMAIN payments :
    /\ p # q /\ payments[p].round = payments[q].round /\ payments[p].life = payments[q].life
    => payments[p].to \intersect payments[q].to = {}

\* The transaction whose answer is awaited is the round's last.
IsLast(r, p) ==
  /\ p \in DOMAIN payments /\ payments[p].round = r
  /\ \A q \in DOMAIN payments : payments[q].round = r => q <= p
ChunkFits(r) ==
  pass[r].chunk # {} => \E p \in DOMAIN payments : IsLast(r, p) /\ payments[p].to = pass[r].chunk

\* The signature of a record is a payment's to that backer, and a completed
\* record has one that landed.
RefundStatuses == {"skipped", "pending", "in_progress", "completed", "failed"}
PaysFor(p, r, w) ==
  p \in DOMAIN payments /\ payments[p].round = r /\ w \in payments[p].to
RecordFits(r, w) ==
  /\ DOMAIN refunds[r][w] = {"status", "amount", "pending"}
  /\ refunds[r][w].status \in RefundStatuses
  /\ refunds[r][w].pending # 0 => PaysFor(refunds[r][w].pending, r, w)
  /\ refunds[r][w].status = "completed" => Landed(r, w) # {}

PassesFit == \A r \in Rounds : PassFits(r) /\ PlanFits(r) /\ ChunkFits(r)
PaymentsFit == \A p \in DOMAIN payments : PaymentFits(p)
RecordsFit == \A r \in Rounds : \A w \in DOMAIN refunds[r] : RecordFits(r, w)

IInv ==
  RoundTypes /\ PassesFit /\ DeadIsIdle /\ PaymentsFit /\ PaidApart /\ RecordsFit

-----------------------------------------------------------------------------
(* Steps that leave payments and refunds alone.                            *)

\* The payments are numbered from one.
LEMMA Payments ==
  ASSUME IInv
  PROVE  /\ Len(payments) \in Nat /\ DOMAIN payments = 1..Len(payments)
         /\ \A p \in DOMAIN payments :
              /\ payments[p] \in PaymentType
              /\ payments[p].round \in Rounds /\ payments[p].life \in Nat
<1>1. payments \in Seq(PaymentType)
  BY DEF IInv, RoundTypes
<1>2. /\ Len(payments) \in Nat /\ DOMAIN payments = 1..Len(payments)
      /\ \A p \in DOMAIN payments : payments[p] \in PaymentType
  BY <1>1, LenProperties, ElementOfSeq
<1>3. \A x \in PaymentType : x.round \in Rounds /\ x.life \in Nat
  BY DEF PaymentType
<1> QED
  BY <1>2, <1>3

\* A step that changes neither the passes, the registry and the files nor the
\* refunds and payments.
Quiet ==
  /\ UNCHANGED <<process, file, pass, refunds, payments>>
  /\ \A r \in Rounds : r \in running' <=> r \in running

\* Such a step keeps the invariant: nothing it speaks of has changed.
LEMMA QuietKeepsIInv == IInv /\ Quiet => IInv'
<1> SUFFICES ASSUME IInv, Quiet PROVE IInv'
  OBVIOUS
<1>u. /\ process' = process /\ file' = file /\ pass' = pass
      /\ refunds' = refunds /\ payments' = payments
  BY DEF Quiet
<1>1. RoundTypes' /\ DeadIsIdle' /\ PaidApart'
  BY <1>u DEF IInv, RoundTypes, DeadIsIdle, PaidApart
<1>2. PassesFit'
  BY <1>u DEF IInv, PassesFit, PassFits, PlanFits, ChunkFits, IsLast, Quiet
<1>3. PaymentsFit'
  BY <1>u DEF IInv, PaymentsFit, PaymentFits, Alive
<1>4. RecordsFit'
  BY <1>u DEF IInv, RecordsFit, RecordFits, PaysFor, Landed
<1> QED
  BY <1>1, <1>2, <1>3, <1>4 DEF IInv

\* A step that takes one round from one phase to another.
PassMoves(r) ==
  /\ Alive /\ UNCHANGED <<process, refunds, payments>>
  /\ \A q \in Rounds : q # r => pass'[q] = pass[q] /\ file'[q] = file[q]
                                /\ (q \in running' <=> q \in running)
  /\ pass'[r].todo = pass[r].todo /\ pass'[r].chunk = pass[r].chunk
  /\ (pass[r].phase = "refunding" \/ file[r] = "finished")
       => (pass'[r].phase = "refunding" \/ file'[r] = "finished")
  /\ pass' \in [Rounds -> PassType]
  /\ file' \in [Rounds -> {"none", "open", "finished"}]
  /\ PassFits(r)'

\* Such a step keeps the invariant.
LEMMA PassStep ==
  ASSUME IInv, NEW r \in Rounds, PassMoves(r)
  PROVE  IInv'
<1>u. process' = process /\ refunds' = refunds /\ payments' = payments
  BY DEF PassMoves
<1>1. RoundTypes'
  BY <1>u DEF IInv, RoundTypes, PassMoves
<1>2. \A q \in Rounds : pass'[q].todo = pass[q].todo /\ pass'[q].chunk = pass[q].chunk
  BY DEF PassMoves
<1>3. PassesFit'
  <2> SUFFICES ASSUME NEW q \in Rounds PROVE PassFits(q)' /\ PlanFits(q)' /\ ChunkFits(q)'
    BY DEF PassesFit
  <2>1. PassFits(q) /\ PlanFits(q) /\ ChunkFits(q)
    BY DEF IInv, PassesFit
  <2>2. PassFits(q)'
    <3>1. CASE q = r
      BY <3>1 DEF PassMoves
    <3>2. CASE q # r
      BY <3>2, <2>1 DEF PassMoves, PassFits
    <3> QED
      BY <3>1, <3>2
  <2> QED
    BY <2>1, <2>2, <1>2, <1>u DEF PlanFits, ChunkFits, IsLast
<1>4. DeadIsIdle' /\ PaidApart'
  BY <1>u DEF IInv, DeadIsIdle, PaidApart, PassMoves, Alive
<1>5. PaymentsFit'
  <2> SUFFICES ASSUME NEW p \in DOMAIN payments PROVE PaymentFits(p)'
    BY <1>u DEF PaymentsFit
  <2>1. payments[p].round \in Rounds
    BY Payments
  <2>2. PaymentFits(p)
    BY DEF IInv, PaymentsFit
  <2> QED
    BY <1>u, <1>2, <2>1, <2>2 DEF PaymentFits, PassMoves, Alive
<1>6. RecordsFit'
  BY <1>u DEF IInv, RecordsFit, RecordFits, PaysFor, Landed
<1> QED
  BY <1>1, <1>3, <1>4, <1>5, <1>6 DEF IInv

\* Entering a phase changes that round's pass alone, and nothing in it but the
\* phase and whether it buys.
LEMMA Enters ==
  ASSUME pass \in [Rounds -> PassType], NEW r \in Rounds, NEW phase \in PassPhases,
         NEW buying \in BOOLEAN, Enter(r, phase, buying)
  PROVE  /\ pass' \in [Rounds -> PassType]
         /\ \A q \in Rounds : q # r => pass'[q] = pass[q]
         /\ pass'[r].phase = phase /\ pass'[r].buying = buying
         /\ pass'[r].todo = pass[r].todo /\ pass'[r].chunk = pass[r].chunk
<1>1. pass[r] \in PassType
  OBVIOUS
<1>2. [[pass[r] EXCEPT !.phase = phase] EXCEPT !.buying = buying] \in PassType
  BY <1>1 DEF PassType
<1>3. pass' = [pass EXCEPT ![r] = [[pass[r] EXCEPT !.phase = phase] EXCEPT !.buying = buying]]
  BY DEF Enter
<1>4. pass'[r] = [[pass[r] EXCEPT !.phase = phase] EXCEPT !.buying = buying]
  BY <1>3
<1>5. pass' \in [Rounds -> PassType]
  BY <1>2, <1>3
<1>6. \A q \in Rounds : q # r => pass'[q] = pass[q]
  BY <1>3
<1>7. /\ pass'[r].phase = phase /\ pass'[r].buying = buying
      /\ pass'[r].todo = pass[r].todo /\ pass'[r].chunk = pass[r].chunk
  BY <1>1, <1>4 DEF PassType
<1> QED
  BY <1>5, <1>6, <1>7

\* Starting a round, trading, and the round's end.
LEMMA RoundKeepsIInv ==
  ASSUME IInv, NEW r \in Rounds,
         \/ Execute(r) \/ InitFails(r) \/ CreateState(r) \/ BuyingEnds(r)
         \/ TradingEnds(r) \/ SendingBreaks(r) \/ Finalize(r)
  PROVE  IInv'
<1>t. /\ pass \in [Rounds -> PassType] /\ pass[r].phase \in PassPhases
      /\ pass[r].buying \in BOOLEAN
      /\ file \in [Rounds -> {"none", "open", "finished"}]
      /\ process.state \in {"up", "stopping", "down"}
  BY DEF IInv, RoundTypes, PassType
<1>f. PassFits(r)
  BY DEF IInv, PassesFit
<1>1. CASE Execute(r)
  <2>1. /\ Enter(r, "starting", pass[r].buying) /\ Alive
        /\ process' = process /\ refunds' = refunds /\ payments' = payments /\ file' = file
        /\ running' = running \union {r} /\ r \notin running /\ file[r] = "none"
    BY <1>1 DEF Execute, procVars, planVars, FreeToStart, Alive
  <2> QED
    BY <2>1, <1>t, <1>f, Enters, PassStep DEF PassMoves, PassFits, PassPhases
<1>2. CASE InitFails(r)
  <2>1. /\ Enter(r, "none", pass[r].buying) /\ Alive /\ pass[r].phase = "starting"
        /\ process' = process /\ refunds' = refunds /\ payments' = payments /\ file' = file
        /\ running' = running \ {r}
    BY <1>2 DEF InitFails, procVars, planVars
  <2> QED
    BY <2>1, <1>t, <1>f, Enters, PassStep DEF PassMoves, PassFits, PassPhases
<1>3. CASE CreateState(r)
  <2>1. /\ Enter(r, "trading", Lots[r] > 0) /\ Alive /\ pass[r].phase = "starting"
        /\ process' = process /\ refunds' = refunds /\ payments' = payments
        /\ file' = [file EXCEPT ![r] = "open"] /\ running' = running
    BY <1>3 DEF CreateState, procVars, planVars
  <2>2. (Lots[r] > 0) \in BOOLEAN
    BY RoundAssumption
  <2>3. /\ pass' = [pass EXCEPT ![r].phase = "trading", ![r].buying = (Lots[r] > 0)]
        /\ file'[r] = "open" /\ \A q \in Rounds \ {r} : file'[q] = file[q]
    BY <2>1, <1>t DEF Enter
  <2>4. /\ pass' \in [Rounds -> PassType] /\ \A q \in Rounds : q # r => pass'[q] = pass[q]
        /\ pass'[r].phase = "trading" /\ pass'[r].todo = pass[r].todo /\ pass'[r].chunk = pass[r].chunk
    BY <2>1, <2>2, <1>t, Enters DEF PassPhases
  <2>5. file' \in [Rounds -> {"none", "open", "finished"}] /\ file[r] = "none"
    BY <2>1, <1>t, <1>f DEF PassFits
  <2>6. PassFits(r)'
    BY <2>1, <2>3, <2>4, <1>f DEF PassFits
  <2>7. PassMoves(r)
    BY <2>1, <2>3, <2>4, <2>5, <2>6 DEF PassMoves
  <2> QED
    BY <2>7, PassStep
<1>4. CASE BuyingEnds(r)
  <2>1. /\ Alive /\ pass[r].buying /\ pass' = [pass EXCEPT ![r].buying = FALSE]
        /\ process' = process /\ refunds' = refunds /\ payments' = payments
        /\ file' = file /\ running' = running
    BY <1>4 DEF BuyingEnds, procVars, planVars
  <2>2. Enter(r, pass[r].phase, FALSE)
    BY <2>1, <1>t DEF Enter, PassType
  <2>3. /\ pass' \in [Rounds -> PassType]
        /\ \A q \in Rounds : q # r => pass'[q] = pass[q]
        /\ pass'[r].phase = pass[r].phase /\ pass'[r].buying = FALSE
        /\ pass'[r].todo = pass[r].todo /\ pass'[r].chunk = pass[r].chunk
    BY <2>2, <1>t, Enters
  <2>4. PassMoves(r)
    BY <2>1, <2>3, <1>t, <1>f DEF PassMoves, PassFits
  <2> QED
    BY <2>4, PassStep
<1>5. CASE TradingEnds(r)
  <2>1. /\ Enter(r, "settled", FALSE) /\ Alive /\ pass[r].phase = "trading"
        /\ process' = process /\ refunds' = refunds /\ payments' = payments
        /\ file' = file /\ running' = running
    BY <1>5 DEF TradingEnds, procVars, planVars
  <2> QED
    BY <2>1, <1>t, <1>f, Enters, PassStep DEF PassMoves, PassFits, PassPhases
<1>6. CASE SendingBreaks(r)
  <2>1. /\ Enter(r, "settled", pass[r].buying) /\ Alive /\ pass[r].phase = "trading"
        /\ process' = process /\ refunds' = refunds /\ payments' = payments
        /\ file' = file /\ running' = running
    BY <1>6 DEF SendingBreaks, procVars, planVars
  <2> QED
    BY <2>1, <1>t, <1>f, Enters, PassStep DEF PassMoves, PassFits, PassPhases
<1>7. CASE Finalize(r)
  <2>1. /\ Enter(r, "none", pass[r].buying) /\ Alive /\ pass[r].phase = "refunding"
        /\ pass[r].todo = {} /\ pass[r].chunk = {}
        /\ process' = process /\ refunds' = refunds /\ payments' = payments
        /\ file' = [file EXCEPT ![r] = "finished"] /\ running' = running \ {r}
    BY <1>7 DEF Finalize, procVars, planVars, ToPay
  <2> QED
    BY <2>1, <1>t, <1>f, Enters, PassStep DEF PassMoves, PassFits, PassPhases
<1> QED
  BY <1>1, <1>2, <1>3, <1>4, <1>5, <1>6, <1>7

-----------------------------------------------------------------------------
(* The refunds.                                                            *)

\* What a plan makes: a record for each backer, none of them paid, or no plan.
LEMMA PlanIsNew ==
  ASSUME NEW r \in Rounds, NEW unspent
  PROVE  LET plan == RefundPlan(unspent, Stake[r], BatchSize)
         IN  /\ DOMAIN plan \subseteq Backers(r)
             /\ \A w \in DOMAIN plan :
                  /\ DOMAIN plan[w] = {"status", "amount", "pending"}
                  /\ plan[w].status \in {"skipped", "pending"} /\ plan[w].pending = 0
<1> DEFINE total == SumFunction(Stake[r])
           Net(w) == (unspent * Stake[r][w]) \div total
                       - FeePerRecipient(Cardinality(DOMAIN Stake[r]), BatchSize)
           plan == RefundPlan(unspent, Stake[r], BatchSize)
<1>1. plan = IF unspent < MinUnspent THEN <<>> ELSE [w \in DOMAIN Stake[r] |-> Due(Net(w))]
  BY DEF RefundPlan
<1> HIDE DEF plan, Net
<1>2. ASSUME NEW net
      PROVE  /\ DOMAIN Due(net) = {"status", "amount", "pending"}
             /\ Due(net).status \in {"skipped", "pending"} /\ Due(net).pending = 0
  BY DEF Due
<1>3. DOMAIN plan \subseteq Backers(r)
  BY <1>1 DEF Backers
<1>4. ASSUME NEW w \in DOMAIN plan PROVE plan[w] = Due(Net(w))
  BY <1>1, <1>4
<1>5. \A w \in DOMAIN plan :
        /\ DOMAIN plan[w] = {"status", "amount", "pending"}
        /\ plan[w].status \in {"skipped", "pending"} /\ plan[w].pending = 0
  BY <1>2, <1>4
<1> QED
  BY <1>3, <1>5 DEF plan

\* The refunds of one round may change, with its pass; payments only at their end,
\* where one for that round may be added.
RefundMoves(r) ==
  /\ Alive /\ UNCHANGED <<process, file, running>>
  /\ pass[r].phase # "none" /\ pass'[r].phase # "none"
  /\ \A q \in Rounds : q # r => pass'[q] = pass[q] /\ refunds'[q] = refunds[q]
  /\ pass' \in [Rounds -> PassType] /\ DOMAIN refunds' = Rounds
  /\ PassFits(r)' /\ PlanFits(r)' /\ ChunkFits(r)'
  /\ \A w \in DOMAIN refunds'[r] : RecordFits(r, w)'

\* Such a step keeps the invariant, if no payment is made; whoever is to be paid was
\* to be paid before, or nobody was paid yet.
LEMMA RefundStep ==
  ASSUME IInv, NEW r \in Rounds, RefundMoves(r), payments' = payments,
         \/ pass[r].phase = "settled"
         \/ pass[r].phase = "refunding" /\ pass'[r].phase = "refunding"
            /\ pass'[r].todo \subseteq pass[r].todo
  PROVE  IInv'
<1>u. process' = process /\ file' = file /\ running' = running /\ payments' = payments
  BY DEF RefundMoves
<1>1. RoundTypes' /\ DeadIsIdle' /\ PaidApart'
  BY <1>u DEF IInv, RoundTypes, DeadIsIdle, PaidApart, RefundMoves, Alive
<1>2. PassesFit'
  <2> SUFFICES ASSUME NEW q \in Rounds PROVE PassFits(q)' /\ PlanFits(q)' /\ ChunkFits(q)'
    BY DEF PassesFit
  <2>1. PassFits(q) /\ PlanFits(q) /\ ChunkFits(q)
    BY DEF IInv, PassesFit
  <2>2. CASE q = r
    BY <2>2 DEF RefundMoves
  <2>3. CASE q # r
    <3>1. pass'[q] = pass[q] /\ refunds'[q] = refunds[q]
      BY <2>3 DEF RefundMoves
    <3> QED
      BY <2>1, <3>1, <1>u DEF PassFits, PlanFits, ChunkFits, IsLast
  <2> QED
    BY <2>2, <2>3
<1>3. PaymentsFit'
  <2> SUFFICES ASSUME NEW p \in DOMAIN payments PROVE PaymentFits(p)'
    BY <1>u DEF PaymentsFit
  <2>1. payments[p].round \in Rounds
    BY Payments
  <2>2. PaymentFits(p)
    BY DEF IInv, PaymentsFit
  <2>3. CASE payments[p].round # r
    BY <1>u, <2>1, <2>2, <2>3 DEF PaymentFits, RefundMoves, Alive
  <2>4. CASE payments[p].round = r
    <3>1. PassFits(r)
      BY DEF IInv, PassesFit
    <3> QED
      BY <1>u, <2>2, <2>4, <3>1 DEF PaymentFits, PassFits, Alive
  <2> QED
    BY <2>3, <2>4
<1>4. RecordsFit'
  <2> SUFFICES ASSUME NEW q \in Rounds, NEW w \in DOMAIN refunds'[q] PROVE RecordFits(q, w)'
    BY DEF RecordsFit
  <2>1. CASE q = r
    BY <2>1 DEF RefundMoves
  <2>2. CASE q # r
    <3>1. refunds'[q] = refunds[q]
      BY <2>2 DEF RefundMoves
    <3>2. RecordFits(q, w)
      BY <3>1 DEF IInv, RecordsFit
    <3> QED
      BY <3>1, <3>2, <1>u DEF RecordFits, PaysFor, Landed
  <2> QED
    BY <2>1, <2>2
<1> QED
  BY <1>1, <1>2, <1>3, <1>4 DEF IInv

\* Everybody who has a planned refund is a backer of some round.
LEMMA PlannedAreBackers ==
  ASSUME NEW r \in Rounds
  PROVE  Backers(r) \subseteq Everybody
BY DEF Everybody

\* refundUnspent: the plan is made only where there is none, and nobody was paid in
\* this life before it.
LEMMA PlanKeepsIInv ==
  ASSUME IInv, NEW r \in Rounds, PlanRefunds(r)
  PROVE  IInv'
<1>f. PassFits(r) /\ PlanFits(r) /\ ChunkFits(r)
  BY DEF IInv, PassesFit
<1>t. /\ pass \in [Rounds -> PassType] /\ pass[r] \in PassType
      /\ DOMAIN refunds = Rounds
  BY DEF IInv, RoundTypes
<1>1. /\ Alive /\ pass[r].phase = "settled"
      /\ process' = process /\ file' = file /\ running' = running /\ payments' = payments
      /\ pass' = [pass EXCEPT ![r].phase = "refunding", ![r].todo = PendingRefunds(r)']
  BY DEF PlanRefunds, procVars
<1>2. \/ refunds' = refunds
      \/ \E unspent : refunds' = [refunds EXCEPT ![r] = RefundPlan(unspent, Stake[r], BatchSize)]
  BY DEF PlanRefunds
<1>3. /\ DOMAIN refunds' = Rounds
      /\ \A q \in Rounds : q # r => refunds'[q] = refunds[q]
  BY <1>2, <1>t
<1>4. /\ DOMAIN refunds'[r] \subseteq Backers(r)
      /\ \A w \in DOMAIN refunds'[r] : RecordFits(r, w)'
  <2>1. CASE refunds' = refunds
    <3>1. \A w \in DOMAIN refunds[r] : RecordFits(r, w)
      BY DEF IInv, RecordsFit
    <3> QED
      BY <2>1, <3>1, <1>1, <1>f DEF RecordFits, PaysFor, Landed, PlanFits
  <2>2. ASSUME NEW unspent,
               refunds' = [refunds EXCEPT ![r] = RefundPlan(unspent, Stake[r], BatchSize)]
        PROVE  <1>4!1 /\ <1>4!2
    <3>1. refunds'[r] = RefundPlan(unspent, Stake[r], BatchSize)
      BY <2>2, <1>t
    <3> QED
      BY <3>1, PlanIsNew DEF RecordFits, RefundStatuses
  <2> QED
    BY <1>2, <2>1, <2>2
<1> DEFINE due == PendingRefunds(r)'
<1>5. due \subseteq DOMAIN refunds'[r] /\ due \in SUBSET Everybody
  BY <1>4, PlannedAreBackers DEF PendingRefunds
<1> HIDE DEF due
<1>6. [[pass[r] EXCEPT !.phase = "refunding"] EXCEPT !.todo = due] \in PassType
  BY <1>t, <1>5 DEF PassType, PassPhases
<1>7. pass' = [pass EXCEPT ![r] = [[pass[r] EXCEPT !.phase = "refunding"] EXCEPT !.todo = due]]
  BY <1>1 DEF due
<1>8. /\ pass' \in [Rounds -> PassType]
      /\ \A q \in Rounds : q # r => pass'[q] = pass[q]
      /\ pass'[r] = [[pass[r] EXCEPT !.phase = "refunding"] EXCEPT !.todo = due]
  BY <1>6, <1>7, <1>t
<1>9. /\ pass'[r].phase = "refunding" /\ pass'[r].todo = due
      /\ pass'[r].chunk = pass[r].chunk /\ pass'[r].buying = pass[r].buying
  BY <1>8, <1>t DEF PassType
<1>10. PassFits(r)'
  BY <1>1, <1>9, <1>f DEF PassFits
<1>11. PlanFits(r)' /\ ChunkFits(r)'
  BY <1>1, <1>4, <1>5, <1>9, <1>f DEF PassFits, PlanFits, ChunkFits
<1>12. RefundMoves(r)
  BY <1>1, <1>3, <1>4, <1>8, <1>9, <1>10, <1>11 DEF RefundMoves
<1> QED
  BY <1>1, <1>12, RefundStep

\* Payments are only ever added, and none is forgotten for it.
LEMMA PaymentsStay ==
  ASSUME IInv, NEW r \in Rounds, NEW w, NEW p,
         payments' = payments \/ \E x \in PaymentType : payments' = Append(payments, x)
  PROVE  /\ PaysFor(p, r, w) => PaysFor(p, r, w)'
         /\ Landed(r, w) # {} => Landed(r, w)' # {}
<1>1. CASE payments' = payments
  BY <1>1 DEF PaysFor, Landed
<1>2. ASSUME NEW x \in PaymentType, payments' = Append(payments, x)
      PROVE  \A q \in DOMAIN payments : q \in DOMAIN payments' /\ payments'[q] = payments[q]
  <2>1. payments \in Seq(PaymentType)
    BY DEF IInv, RoundTypes
  <2>2. /\ Len(payments') = Len(payments) + 1 /\ payments' \in Seq(PaymentType)
        /\ \A q \in 1..Len(payments) : payments'[q] = payments[q]
    BY <2>1, <1>2, AppendProperties
  <2>3. DOMAIN payments' = 1..(Len(payments) + 1) /\ DOMAIN payments = 1..Len(payments)
    BY <2>1, <2>2, LenProperties
  <2>4. Len(payments) \in Nat
    BY <2>1, LenProperties
  <2> QED
    BY <2>2, <2>3, <2>4
<1> QED
  BY <1>1, <1>2 DEF PaysFor, Landed

\* What sendChunk writes down before the answer.
Writes(r, arrived, ready, status, out) ==
  refunds' = [refunds EXCEPT ![r] = [w \in DOMAIN refunds[r] |->
    CASE w \in arrived -> [refunds[r][w] EXCEPT !.status = "completed", !.pending = 0]
      [] w \in ready   -> [refunds[r][w] EXCEPT !.status = status,
                             !.pending = IF out THEN @ ELSE 0]
      [] OTHER         -> refunds[r][w]]]

\* It completes only whose payment landed, and gives nobody another's signature.
LEMMA WritesFit ==
  ASSUME IInv, NEW r \in Rounds, NEW arrived, NEW ready, arrived \intersect ready = {},
         NEW out \in BOOLEAN,
         NEW status \in {"in_progress", "failed"}, Writes(r, arrived, ready, status, out),
         \A w \in arrived : w \in DOMAIN refunds[r] => Landed(r, w) # {},
         payments' = payments \/ \E x \in PaymentType : payments' = Append(payments, x)
  PROVE  /\ DOMAIN refunds' = Rounds
         /\ \A q \in Rounds : q # r => refunds'[q] = refunds[q]
         /\ DOMAIN refunds'[r] = DOMAIN refunds[r]
         /\ \A w \in DOMAIN refunds[r] : RecordFits(r, w)'
<1>1. DOMAIN refunds = Rounds
  BY DEF IInv, RoundTypes
<1>2. /\ DOMAIN refunds' = Rounds
      /\ \A q \in Rounds : q # r => refunds'[q] = refunds[q]
      /\ DOMAIN refunds'[r] = DOMAIN refunds[r]
  BY <1>1 DEF Writes
<1>3. ASSUME NEW w \in DOMAIN refunds[r] PROVE RecordFits(r, w)'
  <2>1. RecordFits(r, w)
    BY DEF IInv, RecordsFit
  <2>2. refunds'[r][w] =
          CASE w \in arrived -> [refunds[r][w] EXCEPT !.status = "completed", !.pending = 0]
            [] w \in ready   -> [refunds[r][w] EXCEPT !.status = status,
                                   !.pending = IF out THEN @ ELSE 0]
            [] OTHER         -> refunds[r][w]
    BY <1>1 DEF Writes
  <2>3. \A p : PaysFor(p, r, w) => PaysFor(p, r, w)'
    BY PaymentsStay
  <2>4. Landed(r, w) # {} => Landed(r, w)' # {}
    BY PaymentsStay
  <2>5. CASE w \in arrived
    <3>1. refunds'[r][w] = [refunds[r][w] EXCEPT !.status = "completed", !.pending = 0]
      BY <2>2, <2>5
    <3>2. /\ DOMAIN refunds'[r][w] = {"status", "amount", "pending"}
          /\ refunds'[r][w].status = "completed" /\ refunds'[r][w].pending = 0
      BY <3>1, <2>1 DEF RecordFits
    <3> QED
      BY <3>2, <2>4, <2>5 DEF RecordFits, RefundStatuses
  <2>6. CASE w \notin arrived /\ w \in ready
    <3>1. refunds'[r][w] = [refunds[r][w] EXCEPT !.status = status,
                              !.pending = IF out THEN refunds[r][w].pending ELSE 0]
      BY <2>2, <2>6
    <3>2. /\ DOMAIN refunds'[r][w] = {"status", "amount", "pending"}
          /\ refunds'[r][w].status = status
          /\ refunds'[r][w].pending \in {0, refunds[r][w].pending}
      BY <3>1, <2>1 DEF RecordFits
    <3> QED
      BY <3>2, <2>1, <2>3 DEF RecordFits, RefundStatuses
  <2>7. CASE w \notin arrived /\ w \notin ready
    <3>1. refunds'[r][w] = refunds[r][w]
      BY <2>2, <2>7
    <3> QED
      BY <3>1, <2>1, <2>3, <2>4 DEF RecordFits
  <2> QED
    BY <2>5, <2>6, <2>7
<1> QED
  BY <1>2, <1>3

\* The steps of sendChunk up to the answer that pay nothing.
SendsNothing(r, C, arrived, ready, status, out) ==
  /\ Writes(r, arrived, ready, status, out)
  /\ pass' = [pass EXCEPT ![r].todo = @ \ C]
  /\ payments' = payments

\* The step that pays: a transaction for those who are ready.
SendsPayment(r, C, arrived, ready) ==
  /\ Writes(r, arrived, ready, "in_progress", TRUE)
  /\ payments' = Append(payments, [round |-> r, to |-> ready, life |-> process.life,
                                   chain |-> "flying"])
  /\ pass' = [pass EXCEPT ![r].todo = @ \ C, ![r].chunk = ready]

\* Whom a chunk finds paid, and whom it pays.
Sorted(r, C, arrived, ready) ==
  /\ C \subseteq pass[r].todo /\ arrived \subseteq C /\ ready \subseteq C
  /\ arrived \intersect ready = {}
  /\ \A w \in arrived : refunds[r][w].pending # 0
                        /\ payments[refunds[r][w].pending].chain = "landed"

\* Every step of sendChunk up to the answer is one of these.
LEMMA ChunkSorts ==
  ASSUME NEW r, SendChunk(r)
  PROVE  \E C, arrived, ready :
           /\ Sorted(r, C, arrived, ready)
           /\ \/ SendsNothing(r, C, arrived, ready, "in_progress", TRUE)
              \/ SendsNothing(r, C, arrived, ready, "failed", FALSE)
              \/ SendsPayment(r, C, arrived, ready)
<1> DEFINE Asked(C) == {w \in C : refunds[r][w].pending # 0}
           Arrived(C, answer) == {w \in Asked(C) : answer[w] = "landed"}
           Ready(C, answer) == {w \in C : w \in Asked(C) => answer[w] = "absent"}
<1>a. PICK C \in Chunks(r) : \E answer \in [Asked(C) -> {"landed", "absent", "unknown"}] :
        /\ \A w \in Asked(C) : answer[w] \in Outcomes(refunds[r][w].pending)
        /\ \/ SendsNothing(r, C, Arrived(C, answer), Ready(C, answer), "in_progress", TRUE)
           \/ SendsNothing(r, C, Arrived(C, answer), Ready(C, answer), "failed", FALSE)
           \/ SendsPayment(r, C, Arrived(C, answer), Ready(C, answer))
  BY ZenonT(60) DEF SendChunk, SendsNothing, SendsPayment, Writes
<1>1. PICK answer \in [Asked(C) -> {"landed", "absent", "unknown"}] :
        /\ \A w \in Asked(C) : answer[w] \in Outcomes(refunds[r][w].pending)
        /\ \/ SendsNothing(r, C, Arrived(C, answer), Ready(C, answer), "in_progress", TRUE)
           \/ SendsNothing(r, C, Arrived(C, answer), Ready(C, answer), "failed", FALSE)
           \/ SendsPayment(r, C, Arrived(C, answer), Ready(C, answer))
  BY <1>a
<1>2. C \subseteq pass[r].todo
  BY DEF Chunks, ToPay
<1>3. \A w \in Asked(C) : "landed" \in Outcomes(refunds[r][w].pending)
                           => payments[refunds[r][w].pending].chain = "landed"
  BY DEF Outcomes
<1>4. Sorted(r, C, Arrived(C, answer), Ready(C, answer))
  BY <1>1, <1>2, <1>3 DEF Sorted
<1> QED
  BY <1>1, <1>4

\* Who is found paid has a payment that landed.
LEMMA ArrivedLanded ==
  ASSUME IInv, NEW r \in Rounds, NEW C, NEW arrived, NEW ready, Sorted(r, C, arrived, ready)
  PROVE  \A w \in arrived : w \in DOMAIN refunds[r] => Landed(r, w) # {}
<1> TAKE w \in arrived
<1> HAVE w \in DOMAIN refunds[r]
<1>1. RecordFits(r, w)
  BY DEF IInv, RecordsFit
<1>2. /\ refunds[r][w].pending # 0
      /\ payments[refunds[r][w].pending].chain = "landed"
  BY DEF Sorted
<1>3. refunds[r][w].pending \in Landed(r, w)
  BY <1>1, <1>2 DEF RecordFits, PaysFor, Landed
<1> QED
  BY <1>3

\* sendChunk, up to the answer, without a transaction.
LEMMA NothingSentKeepsIInv ==
  ASSUME IInv, NEW r \in Rounds, SendChunk(r), NEW C, NEW arrived, NEW ready,
         Sorted(r, C, arrived, ready), NEW out \in BOOLEAN,
         NEW status \in {"in_progress", "failed"},
         SendsNothing(r, C, arrived, ready, status, out)
  PROVE  IInv'
<1>f. PassFits(r) /\ PlanFits(r) /\ ChunkFits(r)
  BY DEF IInv, PassesFit
<1>t. pass \in [Rounds -> PassType] /\ pass[r] \in PassType
  BY DEF IInv, RoundTypes
<1>1. /\ Alive /\ pass[r].phase = "refunding" /\ pass[r].chunk = {}
      /\ process' = process /\ file' = file /\ running' = running
      /\ payments' = payments /\ pass' = [pass EXCEPT ![r].todo = @ \ C]
  BY DEF SendChunk, SendsNothing, procVars
<1>2. \A w \in arrived : w \in DOMAIN refunds[r] => Landed(r, w) # {}
  BY ArrivedLanded
<1>3. /\ DOMAIN refunds' = Rounds
      /\ \A q \in Rounds : q # r => refunds'[q] = refunds[q]
      /\ DOMAIN refunds'[r] = DOMAIN refunds[r]
      /\ \A w \in DOMAIN refunds[r] : RecordFits(r, w)'
  <2>1. /\ Writes(r, arrived, ready, status, out) /\ arrived \intersect ready = {}
        /\ payments' = payments
    BY DEF SendsNothing, Sorted
  <2> QED
    BY <1>2, <2>1, WritesFit, Zenon
<1>4. [pass[r] EXCEPT !.todo = pass[r].todo \ C] \in PassType
  BY <1>t DEF PassType
<1>5. /\ pass' \in [Rounds -> PassType]
      /\ \A q \in Rounds : q # r => pass'[q] = pass[q]
      /\ pass'[r] = [pass[r] EXCEPT !.todo = pass[r].todo \ C]
  BY <1>1, <1>4, <1>t
<1>6. /\ pass'[r].phase = pass[r].phase /\ pass'[r].todo = pass[r].todo \ C
      /\ pass'[r].chunk = pass[r].chunk /\ pass'[r].buying = pass[r].buying
  BY <1>5, <1>t DEF PassType
<1>7. PassFits(r)' /\ PlanFits(r)' /\ ChunkFits(r)'
  BY <1>1, <1>3, <1>6, <1>f DEF PassFits, PlanFits, ChunkFits
<1>8. RefundMoves(r)
  BY <1>1, <1>3, <1>5, <1>6, <1>7 DEF RefundMoves
<1> QED
  BY <1>1, <1>6, <1>8, RefundStep

\* The last payment of a round is the one LastPayment names.
LEMMA LastIsLast ==
  ASSUME IInv, NEW r \in Rounds, NEW p, IsLast(r, p)
  PROVE  LastPayment(r) = p
<1> DEFINE S == {q \in DOMAIN payments : payments[q].round = r}
<1>1. p \in S /\ \A q \in S : p >= q
  BY Payments DEF IsLast
<1>2. \A x \in S : (\A q \in S : x >= q) => x = p
  BY <1>1, Payments
<1>3. Max(S) = p
  BY <1>1, <1>2 DEF Max
<1> QED
  BY <1>3 DEF LastPayment

\* What the answer leaves of the records of a chunk.
LEMMA AnswerKeepsIInv ==
  ASSUME IInv, NEW r \in Rounds, ChunkAnswered(r)
  PROVE  IInv'
<1>f. PassFits(r) /\ PlanFits(r) /\ ChunkFits(r)
  BY DEF IInv, PassesFit
<1>t. pass \in [Rounds -> PassType] /\ pass[r] \in PassType /\ DOMAIN refunds = Rounds
  BY DEF IInv, RoundTypes
<1>1. /\ Alive /\ pass[r].chunk # {} /\ pass' = [pass EXCEPT ![r].chunk = {}]
      /\ process' = process /\ file' = file /\ running' = running
      /\ payments' = payments
  BY DEF ChunkAnswered, procVars
<1>2. PICK p \in DOMAIN payments : IsLast(r, p) /\ payments[p].to = pass[r].chunk
  BY <1>1, <1>f DEF ChunkFits
<1>3. LastPayment(r) = p
  BY <1>2, LastIsLast
<1>4. \E status \in RefundStatuses, pending \in {0, p} :
        /\ SetRefunds(r, pass[r].chunk, status, pending)
        /\ status = "completed" => payments[p].chain = "landed"
  BY <1>3 DEF ChunkAnswered, PaidStatus, RefundStatuses
<1>5. PICK status \in RefundStatuses, pending \in {0, p} :
        /\ SetRefunds(r, pass[r].chunk, status, pending)
        /\ status = "completed" => payments[p].chain = "landed"
  BY <1>4
<1>6. /\ DOMAIN refunds' = Rounds
      /\ \A q \in Rounds : q # r => refunds'[q] = refunds[q]
      /\ DOMAIN refunds'[r] = DOMAIN refunds[r]
      /\ \A w \in DOMAIN refunds[r] : refunds'[r][w] =
           IF w \in pass[r].chunk
           THEN [refunds[r][w] EXCEPT !.status = status, !.pending = pending]
           ELSE refunds[r][w]
  BY <1>5, <1>t DEF SetRefunds
<1>7. ASSUME NEW w \in DOMAIN refunds[r] PROVE RecordFits(r, w)'
  <2>1. RecordFits(r, w)
    BY DEF IInv, RecordsFit
  <2>2. CASE w \in pass[r].chunk
    <3>1. /\ DOMAIN refunds'[r][w] = {"status", "amount", "pending"}
          /\ refunds'[r][w].status = status /\ refunds'[r][w].pending = pending
      BY <1>6, <2>1, <2>2 DEF RecordFits
    <3>2. PaysFor(p, r, w)
      BY <1>2, <2>2 DEF PaysFor, IsLast
    <3> QED
      BY <1>1, <1>5, <3>1, <3>2 DEF RecordFits, PaysFor, Landed
  <2>3. CASE w \notin pass[r].chunk
    BY <1>1, <1>6, <2>1, <2>3 DEF RecordFits, PaysFor, Landed
  <2> QED
    BY <2>2, <2>3
<1>8. [pass[r] EXCEPT !.chunk = {}] \in PassType
  BY <1>t DEF PassType
<1>9. /\ pass' \in [Rounds -> PassType]
      /\ \A q \in Rounds : q # r => pass'[q] = pass[q]
      /\ pass'[r] = [pass[r] EXCEPT !.chunk = {}]
  BY <1>1, <1>8, <1>t
<1>10. /\ pass'[r].phase = pass[r].phase /\ pass'[r].todo = pass[r].todo
       /\ pass'[r].chunk = {} /\ pass'[r].buying = pass[r].buying
  BY <1>9, <1>t DEF PassType
<1>11. PassFits(r)' /\ PlanFits(r)' /\ ChunkFits(r)' /\ pass[r].phase = "refunding"
  BY <1>1, <1>6, <1>10, <1>f DEF PassFits, PlanFits, ChunkFits
<1>12. RefundMoves(r)
  BY <1>1, <1>6, <1>7, <1>9, <1>10, <1>11 DEF RefundMoves
<1> QED
  BY <1>1, <1>10, <1>11, <1>12, RefundStep

\* sendChunk, up to the answer, with a transaction: those it pays were to be paid, so
\* that no payment of this life was theirs.
LEMMA PaymentSentKeepsIInv ==
  ASSUME IInv, NEW r \in Rounds, SendChunk(r), NEW C, NEW arrived, NEW ready,
         Sorted(r, C, arrived, ready), SendsPayment(r, C, arrived, ready)
  PROVE  IInv'
<1> DEFINE new == [round |-> r, to |-> ready, life |-> process.life, chain |-> "flying"]
           n == Len(payments) + 1
<1>f. PassFits(r) /\ PlanFits(r) /\ ChunkFits(r)
  BY DEF IInv, PassesFit
<1>t. /\ pass \in [Rounds -> PassType] /\ pass[r] \in PassType
      /\ process.life \in Nat /\ payments \in Seq(PaymentType)
  BY DEF IInv, RoundTypes
<1>s. ready \subseteq pass[r].todo /\ ready \subseteq Everybody
  BY <1>t DEF Sorted, PassType
<1>1. /\ Alive /\ pass[r].phase = "refunding" /\ pass[r].chunk = {}
      /\ process' = process /\ file' = file /\ running' = running
  BY DEF SendChunk, procVars
<1>2. payments' = Append(payments, new) /\ new \in PaymentType
  BY <1>s, <1>t DEF SendsPayment, PaymentType
<1>3. /\ payments' \in Seq(PaymentType) /\ Len(payments) \in Nat
      /\ DOMAIN payments = 1..Len(payments) /\ DOMAIN payments' = 1..n
      /\ n \notin DOMAIN payments /\ n \in DOMAIN payments'
      /\ payments'[n] = new /\ \A p \in DOMAIN payments : payments'[p] = payments[p]
  <2>1. /\ Len(payments') = Len(payments) + 1 /\ payments' \in Seq(PaymentType)
        /\ \A q \in 1..Len(payments) : payments'[q] = payments[q]
        /\ payments'[Len(payments) + 1] = new
    BY <1>t, <1>2, AppendProperties
  <2>2. /\ DOMAIN payments' = 1..Len(payments') /\ DOMAIN payments = 1..Len(payments)
        /\ Len(payments) \in Nat
    BY <1>t, <2>1, LenProperties
  <2> HIDE DEF new
  <2> QED
    BY <2>1, <2>2
<1>4. \A p \in DOMAIN payments' : p = n \/ p \in DOMAIN payments
  BY <1>3
<1>5. n > Len(payments) /\ \A p \in DOMAIN payments' : p <= n
  BY <1>3
<1>6. new.round = r /\ new.to = ready /\ new.life = process.life
  OBVIOUS
<1> HIDE DEF new, n
<1>7. \A w \in arrived : w \in DOMAIN refunds[r] => Landed(r, w) # {}
  BY ArrivedLanded
<1>8. /\ DOMAIN refunds' = Rounds
      /\ \A q \in Rounds : q # r => refunds'[q] = refunds[q]
      /\ DOMAIN refunds'[r] = DOMAIN refunds[r]
      /\ \A w \in DOMAIN refunds[r] : RecordFits(r, w)'
  BY <1>2, <1>7, WritesFit DEF SendsPayment, Sorted
<1>9. [[pass[r] EXCEPT !.todo = pass[r].todo \ C] EXCEPT !.chunk = ready] \in PassType
  BY <1>t, <1>s DEF PassType
<1>10. pass' = [pass EXCEPT ![r] = [[pass[r] EXCEPT !.todo = pass[r].todo \ C]
                                     EXCEPT !.chunk = ready]]
  BY DEF SendsPayment
<1>11. /\ pass' \in [Rounds -> PassType]
       /\ \A q \in Rounds : q # r => pass'[q] = pass[q]
       /\ pass'[r] = [[pass[r] EXCEPT !.todo = pass[r].todo \ C] EXCEPT !.chunk = ready]
  BY <1>9, <1>10, <1>t
<1>12. /\ pass'[r].phase = "refunding" /\ pass'[r].todo = pass[r].todo \ C
       /\ pass'[r].chunk = ready /\ pass'[r].buying = pass[r].buying
  BY <1>1, <1>11, <1>t DEF PassType
<1>13. RoundTypes' /\ DeadIsIdle'
  BY <1>1, <1>3, <1>8, <1>11 DEF IInv, RoundTypes, DeadIsIdle, Alive
<1>14. PassesFit'
  <2> SUFFICES ASSUME NEW q \in Rounds PROVE PassFits(q)' /\ PlanFits(q)' /\ ChunkFits(q)'
    BY DEF PassesFit
  <2>1. PassFits(q) /\ PlanFits(q) /\ ChunkFits(q)
    BY DEF IInv, PassesFit
  <2>2. CASE q = r
    <3>1. PassFits(r)'
      BY <1>1, <1>12, <1>f DEF PassFits
    <3>2. PlanFits(r)'
      BY <1>8, <1>12, <1>s, <1>f DEF PlanFits
    <3>3. payments'[n].round = r /\ payments'[n].to = pass'[r].chunk
      BY <1>3, <1>6, <1>12
    <3>4. \E p \in DOMAIN payments' :
            /\ p \in DOMAIN payments' /\ payments'[p].round = r
            /\ \A o \in DOMAIN payments' : payments'[o].round = r => o <= p
            /\ payments'[p].to = pass'[r].chunk
      BY <3>3, <1>3, <1>5
    <3>5. ChunkFits(r)'
      BY <3>4 DEF ChunkFits, IsLast
    <3> QED
      BY <2>2, <3>1, <3>2, <3>5
  <2>3. CASE q # r
    <3>1. pass'[q] = pass[q] /\ refunds'[q] = refunds[q]
      BY <2>3, <1>8, <1>11
    <3>2. ASSUME NEW p \in DOMAIN payments, IsLast(q, p) PROVE IsLast(q, p)'
      BY <2>3, <3>2, <1>3, <1>4, <1>6 DEF IsLast
    <3>3. ChunkFits(q)'
      BY <2>1, <3>1, <3>2, <1>3 DEF ChunkFits
    <3> QED
      BY <2>1, <3>1, <3>3, <1>1 DEF PassFits, PlanFits
  <2> QED
    BY <2>2, <2>3
<1>15. PaymentsFit'
  <2> SUFFICES ASSUME NEW p \in DOMAIN payments' PROVE PaymentFits(p)'
    BY DEF PaymentsFit
  <2>1. CASE p = n
    BY <2>1, <1>1, <1>3, <1>6, <1>12, <1>t DEF PaymentFits, Sorted
  <2>2. CASE p # n
    <3>1. p \in DOMAIN payments /\ payments'[p] = payments[p]
      BY <2>2, <1>3, <1>4
    <3>2. PaymentFits(p) /\ payments[p].round \in Rounds
      BY <3>1, Payments DEF IInv, PaymentsFit
    <3>3. CASE payments[p].round = r
      BY <3>1, <3>2, <3>3, <1>1, <1>12 DEF PaymentFits, Alive
    <3>4. CASE payments[p].round # r
      BY <3>1, <3>2, <3>4, <1>1, <1>11 DEF PaymentFits, Alive
    <3> QED
      BY <3>3, <3>4
  <2> QED
    BY <2>1, <2>2
<1>16. PaidApart'
  <2>1. ASSUME NEW p \in DOMAIN payments, payments[p].round = r,
               payments[p].life = process.life
        PROVE  payments[p].to \intersect ready = {}
    <3>1. PaymentFits(p)
      BY DEF IInv, PaymentsFit
    <3> QED
      BY <2>1, <3>1, <1>1, <1>s DEF PaymentFits
  <2>2. ASSUME NEW p \in DOMAIN payments', NEW q \in DOMAIN payments', p # q,
               payments'[p].round = payments'[q].round, payments'[p].life = payments'[q].life
        PROVE  payments'[p].to \intersect payments'[q].to = {}
    <3>1. CASE p = n
      <4>1. q \in DOMAIN payments /\ payments'[q] = payments[q]
        BY <2>2, <3>1, <1>3, <1>4
      <4> QED
        BY <2>1, <2>2, <3>1, <4>1, <1>3, <1>6
    <3>2. CASE q = n
      <4>1. p \in DOMAIN payments /\ payments'[p] = payments[p]
        BY <2>2, <3>2, <1>3, <1>4
      <4> QED
        BY <2>1, <2>2, <3>2, <4>1, <1>3, <1>6
    <3>3. CASE p # n /\ q # n
      BY <2>2, <3>3, <1>3, <1>4 DEF IInv, PaidApart
    <3> QED
      BY <3>1, <3>2, <3>3
  <2> QED
    BY <2>2 DEF PaidApart
<1>17. RecordsFit'
  <2> SUFFICES ASSUME NEW q \in Rounds, NEW w \in DOMAIN refunds'[q] PROVE RecordFits(q, w)'
    BY DEF RecordsFit
  <2>1. CASE q = r
    BY <2>1, <1>8
  <2>2. CASE q # r
    <3>1. refunds'[q] = refunds[q] /\ w \in DOMAIN refunds[q]
      BY <2>2, <1>8
    <3>2. RecordFits(q, w)
      BY <3>1 DEF IInv, RecordsFit
    <3>3. \A p : PaysFor(p, q, w) => PaysFor(p, q, w)'
      BY <1>2, PaymentsStay
    <3>4. Landed(q, w) # {} => Landed(q, w)' # {}
      BY <1>2, PaymentsStay
    <3> QED
      BY <3>1, <3>2, <3>3, <3>4 DEF RecordFits
  <2> QED
    BY <2>1, <2>2
<1> QED
  BY <1>13, <1>14, <1>15, <1>16, <1>17 DEF IInv

\* A payment lands or is lost: what it was for stays, and what landed stays landed.
LEMMA ChainKeepsIInv ==
  ASSUME IInv, NEW p \in DOMAIN payments, PaymentEnds(p)
  PROVE  IInv'
<1>t. /\ payments \in Seq(PaymentType) /\ payments[p] \in PaymentType
      /\ payments[p].chain = "flying" /\ payments[p].round \in Rounds
  BY Payments DEF IInv, RoundTypes, PaymentEnds
<1>u. /\ process' = process /\ file' = file /\ pass' = pass
      /\ refunds' = refunds /\ running' = running
  BY DEF PaymentEnds, procVars
<1>1. PICK chain \in {"landed", "lost"} : payments' = [payments EXCEPT ![p].chain = chain]
  BY DEF PaymentEnds
<1>2. [payments[p] EXCEPT !.chain = chain] \in PaymentType
  BY <1>t DEF PaymentType
<1>3. /\ payments' = [payments EXCEPT ![p] = [payments[p] EXCEPT !.chain = chain]]
      /\ DOMAIN payments' = DOMAIN payments
      /\ \A q \in DOMAIN payments : q # p => payments'[q] = payments[q]
      /\ payments'[p] = [payments[p] EXCEPT !.chain = chain]
  BY <1>1
<1>4. payments' \in Seq(PaymentType)
  BY <1>t, <1>2, <1>3, ExceptSeq
<1>5. \A q \in DOMAIN payments :
        /\ payments'[q].round = payments[q].round /\ payments'[q].to = payments[q].to
        /\ payments'[q].life = payments[q].life
        /\ payments[q].chain = "landed" => payments'[q].chain = "landed"
  BY <1>3, <1>t DEF PaymentType
<1>6. RoundTypes' /\ DeadIsIdle'
  BY <1>u, <1>4 DEF IInv, RoundTypes, DeadIsIdle
<1>7. PaidApart'
  BY <1>3, <1>5 DEF IInv, PaidApart
<1>8. PaymentsFit'
  BY <1>u, <1>3, <1>5 DEF IInv, PaymentsFit, PaymentFits, Alive
<1>9. PassesFit'
  <2> SUFFICES ASSUME NEW r \in Rounds PROVE PassFits(r)' /\ PlanFits(r)' /\ ChunkFits(r)'
    BY DEF PassesFit
  <2>1. PassFits(r) /\ PlanFits(r) /\ ChunkFits(r)
    BY DEF IInv, PassesFit
  <2> QED
    BY <2>1, <1>u, <1>3, <1>5 DEF PassFits, PlanFits, ChunkFits, IsLast
<1>10. RecordsFit'
  <2> SUFFICES ASSUME NEW r \in Rounds, NEW w \in DOMAIN refunds[r] PROVE RecordFits(r, w)'
    BY <1>u DEF RecordsFit
  <2>1. RecordFits(r, w)
    BY DEF IInv, RecordsFit
  <2> QED
    BY <2>1, <1>u, <1>3, <1>5 DEF RecordFits, PaysFor, Landed
<1> QED
  BY <1>6, <1>7, <1>8, <1>9, <1>10 DEF IInv

\* A death drops every pass; a start begins a life in which nobody was paid yet.
LEMMA ProcessKeepsIInv ==
  ASSUME IInv, Die \/ Start \/ Stop
  PROVE  IInv'
<1>t. process \in [state : {"up", "stopping", "down"}, life : Nat]
  BY DEF IInv, RoundTypes
<1>u. /\ file' = file /\ refunds' = refunds /\ payments' = payments
      /\ process'.life \in Nat /\ process.life <= process'.life
      /\ process' \in [state : {"up", "stopping", "down"}, life : Nat]
  BY <1>t DEF Die, Start, Stop, planVars
<1>1. CASE Die
  <2>1. /\ running' = {} /\ pass' = [r \in Rounds |-> Idle] /\ process'.state = "down"
        /\ process'.life = process.life
    BY <1>1, <1>t DEF Die
  <2>2. Idle \in PassType /\ Idle.phase = "none" /\ ~Idle.buying /\ Idle.todo = {}
        /\ Idle.chunk = {}
    BY DEF Idle, PassType, PassPhases
  <2>3. pass' \in [Rounds -> PassType] /\ \A r \in Rounds : pass'[r] = Idle
    BY <2>1, <2>2
  <2>4. RoundTypes' /\ DeadIsIdle' /\ PaidApart'
    BY <1>u, <2>3 DEF IInv, RoundTypes, DeadIsIdle, PaidApart
  <2>5. PassesFit'
    BY <1>u, <2>1, <2>2, <2>3 DEF IInv, PassesFit, PassFits, PlanFits, ChunkFits
  <2>6. PaymentsFit'
    BY <1>u, <2>1 DEF IInv, PaymentsFit, PaymentFits, Alive
  <2>7. RecordsFit'
    BY <1>u DEF IInv, RecordsFit, RecordFits, PaysFor, Landed
  <2> QED
    BY <2>4, <2>5, <2>6, <2>7 DEF IInv
<1>2. CASE Start \/ Stop
  <2>1. running' = running /\ pass' = pass /\ process'.state # "down"
    BY <1>2, <1>t DEF Start, Stop
  <2>2. \/ process'.life = process.life /\ Alive
        \/ process'.life = process.life + 1
    BY <1>2, <1>t DEF Start, Stop, Alive
  <2>3. RoundTypes' /\ DeadIsIdle' /\ PaidApart'
    BY <1>u, <2>1 DEF IInv, RoundTypes, DeadIsIdle, PaidApart
  <2>4. PassesFit'
    BY <1>u, <2>1 DEF IInv, PassesFit, PassFits, PlanFits, ChunkFits, IsLast
  <2>5. PaymentsFit'
    <3> SUFFICES ASSUME NEW p \in DOMAIN payments PROVE PaymentFits(p)'
      BY <1>u DEF PaymentsFit
    <3>1. PaymentFits(p) /\ payments[p].life \in Nat
      BY Payments DEF IInv, PaymentsFit
    <3>2. process.life \in Nat
      BY <1>t
    <3>3. payments'[p].life <= process'.life
      BY <1>u, <3>1, <3>2 DEF PaymentFits
    <3>4. CASE process'.life = process.life /\ Alive
      BY <1>u, <2>1, <3>1, <3>3, <3>4 DEF PaymentFits
    <3>5. CASE process'.life = process.life + 1
      <4>1. payments'[p].life # process'.life
        BY <1>u, <3>1, <3>2, <3>5 DEF PaymentFits
      <4> QED
        BY <4>1, <3>3 DEF PaymentFits
    <3> QED
      BY <2>2, <3>4, <3>5
  <2>6. RecordsFit'
    BY <1>u DEF IInv, RecordsFit, RecordFits, PaysFor, Landed
  <2> QED
    BY <2>3, <2>4, <2>5, <2>6 DEF IInv
<1> QED
  BY <1>1, <1>2

\* resumeLottery: a round with an open file that is not running buys for nobody.
LEMMA ResumeKeepsIInv ==
  ASSUME IInv, ResumeNext
  PROVE  IInv'
<1>r. PICK r : r = Head(queue)
  OBVIOUS
<1>1. /\ Alive /\ r \notin running /\ file[r] = "open" /\ Resume(r)
      /\ running' = running \union {r} /\ process' = process /\ file' = file
      /\ refunds' = refunds /\ payments' = payments
  BY <1>r DEF ResumeNext, procVars, planVars
<1>t. pass \in [Rounds -> PassType] /\ file \in [Rounds -> {"none", "open", "finished"}]
  BY DEF IInv, RoundTypes
<1>2. PICK buying \in BOOLEAN : Enter(r, "trading", buying)
  <2>1. \E again : Enter(r, "trading", ~bought[r] /\ (LotsAre(r, "planned") \union again) # {})
    BY <1>1 DEF Resume
  <2> QED
    BY <2>1
<1>3. CASE r \in Rounds
  <2>1. PassFits(r) /\ pass[r].phase \in PassPhases
    BY <1>3, <1>t DEF IInv, PassesFit, PassType
  <2>2. /\ pass' \in [Rounds -> PassType]
        /\ \A q \in Rounds : q # r => pass'[q] = pass[q]
        /\ pass'[r].phase = "trading"
        /\ pass'[r].todo = pass[r].todo /\ pass'[r].chunk = pass[r].chunk
    BY <1>2, <1>3, <1>t, Enters DEF PassPhases
  <2>3. pass[r].phase = "none" /\ pass[r].todo = {} /\ pass[r].chunk = {}
    BY <1>1, <2>1 DEF PassFits
  <2>4. PassFits(r)'
    BY <1>1, <2>2, <2>3 DEF PassFits
  <2>5. PassMoves(r)
    BY <1>1, <1>t, <2>2, <2>3, <2>4 DEF PassMoves
  <2> QED
    BY <1>3, <2>5, PassStep
<1>4. CASE r \notin Rounds
  <2>1. pass' = pass
    BY <1>2, <1>4, <1>t DEF Enter
  <2> QED
    BY <1>1, <1>4, <2>1, QuietKeepsIInv DEF Quiet
<1> QED
  BY <1>3, <1>4

\* Nothing has been asked for, planned or paid at the start.
LEMMA InitIInv == Init => IInv
<1> SUFFICES ASSUME Init PROVE IInv
  OBVIOUS
<1>1. /\ process.state = "up" /\ process \in [state : {"up", "stopping", "down"}, life : Nat]
      /\ running = {} /\ payments = <<>> /\ DOMAIN payments = {}
      /\ payments \in Seq(PaymentType)
      /\ refunds = [r \in Rounds |-> <<>>] /\ pass = [r \in Rounds |-> Idle]
      /\ file = [r \in Rounds |-> "none"]
  BY DEF Init
<1>2. Idle \in PassType /\ Idle.phase = "none" /\ ~Idle.buying /\ Idle.todo = {}
      /\ Idle.chunk = {}
  BY DEF Idle, PassType, PassPhases
<1>3. \A r \in Rounds : pass[r] = Idle /\ DOMAIN refunds[r] = {}
  BY <1>1
<1>4. RoundTypes /\ DeadIsIdle /\ PaidApart /\ PaymentsFit /\ RecordsFit
  BY <1>1, <1>2, <1>3 DEF RoundTypes, DeadIsIdle, PaidApart, PaymentsFit, RecordsFit
<1>5. PassesFit
  BY <1>1, <1>2, <1>3 DEF PassesFit, PassFits, PlanFits, ChunkFits
<1> QED
  BY <1>4, <1>5 DEF IInv

\* Every step keeps the invariant.
LEMMA NextIInv == IInv /\ [Next]_vars => IInv'
<1> SUFFICES ASSUME IInv, [Next]_vars PROVE IInv'
  OBVIOUS
<1>1. ASSUME NEW r \in Rounds, Execute(r) \/ RoundStep(r) PROVE IInv'
  <2>1. CASE \/ Execute(r) \/ InitFails(r) \/ CreateState(r) \/ BuyingEnds(r)
             \/ TradingEnds(r) \/ SendingBreaks(r) \/ Finalize(r)
    BY <2>1, RoundKeepsIInv
  <2>2. CASE \/ \E i \in LotsOf(r) : BuyLot(r, i) \/ LotConfirmed(r, i)
             \/ \E w \in Backers(r) : Deliver(r, w)
    <3>1. Quiet
      BY <2>2 DEF Quiet, BuyLot, LotConfirmed, SetLot, Deliver, procVars, planVars
    <3> QED
      BY <3>1, QuietKeepsIInv
  <2>3. CASE PlanRefunds(r)
    BY <2>3, PlanKeepsIInv
  <2>4. CASE SendChunk(r)
    <3>1. TRUE \in BOOLEAN /\ FALSE \in BOOLEAN
      OBVIOUS
    <3> QED
      BY <2>4, <3>1, ChunkSorts, NothingSentKeepsIInv, PaymentSentKeepsIInv
  <2>5. CASE ChunkAnswered(r)
    BY <2>5, AnswerKeepsIInv
  <2> QED
    BY <1>1, <2>1, <2>2, <2>3, <2>4, <2>5 DEF RoundStep
<1>2. CASE Chain
  <2>1. ASSUME NEW r \in Rounds, NEW i \in LotsOf(r), LotLands(r, i) \/ LotLost(r, i)
        PROVE  IInv'
    BY <2>1, QuietKeepsIInv DEF Quiet, LotLands, LotLost, SetLot, procVars, planVars
  <2> QED
    BY <1>2, <2>1, ChainKeepsIInv DEF Chain
<1>3. CASE Crash \/ Exit \/ Stop \/ Start
  BY <1>3, ProcessKeepsIInv DEF Crash, Exit
<1>4. CASE ResumeNext
  BY <1>4, ResumeKeepsIInv
<1>5. CASE ResumeEnds \/ UNCHANGED vars
  BY <1>5, QuietKeepsIInv DEF Quiet, ResumeEnds, vars, procVars, planVars
<1> QED
  BY <1>1, <1>2, <1>3, <1>4, <1>5 DEF Next, ProcessStep

-----------------------------------------------------------------------------
(* What a round has, and what its purchases, deliveries and refunds take.   *)

LotCost == LotAmount + BuyTxFee

\* Every lot that landed cost its amount and a fee, and one of them the rent of the
\* keeper's token account too; a completed purchase has landed.
LotsFit(r) ==
  /\ lots[r] \in [LotsOf(r) -> LotRecord]
  /\ \A i \in LotsOf(r) :
       /\ lots[r][i].cost <= LotCost + AtaFee
       /\ lots[r][i].chain # "landed" => lots[r][i].cost = 0
       /\ lots[r][i].status = "completed" => lots[r][i].chain = "landed"
  /\ \A i, j \in LotsOf(r) :
       lots[r][i].cost > LotCost /\ lots[r][j].cost > LotCost => i = j

\* The refunds were worked out from purchases that are completed.
BasisFits(r) ==
  /\ basis[r].lots \subseteq LotsAre(r, "completed")
  /\ basis[r].sends \subseteq Backers(r)
  /\ \A w \in DOMAIN refunds[r] : refunds[r][w].amount \in Nat

\* KeeperCovered for one round.
LotsPaid(r) == SumFunction([i \in basis[r].lots |-> lots[r][i].cost])
SendsPaid(r, W) == SumFunction([w \in W |-> DeliveryCost(r, w)])
GivenBack(plan) == SumFunction([w \in DOMAIN plan |-> plan[w].amount])
Covered(r) ==
  basis[r].planned /\ basis[r].exact =>
    LotsPaid(r) + SendsPaid(r, basis[r].sends \ basis[r].misread) + GivenBack(refunds[r])
      <= Allocated(r) + SendReserve(Ata[r])

MoneyInv ==
  /\ DOMAIN lots = Rounds /\ DOMAIN basis = Rounds
  /\ \A r \in Rounds : LotsFit(r) /\ BasisFits(r) /\ Covered(r)

\* The constants of a round.
LEMMA RoundHas ==
  ASSUME NEW r \in Rounds
  PROVE  /\ Lots[r] \in Nat /\ LotAmount \in Nat /\ LotCost \in Nat
         /\ IsFiniteSet(LotsOf(r)) /\ Cardinality(LotsOf(r)) = Lots[r]
         /\ IsFiniteSet(Backers(r)) /\ DOMAIN Ata[r] = Backers(r)
         /\ DOMAIN Stake[r] = Backers(r) /\ Stake[r] \in [Backers(r) -> Nat \ {0}]
         /\ BatchSize \in Nat \ {0}
<1>1. /\ Lots[r] \in Nat /\ LotAmount \in Nat
      /\ IsFiniteSet(Backers(r)) /\ DOMAIN Ata[r] = Backers(r)
      /\ Stake[r] \in [Backers(r) -> Nat \ {0}] /\ BatchSize \in Nat \ {0}
  BY RoundAssumption
<1>2. LotCost \in Nat
  BY <1>1 DEF LotCost, BuyTxFee
<1>3. IsFiniteSet(1..Lots[r]) /\ Cardinality(1..Lots[r]) = Lots[r]
  <2>1. 1 \in Int /\ Lots[r] \in Int
    BY <1>1
  <2>2. IsFiniteSet(1..Lots[r]) /\ Cardinality(1..Lots[r]) = IF 1 > Lots[r] THEN 0 ELSE Lots[r] - 1 + 1
    BY <2>1, FS_Interval
  <2> QED
    BY <1>1, <2>2
<1>4. DOMAIN Stake[r] = Backers(r)
  BY DEF Backers
<1> QED
  BY <1>1, <1>2, <1>3, <1>4 DEF LotsOf

\* A lot's record, from its type.
LEMMA LotTyped ==
  ASSUME NEW r \in Rounds, LotsFit(r), NEW i \in LotsOf(r)
  PROVE  /\ lots[r][i].cost \in Nat /\ lots[r][i].cost <= LotCost + AtaFee
         /\ lots[r][i].status = "completed" => lots[r][i].chain = "landed"
<1>1. lots[r][i] \in LotRecord
  BY DEF LotsFit
<1> QED
  BY <1>1 DEF LotsFit, LotRecord

\* Whatever lots were bought, the allocation covers them.
LEMMA LotsWithinAllocation ==
  ASSUME NEW r \in Rounds, LotsFit(r), NEW S \in SUBSET LotsOf(r)
  PROVE  LET paid == SumFunction([i \in S |-> lots[r][i].cost])
         IN  paid \in Nat /\ paid <= Allocated(r)
<1> DEFINE f == [i \in S |-> lots[r][i].cost]
           paid == SumFunctionOnSet(f, S)
           k == Cardinality(S)
           n == Lots[r]
<1>c. n \in Nat /\ LotAmount \in Nat /\ LotCost \in Nat /\ AtaFee \in Nat
  BY RoundHas DEF AtaFee
<1>s. IsFiniteSet(S) /\ k \in Nat /\ k <= n
  <2>1. IsFiniteSet(LotsOf(r)) /\ Cardinality(LotsOf(r)) = n
    BY RoundHas
  <2>2. IsFiniteSet(S) /\ Cardinality(S) <= Cardinality(LotsOf(r))
    BY <2>1, FS_Subset
  <2> QED
    BY <2>1, <2>2, FS_CardinalityType
<1>1. \A i \in S : f[i] \in Nat /\ f[i] <= LotCost + AtaFee
  BY LotTyped
<1>2. \A i, j \in S : f[i] > LotCost /\ f[j] > LotCost => i = j
  BY DEF LotsFit
<1> HIDE DEF f
<1>3. paid <= k * LotCost + AtaFee
  BY <1>c, <1>s, <1>1, <1>2, SumOfMost
<1>4. paid \in Nat
  <2>1. S \in SUBSET S /\ \A i \in S : f[i] \in Nat
    BY <1>1
  <2> QED
    BY <1>s, <2>1, SumIsNat
<1>5. n = 0 => paid = 0
  <2> SUFFICES ASSUME n = 0 PROVE paid = 0
    OBVIOUS
  <2>1. S = {}
    BY <1>c DEF LotsOf
  <2>2. SumFunctionOnSet(f, {}) = 0
    BY SumFirst, FS_EmptySet
  <2> QED
    BY <2>1, <2>2
<1>6. n # 0 => Allocated(r) = AtaFee + n * (LotAmount + 2 * BuyTxFee)
  BY DEF Allocated
<1>7. \A m, v, c \in Nat : m <= v => m * c <= v * c
  OBVIOUS
<1>8. k * LotCost <= n * LotCost /\ k * LotCost \in Nat /\ n * LotCost \in Nat
  BY <1>c, <1>s, <1>7
<1>9. n * LotCost <= n * (LotAmount + 2 * BuyTxFee) /\ n * (LotAmount + 2 * BuyTxFee) \in Nat
  <2>1. \A x, y, m \in Nat : x <= y => m * x <= m * y /\ m * y \in Nat
    OBVIOUS
  <2>2. LotCost <= LotAmount + 2 * BuyTxFee /\ LotAmount + 2 * BuyTxFee \in Nat
    BY <1>c DEF LotCost, BuyTxFee
  <2> QED
    BY <1>c, <2>1, <2>2
<1>10. paid <= Allocated(r)
  <2> HIDE DEF paid, k, n
  <2>1. CASE n = 0
    <3>1. Allocated(r) = 0 /\ paid = 0
      BY <2>1, <1>5 DEF Allocated, n
    <3> QED
      BY <3>1
  <2>2. CASE n # 0
    BY <2>2, <1>3, <1>4, <1>6, <1>8, <1>9, <1>c
  <2> QED
    BY <2>1, <2>2
<1>11. SumFunction(f) = paid
  BY DEF SumFunction, f
<1> QED
  BY <1>4, <1>10, <1>11 DEF f

\* What one delivery costs.
LEMMA DeliveryCosts ==
  ASSUME NEW r, NEW w
  PROVE  DeliveryCost(r, w) \in Nat /\ DeliveryCost(r, w) > 0
BY DEF DeliveryCost, TxFee, AtaFee

\* Whatever deliveries were made, the reserve covers them.
LEMMA SendsWithinReserve ==
  ASSUME NEW r \in Rounds, NEW W \in SUBSET Backers(r)
  PROVE  /\ SendsPaid(r, W) \in Nat /\ SendReserve(Ata[r]) \in Nat
         /\ SendsPaid(r, W) <= SendReserve(Ata[r])
<1> DEFINE f == [w \in W |-> DeliveryCost(r, w)]
           g == [w \in Backers(r) |-> DeliveryCost(r, w)]
<1>s. IsFiniteSet(Backers(r)) /\ DOMAIN Ata[r] = Backers(r) /\ IsFiniteSet(W)
  <2>1. IsFiniteSet(Backers(r)) /\ DOMAIN Ata[r] = Backers(r)
    BY RoundHas
  <2> QED
    BY <2>1, FS_Subset
<1>1. SendsPaid(r, W) = SumFunctionOnSet(f, W)
  BY DEF SendsPaid, SumFunction
<1>2. SendReserve(Ata[r]) = SumFunctionOnSet(g, Backers(r))
  <2>1. [w \in DOMAIN Ata[r] |-> TxFee + (IF Ata[r][w] = "had" THEN 0 ELSE AtaFee)] = g
    BY <1>s DEF DeliveryCost
  <2>2. SendReserve(Ata[r]) = SumFunction(g)
    BY <2>1 DEF SendReserve
  <2> QED
    BY <2>2 DEF SumFunction
<1>3. \A w \in W : f[w] \in Nat /\ g[w] \in Nat /\ f[w] <= g[w]
  BY DeliveryCosts
<1>4. \A w \in Backers(r) : g[w] \in Nat
  BY DeliveryCosts
<1> HIDE DEF f, g
<1>5. SumFunctionOnSet(f, W) <= SumFunctionOnSet(g, W) /\ SumFunctionOnSet(f, W) \in Nat
  BY <1>s, <1>3, SumOfLess
<1>6. /\ SumFunctionOnSet(g, W) <= SumFunctionOnSet(g, Backers(r))
      /\ SumFunctionOnSet(g, W) \in Nat /\ SumFunctionOnSet(g, Backers(r)) \in Nat
  BY <1>s, <1>4, SumOfFewer
<1> QED
  BY <1>1, <1>2, <1>5, <1>6

\* The figures of the completed purchases are in what buying is said to have cost,
\* when each was read.
LEMMA PurchasesCounted ==
  ASSUME NEW r \in Rounds, LotsFit(r), NEW debit,
         NEW completed \in SUBSET LotsOf(r), NEW attempted \in SUBSET LotsOf(r),
         \A i \in completed : CompletedRead(debit[i]) /\ debit[i] = lots[r][i].cost,
         \A i \in attempted : debit[i] \in Nat
  PROVE  LET paid == SumFunction([i \in completed |-> lots[r][i].cost])
             told == BuySpend(completed, attempted, LotAmount, debit)
         IN  paid \in Nat /\ told \in Nat /\ paid <= told
<1> DEFINE f == [i \in completed |-> lots[r][i].cost]
           g == [i \in attempted |-> debit[i]]
<1>s. IsFiniteSet(completed) /\ IsFiniteSet(attempted)
  BY RoundHas, FS_Subset
<1>1. \A i \in completed : f[i] \in Nat
  BY LotTyped
<1>2. \A i \in attempted : g[i] \in Nat /\ debit[i] # Unread
  BY DEF Unread
<1>3. BuySpend(completed, attempted, LotAmount, debit) = SumFunction(f) + SumFunction(g)
  <2> DEFINE Completed(i) == IF CompletedRead(debit[i]) THEN debit[i]
                             ELSE LotAmount + BuyTxFee + (IF i = Min(completed) THEN AtaFee ELSE 0)
             Attempted(i) == IF debit[i] # Unread THEN debit[i] ELSE BuyTxFee
  <2>1. BuySpend(completed, attempted, LotAmount, debit)
          = SumFunction([i \in completed |-> Completed(i)])
            + SumFunction([i \in attempted |-> Attempted(i)])
    BY DEF BuySpend
  <2>2. [i \in completed |-> Completed(i)] = f
    <3>1. \A i \in completed : Completed(i) = lots[r][i].cost
      OBVIOUS
    <3> QED
      BY <3>1
  <2>3. [i \in attempted |-> Attempted(i)] = g
    <3>1. \A i \in attempted : Attempted(i) = debit[i]
      BY <1>2
    <3> QED
      BY <3>1
  <2> QED
    BY <2>1, <2>2, <2>3
<1>4. SumFunction(f) = SumFunctionOnSet(f, completed) /\ SumFunction(g) = SumFunctionOnSet(g, attempted)
  BY DEF SumFunction
<1> HIDE DEF f, g
<1>5. SumFunctionOnSet(f, completed) \in Nat /\ SumFunctionOnSet(g, attempted) \in Nat
  <2>1. completed \in SUBSET completed /\ attempted \in SUBSET attempted
    OBVIOUS
  <2> QED
    BY <1>s, <1>1, <1>2, <2>1, SumIsNat
<1>6. SumFunction(f) \in Nat /\ SumFunction(g) \in Nat
  BY <1>4, <1>5
<1> QED
  BY <1>3, <1>6 DEF f

\* The figures of the deliveries that were heard of are in what delivering is said to
\* have cost, when each was read.
LEMMA DeliveriesCounted ==
  ASSUME NEW r \in Rounds, NEW D \in SUBSET Backers(r), NEW debit,
         \A w \in D : debit[w] \in {0, DeliveryCost(r, w)}
  PROVE  LET heard == SendsPaid(r, D \ {w \in D : debit[w] = 0})
             told  == DeliverySpent(D, Ata[r], debit)
         IN  heard \in Nat /\ told \in Nat /\ heard <= told
<1> DEFINE H == D \ {w \in D : debit[w] = 0}
           f == [w \in H |-> DeliveryCost(r, w)]
           g == [w \in D |-> debit[w]]
           rent == {w \in DOMAIN Ata[r] : Ata[r][w] = "none" /\ ~(w \in D /\ debit[w] # Unread)}
<1>s. /\ IsFiniteSet(D) /\ IsFiniteSet(H) /\ H \in SUBSET D
      /\ Cardinality(rent) \in Nat
  <2>1. IsFiniteSet(Backers(r)) /\ DOMAIN Ata[r] = Backers(r)
    BY RoundHas
  <2>2. rent \subseteq Backers(r)
    BY <2>1
  <2>3. IsFiniteSet(rent) /\ IsFiniteSet(D)
    BY <2>1, <2>2, FS_Subset
  <2>4. H \in SUBSET D
    OBVIOUS
  <2>5. IsFiniteSet(H)
    BY <2>3, <2>4, FS_Subset
  <2> QED
    BY <2>3, <2>4, <2>5, FS_CardinalityType
<1>1. \A w \in D : g[w] \in Nat /\ debit[w] # Unread
  BY DeliveryCosts DEF Unread
<1>2. \A w \in H : f[w] \in Nat /\ g[w] \in Nat /\ f[w] <= g[w]
  BY DeliveryCosts
<1>3. DeliverySpent(D, Ata[r], debit) = SumFunction(g) + Cardinality(rent) * AtaFee
  <2> DEFINE Fee(w) == IF debit[w] # Unread THEN debit[w] ELSE TxFee
  <2>1. DeliverySpent(D, Ata[r], debit)
          = SumFunction([w \in D |-> Fee(w)]) + Cardinality(rent) * AtaFee
    BY DEF DeliverySpent
  <2>2. [w \in D |-> Fee(w)] = g
    <3>1. \A w \in D : Fee(w) = debit[w]
      BY <1>1
    <3> QED
      BY <3>1
  <2> QED
    BY <2>1, <2>2
<1>4. SendsPaid(r, H) = SumFunctionOnSet(f, H) /\ SumFunction(g) = SumFunctionOnSet(g, D)
  BY DEF SendsPaid, SumFunction
<1> HIDE DEF f, g, H, rent
<1>5. SumFunctionOnSet(f, H) <= SumFunctionOnSet(g, H) /\ SumFunctionOnSet(f, H) \in Nat
  BY <1>s, <1>2, SumOfLess
<1>6. /\ SumFunctionOnSet(g, H) <= SumFunctionOnSet(g, D)
      /\ SumFunctionOnSet(g, H) \in Nat /\ SumFunctionOnSet(g, D) \in Nat
  BY <1>s, <1>1, SumOfFewer
<1>7. Cardinality(rent) * AtaFee \in Nat
  BY <1>s DEF AtaFee
<1>8. /\ SendsPaid(r, H) \in Nat /\ DeliverySpent(D, Ata[r], debit) \in Nat
      /\ SendsPaid(r, H) <= DeliverySpent(D, Ata[r], debit)
  BY <1>3, <1>4, <1>5, <1>6, <1>7
<1> QED
  BY <1>8 DEF H

\* The larger of nothing and a number.
LEMMA AtLeastNothing ==
  ASSUME NEW x \in Int
  PROVE  Max({0, x}) \in Nat /\ (Max({0, x}) = 0 \/ Max({0, x}) = x)
<1>1. \E z \in {0, x} : \A v \in {0, x} : z >= v
  <2>1. x >= 0 \/ 0 >= x
    OBVIOUS
  <2> QED
    BY <2>1
<1>2. Max({0, x}) \in {0, x} /\ \A v \in {0, x} : Max({0, x}) >= v
  BY <1>1 DEF Max
<1>3. Max({0, x}) >= 0 /\ (Max({0, x}) = 0 \/ Max({0, x}) = x)
  BY <1>2
<1> QED
  BY <1>3

\* What is left of the reserve and what the deliveries took of it stay within it.
LEMMA ReserveHolds ==
  ASSUME NEW r \in Rounds, NEW D \in SUBSET Backers(r), NEW debit,
         \A w \in D : debit[w] \in {0, DeliveryCost(r, w)},
         NEW U \in SUBSET Backers(r)
  PROVE  LET heard == SendsPaid(r, D \ {w \in D : debit[w] = 0})
             left  == Leftover(Ata[r], DeliverySpent(D, Ata[r], debit), Held(U, Ata[r]))
         IN  left \in Nat /\ heard + left <= SendReserve(Ata[r])
<1> DEFINE H == D \ {w \in D : debit[w] = 0}
           heard == SendsPaid(r, H)
           told == DeliverySpent(D, Ata[r], debit)
           held == Held(U, Ata[r])
           reserve == SendReserve(Ata[r])
           left == Leftover(Ata[r], told, held)
<1>1. heard \in Nat /\ told \in Nat /\ heard <= told
  BY DeliveriesCounted
<1>2. heard <= reserve /\ reserve \in Nat
  <2>1. H \in SUBSET Backers(r)
    OBVIOUS
  <2> HIDE DEF H
  <2> QED
    BY <2>1, SendsWithinReserve
<1>3. held \in Nat
  <2>1. /\ IsFiniteSet(U) /\ IsFiniteSet({w \in U : Ata[r][w] = "none"})
    <3>1. IsFiniteSet(U)
      BY RoundHas, FS_Subset
    <3>2. {w \in U : Ata[r][w] = "none"} \subseteq U
      OBVIOUS
    <3> QED
      BY <3>1, <3>2, FS_Subset
  <2>2. Cardinality(U) \in Nat /\ Cardinality({w \in U : Ata[r][w] = "none"}) \in Nat
    BY <2>1, FS_CardinalityType
  <2> QED
    BY <2>2 DEF Held, TxFee, AtaFee
<1>4. left = Max({0, reserve - told - held})
  BY DEF Leftover
<1> HIDE DEF heard, told, held, reserve, left
<1>5. reserve - told - held \in Int
  BY <1>1, <1>2, <1>3
<1>6. left \in Nat /\ (left = 0 \/ left = reserve - told - held)
  BY <1>4, <1>5, AtLeastNothing
<1>7. heard + left <= reserve
  BY <1>1, <1>2, <1>3, <1>6
<1> QED
  BY <1>6, <1>7 DEF heard, told, held, reserve, left, H

\* Dividing rounds down.
LEMMA RoundsDown ==
  ASSUME NEW x \in Nat, NEW n \in Nat \ {0}
  PROVE  x \div n \in Nat /\ (x \div n) * n <= x
OBVIOUS

\* The backers of a round are given back no more than what was not spent, each a whole
\* amount.
LEMMA RefundsWithinUnspent ==
  ASSUME NEW r \in Rounds, NEW unspent \in Int
  PROVE  LET plan == RefundPlan(unspent, Stake[r], BatchSize)
         IN  /\ \A w \in DOMAIN plan : plan[w].amount \in Nat
             /\ GivenBack(plan) \in Nat
             /\ unspent < MinUnspent => GivenBack(plan) = 0
             /\ unspent >= MinUnspent => GivenBack(plan) <= unspent
<1> DEFINE plan == RefundPlan(unspent, Stake[r], BatchSize)
           B == Backers(r)
           total == SumFunction(Stake[r])
           n == Cardinality(B)
           fee == FeePerRecipient(n, BatchSize)
           Net(w) == (unspent * Stake[r][w]) \div total - fee
           f == [w \in DOMAIN plan |-> plan[w].amount]
<1>s. /\ IsFiniteSet(B) /\ DOMAIN Stake[r] = B /\ Stake[r] \in [B -> Nat \ {0}]
      /\ BatchSize \in Nat \ {0} /\ n \in Nat
  BY RoundHas, FS_CardinalityType
<1>1. plan = IF unspent < MinUnspent THEN <<>> ELSE [w \in B |-> Due(Net(w))]
  BY <1>s DEF RefundPlan
<1>2. CASE unspent < MinUnspent
  <2>1. plan = <<>> /\ DOMAIN plan = {}
    BY <1>1, <1>2
  <2> HIDE DEF plan
  <2>2. GivenBack(plan) = SumFunctionOnSet(f, {})
    BY <2>1 DEF GivenBack, SumFunction
  <2>3. SumFunctionOnSet(f, {}) = 0
    BY SumFirst, FS_EmptySet
  <2>4. /\ \A w \in DOMAIN plan : plan[w].amount \in Nat
        /\ GivenBack(plan) \in Nat /\ GivenBack(plan) = 0
    BY <2>1, <2>2, <2>3
  <2> QED
    BY <1>2, <2>4 DEF plan, MinUnspent
<1>3. CASE unspent >= MinUnspent
  <2>u. unspent \in Nat /\ ~ (unspent < MinUnspent)
    BY <1>3 DEF MinUnspent
  <2>1. DOMAIN plan = B /\ \A w \in B : plan[w] = Due(Net(w))
    BY <1>1, <2>u
  <2> HIDE DEF plan, Net
  <2>2. total = SumFunctionOnSet(Stake[r], B)
    BY <1>s DEF SumFunction
  <2>3. total \in Nat /\ \A w \in B : Stake[r][w] \in Nat /\ Stake[r][w] <= total
    <3>1. B \in SUBSET B /\ \A w \in B : Stake[r][w] \in Nat
      BY <1>s
    <3>2. \A w \in B : total = Stake[r][w] + SumFunctionOnSet(Stake[r], B \ {w})
      BY <1>s, <2>2, <3>1, SumTakesOut
    <3>3. total \in Nat /\ \A w \in B : SumFunctionOnSet(Stake[r], B \ {w}) \in Nat
      BY <1>s, <2>2, <3>1, SumIsNat
    <3>4. \A a, b, c \in Nat : a = b + c => b <= a
      OBVIOUS
    <3> HIDE DEF total, B
    <3>5. ASSUME NEW w \in B PROVE Stake[r][w] <= total
      BY <3>1, <3>2, <3>3, <3>4
    <3> QED
      BY <3>1, <3>3, <3>5
  <2>4. \A w \in B : total \in Nat \ {0} /\ n \in Nat \ {0}
    <3>1. \A w \in B : Stake[r][w] # 0
      BY <1>s
    <3>2. \A w \in B : n # 0
      <4> SUFFICES ASSUME NEW w \in B, n = 0 PROVE FALSE
        OBVIOUS
      <4>1. B = {}
        BY <1>s, FS_EmptySet
      <4> QED
        BY <4>1
    <3>3. \A w \in B : total # 0
      BY <2>3, <3>1
    <3> QED
      BY <1>s, <2>3, <3>2, <3>3
  <2> HIDE DEF total, B
  <2>5. ASSUME NEW w \in B
        PROVE  f[w] \in Nat /\ f[w] * total <= unspent * Stake[r][w]
    <3> DEFINE x == unspent * Stake[r][w]
               q == x \div total
    <3>1. x \in Nat /\ total \in Nat \ {0}
      BY <2>u, <2>3, <2>4
    <3>2. q \in Nat /\ q * total <= x
      BY <3>1, RoundsDown
    <3>3. fee \in Nat
      <4> DEFINE y == TxFee * ((n + BatchSize - 1) \div BatchSize)
      <4>1. n + BatchSize - 1 \in Nat
        BY <1>s
      <4>2. (n + BatchSize - 1) \div BatchSize \in Nat
        BY <1>s, <4>1, RoundsDown
      <4>3. y \in Nat
        BY <4>2 DEF TxFee
      <4>4. n \in Nat \ {0}
        BY <2>4
      <4>5. fee = y \div n
        BY DEF FeePerRecipient
      <4> HIDE DEF y, fee, n
      <4> QED
        BY <4>3, <4>4, <4>5, RoundsDown
    <3>4. Net(w) = q - fee
      BY DEF Net
    <3> HIDE DEF q, fee
    <3>5. f[w] = Due(Net(w)).amount
      BY <2>1
    <3>6. f[w] = IF Net(w) < MinRefund THEN 0 ELSE Net(w)
      BY <3>5 DEF Due
    <3>7. f[w] \in Nat /\ f[w] <= q
      BY <3>2, <3>3, <3>4, <3>6 DEF MinRefund
    <3>8. \A a, b, t \in Nat : a <= b => a * t <= b * t
      OBVIOUS
    <3>9. f[w] * total <= q * total /\ f[w] * total \in Nat /\ q * total \in Nat
      BY <3>1, <3>2, <3>7, <3>8
    <3> HIDE DEF f, x
    <3>10. f[w] * total <= x
      BY <3>1, <3>2, <3>9
    <3> QED
      BY <3>7, <3>10 DEF x
  <2>6. \A w \in DOMAIN plan : plan[w].amount \in Nat
    BY <2>1, <2>5
  <2>7. GivenBack(plan) = SumFunctionOnSet(f, B)
    BY <2>1 DEF GivenBack, SumFunction
  <2> HIDE DEF f
  <2>b. IsFiniteSet(B) /\ B \in SUBSET B
    BY <1>s DEF B
  <2>8. SumFunctionOnSet(f, B) \in Nat
    BY <2>b, <2>5, SumIsNat
  <2>9. SumFunctionOnSet(f, B) * total <= unspent * total
    <3>1. SumFunctionOnSet(f, B) * total <= unspent * SumFunctionOnSet(Stake[r], B)
      BY <2>b, <2>u, <2>3, <2>5, SumOfShares
    <3> QED
      BY <2>2, <3>1
  <2>10. SumFunctionOnSet(f, B) <= unspent
    <3>1. CASE B = {}
      <4>1. SumFunctionOnSet(f, {}) = 0
        BY SumFirst, FS_EmptySet
      <4> QED
        BY <2>u, <3>1, <4>1
    <3>2. CASE B # {}
      <4>1. total \in Nat \ {0}
        BY <2>4, <3>2
      <4>2. \A a, b \in Nat : \A t \in Nat \ {0} : a * t <= b * t => a <= b
        OBVIOUS
      <4> QED
        BY <2>u, <2>8, <2>9, <4>1, <4>2
    <3> QED
      BY <3>1, <3>2
  <2> QED
    BY <1>3, <2>u, <2>6, <2>7, <2>8, <2>10 DEF plan
<1> QED
  BY <1>2, <1>3 DEF MinUnspent

\* What buying and delivering are said to have cost is an amount, whatever was read.
LEMMA SpendingIsAnAmount ==
  ASSUME NEW r \in Rounds, NEW lotDebit, NEW sendDebit,
         NEW completed \in SUBSET LotsOf(r), NEW attempted \in SUBSET LotsOf(r),
         NEW D \in SUBSET Backers(r), NEW U \in SUBSET Backers(r),
         \A i \in LotsOf(r) : lotDebit[i] \in Nat \union {Unread},
         \A w \in Backers(r) : sendDebit[w] \in Nat \union {Unread}
  PROVE  /\ BuySpend(completed, attempted, LotAmount, lotDebit) \in Nat
         /\ Leftover(Ata[r], DeliverySpent(D, Ata[r], sendDebit), Held(U, Ata[r])) \in Nat
<1>s. IsFiniteSet(completed) /\ IsFiniteSet(attempted) /\ IsFiniteSet(D) /\ LotAmount \in Nat
  BY RoundHas, FS_Subset
<1>1. BuySpend(completed, attempted, LotAmount, lotDebit) \in Nat
  <2> DEFINE Completed(i) == IF CompletedRead(lotDebit[i]) THEN lotDebit[i]
                             ELSE LotAmount + BuyTxFee + (IF i = Min(completed) THEN AtaFee ELSE 0)
             Attempted(i) == IF lotDebit[i] # Unread THEN lotDebit[i] ELSE BuyTxFee
             f == [i \in completed |-> Completed(i)]
             g == [i \in attempted |-> Attempted(i)]
  <2>1. BuySpend(completed, attempted, LotAmount, lotDebit) = SumFunction(f) + SumFunction(g)
    BY DEF BuySpend
  <2>2. \A i \in completed : f[i] \in Nat
    <3> SUFFICES ASSUME NEW i \in completed PROVE Completed(i) \in Nat
      OBVIOUS
    <3>1. lotDebit[i] \in Nat \union {Unread}
      OBVIOUS
    <3>2. CompletedRead(lotDebit[i]) => lotDebit[i] \in Nat
      BY <3>1 DEF CompletedRead
    <3>3. LotAmount + BuyTxFee + (IF i = Min(completed) THEN AtaFee ELSE 0) \in Nat
      BY <1>s DEF BuyTxFee, AtaFee
    <3> QED
      BY <3>2, <3>3
  <2>3. \A i \in attempted : g[i] \in Nat
    <3> SUFFICES ASSUME NEW i \in attempted PROVE Attempted(i) \in Nat
      OBVIOUS
    <3>1. lotDebit[i] \in Nat \union {Unread}
      OBVIOUS
    <3> QED
      BY <3>1 DEF BuyTxFee
  <2>4. SumFunction(f) = SumFunctionOnSet(f, completed) /\ SumFunction(g) = SumFunctionOnSet(g, attempted)
    BY DEF SumFunction
  <2> HIDE DEF f, g
  <2>5. SumFunctionOnSet(f, completed) \in Nat /\ SumFunctionOnSet(g, attempted) \in Nat
    BY <1>s, <2>2, <2>3, SumOfFewer
  <2> QED
    BY <2>1, <2>4, <2>5
<1>2. DeliverySpent(D, Ata[r], sendDebit) \in Nat
  <2> DEFINE Fee(w) == IF sendDebit[w] # Unread THEN sendDebit[w] ELSE TxFee
             rent == {w \in DOMAIN Ata[r] : Ata[r][w] = "none" /\ ~(w \in D /\ sendDebit[w] # Unread)}
             f == [w \in D |-> Fee(w)]
  <2>1. DeliverySpent(D, Ata[r], sendDebit) = SumFunction(f) + Cardinality(rent) * AtaFee
    BY DEF DeliverySpent
  <2>2. \A w \in D : f[w] \in Nat
    <3> SUFFICES ASSUME NEW w \in D PROVE Fee(w) \in Nat
      OBVIOUS
    <3>1. sendDebit[w] \in Nat \union {Unread}
      OBVIOUS
    <3> QED
      BY <3>1 DEF TxFee
  <2>3. SumFunction(f) = SumFunctionOnSet(f, D)
    BY DEF SumFunction
  <2>4. Cardinality(rent) \in Nat
    <3>1. IsFiniteSet(Backers(r)) /\ DOMAIN Ata[r] = Backers(r)
      BY RoundHas
    <3>2. rent \subseteq Backers(r)
      BY <3>1
    <3>3. IsFiniteSet(rent)
      BY <3>1, <3>2, FS_Subset
    <3> QED
      BY <3>3, FS_CardinalityType
  <2> HIDE DEF f, rent
  <2>5. SumFunctionOnSet(f, D) \in Nat
    BY <1>s, <2>2, SumOfFewer
  <2> QED
    BY <2>1, <2>3, <2>4, <2>5 DEF AtaFee
<1>3. Held(U, Ata[r]) \in Nat
  <2>1. IsFiniteSet(U)
    BY RoundHas, FS_Subset
  <2>2. {w \in U : Ata[r][w] = "none"} \subseteq U
    OBVIOUS
  <2>3. Cardinality(U) \in Nat /\ Cardinality({w \in U : Ata[r][w] = "none"}) \in Nat
    BY <2>1, <2>2, FS_Subset, FS_CardinalityType
  <2> QED
    BY <2>3 DEF Held, TxFee, AtaFee
<1>4. SendReserve(Ata[r]) \in Nat
  <2>1. {} \in SUBSET Backers(r)
    OBVIOUS
  <2> QED
    BY <2>1, SendsWithinReserve
<1>5. SendReserve(Ata[r]) - DeliverySpent(D, Ata[r], sendDebit) - Held(U, Ata[r]) \in Int
  BY <1>2, <1>3, <1>4
<1> QED
  BY <1>1, <1>5, AtLeastNothing DEF Leftover

\* What can be read of what a round's purchases and deliveries cost.
Readings(r, lotDebit, sendDebit) ==
  /\ \A i \in LotsOf(r) : lotDebit[i] \in {lots[r][i].cost, 0, Unread}
  /\ \A w \in Backers(r) : sendDebit[w] \in {DeliveryCost(r, w), 0, Unread}

\* The plan refundUnspent makes gives back whole amounts, and when every figure was read
\* no more than the purchases and deliveries it knows of left.
LEMMA PlanIsCovered ==
  ASSUME NEW r \in Rounds, LotsFit(r), NEW lotDebit, NEW sendDebit,
         Readings(r, lotDebit, sendDebit)
  PROVE  LET plan  == RefundPlan(Unspent(r, lotDebit, sendDebit), Stake[r], BatchSize)
             known == BasisOf(r, lotDebit, sendDebit)
         IN  /\ \A w \in DOMAIN plan : plan[w].amount \in Nat
             /\ known.exact =>
                  SumFunction([i \in known.lots |-> lots[r][i].cost])
                  + SendsPaid(r, known.sends \ known.misread) + GivenBack(plan)
                    <= Allocated(r) + SendReserve(Ata[r])
<1> DEFINE completed == LotsAre(r, "completed")
           attempted == LotsAre(r, "sent")
           D == Delivered(r)
           U == {w \in Backers(r) : sends[r][w] = "pending"}
           bought_ == BuySpend(completed, attempted, LotAmount, lotDebit)
           left == Leftover(Ata[r], DeliverySpent(D, Ata[r], sendDebit), Held(U, Ata[r]))
           unspent == Unspent(r, lotDebit, sendDebit)
           plan == RefundPlan(unspent, Stake[r], BatchSize)
           known == BasisOf(r, lotDebit, sendDebit)
           paid == SumFunction([i \in completed |-> lots[r][i].cost])
           heard == SendsPaid(r, D \ {w \in D : sendDebit[w] = 0})
           back == GivenBack(plan)
           reserve == SendReserve(Ata[r])
<1>s. /\ completed \in SUBSET LotsOf(r) /\ attempted \in SUBSET LotsOf(r)
      /\ D \in SUBSET Backers(r) /\ U \in SUBSET Backers(r)
  BY DEF LotsAre, Delivered
<1>1. unspent = IF Allocated(r) = 0 THEN 0 ELSE Allocated(r) - bought_ + left
  BY DEF Unspent
<1>2. bought_ \in Nat /\ left \in Nat
  <2>1. \A i \in LotsOf(r) : lotDebit[i] \in Nat \union {Unread}
    BY LotTyped DEF Readings
  <2>2. \A w \in Backers(r) : sendDebit[w] \in Nat \union {Unread}
    BY DeliveryCosts DEF Readings
  <2> HIDE DEF completed, attempted, D, U
  <2> QED
    BY <1>s, <2>1, <2>2, SpendingIsAnAmount
<1>3. paid \in Nat /\ paid <= Allocated(r) /\ Allocated(r) \in Nat
  <2>1. paid \in Nat /\ paid <= Allocated(r)
    BY <1>s, LotsWithinAllocation
  <2>2. Allocated(r) \in Nat
    BY RoundHas DEF Allocated, AtaFee, BuyTxFee
  <2> QED
    BY <2>1, <2>2
<1>4. unspent \in Int
  <2> HIDE DEF unspent, bought_, left
  <2> QED
    BY <1>1, <1>2, <1>3
<1>5. /\ \A w \in DOMAIN plan : plan[w].amount \in Nat
      /\ back \in Nat
      /\ unspent < MinUnspent => back = 0
      /\ unspent >= MinUnspent => back <= unspent
  <2> HIDE DEF unspent
  <2> QED
    BY <1>4, RefundsWithinUnspent
<1>6. ASSUME known.exact PROVE paid + heard + back <= Allocated(r) + reserve
  <2>1. /\ \A i \in completed : CompletedRead(lotDebit[i])
        /\ \A i \in attempted : lotDebit[i] # Unread
        /\ \A w \in D : sendDebit[w] # Unread
    BY <1>6 DEF BasisOf
  <2>2. /\ \A i \in completed : CompletedRead(lotDebit[i]) /\ lotDebit[i] = lots[r][i].cost
        /\ \A i \in attempted : lotDebit[i] \in Nat
    BY <1>s, <2>1, LotTyped DEF Readings, CompletedRead
  <2>3. paid <= bought_
    <3> HIDE DEF completed, attempted
    <3> QED
      BY <1>s, <2>2, PurchasesCounted
  <2>4. \A w \in D : sendDebit[w] \in {0, DeliveryCost(r, w)}
    BY <1>s, <2>1 DEF Readings
  <2>5. heard + left <= reserve
    <3> HIDE DEF D, U
    <3> QED
      BY <1>s, <2>4, ReserveHolds
  <2>6. heard \in Nat /\ reserve \in Nat
    <3>1. D \ {w \in D : sendDebit[w] = 0} \in SUBSET Backers(r)
      BY <1>s
    <3> QED
      BY <3>1, SendsWithinReserve
  <2> HIDE DEF paid, heard, back, reserve, bought_, left, unspent
  <2>7. CASE unspent < MinUnspent
    BY <1>2, <1>3, <1>5, <2>5, <2>6, <2>7
  <2>8. CASE ~ (unspent < MinUnspent)
    <3>1. unspent >= MinUnspent
      BY <1>4, <2>8 DEF MinUnspent
    <3>2. unspent = Allocated(r) - bought_ + left
      BY <1>1, <3>1 DEF MinUnspent
    <3> QED
      BY <1>2, <1>3, <1>5, <2>3, <2>5, <2>6, <3>1, <3>2
  <2> QED
    BY <2>7, <2>8
<1>7. known.lots = completed /\ known.sends = D /\ known.misread = {w \in D : sendDebit[w] = 0}
  BY DEF BasisOf
<1> HIDE DEF known
<1>8. known.exact => SumFunction([i \in known.lots |-> lots[r][i].cost])
                       + SendsPaid(r, known.sends \ known.misread) + back
                     <= Allocated(r) + reserve
  BY <1>6, <1>7
<1> QED
  BY <1>5, <1>8 DEF known

\* A step that leaves every completed purchase and every refund's amount as they were.
MoneyStays ==
  /\ DOMAIN lots' = Rounds /\ basis' = basis
  /\ \A r \in Rounds :
       /\ LotsFit(r)'
       /\ \A i \in LotsAre(r, "completed") :
            lots'[r][i].status = "completed" /\ lots'[r][i].cost = lots[r][i].cost
       /\ DOMAIN refunds'[r] = DOMAIN refunds[r]
       /\ \A w \in DOMAIN refunds[r] : refunds'[r][w].amount = refunds[r][w].amount

\* Such a step keeps what is covered.
LEMMA MoneyStaysCovered ==
  ASSUME MoneyInv, MoneyStays
  PROVE  MoneyInv'
<1> SUFFICES ASSUME NEW r \in Rounds PROVE BasisFits(r)' /\ Covered(r)'
  BY DEF MoneyInv, MoneyStays
<1>1. BasisFits(r) /\ Covered(r)
  BY DEF MoneyInv
<1>2. /\ basis' = basis /\ DOMAIN refunds'[r] = DOMAIN refunds[r]
      /\ \A i \in LotsAre(r, "completed") :
           lots'[r][i].status = "completed" /\ lots'[r][i].cost = lots[r][i].cost
      /\ \A w \in DOMAIN refunds[r] : refunds'[r][w].amount = refunds[r][w].amount
  BY DEF MoneyStays
<1>3. BasisFits(r)'
  BY <1>1, <1>2 DEF BasisFits, LotsAre
<1>4. [i \in basis[r].lots |-> lots'[r][i].cost] = [i \in basis[r].lots |-> lots[r][i].cost]
  <2>1. \A i \in basis[r].lots : lots'[r][i].cost = lots[r][i].cost
    BY <1>1, <1>2 DEF BasisFits
  <2> QED
    BY <2>1
<1>5. [w \in DOMAIN refunds'[r] |-> refunds'[r][w].amount]
        = [w \in DOMAIN refunds[r] |-> refunds[r][w].amount]
  BY <1>2
<1>6. LotsPaid(r)' = LotsPaid(r) /\ GivenBack(refunds'[r]) = GivenBack(refunds[r])
  BY <1>2, <1>4, <1>5 DEF LotsPaid, GivenBack
<1>7. Covered(r)'
  BY <1>1, <1>2, <1>6 DEF Covered
<1> QED
  BY <1>3, <1>7

\* A step of one lot that completes nothing that did not land, and lets only the first
\* to land pay the rent.
LEMMA LotStep ==
  ASSUME MoneyInv, NEW r \in Rounds, NEW i \in LotsOf(r),
         NEW status, NEW chain, NEW cost, SetLot(r, i, status, chain, cost),
         [status |-> status, chain |-> chain, cost |-> cost] \in LotRecord,
         cost <= LotCost + AtaFee,
         chain # "landed" => cost = 0,
         status = "completed" => chain = "landed",
         cost > LotCost => \A j \in LotsOf(r) : j = i \/ ~ (lots[r][j].cost > LotCost),
         lots[r][i].status = "completed" => status = "completed" /\ cost = lots[r][i].cost
  PROVE  MoneyInv'
<1> DEFINE x == [status |-> status, chain |-> chain, cost |-> cost]
<1>1. /\ lots' = [lots EXCEPT ![r][i] = x] /\ refunds' = refunds /\ basis' = basis
      /\ DOMAIN lots = Rounds
  BY DEF SetLot, planVars, MoneyInv
<1>2. x.status = status /\ x.chain = chain /\ x.cost = cost /\ x \in LotRecord
  OBVIOUS
<1> HIDE DEF x
<1>3. /\ DOMAIN lots' = Rounds
      /\ \A q \in Rounds : q # r => lots'[q] = lots[q]
      /\ lots'[r] = [lots[r] EXCEPT ![i] = x]
  BY <1>1
<1>4. LotsFit(r)
  BY DEF MoneyInv
<1>5. /\ lots'[r] \in [LotsOf(r) -> LotRecord] /\ lots'[r][i] = x
      /\ \A j \in LotsOf(r) : j # i => lots'[r][j] = lots[r][j]
  BY <1>2, <1>3, <1>4 DEF LotsFit
<1>6. LotsFit(r)'
  <2>1. \A j \in LotsOf(r) :
          /\ lots'[r][j].cost <= LotCost + AtaFee
          /\ lots'[r][j].chain # "landed" => lots'[r][j].cost = 0
          /\ lots'[r][j].status = "completed" => lots'[r][j].chain = "landed"
    BY <1>2, <1>4, <1>5 DEF LotsFit
  <2>2. \A j, k \in LotsOf(r) :
          lots'[r][j].cost > LotCost /\ lots'[r][k].cost > LotCost => j = k
    BY <1>2, <1>4, <1>5 DEF LotsFit
  <2> QED
    BY <1>5, <2>1, <2>2 DEF LotsFit, LotsOf
<1>7. MoneyStays
  <2> SUFFICES ASSUME NEW q \in Rounds
               PROVE  /\ LotsFit(q)'
                      /\ \A j \in LotsAre(q, "completed") :
                           lots'[q][j].status = "completed" /\ lots'[q][j].cost = lots[q][j].cost
    BY <1>1, <1>3 DEF MoneyStays
  <2>1. CASE q = r
    BY <1>2, <1>5, <1>6, <2>1 DEF LotsAre
  <2>2. CASE q # r
    BY <1>3, <2>2 DEF LotsAre, MoneyInv, LotsFit, LotsOf
  <2> QED
    BY <2>1, <2>2
<1> QED
  BY <1>7, MoneyStaysCovered

\* Buying a lot, its landing or loss, and its confirmation.
LEMMA LotsKeepMoney ==
  ASSUME MoneyInv, NEW r \in Rounds, NEW i \in LotsOf(r),
         BuyLot(r, i) \/ LotLands(r, i) \/ LotLost(r, i) \/ LotConfirmed(r, i)
  PROVE  MoneyInv'
<1>t. /\ lots[r][i] \in LotRecord /\ LotsFit(r)
      /\ LotCost \in Nat /\ AtaFee \in Nat /\ LotAmount \in Nat
  BY RoundHas DEF MoneyInv, LotsFit, AtaFee
<1>f. /\ lots[r][i].status \in {"planned", "sent", "completed"} /\ lots[r][i].cost \in Nat
      /\ lots[r][i].cost <= LotCost + AtaFee
      /\ lots[r][i].status = "completed" => lots[r][i].chain = "landed"
      /\ \A j \in LotsOf(r) : lots[r][j].chain # "landed" => lots[r][j].cost = 0
  BY <1>t DEF LotRecord, LotsFit
<1>1. CASE BuyLot(r, i)
  <2>1. lots[r][i].status = "planned" /\ SetLot(r, i, "sent", "flying", 0)
    BY <1>1 DEF BuyLot
  <2>2. [status |-> "sent", chain |-> "flying", cost |-> 0] \in LotRecord
    BY DEF LotRecord
  <2> QED
    BY <1>t, <2>1, <2>2, LotStep
<1>2. CASE LotLost(r, i)
  <2>1. lots[r][i].chain = "flying" /\ SetLot(r, i, lots[r][i].status, "lost", 0)
    BY <1>2 DEF LotLost
  <2>2. [status |-> lots[r][i].status, chain |-> "lost", cost |-> 0] \in LotRecord
    BY <1>f DEF LotRecord
  <2> QED
    BY <1>t, <1>f, <2>1, <2>2, LotStep
<1>3. CASE LotConfirmed(r, i)
  <2>1. lots[r][i].chain = "landed" /\ SetLot(r, i, "completed", "landed", lots[r][i].cost)
    BY <1>3 DEF LotConfirmed
  <2>2. [status |-> "completed", chain |-> "landed", cost |-> lots[r][i].cost] \in LotRecord
    BY <1>f DEF LotRecord
  <2>3. lots[r][i].cost > LotCost
          => \A j \in LotsOf(r) : j = i \/ ~ (lots[r][j].cost > LotCost)
    BY <1>t DEF LotsFit
  <2> QED
    BY <1>f, <2>1, <2>2, <2>3, LotStep
<1>4. CASE LotLands(r, i)
  <2> DEFINE first == \A j \in LotsOf(r) : lots[r][j].chain # "landed"
             cost == LotAmount + BuyTxFee + (IF first THEN AtaFee ELSE 0)
  <2>1. lots[r][i].chain = "flying" /\ SetLot(r, i, lots[r][i].status, "landed", cost)
    BY <1>4 DEF LotLands
  <2>2. cost = LotCost + (IF first THEN AtaFee ELSE 0)
    BY DEF LotCost
  <2>3. cost > LotCost => \A j \in LotsOf(r) : j = i \/ ~ (lots[r][j].cost > LotCost)
    <3>1. cost > LotCost => first
      <4> HIDE DEF cost
      <4> QED
        BY <1>t, <2>2
    <3>2. first => \A j \in LotsOf(r) : ~ (lots[r][j].cost > LotCost)
      BY <1>t, <1>f
    <3> HIDE DEF first, cost
    <3> QED
      BY <3>1, <3>2
  <2> HIDE DEF cost
  <2>4. cost \in Nat /\ cost <= LotCost + AtaFee
    BY <1>t, <2>2
  <2>5. [status |-> lots[r][i].status, chain |-> "landed", cost |-> cost] \in LotRecord
    BY <1>f, <2>4 DEF LotRecord
  <2>6. lots[r][i].status # "completed"
    BY <1>f, <2>1
  <2> QED
    BY <2>1, <2>3, <2>4, <2>5, <2>6, LotStep
<1> QED
  BY <1>1, <1>2, <1>3, <1>4

\* Steps that touch neither lots nor refunds.
LEMMA MoneyUntouched ==
  ASSUME MoneyInv, UNCHANGED <<lots, refunds, basis>>
  PROVE  MoneyInv'
<1>1. lots' = lots /\ refunds' = refunds /\ basis' = basis
  OBVIOUS
<1>2. \A r \in Rounds : LotsFit(r)'
  BY <1>1 DEF MoneyInv, LotsFit, LotsOf
<1>3. MoneyStays
  BY <1>1, <1>2 DEF MoneyStays, MoneyInv, LotsAre
<1> QED
  BY <1>3, MoneyStaysCovered

\* Steps of the records of one round's refunds that leave each its amount.
LEMMA AmountsStay ==
  ASSUME MoneyInv, NEW r \in Rounds, UNCHANGED <<lots, basis>>,
         \A q \in Rounds : q # r => refunds'[q] = refunds[q],
         DOMAIN refunds'[r] = DOMAIN refunds[r],
         \A w \in DOMAIN refunds[r] : refunds'[r][w].amount = refunds[r][w].amount
  PROVE  MoneyInv'
<1>1. lots' = lots /\ basis' = basis
  OBVIOUS
<1>2. \A q \in Rounds : LotsFit(q)'
  BY <1>1 DEF MoneyInv, LotsFit, LotsOf
<1>3. \A q \in Rounds : /\ DOMAIN refunds'[q] = DOMAIN refunds[q]
                        /\ \A w \in DOMAIN refunds[q] : refunds'[q][w].amount = refunds[q][w].amount
  OBVIOUS
<1>4. MoneyStays
  BY <1>1, <1>2, <1>3 DEF MoneyStays, MoneyInv, LotsAre
<1> QED
  BY <1>4, MoneyStaysCovered

\* sendChunk writes statuses and signatures, never an amount.
LEMMA ChunkKeepsMoney ==
  ASSUME IInv, MoneyInv, NEW r \in Rounds, SendChunk(r)
  PROVE  MoneyInv'
<1>1. PICK C, arrived, ready :
        /\ Sorted(r, C, arrived, ready)
        /\ \/ SendsNothing(r, C, arrived, ready, "in_progress", TRUE)
           \/ SendsNothing(r, C, arrived, ready, "failed", FALSE)
           \/ SendsPayment(r, C, arrived, ready)
  BY ChunkSorts
<1>2. PICK status, out : Writes(r, arrived, ready, status, out)
  BY <1>1 DEF SendsNothing, SendsPayment
<1>3. DOMAIN refunds = Rounds
  BY DEF IInv, RoundTypes
<1>4. lots' = lots /\ basis' = basis
  BY DEF SendChunk
<1>5. /\ \A q \in Rounds : q # r => refunds'[q] = refunds[q]
      /\ DOMAIN refunds'[r] = DOMAIN refunds[r]
  BY <1>2, <1>3 DEF Writes
<1>6. ASSUME NEW w \in DOMAIN refunds[r] PROVE refunds'[r][w].amount = refunds[r][w].amount
  <2>1. DOMAIN refunds[r][w] = {"status", "amount", "pending"}
    BY DEF IInv, RecordsFit, RecordFits
  <2>2. refunds'[r][w] =
          CASE w \in arrived -> [refunds[r][w] EXCEPT !.status = "completed", !.pending = 0]
            [] w \in ready   -> [refunds[r][w] EXCEPT !.status = status,
                                   !.pending = IF out THEN @ ELSE 0]
            [] OTHER         -> refunds[r][w]
    BY <1>2, <1>3 DEF Writes
  <2>3. CASE w \in arrived
    <3>1. refunds'[r][w] = [refunds[r][w] EXCEPT !.status = "completed", !.pending = 0]
      BY <1>1, <2>2, <2>3 DEF Sorted
    <3> QED
      BY <2>1, <3>1
  <2>4. CASE w \notin arrived /\ w \in ready
    <3>1. refunds'[r][w] = [refunds[r][w] EXCEPT !.status = status,
                              !.pending = IF out THEN refunds[r][w].pending ELSE 0]
      BY <2>2, <2>4
    <3> QED
      BY <2>1, <3>1
  <2>5. CASE w \notin arrived /\ w \notin ready
    BY <2>2, <2>5
  <2> QED
    BY <2>3, <2>4, <2>5
<1> QED
  BY <1>4, <1>5, <1>6, AmountsStay

\* Nor does its answer.
LEMMA AnswerKeepsMoney ==
  ASSUME IInv, MoneyInv, NEW r \in Rounds, ChunkAnswered(r)
  PROVE  MoneyInv'
<1>1. PICK status, pending : SetRefunds(r, pass[r].chunk, status, pending)
  BY DEF ChunkAnswered
<1>2. DOMAIN refunds = Rounds
  BY DEF IInv, RoundTypes
<1>3. lots' = lots /\ basis' = basis
  BY DEF ChunkAnswered
<1>4. /\ \A q \in Rounds : q # r => refunds'[q] = refunds[q]
      /\ DOMAIN refunds'[r] = DOMAIN refunds[r]
      /\ \A w \in DOMAIN refunds[r] : refunds'[r][w] =
           IF w \in pass[r].chunk
           THEN [refunds[r][w] EXCEPT !.status = status, !.pending = pending]
           ELSE refunds[r][w]
  BY <1>1, <1>2 DEF SetRefunds
<1>5. ASSUME NEW w \in DOMAIN refunds[r] PROVE refunds'[r][w].amount = refunds[r][w].amount
  <2>1. DOMAIN refunds[r][w] = {"status", "amount", "pending"}
    BY DEF IInv, RecordsFit, RecordFits
  <2>2. CASE w \in pass[r].chunk
    <3>1. refunds'[r][w] = [refunds[r][w] EXCEPT !.status = status, !.pending = pending]
      BY <1>4, <2>2
    <3> QED
      BY <2>1, <3>1
  <2>3. CASE w \notin pass[r].chunk
    BY <1>4, <2>3
  <2> QED
    BY <2>2, <2>3
<1> QED
  BY <1>3, <1>4, <1>5, AmountsStay

\* Resuming a round buys again only what was sent and lost, and that is not completed.
LEMMA ResumeKeepsMoney ==
  ASSUME MoneyInv, ResumeNext
  PROVE  MoneyInv'
<1> DEFINE new == [status |-> "planned", chain |-> "none", cost |-> 0]
<1>r. PICK r : r = Head(queue)
  OBVIOUS
<1>1. refunds' = refunds /\ basis' = basis /\ Resume(r)
  BY <1>r DEF ResumeNext, planVars
<1>2. PICK again \in SUBSET {i \in LotsAre(r, "sent") : lots[r][i].chain = "lost"} :
        lots' = IF bought[r] THEN lots
                ELSE [lots EXCEPT ![r] = [i \in LotsOf(r) |->
                        IF i \in again THEN new ELSE lots[r][i]]]
  BY <1>1 DEF Resume
<1>3. CASE bought[r]
  BY <1>1, <1>2, <1>3, MoneyUntouched
<1>4. CASE ~bought[r]
  <2>1. /\ DOMAIN lots' = Rounds
        /\ \A q \in Rounds : q # r => lots'[q] = lots[q]
        /\ r \in Rounds =>
             lots'[r] = [i \in LotsOf(r) |-> IF i \in again THEN new ELSE lots[r][i]]
    <3>1. lots' = [lots EXCEPT ![r] = [i \in LotsOf(r) |->
                     IF i \in again THEN new ELSE lots[r][i]]]
      BY <1>2, <1>4
    <3>2. DOMAIN lots = Rounds
      BY DEF MoneyInv
    <3> HIDE DEF new
    <3> QED
      BY <3>1, <3>2
  <2>2. new \in LotRecord /\ new.cost = 0 /\ new.status = "planned"
    BY DEF LotRecord
  <2> HIDE DEF new
  <2>3. ASSUME r \in Rounds
        PROVE  /\ LotsFit(r)'
               /\ \A i \in LotsAre(r, "completed") : lots'[r][i] = lots[r][i]
    <3>1. LotsFit(r) /\ LotCost \in Nat /\ AtaFee \in Nat
      BY <2>3, RoundHas DEF MoneyInv, AtaFee
    <3>2. /\ lots'[r] \in [LotsOf(r) -> LotRecord]
          /\ \A i \in LotsOf(r) : lots'[r][i] = IF i \in again THEN new ELSE lots[r][i]
      BY <2>1, <2>2, <2>3, <3>1 DEF LotsFit
    <3>3. \A i \in LotsOf(r) :
            /\ lots'[r][i].cost <= LotCost + AtaFee
            /\ lots'[r][i].chain # "landed" => lots'[r][i].cost = 0
            /\ lots'[r][i].status = "completed" => lots'[r][i].chain = "landed"
      BY <2>2, <3>1, <3>2 DEF LotsFit
    <3>4. \A i, j \in LotsOf(r) :
            lots'[r][i].cost > LotCost /\ lots'[r][j].cost > LotCost => i = j
      <4>1. ~ (new.cost > LotCost)
        BY <2>2, <3>1
      <4> QED
        BY <3>1, <3>2, <4>1 DEF LotsFit
    <3>5. LotsFit(r)'
      BY <3>2, <3>3, <3>4 DEF LotsFit, LotsOf
    <3>6. \A i \in LotsAre(r, "completed") : i \in LotsOf(r) /\ i \notin again
      BY DEF LotsAre
    <3> QED
      BY <3>2, <3>5, <3>6
  <2>4. MoneyStays
    <3> SUFFICES ASSUME NEW q \in Rounds
                 PROVE  /\ LotsFit(q)'
                        /\ \A j \in LotsAre(q, "completed") :
                             lots'[q][j].status = "completed" /\ lots'[q][j].cost = lots[q][j].cost
      BY <1>1, <2>1 DEF MoneyStays
    <3>1. CASE q = r
      BY <2>3, <3>1 DEF LotsAre
    <3>2. CASE q # r
      BY <2>1, <3>2 DEF LotsAre, MoneyInv, LotsFit, LotsOf
    <3> QED
      BY <3>1, <3>2
  <2> QED
    BY <2>4, MoneyStaysCovered
<1> QED
  BY <1>3, <1>4

\* refundUnspent keeps a plan there is, and covers the one it makes.
LEMMA PlanKeepsMoney ==
  ASSUME IInv, MoneyInv, NEW r \in Rounds, PlanRefunds(r)
  PROVE  MoneyInv'
<1>d. DOMAIN refunds = Rounds /\ DOMAIN basis = Rounds /\ DOMAIN lots = Rounds
  BY DEF IInv, RoundTypes, MoneyInv
<1>u. lots' = lots
  BY DEF PlanRefunds
<1>1. \/ UNCHANGED <<refunds, basis>>
      \/ \E lotDebit, sendDebit :
           /\ Readings(r, lotDebit, sendDebit)
           /\ refunds' = [refunds EXCEPT ![r] =
                RefundPlan(Unspent(r, lotDebit, sendDebit), Stake[r], BatchSize)]
           /\ basis' = [basis EXCEPT ![r] = BasisOf(r, lotDebit, sendDebit)]
  <2> DEFINE L(M, miss) == [i \in LotsOf(r) |->
                              ReadDebit(lots[r][i].cost, IF i \in M THEN miss ELSE "none")]
             S(M, miss) == [w \in Backers(r) |->
                              ReadDebit(DeliveryCost(r, w), IF w \in M THEN miss ELSE "none")]
  <2>1. \E lotsMissed \in SUBSET Sent(r), sendsMissed \in SUBSET Delivered(r),
           miss \in {"failed", "unheard"} :
          \/ UNCHANGED <<refunds, basis>>
          \/ /\ refunds' = [refunds EXCEPT ![r] =
                  RefundPlan(Unspent(r, L(lotsMissed, miss), S(sendsMissed, miss)),
                             Stake[r], BatchSize)]
             /\ basis' = [basis EXCEPT ![r] =
                  BasisOf(r, L(lotsMissed, miss), S(sendsMissed, miss))]
    BY ZenonT(60) DEF PlanRefunds
  <2>2. \A M, N, miss : Readings(r, L(M, miss), S(N, miss))
    BY DEF Readings, ReadDebit
  <2> HIDE DEF L, S
  <2> QED
    BY <2>1, <2>2
<1>2. CASE UNCHANGED <<refunds, basis>>
  BY <1>2, <1>u, MoneyUntouched
<1>3. ASSUME NEW lotDebit, NEW sendDebit, Readings(r, lotDebit, sendDebit),
             refunds' = [refunds EXCEPT ![r] =
               RefundPlan(Unspent(r, lotDebit, sendDebit), Stake[r], BatchSize)],
             basis' = [basis EXCEPT ![r] = BasisOf(r, lotDebit, sendDebit)]
      PROVE  MoneyInv'
  <2> DEFINE plan  == RefundPlan(Unspent(r, lotDebit, sendDebit), Stake[r], BatchSize)
             known == BasisOf(r, lotDebit, sendDebit)
  <2>1. LotsFit(r)
    BY DEF MoneyInv
  <2>2. /\ \A w \in DOMAIN plan : plan[w].amount \in Nat
        /\ known.exact =>
             SumFunction([i \in known.lots |-> lots[r][i].cost])
             + SendsPaid(r, known.sends \ known.misread) + GivenBack(plan)
               <= Allocated(r) + SendReserve(Ata[r])
    BY <1>3, <2>1, PlanIsCovered
  <2>3. known.lots = LotsAre(r, "completed") /\ known.sends \subseteq Backers(r)
    BY DEF BasisOf, Delivered
  <2>4. refunds' = [refunds EXCEPT ![r] = plan] /\ basis' = [basis EXCEPT ![r] = known]
    BY <1>3
  <2> HIDE DEF plan, known
  <2>5. /\ refunds'[r] = plan /\ basis'[r] = known /\ DOMAIN basis' = Rounds
        /\ \A q \in Rounds : q # r => refunds'[q] = refunds[q] /\ basis'[q] = basis[q]
    BY <1>d, <2>4
  <2>6. \A q \in Rounds : LotsFit(q)'
    BY <1>u DEF MoneyInv, LotsFit, LotsOf
  <2>7. BasisFits(r)' /\ Covered(r)'
    <3>1. BasisFits(r)'
      BY <1>u, <2>2, <2>3, <2>5 DEF BasisFits, LotsAre
    <3>2. Covered(r)'
      BY <1>u, <2>2, <2>5 DEF Covered, LotsPaid
    <3> QED
      BY <3>1, <3>2
  <2>8. ASSUME NEW q \in Rounds, q # r PROVE BasisFits(q)' /\ Covered(q)'
    <3>1. BasisFits(q) /\ Covered(q)
      BY DEF MoneyInv
    <3>2. refunds'[q] = refunds[q] /\ basis'[q] = basis[q]
      BY <2>5, <2>8
    <3> QED
      BY <1>u, <3>1, <3>2 DEF BasisFits, Covered, LotsPaid, LotsAre
  <2> QED
    BY <1>u, <1>d, <2>5, <2>6, <2>7, <2>8 DEF MoneyInv
<1> QED
  BY <1>1, <1>2, <1>3

\* Nothing is bought, planned or given back at the start.
LEMMA InitMoney == Init => MoneyInv
<1> SUFFICES ASSUME Init PROVE MoneyInv
  OBVIOUS
<1> DEFINE new == [status |-> "planned", chain |-> "none", cost |-> 0]
<1>1. /\ lots = [r \in Rounds |-> [i \in LotsOf(r) |-> new]]
      /\ refunds = [r \in Rounds |-> <<>>] /\ basis = [r \in Rounds |-> NoBasis]
  BY DEF Init
<1>2. new \in LotRecord /\ new.cost = 0 /\ new.status = "planned"
  BY DEF LotRecord
<1> HIDE DEF new
<1>3. DOMAIN lots = Rounds /\ DOMAIN basis = Rounds
  BY <1>1
<1>4. ASSUME NEW r \in Rounds PROVE LotsFit(r) /\ BasisFits(r) /\ Covered(r)
  <2>1. lots[r] = [i \in LotsOf(r) |-> new] /\ refunds[r] = <<>> /\ basis[r] = NoBasis
    BY <1>1
  <2>2. LotCost \in Nat /\ AtaFee \in Nat
    BY RoundHas DEF AtaFee
  <2>3. lots[r] \in [LotsOf(r) -> LotRecord] /\ \A i \in LotsOf(r) : lots[r][i] = new
    BY <1>2, <2>1
  <2>4. LotsFit(r)
    BY <1>2, <2>2, <2>3 DEF LotsFit
  <2>5. DOMAIN refunds[r] = {} /\ basis[r].lots = {} /\ basis[r].sends = {}
        /\ basis[r].planned = FALSE
    BY <2>1 DEF NoBasis
  <2> QED
    BY <2>4, <2>5 DEF BasisFits, Covered
<1> QED
  BY <1>3, <1>4 DEF MoneyInv

\* Every step keeps what is covered.
LEMMA NextMoney == IInv /\ MoneyInv /\ [Next]_vars => MoneyInv'
<1> SUFFICES ASSUME IInv, MoneyInv, [Next]_vars PROVE MoneyInv'
  OBVIOUS
<1>1. ASSUME NEW r \in Rounds, Execute(r) \/ RoundStep(r) PROVE MoneyInv'
  <2>1. CASE \/ Execute(r) \/ InitFails(r) \/ CreateState(r) \/ BuyingEnds(r)
             \/ TradingEnds(r) \/ SendingBreaks(r) \/ Finalize(r)
             \/ \E w \in Backers(r) : Deliver(r, w)
    <3>1. UNCHANGED <<lots, refunds, basis>>
      BY <2>1 DEF Execute, InitFails, CreateState, BuyingEnds, TradingEnds, SendingBreaks,
                  Finalize, Deliver, planVars
    <3> QED
      BY <3>1, MoneyUntouched
  <2>2. CASE \E i \in LotsOf(r) : BuyLot(r, i) \/ LotConfirmed(r, i)
    BY <2>2, LotsKeepMoney
  <2>3. CASE PlanRefunds(r)
    BY <2>3, PlanKeepsMoney
  <2>4. CASE SendChunk(r)
    BY <2>4, ChunkKeepsMoney
  <2>5. CASE ChunkAnswered(r)
    BY <2>5, AnswerKeepsMoney
  <2> QED
    BY <1>1, <2>1, <2>2, <2>3, <2>4, <2>5 DEF RoundStep
<1>2. CASE Chain
  <2>1. ASSUME NEW r \in Rounds, NEW i \in LotsOf(r), LotLands(r, i) \/ LotLost(r, i)
        PROVE  MoneyInv'
    BY <2>1, LotsKeepMoney
  <2>2. ASSUME NEW p \in DOMAIN payments, PaymentEnds(p) PROVE MoneyInv'
    BY <2>2, MoneyUntouched DEF PaymentEnds
  <2> QED
    BY <1>2, <2>1, <2>2 DEF Chain
<1>3. CASE Crash \/ Exit \/ Stop \/ Start
  <2>1. UNCHANGED <<lots, refunds, basis>>
    BY <1>3 DEF Crash, Exit, Die, Stop, Start, planVars
  <2> QED
    BY <2>1, MoneyUntouched
<1>4. CASE ResumeNext
  BY <1>4, ResumeKeepsMoney
<1>5. CASE ResumeEnds \/ UNCHANGED vars
  <2>1. UNCHANGED <<lots, refunds, basis>>
    BY <1>5 DEF ResumeEnds, vars, planVars
  <2> QED
    BY <2>1, MoneyUntouched
<1> QED
  BY <1>1, <1>2, <1>3, <1>4, <1>5 DEF Next, ProcessStep

-----------------------------------------------------------------------------
(* The theorems.                                                           *)

\* The inductive invariant holds in every state the buyer's process can reach.
THEOREM Invariance == Spec => []IInv
BY InitIInv, NextIInv, PTL DEF Spec

\* No backer is paid twice for a round in one life of the process, and a refund that
\* is written down as made has a payment that landed.
THEOREM OneRefundALife == Spec => []RefundedOnceALife
<1>1. IInv => RefundedOnceALife
  <2> SUFFICES ASSUME IInv, NEW r \in Rounds, NEW w \in Backers(r)
               PROVE  /\ \A p, q \in Landed(r, w) : p # q => payments[p].life # payments[q].life
                      /\ w \in DOMAIN refunds[r] /\ refunds[r][w].status = "completed"
                           => Landed(r, w) # {}
    BY DEF RefundedOnceALife
  <2>1. ASSUME NEW p \in Landed(r, w), NEW q \in Landed(r, w), p # q
        PROVE  payments[p].life # payments[q].life
    BY <2>1 DEF IInv, PaidApart, Landed
  <2>2. w \in DOMAIN refunds[r] /\ refunds[r][w].status = "completed" => Landed(r, w) # {}
    BY DEF IInv, RecordsFit, RecordFits
  <2> QED
    BY <2>1, <2>2
<1> QED
  BY <1>1, Invariance, PTL

\* A step that takes a round out of rest is a request for a round without a file, or
\* the recovery of one whose file is open.
LEMMA TakenUp ==
  ASSUME IInv, Next, NEW r \in Rounds, pass[r].phase = "none", pass'[r].phase # "none"
  PROVE  file[r] # "finished"
<1>t. pass \in [Rounds -> PassType]
  BY DEF IInv, RoundTypes
<1>1. ASSUME NEW q, \/ Execute(q) \/ InitFails(q) \/ CreateState(q) \/ TradingEnds(q)
                     \/ SendingBreaks(q) \/ Finalize(q)
      PROVE  file[r] # "finished"
  <2>1. \E phase, buying : Enter(q, phase, buying)
    BY <1>1 DEF Execute, InitFails, CreateState, TradingEnds, SendingBreaks, Finalize
  <2>2. q # r => pass'[r] = pass[r]
    BY <2>1, <1>t DEF Enter
  <2>3. q = r
    BY <2>2
  <2> QED
    BY <1>1, <2>3 DEF Execute, InitFails, CreateState, TradingEnds, SendingBreaks, Finalize,
                      FreeToStart
<1>2. ASSUME NEW q \in Rounds, PlanRefunds(q) \/ SendChunk(q) \/ ChunkAnswered(q)
      PROVE  FALSE
  <2>1. PassFits(q)
    BY DEF IInv, PassesFit
  <2>2. pass[q].phase # "none"
    BY <1>2, <2>1 DEF PlanRefunds, SendChunk, ChunkAnswered, PassFits
  <2>3. ASSUME q # r PROVE pass'[r] = pass[r]
    <3>1. CASE PlanRefunds(q)
      BY <2>3, <3>1, <1>t DEF PlanRefunds
    <3>2. CASE SendChunk(q)
      BY <2>3, <3>2, <1>t DEF SendChunk
    <3>3. CASE ChunkAnswered(q)
      BY <2>3, <3>3, <1>t DEF ChunkAnswered
    <3> QED
      BY <1>2, <3>1, <3>2, <3>3
  <2> QED
    BY <2>2, <2>3
<1>3. ASSUME NEW q \in Rounds, BuyingEnds(q) PROVE FALSE
  <2>1. pass' = [pass EXCEPT ![q].buying = FALSE]
    BY <1>3 DEF BuyingEnds
  <2>2. pass'[r].phase = pass[r].phase
    BY <2>1, <1>t DEF PassType
  <2> QED
    BY <2>2
<1>4. pass' # pass
  OBVIOUS
<1>5. CASE Crash \/ Exit
  <2>1. pass' = [q \in Rounds |-> Idle]
    BY <1>5 DEF Crash, Exit, Die
  <2> QED
    BY <2>1 DEF Idle
<1>6. CASE ResumeNext
  <2>1. file[Head(queue)] = "open" /\ \E phase, buying : Enter(Head(queue), phase, buying)
    BY <1>6 DEF ResumeNext, Resume
  <2>2. Head(queue) # r => pass'[r] = pass[r]
    BY <2>1, <1>t DEF Enter
  <2> QED
    BY <2>1, <2>2
<1>7. ASSUME NEW q \in Rounds, Execute(q) \/ RoundStep(q) PROVE file[r] # "finished"
  <2>1. CASE \/ \E i \in LotsOf(q) : BuyLot(q, i) \/ LotConfirmed(q, i)
             \/ \E w \in Backers(q) : Deliver(q, w)
    BY <2>1, <1>4 DEF BuyLot, LotConfirmed, SetLot, Deliver
  <2> QED
    BY <1>1, <1>2, <1>3, <1>7, <2>1 DEF RoundStep
<1>8. CASE Chain \/ Stop \/ Start \/ ResumeEnds
  BY <1>4, <1>8 DEF Chain, LotLands, LotLost, SetLot, PaymentEnds, Stop, Start, ResumeEnds
<1> QED
  BY <1>5, <1>6, <1>7, <1>8 DEF Next, ProcessStep

\* Whoever takes up a round finds no earlier pass still buying for it.
THEOREM NoTwoPasses == Spec => NoSecondPass
<1>1. IInv /\ [Next]_vars
        => [\A r \in Rounds : pass[r].phase = "none" /\ pass'[r].phase # "none"
                                => ~pass[r].buying]_vars
  <2> SUFFICES ASSUME IInv, Next, NEW r \in Rounds,
                      pass[r].phase = "none", pass'[r].phase # "none"
               PROVE  ~pass[r].buying
    BY DEF vars
  <2>1. PassFits(r) /\ file[r] # "finished"
    BY TakenUp DEF IInv, PassesFit
  <2> QED
    BY <2>1 DEF PassFits
<1> QED
  BY <1>1, Invariance, PTL DEF Spec, NoSecondPass

\* With every figure read from the chain, the purchases and deliveries a refund plan
\* knows of and what it gives back stay within what the round was allocated and the
\* reserve for its deliveries.
THEOREM KeeperIsCovered == Spec => []KeeperCovered
<1>1. IInv /\ MoneyInv /\ [Next]_vars => (IInv /\ MoneyInv)'
  BY NextIInv, NextMoney
<1>2. Init => IInv /\ MoneyInv
  BY InitIInv, InitMoney
<1>3. MoneyInv => KeeperCovered
  <2> SUFFICES ASSUME MoneyInv, NEW r \in Rounds, basis[r].planned /\ basis[r].exact
               PROVE  LotsPaid(r) + SendsPaid(r, basis[r].sends \ basis[r].misread)
                        + GivenBack(refunds[r]) <= Allocated(r) + SendReserve(Ata[r])
    BY DEF KeeperCovered, LotsPaid, SendsPaid, GivenBack
  <2> QED
    BY DEF MoneyInv, Covered
<1> QED
  BY <1>1, <1>2, <1>3, PTL DEF Spec
=============================================================================
