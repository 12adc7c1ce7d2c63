------------------------- MODULE OrderServiceProofs -------------------------
(***************************************************************************)
(* Theorems about the order flow, for any number of orders, lines, tables, *)
(* dishes and ingredients: tables and payments (the invariant IInv), what  *)
(* an order's row says of its lines (RowsAgree), and that the shelf is     *)
(* accounted for and covers what is promised (ShelfInv).                   *)
(*                                                                         *)
(* Then theorems about one ingredient of the inventory (module             *)
(* IngredientStock), whose lots need the same facts about sums: draining   *)
(* lots in an order takes exactly the quantity (FrontGivesItsShare), so    *)
(* that stock, lots and movements agree (StockInv).                        *)
(***************************************************************************)
EXTENDS OrderService, IngredientStock, FiniteSetTheorems, WellFoundedInduction, TLAPS

-----------------------------------------------------------------------------
(* Sums over a finite set *)

\* A set of subsets of a finite set that is not empty has a smallest one.
LEMMA SmallestSet ==
    ASSUME NEW S, IsFiniteSet(S), NEW B \in SUBSET (SUBSET S), B # {}
    PROVE  \E s \in B : \A x \in s : s \ {x} \notin B
  <1>1. IsWellFoundedOn(StrictSubsetOrdering(S), FiniteSubsetsOf(S))
    BY FS_StrictSubsetOrderingWellFounded
  <1>2. B \in SUBSET FiniteSubsetsOf(S)
    BY FS_Subset DEF FiniteSubsetsOf
  <1>3. PICK s \in B : \A u \in B : ~(<<u, s>> \in StrictSubsetOrdering(S))
    BY <1>1, <1>2, WFMin
  <1>4. ASSUME NEW x \in s, s \ {x} \in B
        PROVE  FALSE
    <2>1. <<s \ {x}, s>> \in StrictSubsetOrdering(S)
      BY <1>2, <1>4 DEF StrictSubsetOrdering
    <2>2. QED
      BY <1>3, <1>4, <2>1
  <1>5. QED
    BY <1>4

\* What holds of the empty set, and of a set whenever it holds of the set
\* without any one of its elements, holds of every subset.
LEMMA SetInduction ==
    ASSUME NEW S, IsFiniteSet(S), NEW P,
           \A s \in SUBSET S : (\A x \in s : s \ {x} \in P) => s \in P
    PROVE  \A s \in SUBSET S : s \in P
  <1> SUFFICES ASSUME NEW u \in SUBSET S, u \notin P
               PROVE  FALSE
    OBVIOUS
  <1> DEFINE B == {s \in SUBSET S : s \notin P}
  <1>1. PICK s \in B : \A x \in s : s \ {x} \notin B
    <2>1. B \in SUBSET (SUBSET S) /\ B # {}
      OBVIOUS
    <2> HIDE DEF B
    <2>2. QED
      BY <2>1, SmallestSet
  <1>2. QED
    BY <1>1

Chosen(s) == CHOOSE x \in s : TRUE

LEMMA ChosenIsIn ==
    ASSUME NEW s, s # {}
    PROVE  Chosen(s) \in s
  BY DEF Chosen

\* The function SumFunctionOnSet iterates.
Adds(f, S, g) ==
    g = [s \in SUBSET S |->
            IF s = {} THEN 0 ELSE f[Chosen(s)] + g[s \ {Chosen(s)}]]

LEMMA SumIsIterated ==
    ASSUME NEW f, NEW S
    PROVE  SumFunctionOnSet(f, S) = (CHOOSE g : Adds(f, S, g))[S]
  BY DEF SumFunctionOnSet, FoldFunctionOnSet, MapThenFoldSet, Adds, Chosen

LEMMA SmallestNumber ==
    ASSUME NEW B \in SUBSET Nat, B # {}
    PROVE  \E n \in B : \A m \in B : n <= m
  <1>1. PICK n \in B : \A m \in B : ~(<<m, n>> \in OpToRel(<, Nat))
    BY WFMin, NatLessThanWellFounded
  <1>2. \A m \in B : ~(m < n)
    BY <1>1 DEF OpToRel
  <1>3. QED
    BY <1>2

\* The iteration as far as the sets of at most n elements.
AddsUpTo(f, S, g, n) ==
    /\ g = [s \in SUBSET S |-> g[s]]
    /\ \A s \in SUBSET S : Cardinality(s) <= n =>
          g[s] = IF s = {} THEN 0 ELSE f[Chosen(s)] + g[s \ {Chosen(s)}]

LEMMA SmallerWithout ==
    ASSUME NEW S, IsFiniteSet(S), NEW s \in SUBSET S, s # {}
    PROVE  /\ s \ {Chosen(s)} \in SUBSET S
           /\ Cardinality(s) \in Nat
           /\ Cardinality(s \ {Chosen(s)}) = Cardinality(s) - 1
  <1>1. IsFiniteSet(s) /\ Chosen(s) \in s
    BY FS_Subset, ChosenIsIn
  <1>2. Cardinality(s) \in Nat
    BY <1>1, FS_CardinalityType
  <1>3. Cardinality(s \ {Chosen(s)}) = Cardinality(s) - 1
    BY <1>1, FS_RemoveElement
  <1>4. QED
    BY <1>2, <1>3

LEMMA OneMore ==
    ASSUME NEW f, NEW S, IsFiniteSet(S), NEW n \in Nat, NEW g, AddsUpTo(f, S, g, n)
    PROVE  \E h : AddsUpTo(f, S, h, n + 1)
  <1> DEFINE Sum(s) == IF s = {} THEN 0 ELSE f[Chosen(s)] + g[s \ {Chosen(s)}]
             h == [s \in SUBSET S |-> IF Cardinality(s) <= n THEN g[s] ELSE Sum(s)]
  <1>1. \A s \in SUBSET S : Cardinality(s) <= n => g[s] = Sum(s)
    BY DEF AddsUpTo
  <1>2. \A s \in SUBSET S : h[s] = Sum(s)
    BY <1>1
  <1>3. ASSUME NEW s \in SUBSET S, Cardinality(s) <= n + 1, s # {}
        PROVE  h[s \ {Chosen(s)}] = g[s \ {Chosen(s)}]
    <2>1. s \ {Chosen(s)} \in SUBSET S /\ Cardinality(s \ {Chosen(s)}) <= n
      BY <1>3, SmallerWithout
    <2>2. QED
      BY <2>1
  <1>4. h = [s \in SUBSET S |-> h[s]]
    OBVIOUS
  <1>5. \A s \in SUBSET S : Cardinality(s) <= n + 1 =>
           h[s] = IF s = {} THEN 0 ELSE f[Chosen(s)] + h[s \ {Chosen(s)}]
    <2> HIDE DEF h
    <2>1. QED
      BY <1>2, <1>3
  <1>6. AddsUpTo(f, S, h, n + 1)
    <2> HIDE DEF h
    <2>1. QED
      BY <1>4, <1>5 DEF AddsUpTo
  <1>7. QED
    BY <1>6

LEMMA AddsExists ==
    ASSUME NEW f, NEW S, IsFiniteSet(S)
    PROVE  \E g : Adds(f, S, g)
  <1> DEFINE B == {n \in Nat : ~\E g : AddsUpTo(f, S, g, n)}
  <1>1. B = {}
    <2> SUFFICES ASSUME B # {} PROVE FALSE
      OBVIOUS
    <2>1. PICK n \in B : \A m \in B : n <= m
      <3>1. B \in SUBSET Nat
        OBVIOUS
      <3> HIDE DEF B
      <3>2. QED
        BY <3>1, SmallestNumber
    <2>2. n # 0
      <3> DEFINE g == [s \in SUBSET S |-> 0]
      <3>1. \A s \in SUBSET S : Cardinality(s) <= 0 => s = {}
        BY FS_Subset, FS_EmptySet, FS_CardinalityType
      <3>2. AddsUpTo(f, S, g, 0)
        BY <3>1 DEF AddsUpTo
      <3>3. 0 \notin B
        BY <3>2
      <3>4. QED
        BY <3>3
    <2>3. n - 1 \in Nat /\ n - 1 \notin B
      <3> HIDE DEF B
      <3>1. n \in Nat
        BY DEF B
      <3>2. QED
        BY <2>1, <2>2, <3>1
    <2>4. PICK g : AddsUpTo(f, S, g, n - 1)
      BY <2>3
    <2>5. \E h : AddsUpTo(f, S, h, (n - 1) + 1)
      BY <2>3, <2>4, OneMore
    <2>6. (n - 1) + 1 = n
      BY <2>3
    <2>7. QED
      BY <2>5, <2>6
  <1>2. Cardinality(S) \in Nat
    BY FS_CardinalityType
  <1>3. PICK g : AddsUpTo(f, S, g, Cardinality(S))
    BY <1>1, <1>2
  <1>4. \A s \in SUBSET S : Cardinality(s) <= Cardinality(S)
    BY FS_Subset
  <1>5. Adds(f, S, g)
    BY <1>3, <1>4 DEF Adds, AddsUpTo
  <1>6. QED
    BY <1>5

\* Iterations over a set and over a part of it agree on the part.
LEMMA AddsAgree ==
    ASSUME NEW f, NEW S, IsFiniteSet(S), NEW T \in SUBSET S,
           NEW g, Adds(f, S, g), NEW h, Adds(f, T, h)
    PROVE  \A s \in SUBSET T : g[s] = h[s]
  <1> DEFINE P == {s \in SUBSET T : g[s] = h[s]}
  <1>1. ASSUME NEW s \in SUBSET T, \A x \in s : s \ {x} \in P
        PROVE  s \in P
    <2>1. /\ g[s] = IF s = {} THEN 0 ELSE f[Chosen(s)] + g[s \ {Chosen(s)}]
          /\ h[s] = IF s = {} THEN 0 ELSE f[Chosen(s)] + h[s \ {Chosen(s)}]
      BY DEF Adds
    <2>2. s # {} => g[s \ {Chosen(s)}] = h[s \ {Chosen(s)}]
      BY <1>1, ChosenIsIn
    <2>3. QED
      BY <2>1, <2>2
  <1>2. IsFiniteSet(T)
    BY FS_Subset
  <1>3. \A s \in SUBSET T : s \in P
    <2> HIDE DEF P
    <2>1. QED
      BY <1>1, <1>2, SetInduction
  <1>4. QED
    BY <1>3

LEMMA SumOfNone ==
    ASSUME NEW f
    PROVE  SumFunctionOnSet(f, {}) = 0
  <1>1. IsFiniteSet({})
    BY FS_EmptySet
  <1>2. Adds(f, {}, CHOOSE g : Adds(f, {}, g))
    BY <1>1, AddsExists
  <1>3. QED
    BY <1>2, SumIsIterated DEF Adds

LEMMA SumOfSome ==
    ASSUME NEW f, NEW S, IsFiniteSet(S), S # {}
    PROVE  SumFunctionOnSet(f, S)
              = f[Chosen(S)] + SumFunctionOnSet(f, S \ {Chosen(S)})
  <1> DEFINE T == S \ {Chosen(S)}
             g == CHOOSE g : Adds(f, S, g)
             h == CHOOSE h : Adds(f, T, h)
  <1>1. IsFiniteSet(T) /\ T \in SUBSET S
    BY FS_Subset
  <1>2. Adds(f, S, g) /\ Adds(f, T, h)
    BY <1>1, AddsExists
  <1> HIDE DEF g, h, T
  <1>3. g[T] = h[T]
    BY <1>1, <1>2, AddsAgree
  <1>4. g[S] = f[Chosen(S)] + g[T]
    BY <1>2 DEF Adds, T
  <1>5. SumFunctionOnSet(f, S) = g[S] /\ SumFunctionOnSet(f, T) = h[T]
    BY SumIsIterated DEF g, h
  <1>6. QED
    BY <1>3, <1>4, <1>5 DEF T

LEMMA SumIsInteger ==
    ASSUME NEW S, IsFiniteSet(S), NEW f, \A x \in S : f[x] \in Int
    PROVE  SumFunctionOnSet(f, S) \in Int
  <1> DEFINE P == {s \in SUBSET S : SumFunctionOnSet(f, s) \in Int}
  <1>1. ASSUME NEW s \in SUBSET S, \A x \in s : s \ {x} \in P
        PROVE  s \in P
    <2>1. CASE s = {}
      BY <2>1, SumOfNone
    <2>2. CASE s # {}
      <3>1. Chosen(s) \in s /\ IsFiniteSet(s)
        BY <2>2, ChosenIsIn, FS_Subset
      <3>2. SumFunctionOnSet(f, s \ {Chosen(s)}) \in Int /\ f[Chosen(s)] \in Int
        BY <1>1, <3>1
      <3>3. QED
        BY <2>2, <3>1, <3>2, SumOfSome
    <2>3. QED
      BY <2>1, <2>2
  <1>2. \A s \in SUBSET S : s \in P
    <2> HIDE DEF P
    <2>1. QED
      BY <1>1, SetInduction
  <1>3. QED
    BY <1>2

\* Any element may be taken first: the sum does not depend on the order.
LEMMA SumWithout ==
    ASSUME NEW S, IsFiniteSet(S), NEW f, \A x \in S : f[x] \in Int, NEW e \in S
    PROVE  SumFunctionOnSet(f, S) = f[e] + SumFunctionOnSet(f, S \ {e})
  <1> DEFINE Sum(s) == SumFunctionOnSet(f, s)
             P == {s \in SUBSET S : \A x \in s : Sum(s) = f[x] + Sum(s \ {x})}
  <1>1. ASSUME NEW s \in SUBSET S, \A x \in s : s \ {x} \in P
        PROVE  s \in P
    <2> SUFFICES ASSUME NEW x \in s
                 PROVE  Sum(s) = f[x] + Sum(s \ {x})
      OBVIOUS
    <2> DEFINE c == Chosen(s)
    <2>1. c \in s /\ IsFiniteSet(s)
      BY ChosenIsIn, FS_Subset
    <2>2. Sum(s) = f[c] + Sum(s \ {c})
      BY <2>1, SumOfSome
    <2>3. CASE x = c
      BY <2>2, <2>3
    <2>4. CASE x # c
      <3>1. x \in s \ {c} /\ c \in s \ {x}
        BY <2>1, <2>4
      <3>2. Sum(s \ {c}) = f[x] + Sum((s \ {c}) \ {x})
        BY <1>1, <2>1, <3>1
      <3>3. Sum(s \ {x}) = f[c] + Sum((s \ {x}) \ {c})
        BY <1>1, <2>1, <3>1
      <3>4. (s \ {c}) \ {x} = (s \ {x}) \ {c}
        OBVIOUS
      <3>5. Sum((s \ {c}) \ {x}) \in Int /\ f[x] \in Int /\ f[c] \in Int
        <4>1. IsFiniteSet((s \ {c}) \ {x}) /\ (s \ {c}) \ {x} \subseteq S
          BY <2>1, FS_Subset
        <4>2. QED
          BY <2>1, <4>1, SumIsInteger
      <3> HIDE DEF Sum, c
      <3>6. Sum(s \ {x}) = f[c] + Sum((s \ {c}) \ {x})
        BY <3>3, <3>4
      <3>7. QED
        BY <2>2, <3>2, <3>5, <3>6
    <2>5. QED
      BY <2>3, <2>4
  <1>2. \A s \in SUBSET S : s \in P
    <2> HIDE DEF P
    <2>1. QED
      BY <1>1, SetInduction
  <1>3. QED
    BY <1>2

LEMMA SumOfSame ==
    ASSUME NEW S, IsFiniteSet(S), NEW f, NEW h, \A x \in S : f[x] = h[x]
    PROVE  SumFunctionOnSet(f, S) = SumFunctionOnSet(h, S)
  <1> DEFINE P == {s \in SUBSET S : SumFunctionOnSet(f, s) = SumFunctionOnSet(h, s)}
  <1>1. ASSUME NEW s \in SUBSET S, \A x \in s : s \ {x} \in P
        PROVE  s \in P
    <2>1. CASE s = {}
      BY <2>1, SumOfNone
    <2>2. CASE s # {}
      <3>1. Chosen(s) \in s /\ IsFiniteSet(s)
        BY <2>2, ChosenIsIn, FS_Subset
      <3>2. /\ f[Chosen(s)] = h[Chosen(s)]
            /\ SumFunctionOnSet(f, s \ {Chosen(s)}) = SumFunctionOnSet(h, s \ {Chosen(s)})
        BY <1>1, <3>1
      <3>3. QED
        BY <2>2, <3>1, <3>2, SumOfSome
    <2>3. QED
      BY <2>1, <2>2
  <1>2. \A s \in SUBSET S : s \in P
    <2> HIDE DEF P
    <2>1. QED
      BY <1>1, SetInduction
  <1>3. QED
    BY <1>2

\* A change at one point changes the sum by as much.
LEMMA SumChangedAt ==
    ASSUME NEW S, IsFiniteSet(S), NEW e \in S,
           NEW f, \A x \in S : f[x] \in Int,
           NEW h, \A x \in S : h[x] \in Int,
           \A x \in S \ {e} : h[x] = f[x]
    PROVE  SumFunctionOnSet(h, S) = SumFunctionOnSet(f, S) + h[e] - f[e]
  <1>1. IsFiniteSet(S \ {e})
    BY FS_Subset
  <1>2. SumFunctionOnSet(f, S \ {e}) = SumFunctionOnSet(h, S \ {e})
    BY <1>1, SumOfSame
  <1>3. /\ SumFunctionOnSet(f, S) = f[e] + SumFunctionOnSet(f, S \ {e})
        /\ SumFunctionOnSet(h, S) = h[e] + SumFunctionOnSet(h, S \ {e})
    BY SumWithout
  <1>4. SumFunctionOnSet(f, S \ {e}) \in Int /\ f[e] \in Int /\ h[e] \in Int
    BY <1>1, SumIsInteger
  <1>5. QED
    BY <1>2, <1>3, <1>4

\* What is added up over a part, and is no more there, comes to no more.
LEMMA SumOfPart ==
    ASSUME NEW S, IsFiniteSet(S), NEW T \in SUBSET S,
           NEW f, \A x \in T : f[x] \in Int,
           NEW h, \A x \in S : h[x] \in Int,
           \A x \in T : f[x] <= h[x], \A x \in S \ T : 0 <= h[x]
    PROVE  SumFunctionOnSet(f, T) <= SumFunctionOnSet(h, S)
  <1> DEFINE P == {s \in SUBSET S : SumFunctionOnSet(f, s \cap T) <= SumFunctionOnSet(h, s)}
  <1>1. ASSUME NEW s \in SUBSET S, \A x \in s : s \ {x} \in P
        PROVE  s \in P
    <2>1. CASE s = {}
      <3>1. s \cap T = {}
        BY <2>1
      <3>2. QED
        BY <2>1, <3>1, SumOfNone
    <2>2. CASE s # {}
      <3> DEFINE e == Chosen(s)
                 rest == s \ {e}
      <3>1. e \in s /\ IsFiniteSet(s) /\ IsFiniteSet(rest)
            /\ IsFiniteSet(s \cap T) /\ IsFiniteSet(rest \cap T)
        BY <2>2, ChosenIsIn, FS_Subset
      <3>2. SumFunctionOnSet(f, rest \cap T) <= SumFunctionOnSet(h, rest)
        BY <1>1, <3>1
      <3>3. SumFunctionOnSet(h, s) = h[e] + SumFunctionOnSet(h, rest)
        BY <2>2, <3>1, SumOfSome
      <3>4. /\ SumFunctionOnSet(f, rest \cap T) \in Int
            /\ SumFunctionOnSet(h, rest) \in Int /\ h[e] \in Int
        BY <3>1, SumIsInteger
      <3>5. CASE e \in T
        <4>1. (s \cap T) \ {e} = rest \cap T
          OBVIOUS
        <4>2. SumFunctionOnSet(f, s \cap T) = f[e] + SumFunctionOnSet(f, (s \cap T) \ {e})
          BY <3>1, <3>5, SumWithout
        <4>3. f[e] \in Int /\ f[e] <= h[e]
          BY <3>5
        <4> HIDE DEF e, rest
        <4>4. QED
          BY <3>2, <3>3, <3>4, <4>1, <4>2, <4>3
      <3>6. CASE e \notin T
        <4>1. s \cap T = rest \cap T
          BY <3>6
        <4>2. 0 <= h[e]
          BY <3>1, <3>6
        <4> HIDE DEF e, rest
        <4>3. QED
          BY <3>2, <3>3, <3>4, <4>1, <4>2
      <3>7. QED
        BY <3>5, <3>6
    <2>3. QED
      BY <2>1, <2>2
  <1>2. \A s \in SUBSET S : s \in P
    <2> HIDE DEF P
    <2>1. QED
      BY <1>1, SetInduction
  <1>3. S \cap T = T
    OBVIOUS
  <1>4. QED
    BY <1>2, <1>3

\* What is nothing outside a part, and no more on it, comes to no more.
LEMMA SumOnPart ==
    ASSUME NEW S, IsFiniteSet(S), NEW T \in SUBSET S,
           NEW f, \A x \in S : f[x] \in Int,
           NEW h, \A x \in T : h[x] \in Int,
           \A x \in T : f[x] <= h[x], \A x \in S \ T : f[x] <= 0
    PROVE  SumFunctionOnSet(f, S) <= SumFunctionOnSet(h, T)
  <1> DEFINE P == {s \in SUBSET S : SumFunctionOnSet(f, s) <= SumFunctionOnSet(h, s \cap T)}
  <1>1. ASSUME NEW s \in SUBSET S, \A x \in s : s \ {x} \in P
        PROVE  s \in P
    <2>1. CASE s = {}
      <3>1. s \cap T = {}
        BY <2>1
      <3>2. QED
        BY <2>1, <3>1, SumOfNone
    <2>2. CASE s # {}
      <3> DEFINE e == Chosen(s)
                 rest == s \ {e}
      <3>1. e \in s /\ IsFiniteSet(s) /\ IsFiniteSet(rest)
            /\ IsFiniteSet(s \cap T) /\ IsFiniteSet(rest \cap T)
        BY <2>2, ChosenIsIn, FS_Subset
      <3>2. SumFunctionOnSet(f, rest) <= SumFunctionOnSet(h, rest \cap T)
        BY <1>1, <3>1
      <3>3. SumFunctionOnSet(f, s) = f[e] + SumFunctionOnSet(f, rest)
        BY <2>2, <3>1, SumOfSome
      <3>4. /\ SumFunctionOnSet(h, rest \cap T) \in Int
            /\ SumFunctionOnSet(f, rest) \in Int /\ f[e] \in Int
        BY <3>1, SumIsInteger
      <3>5. CASE e \in T
        <4>1. (s \cap T) \ {e} = rest \cap T
          OBVIOUS
        <4>2. SumFunctionOnSet(h, s \cap T) = h[e] + SumFunctionOnSet(h, (s \cap T) \ {e})
          BY <3>1, <3>5, SumWithout
        <4>3. h[e] \in Int /\ f[e] <= h[e]
          BY <3>5
        <4> HIDE DEF e, rest
        <4>4. SumFunctionOnSet(h, s \cap T) = h[e] + SumFunctionOnSet(h, rest \cap T)
          BY <4>1, <4>2
        <4>5. QED
          BY <3>2, <3>3, <3>4, <4>3, <4>4
      <3>6. CASE e \notin T
        <4>1. s \cap T = rest \cap T
          BY <3>6
        <4>2. f[e] <= 0
          BY <3>1, <3>6
        <4> HIDE DEF e, rest
        <4>3. QED
          BY <3>2, <3>3, <3>4, <4>1, <4>2
      <3>7. QED
        BY <3>5, <3>6
    <2>3. QED
      BY <2>1, <2>2
  <1>2. \A s \in SUBSET S : s \in P
    <2> HIDE DEF P
    <2>1. QED
      BY <1>1, SetInduction
  <1>3. S \cap T = T
    OBVIOUS
  <1>4. QED
    BY <1>2, <1>3

LEMMA SumOfZeros ==
    ASSUME NEW S, IsFiniteSet(S), NEW f, \A x \in S : f[x] = 0
    PROVE  SumFunctionOnSet(f, S) = 0
  <1>1. /\ SumFunctionOnSet(f, {}) <= SumFunctionOnSet(f, S)
        /\ SumFunctionOnSet(f, S) <= SumFunctionOnSet(f, {})
    <2>1. {} \in SUBSET S /\ \A x \in S : f[x] \in Int /\ f[x] <= 0 /\ 0 <= f[x]
      OBVIOUS
    <2>2. SumFunctionOnSet(f, {}) <= SumFunctionOnSet(f, S)
      BY <2>1, SumOfPart
    <2>3. SumFunctionOnSet(f, S) <= SumFunctionOnSet(f, {})
      BY <2>1, SumOnPart
    <2>4. QED
      BY <2>2, <2>3
  <1>2. SumFunctionOnSet(f, {}) = 0 /\ SumFunctionOnSet(f, S) \in Int
    BY SumOfNone, SumIsInteger
  <1>3. QED
    BY <1>1, <1>2

-----------------------------------------------------------------------------
(* What one transaction does to the rows *)

USE OrderServiceAssumption

\* A created line names its order and its dish.
Belong(ls) ==
    \A l \in Lines :
        ls[l].status # "none" => ls[l].order \in Orders /\ ls[l].dish \in Dishes

\* From "was" to "now" only lines of order o change, or lines created for it.
OnlyLinesOf(o, was, now) ==
    \A l \in Lines :
        \/ now[l] = was[l]
        \/ /\ now[l].order = o
           /\ now[l].status # "none"
           /\ was[l].status = "none" \/ was[l].order = o

OnlyOrder(o) == \A p \in Orders \ {o} : orders'[p] = orders[p]

\* What taking the order and cooking it have in common: they stay within one
\* open order and leave it open, but for a takeaway whose lines are all voided.
WorksOn(o) ==
    /\ Active(o)
    /\ OnlyOrder(o)
    /\ OnlyLinesOf(o, lines, lines')
    /\ orders'[o].type = orders[o].type
    /\ orders'[o].table = orders[o].table
    /\ orders'[o].paid = orders[o].paid
    /\ \/ orders'[o].status \in ActiveStatus
       \/ /\ orders'[o].status = "cancelled"
          /\ orders[o].type = "takeaway"
          /\ \A l \in LinesOf(lines', o) : lines'[l].status = "cancelled"
    /\ UNCHANGED <<tables, payments>>

\* Opening takes a table nobody sits at, or none.
Opens(o) ==
    /\ orders[o].status = "none"
    /\ OnlyOrder(o)
    /\ orders'[o].status = "open"
    /\ ~orders'[o].paid
    /\ \/ orders'[o].table = None /\ UNCHANGED tables
       \/ \E t \in Tables : /\ orders'[o].table = t
                            /\ orders'[o].type = "dine_in"
                            /\ ~HasOpenOrder(t)
                            /\ tables' = [tables EXCEPT ![t] = "occupied"]
    /\ UNCHANGED <<lines, payments>>

\* Closing leaves nothing to do on the order, and frees its table.
Closes(o) ==
    /\ Active(o)
    /\ OnlyOrder(o)
    /\ OnlyLinesOf(o, lines, lines')
    /\ orders'[o].table = orders[o].table
    /\ orders'[o].type = orders[o].type
    /\ \A l \in LinesOf(lines', o) : lines'[l].status \in {"served", "cancelled"}
    /\ tables' = TablesWithout(o)
    /\ \/ /\ orders'[o].status = "cancelled"
          /\ orders'[o].paid = orders[o].paid
          /\ UNCHANGED payments
       \/ /\ orders'[o].status = "deleted"
          /\ orders'[o].paid = orders[o].paid
          /\ LinesOf(lines', o) = {}
          /\ UNCHANGED payments
       \/ /\ orders'[o].status = "completed"
          /\ orders'[o].paid = TRUE
          /\ payments' = [payments EXCEPT ![o] = Bill(lines', o)]

\* The other services leave the orders alone, and a table with an open order.
Configures ==
    /\ UNCHANGED <<orders, lines, payments>>
    /\ \/ UNCHANGED tables
       \/ \E t \in Tables, status \in TableStatus \ {"occupied"} :
             ~HasOpenOrder(t) /\ tables' = [tables EXCEPT ![t] = status]

-----------------------------------------------------------------------------
(* What the helpers return *)

\* Cooking takes no more than the shelf has, so the shelf stays in its bounds.
LEMMA RemovedType ==
    ASSUME NEW ln \in Line, ln.dish \in Dishes, NEW shelf \in Stocks
    PROVE  /\ Removed(ln, shelf) \in Stocks
           /\ \A i \in Ingredients : Removed(ln, shelf)[i] <= shelf[i]
  <1>1. \A i \in Ingredients : Required(ln, i) \in Nat
    BY DEF Required, Line
  <1>2. QED
    BY <1>1 DEF Removed, Stocks, Least

LEMMA ShelfAfterType ==
    ASSUME NEW ln \in Line, ln.dish \in Dishes, NEW shelf \in Stocks
    PROVE  ShelfAfter(ln, shelf) \in Stocks
  <1>1. Removed(ln, shelf) \in Stocks
    BY RemovedType
  <1>2. \A i \in Ingredients : Removed(ln, shelf)[i] <= shelf[i]
    BY RemovedType
  <1>3. QED
    BY <1>1, <1>2 DEF ShelfAfter, Stocks

\* A deduction row is written once: what is added lands where nothing was.
LEMMA DeductedType ==
    ASSUME NEW ln \in Line, ln.dish \in Dishes, NEW shelf \in Stocks
    PROVE  /\ Deducted(ln, shelf) \in Line
           /\ Deducted(ln, shelf).order = ln.order
           /\ Deducted(ln, shelf).dish = ln.dish
           /\ Deducted(ln, shelf).unit = ln.unit
           /\ Deducted(ln, shelf).qty = ln.qty
           /\ Deducted(ln, shelf).status = ln.status
           /\ Deducted(ln, shelf).batch = ln.batch
  <1> DEFINE now == [i \in Ingredients |-> ln.used[i] + Removed(ln, shelf)[i]]
  <1>1. Removed(ln, shelf) \in Stocks
    BY RemovedType
  <1>2. now \in Stocks
    <2> SUFFICES ASSUME NEW i \in Ingredients
                 PROVE  ln.used[i] + Removed(ln, shelf)[i] \in 0..MaxStock
      BY DEF Stocks
    <2>1. ln.used[i] \in 0..MaxStock /\ Removed(ln, shelf)[i] \in 0..MaxStock
      BY <1>1 DEF Line, Stocks
    <2>2. CASE i \in Undeducted(ln)
      BY <2>1, <2>2 DEF Undeducted
    <2>3. CASE i \notin Undeducted(ln)
      BY <2>1, <2>3 DEF Removed
    <2>4. QED
      BY <2>2, <2>3
  <1>3. Deducted(ln, shelf) = [ln EXCEPT !.used = now]
    BY DEF Deducted
  <1>4. QED
    BY <1>2, <1>3 DEF Line

LEMMA MenusAfterType ==
    ASSUME menus \in [Menus -> [price : Prices, onSale : BOOLEAN]],
           NEW touched, NEW shelf
    PROVE  MenusAfter(touched, shelf) \in [Menus -> [price : Prices, onSale : BOOLEAN]]
  BY DEF MenusAfter

LEMMA BillType ==
    ASSUME NEW ls \in [Lines -> Line], NEW o \in Orders,
           \A l \in LinesOf(ls, o) : ls[l].dish \in Dishes
    PROVE  Bill(ls, o) \in Amounts
  <1>1. \A l \in LiveLines(ls, o) : Amount(ls[l]) \in Nat
    BY DEF LiveLines, LinesOf, Amount, Line
  <1>2. QED
    BY <1>1 DEF Bill, Amounts

LEMMA StatusFromItemsType ==
    ASSUME NEW current \in ActiveStatus, NEW ls, NEW o
    PROVE  OrderStatusFromItems(current, ls, o) \in ActiveStatus
  BY DEF OrderStatusFromItems, ActiveStatus

LEMMA NewLineType ==
    ASSUME NEW o \in Orders, NEW d \in Dishes, NEW qty \in Nat,
           NEW status \in LiveStatus,
           menus \in [Menus -> [price : Prices, onSale : BOOLEAN]]
    PROVE  /\ NewLine(o, d, qty, status) \in Line
           /\ NewLine(o, d, qty, status).order = o
           /\ NewLine(o, d, qty, status).dish = d
           /\ NewLine(o, d, qty, status).status = status
           /\ NewLine(o, d, qty, status).qty = qty
           /\ NewLine(o, d, qty, status).batch = 0
  <1>1. menus[MenuOf[d]].price \in Nat
    OBVIOUS
  <1>2. NoLine \in Line
    BY DEF NoLine, Line, NoStock, Stocks, LineStatus
  <1>3. status \in LineStatus
    BY DEF LineStatus
  <1>4. NewLine(o, d, qty, status) \in Line
    BY <1>1, <1>2, <1>3 DEF NewLine, Line
  <1>5. QED
    BY <1>4 DEF NewLine, NoLine

LEMMA RecalculatedType ==
    ASSUME NEW ord \in Order, NEW ls \in [Lines -> Line], Belong(ls),
           NEW o \in Orders
    PROVE  /\ Recalculated(ord, ls, o) \in Order
           /\ Recalculated(ord, ls, o).status = ord.status
           /\ Recalculated(ord, ls, o).type = ord.type
           /\ Recalculated(ord, ls, o).table = ord.table
           /\ Recalculated(ord, ls, o).paid = ord.paid
  <1>1. Bill(ls, o) \in Amounts
    BY BillType DEF Belong, LinesOf
  <1>2. QED
    BY <1>1 DEF Recalculated, Order

\* Refreshing an open order leaves it open, or cancels a voided takeaway.
LEMMA RefreshedType ==
    ASSUME NEW ord \in Order, ord.status \in ActiveStatus, NEW ls, NEW o
    PROVE  /\ Refreshed(ord, ls, o) \in Order
           /\ Refreshed(ord, ls, o).type = ord.type
           /\ Refreshed(ord, ls, o).table = ord.table
           /\ Refreshed(ord, ls, o).paid = ord.paid
           /\ \/ Refreshed(ord, ls, o).status \in ActiveStatus
              \/ /\ Refreshed(ord, ls, o).status = "cancelled"
                 /\ ord.type = "takeaway"
                 /\ \A l \in LinesOf(ls, o) : ls[l].status = "cancelled"
  <1>1. CASE ShouldAutoCancelTakeaway(ord, ls, o)
    <2>1. RefreshedStatus(ord, ls, o) = "cancelled"
      BY <1>1 DEF RefreshedStatus
    <2>2. \A l \in LinesOf(ls, o) : ls[l].status = "cancelled"
      BY <1>1 DEF ShouldAutoCancelTakeaway, LiveLines
    <2>3. QED
      BY <1>1, <2>1, <2>2 DEF Refreshed, Order, OrderStatus, ShouldAutoCancelTakeaway
  <1>2. CASE ~ShouldAutoCancelTakeaway(ord, ls, o)
    <2>1. RefreshedStatus(ord, ls, o) \in ActiveStatus
      BY <1>2, StatusFromItemsType DEF RefreshedStatus
    <2>2. QED
      BY <2>1 DEF Refreshed, Order, OrderStatus
  <1>3. QED
    BY <1>1, <1>2

LEMMA ReopenedType ==
    ASSUME NEW ord \in Order, ord.status \in ActiveStatus
    PROVE  /\ Reopened(ord) \in Order
           /\ Reopened(ord).status \in ActiveStatus
           /\ Reopened(ord).type = ord.type
           /\ Reopened(ord).table = ord.table
           /\ Reopened(ord).paid = ord.paid
  BY DEF Reopened, Order, OrderStatus, ActiveStatus

\* Units land on a pending line of the order or on the next line.
LEMMA PlacedUnitsType ==
    ASSUME TypeOK, NEW was \in [Lines -> Line], Belong(was),
           \A l \in Lines : /\ was[l].status = lines[l].status
                            /\ was[l].order = lines[l].order,
           NEW now, NEW o \in Orders, NEW d \in Dishes, NEW qty \in Nat,
           PlacedUnits(was, now, o, d, qty)
    PROVE  /\ now \in [Lines -> Line]
           /\ Belong(now)
           /\ OnlyLinesOf(o, was, now)
  <1>1. CASE \E l \in MergeableLines(o, d) : now = [was EXCEPT ![l].qty = @ + qty]
    <2>1. PICK l \in MergeableLines(o, d) : now = [was EXCEPT ![l].qty = @ + qty]
      BY <1>1
    <2>2. l \in Lines /\ was[l].order = o /\ was[l].status = "pending"
      BY DEF MergeableLines, LinesOf
    <2>3. was[l] \in Line /\ was[l].qty + qty \in Nat
      BY <2>2 DEF Line
    <2>4. now[l] = [was[l] EXCEPT !.qty = was[l].qty + qty]
      BY <2>1, <2>2
    <2>5. now[l] \in Line
      BY <2>3, <2>4 DEF Line
    <2>6. \A k \in Lines : k # l => now[k] = was[k]
      BY <2>1, <2>2
    <2>7. /\ now[l].order = o /\ now[l].status = "pending"
          /\ now[l].dish = was[l].dish
      BY <2>2, <2>3, <2>4 DEF Line
    <2>8. now \in [Lines -> Line]
      BY <2>1, <2>2, <2>5, <2>6
    <2>9. QED
      BY <2>2, <2>6, <2>7, <2>8 DEF Belong, OnlyLinesOf
  <1>2. CASE \E l \in Lines : /\ IsNextLine(l)
                              /\ now = [was EXCEPT ![l] = NewLine(o, d, qty, "pending")]
    <2>1. PICK l \in Lines : /\ IsNextLine(l)
                             /\ now = [was EXCEPT ![l] = NewLine(o, d, qty, "pending")]
      BY <1>2
    <2>2. was[l].status = "none"
      BY <2>1 DEF IsNextLine
    <2>3. /\ now[l] = NewLine(o, d, qty, "pending")
          /\ \A k \in Lines : k # l => now[k] = was[k]
      BY <2>1
    <2>4. /\ now[l] \in Line /\ now[l].order = o
          /\ now[l].dish = d /\ now[l].status = "pending"
      BY <2>3, NewLineType DEF TypeOK, LiveStatus
    <2>5. now \in [Lines -> Line]
      BY <2>1, <2>4
    <2>6. QED
      BY <2>2, <2>3, <2>4, <2>5 DEF Belong, OnlyLinesOf
  <1>3. QED
    BY <1>1, <1>2 DEF PlacedUnits

-----------------------------------------------------------------------------
(* One lemma per operation: the types it keeps and the order it stays in *)

\* When the row of order o becomes "ord", the other rows are as they were.
LEMMA OrderRow ==
    ASSUME orders \in [Orders -> Order], NEW o \in Orders, NEW ord \in Order,
           orders' = [orders EXCEPT ![o] = ord]
    PROVE  /\ orders' \in [Orders -> Order]
           /\ orders'[o] = ord
           /\ OnlyOrder(o)
  BY DEF OnlyOrder

LEMMA AddItemStep ==
    ASSUME TypeOK, Belong(lines), NEW o \in Orders, NEW d \in Dishes,
           NEW qty \in Quantities, AddItem(o, d, qty)
    PROVE  TypeOK' /\ Belong(lines') /\ WorksOn(o)
  <1> DEFINE ord == Recalculated(orders[o], lines', o)
  <1>1. qty \in Nat
    BY DEF Quantities
  <1>2. /\ lines' \in [Lines -> Line] /\ Belong(lines')
        /\ OnlyLinesOf(o, lines, lines')
    BY <1>1, PlacedUnitsType DEF AddItem, TypeOK
  <1>3. orders[o] \in Order /\ orders[o].status \in ActiveStatus
    BY DEF TypeOK, AddItem, Active
  <1>4. /\ ord \in Order /\ ord.status \in ActiveStatus /\ ord.type = orders[o].type
        /\ ord.table = orders[o].table /\ ord.paid = orders[o].paid
    BY <1>2, <1>3, RecalculatedType
  <1> HIDE DEF ord
  <1>5. /\ Reopened(ord) \in Order
        /\ Reopened(ord).status \in ActiveStatus
        /\ Reopened(ord).type = ord.type
        /\ Reopened(ord).table = ord.table
        /\ Reopened(ord).paid = ord.paid
    BY <1>4, ReopenedType
  <1>6. orders' = [orders EXCEPT ![o] = Reopened(ord)]
    BY DEF AddItem, ord
  <1>7. orders' \in [Orders -> Order] /\ orders'[o] = Reopened(ord) /\ OnlyOrder(o)
    BY <1>5, <1>6, OrderRow DEF TypeOK
  <1>8. TypeOK'
    BY <1>2, <1>7 DEF TypeOK, AddItem
  <1>9. WorksOn(o)
    BY <1>2, <1>3, <1>4, <1>5, <1>7 DEF WorksOn, Active, AddItem
  <1>10. QED
    BY <1>2, <1>8, <1>9

\* The last steps of every operation that ends in refreshOrderStatusFromItems.
LEMMA RefreshedStep ==
    ASSUME TypeOK, NEW o \in Orders, Active(o),
           NEW ord \in Order, ord.status = orders[o].status,
           ord.type = orders[o].type, ord.table = orders[o].table,
           ord.paid = orders[o].paid,
           OnlyLinesOf(o, lines, lines'),
           orders' = [orders EXCEPT ![o] = Refreshed(ord, lines', o)],
           UNCHANGED <<tables, payments>>
    PROVE  orders' \in [Orders -> Order] /\ WorksOn(o)
  <1>1. /\ Refreshed(ord, lines', o) \in Order
        /\ Refreshed(ord, lines', o).type = ord.type
        /\ Refreshed(ord, lines', o).table = ord.table
        /\ Refreshed(ord, lines', o).paid = ord.paid
        /\ \/ Refreshed(ord, lines', o).status \in ActiveStatus
           \/ /\ Refreshed(ord, lines', o).status = "cancelled"
              /\ ord.type = "takeaway"
              /\ \A l \in LinesOf(lines', o) : lines'[l].status = "cancelled"
    BY RefreshedType DEF Active
  <1>2. /\ orders' \in [Orders -> Order]
        /\ orders'[o] = Refreshed(ord, lines', o)
        /\ OnlyOrder(o)
    BY <1>1, OrderRow DEF TypeOK
  <1>3. QED
    BY <1>1, <1>2 DEF WorksOn

LEMMA AddServedItemStep ==
    ASSUME TypeOK, Belong(lines), NEW o \in Orders, NEW d \in Dishes,
           NEW qty \in Quantities, AddServedItem(o, d, qty)
    PROVE  TypeOK' /\ Belong(lines') /\ WorksOn(o)
  <1> DEFINE line == NewLine(o, d, qty, "served")
             ord  == Recalculated(orders[o], lines', o)
  <1>1. PICK l \in Lines :
           /\ lines[l].status = "none"
           /\ lines' = [lines EXCEPT ![l] = Deducted(line, stock)]
           /\ stock' = ShelfAfter(line, stock)
           /\ menus' = MenusAfter(Undeducted(line), stock')
    BY DEF AddServedItem, IsNextLine
  <1>2. /\ line \in Line /\ line.order = o /\ line.dish = d /\ line.status = "served"
    BY NewLineType DEF TypeOK, Quantities, LiveStatus
  <1> HIDE DEF line
  <1>3. /\ Deducted(line, stock) \in Line /\ Deducted(line, stock).order = o
        /\ Deducted(line, stock).dish = d /\ Deducted(line, stock).status = "served"
    BY <1>2, DeductedType DEF TypeOK
  <1>4. /\ lines'[l] = Deducted(line, stock)
        /\ \A k \in Lines : k # l => lines'[k] = lines[k]
        /\ lines' \in [Lines -> Line]
    BY <1>1, <1>3 DEF TypeOK
  <1>5. Belong(lines') /\ OnlyLinesOf(o, lines, lines')
    BY <1>1, <1>3, <1>4 DEF Belong, OnlyLinesOf
  <1>6. /\ stock' \in Stocks
        /\ menus' \in [Menus -> [price : Prices, onSale : BOOLEAN]]
    BY <1>1, <1>2, ShelfAfterType, MenusAfterType DEF TypeOK
  <1>7. /\ ord \in Order /\ ord.status = orders[o].status
        /\ ord.type = orders[o].type /\ ord.table = orders[o].table
        /\ ord.paid = orders[o].paid
    BY <1>4, <1>5, RecalculatedType DEF TypeOK
  <1>8. /\ Active(o) /\ UNCHANGED <<tables, payments, received, shrunk>>
        /\ orders' = [orders EXCEPT ![o] = Refreshed(ord, lines', o)]
    BY DEF AddServedItem
  <1> HIDE DEF ord
  <1>9. orders' \in [Orders -> Order] /\ WorksOn(o)
    BY <1>5, <1>7, <1>8, RefreshedStep
  <1>10. QED
    BY <1>4, <1>5, <1>6, <1>8, <1>9 DEF TypeOK

\* The last step of an edit of the lines: the order is priced again.
LEMMA RecalculatedStep ==
    ASSUME TypeOK, NEW o \in Orders, Active(o),
           lines' \in [Lines -> Line], Belong(lines'),
           OnlyLinesOf(o, lines, lines'),
           orders' = [orders EXCEPT ![o] = Recalculated(@, lines', o)],
           UNCHANGED <<tables, stock, menus, payments, received, shrunk>>
    PROVE  TypeOK' /\ WorksOn(o)
  <1> DEFINE ord == Recalculated(orders[o], lines', o)
  <1>1. /\ ord \in Order /\ ord.status = orders[o].status
        /\ ord.type = orders[o].type /\ ord.table = orders[o].table
        /\ ord.paid = orders[o].paid
    BY RecalculatedType DEF TypeOK
  <1>2. orders' = [orders EXCEPT ![o] = ord]
    OBVIOUS
  <1> HIDE DEF ord
  <1>3. orders' \in [Orders -> Order] /\ orders'[o] = ord /\ OnlyOrder(o)
    BY <1>1, <1>2, OrderRow DEF TypeOK
  <1>4. TypeOK'
    BY <1>3 DEF TypeOK
  <1>5. WorksOn(o)
    BY <1>1, <1>3 DEF WorksOn, Active
  <1>6. QED
    BY <1>4, <1>5

LEMMA EditableOrder ==
    ASSUME TypeOK, Belong(lines), NEW l \in Lines, Editable(l)
    PROVE  /\ lines[l] \in Line /\ lines[l].status = "pending"
           /\ lines[l].order \in Orders /\ lines[l].dish \in Dishes
           /\ Active(lines[l].order)
  BY DEF TypeOK, Belong, Editable

\* Setting a line's dish or quantity keeps it a line of the same order.
LEMMA LineWithDish ==
    ASSUME NEW ln \in Line, NEW d \in Dishes
    PROVE  LET now == [ln EXCEPT !.dish = d]
           IN  /\ now \in Line
               /\ now.dish = d /\ now.order = ln.order /\ now.qty = ln.qty
               /\ now.status = ln.status
  BY DEF Line

LEMMA LineWithQty ==
    ASSUME NEW ln \in Line, NEW qty \in Nat
    PROVE  LET now == [ln EXCEPT !.qty = qty]
           IN  /\ now \in Line
               /\ now.qty = qty /\ now.order = ln.order /\ now.dish = ln.dish
               /\ now.status = ln.status
  BY DEF Line

LEMMA LineWithStatus ==
    ASSUME NEW ln \in Line, NEW status \in LineStatus
    PROVE  LET now == [ln EXCEPT !.status = status]
           IN  /\ now \in Line
               /\ now.status = status /\ now.order = ln.order /\ now.dish = ln.dish
  BY DEF Line

LEMMA LineWithBatch ==
    ASSUME NEW ln \in Line, NEW b \in 0..NumLines
    PROVE  LET now == [ln EXCEPT !.batch = b]
           IN  /\ now \in Line
               /\ now.status = ln.status /\ now.order = ln.order
               /\ now.dish = ln.dish
  BY DEF Line

LEMMA LineWithUsed ==
    ASSUME NEW ln \in Line, NEW used \in Stocks
    PROVE  LET now == [ln EXCEPT !.used = used]
           IN  /\ now \in Line
               /\ now.status = ln.status /\ now.order = ln.order
               /\ now.dish = ln.dish
  BY DEF Line

LEMMA LowerItemStep ==
    ASSUME TypeOK, Belong(lines), NEW l \in Lines, NEW d \in Dishes,
           NEW qty \in Quantities, LowerItem(l, d, qty)
    PROVE  TypeOK' /\ Belong(lines') /\ WorksOn(lines[l].order)
  <1>1. Editable(l) /\ lines' = [lines EXCEPT ![l].dish = d, ![l].qty = qty]
    BY DEF LowerItem
  <1>2. /\ lines[l] \in Line /\ lines[l].status = "pending"
        /\ lines[l].order \in Orders /\ Active(lines[l].order)
    BY <1>1, EditableOrder
  <1>3. /\ lines'[l] = [[lines[l] EXCEPT !.dish = d] EXCEPT !.qty = qty]
        /\ \A k \in Lines : k # l => lines'[k] = lines[k]
    BY <1>1 DEF TypeOK
  <1>4. /\ lines'[l] \in Line /\ lines'[l].order = lines[l].order
        /\ lines'[l].dish = d /\ lines'[l].status = "pending"
    <2> DEFINE with == [lines[l] EXCEPT !.dish = d]
    <2>1. /\ with \in Line /\ with.order = lines[l].order
          /\ with.dish = d /\ with.status = "pending"
      BY <1>2, LineWithDish
    <2>2. lines'[l] = [with EXCEPT !.qty = qty]
      BY <1>3
    <2> HIDE DEF with
    <2>3. qty \in Nat
      BY DEF Quantities
    <2>4. QED
      BY <2>1, <2>2, <2>3, LineWithQty
  <1>5. lines' \in [Lines -> Line]
    BY <1>1, <1>3, <1>4 DEF TypeOK
  <1>6. Belong(lines') /\ OnlyLinesOf(lines[l].order, lines, lines')
    BY <1>2, <1>3, <1>4 DEF Belong, OnlyLinesOf
  <1>7. QED
    BY <1>2, <1>5, <1>6, RecalculatedStep DEF LowerItem

LEMMA DeleteItemStep ==
    ASSUME TypeOK, Belong(lines), NEW l \in Lines, DeleteItem(l)
    PROVE  TypeOK' /\ Belong(lines') /\ WorksOn(lines[l].order)
  <1>1. Editable(l) /\ lines' = [lines EXCEPT ![l].status = "deleted"]
    BY DEF DeleteItem
  <1>2. /\ lines[l] \in Line /\ lines[l].order \in Orders
        /\ lines[l].dish \in Dishes /\ Active(lines[l].order)
    BY <1>1, EditableOrder
  <1>3. /\ lines'[l] = [lines[l] EXCEPT !.status = "deleted"]
        /\ \A k \in Lines : k # l => lines'[k] = lines[k]
    BY <1>1 DEF TypeOK
  <1>4. /\ lines'[l] \in Line /\ lines'[l].order = lines[l].order
        /\ lines'[l].dish = lines[l].dish /\ lines'[l].status = "deleted"
    BY <1>2, <1>3 DEF Line, LineStatus
  <1>5. lines' \in [Lines -> Line]
    BY <1>1, <1>3, <1>4 DEF TypeOK
  <1>6. Belong(lines') /\ OnlyLinesOf(lines[l].order, lines, lines')
    BY <1>2, <1>3, <1>4 DEF Belong, OnlyLinesOf
  <1>7. QED
    BY <1>2, <1>5, <1>6, RecalculatedStep DEF DeleteItem

\* The units of a raise that cannot stay on the line are placed elsewhere.
LEMMA RaiseItemStep ==
    ASSUME TypeOK, Belong(lines), NEW l \in Lines, NEW d \in Dishes,
           NEW qty \in Quantities, RaiseItem(l, d, qty)
    PROVE  TypeOK' /\ Belong(lines') /\ WorksOn(lines[l].order)
  <1> DEFINE o == lines[l].order
             edited == [lines EXCEPT ![l].dish = d]
  <1>1. /\ Editable(l) /\ qty - lines[l].qty > 0
        /\ \/ lines' = [edited EXCEPT ![l].qty = qty]
           \/ PlacedUnits(edited, lines', o, d, qty - lines[l].qty)
    BY DEF RaiseItem
  <1>2. /\ lines[l] \in Line /\ lines[l].status = "pending"
        /\ o \in Orders /\ Active(o)
    BY <1>1, EditableOrder
  <1>3. /\ edited[l] = [lines[l] EXCEPT !.dish = d]
        /\ \A k \in Lines : k # l => edited[k] = lines[k]
    BY DEF TypeOK
  <1>4. /\ edited[l] \in Line /\ edited[l].order = o
        /\ edited[l].dish = d /\ edited[l].status = "pending"
    <2> HIDE DEF edited
    <2>1. QED
      BY <1>2, <1>3, LineWithDish
  <1>5. edited \in [Lines -> Line]
    BY <1>3, <1>4 DEF TypeOK
  <1>6. Belong(edited) /\ OnlyLinesOf(o, lines, edited)
    BY <1>2, <1>3, <1>4 DEF Belong, OnlyLinesOf
  <1>7. \A k \in Lines : edited[k].status = lines[k].status
                         /\ edited[k].order = lines[k].order
    BY <1>2, <1>3, <1>4
  <1>8. /\ lines' \in [Lines -> Line] /\ Belong(lines')
        /\ OnlyLinesOf(o, lines, lines')
    <2>1. CASE lines' = [edited EXCEPT ![l].qty = qty]
      <3> HIDE DEF edited
      <3>1. /\ lines'[l] = [edited[l] EXCEPT !.qty = qty]
            /\ \A k \in Lines : k # l => lines'[k] = edited[k]
        BY <2>1, <1>5
      <3>2. /\ lines'[l] \in Line /\ lines'[l].order = o
            /\ lines'[l].dish = d /\ lines'[l].status = "pending"
        BY <1>4, <3>1, LineWithQty DEF Quantities
      <3>3. lines' \in [Lines -> Line]
        BY <1>5, <2>1, <3>2
      <3>4. QED
        BY <1>2, <1>3, <1>6, <3>1, <3>2, <3>3 DEF Belong, OnlyLinesOf
    <2>2. CASE PlacedUnits(edited, lines', o, d, qty - lines[l].qty)
      <3>1. qty - lines[l].qty \in Nat
        BY <1>1, <1>2 DEF Line, Quantities
      <3> HIDE DEF edited
      <3>2. /\ lines' \in [Lines -> Line] /\ Belong(lines')
            /\ OnlyLinesOf(o, edited, lines')
        BY <1>2, <1>5, <1>6, <1>7, <2>2, <3>1, PlacedUnitsType
      <3>3. OnlyLinesOf(o, lines, lines')
        BY <1>6, <1>7, <3>2 DEF OnlyLinesOf
      <3>4. QED
        BY <3>2, <3>3
    <2>3. QED
      BY <1>1, <2>1, <2>2
  <1>9. /\ orders' = [orders EXCEPT ![o] = Recalculated(@, lines', o)]
        /\ UNCHANGED <<tables, stock, menus, payments, received, shrunk>>
    BY DEF RaiseItem
  <1> HIDE DEF o
  <1>10. TypeOK' /\ WorksOn(o)
    BY <1>2, <1>8, <1>9, RecalculatedStep
  <1>11. QED
    BY <1>8, <1>10 DEF o

LEMMA SendToKitchenStep ==
    ASSUME TypeOK, Belong(lines), NEW o \in Orders, SendToKitchen(o)
    PROVE  TypeOK' /\ Belong(lines') /\ WorksOn(o)
  <1>1. PICK b \in 1..NumLines :
           lines' = [l \in Lines |->
                IF l \in LinesOf(lines, o) /\ lines[l].status = "pending"
                THEN [lines[l] EXCEPT !.status = "cooking", !.batch = b]
                ELSE lines[l]]
    BY DEF SendToKitchen
  <1>2. \A l \in Lines :
           LET now == [lines[l] EXCEPT !.status = "cooking", !.batch = b]
           IN  /\ now \in Line /\ now.order = lines[l].order
               /\ now.dish = lines[l].dish /\ now.status = "cooking"
    <2> TAKE l \in Lines
    <2>1. lines[l] \in Line
      BY DEF TypeOK
    <2> DEFINE cooking == [lines[l] EXCEPT !.status = "cooking"]
    <2>2. /\ cooking \in Line /\ cooking.order = lines[l].order
          /\ cooking.dish = lines[l].dish /\ cooking.status = "cooking"
      BY <2>1, LineWithStatus DEF LineStatus, LiveStatus
    <2>3. [lines[l] EXCEPT !.status = "cooking", !.batch = b]
            = [cooking EXCEPT !.batch = b]
      OBVIOUS
    <2> HIDE DEF cooking
    <2>4. QED
      BY <2>2, <2>3, LineWithBatch
  <1>3. lines' \in [Lines -> Line]
    BY <1>1, <1>2 DEF TypeOK
  <1>4. Belong(lines') /\ OnlyLinesOf(o, lines, lines')
    BY <1>1, <1>2 DEF Belong, OnlyLinesOf, LinesOf
  <1>5. /\ Active(o) /\ UNCHANGED <<tables, stock, menus, payments, received, shrunk>>
        /\ orders' = [orders EXCEPT ![o].status = "sent_to_kitchen"]
    BY DEF SendToKitchen
  <1>6. [orders[o] EXCEPT !.status = "sent_to_kitchen"] \in Order
    <2>1. orders[o] \in Order
      BY DEF TypeOK
    <2>2. QED
      BY <2>1 DEF Order, OrderStatus, ActiveStatus
  <1>7. /\ orders' \in [Orders -> Order] /\ OnlyOrder(o)
        /\ orders'[o] = [orders[o] EXCEPT !.status = "sent_to_kitchen"]
    BY <1>5, <1>6, OrderRow DEF TypeOK
  <1>8. orders[o] \in Order
    BY DEF TypeOK
  <1>9. WorksOn(o)
    BY <1>4, <1>5, <1>7, <1>8 DEF WorksOn, Order, ActiveStatus
  <1>10. QED
    BY <1>3, <1>4, <1>5, <1>7, <1>9 DEF TypeOK

\* A line that can still move is a line of an order.
LEMMA MovableLine ==
    ASSUME TypeOK, Belong(lines), NEW l \in Lines, NEW to,
           CanTransition(lines[l].status, to)
    PROVE  /\ lines[l] \in Line /\ lines[l].status \in LiveStatus
           /\ lines[l].order \in Orders /\ lines[l].dish \in Dishes
  BY DEF TypeOK, Belong, CanTransition, LiveStatus

\* A step that replaces one line of an order by another of the same dish.
LEMMA OneLineStep ==
    ASSUME lines \in [Lines -> Line], Belong(lines), NEW l \in Lines,
           lines[l].order \in Orders, lines[l].dish \in Dishes,
           NEW now \in Line, now.order = lines[l].order,
           now.dish = lines[l].dish, now.status # "none",
           lines' = [lines EXCEPT ![l] = now]
    PROVE  /\ lines' \in [Lines -> Line] /\ Belong(lines')
           /\ OnlyLinesOf(lines[l].order, lines, lines')
  <1>1. lines'[l] = now /\ \A k \in Lines : k # l => lines'[k] = lines[k]
    OBVIOUS
  <1>2. QED
    BY <1>1 DEF Belong, OnlyLinesOf

LEMMA StartCookingStep ==
    ASSUME TypeOK, Belong(lines), NEW l \in Lines, StartCooking(l)
    PROVE  TypeOK' /\ Belong(lines') /\ WorksOn(lines[l].order)
  <1> DEFINE o == lines[l].order
             now == [lines[l] EXCEPT !.status = "cooking"]
  <1>1. /\ lines[l] \in Line /\ o \in Orders /\ lines[l].dish \in Dishes
    BY MovableLine DEF StartCooking
  <1>2. /\ now \in Line /\ now.order = o /\ now.dish = lines[l].dish
        /\ now.status = "cooking"
    BY <1>1 DEF Line, LineStatus, LiveStatus
  <1>3. lines' = [lines EXCEPT ![l] = now]
    BY DEF StartCooking
  <1> HIDE DEF now
  <1>4. /\ lines' \in [Lines -> Line] /\ Belong(lines')
        /\ OnlyLinesOf(o, lines, lines')
    BY <1>1, <1>2, <1>3, OneLineStep DEF TypeOK
  <1>5. /\ Active(o) /\ UNCHANGED <<tables, stock, menus, payments, received, shrunk>>
        /\ orders' = [orders EXCEPT ![o] = Refreshed(orders[o], lines', o)]
    BY DEF StartCooking
  <1>6. orders' \in [Orders -> Order] /\ WorksOn(o)
    <2> HIDE DEF o
    <2>1. orders[o] \in Order
      BY <1>1 DEF TypeOK, o
    <2>2. QED
      BY <2>1, <1>1, <1>4, <1>5, RefreshedStep DEF o
  <1>7. QED
    BY <1>4, <1>5, <1>6 DEF TypeOK

LEMMA FinishItemStep ==
    ASSUME TypeOK, Belong(lines), NEW l \in Lines,
           NEW status \in {"ready", "served"}, FinishItem(l, status)
    PROVE  TypeOK' /\ Belong(lines') /\ WorksOn(lines[l].order)
  <1> DEFINE o == lines[l].order
             cooked == Deducted(lines[l], stock)
             now == [cooked EXCEPT !.status = status]
  <1>1. /\ lines[l] \in Line /\ o \in Orders /\ lines[l].dish \in Dishes
    BY MovableLine DEF FinishItem
  <1>2. cooked \in Line /\ cooked.order = o /\ cooked.dish = lines[l].dish
    BY <1>1, DeductedType DEF TypeOK
  <1>3. lines' = [lines EXCEPT ![l] = now]
    BY DEF FinishItem
  <1>4. /\ now \in Line /\ now.order = o /\ now.dish = lines[l].dish
        /\ now.status \in {"ready", "served"}
    <2> HIDE DEF cooked
    <2>1. QED
      BY <1>2 DEF Line, LineStatus, LiveStatus
  <1> HIDE DEF now
  <1>5. /\ lines' \in [Lines -> Line] /\ Belong(lines')
        /\ OnlyLinesOf(o, lines, lines')
    BY <1>1, <1>3, <1>4, OneLineStep DEF TypeOK
  <1>6. /\ stock' \in Stocks
        /\ menus' \in [Menus -> [price : Prices, onSale : BOOLEAN]]
    BY <1>1, ShelfAfterType, MenusAfterType DEF TypeOK, FinishItem
  <1>7. /\ Active(o) /\ UNCHANGED <<tables, payments, received, shrunk>>
        /\ orders' = [orders EXCEPT ![o] = Refreshed(orders[o], lines', o)]
    BY DEF FinishItem
  <1>8. orders' \in [Orders -> Order] /\ WorksOn(o)
    <2>1. orders[o] \in Order
      BY <1>1 DEF TypeOK
    <2>2. QED
      BY <2>1, <1>1, <1>5, <1>7, RefreshedStep
  <1>9. QED
    BY <1>5, <1>6, <1>7, <1>8 DEF TypeOK

LEMMA VoidItemStep ==
    ASSUME TypeOK, Belong(lines), NEW l \in Lines, NEW count \in Quantities,
           NEW frontOfHouse \in BOOLEAN, VoidItem(l, count, frontOfHouse)
    PROVE  TypeOK' /\ Belong(lines') /\ WorksOn(lines[l].order)
  <1> DEFINE o == lines[l].order
             ord == Recalculated(orders[o], lines', o)
  <1>1. /\ lines[l] \in Line /\ o \in Orders /\ lines[l].dish \in Dishes
        /\ lines[l].status \in LiveStatus
    BY MovableLine DEF VoidItem
  <1>2. /\ lines' \in [Lines -> Line] /\ Belong(lines')
        /\ OnlyLinesOf(o, lines, lines')
    <2>1. CASE lines' = [lines EXCEPT ![l].status = "cancelled"]
      <3> DEFINE now == [lines[l] EXCEPT !.status = "cancelled"]
      <3>1. /\ now \in Line /\ now.order = o /\ now.dish = lines[l].dish
            /\ now.status = "cancelled"
        BY <1>1 DEF Line, LineStatus
      <3>2. lines' = [lines EXCEPT ![l] = now]
        BY <2>1
      <3> HIDE DEF now
      <3>3. QED
        BY <1>1, <3>1, <3>2, OneLineStep DEF TypeOK
    <2>2. ASSUME count < lines[l].qty, NEW k \in Lines, IsNextLine(k),
                 lines' = [lines EXCEPT
                    ![l].qty = @ - count,
                    ![k] = [lines[l] EXCEPT !.qty = count, !.used = NoStock,
                                            !.status = "cancelled"]]
          PROVE  /\ lines' \in [Lines -> Line] /\ Belong(lines')
                 /\ OnlyLinesOf(o, lines, lines')
      <3> DEFINE kept == [lines[l] EXCEPT !.qty = lines[l].qty - count]
                 clone == [lines[l] EXCEPT !.qty = count, !.used = NoStock,
                                           !.status = "cancelled"]
      <3>1. lines[k].status = "none" /\ k # l
        BY <1>1, <2>2 DEF IsNextLine, LiveStatus
      <3>2. lines[l].qty - count \in Nat /\ count \in Nat
        BY <1>1, <2>2 DEF Line, Quantities
      <3>3. /\ kept \in Line /\ kept.order = o /\ kept.dish = lines[l].dish
            /\ kept.status = lines[l].status
        BY <1>1, <3>2, LineWithQty
      <3>4. clone \in Line
        <4> DEFINE few == [lines[l] EXCEPT !.qty = count]
                   fresh == [few EXCEPT !.used = NoStock]
        <4>1. few \in Line
          BY <1>1, <3>2, LineWithQty
        <4>2. NoStock \in Stocks
          BY DEF NoStock, Stocks
        <4>3. fresh \in Line
          <5> HIDE DEF few
          <5>1. QED
            BY <4>1, <4>2, LineWithUsed
        <4>4. clone = [fresh EXCEPT !.status = "cancelled"]
          OBVIOUS
        <4> HIDE DEF fresh
        <4>5. QED
          BY <4>3, <4>4, LineWithStatus DEF LineStatus
      <3>5. /\ clone.order = o /\ clone.dish = lines[l].dish
            /\ clone.status = "cancelled"
        BY <1>1 DEF Line
      <3>6. /\ lines'[l] = kept /\ lines'[k] = clone
            /\ \A j \in Lines \ {l, k} : lines'[j] = lines[j]
        BY <2>2, <3>1 DEF TypeOK
      <3>7. lines' = [j \in Lines |-> lines'[j]]
        BY <2>2 DEF TypeOK
      <3> HIDE DEF kept, clone
      <3>8. lines' \in [Lines -> Line]
        <4>1. \A j \in Lines : lines'[j] \in Line
          BY <3>3, <3>4, <3>6 DEF TypeOK
        <4>2. QED
          BY <3>7, <4>1
      <3>9. Belong(lines')
        BY <1>1, <3>3, <3>5, <3>6 DEF Belong
      <3>10. OnlyLinesOf(o, lines, lines')
        BY <1>1, <3>1, <3>3, <3>5, <3>6 DEF OnlyLinesOf, LiveStatus
      <3>11. QED
        BY <3>8, <3>9, <3>10
    <2>3. QED
      BY <2>1, <2>2 DEF VoidItem
  <1>3. /\ Active(o) /\ UNCHANGED <<tables, stock, menus, payments, received, shrunk>>
        /\ orders' = [orders EXCEPT ![o] = Refreshed(ord, lines', o)]
    BY DEF VoidItem
  <1>4. /\ ord \in Order /\ ord.status = orders[o].status
        /\ ord.type = orders[o].type /\ ord.table = orders[o].table
        /\ ord.paid = orders[o].paid
    <2>1. orders[o] \in Order
      BY <1>1 DEF TypeOK
    <2>2. QED
      BY <1>1, <1>2, <2>1, RecalculatedType
  <1> HIDE DEF ord
  <1>5. orders' \in [Orders -> Order] /\ WorksOn(o)
    BY <1>1, <1>2, <1>3, <1>4, RefreshedStep
  <1>6. QED
    BY <1>2, <1>3, <1>5 DEF TypeOK

LEMMA OpenStepClass ==
    ASSUME TypeOK, Belong(lines), OpenStep
    PROVE  TypeOK' /\ Belong(lines') /\ \E o \in Orders : Opens(o)
  <1>1. NoOrder \in Order
    BY DEF NoOrder, Order, OrderStatus, ActiveStatus, NoBill, Amounts
  <1>2. ASSUME NEW o \in Orders, OpenTakeaway(o)
        PROVE  TypeOK' /\ Belong(lines') /\ \E p \in Orders : Opens(p)
    <2> DEFINE ord == [NoOrder EXCEPT !.status = "open", !.type = "takeaway"]
    <2>1. /\ ord \in Order /\ ord.status = "open" /\ ord.table = None /\ ~ord.paid
      BY DEF NoOrder, Order, OrderStatus, ActiveStatus, NoBill, Amounts
    <2>2. orders' = [orders EXCEPT ![o] = ord]
      BY <1>2 DEF OpenTakeaway
    <2> HIDE DEF ord
    <2>3. orders' \in [Orders -> Order] /\ orders'[o] = ord /\ OnlyOrder(o)
      BY <2>1, <2>2, OrderRow DEF TypeOK
    <2>4. QED
      BY <1>2, <2>1, <2>3 DEF OpenTakeaway, Opens, TypeOK, Belong
  <1>3. ASSUME NEW o \in Orders, NEW t \in Tables, NEW seat \in BOOLEAN,
               OpenOrder(o, t, seat)
        PROVE  TypeOK' /\ Belong(lines') /\ \E p \in Orders : Opens(p)
    <2> DEFINE ord == [NoOrder EXCEPT !.status = "open", !.table = t]
    <2>1. /\ ord \in Order /\ ord.status = "open" /\ ord.table = t /\ ~ord.paid
          /\ ord.type = "dine_in"
      BY DEF NoOrder, Order, OrderStatus, ActiveStatus, NoBill, Amounts
    <2>2. orders' = [orders EXCEPT ![o] = ord]
      BY <1>3 DEF OpenOrder
    <2> HIDE DEF ord
    <2>3. orders' \in [Orders -> Order] /\ orders'[o] = ord /\ OnlyOrder(o)
      BY <2>1, <2>2, OrderRow DEF TypeOK
    <2>4. tables' \in [Tables -> TableStatus]
      BY <1>3 DEF OpenOrder, TypeOK, TableStatus
    <2>5. QED
      BY <1>3, <2>1, <2>3, <2>4 DEF OpenOrder, Opens, TypeOK, Belong
  <1>4. QED
    BY <1>2, <1>3 DEF OpenStep

LEMMA TablesWithoutType ==
    ASSUME TypeOK, NEW o \in Orders
    PROVE  TablesWithout(o) \in [Tables -> TableStatus]
  <1>1. orders[o].table \in Tables \cup {None}
    BY DEF TypeOK, Order
  <1>2. QED
    BY <1>1 DEF TablesWithout, TypeOK, TableStatus

LEMMA CancelOrderClass ==
    ASSUME TypeOK, Belong(lines), NEW o \in Orders, NEW supervisor \in BOOLEAN,
           CancelOrder(o, supervisor)
    PROVE  TypeOK' /\ Belong(lines') /\ Closes(o)
  <1>1. \A l \in Lines :
           LET now == [lines[l] EXCEPT !.status = "cancelled"]
           IN  /\ now \in Line /\ now.order = lines[l].order
               /\ now.dish = lines[l].dish /\ now.status = "cancelled"
    BY LineWithStatus DEF TypeOK, LineStatus
  <1>2. lines' = [l \in Lines |->
          IF l \in LiveLines(lines, o) /\ lines[l].status # "served"
          THEN [lines[l] EXCEPT !.status = "cancelled"] ELSE lines[l]]
    BY DEF CancelOrder
  <1>3. lines' \in [Lines -> Line]
    BY <1>1, <1>2 DEF TypeOK
  <1>4. Belong(lines') /\ OnlyLinesOf(o, lines, lines')
    BY <1>1, <1>2 DEF Belong, OnlyLinesOf, LiveLines, LinesOf
  <1>5. \A l \in LinesOf(lines', o) : lines'[l].status \in {"served", "cancelled"}
    BY <1>1, <1>2 DEF LiveLines, LinesOf
  <1>6. /\ orders' = [orders EXCEPT ![o].status = "cancelled"]
        /\ Active(o) /\ tables' = TablesWithout(o)
        /\ UNCHANGED <<stock, menus, payments, received, shrunk>>
    BY DEF CancelOrder
  <1>7. orders[o] \in Order
    BY DEF TypeOK
  <1>8. [orders[o] EXCEPT !.status = "cancelled"] \in Order
    BY <1>7 DEF Order, OrderStatus
  <1>9. /\ orders' \in [Orders -> Order] /\ OnlyOrder(o)
        /\ orders'[o] = [orders[o] EXCEPT !.status = "cancelled"]
    BY <1>6, <1>8, OrderRow DEF TypeOK
  <1>10. Closes(o)
    BY <1>4, <1>5, <1>6, <1>7, <1>9 DEF Closes, Order
  <1>11. QED
    BY <1>3, <1>4, <1>6, <1>9, <1>10, TablesWithoutType DEF TypeOK

LEMMA CloseEmptyTableClass ==
    ASSUME TypeOK, Belong(lines), NEW o \in Orders, CloseEmptyTable(o)
    PROVE  TypeOK' /\ Belong(lines') /\ Closes(o)
  <1> DEFINE status == IF LinesOf(lines, o) = {} THEN "deleted" ELSE "cancelled"
             ord == [orders[o] EXCEPT !.status = status]
  <1>1. /\ orders[o].status = "open" /\ LiveLines(lines, o) = {}
        /\ orders' = [orders EXCEPT ![o] = ord] /\ tables' = TablesWithout(o)
        /\ UNCHANGED <<lines, stock, menus, payments, received, shrunk>>
    BY DEF CloseEmptyTable, CanCloseEmptyTable
  <1>2. orders[o] \in Order /\ status \in OrderStatus
    BY DEF TypeOK, OrderStatus
  <1>3. /\ ord \in Order /\ ord.status = status /\ ord.paid = orders[o].paid
        /\ ord.table = orders[o].table /\ ord.type = orders[o].type
    <2> HIDE DEF status
    <2>1. QED
      BY <1>2 DEF Order
  <1> HIDE DEF ord
  <1>4. orders' \in [Orders -> Order] /\ orders'[o] = ord /\ OnlyOrder(o)
    BY <1>1, <1>3, OrderRow DEF TypeOK
  <1>5. \A l \in LinesOf(lines', o) : lines'[l].status \in {"served", "cancelled"}
    BY <1>1 DEF LiveLines
  <1>6. LinesOf(lines', o) = LinesOf(lines, o) /\ OnlyLinesOf(o, lines, lines')
    BY <1>1 DEF OnlyLinesOf
  <1>7. Closes(o)
    BY <1>1, <1>3, <1>4, <1>5, <1>6 DEF Closes, Active, ActiveStatus
  <1>8. QED
    BY <1>1, <1>4, <1>7, TablesWithoutType DEF TypeOK, Belong

LEMMA PayOrderClass ==
    ASSUME TypeOK, Belong(lines), NEW o \in Orders, PayOrder(o)
    PROVE  TypeOK' /\ Belong(lines') /\ Closes(o)
  <1> DEFINE retry == UnsettledLines(o)
             priced == Recalculated(orders[o], lines', o)
             ord == [priced EXCEPT !.status = "completed", !.paid = TRUE]
  <1>1. PICK before \in [retry -> Stocks] :
           /\ FinalisedInOrder(retry, before, stock')
           /\ lines' = [l \in Lines |->
                IF l \in retry
                THEN [Deducted(lines[l], before[l]) EXCEPT !.status = "served"]
                ELSE IF l \in LinesOf(lines, o) /\ lines[l].status = "ready"
                THEN [lines[l] EXCEPT !.status = "served"] ELSE lines[l]]
    BY DEF PayOrder
  <1>2. /\ CanPay(o)
        /\ menus' = MenusAfter(UNION {Undeducted(lines[l]) : l \in retry}, stock')
        /\ orders' = [orders EXCEPT ![o] =
             [Recalculated(@, lines', o) EXCEPT !.status = "completed", !.paid = TRUE]]
        /\ payments' = [payments EXCEPT ![o] = Bill(lines', o)]
        /\ tables' = TablesWithout(o)
        /\ UNCHANGED <<received, shrunk>>
    BY DEF PayOrder
  <1>3. \A l \in retry :
           /\ l \in Lines /\ lines[l] \in Line /\ lines[l].order = o
           /\ lines[l].status = "ready" /\ lines[l].dish \in Dishes
    BY DEF UnsettledLines, LinesOf, TypeOK, Belong
  <1> HIDE DEF retry
  <1>4. \A l \in retry :
           /\ lines'[l] \in Line /\ lines'[l].order = o
           /\ lines'[l].dish \in Dishes /\ lines'[l].status = "served"
    <2> TAKE l \in retry
    <2> DEFINE cooked == Deducted(lines[l], before[l])
    <2>1. before[l] \in Stocks
      BY <1>1
    <2>2. cooked \in Line /\ cooked.order = o /\ cooked.dish \in Dishes
      <3>1. /\ lines[l] \in Line /\ lines[l].order = o /\ lines[l].dish \in Dishes
        BY <1>3
      <3>2. QED
        BY <2>1, <3>1, DeductedType
    <2>3. lines'[l] = [cooked EXCEPT !.status = "served"]
      BY <1>1, <1>3
    <2> HIDE DEF cooked
    <2>4. /\ [cooked EXCEPT !.status = "served"] \in Line
          /\ [cooked EXCEPT !.status = "served"].order = o
          /\ [cooked EXCEPT !.status = "served"].dish \in Dishes
          /\ [cooked EXCEPT !.status = "served"].status = "served"
      BY <2>2, LineWithStatus DEF LineStatus, LiveStatus
    <2>5. QED
      BY <2>3, <2>4
  <1>5. \A l \in Lines \ retry :
           /\ lines'[l] \in Line /\ lines'[l].order = lines[l].order
           /\ lines'[l].dish = lines[l].dish
           /\ \/ lines'[l] = lines[l]
              \/ /\ l \in LinesOf(lines, o) /\ lines[l].status = "ready"
                 /\ lines'[l].status = "served"
           /\ (l \in LinesOf(lines, o) /\ lines[l].status = "ready")
                => lines'[l].status = "served"
    <2> TAKE l \in Lines \ retry
    <2>1. lines[l] \in Line
      BY DEF TypeOK
    <2>2. lines'[l] = IF l \in LinesOf(lines, o) /\ lines[l].status = "ready"
                      THEN [lines[l] EXCEPT !.status = "served"] ELSE lines[l]
      BY <1>1
    <2>3. /\ [lines[l] EXCEPT !.status = "served"] \in Line
          /\ [lines[l] EXCEPT !.status = "served"].order = lines[l].order
          /\ [lines[l] EXCEPT !.status = "served"].dish = lines[l].dish
          /\ [lines[l] EXCEPT !.status = "served"].status = "served"
      BY <2>1, LineWithStatus DEF LineStatus, LiveStatus
    <2>4. QED
      BY <2>1, <2>2, <2>3
  <1>6. lines' \in [Lines -> Line]
    <2>1. lines' = [l \in Lines |-> lines'[l]]
      BY <1>1
    <2>2. \A l \in Lines : lines'[l] \in Line
      BY <1>4, <1>5
    <2>3. QED
      BY <2>1, <2>2
  <1>7. Belong(lines')
    BY <1>4, <1>5 DEF Belong, LinesOf
  <1>8. OnlyLinesOf(o, lines, lines')
    BY <1>3, <1>4, <1>5 DEF OnlyLinesOf, LinesOf
  <1>9. \A l \in LinesOf(lines', o) : lines'[l].status \in {"served", "cancelled"}
    <2> TAKE l \in LinesOf(lines', o)
    <2>1. CASE l \in retry
      BY <1>4, <2>1
    <2>2. CASE l \notin retry
      <3>1. l \in Lines \ retry /\ lines[l].order = o
        BY <1>5, <2>2 DEF LinesOf
      <3>2. lines[l].status # "deleted" /\ lines[l].status # "none"
        BY <1>5, <3>1 DEF LinesOf
      <3>3. l \in LinesOf(lines, o)
        BY <3>1, <3>2 DEF LinesOf
      <3>4. lines[l].status = "cancelled" \/ lines[l].status \in {"ready", "served"}
        BY <1>2, <3>3 DEF CanPay, LiveLines
      <3>5. QED
        BY <1>5, <3>1, <3>3, <3>4
    <2>3. QED
      BY <2>1, <2>2
  <1>10. stock' \in Stocks
    <2>1. ASSUME NEW l \in retry, stock' = ShelfAfter(lines[l], before[l])
          PROVE  stock' \in Stocks
      <3>1. before[l] \in Stocks
        BY <1>1, <2>1
      <3>2. QED
        BY <1>3, <2>1, <3>1, ShelfAfterType
    <2>2. QED
      BY <1>1, <2>1 DEF TypeOK, FinalisedInOrder
  <1>11. menus' \in [Menus -> [price : Prices, onSale : BOOLEAN]]
    BY <1>2, MenusAfterType DEF TypeOK
  <1>12. orders[o] \in Order /\ Active(o)
    BY <1>2 DEF TypeOK, CanPay
  <1>13. /\ priced \in Order /\ priced.type = orders[o].type
         /\ priced.table = orders[o].table
    BY <1>6, <1>7, <1>12, RecalculatedType
  <1>14. orders' = [orders EXCEPT ![o] = ord]
    BY <1>2
  <1> HIDE DEF priced
  <1>15. /\ ord \in Order /\ ord.status = "completed" /\ ord.paid = TRUE
         /\ ord.table = orders[o].table /\ ord.type = orders[o].type
    BY <1>13 DEF Order, OrderStatus
  <1> HIDE DEF ord
  <1>16. orders' \in [Orders -> Order] /\ orders'[o] = ord /\ OnlyOrder(o)
    BY <1>14, <1>15, OrderRow DEF TypeOK
  <1>17. payments' \in [Orders -> Amounts \cup {None}]
    <2>1. Bill(lines', o) \in Amounts
      BY <1>6, <1>7, BillType DEF Belong, LinesOf
    <2>2. QED
      BY <1>2, <2>1 DEF TypeOK
  <1>18. Closes(o)
    BY <1>2, <1>8, <1>9, <1>12, <1>15, <1>16 DEF Closes
  <1>19. QED
    BY <1>2, <1>6, <1>7, <1>10, <1>11, <1>16, <1>17, <1>18, TablesWithoutType DEF TypeOK

LEMMA SettingStepClass ==
    ASSUME TypeOK, Belong(lines), SettingStep
    PROVE  TypeOK' /\ Belong(lines') /\ Configures
  <1>1. ASSUME NEW t \in Tables, NEW status \in TableStatus \ {"occupied"},
               SetTableStatus(t, status)
        PROVE  TypeOK' /\ Belong(lines') /\ Configures
    BY <1>1 DEF SetTableStatus, Configures, TypeOK, Belong
  <1>2. ASSUME NEW i \in Ingredients, NEW level \in 0..MaxStock, AdjustStock(i, level)
        PROVE  TypeOK' /\ Belong(lines') /\ Configures
    <2>1. stock' \in Stocks
      BY <1>2 DEF AdjustStock, TypeOK, Stocks
    <2>2. received' \in [Ingredients -> Int]
      BY <1>2 DEF AdjustStock, TypeOK, Stocks
    <2>3. menus' \in [Menus -> [price : Prices, onSale : BOOLEAN]]
      BY <1>2, MenusAfterType DEF AdjustStock, TypeOK
    <2>4. shrunk' \in BOOLEAN
      BY <1>2 DEF AdjustStock, TypeOK
    <2>5. QED
      BY <1>2, <2>1, <2>2, <2>3, <2>4 DEF AdjustStock, Configures, TypeOK, Belong
  <1>3. ASSUME NEW m \in Menus, NEW price \in Prices, NEW onSale \in BOOLEAN,
               EditMenu(m, price, onSale)
        PROVE  TypeOK' /\ Belong(lines') /\ Configures
    BY <1>3 DEF EditMenu, Configures, TypeOK, Belong
  <1>4. \/ \E t \in Tables, status \in TableStatus \ {"occupied"} : SetTableStatus(t, status)
        \/ \E i \in Ingredients, level \in 0..MaxStock : AdjustStock(i, level)
        \/ \E m \in Menus, price \in Prices, onSale \in BOOLEAN : EditMenu(m, price, onSale)
    BY DEF SettingStep
  <1>5. QED
    BY <1>1, <1>2, <1>3, <1>4

\* Every committed transaction is of one of four classes.
LEMMA StepClasses ==
    ASSUME TypeOK, Belong(lines), Next
    PROVE  /\ TypeOK' /\ Belong(lines')
           /\ \/ \E o \in Orders : Opens(o) \/ WorksOn(o) \/ Closes(o)
              \/ Configures
  <1>1. CASE OpenStep
    BY <1>1, OpenStepClass
  <1>2. CASE TakeStep
    <2>1. ASSUME NEW o \in Orders, NEW d \in Dishes, NEW q \in Quantities,
                 AddItem(o, d, q) \/ AddServedItem(o, d, q)
          PROVE  TypeOK' /\ Belong(lines') /\ WorksOn(o)
      BY <2>1, AddItemStep, AddServedItemStep
    <2>2. ASSUME NEW l \in Lines, NEW d \in Dishes, NEW q \in Quantities,
                 LowerItem(l, d, q) \/ RaiseItem(l, d, q)
          PROVE  /\ TypeOK' /\ Belong(lines')
                 /\ lines[l].order \in Orders /\ WorksOn(lines[l].order)
      BY <2>2, LowerItemStep, RaiseItemStep, EditableOrder DEF LowerItem, RaiseItem
    <2>3. ASSUME NEW l \in Lines, DeleteItem(l)
          PROVE  /\ TypeOK' /\ Belong(lines')
                 /\ lines[l].order \in Orders /\ WorksOn(lines[l].order)
      BY <2>3, DeleteItemStep, EditableOrder DEF DeleteItem
    <2>4. QED
      BY <1>2, <2>1, <2>2, <2>3 DEF TakeStep
  <1>3. CASE KitchenStep
    <2>1. ASSUME NEW o \in Orders, SendToKitchen(o)
          PROVE  TypeOK' /\ Belong(lines') /\ WorksOn(o)
      BY <2>1, SendToKitchenStep
    <2>2. ASSUME NEW l \in Lines, StartCooking(l)
          PROVE  /\ TypeOK' /\ Belong(lines')
                 /\ lines[l].order \in Orders /\ WorksOn(lines[l].order)
      BY <2>2, StartCookingStep, MovableLine DEF StartCooking
    <2>3. ASSUME NEW l \in Lines, NEW status \in {"ready", "served"},
                 FinishItem(l, status)
          PROVE  /\ TypeOK' /\ Belong(lines')
                 /\ lines[l].order \in Orders /\ WorksOn(lines[l].order)
      BY <2>3, FinishItemStep, MovableLine DEF FinishItem
    <2>4. ASSUME NEW l \in Lines, NEW count \in Quantities,
                 NEW frontOfHouse \in BOOLEAN, VoidItem(l, count, frontOfHouse)
          PROVE  /\ TypeOK' /\ Belong(lines')
                 /\ lines[l].order \in Orders /\ WorksOn(lines[l].order)
      BY <2>4, VoidItemStep, MovableLine DEF VoidItem
    <2>5. QED
      BY <1>3, <2>1, <2>2, <2>3, <2>4 DEF KitchenStep
  <1>4. CASE CloseStep
    BY <1>4, CancelOrderClass, CloseEmptyTableClass, PayOrderClass DEF CloseStep
  <1>5. CASE SettingStep
    BY <1>5, SettingStepClass
  <1>6. QED
    BY <1>1, <1>2, <1>3, <1>4, <1>5 DEF Next

-----------------------------------------------------------------------------
(* The inductive invariant *)

TakeawaysHoldNoTable ==
    \A o \in Orders : orders[o].type = "takeaway" => orders[o].table = None

IInv ==
    /\ TypeOK
    /\ Belong(lines)
    /\ TakeawaysHoldNoTable
    /\ TableFollowsOrders
    /\ ClosedOrdersHoldNoWork
    /\ PaidExactlyTheBill

LEMMA InitInv == Init => IInv
  <1> SUFFICES ASSUME Init PROVE IInv
    OBVIOUS
  <1>1. NoOrder \in Order
    BY DEF NoOrder, Order, OrderStatus, ActiveStatus, NoBill, Amounts
  <1>2. NoLine \in Line
    BY DEF NoLine, Line, NoStock, Stocks, LineStatus
  <1>3. TypeOK
    <2>1. menus \in [Menus -> [price : Prices, onSale : BOOLEAN]]
      BY DEF Init
    <2>2. stock \in Stocks /\ received \in [Ingredients -> Int]
      BY DEF Init, Stocks
    <2>3. QED
      BY <1>1, <1>2, <2>1, <2>2 DEF Init, TypeOK, TableStatus
  <1>4. \A l \in Lines : lines[l].status = "none"
    BY DEF Init, NoLine
  <1>5. \A o \in Orders : /\ orders[o].status = "none" /\ ~orders[o].paid
                          /\ orders[o].type = "dine_in" /\ payments[o] = None
    BY DEF Init, NoOrder
  <1>6. TableFollowsOrders
    BY <1>5 DEF TableFollowsOrders, HasOpenOrder, Active, ActiveStatus, Init
  <1>7. PaidExactlyTheBill
    BY <1>5 DEF PaidExactlyTheBill
  <1>8. QED
    BY <1>3, <1>4, <1>5, <1>6, <1>7
       DEF IInv, Belong, TakeawaysHoldNoTable, ClosedOrdersHoldNoWork, LinesOf

\* A step within order o leaves the lines of every other order as they were.
LEMMA OtherLines ==
    ASSUME NEW o \in Orders, NEW p \in Orders \ {o},
           lines \in [Lines -> Line], OnlyLinesOf(o, lines, lines')
    PROVE  /\ LinesOf(lines', p) = LinesOf(lines, p)
           /\ \A l \in LinesOf(lines, p) : lines'[l] = lines[l]
           /\ Bill(lines', p) = Bill(lines, p)
  <1>1. \A l \in Lines :
           \/ lines'[l] = lines[l]
           \/ lines'[l].order = o /\ (lines[l].status = "none" \/ lines[l].order = o)
    BY DEF OnlyLinesOf
  <1>2. LinesOf(lines', p) = LinesOf(lines, p)
    BY <1>1 DEF LinesOf
  <1>3. \A l \in LinesOf(lines, p) : lines'[l] = lines[l]
    BY <1>1 DEF LinesOf
  <1>4. LiveLines(lines', p) = LiveLines(lines, p)
    BY <1>2, <1>3 DEF LiveLines
  <1>5. \A l \in LiveLines(lines, p) : lines'[l] = lines[l]
    BY <1>3 DEF LiveLines
  <1>6. Bill(lines', p) = Bill(lines, p)
    BY <1>4, <1>5 DEF Bill
  <1>7. QED
    BY <1>2, <1>3, <1>6

LEMMA OpensInv ==
    ASSUME IInv, TypeOK', NEW o \in Orders, Opens(o)
    PROVE  /\ TakeawaysHoldNoTable' /\ TableFollowsOrders'
           /\ ClosedOrdersHoldNoWork' /\ PaidExactlyTheBill'
  <1>1. \A p \in Orders \ {o} : orders'[p] = orders[p]
    BY DEF Opens, OnlyOrder
  <1>2. /\ ~Active(o) /\ orders[o].status = "none"
        /\ orders'[o].status = "open" /\ ~orders'[o].paid
        /\ lines' = lines /\ payments' = payments
    BY DEF Opens, Active, ActiveStatus
  <1>3. TakeawaysHoldNoTable'
    BY <1>1 DEF IInv, TakeawaysHoldNoTable, Opens
  <1>4. TableFollowsOrders'
    <2>1. CASE orders'[o].table = None /\ UNCHANGED tables
      BY <1>1, <1>2, <2>1
         DEF IInv, TableFollowsOrders, HasOpenOrder, Active
    <2>2. ASSUME NEW t \in Tables, orders'[o].table = t, ~HasOpenOrder(t),
                 tables' = [tables EXCEPT ![t] = "occupied"]
          PROVE  TableFollowsOrders'
      <3>1. tables'[t] = "occupied" /\ \A u \in Tables \ {t} : tables'[u] = tables[u]
        BY <2>2 DEF IInv, TypeOK
      <3>2. Active(o)'
        BY <1>2 DEF Active, ActiveStatus
      <3>3. \A p \in Orders \ {o} : Active(p)' <=> Active(p)
        BY <1>1 DEF Active
      <3>4. HasOpenOrder(t)'
        BY <2>2, <3>2 DEF HasOpenOrder
      <3>5. \A u \in Tables \ {t} : HasOpenOrder(u)' <=> HasOpenOrder(u)
        BY <1>1, <1>2, <2>2, <3>3 DEF HasOpenOrder
      <3>6. \A p \in Orders \ {o} : ~(Active(p)' /\ orders'[p].table = t)
        BY <1>1, <2>2, <3>3 DEF HasOpenOrder
      <3>7. QED
        BY <1>1, <1>2, <2>2, <3>1, <3>3, <3>4, <3>5, <3>6
           DEF IInv, TableFollowsOrders
    <2>3. QED
      BY <2>1, <2>2 DEF Opens
  <1>5. ClosedOrdersHoldNoWork'
    BY <1>1, <1>2 DEF IInv, ClosedOrdersHoldNoWork, LinesOf, Active, ActiveStatus
  <1>6. PaidExactlyTheBill'
    BY <1>1, <1>2 DEF IInv, PaidExactlyTheBill, Bill, LiveLines, LinesOf
  <1>7. QED
    BY <1>3, <1>4, <1>5, <1>6

LEMMA WorksOnInv ==
    ASSUME IInv, TypeOK', NEW o \in Orders, WorksOn(o)
    PROVE  /\ TakeawaysHoldNoTable' /\ TableFollowsOrders'
           /\ ClosedOrdersHoldNoWork' /\ PaidExactlyTheBill'
  <1>1. \A p \in Orders \ {o} : orders'[p] = orders[p]
    BY DEF WorksOn, OnlyOrder
  <1>2. /\ orders'[o].type = orders[o].type /\ orders'[o].table = orders[o].table
        /\ orders'[o].paid = orders[o].paid /\ tables' = tables
        /\ payments' = payments /\ Active(o)
    BY DEF WorksOn
  <1>3. \/ Active(o)'
        \/ /\ orders'[o].status = "cancelled" /\ orders[o].table = None
           /\ \A l \in LinesOf(lines', o) : lines'[l].status = "cancelled"
    BY DEF WorksOn, IInv, TakeawaysHoldNoTable, Active
  <1>4. \A p \in Orders \ {o} : Active(p)' <=> Active(p)
    BY <1>1 DEF Active
  <1>5. \A p \in Orders \ {o} :
           /\ LinesOf(lines', p) = LinesOf(lines, p)
           /\ \A l \in LinesOf(lines, p) : lines'[l] = lines[l]
           /\ Bill(lines', p) = Bill(lines, p)
    BY OtherLines DEF WorksOn, IInv, TypeOK
  <1>6. TakeawaysHoldNoTable'
    BY <1>1, <1>2 DEF IInv, TakeawaysHoldNoTable
  <1>7. TableFollowsOrders'
    <2>1. \A p \in Orders : orders'[p].table = orders[p].table
      BY <1>1, <1>2
    <2>2. \A p \in Orders, t \in Tables :
             (Active(p)' /\ orders'[p].table = t) <=> (Active(p) /\ orders[p].table = t)
      BY <1>2, <1>3, <1>4, <2>1
    <2>3. \A t \in Tables : HasOpenOrder(t)' <=> HasOpenOrder(t)
      BY <2>2 DEF HasOpenOrder
    <2>4. QED
      BY <1>2, <2>2, <2>3 DEF IInv, TableFollowsOrders
  <1>8. ClosedOrdersHoldNoWork'
    <2> SUFFICES ASSUME NEW p \in Orders, ~Active(p)', NEW l \in LinesOf(lines', p)
                 PROVE  /\ lines'[l].status \in {"served", "cancelled"}
                        /\ orders'[p].status \notin {"none", "deleted"}
      BY DEF ClosedOrdersHoldNoWork
    <2>1. CASE p = o
      BY <1>3, <2>1
    <2>2. CASE p # o
      BY <1>1, <1>4, <1>5, <2>2 DEF IInv, ClosedOrdersHoldNoWork
    <2>3. QED
      BY <2>1, <2>2
  <1>9. PaidExactlyTheBill'
    <2>1. /\ ~orders[o].paid /\ payments[o] = None
      BY <1>2 DEF IInv, PaidExactlyTheBill, Active, ActiveStatus
    <2>2. orders'[o].status # "completed"
      BY <1>3 DEF Active, ActiveStatus
    <2>3. QED
      BY <1>1, <1>2, <1>5, <2>1, <2>2 DEF IInv, PaidExactlyTheBill
  <1>10. QED
    BY <1>6, <1>7, <1>8, <1>9

LEMMA ClosesInv ==
    ASSUME IInv, TypeOK', Belong(lines'), NEW o \in Orders, Closes(o)
    PROVE  /\ TakeawaysHoldNoTable' /\ TableFollowsOrders'
           /\ ClosedOrdersHoldNoWork' /\ PaidExactlyTheBill'
  <1>1. \A p \in Orders \ {o} : orders'[p] = orders[p]
    BY DEF Closes, OnlyOrder
  <1>2. /\ orders'[o].type = orders[o].type /\ orders'[o].table = orders[o].table
        /\ Active(o) /\ ~Active(o)' /\ tables' = TablesWithout(o)
    BY DEF Closes, Active, ActiveStatus
  <1>3. \A p \in Orders \ {o} : Active(p)' <=> Active(p)
    BY <1>1 DEF Active
  <1>4. \A p \in Orders \ {o} :
           /\ LinesOf(lines', p) = LinesOf(lines, p)
           /\ \A l \in LinesOf(lines, p) : lines'[l] = lines[l]
           /\ Bill(lines', p) = Bill(lines, p)
    BY OtherLines DEF Closes, IInv, TypeOK
  <1>5. TakeawaysHoldNoTable'
    BY <1>1, <1>2 DEF IInv, TakeawaysHoldNoTable
  <1>6. TableFollowsOrders'
    <2> DEFINE t == orders[o].table
    <2>1. \A p \in Orders, u \in Tables :
             (Active(p)' /\ orders'[p].table = u)
               <=> (p # o /\ Active(p) /\ orders[p].table = u)
      BY <1>1, <1>2, <1>3
    <2>2. \A u \in Tables \ {t} : HasOpenOrder(u)' <=> HasOpenOrder(u)
      BY <2>1 DEF HasOpenOrder
    <2>3. ASSUME t \in Tables
          PROVE  /\ \A p \in Orders : ~(Active(p)' /\ orders'[p].table = t)
                 /\ tables' = [tables EXCEPT ![t] = "free"]
      <3>1. \A p \in Orders \ {o} : ~(Active(p) /\ orders[p].table = t)
        BY <1>2, <2>3 DEF IInv, TableFollowsOrders
      <3>2. t # None
        BY <2>3
      <3>3. QED
        BY <1>2, <2>1, <2>3, <3>1, <3>2 DEF TablesWithout, HasOpenOrder
    <2>4. t \in Tables \/ (t = None /\ tables' = tables)
      BY <1>2 DEF IInv, TypeOK, Order, TablesWithout
    <2>5. \A u \in Tables : tables'[u] = "occupied" <=> HasOpenOrder(u)'
      <3>1. \A u \in Tables \ {t} : tables'[u] = tables[u]
        BY <2>3, <2>4 DEF IInv, TypeOK
      <3>2. t \in Tables => tables'[t] = "free"
        BY <2>3 DEF IInv, TypeOK
      <3> HIDE DEF t
      <3>3. ASSUME NEW u \in Tables \ {t}
            PROVE  tables'[u] = "occupied" <=> HasOpenOrder(u)'
        <4>1. tables[u] = "occupied" <=> HasOpenOrder(u)
          BY DEF IInv, TableFollowsOrders
        <4>2. QED
          BY <2>2, <3>1, <4>1
      <3>4. ASSUME NEW u \in Tables, u = t
            PROVE  tables'[u] = "occupied" <=> HasOpenOrder(u)'
        BY <2>3, <3>2, <3>4 DEF HasOpenOrder
      <3>5. QED
        BY <3>3, <3>4
    <2>6. QED
      BY <2>1, <2>5 DEF IInv, TableFollowsOrders
  <1>7. ClosedOrdersHoldNoWork'
    <2> SUFFICES ASSUME NEW p \in Orders, ~Active(p)', NEW l \in LinesOf(lines', p)
                 PROVE  /\ lines'[l].status \in {"served", "cancelled"}
                        /\ orders'[p].status \notin {"none", "deleted"}
      BY DEF ClosedOrdersHoldNoWork
    <2>1. CASE p = o
      BY <2>1 DEF Closes
    <2>2. CASE p # o
      BY <1>1, <1>3, <1>4, <2>2 DEF IInv, ClosedOrdersHoldNoWork
    <2>3. QED
      BY <2>1, <2>2
  <1>8. PaidExactlyTheBill'
    <2>1. ~orders[o].paid /\ payments[o] = None
      BY <1>2 DEF IInv, PaidExactlyTheBill, Active, ActiveStatus
    <2>2. CASE UNCHANGED payments /\ orders'[o].status # "completed"
                                 /\ orders'[o].paid = orders[o].paid
      BY <1>1, <1>4, <2>1, <2>2 DEF IInv, PaidExactlyTheBill
    <2>3. CASE /\ orders'[o].status = "completed" /\ orders'[o].paid = TRUE
               /\ payments' = [payments EXCEPT ![o] = Bill(lines', o)]
      <3>1. /\ payments'[o] = Bill(lines', o)
            /\ \A p \in Orders \ {o} : payments'[p] = payments[p]
        BY <2>3 DEF IInv, TypeOK
      <3>2. Bill(lines', o) # None
        <4>1. Bill(lines', o) \in [Lines -> Nat]
          BY BillType DEF TypeOK, Belong, LinesOf, Amounts
        <4>2. QED
          BY <4>1
      <3>3. QED
        BY <1>1, <1>4, <2>3, <3>1, <3>2 DEF IInv, PaidExactlyTheBill
    <2>4. QED
      BY <2>2, <2>3 DEF Closes
  <1>9. QED
    BY <1>5, <1>6, <1>7, <1>8

LEMMA ConfiguresInv ==
    ASSUME IInv, Configures
    PROVE  /\ TakeawaysHoldNoTable' /\ TableFollowsOrders'
           /\ ClosedOrdersHoldNoWork' /\ PaidExactlyTheBill'
  <1>1. orders' = orders /\ lines' = lines /\ payments' = payments
    BY DEF Configures
  <1>2. TableFollowsOrders'
    <2>1. CASE UNCHANGED tables
      BY <1>1, <2>1 DEF IInv, TableFollowsOrders, HasOpenOrder, Active
    <2>2. ASSUME NEW t \in Tables, NEW status \in TableStatus \ {"occupied"},
                 ~HasOpenOrder(t), tables' = [tables EXCEPT ![t] = status]
          PROVE  TableFollowsOrders'
      BY <1>1, <2>2 DEF IInv, TypeOK, TableFollowsOrders, HasOpenOrder, Active
    <2>3. QED
      BY <2>1, <2>2 DEF Configures
  <1>3. QED
    BY <1>1, <1>2 DEF IInv, TakeawaysHoldNoTable, ClosedOrdersHoldNoWork,
                      PaidExactlyTheBill, LinesOf, LiveLines, Bill, Active

LEMMA StepInv == IInv /\ [Next]_vars => IInv'
  <1> SUFFICES ASSUME IInv, [Next]_vars PROVE IInv'
    OBVIOUS
  <1>1. CASE Next
    <2>1. /\ TypeOK' /\ Belong(lines')
          /\ \/ \E o \in Orders : Opens(o) \/ WorksOn(o) \/ Closes(o)
             \/ Configures
      BY <1>1, StepClasses DEF IInv
    <2>2. /\ TakeawaysHoldNoTable' /\ TableFollowsOrders'
          /\ ClosedOrdersHoldNoWork' /\ PaidExactlyTheBill'
      BY <2>1, OpensInv, WorksOnInv, ClosesInv, ConfiguresInv
    <2>3. QED
      BY <2>1, <2>2 DEF IInv, Belong
  <1>2. CASE UNCHANGED vars
    BY <1>2 DEF vars, IInv, TypeOK, Belong, TakeawaysHoldNoTable, TableFollowsOrders,
                HasOpenOrder, Active, ClosedOrdersHoldNoWork, PaidExactlyTheBill,
                LinesOf, LiveLines, Bill
  <1>3. QED
    BY <1>1, <1>2

LEMMA Invariance == Spec => []IInv
  <1>1. QED
    BY InitInv, StepInv, PTL DEF Spec

LEMMA ClosedOrdersKept == IInv /\ [Next]_vars => [KeepsClosedOrders]_vars
  <1> SUFFICES ASSUME IInv, Next, NEW p \in Orders,
                      orders[p].status \in {"completed", "cancelled", "deleted"}
               PROVE  /\ orders'[p] = orders[p] /\ payments'[p] = payments[p]
                      /\ \A l \in LinesOf(lines, p) : lines'[l] = lines[l]
    BY DEF KeepsClosedOrders
  <1>1. orders[p].status # "none" /\ ~Active(p)
    BY DEF Active, ActiveStatus
  <1>2. \/ \E o \in Orders : Opens(o) \/ WorksOn(o) \/ Closes(o)
        \/ Configures
    BY StepClasses DEF IInv
  <1>3. ASSUME NEW o \in Orders, Opens(o)
        PROVE  /\ orders'[p] = orders[p] /\ payments' = payments /\ lines' = lines
    BY <1>1, <1>3 DEF Opens, OnlyOrder
  <1>4. ASSUME NEW o \in Orders, WorksOn(o) \/ Closes(o)
        PROVE  /\ orders'[p] = orders[p] /\ payments'[p] = payments[p]
               /\ \A l \in LinesOf(lines, p) : lines'[l] = lines[l]
    <2>1. p # o
      BY <1>1, <1>4 DEF WorksOn, Closes
    <2>2. OnlyOrder(o) /\ OnlyLinesOf(o, lines, lines')
      BY <1>4 DEF WorksOn, Closes
    <2>3. orders'[p] = orders[p]
      BY <2>1, <2>2 DEF OnlyOrder
    <2>4. payments'[p] = payments[p]
      BY <1>4, <2>1 DEF WorksOn, Closes, IInv, TypeOK
    <2>5. QED
      BY <2>1, <2>2, <2>3, <2>4, OtherLines DEF IInv, TypeOK
  <1>5. CASE Configures
    BY <1>5 DEF Configures
  <1>6. QED
    BY <1>2, <1>3, <1>4, <1>5

-----------------------------------------------------------------------------
(* What an order's row says of its lines *)

\* The row of an order agrees with its lines: its bill while it is open or
\* paid, its status when it reads as finished or as not sent yet.
Agrees(ord, ls, o) ==
    /\ ord.status \in ActiveStatus \cup {"completed"} => ord.bill = Bill(ls, o)
    /\ ord.status \in {"ready", "served"} =>
          /\ OrderStatusFromItems(ord.status, ls, o) = ord.status
          /\ \A l \in LiveLines(ls, o) : ls[l].status \in {"ready", "served"}
    /\ ord.status = "open" => \A l \in LinesOf(ls, o) : ls[l].status # "cooking"

\* The step hands no dish to the cook.
NoDishStarted ==
    \A l \in Lines : lines'[l].status = "cooking" =>
        lines[l].status = "cooking" /\ lines'[l].order = lines[l].order

RowsAgree == \A o \in Orders : Agrees(orders[o], lines, o)

LEMMA LiveLineStatus ==
    ASSUME NEW ls \in [Lines -> Line], NEW o
    PROVE  \A l \in LiveLines(ls, o) : ls[l].status \in LiveStatus
  BY DEF LiveLines, LinesOf, Line, LineStatus

\* A reconciled status is what the lines say, provided the status before did
\* not call an order with a pending line finished.
LEMMA RefreshedAgrees ==
    ASSUME NEW ls \in [Lines -> Line], NEW o, NEW ord \in Order,
           ord.status \in ActiveStatus, ord.bill = Bill(ls, o),
           ord.status \in {"ready", "served"} =>
              \A l \in LiveLines(ls, o) : ls[l].status # "pending"
    PROVE  Agrees(Refreshed(ord, ls, o), ls, o)
  <1> DEFINE status == RefreshedStatus(ord, ls, o)
             live == LiveLines(ls, o)
             rest == {l \in live : ls[l].status # "served"}
             Some(s) == \E l \in rest : ls[l].status = s
  <1>1. /\ Refreshed(ord, ls, o).status = status
        /\ Refreshed(ord, ls, o).bill = Bill(ls, o)
    BY DEF Refreshed, Order
  <1>2. ASSUME status \in {"ready", "served"}
        PROVE  /\ OrderStatusFromItems(status, ls, o) = status
               /\ \A l \in live : ls[l].status \in {"ready", "served"}
    <2>1. status = OrderStatusFromItems(ord.status, ls, o)
      BY <1>2 DEF RefreshedStatus
    <2>2. \A l \in live : ls[l].status \in LiveStatus
      BY LiveLineStatus
    <2>3. live # {}
      BY <1>2, <2>1 DEF OrderStatusFromItems
    <2>4. CASE rest = {}
      <3>1. status = "served" /\ OrderStatusFromItems(status, ls, o) = "served"
        BY <2>1, <2>3, <2>4 DEF OrderStatusFromItems
      <3>2. \A l \in live : ls[l].status = "served"
        BY <2>4
      <3>3. QED
        BY <3>1, <3>2
    <2>5. CASE rest # {} /\ \A l \in rest : ls[l].status = "ready"
      <3>1. status = "ready" /\ OrderStatusFromItems(status, ls, o) = "ready"
        BY <2>1, <2>3, <2>5 DEF OrderStatusFromItems
      <3>2. QED
        BY <2>5, <3>1
    <2>6. CASE rest # {} /\ \E l \in rest : ls[l].status # "ready"
      <3>1. status = IF ord.status = "sent_to_kitchen" /\ Some("cooking") THEN ord.status
                     ELSE IF Some("cooking") \/ Some("ready") THEN "cooking"
                     ELSE ord.status
        BY <2>1, <2>3, <2>6 DEF OrderStatusFromItems
      <3>2. status = ord.status /\ ~Some("cooking")
        BY <1>2, <3>1
      <3>3. PICK l \in rest : ls[l].status # "ready"
        BY <2>6
      <3>4. ls[l].status = "pending"
        BY <2>2, <3>2, <3>3 DEF LiveStatus
      <3>5. QED
        BY <1>2, <3>2, <3>4
    <2>7. QED
      BY <2>4, <2>5, <2>6
  <1>3. ASSUME status = "open", NEW l \in LinesOf(ls, o), ls[l].status = "cooking"
        PROVE  FALSE
    <2>1. l \in rest
      BY <1>3 DEF LiveLines
    <2>2. OrderStatusFromItems(ord.status, ls, o) = "open"
      BY <1>3 DEF RefreshedStatus
    <2>3. ~(\A k \in rest : ls[k].status = "ready") /\ Some("cooking")
      BY <1>3, <2>1
    <2>4. OrderStatusFromItems(ord.status, ls, o) \in {"sent_to_kitchen", "cooking"}
      BY <2>1, <2>3 DEF OrderStatusFromItems
    <2>5. QED
      BY <2>2, <2>4
  <1> HIDE DEF status
  <1>4. QED
    BY <1>1, <1>2, <1>3 DEF Agrees

\* An order that is not called finished needs its bill to be right, and no dish
\* with the cook if it reads as not sent yet.
LEMMA BilledAgrees ==
    ASSUME NEW ord, NEW ls, NEW o, ord.status \notin {"ready", "served"},
           ord.status = "open" => \A l \in LinesOf(ls, o) : ls[l].status # "cooking",
           ord.bill = Bill(ls, o)
    PROVE  Agrees(ord, ls, o)
  BY DEF Agrees

\* A bill depends on which lines count, and on what was ordered, not on what the
\* kitchen did with it.
LEMMA BillKept ==
    ASSUME NEW was, NEW now, NEW o,
           \A l \in Lines :
              /\ now[l].order = was[l].order /\ now[l].dish = was[l].dish
              /\ now[l].unit = was[l].unit /\ now[l].qty = was[l].qty
              /\ now[l].status \in {"none", "deleted", "cancelled"}
                   <=> was[l].status \in {"none", "deleted", "cancelled"}
    PROVE  Bill(now, o) = Bill(was, o)
  <1>1. \A l \in Lines : l \in LiveLines(now, o) <=> l \in LiveLines(was, o)
    BY DEF LiveLines, LinesOf
  <1>2. \A l \in Lines : Amount(now[l]) = Amount(was[l])
    BY DEF Amount
  <1>3. QED
    BY <1>1, <1>2 DEF Bill

\* When a step changes order o and its lines alone, only o's row is in question.
LEMMA RowsStep ==
    ASSUME IInv, RowsAgree, NEW o \in Orders, OnlyOrder(o),
           OnlyLinesOf(o, lines, lines'), Agrees(orders'[o], lines', o)
    PROVE  RowsAgree'
  <1> SUFFICES ASSUME NEW p \in Orders \ {o}
               PROVE  Agrees(orders'[p], lines', p)
    BY DEF RowsAgree
  <1>1. orders'[p] = orders[p]
    BY DEF OnlyOrder
  <1>2. /\ LinesOf(lines', p) = LinesOf(lines, p)
        /\ \A l \in LinesOf(lines, p) : lines'[l] = lines[l]
        /\ Bill(lines', p) = Bill(lines, p)
    BY OtherLines DEF IInv, TypeOK
  <1>3. /\ LiveLines(lines', p) = LiveLines(lines, p)
        /\ \A l \in LiveLines(lines, p) : lines'[l] = lines[l]
    BY <1>2 DEF LiveLines
  <1>4. OrderStatusFromItems(orders[p].status, lines', p)
           = OrderStatusFromItems(orders[p].status, lines, p)
    BY <1>3 DEF OrderStatusFromItems
  <1>5. Agrees(orders[p], lines, p)
    BY DEF RowsAgree
  <1>6. QED
    BY <1>1, <1>2, <1>3, <1>4, <1>5 DEF Agrees
\* An order with a line that can be edited is not called finished.
LEMMA PendingIsNotFinished ==
    ASSUME IInv, RowsAgree, NEW o \in Orders, NEW l \in LinesOf(lines, o),
           lines[l].status = "pending"
    PROVE  orders[o].status \notin {"ready", "served"}
  BY DEF RowsAgree, Agrees, LiveLines

LEMMA OpenHasNoneStarted ==
    ASSUME RowsAgree, NEW o \in Orders, orders[o].status \in {"open", "ready", "served"},
           NoDishStarted
    PROVE  \A k \in LinesOf(lines', o) : lines'[k].status # "cooking"
  <1>1. \A k \in LinesOf(lines, o) : lines[k].status # "cooking"
    BY DEF RowsAgree, Agrees, LiveLines
  <1>2. QED
    BY <1>1 DEF NoDishStarted, LinesOf

\* Units that are placed wait for the waiter to send them.
LEMMA PlacedUnitsWait ==
    ASSUME IInv, NEW was \in [Lines -> Line], NEW o \in Orders, NEW d \in Dishes,
           NEW qty \in Nat, PlacedUnits(was, lines', o, d, qty),
           \A l \in Lines : was[l].status = lines[l].status /\ was[l].order = lines[l].order
    PROVE  NoDishStarted
  <1>1. CASE \E l \in Lines : lines' = [was EXCEPT ![l].qty = @ + qty]
    <2>1. PICK l \in Lines : lines' = [was EXCEPT ![l].qty = @ + qty]
      BY <1>1
    <2>2. lines'[l] = [was[l] EXCEPT !.qty = @ + qty] /\ \A k \in Lines \ {l} : lines'[k] = was[k]
      BY <2>1
    <2>3. lines'[l].status = was[l].status /\ lines'[l].order = was[l].order
      BY <2>2 DEF Line
    <2>4. QED
      BY <2>2, <2>3 DEF NoDishStarted
  <1>2. CASE \E l \in Lines : lines' = [was EXCEPT ![l] = NewLine(o, d, qty, "pending")]
    <2>1. PICK l \in Lines : lines' = [was EXCEPT ![l] = NewLine(o, d, qty, "pending")]
      BY <1>2
    <2>2. lines'[l].status = "pending" /\ \A k \in Lines \ {l} : lines'[k] = was[k]
      BY <2>1 DEF NewLine, NoLine
    <2>3. QED
      BY <2>2 DEF NoDishStarted
  <1>3. QED
    BY <1>1, <1>2 DEF PlacedUnits, MergeableLines, LinesOf

LEMMA EditedAgrees ==
    ASSUME IInv, RowsAgree, NEW l \in Lines, Editable(l), NoDishStarted,
           orders' = [orders EXCEPT ![lines[l].order] =
                         Recalculated(@, lines', lines[l].order)]
    PROVE  Agrees(orders'[lines[l].order], lines', lines[l].order)
  <1> DEFINE o == lines[l].order
  <1>1. o \in Orders /\ lines[l].status = "pending" /\ l \in LinesOf(lines, o)
    BY EditableOrder DEF IInv, LinesOf
  <1> HIDE DEF o
  <1>2. orders[o].status \notin {"ready", "served"}
    BY <1>1, PendingIsNotFinished
  <1>3. orders[o] \in Order /\ orders'[o] = Recalculated(orders[o], lines', o)
    BY <1>1 DEF o, IInv, TypeOK
  <1>4. orders'[o].status = orders[o].status /\ orders'[o].bill = Bill(lines', o)
    BY <1>3 DEF Recalculated, Order
  <1>5. orders'[o].status = "open" => \A k \in LinesOf(lines', o) : lines'[k].status # "cooking"
    BY <1>1, <1>4, OpenHasNoneStarted
  <1>6. QED
    BY <1>2, <1>4, <1>5, BilledAgrees DEF o

LEMMA LowerItemStarts ==
    ASSUME IInv, NEW l \in Lines, NEW d \in Dishes, NEW q \in Quantities, LowerItem(l, d, q)
    PROVE  NoDishStarted
  <1>1. lines[l] \in Line /\ lines' = [lines EXCEPT ![l] = [@ EXCEPT !.dish = d, !.qty = q]]
    BY DEF IInv, TypeOK, LowerItem
  <1>2. /\ lines'[l] = [lines[l] EXCEPT !.dish = d, !.qty = q]
        /\ \A k \in Lines \ {l} : lines'[k] = lines[k]
    BY <1>1 DEF IInv, TypeOK
  <1>3. lines'[l].status = lines[l].status /\ lines'[l].order = lines[l].order
    BY <1>1, <1>2 DEF Line
  <1>4. QED
    BY <1>2, <1>3 DEF NoDishStarted

LEMMA RaiseItemStarts ==
    ASSUME IInv, NEW l \in Lines, NEW d \in Dishes, NEW q \in Quantities, RaiseItem(l, d, q)
    PROVE  NoDishStarted
  <1> DEFINE edited == [lines EXCEPT ![l].dish = d]
             o == lines[l].order
  <1>1. lines[l] \in Line /\ o \in Orders
    BY EditableOrder DEF IInv, TypeOK, RaiseItem
  <1>2. edited \in [Lines -> Line]
    <2>1. [lines[l] EXCEPT !.dish = d] \in Line
      BY <1>1 DEF Line
    <2>2. QED
      BY <2>1 DEF IInv, TypeOK
  <1>3. /\ edited[l] = [lines[l] EXCEPT !.dish = d]
        /\ \A k \in Lines \ {l} : edited[k] = lines[k]
    BY DEF IInv, TypeOK
  <1>4. \A k \in Lines : edited[k].status = lines[k].status /\ edited[k].order = lines[k].order
    BY <1>1, <1>3 DEF Line
  <1>5. \/ lines' = [edited EXCEPT ![l].qty = q]
        \/ PlacedUnits(edited, lines', o, d, q - lines[l].qty)
    BY DEF RaiseItem
  <1> HIDE DEF edited
  <1>6. CASE lines' = [edited EXCEPT ![l].qty = q]
    <2>1. lines'[l] = [edited[l] EXCEPT !.qty = q] /\ \A k \in Lines \ {l} : lines'[k] = edited[k]
      BY <1>2, <1>6
    <2>2. lines'[l].status = edited[l].status /\ lines'[l].order = edited[l].order
      BY <1>2, <2>1 DEF Line
    <2>3. QED
      BY <1>4, <2>1, <2>2 DEF NoDishStarted
  <1>7. CASE PlacedUnits(edited, lines', o, d, q - lines[l].qty)
    <2>1. q - lines[l].qty \in Nat
      BY <1>1 DEF RaiseItem, Line, Quantities
    <2>2. QED
      BY <1>1, <1>2, <1>4, <1>7, <2>1, PlacedUnitsWait
  <1>8. QED
    BY <1>5, <1>6, <1>7

LEMMA DeleteItemStarts ==
    ASSUME IInv, NEW l \in Lines, DeleteItem(l)
    PROVE  NoDishStarted
  <1>1. /\ lines'[l] = [lines[l] EXCEPT !.status = "deleted"] /\ lines[l] \in Line
        /\ \A k \in Lines \ {l} : lines'[k] = lines[k]
    BY DEF DeleteItem, IInv, TypeOK
  <1>2. lines'[l].status = "deleted"
    BY <1>1 DEF Line
  <1>3. QED
    BY <1>1, <1>2 DEF NoDishStarted

LEMMA AddItemAgrees ==
    ASSUME IInv, RowsAgree, NEW o \in Orders, NEW d \in Dishes, NEW qty \in Quantities,
           AddItem(o, d, qty)
    PROVE  Agrees(orders'[o], lines', o)
  <1> DEFINE ord == Recalculated(orders[o], lines', o)
  <1>1. orders[o] \in Order /\ orders'[o] = Reopened(ord)
    BY DEF IInv, TypeOK, AddItem
  <1>2. ord.bill = Bill(lines', o)
    BY <1>1 DEF Recalculated, Order
  <1>3. /\ Reopened(ord).bill = ord.bill /\ Reopened(ord).status \notin {"ready", "served"}
        /\ Reopened(ord).status = "open" => orders[o].status \in {"open", "ready", "served"}
    BY <1>1 DEF Reopened, Recalculated, Order
  <1>4. NoDishStarted
    <2>1. lines \in [Lines -> Line] /\ qty \in Nat
      BY DEF IInv, TypeOK, Quantities
    <2>2. PlacedUnits(lines, lines', o, d, qty)
      BY DEF AddItem
    <2>3. QED
      BY <2>1, <2>2, PlacedUnitsWait
  <1>5. Reopened(ord).status = "open" => \A k \in LinesOf(lines', o) : lines'[k].status # "cooking"
    BY <1>3, <1>4, OpenHasNoneStarted
  <1>6. QED
    BY <1>1, <1>2, <1>3, <1>5, BilledAgrees

\* The lines that an order called finished has are cooked, the new one too.
LEMMA AddServedItemAgrees ==
    ASSUME IInv, RowsAgree, TypeOK', NEW o \in Orders, NEW d \in Dishes,
           NEW qty \in Quantities, AddServedItem(o, d, qty)
    PROVE  Agrees(orders'[o], lines', o)
  <1> DEFINE line == NewLine(o, d, qty, "served")
             ord == Recalculated(orders[o], lines', o)
  <1>1. PICK l \in Lines : lines' = [lines EXCEPT ![l] = Deducted(line, stock)]
    BY DEF AddServedItem
  <1>2. line \in Line /\ line.dish = d /\ line.status = "served"
    BY NewLineType DEF IInv, TypeOK, Quantities, LiveStatus
  <1> HIDE DEF line
  <1>3. Deducted(line, stock).status = "served"
    BY <1>2, DeductedType DEF IInv, TypeOK
  <1>4. lines'[l].status = "served" /\ \A k \in Lines \ {l} : lines'[k] = lines[k]
    BY <1>1, <1>3 DEF IInv, TypeOK
  <1>5. orders[o] \in Order /\ Active(o) /\ Belong(lines')
    <2>1. Belong(lines')
      BY AddServedItemStep DEF IInv
    <2>2. QED
      BY <2>1 DEF IInv, TypeOK, AddServedItem
  <1>6. ord \in Order /\ ord.status = orders[o].status /\ ord.bill = Bill(lines', o)
    <2>1. lines' \in [Lines -> Line]
      BY DEF TypeOK
    <2>2. ord \in Order /\ ord.status = orders[o].status
      BY <1>5, <2>1, RecalculatedType
    <2>3. ord.bill = Bill(lines', o)
      BY <1>5 DEF Recalculated, Order
    <2>4. QED
      BY <2>2, <2>3
  <1>7. orders'[o] = Refreshed(ord, lines', o)
    BY DEF IInv, TypeOK, AddServedItem
  <1> HIDE DEF ord
  <1>8. ord.status \in {"ready", "served"} =>
           \A k \in LiveLines(lines', o) : lines'[k].status # "pending"
    BY <1>4, <1>6 DEF RowsAgree, Agrees, LiveLines, LinesOf
  <1>9. lines' \in [Lines -> Line] /\ ord.status \in ActiveStatus
    BY <1>5, <1>6 DEF TypeOK, Active
  <1>10. Agrees(Refreshed(ord, lines', o), lines', o)
    BY <1>6, <1>8, <1>9, RefreshedAgrees
  <1>11. QED
    BY <1>7, <1>10

LEMMA SendToKitchenAgrees ==
    ASSUME IInv, RowsAgree, NEW o \in Orders, SendToKitchen(o)
    PROVE  Agrees(orders'[o], lines', o)
  <1>1. orders[o] \in Order /\ Active(o)
    BY DEF IInv, TypeOK, SendToKitchen
  <1>2. orders'[o].status = "sent_to_kitchen" /\ orders'[o].bill = orders[o].bill
    BY <1>1 DEF SendToKitchen, IInv, TypeOK, Order
  <1>3. PICK b \in 1..NumLines :
           lines' = [l \in Lines |->
                IF l \in LinesOf(lines, o) /\ lines[l].status = "pending"
                THEN [lines[l] EXCEPT !.status = "cooking", !.batch = b]
                ELSE lines[l]]
    BY DEF SendToKitchen
  <1>4. Bill(lines', o) = Bill(lines, o)
    <2>1. \A l \in Lines : lines[l] \in Line
      BY DEF IInv, TypeOK
    <2>2. \A l \in Lines :
             /\ lines'[l].order = lines[l].order /\ lines'[l].dish = lines[l].dish
             /\ lines'[l].unit = lines[l].unit /\ lines'[l].qty = lines[l].qty
             /\ lines'[l].status \in {"none", "deleted", "cancelled"}
                  <=> lines[l].status \in {"none", "deleted", "cancelled"}
      BY <1>3, <2>1 DEF Line
    <2>3. QED
      BY <2>2, BillKept
  <1>5. orders[o].bill = Bill(lines, o)
    BY <1>1 DEF RowsAgree, Agrees, Active
  <1>6. QED
    BY <1>2, <1>4, <1>5, BilledAgrees

\* The kitchen moves one line and leaves what was ordered as it was.
LEMMA CookedAgrees ==
    ASSUME IInv, RowsAgree, TypeOK', NEW l \in Lines, NEW o \in Orders,
           lines[l].order = o, Active(o), l \in LiveLines(lines, o),
           \A k \in Lines \ {l} : lines'[k] = lines[k],
           lines'[l].order = o, lines'[l].dish = lines[l].dish,
           lines'[l].unit = lines[l].unit, lines'[l].qty = lines[l].qty,
           lines'[l].status \in {"cooking", "ready", "served"},
           orders' = [orders EXCEPT ![o] = Refreshed(@, lines', o)]
    PROVE  Agrees(orders'[o], lines', o)
  <1>1. orders[o] \in Order /\ orders'[o] = Refreshed(orders[o], lines', o)
    BY DEF IInv, TypeOK
  <1>2. lines[l].status \notin {"none", "deleted", "cancelled"}
    BY DEF LiveLines, LinesOf
  <1>3. Bill(lines', o) = Bill(lines, o)
    <2>1. \A k \in Lines :
             /\ lines'[k].order = lines[k].order /\ lines'[k].dish = lines[k].dish
             /\ lines'[k].unit = lines[k].unit /\ lines'[k].qty = lines[k].qty
             /\ lines'[k].status \in {"none", "deleted", "cancelled"}
                  <=> lines[k].status \in {"none", "deleted", "cancelled"}
      BY <1>2
    <2>2. QED
      BY <2>1, BillKept
  <1>4. orders[o].bill = Bill(lines', o)
    BY <1>3 DEF RowsAgree, Agrees, Active
  <1>5. orders[o].status \in {"ready", "served"} =>
           \A k \in LiveLines(lines', o) : lines'[k].status # "pending"
    BY DEF RowsAgree, Agrees, LiveLines, LinesOf
  <1>6. QED
    BY <1>1, <1>4, <1>5, RefreshedAgrees DEF TypeOK, Active

LEMMA StartCookingAgrees ==
    ASSUME IInv, RowsAgree, TypeOK', NEW l \in Lines, StartCooking(l)
    PROVE  Agrees(orders'[lines[l].order], lines', lines[l].order)
  <1>1. /\ lines[l] \in Line /\ lines[l].order \in Orders
        /\ lines[l].status \in LiveStatus
    BY MovableLine DEF IInv, StartCooking
  <1>2. /\ lines'[l] = [lines[l] EXCEPT !.status = "cooking"]
        /\ \A k \in Lines \ {l} : lines'[k] = lines[k]
    BY DEF StartCooking, IInv, TypeOK
  <1>3. /\ lines'[l].order = lines[l].order /\ lines'[l].dish = lines[l].dish
        /\ lines'[l].unit = lines[l].unit /\ lines'[l].qty = lines[l].qty
        /\ lines'[l].status = "cooking"
    BY <1>1, <1>2 DEF Line
  <1>4. l \in LiveLines(lines, lines[l].order)
    BY <1>1 DEF LiveLines, LinesOf, LiveStatus
  <1>5. /\ Active(lines[l].order)
        /\ orders' = [orders EXCEPT ![lines[l].order] =
                         Refreshed(@, lines', lines[l].order)]
    BY DEF StartCooking
  <1>6. QED
    BY <1>1, <1>2, <1>3, <1>4, <1>5, CookedAgrees

LEMMA FinishItemAgrees ==
    ASSUME IInv, RowsAgree, TypeOK', NEW l \in Lines,
           NEW status \in {"ready", "served"}, FinishItem(l, status)
    PROVE  Agrees(orders'[lines[l].order], lines', lines[l].order)
  <1> DEFINE cooked == Deducted(lines[l], stock)
  <1>1. /\ lines[l] \in Line /\ lines[l].order \in Orders
        /\ lines[l].dish \in Dishes /\ lines[l].status \in LiveStatus
    BY MovableLine DEF IInv, FinishItem
  <1>2. /\ lines'[l] = [cooked EXCEPT !.status = status]
        /\ \A k \in Lines \ {l} : lines'[k] = lines[k]
    BY DEF FinishItem, IInv, TypeOK
  <1>3. /\ cooked \in Line /\ cooked.order = lines[l].order
        /\ cooked.dish = lines[l].dish
        /\ cooked.unit = lines[l].unit /\ cooked.qty = lines[l].qty
    BY <1>1, DeductedType DEF IInv, TypeOK
  <1> HIDE DEF cooked
  <1>4. /\ lines'[l].order = lines[l].order /\ lines'[l].dish = lines[l].dish
        /\ lines'[l].unit = lines[l].unit /\ lines'[l].qty = lines[l].qty
        /\ lines'[l].status \in {"cooking", "ready", "served"}
    BY <1>2, <1>3 DEF Line
  <1>5. l \in LiveLines(lines, lines[l].order)
    BY <1>1 DEF LiveLines, LinesOf, LiveStatus
  <1>6. /\ Active(lines[l].order)
        /\ orders' = [orders EXCEPT ![lines[l].order] =
                         Refreshed(@, lines', lines[l].order)]
    BY DEF FinishItem
  <1>7. QED
    BY <1>1, <1>2, <1>4, <1>5, <1>6, CookedAgrees

LEMMA VoidItemAgrees ==
    ASSUME IInv, RowsAgree, TypeOK', NEW l \in Lines, NEW count \in Quantities,
           NEW frontOfHouse \in BOOLEAN, VoidItem(l, count, frontOfHouse)
    PROVE  Agrees(orders'[lines[l].order], lines', lines[l].order)
  <1> DEFINE o == lines[l].order
             ord == Recalculated(orders[o], lines', o)
  <1>1. /\ lines[l] \in Line /\ o \in Orders /\ lines[l].status \in LiveStatus
    BY MovableLine DEF IInv, VoidItem
  <1>2. Belong(lines')
    BY VoidItemStep DEF IInv
  <1>3. Active(o) /\ orders[o] \in Order
    BY <1>1 DEF VoidItem, IInv, TypeOK
  <1>4. /\ orders'[o] = Refreshed(ord, lines', o)
        /\ lines' \in [Lines -> Line]
    BY <1>1 DEF VoidItem, IInv, TypeOK
  <1>5. ord \in Order /\ ord.status = orders[o].status /\ ord.bill = Bill(lines', o)
    <2> HIDE DEF o
    <2>1. ord \in Order /\ ord.status = orders[o].status
      BY <1>1, <1>2, <1>3, <1>4, RecalculatedType
    <2>2. ord.bill = Bill(lines', o)
      BY <1>3 DEF Recalculated, Order
    <2>3. QED
      BY <2>1, <2>2
  <1>6. \A j \in Lines : lines'[j].status = "pending" =>
           lines[j].status = "pending" /\ lines'[j].order = lines[j].order
    <2>1. CASE lines' = [lines EXCEPT ![l].status = "cancelled"]
      <3>1. /\ lines'[l] = [lines[l] EXCEPT !.status = "cancelled"]
            /\ \A j \in Lines \ {l} : lines'[j] = lines[j]
        BY <2>1 DEF IInv, TypeOK
      <3>2. lines'[l].status = "cancelled"
        BY <1>1, <3>1 DEF Line
      <3>3. QED
        BY <3>1, <3>2
    <2>2. ASSUME NEW k \in Lines, IsNextLine(k),
                 lines' = [lines EXCEPT
                    ![l].qty = @ - count,
                    ![k] = [lines[l] EXCEPT !.qty = count, !.used = NoStock,
                                            !.status = "cancelled"]]
          PROVE  \A j \in Lines : lines'[j].status = "pending" =>
                    lines[j].status = "pending" /\ lines'[j].order = lines[j].order
      <3>1. k # l
        BY <1>1, <2>2 DEF IsNextLine, LiveStatus
      <3>2. /\ lines'[l] = [lines[l] EXCEPT !.qty = @ - count]
            /\ lines'[k] = [lines[l] EXCEPT !.qty = count, !.used = NoStock,
                                            !.status = "cancelled"]
            /\ \A j \in Lines \ {l, k} : lines'[j] = lines[j]
        BY <2>2, <3>1 DEF IInv, TypeOK
      <3>3. /\ lines'[l].status = lines[l].status /\ lines'[l].order = lines[l].order
            /\ lines'[k].status = "cancelled"
        BY <1>1, <3>2 DEF Line
      <3>4. QED
        BY <3>2, <3>3
    <2>3. QED
      BY <2>1, <2>2 DEF VoidItem
  <1>7. ord.status \in {"ready", "served"} =>
           \A j \in LiveLines(lines', o) : lines'[j].status # "pending"
    <2> SUFFICES ASSUME orders[o].status \in {"ready", "served"},
                        NEW j \in LiveLines(lines', o), lines'[j].status = "pending"
                 PROVE  FALSE
      BY <1>5
    <2> HIDE DEF o, ord
    <2>1. j \in LinesOf(lines, o) /\ lines[j].status = "pending"
      BY <1>6 DEF LiveLines, LinesOf
    <2>2. QED
      BY <1>1, <2>1, PendingIsNotFinished
  <1> HIDE DEF o, ord
  <1>8. Agrees(Refreshed(ord, lines', o), lines', o)
    BY <1>3, <1>4, <1>5, <1>7, RefreshedAgrees DEF Active
  <1>9. QED
    BY <1>4, <1>8 DEF o

LEMMA PayOrderAgrees ==
    ASSUME IInv, NEW o \in Orders, PayOrder(o)
    PROVE  Agrees(orders'[o], lines', o)
  <1>1. orders[o] \in Order
    BY DEF IInv, TypeOK
  <1>2. orders'[o] = [Recalculated(orders[o], lines', o)
                         EXCEPT !.status = "completed", !.paid = TRUE]
    BY DEF PayOrder, IInv, TypeOK
  <1>3. orders'[o].status = "completed" /\ orders'[o].bill = Bill(lines', o)
    BY <1>1, <1>2 DEF Recalculated, Order
  <1>4. QED
    BY <1>3, BilledAgrees

\* An order is opened without lines, so without a bill.
LEMMA OpenAgrees ==
    ASSUME IInv, OpenStep
    PROVE  \E o \in Orders : Opens(o) /\ Agrees(orders'[o], lines', o)
  <1>1. ASSUME NEW o \in Orders, Opens(o), orders'[o].bill = NoBill
        PROVE  Agrees(orders'[o], lines', o)
    <2>1. orders[o].status = "none" /\ orders'[o].status = "open" /\ lines' = lines
      BY <1>1 DEF Opens
    <2>2. LinesOf(lines, o) = {}
      BY <2>1 DEF IInv, ClosedOrdersHoldNoWork, Active, ActiveStatus
    <2>3. Bill(lines', o) = NoBill /\ LinesOf(lines', o) = {}
      BY <2>1, <2>2 DEF Bill, LiveLines, NoBill
    <2>4. QED
      BY <1>1, <2>1, <2>3, BilledAgrees
  <1>2. PICK p \in Orders : Opens(p)
    BY OpenStepClass DEF IInv
  <1>3. orders'[p].bill = NoBill
    <2>1. PICK o \in Orders : OpenTakeaway(o) \/ \E t \in Tables, seat \in BOOLEAN : OpenOrder(o, t, seat)
      BY DEF OpenStep
    <2>2. orders[p].status = "none" /\ orders'[p].status = "open"
      BY <1>2 DEF Opens
    <2>3. CASE p = o
      <3>1. orders \in [Orders -> Order]
        BY DEF IInv, TypeOK
      <3>2. OpenTakeaway(o) => orders'[o].bill = NoBill
        BY <3>1 DEF OpenTakeaway, NoOrder
      <3>3. \A t \in Tables, seat \in BOOLEAN :
               OpenOrder(o, t, seat) => orders'[o].bill = NoBill
        BY <3>1 DEF OpenOrder, NoOrder
      <3>4. QED
        BY <2>1, <2>3, <3>2, <3>3
    <2>4. CASE p # o
      BY <2>1, <2>2, <2>4 DEF OpenTakeaway, OpenOrder, IInv, TypeOK
    <2>5. QED
      BY <2>3, <2>4
  <1>4. QED
    BY <1>1, <1>2, <1>3

\* Whatever order a transaction works on, its row agrees with its lines after.
LEMMA StepAgrees ==
    ASSUME IInv, TypeOK', RowsAgree, Next
    PROVE  \/ UNCHANGED <<orders, lines>>
           \/ \E o \in Orders : /\ OnlyOrder(o) /\ OnlyLinesOf(o, lines, lines')
                                /\ Agrees(orders'[o], lines', o)
  <1> DEFINE Goal == \E o \in Orders : /\ OnlyOrder(o) /\ OnlyLinesOf(o, lines, lines')
                                       /\ Agrees(orders'[o], lines', o)
  <1> TypeOK /\ Belong(lines)
    BY DEF IInv
  <1>1. CASE OpenStep
    BY <1>1, OpenAgrees DEF Opens, OnlyLinesOf
  <1>2. ASSUME NEW o \in Orders, WorksOn(o) \/ Closes(o),
               Agrees(orders'[o], lines', o)
        PROVE  Goal
    BY <1>2 DEF WorksOn, Closes
  <1> HIDE DEF Goal
  <1>3. ASSUME TakeStep PROVE Goal
    <2>1. ASSUME NEW o \in Orders, NEW d \in Dishes, NEW q \in Quantities, AddItem(o, d, q)
          PROVE  Goal
      BY <1>2, <2>1, AddItemStep, AddItemAgrees
    <2>2. ASSUME NEW o \in Orders, NEW d \in Dishes, NEW q \in Quantities,
                 AddServedItem(o, d, q)
          PROVE  Goal
      BY <1>2, <2>2, AddServedItemStep, AddServedItemAgrees
    <2>3. ASSUME NEW l \in Lines, NEW d \in Dishes, NEW q \in Quantities,
                 LowerItem(l, d, q)
          PROVE  Goal
      <3>1. Editable(l) /\ lines[l].order \in Orders /\ WorksOn(lines[l].order)
        BY <2>3, LowerItemStep, EditableOrder DEF LowerItem
      <3>2. Agrees(orders'[lines[l].order], lines', lines[l].order)
        BY <2>3, <3>1, LowerItemStarts, EditedAgrees DEF LowerItem
      <3>3. QED
        BY <1>2, <3>1, <3>2
    <2>4. ASSUME NEW l \in Lines, NEW d \in Dishes, NEW q \in Quantities,
                 RaiseItem(l, d, q)
          PROVE  Goal
      <3>1. Editable(l) /\ lines[l].order \in Orders /\ WorksOn(lines[l].order)
        BY <2>4, RaiseItemStep, EditableOrder DEF RaiseItem
      <3>2. Agrees(orders'[lines[l].order], lines', lines[l].order)
        BY <2>4, <3>1, RaiseItemStarts, EditedAgrees DEF RaiseItem
      <3>3. QED
        BY <1>2, <3>1, <3>2
    <2>5. ASSUME NEW l \in Lines, DeleteItem(l)
          PROVE  Goal
      <3>1. Editable(l) /\ lines[l].order \in Orders /\ WorksOn(lines[l].order)
        BY <2>5, DeleteItemStep, EditableOrder DEF DeleteItem
      <3>2. Agrees(orders'[lines[l].order], lines', lines[l].order)
        BY <2>5, <3>1, DeleteItemStarts, EditedAgrees DEF DeleteItem
      <3>3. QED
        BY <1>2, <3>1, <3>2
    <2>6. QED
      BY <1>3, <2>1, <2>2, <2>3, <2>4, <2>5 DEF TakeStep
  <1>4. ASSUME KitchenStep PROVE Goal
    <2>1. ASSUME NEW o \in Orders, SendToKitchen(o)
          PROVE  Goal
      BY <1>2, <2>1, SendToKitchenStep, SendToKitchenAgrees
    <2>2. ASSUME NEW l \in Lines, StartCooking(l)
          PROVE  Goal
      <3>1. lines[l].order \in Orders
        BY <2>2, MovableLine DEF StartCooking
      <3>2. QED
        BY <1>2, <2>2, <3>1, StartCookingStep, StartCookingAgrees
    <2>3. ASSUME NEW l \in Lines, NEW status \in {"ready", "served"}, FinishItem(l, status)
          PROVE  Goal
      <3>1. lines[l].order \in Orders
        BY <2>3, MovableLine DEF FinishItem
      <3>2. QED
        BY <1>2, <2>3, <3>1, FinishItemStep, FinishItemAgrees
    <2>4. ASSUME NEW l \in Lines, NEW count \in Quantities,
                 NEW frontOfHouse \in BOOLEAN, VoidItem(l, count, frontOfHouse)
          PROVE  Goal
      <3>1. lines[l].order \in Orders
        BY <2>4, MovableLine DEF VoidItem
      <3>2. QED
        BY <1>2, <2>4, <3>1, VoidItemStep, VoidItemAgrees
    <2>5. QED
      BY <1>4, <2>1, <2>2, <2>3, <2>4 DEF KitchenStep
  <1>5. ASSUME CloseStep PROVE Goal
    <2>1. ASSUME NEW o \in Orders, Closes(o), orders'[o].status \in {"cancelled", "deleted"}
          PROVE  Goal
      BY <1>2, <2>1 DEF Agrees, ActiveStatus
    <2>2. ASSUME NEW o \in Orders, NEW supervisor \in BOOLEAN, CancelOrder(o, supervisor)
          PROVE  Goal
      <3>1. orders'[o].status = "cancelled"
        BY <2>2 DEF CancelOrder, TypeOK, Order
      <3>2. QED
        BY <2>1, <2>2, <3>1, CancelOrderClass
    <2>3. ASSUME NEW o \in Orders, CloseEmptyTable(o)
          PROVE  Goal
      <3>1. orders'[o].status \in {"cancelled", "deleted"}
        BY <2>3 DEF CloseEmptyTable, TypeOK, Order
      <3>2. QED
        BY <2>1, <2>3, <3>1, CloseEmptyTableClass
    <2>4. ASSUME NEW o \in Orders, PayOrder(o)
          PROVE  Goal
      BY <1>2, <2>4, PayOrderClass, PayOrderAgrees
    <2>5. QED
      BY <1>5, <2>2, <2>3, <2>4 DEF CloseStep
  <1>6. CASE SettingStep
    BY <1>6, SettingStepClass DEF Configures
  <1>7. QED
    BY <1>1, <1>3, <1>4, <1>5, <1>6 DEF Next, Goal

LEMMA InitRows == Init => RowsAgree
  BY DEF Init, RowsAgree, Agrees, NoOrder, ActiveStatus

LEMMA StepRows == IInv /\ RowsAgree /\ [Next]_vars => RowsAgree'
  <1> SUFFICES ASSUME IInv, RowsAgree, [Next]_vars PROVE RowsAgree'
    OBVIOUS
  <1>1. CASE UNCHANGED <<orders, lines>>
    <2>1. \A o \in Orders : Agrees(orders'[o], lines', o) <=> Agrees(orders[o], lines, o)
      BY <1>1
    <2>2. QED
      BY <2>1 DEF RowsAgree
  <1>2. CASE \E o \in Orders : /\ OnlyOrder(o) /\ OnlyLinesOf(o, lines, lines')
                               /\ Agrees(orders'[o], lines', o)
    BY <1>2, RowsStep
  <1>3. CASE Next
    <2>1. TypeOK'
      BY <1>3, StepClasses DEF IInv
    <2>2. QED
      BY <1>1, <1>2, <1>3, <2>1, StepAgrees
  <1>4. CASE UNCHANGED vars
    BY <1>1, <1>4 DEF vars
  <1>5. QED
    BY <1>3, <1>4

LEMMA RowsInvariance == Spec => []RowsAgree
  <1>1. QED
    BY InitRows, StepRows, Invariance, PTL DEF Spec

-----------------------------------------------------------------------------
(* Stock: what the lines took from the shelf, and what they still claim *)

LEMMA LinesFinite == IsFiniteSet(Lines)
  BY FS_Interval DEF Lines

LEMMA ProductGrows ==
    ASSUME NEW a \in Nat, NEW b \in Nat, NEW c \in Nat, b <= c
    PROVE  a * b \in Nat /\ a * c \in Nat /\ a * b <= a * c
  <1>1. c - b \in Nat /\ c = b + (c - b)
    OBVIOUS
  <1>2. a * c = a * b + a * (c - b)
    BY <1>1
  <1>3. a * b \in Nat /\ a * c \in Nat /\ a * (c - b) \in Nat
    BY <1>1
  <1>4. QED
    BY <1>2, <1>3

LEMMA ProductFalls ==
    ASSUME NEW a \in Nat, NEW b \in Nat, NEW c \in Nat, a <= b
    PROVE  a * c <= b * c
  <1>1. b - a \in Nat /\ b = a + (b - a)
    OBVIOUS
  <1>2. b * c = a * c + (b - a) * c
    BY <1>1
  <1>3. a * c \in Nat /\ b * c \in Nat /\ (b - a) * c \in Nat
    BY <1>1
  <1>4. QED
    BY <1>2, <1>3

LEMMA ProductAdds ==
    ASSUME NEW a \in Nat, NEW b \in Nat, NEW c \in Nat
    PROVE  a * (b + c) = a * b + a * c
  OBVIOUS

\* What a line takes if the kitchen cooks it, by its base recipe.
Base(ln, i) == BaseRecipe[MenuOf[ln.dish]][i] * ln.qty

\* What a line still holds back on the shelf: its options may change until it
\* is sent, so a pending line holds its base recipe.
Claim(ln, i) ==
    IF ln.status = "pending" THEN Base(ln, i)
    ELSE IF ln.status = "cooking" /\ ln.used[i] = 0 THEN Required(ln, i) ELSE 0

\* Nothing is taken off the shelf for a line before the kitchen has it.
Untouched(ln) == ln.status \in {"none", "pending"} => ln.used = NoStock

\* A dish has been taken off the shelf whole or not at all, and whole once it
\* left the kitchen.
TakenWhole(ln) ==
    \A i \in Ingredients :
        /\ ln.status = "cooking" => ln.used[i] = 0 \/ ln.used[i] >= Required(ln, i)
        /\ ln.status \in {"ready", "served"} => ln.used[i] >= Required(ln, i)

HasDish(ln) == ln \in Line /\ (ln.status # "none" => ln.dish \in Dishes)

LEMMA RecipeTypes ==
    ASSUME NEW ln \in Line, ln.dish \in Dishes, NEW i \in Ingredients
    PROVE  /\ Required(ln, i) \in Nat /\ Base(ln, i) \in Nat
           /\ OptionsNeverAdd => Required(ln, i) <= Base(ln, i)
           /\ ln.used[i] \in Nat
  <1>1. /\ Recipe[ln.dish][i] \in Nat /\ BaseRecipe[MenuOf[ln.dish]][i] \in Nat
        /\ ln.qty \in Nat
    BY DEF Line
  <1>2. Required(ln, i) \in Nat /\ Base(ln, i) \in Nat
    BY <1>1 DEF Required, Base
  <1>3. OptionsNeverAdd => Required(ln, i) <= Base(ln, i)
    BY <1>1, ProductFalls DEF Required, Base, OptionsNeverAdd
  <1>4. ln.used[i] \in Nat
    BY DEF Line, Stocks
  <1>5. QED
    BY <1>2, <1>3, <1>4

LEMMA ClaimType ==
    ASSUME NEW ln, HasDish(ln), NEW i \in Ingredients
    PROVE  Claim(ln, i) \in Nat
  BY RecipeTypes DEF Claim, HasDish

\* A line may change like this without asking the shelf.
Calm(was, now) ==
    /\ now.used = was.used
    /\ Untouched(was) => Untouched(now)
    /\ OptionsNeverAdd /\ Untouched(was) /\ TakenWhole(was) =>
          /\ TakenWhole(now)
          /\ \A i \in Ingredients : Claim(now, i) <= Claim(was, i)

LEMMA CalmWhenSame ==
    ASSUME NEW ln, HasDish(ln)
    PROVE  Calm(ln, ln)
  BY ClaimType DEF Calm

\* Voided, deleted: the claim is given up.
LEMMA CalmWhenDropped ==
    ASSUME NEW ln, HasDish(ln), NEW now,
           \/ now = [ln EXCEPT !.status = "cancelled"]
           \/ now = [ln EXCEPT !.status = "deleted"]
    PROVE  Calm(ln, now)
  <1>1. now.status \in {"cancelled", "deleted"} /\ now.used = ln.used
    BY DEF HasDish, Line
  <1>2. \A i \in Ingredients : Claim(now, i) = 0 /\ 0 <= Claim(ln, i)
    BY <1>1, ClaimType DEF Claim
  <1>3. Untouched(now) /\ TakenWhole(now)
    BY <1>1 DEF Untouched, TakenWhole
  <1>4. QED
    BY <1>1, <1>2, <1>3 DEF Calm

\* The kitchen starts a line, or takes back one it had called ready.
LEMMA CalmWhenCooking ==
    ASSUME NEW was, HasDish(was), was.status \in {"pending", "cooking", "ready"},
           NEW now \in Line, now.status = "cooking", now.used = was.used,
           now.dish = was.dish, now.qty = was.qty
    PROVE  Calm(was, now)
  <1>1. was \in Line /\ was.dish \in Dishes /\ now.dish \in Dishes
    BY DEF HasDish
  <1>2. \A i \in Ingredients : /\ Required(now, i) = Required(was, i)
                               /\ Required(was, i) \in Nat /\ Base(was, i) \in Nat
                               /\ OptionsNeverAdd => Required(was, i) <= Base(was, i)
                               /\ was.used[i] \in Nat
    BY <1>1, RecipeTypes DEF Required
  <1>3. ASSUME OptionsNeverAdd, TakenWhole(was), NEW i \in Ingredients
        PROVE  Claim(now, i) <= Claim(was, i)
    <2>1. Claim(now, i) = IF was.used[i] = 0 THEN Required(was, i) ELSE 0
      BY <1>2 DEF Claim
    <2>2. CASE was.status = "pending"
      BY <1>2, <1>3, <2>1, <2>2 DEF Claim
    <2>3. CASE was.status = "cooking"
      BY <1>2, <2>1, <2>3 DEF Claim
    <2>4. CASE was.status = "ready"
      <3>1. was.used[i] >= Required(was, i)
        BY <1>3, <2>4 DEF TakenWhole
      <3>2. Claim(was, i) = 0
        BY <2>4 DEF Claim
      <3>3. QED
        BY <1>2, <2>1, <3>1, <3>2
    <2>5. QED
      BY <2>2, <2>3, <2>4
  <1>4. ASSUME Untouched(was), TakenWhole(was)
        PROVE  TakenWhole(now)
    <2>1. was.status = "pending" => \A i \in Ingredients : was.used[i] = 0
      BY <1>4 DEF Untouched, NoStock
    <2>2. \A i \in Ingredients : was.used[i] = 0 \/ was.used[i] >= Required(was, i)
      BY <1>4, <2>1 DEF TakenWhole
    <2>3. QED
      BY <1>2, <2>2 DEF TakenWhole
  <1>5. Untouched(now)
    BY DEF Untouched
  <1>6. QED
    BY <1>3, <1>4, <1>5 DEF Calm

\* Fewer units, and for a line not yet sent other options of its menu item.
LEMMA CalmWhenLess ==
    ASSUME NEW was, HasDish(was), was.status # "none", NEW now \in Line,
           now.status = was.status, now.used = was.used, now.dish \in Dishes,
           now.qty <= was.qty,
           \/ now.dish = was.dish
           \/ was.status = "pending" /\ MenuOf[now.dish] = MenuOf[was.dish]
    PROVE  Calm(was, now)
  <1>1. was \in Line /\ was.dish \in Dishes /\ was.qty \in Nat /\ now.qty \in Nat
    BY DEF HasDish, Line
  <1>2. \A i \in Ingredients : Base(now, i) <= Base(was, i)
    <2> TAKE i \in Ingredients
    <2>1. MenuOf[now.dish] = MenuOf[was.dish] /\ BaseRecipe[MenuOf[was.dish]][i] \in Nat
      BY <1>1
    <2>2. QED
      BY <1>1, <2>1, ProductGrows DEF Base
  <1>3. \A i \in Ingredients : now.dish = was.dish => Required(now, i) <= Required(was, i)
    <2> TAKE i \in Ingredients
    <2>1. Recipe[was.dish][i] \in Nat
      BY <1>1
    <2>2. QED
      BY <1>1, <2>1, ProductGrows DEF Required
  <1>4. \A i \in Ingredients : /\ Required(was, i) \in Nat /\ Required(now, i) \in Nat
                               /\ was.used[i] \in Nat
    BY <1>1, RecipeTypes
  <1>5. ASSUME NEW i \in Ingredients
        PROVE  Claim(now, i) <= Claim(was, i)
    BY <1>2, <1>3, <1>4 DEF Claim
  <1>6. ASSUME TakenWhole(was)
        PROVE  TakenWhole(now)
    <2>1. ASSUME NEW i \in Ingredients
          PROVE  /\ now.status = "cooking" => now.used[i] = 0 \/ now.used[i] >= Required(now, i)
                 /\ now.status \in {"ready", "served"} => now.used[i] >= Required(now, i)
      <3>1. now.status \in {"cooking", "ready", "served"} => Required(now, i) <= Required(was, i)
        BY <1>3
      <3>2. QED
        BY <1>4, <1>6, <3>1 DEF TakenWhole
    <2>2. QED
      BY <2>1 DEF TakenWhole
  <1>7. Untouched(was) => Untouched(now)
    BY DEF Untouched
  <1>8. QED
    BY <1>5, <1>6, <1>7 DEF Calm
-----------------------------------------------------------------------------
(* The invariant of the shelf *)

Claims(ls, i) == SumFunctionOnSet([l \in Lines |-> Claim(ls[l], i)], Lines)
Taken(ls, i) == SumFunctionOnSet([l \in Lines |-> ls[l].used[i]], Lines)

\* The shelf covers what all lines claim, and no dish was left half taken.
ClaimsFit ==
    (~shrunk /\ OptionsNeverAdd) =>
        /\ \A l \in Lines : TakenWhole(lines[l])
        /\ \A i \in Ingredients : Claims(lines, i) <= stock[i]

ShelfInv ==
    /\ \A l \in Lines : Untouched(lines[l])
    /\ \A i \in Ingredients : received[i] = stock[i] + Taken(lines, i)
    /\ ClaimsFit

LEMMA UsedTypes ==
    ASSUME NEW ls \in [Lines -> Line], NEW i \in Ingredients
    PROVE  /\ \A l \in Lines : ls[l].used[i] \in Nat
           /\ Taken(ls, i) \in Int
  <1>1. \A l \in Lines : ls[l].used[i] \in Nat
    BY DEF Line, Stocks
  <1>2. \A l \in Lines : [k \in Lines |-> ls[k].used[i]][l] \in Int
    BY <1>1
  <1>3. QED
    BY <1>1, <1>2, LinesFinite, SumIsInteger DEF Taken

LEMMA ClaimTypes ==
    ASSUME NEW ls, \A l \in Lines : HasDish(ls[l]), NEW i \in Ingredients
    PROVE  /\ \A l \in Lines : Claim(ls[l], i) \in Nat
           /\ Claims(ls, i) \in Int
  <1>1. \A l \in Lines : Claim(ls[l], i) \in Nat
    BY ClaimType
  <1>2. \A l \in Lines : [k \in Lines |-> Claim(ls[k], i)][l] \in Int
    BY <1>1
  <1>3. QED
    BY <1>1, <1>2, LinesFinite, SumIsInteger DEF Claims

LEMMA TakenKept ==
    ASSUME NEW was, NEW now, NEW i, \A l \in Lines : now[l].used = was[l].used
    PROVE  Taken(now, i) = Taken(was, i)
  <1>1. \A l \in Lines : [k \in Lines |-> now[k].used[i]][l]
                            = [k \in Lines |-> was[k].used[i]][l]
    OBVIOUS
  <1>2. QED
    BY <1>1, LinesFinite, SumOfSame DEF Taken

LEMMA TakenAt ==
    ASSUME NEW was \in [Lines -> Line], NEW now \in [Lines -> Line],
           NEW i \in Ingredients, NEW e \in Lines,
           \A l \in Lines \ {e} : now[l].used = was[l].used
    PROVE  Taken(now, i) = Taken(was, i) + now[e].used[i] - was[e].used[i]
  <1> DEFINE f == [l \in Lines |-> was[l].used[i]]
             h == [l \in Lines |-> now[l].used[i]]
  <1>1. /\ \A l \in Lines : f[l] \in Int /\ h[l] \in Int
        /\ \A l \in Lines \ {e} : h[l] = f[l]
        /\ f[e] = was[e].used[i] /\ h[e] = now[e].used[i]
    BY UsedTypes
  <1>2. Taken(now, i) = SumFunctionOnSet(h, Lines) /\ Taken(was, i) = SumFunctionOnSet(f, Lines)
    BY DEF Taken
  <1> HIDE DEF f, h
  <1>3. SumFunctionOnSet(h, Lines) = SumFunctionOnSet(f, Lines) + h[e] - f[e]
    BY <1>1, LinesFinite, SumChangedAt
  <1>4. QED
    BY <1>1, <1>2, <1>3

LEMMA ClaimsFall ==
    ASSUME NEW was, \A l \in Lines : HasDish(was[l]),
           NEW now, \A l \in Lines : HasDish(now[l]),
           NEW i \in Ingredients,
           \A l \in Lines : Claim(now[l], i) <= Claim(was[l], i)
    PROVE  Claims(now, i) <= Claims(was, i)
  <1> DEFINE f == [l \in Lines |-> Claim(now[l], i)]
             h == [l \in Lines |-> Claim(was[l], i)]
  <1>1. \A l \in Lines : f[l] \in Int /\ h[l] \in Int /\ f[l] <= h[l]
    BY ClaimTypes
  <1>2. Claims(now, i) = SumFunctionOnSet(f, Lines) /\ Claims(was, i) = SumFunctionOnSet(h, Lines)
    BY DEF Claims
  <1> HIDE DEF f, h
  <1>3. SumFunctionOnSet(f, Lines) <= SumFunctionOnSet(h, Lines)
    BY <1>1, LinesFinite, SumOfPart
  <1>4. QED
    BY <1>2, <1>3

\* The claims change by no more than the claim of the one line that grows.
LEMMA ClaimsAt ==
    ASSUME NEW was, \A l \in Lines : HasDish(was[l]),
           NEW now, \A l \in Lines : HasDish(now[l]),
           NEW i \in Ingredients, NEW e \in Lines,
           \A l \in Lines \ {e} : Claim(now[l], i) <= Claim(was[l], i)
    PROVE  Claims(now, i) <= Claims(was, i) + Claim(now[e], i) - Claim(was[e], i)
  <1> DEFINE f == [l \in Lines |-> Claim(now[l], i)]
             g == [l \in Lines |-> IF l = e THEN Claim(was[e], i) ELSE Claim(now[l], i)]
             h == [l \in Lines |-> Claim(was[l], i)]
  <1>1. \A l \in Lines : Claim(now[l], i) \in Nat /\ Claim(was[l], i) \in Nat
    BY ClaimTypes
  <1>2. /\ \A l \in Lines : f[l] \in Int /\ g[l] \in Int /\ h[l] \in Int /\ g[l] <= h[l]
        /\ \A l \in Lines \ {e} : f[l] = g[l]
        /\ f[e] = Claim(now[e], i) /\ g[e] = Claim(was[e], i)
    BY <1>1
  <1>3. Claims(now, i) = SumFunctionOnSet(f, Lines) /\ Claims(was, i) = SumFunctionOnSet(h, Lines)
    BY DEF Claims
  <1> HIDE DEF f, g, h
  <1>4. SumFunctionOnSet(f, Lines) = SumFunctionOnSet(g, Lines) + f[e] - g[e]
    BY <1>2, LinesFinite, SumChangedAt
  <1>5. SumFunctionOnSet(g, Lines) <= SumFunctionOnSet(h, Lines)
    BY <1>2, LinesFinite, SumOfPart
  <1>6. SumFunctionOnSet(g, Lines) \in Int /\ SumFunctionOnSet(h, Lines) \in Int
    BY <1>2, LinesFinite, SumIsInteger
  <1>7. QED
    BY <1>1, <1>2, <1>3, <1>4, <1>5, <1>6

\* Each line claims no more than the shelf has.
LEMMA OneClaim ==
    ASSUME NEW ls, \A l \in Lines : HasDish(ls[l]), NEW i \in Ingredients, NEW e \in Lines
    PROVE  Claim(ls[e], i) <= Claims(ls, i)
  <1> DEFINE f == [l \in Lines |-> Claim(ls[l], i)]
             g == [l \in Lines |-> IF l = e THEN 0 ELSE Claim(ls[l], i)]
  <1>1. \A l \in Lines : Claim(ls[l], i) \in Nat
    BY ClaimTypes
  <1>2. /\ \A l \in Lines : f[l] \in Int /\ g[l] \in Int /\ 0 <= g[l]
        /\ \A l \in Lines \ {e} : f[l] = g[l]
        /\ f[e] = Claim(ls[e], i) /\ g[e] = 0
    BY <1>1
  <1>3. Claims(ls, i) = SumFunctionOnSet(f, Lines)
    BY DEF Claims
  <1> HIDE DEF f, g
  <1>4. SumFunctionOnSet(f, Lines) = SumFunctionOnSet(g, Lines) + f[e] - g[e]
    BY <1>2, LinesFinite, SumChangedAt
  <1>5. SumFunctionOnSet(g, {}) <= SumFunctionOnSet(g, Lines)
    BY <1>2, LinesFinite, SumOfPart
  <1>6. SumFunctionOnSet(g, {}) = 0 /\ SumFunctionOnSet(g, Lines) \in Int
    BY <1>2, LinesFinite, SumIsInteger, SumOfNone
  <1>7. QED
    BY <1>1, <1>2, <1>3, <1>4, <1>5, <1>6

\* A step that only changes lines calmly keeps the shelf covered.
LEMMA CalmStep ==
    ASSUME ShelfInv, \A l \in Lines : HasDish(lines[l]) /\ HasDish(lines'[l]),
           \A l \in Lines : Calm(lines[l], lines'[l]),
           UNCHANGED <<stock, received, shrunk>>, stock \in Stocks
    PROVE  ShelfInv'
  <1>1. \A l \in Lines : Untouched(lines'[l])
    BY DEF ShelfInv, Calm
  <1>2. \A i \in Ingredients : Taken(lines', i) = Taken(lines, i)
    BY TakenKept DEF Calm
  <1>3. ASSUME ~shrunk, OptionsNeverAdd
        PROVE  /\ \A l \in Lines : TakenWhole(lines'[l])
               /\ \A i \in Ingredients : Claims(lines', i) <= stock[i]
    <2>1. \A l \in Lines : /\ TakenWhole(lines'[l])
                           /\ \A i \in Ingredients : Claim(lines'[l], i) <= Claim(lines[l], i)
      BY <1>3 DEF ShelfInv, ClaimsFit, Calm
    <2>2. ASSUME NEW i \in Ingredients
          PROVE  Claims(lines', i) <= stock[i]
      <3>1. Claims(lines', i) <= Claims(lines, i)
        BY <2>1, ClaimsFall
      <3>2. Claims(lines, i) <= stock[i]
        BY <1>3 DEF ShelfInv, ClaimsFit
      <3>3. Claims(lines', i) \in Int /\ Claims(lines, i) \in Int
        BY ClaimTypes
      <3>4. stock[i] \in Int
        BY DEF Stocks
      <3>5. QED
        BY <3>1, <3>2, <3>3, <3>4
    <2>3. QED
      BY <2>1, <2>2
  <1>4. ClaimsFit'
    BY <1>3 DEF ClaimsFit, OptionsNeverAdd
  <1>5. QED
    BY <1>1, <1>2, <1>4 DEF ShelfInv

-----------------------------------------------------------------------------
(* The queue, the capacity check and the shelf *)

\* A line waiting for the kitchen is on an open order, so it is in the queue.
LEMMA WorkIsQueued ==
    ASSUME IInv, NEW l \in Lines, lines[l].status \in {"pending", "cooking"}
    PROVE  l \in QueuedLines
  <1>1. lines[l].order \in Orders
    BY DEF IInv, Belong
  <1>2. l \in LinesOf(lines, lines[l].order)
    BY DEF LinesOf
  <1>3. Active(lines[l].order)
    BY <1>1, <1>2 DEF IInv, ClosedOrdersHoldNoWork
  <1>4. QED
    BY <1>3 DEF QueuedLines

LEMMA LinesHaveDishes ==
    ASSUME TypeOK, Belong(lines)
    PROVE  \A l \in Lines : HasDish(lines[l])
  BY DEF TypeOK, Belong, HasDish

LEMMA QueueBases ==
    ASSUME IInv, NEW i \in Ingredients
    PROVE  /\ QueuedLines \in SUBSET Lines
           /\ \A l \in QueuedLines : /\ lines[l] \in Line /\ lines[l].dish \in Dishes
                                     /\ lines[l].status \in {"pending", "cooking"}
                                     /\ Base(lines[l], i) \in Nat
                                     /\ Required(lines[l], i) \in Nat
                                     /\ OptionsNeverAdd => Required(lines[l], i) <= Base(lines[l], i)
  <1>1. /\ QueuedLines \in SUBSET Lines
        /\ \A l \in QueuedLines : /\ lines[l] \in Line /\ lines[l].dish \in Dishes
                                  /\ lines[l].status \in {"pending", "cooking"}
    BY DEF QueuedLines, IInv, TypeOK, Belong
  <1>2. QED
    BY <1>1, RecipeTypes

\* The committed amount of the capacity check counts every claim.
LEMMA ClaimsAreCommitted ==
    ASSUME IInv, OptionsNeverAdd, NEW i \in Ingredients
    PROVE  /\ Claims(lines, i) <= Committed(i)
           /\ Committed(i) \in Int
  <1> DEFINE f == [l \in Lines |-> Claim(lines[l], i)]
             h == [l \in QueuedLines |->
                      BaseRecipe[MenuOf[lines[l].dish]][i] * lines[l].qty]
  <1>1. \A l \in Lines : HasDish(lines[l])
    BY LinesHaveDishes DEF IInv
  <1>2. \A l \in Lines : Claim(lines[l], i) \in Nat
    BY <1>1, ClaimTypes
  <1>3. \A l \in QueuedLines : h[l] = Base(lines[l], i)
    BY DEF Base
  <1>4. \A l \in QueuedLines : /\ h[l] \in Int
                               /\ Claim(lines[l], i) <= h[l]
    BY <1>3, QueueBases DEF Claim
  <1>5. \A l \in Lines \ QueuedLines : Claim(lines[l], i) <= 0
    BY WorkIsQueued DEF Claim
  <1>6. \A l \in Lines : f[l] = Claim(lines[l], i)
    OBVIOUS
  <1>7. Claims(lines, i) = SumFunctionOnSet(f, Lines) /\ Committed(i) = SumFunctionOnSet(h, QueuedLines)
    BY DEF Claims, Committed
  <1>8. QueuedLines \in SUBSET Lines /\ IsFiniteSet(QueuedLines)
    BY QueueBases, LinesFinite, FS_Subset
  <1> HIDE DEF f, h
  <1>9. SumFunctionOnSet(f, Lines) <= SumFunctionOnSet(h, QueuedLines)
    <2>1. /\ \A l \in Lines : f[l] \in Int
          /\ \A l \in QueuedLines : f[l] <= h[l]
          /\ \A l \in Lines \ QueuedLines : f[l] <= 0
      BY <1>2, <1>4, <1>5, <1>6, <1>8
    <2>2. QED
      BY <1>4, <1>8, <2>1, LinesFinite, SumOnPart
  <1>10. SumFunctionOnSet(h, QueuedLines) \in Int
    BY <1>4, <1>8, SumIsInteger
  <1>11. QED
    BY <1>7, <1>9, <1>10

\* What the queue is owed is no more than what the lines claim.
LEMMA OwedIsClaimed ==
    ASSUME IInv, OptionsNeverAdd, NEW i \in Ingredients
    PROVE  /\ Owed(i) <= Claims(lines, i)
           /\ Owed(i) \in Int
  <1> DEFINE f == [l \in QueuedLines |->
                      IF i \in Undeducted(lines[l]) THEN Required(lines[l], i) ELSE 0]
             h == [l \in Lines |-> Claim(lines[l], i)]
  <1>1. \A l \in Lines : HasDish(lines[l])
    BY LinesHaveDishes DEF IInv
  <1>2. \A l \in Lines : Claim(lines[l], i) \in Nat
    BY <1>1, ClaimTypes
  <1>3. \A l \in QueuedLines : f[l] \in Int /\ f[l] <= Claim(lines[l], i)
    BY <1>2, QueueBases DEF Claim, Undeducted
  <1>4. \A l \in Lines : h[l] = Claim(lines[l], i)
    OBVIOUS
  <1>5. Claims(lines, i) = SumFunctionOnSet(h, Lines) /\ Owed(i) = SumFunctionOnSet(f, QueuedLines)
    BY DEF Claims, Owed
  <1>6. QueuedLines \in SUBSET Lines /\ IsFiniteSet(QueuedLines)
    BY QueueBases, LinesFinite, FS_Subset
  <1> HIDE DEF f, h
  <1>7. SumFunctionOnSet(f, QueuedLines) <= SumFunctionOnSet(h, Lines)
    <2>1. /\ \A l \in Lines : h[l] \in Int
          /\ \A l \in QueuedLines : f[l] <= h[l]
          /\ \A l \in Lines \ QueuedLines : 0 <= h[l]
      BY <1>2, <1>3, <1>4, <1>6
    <2>2. QED
      BY <1>3, <1>6, <2>1, LinesFinite, SumOfPart
  <1>8. SumFunctionOnSet(f, QueuedLines) \in Int
    BY <1>3, <1>6, SumIsInteger
  <1>9. QED
    BY <1>5, <1>7, <1>8

\* What the capacity check lets through fits on top of every claim.
LEMMA CapacityFits ==
    ASSUME IInv, ShelfInv, ~shrunk, OptionsNeverAdd, NEW d \in Dishes,
           NEW qty \in Nat, HasCapacity(MenuOf[d], qty), NEW i \in Ingredients
    PROVE  /\ BaseRecipe[MenuOf[d]][i] * qty \in Nat
           /\ Claims(lines, i) + BaseRecipe[MenuOf[d]][i] * qty <= stock[i]
  <1> DEFINE b == BaseRecipe[MenuOf[d]][i]
  <1>1. b \in Nat /\ b * qty \in Nat
    OBVIOUS
  <1>2. Claims(lines, i) <= stock[i]
    BY DEF ShelfInv, ClaimsFit
  <1>3. Claims(lines, i) \in Int
    BY LinesHaveDishes, ClaimTypes DEF IInv
  <1>4. stock[i] \in Int
    BY DEF IInv, TypeOK, Stocks
  <1>5. CASE b = 0
    <2>1. b * qty = 0
      BY <1>5
    <2>2. QED
      BY <1>2, <1>3, <2>1
  <1>6. CASE b > 0
    <2>1. Committed(i) + b * qty <= stock[i]
      BY <1>6 DEF HasCapacity
    <2>2. Claims(lines, i) <= Committed(i) /\ Committed(i) \in Int
      BY ClaimsAreCommitted
    <2> HIDE DEF b
    <2>3. Claims(lines, i) + b * qty <= stock[i]
      BY <1>1, <1>3, <1>4, <2>1, <2>2
    <2>4. QED
      BY <1>1, <2>3 DEF b
  <1>7. QED
    BY <1>1, <1>5, <1>6

\* One line grows by what the capacity check let through.
LEMMA GrowStep ==
    ASSUME IInv, ShelfInv, \A l \in Lines : HasDish(lines'[l]),
           NEW e \in Lines, \A l \in Lines \ {e} : Calm(lines[l], lines'[l]),
           lines'[e].used = lines[e].used, lines[e].used = NoStock,
           lines'[e].status = "pending",
           NEW d \in Dishes, NEW qty \in Nat, HasCapacity(MenuOf[d], qty),
           \A i \in Ingredients :
              Claim(lines'[e], i) = Claim(lines[e], i) + BaseRecipe[MenuOf[d]][i] * qty,
           UNCHANGED <<stock, received, shrunk>>
    PROVE  ShelfInv'
  <1>1. \A l \in Lines : HasDish(lines[l])
    BY LinesHaveDishes DEF IInv
  <1>2. Untouched(lines'[e]) /\ TakenWhole(lines'[e])
    BY DEF Untouched, TakenWhole
  <1>3. \A l \in Lines : Untouched(lines'[l])
    BY <1>2 DEF ShelfInv, Calm
  <1>4. \A i \in Ingredients : Taken(lines', i) = Taken(lines, i)
    BY TakenKept DEF Calm
  <1>5. ASSUME ~shrunk, OptionsNeverAdd
        PROVE  /\ \A l \in Lines : TakenWhole(lines'[l])
               /\ \A i \in Ingredients : Claims(lines', i) <= stock[i]
    <2>1. \A l \in Lines \ {e} : /\ TakenWhole(lines'[l])
                                 /\ \A i \in Ingredients : Claim(lines'[l], i) <= Claim(lines[l], i)
      BY <1>5 DEF ShelfInv, ClaimsFit, Calm
    <2>2. ASSUME NEW i \in Ingredients
          PROVE  Claims(lines', i) <= stock[i]
      <3> DEFINE more == BaseRecipe[MenuOf[d]][i] * qty
      <3>1. Claims(lines', i) <= Claims(lines, i) + Claim(lines'[e], i) - Claim(lines[e], i)
        BY <1>1, <2>1, ClaimsAt
      <3>2. Claim(lines'[e], i) = Claim(lines[e], i) + more
        OBVIOUS
      <3>3. Claims(lines, i) + more <= stock[i] /\ more \in Nat
        BY <1>5, CapacityFits
      <3>4. Claims(lines', i) \in Int /\ Claims(lines, i) \in Int
        BY <1>1, ClaimTypes
      <3>5. Claim(lines[e], i) \in Nat
        BY <1>1, ClaimTypes
      <3>6. stock[i] \in Int
        BY DEF IInv, TypeOK, Stocks
      <3> HIDE DEF more
      <3>7. QED
        BY <3>1, <3>2, <3>3, <3>4, <3>5, <3>6
    <2>3. QED
      BY <1>2, <2>1, <2>2
  <1>6. ClaimsFit'
    BY <1>5 DEF ClaimsFit, OptionsNeverAdd
  <1>7. QED
    BY <1>3, <1>4, <1>6 DEF ShelfInv

\* One line is cooked, and takes what it still needs off the shelf.
LEMMA DeductStep ==
    ASSUME IInv, TypeOK', ShelfInv, \A l \in Lines : HasDish(lines'[l]),
           NEW e \in Lines, \A l \in Lines \ {e} : lines'[l] = lines[l],
           NEW ln \in Line, ln.dish \in Dishes, ln.used = lines[e].used,
           lines'[e].used = Deducted(ln, stock).used,
           lines'[e].dish = ln.dish, lines'[e].qty = ln.qty,
           lines'[e].status \in {"ready", "served"},
           stock' = ShelfAfter(ln, stock), UNCHANGED <<received, shrunk>>,
           (~shrunk /\ OptionsNeverAdd) => \A i \in Ingredients :
              /\ Claims(lines, i) - Claim(lines[e], i) + Removed(ln, stock)[i] <= stock[i]
              /\ i \in Undeducted(ln) => Required(ln, i) <= stock[i]
              /\ i \notin Undeducted(ln) => ln.used[i] >= Required(ln, i)
    PROVE  ShelfInv'
  <1>1. \A l \in Lines : HasDish(lines[l])
    BY LinesHaveDishes DEF IInv
  <1>2. \A l \in Lines : Untouched(lines'[l])
    BY DEF ShelfInv, Untouched
  <1>3. \A i \in Ingredients :
           /\ lines'[e].used[i] = lines[e].used[i] + Removed(ln, stock)[i]
           /\ stock'[i] = stock[i] - Removed(ln, stock)[i]
           /\ Removed(ln, stock)[i] \in Nat /\ stock[i] \in Nat
           /\ lines[e].used[i] \in Nat
    <2> TAKE i \in Ingredients
    <2>1. Removed(ln, stock) \in Stocks
      BY RemovedType DEF IInv, TypeOK
    <2>2. Removed(ln, stock)[i] \in Nat /\ stock[i] \in Nat
      BY <2>1 DEF IInv, TypeOK, Stocks
    <2>3. Deducted(ln, stock).used[i] = ln.used[i] + Removed(ln, stock)[i]
      BY DEF Deducted, Line
    <2>4. stock'[i] = stock[i] - Removed(ln, stock)[i]
      BY DEF ShelfAfter
    <2>5. lines[e].used[i] \in Nat
      BY UsedTypes DEF IInv, TypeOK
    <2>6. QED
      BY <2>2, <2>3, <2>4, <2>5
  <1>4. ASSUME NEW i \in Ingredients
        PROVE  received[i] = stock'[i] + Taken(lines', i)
    <2>1. Taken(lines', i) = Taken(lines, i) + lines'[e].used[i] - lines[e].used[i]
      <3>1. lines \in [Lines -> Line] /\ lines' \in [Lines -> Line]
        BY DEF IInv, TypeOK
      <3>2. \A l \in Lines \ {e} : lines'[l].used = lines[l].used
        OBVIOUS
      <3>3. QED
        BY <3>1, <3>2, TakenAt
    <2>2. received[i] = stock[i] + Taken(lines, i)
      BY DEF ShelfInv
    <2>3. Taken(lines, i) \in Int
      BY UsedTypes DEF IInv, TypeOK
    <2>4. QED
      BY <1>3, <2>1, <2>2, <2>3
  <1>5. ASSUME ~shrunk, OptionsNeverAdd
        PROVE  /\ \A l \in Lines : TakenWhole(lines'[l])
               /\ \A i \in Ingredients : Claims(lines', i) <= stock'[i]
    <2>1. \A l \in Lines \ {e} : /\ TakenWhole(lines'[l])
                                 /\ \A i \in Ingredients : Claim(lines'[l], i) <= Claim(lines[l], i)
      BY <1>1, <1>5, CalmWhenSame DEF ShelfInv, ClaimsFit, Calm
    <2>2. ASSUME NEW i \in Ingredients
          PROVE  Claims(lines', i) <= stock'[i]
      <3>1. Claims(lines', i) <= Claims(lines, i) + Claim(lines'[e], i) - Claim(lines[e], i)
        BY <1>1, <2>1, ClaimsAt
      <3>2. Claim(lines'[e], i) = 0
        BY DEF Claim
      <3>3. Claims(lines, i) - Claim(lines[e], i) + Removed(ln, stock)[i] <= stock[i]
        BY <1>5
      <3>4. Claims(lines', i) \in Int /\ Claims(lines, i) \in Int
        BY <1>1, ClaimTypes
      <3>5. Claim(lines[e], i) \in Nat
        BY <1>1, ClaimTypes
      <3>6. QED
        BY <1>3, <3>1, <3>2, <3>3, <3>4, <3>5
    <2>3. TakenWhole(lines'[e])
      <3> SUFFICES ASSUME NEW i \in Ingredients
                   PROVE  lines'[e].used[i] >= Required(lines'[e], i)
        BY DEF TakenWhole
      <3>1. Required(lines'[e], i) = Required(ln, i) /\ Required(ln, i) \in Nat
        BY RecipeTypes DEF Required
      <3>2. CASE i \in Undeducted(ln)
        <4>1. Removed(ln, stock)[i] = Least(stock[i], Required(ln, i))
          BY <3>2 DEF Removed
        <4>2. Required(ln, i) <= stock[i]
          BY <1>5, <3>2
        <4>3. Removed(ln, stock)[i] = Required(ln, i)
          BY <1>3, <3>1, <4>1, <4>2 DEF Least
        <4>4. QED
          BY <1>3, <3>1, <4>3
      <3>3. CASE i \notin Undeducted(ln)
        <4>1. lines[e].used[i] >= Required(ln, i)
          BY <1>5, <3>3
        <4>2. /\ lines'[e].used[i] = lines[e].used[i] + Removed(ln, stock)[i]
              /\ Removed(ln, stock)[i] \in Nat /\ lines[e].used[i] \in Nat
          BY <1>3
        <4>3. lines'[e].used[i] >= Required(ln, i)
          BY <3>1, <4>1, <4>2
        <4>4. QED
          BY <3>1, <4>3
      <3>4. QED
        BY <3>2, <3>3
    <2>4. QED
      BY <2>1, <2>2, <2>3
  <1>6. ClaimsFit'
    BY <1>5 DEF ClaimsFit, OptionsNeverAdd
  <1>7. QED
    BY <1>2, <1>4, <1>6 DEF ShelfInv

-----------------------------------------------------------------------------
(* One lemma per operation: the shelf stays accounted for and covered *)

LEMMA LinesHaveDishesNext ==
    ASSUME TypeOK', Belong(lines')
    PROVE  \A l \in Lines : HasDish(lines'[l])
  BY DEF TypeOK, Belong, HasDish

\* The lines a step leaves alone are calm.
LEMMA CalmElsewhere ==
    ASSUME IInv, NEW e \in Lines, \A l \in Lines \ {e} : lines'[l] = lines[l],
           Calm(lines[e], lines'[e])
    PROVE  \A l \in Lines : Calm(lines[l], lines'[l])
  BY LinesHaveDishes, CalmWhenSame DEF IInv

LEMMA CalmShelf ==
    ASSUME IInv, TypeOK', Belong(lines'), ShelfInv,
           \A l \in Lines : Calm(lines[l], lines'[l]),
           UNCHANGED <<stock, received, shrunk>>
    PROVE  ShelfInv'
  <1>1. \A l \in Lines : HasDish(lines[l]) /\ HasDish(lines'[l])
    BY LinesHaveDishes, LinesHaveDishesNext DEF IInv
  <1>2. stock \in Stocks
    BY DEF IInv, TypeOK
  <1>3. QED
    BY <1>1, <1>2, CalmStep

LEMMA LowerItemCalm ==
    ASSUME IInv, NEW l \in Lines, NEW d \in Dishes, NEW qty \in Quantities,
           LowerItem(l, d, qty)
    PROVE  \A k \in Lines : Calm(lines[k], lines'[k])
  <1>1. /\ lines[l] \in Line /\ lines[l].status = "pending"
        /\ lines[l].dish \in Dishes /\ HasDish(lines[l])
    BY EditableOrder DEF IInv, LowerItem, HasDish
  <1>2. /\ lines'[l] = [lines[l] EXCEPT !.dish = d, !.qty = qty]
        /\ \A k \in Lines \ {l} : lines'[k] = lines[k]
    BY DEF LowerItem, IInv, TypeOK
  <1>3. /\ MenuOf[d] = MenuOf[lines[l].dish] /\ qty <= lines[l].qty
        /\ qty \in Nat
    BY DEF LowerItem, Quantities
  <1>4. /\ lines'[l] \in Line /\ lines'[l].dish = d /\ lines'[l].qty = qty
        /\ lines'[l].status = lines[l].status /\ lines'[l].used = lines[l].used
    BY <1>1, <1>2, <1>3 DEF Line
  <1>5. Calm(lines[l], lines'[l])
    BY <1>1, <1>3, <1>4, CalmWhenLess
  <1>6. QED
    BY <1>2, <1>5, CalmElsewhere

LEMMA DeleteItemCalm ==
    ASSUME IInv, NEW l \in Lines, DeleteItem(l)
    PROVE  \A k \in Lines : Calm(lines[k], lines'[k])
  <1>1. /\ lines'[l] = [lines[l] EXCEPT !.status = "deleted"]
        /\ \A k \in Lines \ {l} : lines'[k] = lines[k]
    BY DEF DeleteItem, IInv, TypeOK
  <1>2. Calm(lines[l], lines'[l])
    BY <1>1, LinesHaveDishes, CalmWhenDropped DEF IInv
  <1>3. QED
    BY <1>1, <1>2, CalmElsewhere

LEMMA SendToKitchenCalm ==
    ASSUME IInv, NEW o \in Orders, SendToKitchen(o)
    PROVE  \A k \in Lines : Calm(lines[k], lines'[k])
  <1>1. PICK b \in 1..NumLines :
           lines' = [l \in Lines |->
                IF l \in LinesOf(lines, o) /\ lines[l].status = "pending"
                THEN [lines[l] EXCEPT !.status = "cooking", !.batch = b]
                ELSE lines[l]]
    BY DEF SendToKitchen
  <1> TAKE k \in Lines
  <1>2. lines[k] \in Line /\ HasDish(lines[k])
    BY LinesHaveDishes DEF IInv, TypeOK
  <1>3. CASE k \in LinesOf(lines, o) /\ lines[k].status = "pending"
    <2> DEFINE cooking == [lines[k] EXCEPT !.status = "cooking", !.batch = b]
    <2>1. lines'[k] = cooking
      BY <1>1, <1>3
    <2>2. /\ cooking \in Line /\ cooking.status = "cooking"
          /\ cooking.used = lines[k].used /\ cooking.dish = lines[k].dish
          /\ cooking.qty = lines[k].qty
      <3> DEFINE moved == [lines[k] EXCEPT !.status = "cooking"]
      <3>1. moved \in Line
        BY <1>2, LineWithStatus DEF LineStatus, LiveStatus
      <3>2. cooking = [moved EXCEPT !.batch = b] /\ b \in 0..NumLines
        BY <1>2
      <3>3. cooking \in Line
        <4> HIDE DEF moved, cooking
        <4>1. QED
          BY <3>1, <3>2, LineWithBatch
      <3>4. QED
        BY <1>2, <3>3 DEF Line
    <2> HIDE DEF cooking
    <2>3. QED
      BY <1>2, <1>3, <2>1, <2>2, CalmWhenCooking
  <1>4. CASE ~(k \in LinesOf(lines, o) /\ lines[k].status = "pending")
    BY <1>1, <1>2, <1>4, CalmWhenSame
  <1>5. QED
    BY <1>3, <1>4

LEMMA StartCookingCalm ==
    ASSUME IInv, NEW l \in Lines, StartCooking(l)
    PROVE  \A k \in Lines : Calm(lines[k], lines'[k])
  <1>1. /\ lines'[l] = [lines[l] EXCEPT !.status = "cooking"]
        /\ \A k \in Lines \ {l} : lines'[k] = lines[k]
    BY DEF StartCooking, IInv, TypeOK
  <1>2. lines[l] \in Line /\ HasDish(lines[l]) /\ lines[l].status \in {"pending", "cooking", "ready"}
    BY LinesHaveDishes DEF IInv, TypeOK, StartCooking, CanTransition
  <1>3. /\ lines'[l] \in Line /\ lines'[l].status = "cooking"
        /\ lines'[l].used = lines[l].used /\ lines'[l].dish = lines[l].dish
        /\ lines'[l].qty = lines[l].qty
    BY <1>1, <1>2 DEF Line, LineStatus, LiveStatus
  <1>4. Calm(lines[l], lines'[l])
    BY <1>2, <1>3, CalmWhenCooking
  <1>5. QED
    BY <1>1, <1>4, CalmElsewhere

\* The cancelled part of a split line takes no deduction with it.
LEMMA VoidItemCalm ==
    ASSUME IInv, ShelfInv, NEW l \in Lines, NEW count \in Quantities,
           NEW frontOfHouse \in BOOLEAN, VoidItem(l, count, frontOfHouse)
    PROVE  \A k \in Lines : Calm(lines[k], lines'[k])
  <1>1. /\ lines[l] \in Line /\ HasDish(lines[l]) /\ lines[l].dish \in Dishes
        /\ lines[l].status \in LiveStatus
    BY MovableLine, LinesHaveDishes DEF IInv, VoidItem
  <1>2. CASE lines' = [lines EXCEPT ![l].status = "cancelled"]
    <2>1. /\ lines'[l] = [lines[l] EXCEPT !.status = "cancelled"]
          /\ \A k \in Lines \ {l} : lines'[k] = lines[k]
      BY <1>2 DEF IInv, TypeOK
    <2>2. Calm(lines[l], lines'[l])
      BY <1>1, <2>1, CalmWhenDropped
    <2>3. QED
      BY <2>1, <2>2, CalmElsewhere
  <1>3. ASSUME count < lines[l].qty, NEW k \in Lines, IsNextLine(k),
               lines' = [lines EXCEPT
                  ![l].qty = @ - count,
                  ![k] = [lines[l] EXCEPT !.qty = count, !.used = NoStock,
                                          !.status = "cancelled"]]
        PROVE  \A j \in Lines : Calm(lines[j], lines'[j])
    <2> DEFINE kept == [lines[l] EXCEPT !.qty = lines[l].qty - count]
               clone == [lines[l] EXCEPT !.qty = count, !.used = NoStock,
                                         !.status = "cancelled"]
    <2>1. lines[k].status = "none" /\ k # l
      BY <1>1, <1>3 DEF IsNextLine, LiveStatus
    <2>2. /\ lines'[l] = kept /\ lines'[k] = clone
          /\ \A j \in Lines \ {l, k} : lines'[j] = lines[j]
      BY <1>3, <2>1 DEF IInv, TypeOK
    <2>3. /\ kept \in Line /\ kept.status = lines[l].status
          /\ kept.used = lines[l].used /\ kept.dish = lines[l].dish
          /\ kept.qty <= lines[l].qty
      <3>1. lines[l].qty \in Nat /\ count \in Nat /\ lines[l].qty - count \in Nat
        BY <1>1, <1>3 DEF Line, Quantities
      <3>2. kept \in Line /\ kept.qty = lines[l].qty - count
        BY <1>1, <3>1, LineWithQty
      <3>3. /\ kept.status = lines[l].status
            /\ kept.used = lines[l].used /\ kept.dish = lines[l].dish
        BY <1>1 DEF Line
      <3> HIDE DEF kept
      <3>4. kept.qty <= lines[l].qty
        BY <3>1, <3>2
      <3>5. QED
        BY <3>2, <3>3, <3>4
    <2>4. clone.used = NoStock /\ clone.status = "cancelled"
      BY <1>1 DEF Line
    <2> HIDE DEF kept, clone
    <2>5. Calm(lines[l], lines'[l])
      BY <1>1, <2>2, <2>3, CalmWhenLess DEF LiveStatus
    <2>6. Calm(lines[k], lines'[k])
      <3>1. lines[k].used = NoStock
        BY <2>1 DEF ShelfInv, Untouched
      <3>2. \A i \in Ingredients : Claim(clone, i) = 0 /\ Claim(lines[k], i) = 0
        BY <2>1, <2>4 DEF Claim
      <3>3. Untouched(clone) /\ TakenWhole(clone)
        BY <2>4 DEF Untouched, TakenWhole
      <3>4. QED
        BY <2>2, <2>4, <3>1, <3>2, <3>3 DEF Calm
    <2>7. \A j \in Lines \ {l, k} : Calm(lines[j], lines'[j])
      BY <2>2, LinesHaveDishes, CalmWhenSame DEF IInv
    <2>8. QED
      BY <2>5, <2>6, <2>7
  <1>4. QED
    BY <1>2, <1>3 DEF VoidItem

LEMMA CancelOrderCalm ==
    ASSUME IInv, NEW o \in Orders, NEW supervisor \in BOOLEAN,
           CancelOrder(o, supervisor)
    PROVE  \A k \in Lines : Calm(lines[k], lines'[k])
  <1> TAKE k \in Lines
  <1>1. HasDish(lines[k])
    BY LinesHaveDishes DEF IInv
  <1>2. \/ lines'[k] = [lines[k] EXCEPT !.status = "cancelled"]
        \/ lines'[k] = lines[k]
    BY DEF CancelOrder
  <1>3. QED
    BY <1>1, <1>2, CalmWhenDropped, CalmWhenSame

\* Units that land on a pending line, or on the next one, claim their base
\* recipe and no more.
LEMMA PlacedUnitsShelf ==
    ASSUME IInv, TypeOK', Belong(lines'), ShelfInv,
           NEW was, \A l \in Lines : /\ HasDish(was[l]) /\ Calm(lines[l], was[l])
                                     /\ lines[l].status = "none" => was[l] = lines[l],
           was = [l \in Lines |-> was[l]],
           NEW o \in Orders, NEW d \in Dishes, NEW qty \in Quantities,
           \A l \in MergeableLines(o, d) : was[l] = lines[l],
           HasCapacity(MenuOf[d], qty), PlacedUnits(was, lines', o, d, qty),
           UNCHANGED <<stock, received, shrunk>>
    PROVE  ShelfInv'
  <1>1. qty \in Nat /\ \A l \in Lines : HasDish(lines'[l])
    BY LinesHaveDishesNext DEF Quantities
  <1>2. ASSUME NEW e \in MergeableLines(o, d),
               lines' = [was EXCEPT ![e].qty = @ + qty]
        PROVE  ShelfInv'
    <2>1. /\ e \in Lines /\ lines[e].status = "pending" /\ lines[e].dish = d
          /\ lines[e] \in Line /\ was[e] = lines[e]
      BY DEF MergeableLines, LinesOf, IInv, TypeOK
    <2>2. /\ lines'[e] = [lines[e] EXCEPT !.qty = lines[e].qty + qty]
          /\ \A l \in Lines \ {e} : lines'[l] = was[l]
      BY <1>2, <2>1
    <2>3. /\ lines'[e].used = lines[e].used /\ lines'[e].status = "pending"
          /\ lines'[e].dish = d /\ lines'[e].qty = lines[e].qty + qty
          /\ lines[e].qty \in Nat
      BY <2>1, <2>2 DEF Line
    <2>4. lines[e].used = NoStock
      BY <2>1 DEF ShelfInv, Untouched
    <2>5. ASSUME NEW i \in Ingredients
          PROVE  Claim(lines'[e], i) = Claim(lines[e], i) + BaseRecipe[MenuOf[d]][i] * qty
      <3>1. /\ Claim(lines'[e], i) = BaseRecipe[MenuOf[d]][i] * (lines[e].qty + qty)
            /\ Claim(lines[e], i) = BaseRecipe[MenuOf[d]][i] * lines[e].qty
        BY <2>1, <2>3 DEF Claim, Base
      <3>2. BaseRecipe[MenuOf[d]][i] \in Nat
        OBVIOUS
      <3>3. QED
        BY <1>1, <2>3, <3>1, <3>2, ProductAdds
    <2>6. \A l \in Lines \ {e} : Calm(lines[l], lines'[l])
      BY <2>2
    <2>7. QED
      BY <1>1, <2>1, <2>3, <2>4, <2>5, <2>6, GrowStep
  <1>3. ASSUME NEW e \in Lines, IsNextLine(e),
               lines' = [was EXCEPT ![e] = NewLine(o, d, qty, "pending")]
        PROVE  ShelfInv'
    <2>1. lines[e].status = "none"
      BY <1>3 DEF IsNextLine
    <2>2. /\ lines'[e] = NewLine(o, d, qty, "pending")
          /\ \A l \in Lines \ {e} : lines'[l] = was[l]
      BY <1>3
    <2>3. /\ lines'[e].used = NoStock /\ lines'[e].status = "pending"
          /\ lines'[e].dish = d /\ lines'[e].qty = qty
      BY <2>2 DEF NewLine, NoLine
    <2>4. lines[e].used = NoStock
      BY <2>1 DEF ShelfInv, Untouched
    <2>5. ASSUME NEW i \in Ingredients
          PROVE  Claim(lines'[e], i) = Claim(lines[e], i) + BaseRecipe[MenuOf[d]][i] * qty
      <3>1. /\ Claim(lines'[e], i) = BaseRecipe[MenuOf[d]][i] * qty
            /\ Claim(lines[e], i) = 0
        BY <2>1, <2>3 DEF Claim, Base
      <3>2. BaseRecipe[MenuOf[d]][i] * qty \in Nat
        BY <1>1
      <3>3. QED
        BY <3>1, <3>2
    <2>6. \A l \in Lines \ {e} : Calm(lines[l], lines'[l])
      BY <2>2
    <2>7. QED
      BY <1>1, <2>3, <2>4, <2>5, <2>6, GrowStep
  <1>4. QED
    BY <1>2, <1>3 DEF PlacedUnits

LEMMA AddItemShelf ==
    ASSUME IInv, TypeOK', Belong(lines'), ShelfInv, NEW o \in Orders,
           NEW d \in Dishes, NEW qty \in Quantities, AddItem(o, d, qty)
    PROVE  ShelfInv'
  <1>1. /\ HasCapacity(MenuOf[d], qty) /\ PlacedUnits(lines, lines', o, d, qty)
        /\ UNCHANGED <<stock, received, shrunk>>
    BY DEF AddItem
  <1>2. \A l \in Lines : HasDish(lines[l]) /\ Calm(lines[l], lines[l])
    BY LinesHaveDishes, CalmWhenSame DEF IInv
  <1>3. lines = [l \in Lines |-> lines[l]]
    BY DEF IInv, TypeOK
  <1>4. QED
    BY <1>1, <1>2, <1>3, PlacedUnitsShelf

\* Added units that stay on their line claim as much as a new line would.
LEMMA RaisedInPlaceShelf ==
    ASSUME IInv, TypeOK', Belong(lines'), ShelfInv, NEW l \in Lines,
           HasDish(lines[l]), lines[l].status = "pending", lines[l].qty \in Nat,
           NEW d \in Dishes, MenuOf[d] = MenuOf[lines[l].dish],
           NEW by \in Nat, HasCapacity(MenuOf[d], by),
           \A k \in Lines \ {l} : lines'[k] = lines[k],
           lines'[l].used = lines[l].used, lines'[l].status = "pending",
           lines'[l].dish = d, lines'[l].qty = lines[l].qty + by,
           UNCHANGED <<stock, received, shrunk>>
    PROVE  ShelfInv'
  <1>1. lines[l].used = NoStock
    BY DEF ShelfInv, Untouched
  <1>2. ASSUME NEW i \in Ingredients
        PROVE  Claim(lines'[l], i) = Claim(lines[l], i) + BaseRecipe[MenuOf[d]][i] * by
    <2>1. /\ Claim(lines'[l], i) = BaseRecipe[MenuOf[d]][i] * (lines[l].qty + by)
          /\ Claim(lines[l], i) = BaseRecipe[MenuOf[d]][i] * lines[l].qty
      BY DEF Claim, Base
    <2>2. BaseRecipe[MenuOf[d]][i] \in Nat
      OBVIOUS
    <2>3. QED
      BY <2>1, <2>2, ProductAdds
  <1>3. \A k \in Lines \ {l} : Calm(lines[k], lines'[k])
    BY LinesHaveDishes, CalmWhenSame DEF IInv
  <1>4. \A k \in Lines : HasDish(lines'[k])
    BY LinesHaveDishesNext
  <1>5. \A i \in Ingredients :
           Claim(lines'[l], i) = Claim(lines[l], i) + BaseRecipe[MenuOf[d]][i] * by
    BY <1>2
  <1>6. lines'[l].used = lines[l].used /\ lines'[l].status = "pending"
    OBVIOUS
  <1>7. UNCHANGED <<stock, received, shrunk>> /\ HasCapacity(MenuOf[d], by)
    OBVIOUS
  <1>8. QED
    BY ONLY IInv, ShelfInv, by \in Nat, d \in Dishes, l \in Lines,
       <1>1, <1>3, <1>4, <1>5, <1>6, <1>7, GrowStep

\* The raised line takes its new options with the units it has; the added units
\* stay on it at its own price, or land as an add would.
LEMMA RaiseItemShelf ==
    ASSUME IInv, TypeOK', Belong(lines'), ShelfInv, NEW l \in Lines,
           NEW d \in Dishes, NEW qty \in Quantities, RaiseItem(l, d, qty)
    PROVE  ShelfInv'
  <1> DEFINE edited == [lines EXCEPT ![l].dish = d]
             by == qty - lines[l].qty
  <1>1. /\ lines[l] \in Line /\ lines[l].status = "pending"
        /\ lines[l].order \in Orders /\ lines[l].dish \in Dishes
        /\ HasDish(lines[l])
    BY EditableOrder DEF IInv, RaiseItem, HasDish
  <1>2. /\ MenuOf[d] = MenuOf[lines[l].dish] /\ by > 0
        /\ HasCapacity(MenuOf[d], by)
        /\ UNCHANGED <<stock, received, shrunk>>
    BY DEF RaiseItem
  <1>3. by \in Quantities /\ by \in Nat /\ lines[l].qty \in Nat /\ qty \in Nat
    <2>1. lines[l].qty \in Nat /\ qty \in Int /\ 1 <= qty /\ qty <= MaxQty
      BY <1>1 DEF Line, Quantities
    <2>2. QED
      BY <1>2, <2>1 DEF Quantities
  <1>4. /\ edited[l] = [lines[l] EXCEPT !.dish = d]
        /\ \A k \in Lines \ {l} : edited[k] = lines[k]
        /\ edited = [k \in Lines |-> edited[k]]
    BY DEF IInv, TypeOK
  <1>5. /\ edited[l] \in Line /\ edited[l].dish = d
        /\ edited[l].qty = lines[l].qty /\ edited[l].status = "pending"
        /\ edited[l].used = lines[l].used
    BY <1>1, <1>4 DEF Line
  <1> HIDE DEF edited, by
  <1>6. Calm(lines[l], edited[l])
    <2>1. edited[l].qty <= lines[l].qty
      BY <1>3, <1>5
    <2>2. edited[l].dish \in Dishes /\ MenuOf[edited[l].dish] = MenuOf[lines[l].dish]
      BY <1>2, <1>5
    <2>3. QED
      BY <1>1, <1>5, <2>1, <2>2, CalmWhenLess
  <1>7. \A k \in Lines : HasDish(edited[k]) /\ Calm(lines[k], edited[k])
    BY <1>4, <1>5, <1>6, LinesHaveDishes, CalmWhenSame DEF IInv, HasDish
  <1>8. CASE lines[l].unit = menus[MenuOf[d]].price
    <2>1. lines' = [edited EXCEPT ![l].qty = qty]
      BY <1>8 DEF RaiseItem, edited
    <2>2. /\ lines'[l] = [edited[l] EXCEPT !.qty = qty]
          /\ \A k \in Lines \ {l} : lines'[k] = lines[k]
      BY <1>4, <2>1
    <2>3. /\ lines'[l].used = lines[l].used /\ lines'[l].status = "pending"
          /\ lines'[l].dish = d /\ lines'[l].qty = qty
      BY <1>5, <2>2 DEF Line
    <2>4. qty = lines[l].qty + by
      BY <1>3 DEF by
    <2>5. QED
      BY <1>1, <1>2, <1>3, <2>2, <2>3, <2>4, RaisedInPlaceShelf
  <1>9. CASE lines[l].unit # menus[MenuOf[d]].price
    <2>1. PlacedUnits(edited, lines', lines[l].order, d, by)
      BY <1>9 DEF RaiseItem, edited, by
    <2>2. \A k \in MergeableLines(lines[l].order, d) : edited[k] = lines[k]
      BY <1>4, <1>9 DEF MergeableLines, LinesOf
    <2>3. \A k \in Lines : lines[k].status = "none" => edited[k] = lines[k]
      BY <1>1, <1>4
    <2>4. QED
      BY <1>1, <1>2, <1>3, <1>4, <1>7, <2>1, <2>2, <2>3, PlacedUnitsShelf
  <1>10. QED
    BY <1>8, <1>9

LEMMA AddServedItemShelf ==
    ASSUME IInv, TypeOK', Belong(lines'), ShelfInv, NEW o \in Orders,
           NEW d \in Dishes, NEW qty \in Quantities, AddServedItem(o, d, qty)
    PROVE  ShelfInv'
  <1> DEFINE ln == NewLine(o, d, qty, "served")
  <1>1. PICK e \in Lines :
           /\ lines[e].status = "none"
           /\ lines' = [lines EXCEPT ![e] = Deducted(ln, stock)]
           /\ stock' = ShelfAfter(ln, stock)
    BY DEF AddServedItem, IsNextLine
  <1>2. HasCapacity(MenuOf[d], qty) /\ UNCHANGED <<received, shrunk>> /\ qty \in Nat
    BY DEF AddServedItem, Quantities
  <1>3. /\ ln \in Line /\ ln.dish = d /\ ln.status = "served" /\ ln.qty = qty
    BY NewLineType DEF IInv, TypeOK, Quantities, LiveStatus
  <1>4. ln.used = NoStock
    BY DEF NewLine, NoLine
  <1>5. lines[e].used = NoStock /\ \A i \in Ingredients : Claim(lines[e], i) = 0
    BY <1>1 DEF ShelfInv, Untouched, Claim
  <1> HIDE DEF ln
  <1>6. /\ lines'[e] = Deducted(ln, stock)
        /\ \A l \in Lines \ {e} : lines'[l] = lines[l]
    BY <1>1 DEF IInv, TypeOK
  <1>7. /\ lines'[e].dish = ln.dish /\ lines'[e].qty = ln.qty
        /\ lines'[e].status \in {"ready", "served"}
    BY <1>3, <1>6, DeductedType DEF IInv, TypeOK
  <1>8. ASSUME ~shrunk, OptionsNeverAdd, NEW i \in Ingredients
        PROVE  /\ Claims(lines, i) - Claim(lines[e], i) + Removed(ln, stock)[i] <= stock[i]
               /\ i \in Undeducted(ln) => Required(ln, i) <= stock[i]
               /\ i \notin Undeducted(ln) => ln.used[i] >= Required(ln, i)
    <2>1. /\ Base(ln, i) \in Nat /\ Claims(lines, i) + Base(ln, i) <= stock[i]
      BY <1>2, <1>3, <1>8, CapacityFits DEF Base
    <2>2. Required(ln, i) \in Nat /\ Required(ln, i) <= Base(ln, i) /\ ln.used[i] = 0
      BY <1>3, <1>4, <1>8, RecipeTypes DEF NoStock
    <2>3. stock[i] \in Nat
      BY DEF IInv, TypeOK, Stocks
    <2>4. Claims(lines, i) \in Int /\ 0 <= Claims(lines, i)
      <3>1. \A l \in Lines : HasDish(lines[l])
        BY LinesHaveDishes DEF IInv
      <3>2. Claim(lines[e], i) <= Claims(lines, i) /\ Claims(lines, i) \in Int
        BY <3>1, OneClaim, ClaimTypes
      <3>3. QED
        BY <1>5, <3>2
    <2>5. Required(ln, i) <= stock[i]
      BY <2>1, <2>2, <2>3, <2>4
    <2>6. Removed(ln, stock)[i] = Required(ln, i)
      BY <2>2, <2>3, <2>5 DEF Removed, Undeducted, Least
    <2>7. i \notin Undeducted(ln) => ln.used[i] >= Required(ln, i)
      BY <2>2 DEF Undeducted
    <2>8. QED
      BY <1>5, <2>1, <2>2, <2>3, <2>4, <2>5, <2>6, <2>7
  <1>9. \A l \in Lines : HasDish(lines'[l])
    BY LinesHaveDishesNext
  <1>10. stock' = ShelfAfter(ln, stock) /\ lines'[e].used = Deducted(ln, stock).used
    BY <1>1, <1>6
  <1>11. ln.dish \in Dishes /\ ln.used = lines[e].used
    BY <1>3, <1>4, <1>5
  <1>12. QED
    BY <1>2, <1>3, <1>6, <1>7, <1>8, <1>9, <1>10, <1>11, DeductStep

\* A line comes from the kitchen, or is served after it was called ready.
LEMMA FinishItemShelf ==
    ASSUME IInv, TypeOK', Belong(lines'), ShelfInv, NEW l \in Lines,
           NEW status \in {"ready", "served"}, FinishItem(l, status)
    PROVE  ShelfInv'
  <1>1. /\ lines[l] \in Line /\ lines[l].dish \in Dishes
        /\ lines[l].status \in {"cooking", "ready"}
    <2>1. CanTransition(lines[l].status, status)
      BY DEF FinishItem
    <2>2. lines[l] \in Line /\ lines[l].dish \in Dishes
      BY <2>1, MovableLine DEF IInv
    <2>3. lines[l].status \in {"cooking", "ready"}
      BY <2>1 DEF CanTransition
    <2>4. QED
      BY <2>2, <2>3
  <1>2. /\ lines'[l] = [Deducted(lines[l], stock) EXCEPT !.status = status]
        /\ \A k \in Lines \ {l} : lines'[k] = lines[k]
        /\ stock' = ShelfAfter(lines[l], stock)
        /\ UNCHANGED <<received, shrunk>>
    BY DEF FinishItem, IInv, TypeOK
  <1>3. /\ lines'[l].used = Deducted(lines[l], stock).used
        /\ lines'[l].dish = lines[l].dish /\ lines'[l].qty = lines[l].qty
        /\ lines'[l].status \in {"ready", "served"}
    <2> DEFINE cooked == Deducted(lines[l], stock)
    <2>1. cooked \in Line /\ cooked.dish = lines[l].dish /\ cooked.qty = lines[l].qty
      BY <1>1, DeductedType DEF IInv, TypeOK
    <2>2. lines'[l] = [cooked EXCEPT !.status = status]
      BY <1>2
    <2> HIDE DEF cooked
    <2>3. QED
      BY <2>1, <2>2 DEF Line, cooked
  <1>4. ASSUME ~shrunk, OptionsNeverAdd, NEW i \in Ingredients
        PROVE  /\ Claims(lines, i) - Claim(lines[l], i) + Removed(lines[l], stock)[i] <= stock[i]
               /\ i \in Undeducted(lines[l]) => Required(lines[l], i) <= stock[i]
               /\ i \notin Undeducted(lines[l]) => lines[l].used[i] >= Required(lines[l], i)
    <2>1. \A k \in Lines : HasDish(lines[k])
      BY LinesHaveDishes DEF IInv
    <2>2. /\ Claims(lines, i) <= stock[i] /\ TakenWhole(lines[l])
      BY <1>4 DEF ShelfInv, ClaimsFit
    <2>3. /\ Claims(lines, i) \in Int /\ Claim(lines[l], i) \in Nat
          /\ Claim(lines[l], i) <= Claims(lines, i)
      BY <2>1, OneClaim, ClaimTypes
    <2>4. Required(lines[l], i) \in Nat /\ lines[l].used[i] \in Nat
      BY <1>1, RecipeTypes
    <2>5. stock[i] \in Nat
      BY DEF IInv, TypeOK, Stocks
    <2>6. i \in Undeducted(lines[l]) => Claim(lines[l], i) = Required(lines[l], i)
      <3> SUFFICES ASSUME i \in Undeducted(lines[l])
                   PROVE  Claim(lines[l], i) = Required(lines[l], i)
        OBVIOUS
      <3>1. Required(lines[l], i) > 0 /\ lines[l].used[i] = 0
        BY DEF Undeducted
      <3>2. lines[l].status = "cooking"
        BY <1>1, <2>2, <2>4, <3>1 DEF TakenWhole
      <3>3. QED
        BY <3>1, <3>2 DEF Claim
    <2>7. Removed(lines[l], stock)[i] \in Nat /\ Removed(lines[l], stock)[i] <= Claim(lines[l], i)
      <3>1. CASE i \in Undeducted(lines[l])
        BY <2>3, <2>4, <2>5, <2>6, <3>1 DEF Removed, Least
      <3>2. CASE i \notin Undeducted(lines[l])
        BY <2>3, <3>2 DEF Removed
      <3>3. QED
        BY <3>1, <3>2
    <2>8. i \notin Undeducted(lines[l]) => lines[l].used[i] >= Required(lines[l], i)
      BY <1>1, <2>2, <2>4 DEF Undeducted, TakenWhole
    <2>9. Claims(lines, i) - Claim(lines[l], i) + Removed(lines[l], stock)[i] <= stock[i]
      BY <2>2, <2>3, <2>5, <2>7
    <2>10. i \in Undeducted(lines[l]) => Required(lines[l], i) <= stock[i]
      BY <2>2, <2>3, <2>4, <2>5, <2>6
    <2>11. QED
      BY <2>8, <2>9, <2>10
  <1>5. \A k \in Lines : HasDish(lines'[k])
    BY LinesHaveDishesNext
  <1>6. QED
    BY <1>1, <1>2, <1>3, <1>4, <1>5, DeductStep
-----------------------------------------------------------------------------
(* The payment: lines the shelf could not cover take their turn once more *)

\* The lines when the turn of line l comes: those before it have had theirs.
AtTurn(was, now, l) == [x \in Lines |-> IF x < l THEN now[x] ELSE was[x]]

\* Each line of retry takes from the shelf what the lines before it left.
HadTurns(retry, before, now) ==
    /\ retry \in SUBSET Lines
    /\ before \in [retry -> Stocks]
    /\ now \in [Lines -> Line]
    /\ \A l \in retry : /\ lines[l].dish \in Dishes
                        /\ now[l].used = Deducted(lines[l], before[l]).used
    /\ \A l \in Lines \ retry : now[l].used = lines[l].used

LEMMA OneTurn ==
    ASSUME TypeOK, NEW retry, NEW before, NEW now, HadTurns(retry, before, now),
           NEW l \in retry, NEW i \in Ingredients
    PROVE  /\ now[l].used[i] = lines[l].used[i] + Removed(lines[l], before[l])[i]
           /\ ShelfAfter(lines[l], before[l])[i] = before[l][i] - Removed(lines[l], before[l])[i]
           /\ Removed(lines[l], before[l])[i] \in Nat /\ before[l][i] \in Nat
           /\ lines[l].used[i] \in Nat
  <1>1. /\ l \in Lines /\ lines[l] \in Line /\ lines[l].dish \in Dishes
        /\ before[l] \in Stocks
        /\ now[l].used = Deducted(lines[l], before[l]).used
    BY DEF HadTurns, TypeOK
  <1>2. Removed(lines[l], before[l]) \in Stocks
    BY <1>1, RemovedType
  <1>3. Removed(lines[l], before[l])[i] \in Nat /\ before[l][i] \in Nat
    BY <1>1, <1>2 DEF Stocks
  <1>4. lines[l].used[i] \in Nat
    BY <1>1 DEF Line, Stocks
  <1>5. Deducted(lines[l], before[l]).used[i] = lines[l].used[i] + Removed(lines[l], before[l])[i]
    BY <1>1 DEF Deducted, Line
  <1>6. ShelfAfter(lines[l], before[l])[i] = before[l][i] - Removed(lines[l], before[l])[i]
    BY DEF ShelfAfter
  <1>7. QED
    BY <1>1, <1>3, <1>4, <1>5, <1>6

LEMMA AtTurnType ==
    ASSUME TypeOK, NEW now \in [Lines -> Line], NEW l \in Lines, NEW i \in Ingredients
    PROVE  /\ AtTurn(lines, now, l) \in [Lines -> Line]
           /\ Taken(AtTurn(lines, now, l), i) \in Int
  <1>1. AtTurn(lines, now, l) \in [Lines -> Line]
    BY DEF AtTurn, TypeOK
  <1>2. QED
    BY <1>1, UsedTypes

\* Whenever a line has its turn, shelf and lines together hold what they held
\* at first.
LEMMA TurnsAccount ==
    ASSUME TypeOK, NEW retry, NEW before, NEW now, HadTurns(retry, before, now),
           NEW after, FinalisedInOrder(retry, before, after),
           NEW i \in Ingredients, NEW l \in retry
    PROVE  before[l][i] + Taken(AtTurn(lines, now, l), i) = stock[i] + Taken(lines, i)
  <1> DEFINE Balanced(k) ==
                before[k][i] + Taken(AtTurn(lines, now, k), i) = stock[i] + Taken(lines, i)
             B == {k \in retry : ~Balanced(k)}
  <1>1. retry \in SUBSET Lines /\ now \in [Lines -> Line] /\ lines \in [Lines -> Line]
        /\ stock \in Stocks
    BY DEF HadTurns, TypeOK
  <1>2. ASSUME NEW k \in retry, \A j \in retry : k <= j
        PROVE  Balanced(k)
    <2>1. before[k] = stock
      BY <1>2 DEF FinalisedInOrder
    <2>2. \A x \in Lines : AtTurn(lines, now, k)[x].used = lines[x].used
      <3> TAKE x \in Lines
      <3>1. x < k => x \notin retry
        BY <1>1, <1>2 DEF Lines
      <3>2. x \notin retry => now[x].used = lines[x].used
        BY DEF HadTurns
      <3>3. QED
        BY <3>1, <3>2 DEF AtTurn
    <2>3. Taken(AtTurn(lines, now, k), i) = Taken(lines, i)
      BY <2>2, TakenKept
    <2>4. QED
      BY <2>1, <2>3
  <1>3. ASSUME NEW k \in retry, NEW j \in retry, j < k, Balanced(j),
               \A x \in retry : x <= j \/ k <= x,
               before[k] = ShelfAfter(lines[j], before[j])
        PROVE  Balanced(k)
    <2>1. \A x \in Lines \ {j} :
             AtTurn(lines, now, k)[x].used = AtTurn(lines, now, j)[x].used
      <3> TAKE x \in Lines \ {j}
      <3>1. (x < k /\ ~(x < j)) => x \notin retry
        BY <1>1, <1>3 DEF Lines
      <3>2. x < j => x < k
        BY <1>1, <1>3 DEF Lines
      <3>3. x \notin retry => now[x].used = lines[x].used
        BY DEF HadTurns
      <3>4. QED
        BY <3>1, <3>2, <3>3 DEF AtTurn
    <2>2. AtTurn(lines, now, k)[j].used = now[j].used /\ AtTurn(lines, now, j)[j].used = lines[j].used
      <3>1. j \in Lines /\ ~(j < j)
        BY <1>1 DEF Lines
      <3>2. QED
        BY <1>3, <3>1 DEF AtTurn
    <2>3. Taken(AtTurn(lines, now, k), i)
             = Taken(AtTurn(lines, now, j), i) + now[j].used[i] - lines[j].used[i]
      <3>1. AtTurn(lines, now, k) \in [Lines -> Line] /\ AtTurn(lines, now, j) \in [Lines -> Line]
        BY <1>1, AtTurnType
      <3>2. Taken(AtTurn(lines, now, k), i)
             = Taken(AtTurn(lines, now, j), i) + AtTurn(lines, now, k)[j].used[i]
                                               - AtTurn(lines, now, j)[j].used[i]
        BY <1>1, <2>1, <3>1, TakenAt
      <3>3. QED
        BY <2>2, <3>2
    <2>4. /\ now[j].used[i] = lines[j].used[i] + Removed(lines[j], before[j])[i]
          /\ before[k][i] = before[j][i] - Removed(lines[j], before[j])[i]
          /\ Removed(lines[j], before[j])[i] \in Nat /\ before[j][i] \in Nat
          /\ lines[j].used[i] \in Nat
      BY <1>3, OneTurn
    <2>5. Taken(AtTurn(lines, now, j), i) \in Int
      BY <1>1, AtTurnType
    <2>6. before[k][i] + Taken(AtTurn(lines, now, k), i)
             = before[j][i] + Taken(AtTurn(lines, now, j), i)
      BY <2>3, <2>4, <2>5
    <2>7. QED
      BY <1>3, <2>6
  <1>4. ASSUME B # {}
        PROVE  FALSE
    <2>1. B \in SUBSET Nat
      <3>1. B \in SUBSET retry /\ Lines \in SUBSET Nat
        BY DEF Lines
      <3> HIDE DEF B
      <3>2. QED
        BY <1>1, <3>1
    <2> HIDE DEF B
    <2>2. PICK k \in B : \A x \in B : k <= x
      BY <1>4, <2>1, SmallestNumber
    <2> HIDE DEF Balanced
    <2>3. k \in retry /\ ~Balanced(k)
      BY <2>2 DEF B
    <2>4. PICK j \in retry : /\ j < k
                             /\ \A x \in retry : x <= j \/ k <= x
                             /\ before[k] = ShelfAfter(lines[j], before[j])
      BY <1>2, <2>3 DEF FinalisedInOrder
    <2>5. j \notin B
      <3>1. j \in Nat /\ k \in Nat
        BY <1>1, <2>3, <2>4 DEF Lines
      <3>2. QED
        BY <2>2, <2>4, <3>1
    <2>6. Balanced(j)
      BY <2>4, <2>5 DEF B
    <2>7. QED
      BY <1>3, <2>3, <2>4, <2>6
  <1>5. QED
    BY <1>4

LEMMA TurnsAccounted ==
    ASSUME TypeOK, NEW retry, NEW before, NEW now, HadTurns(retry, before, now),
           NEW after, FinalisedInOrder(retry, before, after), NEW i \in Ingredients
    PROVE  after[i] + Taken(now, i) = stock[i] + Taken(lines, i)
  <1>1. retry \in SUBSET Lines /\ now \in [Lines -> Line] /\ lines \in [Lines -> Line]
    BY DEF HadTurns, TypeOK
  <1>2. ASSUME retry = {}, after = stock
        PROVE  after[i] + Taken(now, i) = stock[i] + Taken(lines, i)
    <2>1. \A x \in Lines : now[x].used = lines[x].used
      BY <1>2 DEF HadTurns
    <2>2. QED
      BY <1>2, <2>1, TakenKept
  <1>3. ASSUME NEW l \in retry, \A k \in retry : k <= l,
               after = ShelfAfter(lines[l], before[l])
        PROVE  after[i] + Taken(now, i) = stock[i] + Taken(lines, i)
    <2>1. before[l][i] + Taken(AtTurn(lines, now, l), i) = stock[i] + Taken(lines, i)
      BY TurnsAccount
    <2>2. \A x \in Lines \ {l} : now[x].used = AtTurn(lines, now, l)[x].used
      <3> TAKE x \in Lines \ {l}
      <3>1. x < l \/ x \notin retry
        BY <1>1, <1>3 DEF Lines
      <3>2. x \notin retry => now[x].used = lines[x].used
        BY DEF HadTurns
      <3>3. QED
        BY <3>1, <3>2 DEF AtTurn
    <2>3. AtTurn(lines, now, l)[l].used = lines[l].used
      <3>1. l \in Lines /\ ~(l < l)
        BY <1>1 DEF Lines
      <3>2. QED
        BY <3>1 DEF AtTurn
    <2>4. Taken(now, i) = Taken(AtTurn(lines, now, l), i) + now[l].used[i] - lines[l].used[i]
      <3> DEFINE was == AtTurn(lines, now, l)
      <3>1. was \in [Lines -> Line] /\ l \in Lines /\ now \in [Lines -> Line]
        BY <1>1, AtTurnType
      <3>2. \A x \in Lines \ {l} : now[x].used = was[x].used
        BY <2>2
      <3> HIDE DEF was
      <3>3. Taken(now, i) = Taken(was, i) + now[l].used[i] - was[l].used[i]
        BY ONLY i \in Ingredients, <3>1, <3>2, TakenAt
      <3>4. QED
        BY <2>3, <3>3 DEF was
    <2>5. /\ now[l].used[i] = lines[l].used[i] + Removed(lines[l], before[l])[i]
          /\ after[i] = before[l][i] - Removed(lines[l], before[l])[i]
          /\ Removed(lines[l], before[l])[i] \in Nat /\ before[l][i] \in Nat
          /\ lines[l].used[i] \in Nat
      BY <1>3, OneTurn
    <2>6. Taken(AtTurn(lines, now, l), i) \in Int
      BY <1>1, AtTurnType
    <2>7. after[i] + Taken(now, i) = before[l][i] + Taken(AtTurn(lines, now, l), i)
      BY <2>4, <2>5, <2>6
    <2>8. QED
      BY <2>1, <2>7
  <1>4. QED
    BY <1>2, <1>3 DEF FinalisedInOrder

\* A line that is served with the order keeps what was taken for it.
LEMMA CalmWhenServed ==
    ASSUME NEW was, HasDish(was), was.status = "ready", NEW now,
           now = [was EXCEPT !.status = "served"]
    PROVE  Calm(was, now)
  <1>1. /\ now.status = "served" /\ now.used = was.used /\ now.dish = was.dish
        /\ now.qty = was.qty
    BY DEF HasDish, Line
  <1>2. \A i \in Ingredients : Claim(now, i) <= Claim(was, i)
    BY <1>1 DEF Claim
  <1>3. Untouched(now)
    BY <1>1 DEF Untouched
  <1>4. TakenWhole(was) => TakenWhole(now)
    BY <1>1 DEF TakenWhole, Required
  <1>5. QED
    BY <1>1, <1>2, <1>3, <1>4 DEF Calm

\* Where no dish was left half taken there is nothing to try again.
LEMMA NothingToRetry ==
    ASSUME IInv, ShelfInv, ~shrunk, OptionsNeverAdd, NEW o \in Orders
    PROVE  UnsettledLines(o) = {}
  <1> SUFFICES ASSUME NEW l \in UnsettledLines(o) PROVE FALSE
    OBVIOUS
  <1>1. /\ l \in Lines /\ lines[l] \in Line /\ lines[l].dish \in Dishes
        /\ lines[l].status = "ready"
    BY DEF UnsettledLines, LinesOf, IInv, TypeOK, Belong
  <1>2. PICK i \in Ingredients : Required(lines[l], i) > 0 /\ lines[l].used[i] = 0
    BY DEF UnsettledLines, Undeducted
  <1>3. lines[l].used[i] >= Required(lines[l], i)
    BY <1>1 DEF ShelfInv, ClaimsFit, TakenWhole
  <1>4. Required(lines[l], i) \in Nat
    BY <1>1, RecipeTypes
  <1>5. QED
    BY <1>2, <1>3, <1>4

LEMMA PayOrderShelf ==
    ASSUME IInv, TypeOK', Belong(lines'), ShelfInv, NEW o \in Orders, PayOrder(o)
    PROVE  ShelfInv'
  <1> DEFINE retry == UnsettledLines(o)
  <1>1. PICK before \in [retry -> Stocks] :
           /\ FinalisedInOrder(retry, before, stock')
           /\ lines' = [l \in Lines |->
                IF l \in retry
                THEN [Deducted(lines[l], before[l]) EXCEPT !.status = "served"]
                ELSE IF l \in LinesOf(lines, o) /\ lines[l].status = "ready"
                THEN [lines[l] EXCEPT !.status = "served"] ELSE lines[l]]
    BY DEF PayOrder
  <1>2. UNCHANGED <<received, shrunk>>
    BY DEF PayOrder
  <1>3. \A l \in retry : /\ l \in Lines /\ lines[l] \in Line
                         /\ lines[l].status = "ready" /\ lines[l].dish \in Dishes
    BY DEF UnsettledLines, LinesOf, IInv, TypeOK, Belong
  <1>4. (~shrunk /\ OptionsNeverAdd) => retry = {}
    BY NothingToRetry
  <1> HIDE DEF retry
  <1>5. \A l \in retry : /\ lines'[l].used = Deducted(lines[l], before[l]).used
                         /\ lines'[l].status = "served"
    <2> TAKE l \in retry
    <2> DEFINE cooked == Deducted(lines[l], before[l])
    <2>1. cooked \in Line
      BY <1>1, <1>3, DeductedType
    <2>2. lines'[l] = [cooked EXCEPT !.status = "served"]
      BY <1>1, <1>3
    <2> HIDE DEF cooked
    <2>3. QED
      BY <2>1, <2>2 DEF Line, cooked
  <1>6. \A l \in Lines \ retry : Calm(lines[l], lines'[l])
    <2> TAKE l \in Lines \ retry
    <2>1. HasDish(lines[l])
      BY LinesHaveDishes DEF IInv
    <2>2. \/ lines[l].status = "ready" /\ lines'[l] = [lines[l] EXCEPT !.status = "served"]
          \/ lines'[l] = lines[l]
      BY <1>1
    <2>3. QED
      BY <2>1, <2>2, CalmWhenServed, CalmWhenSame
  <1>7. \A l \in Lines : Untouched(lines'[l])
    <2> TAKE l \in Lines
    <2>1. l \in retry => Untouched(lines'[l])
      BY <1>5 DEF Untouched
    <2>2. l \notin retry => Untouched(lines'[l])
      BY <1>6 DEF ShelfInv, Calm
    <2>3. QED
      BY <2>1, <2>2
  <1>8. ASSUME NEW i \in Ingredients
        PROVE  received[i] = stock'[i] + Taken(lines', i)
    <2>1. HadTurns(retry, before, lines')
      <3>1. \A l \in Lines \ retry : lines'[l].used = lines[l].used
        BY <1>6 DEF Calm
      <3>2. lines' \in [Lines -> Line] /\ retry \in SUBSET Lines
        BY <1>3 DEF TypeOK
      <3>3. QED
        BY <1>1, <1>3, <1>5, <3>1, <3>2 DEF HadTurns
    <2>2. stock'[i] + Taken(lines', i) = stock[i] + Taken(lines, i)
      BY <1>1, <2>1, TurnsAccounted DEF IInv
    <2>3. QED
      BY <2>2 DEF ShelfInv
  <1>9. ASSUME ~shrunk, OptionsNeverAdd
        PROVE  ShelfInv'
    <2>1. retry = {}
      BY <1>4, <1>9
    <2>2. \A l \in Lines : Calm(lines[l], lines'[l])
      BY <1>6, <2>1
    <2>3. UNCHANGED <<stock, received, shrunk>>
      BY <1>1, <1>2, <2>1 DEF FinalisedInOrder
    <2>4. QED
      BY <2>2, <2>3, CalmShelf
  <1>10. ASSUME ~(~shrunk /\ OptionsNeverAdd)
         PROVE  ShelfInv'
    <2>1. ClaimsFit'
      BY <1>2, <1>10 DEF ClaimsFit, OptionsNeverAdd
    <2>2. QED
      BY <1>2, <1>7, <1>8, <2>1 DEF ShelfInv
  <1>11. QED
    BY <1>9, <1>10

\* A count by hand moves the shelf and the record of it alike; lowering it ends
\* the promise.
LEMMA AdjustStockShelf ==
    ASSUME IInv, TypeOK', ShelfInv, NEW j \in Ingredients, NEW level \in 0..MaxStock,
           AdjustStock(j, level)
    PROVE  ShelfInv'
  <1>1. /\ stock' = [stock EXCEPT ![j] = level]
        /\ received' = [received EXCEPT ![j] = received[j] + level - stock[j]]
        /\ shrunk' = (shrunk \/ level < stock[j])
        /\ lines' = lines
    BY DEF AdjustStock
  <1>2. /\ \A i \in Ingredients : stock[i] \in Nat /\ received[i] \in Int
        /\ level \in Nat
    BY DEF IInv, TypeOK, Stocks
  <1>3. /\ stock'[j] = level /\ received'[j] = received[j] + level - stock[j]
        /\ \A i \in Ingredients \ {j} : stock'[i] = stock[i] /\ received'[i] = received[i]
    BY <1>1 DEF IInv, TypeOK, Stocks
  <1>4. ASSUME NEW i \in Ingredients
        PROVE  received'[i] = stock'[i] + Taken(lines', i)
    <2>1. received[i] = stock[i] + Taken(lines, i) /\ Taken(lines, i) \in Int
      BY UsedTypes DEF ShelfInv, IInv, TypeOK
    <2>2. Taken(lines', i) = Taken(lines, i)
      BY <1>1, TakenKept
    <2>3. QED
      BY <1>2, <1>3, <2>1, <2>2
  <1>5. \A l \in Lines : Untouched(lines'[l])
    BY <1>1 DEF ShelfInv
  <1>6. ASSUME ~shrunk', OptionsNeverAdd
        PROVE  /\ \A l \in Lines : TakenWhole(lines'[l])
               /\ \A i \in Ingredients : Claims(lines', i) <= stock'[i]
    <2>1. ~shrunk /\ ~(level < stock[j])
      BY <1>1, <1>6
    <2>2. /\ \A l \in Lines : TakenWhole(lines[l])
          /\ \A i \in Ingredients : Claims(lines, i) <= stock[i]
      BY <1>6, <2>1 DEF ShelfInv, ClaimsFit
    <2>3. ASSUME NEW i \in Ingredients
          PROVE  Claims(lines', i) <= stock'[i]
      <3>1. Claims(lines', i) = Claims(lines, i)
        BY <1>1
      <3>2. Claims(lines, i) \in Int
        BY LinesHaveDishes, ClaimTypes DEF IInv
      <3>3. stock[i] <= stock'[i] /\ stock'[i] \in Int /\ stock[i] \in Int
        BY <1>2, <1>3, <2>1
      <3>4. QED
        BY <2>2, <3>1, <3>2, <3>3
    <2>4. QED
      BY <1>1, <2>2, <2>3
  <1>7. ClaimsFit'
    BY <1>6 DEF ClaimsFit, OptionsNeverAdd
  <1>8. QED
    BY <1>4, <1>5, <1>7 DEF ShelfInv

\* A step that leaves lines and shelf alone.
LEMMA QuietShelf ==
    ASSUME IInv, ShelfInv, TypeOK', Belong(lines'),
           UNCHANGED <<lines, stock, received, shrunk>>
    PROVE  ShelfInv'
  <1>1. \A l \in Lines : Calm(lines[l], lines'[l])
    BY LinesHaveDishes, CalmWhenSame DEF IInv
  <1>2. QED
    BY <1>1, CalmShelf

\* Whatever transaction commits, the shelf stays accounted for and covered.
LEMMA StepShelf ==
    ASSUME IInv, ShelfInv, Next
    PROVE  ShelfInv'
  <1>1. TypeOK' /\ Belong(lines')
    BY StepClasses DEF IInv
  <1>2. CASE OpenStep
    BY <1>1, <1>2, QuietShelf DEF OpenStep, OpenOrder, OpenTakeaway
  <1>3. ASSUME \A k \in Lines : Calm(lines[k], lines'[k]),
               UNCHANGED <<stock, received, shrunk>>
        PROVE  ShelfInv'
    BY <1>1, <1>3, CalmShelf
  <1>4. ASSUME TakeStep PROVE ShelfInv'
    <2>1. ASSUME NEW o \in Orders, NEW d \in Dishes, NEW q \in Quantities,
                 AddItem(o, d, q) \/ AddServedItem(o, d, q)
          PROVE  ShelfInv'
      BY <1>1, <2>1, AddItemShelf, AddServedItemShelf
    <2>2. ASSUME NEW l \in Lines, NEW d \in Dishes, NEW q \in Quantities,
                 LowerItem(l, d, q)
          PROVE  ShelfInv'
      <3>1. UNCHANGED <<stock, received, shrunk>>
        BY <2>2 DEF LowerItem
      <3>2. QED
        BY <1>3, <2>2, <3>1, LowerItemCalm
    <2>3. ASSUME NEW l \in Lines, NEW d \in Dishes, NEW q \in Quantities,
                 RaiseItem(l, d, q)
          PROVE  ShelfInv'
      BY <1>1, <2>3, RaiseItemShelf
    <2>4. ASSUME NEW l \in Lines, DeleteItem(l)
          PROVE  ShelfInv'
      <3>1. UNCHANGED <<stock, received, shrunk>>
        BY <2>4 DEF DeleteItem
      <3>2. QED
        BY <1>3, <2>4, <3>1, DeleteItemCalm
    <2>5. QED
      BY <1>4, <2>1, <2>2, <2>3, <2>4 DEF TakeStep
  <1>5. ASSUME KitchenStep PROVE ShelfInv'
    <2>1. ASSUME NEW o \in Orders, SendToKitchen(o)
          PROVE  ShelfInv'
      <3>1. UNCHANGED <<stock, received, shrunk>>
        BY <2>1 DEF SendToKitchen
      <3>2. QED
        BY <1>3, <2>1, <3>1, SendToKitchenCalm
    <2>2. ASSUME NEW l \in Lines, StartCooking(l)
          PROVE  ShelfInv'
      <3>1. UNCHANGED <<stock, received, shrunk>>
        BY <2>2 DEF StartCooking
      <3>2. QED
        BY <1>3, <2>2, <3>1, StartCookingCalm
    <2>3. ASSUME NEW l \in Lines, NEW status \in {"ready", "served"}, FinishItem(l, status)
          PROVE  ShelfInv'
      BY <1>1, <2>3, FinishItemShelf
    <2>4. ASSUME NEW l \in Lines, NEW count \in Quantities,
                 NEW frontOfHouse \in BOOLEAN, VoidItem(l, count, frontOfHouse)
          PROVE  ShelfInv'
      <3>1. UNCHANGED <<stock, received, shrunk>>
        BY <2>4 DEF VoidItem
      <3>2. QED
        BY <1>3, <2>4, <3>1, VoidItemCalm
    <2>5. QED
      BY <1>5, <2>1, <2>2, <2>3, <2>4 DEF KitchenStep
  <1>6. ASSUME CloseStep PROVE ShelfInv'
    <2>1. ASSUME NEW o \in Orders, NEW supervisor \in BOOLEAN, CancelOrder(o, supervisor)
          PROVE  ShelfInv'
      <3>1. UNCHANGED <<stock, received, shrunk>>
        BY <2>1 DEF CancelOrder
      <3>2. QED
        BY <1>3, <2>1, <3>1, CancelOrderCalm
    <2>2. ASSUME NEW o \in Orders, CloseEmptyTable(o)
          PROVE  ShelfInv'
      BY <1>1, <2>2, QuietShelf DEF CloseEmptyTable
    <2>3. ASSUME NEW o \in Orders, PayOrder(o)
          PROVE  ShelfInv'
      BY <1>1, <2>3, PayOrderShelf
    <2>4. QED
      BY <1>6, <2>1, <2>2, <2>3 DEF CloseStep
  <1>7. ASSUME SettingStep PROVE ShelfInv'
    <2>1. ASSUME NEW t \in Tables, NEW status, SetTableStatus(t, status)
          PROVE  ShelfInv'
      BY <1>1, <2>1, QuietShelf DEF SetTableStatus
    <2>2. ASSUME NEW i \in Ingredients, NEW level \in 0..MaxStock, AdjustStock(i, level)
          PROVE  ShelfInv'
      BY <1>1, <2>2, AdjustStockShelf
    <2>3. ASSUME NEW m \in Menus, NEW price, NEW onSale, EditMenu(m, price, onSale)
          PROVE  ShelfInv'
      BY <1>1, <2>3, QuietShelf DEF EditMenu
    <2>4. QED
      BY <1>7, <2>1, <2>2, <2>3 DEF SettingStep
  <1>8. QED
    BY <1>2, <1>4, <1>5, <1>6, <1>7 DEF Next

LEMMA InitShelf == Init => ShelfInv
  <1> SUFFICES ASSUME Init PROVE ShelfInv
    OBVIOUS
  <1>1. stock \in Stocks /\ received = stock /\ lines = [l \in Lines |-> NoLine]
    BY DEF Init
  <1>2. \A l \in Lines : /\ lines[l].used = NoStock /\ lines[l].status = "none"
    BY <1>1 DEF NoLine
  <1>3. ASSUME NEW i \in Ingredients
        PROVE  Taken(lines, i) = 0 /\ Claims(lines, i) = 0
    <2>1. \A l \in Lines : [k \in Lines |-> lines[k].used[i]][l] = 0
      BY <1>2 DEF NoStock
    <2>2. \A l \in Lines : [k \in Lines |-> Claim(lines[k], i)][l] = 0
      BY <1>2 DEF Claim
    <2>3. Taken(lines, i) = 0
      BY <2>1, LinesFinite, SumOfZeros DEF Taken
    <2>4. Claims(lines, i) = 0
      BY <2>2, LinesFinite, SumOfZeros DEF Claims
    <2>5. QED
      BY <2>3, <2>4
  <1>4. \A i \in Ingredients : stock[i] \in Nat
    BY <1>1 DEF Stocks
  <1>5. \A l \in Lines : Untouched(lines[l]) /\ TakenWhole(lines[l])
    BY <1>2 DEF Untouched, TakenWhole
  <1>6. \A i \in Ingredients : /\ received[i] = stock[i] + Taken(lines, i)
                               /\ Claims(lines, i) <= stock[i]
    BY <1>1, <1>3, <1>4
  <1>7. QED
    BY <1>5, <1>6 DEF ShelfInv, ClaimsFit

LEMMA StutterShelf == ShelfInv /\ UNCHANGED vars => ShelfInv'
  <1> SUFFICES ASSUME ShelfInv, UNCHANGED vars PROVE ShelfInv'
    OBVIOUS
  <1>1. lines' = lines /\ stock' = stock /\ received' = received /\ shrunk' = shrunk
    BY DEF vars
  <1>2. /\ \A i \in Ingredients : /\ Taken(lines', i) = Taken(lines, i)
                                  /\ Claims(lines', i) = Claims(lines, i)
        /\ \A l \in Lines : lines'[l] = lines[l]
    BY <1>1
  <1>3. QED
    BY <1>1, <1>2 DEF ShelfInv, ClaimsFit, OptionsNeverAdd

LEMMA ShelfInvariance == Spec => []ShelfInv
  <1>1. IInv /\ ShelfInv /\ [Next]_vars => ShelfInv'
    BY StepShelf, StutterShelf
  <1>2. QED
    BY <1>1, InitShelf, Invariance, PTL DEF Spec

-----------------------------------------------------------------------------
(* Theorems *)

\* Every handler leaves rows the schema allows: no negative stock, quantity or
\* deduction, no line without its order.
THEOREM TypeCorrect == Spec => []TypeOK
  <1>1. IInv => TypeOK
    BY DEF IInv
  <1>2. QED
    BY <1>1, Invariance, PTL

\* For any number of tables and orders, a table is occupied exactly while one
\* active order sits on it, whoever opens, pays, cancels or edits the table.
THEOREM TablesAreInStep == Spec => []TableFollowsOrders
  <1>1. IInv => TableFollowsOrders
    BY DEF IInv
  <1>2. QED
    BY <1>1, Invariance, PTL

\* However an order was closed, nothing is left for the kitchen to cook and
\* nothing claims stock on its behalf.
THEOREM NoWorkLeftBehind == Spec => []ClosedOrdersHoldNoWork
  <1>1. IInv => ClosedOrdersHoldNoWork
    BY DEF IInv
  <1>2. QED
    BY <1>1, Invariance, PTL

\* Orders are completed exactly by being paid, once, what their lines come to,
\* at any prices, quantities and options.
THEOREM PaymentsAreExact == Spec => []PaidExactlyTheBill
  <1>1. IInv => PaidExactlyTheBill
    BY DEF IInv
  <1>2. QED
    BY <1>1, Invariance, PTL

\* No transaction changes the row, a line or the payment of a closed order.
THEOREM ClosedOrdersStay == Spec => ClosedOrdersAreFrozen
  <1>1. QED
    BY Invariance, ClosedOrdersKept, PTL DEF Spec, ClosedOrdersAreFrozen

\* For any number of orders and lines, an order that reads ready or served has
\* no line still pending, cooking or recalled.
THEOREM FinishedIsFinished == Spec => []FinishedStatusIsTrue
  <1>1. RowsAgree => FinishedStatusIsTrue
    BY DEF RowsAgree, Agrees, FinishedStatusIsTrue
  <1>2. QED
    BY <1>1, RowsInvariance, PTL

\* After every handler the amount stored on an open or paid order is its lines'.
THEOREM BillsAreCurrent == Spec => []StoredBillIsCurrent
  <1>1. RowsAgree => StoredBillIsCurrent
    BY DEF RowsAgree, Agrees, StoredBillIsCurrent
  <1>2. QED
    BY <1>1, RowsInvariance, PTL

\* For any number of orders and lines: while a dish is with the cook, its order
\* reads sent_to_kitchen or cooking, so the count of orders in the kitchen has it.
THEOREM KitchenIsCounted == Spec => []DishesInTheKitchenAreCounted
  <1>1. IInv /\ RowsAgree => DishesInTheKitchenAreCounted
    <2> SUFFICES ASSUME IInv, RowsAgree, NEW l \in Lines, lines[l].status = "cooking"
                 PROVE  orders[lines[l].order].status \in {"sent_to_kitchen", "cooking"}
      BY DEF DishesInTheKitchenAreCounted
    <2> DEFINE o == lines[l].order
    <2>1. o \in Orders /\ l \in LinesOf(lines, o) /\ l \in LiveLines(lines, o)
      BY DEF IInv, Belong, LinesOf, LiveLines
    <2>2. Active(o)
      BY <2>1 DEF IInv, ClosedOrdersHoldNoWork
    <2>3. Agrees(orders[o], lines, o)
      BY <2>1 DEF RowsAgree
    <2> HIDE DEF o
    <2>4. orders[o].status \notin {"open", "ready", "served"}
      BY <2>1, <2>3 DEF Agrees, o
    <2>5. QED
      BY <2>2, <2>4 DEF Active, ActiveStatus, o
  <1>2. QED
    BY <1>1, Invariance, RowsInvariance, PTL

\* For any number of lines and ingredients, and whatever the recipes: what came
\* onto the shelf by hand is there still or in one deduction row of a line.
THEOREM StockIsAccounted == Spec => []StockIsAccountedFor
  <1>1. ShelfInv => StockIsAccountedFor
    BY DEF ShelfInv, Taken, StockIsAccountedFor
  <1>2. QED
    BY <1>1, ShelfInvariance, PTL

\* The capacity check of an add or a raise keeps the shelf enough for every
\* dish in the queue, over any number of orders sharing it.
THEOREM ShelfIsEnough == Spec => []ShelfCoversTheQueue
  <1>1. IInv /\ ShelfInv => ShelfCoversTheQueue
    <2> SUFFICES ASSUME IInv, ShelfInv, ~shrunk, OptionsNeverAdd, NEW i \in Ingredients
                 PROVE  Owed(i) <= stock[i]
      BY DEF ShelfCoversTheQueue
    <2>1. Owed(i) <= Claims(lines, i) /\ Owed(i) \in Int
      BY OwedIsClaimed
    <2>2. Claims(lines, i) <= stock[i]
      BY DEF ShelfInv, ClaimsFit
    <2>3. Claims(lines, i) \in Int
      BY LinesHaveDishes, ClaimTypes DEF IInv
    <2>4. stock[i] \in Int
      BY DEF IInv, TypeOK, Stocks
    <2>5. QED
      BY <2>1, <2>2, <2>3, <2>4
  <1>2. QED
    BY <1>1, Invariance, ShelfInvariance, PTL

\* Under the same conditions no dish leaves the kitchen short of its recipe.
THEOREM CookedIsDeducted == Spec => []CookedDishesAreDeducted
  <1>1. ShelfInv => CookedDishesAreDeducted
    BY DEF ShelfInv, ClaimsFit, TakenWhole, CookedDishesAreDeducted
  <1>2. QED
    BY <1>1, ShelfInvariance, PTL

-----------------------------------------------------------------------------
(* The lots of one ingredient (module IngredientStock) *)

HIDE OrderServiceAssumption

LEMMA LotsAreAList ==
    ASSUME NEW ls \in Seq(Lot)
    PROVE  /\ DOMAIN ls = 1..Len(ls) /\ Len(ls) \in Nat /\ IsFiniteSet(DOMAIN ls)
           /\ \A i \in DOMAIN ls : ls[i] \in Lot
<1>1. Len(ls) \in Nat /\ DOMAIN ls = 1..Len(ls) /\ \A i \in DOMAIN ls : ls[i] \in Lot
  OBVIOUS
<1>2. IsFiniteSet(1..Len(ls))
  BY <1>1, FS_Interval
<1> QED
  BY <1>1, <1>2

\* What a lot holds is a number, within the bound.
LEMMA RemainingIsNat ==
    ASSUME NEW ls \in Seq(Lot)
    PROVE  \A i \in DOMAIN ls : /\ Remaining(ls)[i] = ls[i].remaining
                                /\ ls[i].remaining \in Nat
                                /\ ls[i].remaining <= MaxQuantity
<1>1. \A i \in DOMAIN ls : ls[i].remaining \in 0..MaxQuantity
  BY LotsAreAList DEF Lot, StockAmounts
<1> QED
  BY <1>1, IngredientStockAssumption DEF Remaining

\* Some of the lots hold a number that is no more than what more of them hold.
LEMMA TotalOfPart ==
    ASSUME NEW ls \in Seq(Lot), NEW J \in SUBSET DOMAIN ls, NEW I \in SUBSET J
    PROVE  /\ TotalOf(ls, I) \in Nat /\ TotalOf(ls, J) \in Nat
           /\ TotalOf(ls, I) <= TotalOf(ls, J)
<1>1. IsFiniteSet(J) /\ IsFiniteSet(I) /\ {} \in SUBSET I
  BY LotsAreAList, FS_Subset
<1>2. \A i \in J : Remaining(ls)[i] \in Int /\ 0 <= Remaining(ls)[i]
  BY RemainingIsNat
<1>3. TotalOf(ls, I) <= TotalOf(ls, J)
  BY <1>1, <1>2, SumOfPart DEF TotalOf
<1>4. SumFunctionOnSet(Remaining(ls), {}) <= TotalOf(ls, I)
  BY <1>1, <1>2, SumOfPart DEF TotalOf
<1>5. TotalOf(ls, I) \in Int /\ TotalOf(ls, J) \in Int
  BY <1>1, <1>2, SumIsInteger DEF TotalOf
<1> QED
  BY <1>3, <1>4, <1>5, SumOfNone

\* One lot taken out of some.
LEMMA TotalWithout ==
    ASSUME NEW ls \in Seq(Lot), NEW I \in SUBSET DOMAIN ls, NEW i \in I
    PROVE  TotalOf(ls, I) = ls[i].remaining + TotalOf(ls, I \ {i})
<1>1. IsFiniteSet(I) /\ \A j \in I : Remaining(ls)[j] \in Int
  BY LotsAreAList, RemainingIsNat, FS_Subset
<1>2. Remaining(ls)[i] = ls[i].remaining
  BY RemainingIsNat
<1> QED
  BY <1>1, <1>2, SumWithout DEF TotalOf

\* Empty lots add nothing.
LEMMA TotalOfOpen ==
    ASSUME NEW ls \in Seq(Lot), NEW I \in SUBSET DOMAIN ls
    PROVE  TotalOf(ls, I \cap Open(ls)) = TotalOf(ls, I)
<1> DEFINE J == I \cap Open(ls)
           f == Remaining(ls)
<1>1. IsFiniteSet(I) /\ J \in SUBSET I
  BY LotsAreAList, FS_Subset
<1>2. \A i \in I : f[i] \in Int /\ 0 <= f[i]
  BY RemainingIsNat
<1>3. \A i \in I \ J : f[i] <= 0
  BY RemainingIsNat DEF Open
<1>4. SumFunctionOnSet(f, J) <= SumFunctionOnSet(f, I)
  BY <1>1, <1>2, SumOfPart
<1>5. \A i \in J : f[i] \in Int /\ f[i] <= f[i]
  BY <1>1, <1>2
<1>6. SumFunctionOnSet(f, I) <= SumFunctionOnSet(f, J)
  BY <1>1, <1>2, <1>3, <1>5, SumOnPart
<1>7. TotalOf(ls, J) \in Nat /\ TotalOf(ls, I) \in Nat
  BY TotalOfPart
<1> QED
  BY <1>4, <1>6, <1>7 DEF TotalOf

-----------------------------------------------------------------------------
(* Draining the lots in some order *)

\* An order of the lots of ls: of two lots one comes before the other.
LinesUp(ls, before) ==
    /\ \A i \in DOMAIN ls : i \notin before[i]
    /\ \A i, j \in DOMAIN ls : i = j \/ i \in before[j] \/ j \in before[i]
    /\ \A i, j, k \in DOMAIN ls :
          i \in before[j] /\ j \in before[k] => i \in before[k]

Front(ls, before, i) == {j \in Open(ls) : j \in before[i]}
Given(ls, before, quantity) ==
    [i \in DOMAIN ls |-> Gives(ls, i, quantity, Front(ls, before, i))]
Drained(ls, before, quantity) ==
    [i \in DOMAIN ls |-> [ls[i] EXCEPT !.remaining = @ - Given(ls, before, quantity)[i]]]

\* Some lots, if there are any, have a last one.
LEMMA SomeLotIsLast ==
    ASSUME NEW ls \in Seq(Lot), NEW before, LinesUp(ls, before),
           NEW s \in SUBSET DOMAIN ls, s # {}
    PROVE  \E m \in s : \A i \in s : i = m \/ i \in before[m]
<1> DEFINE HasLast(u) == \E m \in u : \A i \in u : i = m \/ i \in before[m]
           P == {u \in SUBSET DOMAIN ls : u # {} => HasLast(u)}
<1>1. ASSUME NEW u \in SUBSET DOMAIN ls, \A x \in u : u \ {x} \in P
      PROVE  u \in P
  <2> SUFFICES ASSUME u # {} PROVE HasLast(u)
    OBVIOUS
  <2>1. PICK x \in u : TRUE
    OBVIOUS
  <2>2. CASE u \ {x} = {}
    BY <2>1, <2>2
  <2>3. CASE u \ {x} # {}
    <3>1. HasLast(u \ {x})
      BY <1>1, <2>1, <2>3
    <3>2. PICK m \in u \ {x} : \A i \in u \ {x} : i = m \/ i \in before[m]
      BY <3>1
    <3>3. CASE x \in before[m]
      BY <3>2, <3>3
    <3>4. CASE m \in before[x]
      <4>1. \A i \in u : i = x \/ i \in before[x]
        BY <2>1, <3>2, <3>4 DEF LinesUp
      <4> QED
        BY <2>1, <4>1
    <3> QED
      BY <2>1, <3>2, <3>3, <3>4 DEF LinesUp
  <2> QED
    BY <2>2, <2>3
<1>2. \A u \in SUBSET DOMAIN ls : u \in P
  <2> HIDE DEF P
  <2> QED
    BY <1>1, LotsAreAList, SetInduction
<1> QED
  BY <1>2

\* A lot gives no more than it holds.
LEMMA GivesWhatItHas ==
    ASSUME NEW ls \in Seq(Lot), NEW quantity \in Nat, NEW i \in DOMAIN ls,
           NEW front \in SUBSET DOMAIN ls
    PROVE  /\ Gives(ls, i, quantity, front) \in Nat
           /\ Gives(ls, i, quantity, front) <= ls[i].remaining
           /\ ls[i].remaining - Gives(ls, i, quantity, front) \in StockAmounts
<1>1. TotalOf(ls, front) \in Nat
  BY TotalOfPart
<1>2. ls[i].remaining \in Nat /\ ls[i].remaining <= MaxQuantity
  BY RemainingIsNat
<1> QED
  BY <1>1, <1>2, IngredientStockAssumption DEF Gives, Smaller, Larger, StockAmounts

\* The lots of a front part give the quantity, or all they have.
LEMMA FrontGivesItsShare ==
    ASSUME NEW ls \in Seq(Lot), NEW before, LinesUp(ls, before), NEW quantity \in Nat,
           NEW s \in SUBSET DOMAIN ls,
           \A i \in s, j \in DOMAIN ls : j \in before[i] => j \in s
    PROVE  SumFunctionOnSet(Given(ls, before, quantity), s)
              = Smaller(quantity, TotalOf(ls, s))
<1> DEFINE g == Given(ls, before, quantity)
           InFront(u) == \A i \in u, j \in DOMAIN ls : j \in before[i] => j \in u
           Share(u) == SumFunctionOnSet(g, u) = Smaller(quantity, TotalOf(ls, u))
           P == {u \in SUBSET DOMAIN ls : InFront(u) => Share(u)}
<1>0. \A i \in DOMAIN ls : g[i] = Gives(ls, i, quantity, Front(ls, before, i))
  BY DEF Given
<1>1. ASSUME NEW i \in DOMAIN ls
      PROVE  g[i] \in Int
  <2>1. Front(ls, before, i) \in SUBSET DOMAIN ls
    BY DEF Front, Open
  <2>2. Gives(ls, i, quantity, Front(ls, before, i)) \in Nat
    BY <2>1, GivesWhatItHas
  <2> QED
    BY <1>0, <2>2
<1>2. ASSUME NEW u \in SUBSET DOMAIN ls, \A x \in u : u \ {x} \in P, InFront(u)
      PROVE  Share(u)
  <2>1. CASE u = {}
    <3>1. SumFunctionOnSet(g, {}) = 0 /\ TotalOf(ls, {}) = 0
      BY SumOfNone DEF TotalOf
    <3> QED
      BY <2>1, <3>1 DEF Smaller
  <2>2. CASE u # {}
    <3>1. PICK m \in u : \A i \in u : i = m \/ i \in before[m]
      BY <2>2, SomeLotIsLast
    <3> DEFINE rest == u \ {m}
    <3>2. InFront(rest)
      <4> SUFFICES ASSUME NEW i \in rest, NEW j \in DOMAIN ls, j \in before[i],
                          j = m
                   PROVE  FALSE
        BY <1>2
      <4>1. i \in before[m]
        BY <3>1
      <4> QED
        BY <4>1 DEF LinesUp
    <3>3. Share(rest)
      BY <1>2, <3>1, <3>2
    <3>4. Front(ls, before, m) = rest \cap Open(ls)
      BY <1>2, <3>1 DEF Front, Open, LinesUp
    <3>5. TotalOf(ls, Front(ls, before, m)) = TotalOf(ls, rest)
      BY <3>4, TotalOfOpen
    <3>6. g[m] = Smaller(ls[m].remaining, Larger(0, quantity - TotalOf(ls, rest)))
      BY <1>0, <3>5 DEF Gives
    <3>7. TotalOf(ls, u) = ls[m].remaining + TotalOf(ls, rest)
      BY TotalWithout
    <3>8. SumFunctionOnSet(g, u) = g[m] + SumFunctionOnSet(g, rest)
      <4>1. IsFiniteSet(u) /\ \A i \in u : g[i] \in Int
        BY <1>1, LotsAreAList, FS_Subset
      <4> HIDE DEF g
      <4> QED
        BY <4>1, SumWithout
    <3>9. TotalOf(ls, rest) \in Nat /\ ls[m].remaining \in Nat
      BY TotalOfPart, RemainingIsNat
    <3> HIDE DEF g, rest
    <3> QED
      BY <3>3, <3>6, <3>7, <3>8, <3>9 DEF Smaller, Larger
  <2> QED
    BY <2>1, <2>2
<1>3. \A u \in SUBSET DOMAIN ls : u \in P
  <2>1. \A u \in SUBSET DOMAIN ls : (\A x \in u : u \ {x} \in P) => u \in P
    BY <1>2
  <2> HIDE DEF P
  <2> QED
    BY <2>1, LotsAreAList, SetInduction
<1> QED
  BY <1>3

\* What is left of a list of lots when every lot gives something.
LEMMA SumOfRest ==
    ASSUME NEW S, IsFiniteSet(S), NEW f, \A x \in S : f[x] \in Int,
           NEW g, \A x \in S : g[x] \in Int, NEW h, \A x \in S : h[x] = f[x] - g[x]
    PROVE  SumFunctionOnSet(h, S) = SumFunctionOnSet(f, S) - SumFunctionOnSet(g, S)
<1> DEFINE Rest(u) ==
       SumFunctionOnSet(h, u) = SumFunctionOnSet(f, u) - SumFunctionOnSet(g, u)
           P == {u \in SUBSET S : Rest(u)}
<1>1. ASSUME NEW u \in SUBSET S, \A x \in u : u \ {x} \in P
      PROVE  Rest(u)
  <2>1. CASE u = {}
    BY <2>1, SumOfNone
  <2>2. CASE u # {}
    <3>1. PICK x \in u : TRUE
      BY <2>2
    <3> DEFINE rest == u \ {x}
    <3>2. Rest(rest)
      BY <1>1, <3>1
    <3>3. /\ IsFiniteSet(u) /\ IsFiniteSet(rest)
          /\ \A y \in u : f[y] \in Int /\ g[y] \in Int /\ h[y] \in Int
      BY FS_Subset
    <3>4. /\ SumFunctionOnSet(f, u) = f[x] + SumFunctionOnSet(f, rest)
          /\ SumFunctionOnSet(g, u) = g[x] + SumFunctionOnSet(g, rest)
          /\ SumFunctionOnSet(h, u) = h[x] + SumFunctionOnSet(h, rest)
      BY <3>1, <3>3, SumWithout
    <3>5. /\ SumFunctionOnSet(f, rest) \in Int /\ SumFunctionOnSet(g, rest) \in Int
          /\ f[x] \in Int /\ g[x] \in Int /\ h[x] = f[x] - g[x]
      BY <3>1, <3>3, SumIsInteger
    <3> HIDE DEF rest
    <3> QED
      BY <3>2, <3>4, <3>5
  <2> QED
    BY <2>1, <2>2
<1>2. \A u \in SUBSET S : u \in P
  <2>1. \A u \in SUBSET S : (\A x \in u : u \ {x} \in P) => u \in P
    BY <1>1
  <2> HIDE DEF P
  <2> QED
    BY <2>1, SetInduction
<1> QED
  BY <1>2

\* Lots drained in any order are lots, and lose exactly the quantity when they
\* hold that much.
LEMMA DrainedLots ==
    ASSUME NEW ls \in Seq(Lot), NEW before, LinesUp(ls, before), NEW quantity \in Nat,
           quantity <= TotalOf(ls, DOMAIN ls)
    PROVE  LET ds == Drained(ls, before, quantity)
           IN  /\ ds \in Seq(Lot) /\ Len(ds) = Len(ls)
               /\ TotalOf(ds, DOMAIN ds) = TotalOf(ls, DOMAIN ls) - quantity
<1> DEFINE D == DOMAIN ls
           ds == Drained(ls, before, quantity)
           g == Given(ls, before, quantity)
<1>1. /\ DOMAIN ls = 1..Len(ls) /\ Len(ls) \in Nat /\ IsFiniteSet(D)
      /\ \A i \in D : ls[i] \in Lot
  BY LotsAreAList
<1>2. ASSUME NEW i \in D
      PROVE  /\ g[i] \in Int /\ ls[i].remaining - g[i] \in StockAmounts
             /\ ls[i].remaining \in Int
  <2>1. Front(ls, before, i) \in SUBSET DOMAIN ls
    BY DEF Front, Open
  <2>2. g[i] = Gives(ls, i, quantity, Front(ls, before, i))
    BY DEF Given
  <2>3. /\ Gives(ls, i, quantity, Front(ls, before, i)) \in Nat
        /\ ls[i].remaining - Gives(ls, i, quantity, Front(ls, before, i)) \in StockAmounts
    BY <2>1, GivesWhatItHas
  <2> QED
    BY <2>2, <2>3, RemainingIsNat
<1>3. /\ DOMAIN ds = 1..Len(ls)
      /\ \A i \in D : ds[i] = [ls[i] EXCEPT !.remaining = @ - g[i]]
  BY <1>1 DEF Drained
<1>4. ASSUME NEW i \in D
      PROVE  ds[i] \in Lot /\ ds[i].remaining = ls[i].remaining - g[i]
  <2>1. ls[i] \in [remaining : StockAmounts, expires : Dates]
    BY <1>1 DEF Lot
  <2>2. ls[i].remaining - g[i] \in StockAmounts /\ ds[i] = [ls[i] EXCEPT !.remaining = @ - g[i]]
    BY <1>2, <1>3
  <2> HIDE DEF ds, g, D
  <2> QED
    BY <2>1, <2>2 DEF Lot
<1>5. ds = [i \in 1..Len(ls) |-> ds[i]] /\ \A i \in 1..Len(ls) : ds[i] \in Lot
  <2>1. ds = [i \in 1..Len(ls) |-> ds[i]]
    BY <1>1 DEF Drained
  <2> QED
    BY <1>1, <1>4, <2>1
<1>6. ds \in Seq(Lot) /\ Len(ds) = Len(ls)
  <2> HIDE DEF ds
  <2> QED
    BY <1>1, <1>5
<1>7. SumFunctionOnSet(g, D) = quantity
  <2>1. SumFunctionOnSet(g, D) = Smaller(quantity, TotalOf(ls, D))
    BY FrontGivesItsShare
  <2> QED
    BY <2>1 DEF Smaller
<1>8. \A i \in D : Remaining(ds)[i] = Remaining(ls)[i] - g[i]
  <2>1. DOMAIN ds = D
    BY <1>1, <1>3
  <2> HIDE DEF ds, g
  <2> QED
    BY <1>4, <2>1 DEF Remaining
<1>9. TotalOf(ds, D) = TotalOf(ls, D) - quantity
  <2>1. \A i \in D : Remaining(ls)[i] \in Int /\ g[i] \in Int
    BY <1>2, RemainingIsNat
  <2> HIDE DEF ds, g
  <2> QED
    BY <1>1, <1>7, <1>8, <2>1, SumOfRest DEF TotalOf
<1>10. DOMAIN ds = D
  BY <1>1, <1>3
<1> HIDE DEF ds
<1> QED
  BY <1>6, <1>9, <1>10 DEF ds

\* lotDrainOrder and the order of deliveries: two ways to line the lots up.
BySoonest(ls) ==
    [i \in DOMAIN ls |-> {j \in DOMAIN ls : ExpiresFirst(ls, j, i)}]
ByDelivery(ls) == [i \in DOMAIN ls |-> {j \in DOMAIN ls : j < i}]

LEMMA BySoonestPairs ==
    ASSUME NEW ls, NEW i \in DOMAIN ls, NEW j \in DOMAIN ls
    PROVE  i \in BySoonest(ls)[j] <=> ExpiresFirst(ls, i, j)
BY DEF BySoonest

LEMMA ByDeliveryPairs ==
    ASSUME NEW ls, NEW i \in DOMAIN ls, NEW j \in DOMAIN ls
    PROVE  i \in ByDelivery(ls)[j] <=> i < j
BY DEF ByDelivery

LEMMA SoonestLinesUp ==
    ASSUME NEW ls \in Seq(Lot)
    PROVE  LinesUp(ls, BySoonest(ls))
<1>1. \A i \in DOMAIN ls : i \in Int /\ ls[i].expires \in Int
  <2>1. \A i \in DOMAIN ls : ls[i].expires \in 1..(NumDates + 1)
    BY LotsAreAList DEF Lot, Dates, Undated
  <2> QED
    BY <2>1, LotsAreAList, IngredientStockAssumption
<1>2. ASSUME NEW i \in DOMAIN ls, NEW j \in DOMAIN ls, NEW k \in DOMAIN ls
      PROVE  /\ ~ ExpiresFirst(ls, i, i)
             /\ i = j \/ ExpiresFirst(ls, i, j) \/ ExpiresFirst(ls, j, i)
             /\ ExpiresFirst(ls, i, j) /\ ExpiresFirst(ls, j, k)
                   => ExpiresFirst(ls, i, k)
  BY <1>1 DEF ExpiresFirst
<1> QED
  BY <1>2, BySoonestPairs DEF LinesUp

LEMMA DeliveriesLineUp ==
    ASSUME NEW ls \in Seq(Lot)
    PROVE  LinesUp(ls, ByDelivery(ls))
<1>1. \A i \in DOMAIN ls : i \in Int
  BY LotsAreAList
<1> QED
  BY <1>1, ByDeliveryPairs DEF LinesUp

LEMMA DrainLotsDrains ==
    ASSUME NEW ls \in Seq(Lot), NEW quantity
    PROVE  DrainLots(ls, quantity) = Drained(ls, BySoonest(ls), quantity)
<1>1. ASSUME NEW i \in DOMAIN ls
      PROVE  Front(ls, BySoonest(ls), i) = {j \in Open(ls) : ExpiresFirst(ls, j, i)}
  BY BySoonestPairs DEF Front, Open
<1>2. ASSUME NEW i \in DOMAIN ls
      PROVE  Given(ls, BySoonest(ls), quantity)[i]
                = Gives(ls, i, quantity, {j \in Open(ls) : ExpiresFirst(ls, j, i)})
  BY <1>1 DEF Given
<1> QED
  BY <1>2 DEF DrainLots, Drained

LEMMA ShrinkLotsDrains ==
    ASSUME NEW ls \in Seq(Lot), NEW quantity
    PROVE  ShrinkLotsOldestFirst(ls, quantity) = Drained(ls, ByDelivery(ls), quantity)
<1>1. ASSUME NEW i \in DOMAIN ls
      PROVE  Front(ls, ByDelivery(ls), i) = {j \in Open(ls) : j < i}
  BY ByDeliveryPairs DEF Front, Open
<1>2. ASSUME NEW i \in DOMAIN ls
      PROVE  Given(ls, ByDelivery(ls), quantity)[i]
                = Gives(ls, i, quantity, {j \in Open(ls) : j < i})
  BY <1>1 DEF Given
<1> QED
  BY <1>2 DEF ShrinkLotsOldestFirst, Drained

-----------------------------------------------------------------------------
(* What a movement leaves of the lots *)

\* Lots that the shelf can have, holding a given quantity.
Holding(ls, quantity) ==
    /\ ls \in Seq(Lot) /\ Len(ls) <= NumLots
    /\ TotalOf(ls, DOMAIN ls) = quantity

LEMMA ReceivedLots ==
    ASSUME NEW ls \in Seq(Lot), Len(ls) < NumLots,
           NEW quantity \in StockAmounts, NEW expires \in Dates
    PROVE  Holding(CreateLot(ls, quantity, expires), TotalOf(ls, DOMAIN ls) + quantity)
<1> DEFINE ns == CreateLot(ls, quantity, expires)
           n == Len(ls) + 1
<1>1. Len(ls) \in Nat /\ DOMAIN ls = 1..Len(ls)
  BY LotsAreAList
<1>2. [remaining |-> quantity, expires |-> expires] \in Lot
  BY DEF Lot
<1>3. /\ ns \in Seq(Lot) /\ Len(ns) = n /\ DOMAIN ns = 1..n
      /\ ns[n].remaining = quantity /\ \A i \in 1..Len(ls) : ns[i] = ls[i]
  BY <1>1, <1>2 DEF CreateLot
<1> HIDE DEF ns
<1>4. TotalOf(ns, DOMAIN ns) = quantity + TotalOf(ns, DOMAIN ns \ {n})
  BY <1>1, <1>3, TotalWithout
<1>5. DOMAIN ns \ {n} = DOMAIN ls
  BY <1>1, <1>3
<1>6. TotalOf(ns, DOMAIN ls) = TotalOf(ls, DOMAIN ls)
  <2>1. \A i \in DOMAIN ls : Remaining(ns)[i] = Remaining(ls)[i]
    BY <1>1, <1>3 DEF Remaining
  <2> QED
    BY <2>1, LotsAreAList, SumOfSame DEF TotalOf
<1>7. TotalOf(ls, DOMAIN ls) \in Nat /\ quantity \in Nat
  BY TotalOfPart, IngredientStockAssumption DEF StockAmounts
<1>8. Len(ns) <= NumLots
  BY <1>1, <1>3, IngredientStockAssumption
<1> QED
  BY <1>3, <1>4, <1>5, <1>6, <1>7, <1>8 DEF Holding, ns

LEMMA UsedLots ==
    ASSUME NEW ls, NEW held \in Nat, Holding(ls, held),
           NEW quantity \in Nat, quantity <= held
    PROVE  /\ Holding(DrainLots(ls, quantity), held - quantity)
           /\ Holding(ShrinkLotsOldestFirst(ls, quantity), held - quantity)
BY DrainedLots, SoonestLinesUp, DeliveriesLineUp, DrainLotsDrains, ShrinkLotsDrains
   DEF Holding

LEMMA DiscardedLot ==
    ASSUME NEW ls, NEW held \in Nat, Holding(ls, held), NEW lot \in DOMAIN ls
    PROVE  /\ ls[lot].remaining \in Nat /\ ls[lot].remaining <= held
           /\ \A quantity \in 0..ls[lot].remaining :
                 Holding([ls EXCEPT ![lot].remaining = @ - quantity], held - quantity)
<1>1. ls \in Seq(Lot) /\ TotalOf(ls, DOMAIN ls) = held /\ ls[lot] \in Lot
  BY LotsAreAList DEF Holding
<1>2. held = ls[lot].remaining + TotalOf(ls, DOMAIN ls \ {lot})
  BY <1>1, TotalWithout
<1>3. ls[lot].remaining \in Nat /\ TotalOf(ls, DOMAIN ls \ {lot}) \in Nat
      /\ ls[lot].remaining <= MaxQuantity
  BY <1>1, RemainingIsNat, TotalOfPart
<1>4. ASSUME NEW quantity \in 0..ls[lot].remaining
      PROVE  Holding([ls EXCEPT ![lot].remaining = @ - quantity], held - quantity)
  <2> DEFINE ns == [ls EXCEPT ![lot].remaining = @ - quantity]
  <2>1. ls[lot].remaining - quantity \in StockAmounts /\ quantity \in Nat
    BY <1>3, IngredientStockAssumption DEF StockAmounts
  <2>2. [ls[lot] EXCEPT !.remaining = @ - quantity] \in Lot
    BY <1>1, <2>1 DEF Lot
  <2>3. /\ ns \in Seq(Lot) /\ Len(ns) = Len(ls) /\ DOMAIN ns = DOMAIN ls
        /\ ns[lot].remaining = ls[lot].remaining - quantity
        /\ \A i \in DOMAIN ls \ {lot} : ns[i] = ls[i]
    <3>1. ns = [ls EXCEPT ![lot] = [ls[lot] EXCEPT !.remaining = @ - quantity]]
      OBVIOUS
    <3>2. [ls[lot] EXCEPT !.remaining = @ - quantity].remaining = ls[lot].remaining - quantity
      BY <1>1 DEF Lot
    <3> HIDE DEF ns
    <3>3. DOMAIN ns = DOMAIN ls /\ \A i \in DOMAIN ls \ {lot} : ns[i] = ls[i]
      BY <3>1
    <3>4. ns[lot] = [ls[lot] EXCEPT !.remaining = @ - quantity]
      BY <3>1
    <3>5. ns \in Seq(Lot) /\ Len(ns) = Len(ls)
      BY <1>1, <2>2, <3>1
    <3> QED
      BY <3>2, <3>3, <3>4, <3>5
  <2> HIDE DEF ns
  <2>4. TotalOf(ns, DOMAIN ls) = ns[lot].remaining + TotalOf(ns, DOMAIN ls \ {lot})
    BY <2>3, TotalWithout
  <2>5. TotalOf(ns, DOMAIN ls \ {lot}) = TotalOf(ls, DOMAIN ls \ {lot})
    <3>1. /\ IsFiniteSet(DOMAIN ls \ {lot})
          /\ \A i \in DOMAIN ls \ {lot} : Remaining(ns)[i] = Remaining(ls)[i]
      BY <1>1, <2>3, LotsAreAList, FS_Subset DEF Remaining
    <3> QED
      BY <3>1, SumOfSame DEF TotalOf
  <2>6. Len(ns) <= NumLots
    BY <2>3 DEF Holding
  <2> QED
    BY <1>2, <1>3, <2>1, <2>3, <2>4, <2>5, <2>6 DEF Holding, ns
<1>5. ls[lot].remaining <= held
  BY <1>2, <1>3
<1> QED
  BY <1>3, <1>4, <1>5

\* A new date leaves every lot its remainder.
LEMMA RedatedLot ==
    ASSUME NEW ls, NEW held, Holding(ls, held), NEW lot \in DOMAIN ls,
           NEW expires \in Dates
    PROVE  Holding([ls EXCEPT ![lot].expires = expires], held)
<1> DEFINE ns == [ls EXCEPT ![lot].expires = expires]
<1>1. ls \in Seq(Lot) /\ TotalOf(ls, DOMAIN ls) = held /\ ls[lot] \in Lot
  BY LotsAreAList DEF Holding
<1>2. /\ [ls[lot] EXCEPT !.expires = expires] \in Lot
      /\ [ls[lot] EXCEPT !.expires = expires].remaining = ls[lot].remaining
  BY <1>1 DEF Lot
<1>3. ns = [ls EXCEPT ![lot] = [ls[lot] EXCEPT !.expires = expires]]
  OBVIOUS
<1>4. /\ ns \in Seq(Lot) /\ Len(ns) = Len(ls) /\ DOMAIN ns = DOMAIN ls
      /\ \A i \in DOMAIN ls : ns[i].remaining = ls[i].remaining
  <2> HIDE DEF ns
  <2> QED
    BY <1>1, <1>2, <1>3
<1>5. TotalOf(ns, DOMAIN ls) = TotalOf(ls, DOMAIN ls)
  <2> HIDE DEF ns
  <2>1. \A i \in DOMAIN ls : Remaining(ns)[i] = Remaining(ls)[i]
    BY <1>4 DEF Remaining
  <2> QED
    BY <1>1, <2>1, LotsAreAList, SumOfSame DEF TotalOf
<1> HIDE DEF ns
<1> QED
  BY <1>1, <1>4, <1>5 DEF Holding, ns

-----------------------------------------------------------------------------
(* The three accounts of the shelf *)

\* The row, the lots and the movements, as they are after a step.
Accounts(row, ls, sum) == row \in Ingredient /\ Holding(ls, row.stock) /\ sum = row.stock

Forms ==
    /\ dishOnSale \in BOOLEAN
    /\ DOMAIN form = IngredientEditors
    /\ \A e \in IngredientEditors : form[e] = Closed \/ form[e] \in Ingredient
    /\ dishForm \in [MenuEditors -> {Closed} \cup BOOLEAN]

StockInv == Accounts(ingredient, lots, replayed) /\ Forms

LEMMA ReorderLevelIsAnAmount ==
    ASSUME NEW max \in StockAmounts, NEW percent \in 0..100, NEW typed \in StockAmounts
    PROVE  ReorderLevel(max, percent, typed) \in StockAmounts
<1>1. max \in Nat /\ percent \in Nat /\ percent <= 100 /\ max <= MaxQuantity
  BY IngredientStockAssumption DEF StockAmounts
<1>2. max * percent \in Nat /\ max * percent <= max * 100
  BY <1>1
<1>3. ASSUME NEW n \in Nat, n <= max * 100
      PROVE  (n + 50) \div 100 \in 0..max
  BY <1>1, <1>3
<1>4. (max * percent + 50) \div 100 \in 0..max
  BY <1>2, <1>3
<1> QED
  BY <1>1, <1>4, IngredientStockAssumption DEF ReorderLevel, StockAmounts

LEMMA LevelsAfterKeepTheRow ==
    ASSUME NEW row \in Ingredient, NEW next \in StockAmounts
    PROVE  LevelsAfter(row, next) \in Ingredient /\ LevelsAfter(row, next).stock = next
<1> DEFINE max == Larger(row.max, next)
<1>1. row.max \in StockAmounts /\ row.percent \in 0..100 /\ row.min \in StockAmounts
  BY DEF Ingredient
<1>2. max \in StockAmounts
  BY <1>1 DEF Larger
<1>3. ReorderLevel(max, row.percent, row.min) \in StockAmounts
  BY <1>1, <1>2, ReorderLevelIsAnAmount
<1>4. LevelsAfter(row, next) = [row EXCEPT !.stock = next, !.max = max,
                                   !.min = ReorderLevel(max, row.percent, row.min)]
  BY DEF LevelsAfter
<1> HIDE DEF max
<1> QED
  BY <1>2, <1>3, <1>4 DEF Ingredient

\* A movement to a stock, with lots that hold it and a row that says so.
LEMMA MovementAccounts ==
    ASSUME StockInv, NEW next \in StockAmounts, MoveTo(next), Holding(lots', next),
           replayed' = next, DisableIfDepleted(next), FormsStay
    PROVE  StockInv'
<1>1. ingredient' \in Ingredient /\ ingredient'.stock = next
  BY LevelsAfterKeepTheRow DEF StockInv, Accounts, MoveTo
<1>2. Forms'
  BY DEF StockInv, Forms, DisableIfDepleted, FormsStay
<1> QED
  BY <1>1, <1>2 DEF StockInv, Accounts

LEMMA InitAccounts == ShelfInit => StockInv
<1> SUFFICES ASSUME ShelfInit PROVE StockInv
  OBVIOUS
<1> PICK held \in StockAmounts, typed \in StockAmounts, percent \in Percents, expires \in Dates :
       LET max == Larger(held, typed)
       IN  /\ ingredient = [stock |-> held, max |-> max, percent |-> percent,
                            min |-> ReorderLevel(max, percent, typed)]
           /\ lots = IF held > 0 THEN CreateLot(<<>>, held, expires) ELSE <<>>
           /\ replayed = held
  BY DEF ShelfInit
<1>1. Larger(held, typed) \in StockAmounts /\ percent \in 0..100
  BY IngredientStockAssumption DEF Larger
<1>2. ingredient \in Ingredient /\ ingredient.stock = held
  BY <1>1, ReorderLevelIsAnAmount DEF Ingredient
<1>3. <<>> \in Seq(Lot) /\ Len(<<>>) = 0 /\ TotalOf(<<>>, DOMAIN <<>>) = 0
  BY SumOfNone DEF TotalOf
<1>4. Holding(lots, held)
  <2>1. CASE held = 0
    <3>1. lots = <<>>
      BY <2>1
    <3> QED
      BY <1>3, <2>1, <3>1, IngredientStockAssumption DEF Holding
  <2>2. CASE held > 0
    <3>1. lots = CreateLot(<<>>, held, expires)
      BY <2>2
    <3>2. Len(<<>>) < NumLots
      BY <1>3, IngredientStockAssumption
    <3>3. Holding(CreateLot(<<>>, held, expires), 0 + held)
      BY <1>3, <3>2, ReceivedLots
    <3>4. 0 + held = held
      BY IngredientStockAssumption DEF StockAmounts
    <3> QED
      BY <3>1, <3>3, <3>4
  <2> QED
    BY <2>1, <2>2, IngredientStockAssumption DEF StockAmounts
<1>5. Forms
  BY DEF ShelfInit, Forms
<1> QED
  BY <1>2, <1>4, <1>5 DEF StockInv, Accounts

LEMMA StockIsAnAmount ==
    ASSUME StockInv
    PROVE  /\ ingredient.stock \in Nat /\ ingredient.stock <= MaxQuantity
           /\ MaxQuantity \in Nat
           /\ Holding(lots, ingredient.stock) /\ replayed = ingredient.stock
BY IngredientStockAssumption DEF StockInv, Accounts, Ingredient, StockAmounts

LEMMA StockInAccounts ==
    ASSUME StockInv, NEW q \in StockAmounts, NEW d \in Dates, StockIn(q, d)
    PROVE  StockInv'
<1> DEFINE next == ingredient.stock + q
<1>1. next \in StockAmounts /\ q \in Nat
  BY StockIsAnAmount DEF StockIn, StockAmounts
<1>2. Holding(lots', next)
  <2>1. lots \in Seq(Lot) /\ TotalOf(lots, DOMAIN lots) = ingredient.stock
    BY StockIsAnAmount DEF Holding
  <2> QED
    BY <2>1, ReceivedLots DEF StockIn
<1> QED
  BY <1>1, <1>2, StockIsAnAmount, MovementAccounts DEF StockIn

LEMMA StockOutAccounts ==
    ASSUME StockInv, NEW q \in StockAmounts, StockOut(q)
    PROVE  StockInv'
<1> DEFINE next == ingredient.stock - q
<1>1. next \in StockAmounts /\ q \in Nat /\ q <= ingredient.stock
  BY StockIsAnAmount DEF StockOut, StockAmounts
<1>2. Holding(lots', next)
  BY <1>1, StockIsAnAmount, UsedLots DEF StockOut
<1> QED
  BY <1>1, <1>2, StockIsAnAmount, MovementAccounts DEF StockOut

LEMMA CountAccounts ==
    ASSUME StockInv, NEW q \in StockAmounts, Count(q)
    PROVE  StockInv'
<1>1. q \in Nat /\ q <= MaxQuantity
  BY StockIsAnAmount DEF StockAmounts
<1>2. Holding(lots', q)
  <2>1. CASE q > ingredient.stock
    <3>1. lots' = CreateLot(lots, q - ingredient.stock, Undated) /\ Len(lots) < NumLots
      BY <2>1 DEF Count
    <3>2. q - ingredient.stock \in StockAmounts /\ Undated \in Dates
      BY <1>1, <2>1, StockIsAnAmount, IngredientStockAssumption DEF StockAmounts, Undated, Dates
    <3>3. lots \in Seq(Lot) /\ TotalOf(lots, DOMAIN lots) = ingredient.stock
      BY StockIsAnAmount DEF Holding
    <3>4. Holding(lots', ingredient.stock + (q - ingredient.stock))
      BY <3>1, <3>2, <3>3, ReceivedLots
    <3>5. ingredient.stock + (q - ingredient.stock) = q
      BY <1>1, StockIsAnAmount
    <3> QED
      BY <3>4, <3>5
  <2>2. CASE ~ (q > ingredient.stock)
    <3>1. lots' = ShrinkLotsOldestFirst(lots, ingredient.stock - q)
      BY <2>2 DEF Count
    <3>2. /\ ingredient.stock - q \in Nat /\ ingredient.stock - q <= ingredient.stock
          /\ ingredient.stock - (ingredient.stock - q) = q
      BY <1>1, <2>2, StockIsAnAmount
    <3>3. Holding(lots', ingredient.stock - (ingredient.stock - q))
      BY <3>1, <3>2, StockIsAnAmount, UsedLots
    <3> QED
      BY <3>2, <3>3
  <2> QED
    BY <2>1, <2>2
<1> QED
  BY <1>2, MovementAccounts DEF Count

LEMMA CookAccounts ==
    ASSUME StockInv, NEW q \in StockAmounts, Cook(q)
    PROVE  StockInv'
<1> DEFINE removed == Smaller(q, ingredient.stock)
           next == ingredient.stock - removed
<1>1. removed \in Nat /\ removed <= ingredient.stock /\ next \in StockAmounts
  BY StockIsAnAmount DEF Smaller, StockAmounts
<1>2. Holding(lots', next) /\ replayed' = next
  BY <1>1, StockIsAnAmount, UsedLots DEF Cook
<1>3. ingredient' \in Ingredient /\ ingredient'.stock = next
  <2>1. ingredient' = [ingredient EXCEPT !.stock = @ - removed] /\ ingredient \in Ingredient
    BY DEF Cook, StockInv, Accounts
  <2> HIDE DEF removed
  <2> QED
    BY <1>1, <2>1 DEF Ingredient
<1>4. Forms'
  BY DEF StockInv, Forms, Cook, DisableIfDepleted, FormsStay
<1> QED
  BY <1>2, <1>3, <1>4 DEF StockInv, Accounts

LEMMA DiscardAccounts ==
    ASSUME StockInv, NEW lot \in DOMAIN lots, Discard(lot)
    PROVE  StockInv'
<1> DEFINE quantity == Smaller(lots[lot].remaining, ingredient.stock)
           next == ingredient.stock - quantity
<1>1. /\ lots[lot].remaining \in Nat /\ lots[lot].remaining <= ingredient.stock
      /\ \A q \in 0..lots[lot].remaining :
            Holding([lots EXCEPT ![lot].remaining = @ - q], ingredient.stock - q)
  BY StockIsAnAmount, DiscardedLot
<1>2. quantity \in 0..lots[lot].remaining /\ next \in StockAmounts
  BY <1>1, StockIsAnAmount DEF Smaller, StockAmounts
<1>3. lots' = [lots EXCEPT ![lot].remaining = @ - quantity] /\ replayed' = next
  BY StockIsAnAmount DEF Discard
<1>4. Holding(lots', next)
  BY <1>1, <1>2, <1>3
<1> QED
  BY <1>2, <1>3, <1>4, MovementAccounts DEF Discard

LEMMA UpdateLotExpiryAccounts ==
    ASSUME StockInv, NEW lot \in DOMAIN lots, NEW d \in Dates, UpdateLotExpiry(lot, d)
    PROVE  StockInv'
<1>1. Holding(lots', ingredient.stock)
  BY StockIsAnAmount, RedatedLot DEF UpdateLotExpiry
<1>2. Forms'
  BY DEF StockInv, Forms, UpdateLotExpiry
<1> QED
  BY <1>1, <1>2 DEF StockInv, Accounts, UpdateLotExpiry

LEMMA OpenFormAccounts ==
    ASSUME StockInv, NEW e \in IngredientEditors, OpenForm(e)
    PROVE  StockInv'
<1>1. Forms'
  BY DEF StockInv, Accounts, Forms, OpenForm
<1> QED
  BY <1>1 DEF StockInv, Accounts, OpenForm

\* A saved form changes the levels and leaves the stock.
LEMMA SaveFormAccounts ==
    ASSUME StockInv, NEW e \in IngredientEditors, NEW q \in StockAmounts,
           NEW p \in Percents, SaveForm(e, q, p)
    PROVE  StockInv'
<1> DEFINE max == Larger(Larger(form[e].max, form[e].stock), q)
           level == ReorderLevel(max, p, q)
<1>1. form[e] \in Ingredient
  BY DEF StockInv, Forms, SaveForm
<1>2. max \in StockAmounts
  BY <1>1 DEF Ingredient, Larger
<1>3. p \in 0..100
  BY IngredientStockAssumption
<1>4. level \in StockAmounts
  BY <1>2, <1>3, ReorderLevelIsAnAmount
<1>5. /\ ingredient' = [ingredient EXCEPT !.max = max, !.percent = p, !.min = level]
      /\ ingredient \in Ingredient
  BY DEF SaveForm, StockInv, Accounts
<1>6. ingredient' \in Ingredient /\ ingredient'.stock = ingredient.stock
  <2> HIDE DEF max, level
  <2> QED
    BY <1>2, <1>3, <1>4, <1>5 DEF Ingredient
<1>7. Forms'
  BY DEF StockInv, Forms, SaveForm
<1> QED
  BY <1>6, <1>7 DEF StockInv, Accounts, SaveForm

LEMMA DishFormAccounts ==
    ASSUME StockInv, NEW e \in MenuEditors,
           \/ OpenDish(e) \/ SavePrice(e)
           \/ \E available \in BOOLEAN : SaveAvailability(e, available)
    PROVE  StockInv'
<1>1. /\ UNCHANGED <<ingredient, lots, replayed, form>>
      /\ dishOnSale' \in BOOLEAN /\ dishForm' \in [MenuEditors -> {Closed} \cup BOOLEAN]
  BY DEF StockInv, Forms, OpenDish, SavePrice, SaveAvailability
<1> QED
  BY <1>1 DEF StockInv, Accounts, Forms

LEMMA StepAccounts == StockInv /\ [ShelfNext]_shelfVars => StockInv'
<1> SUFFICES ASSUME StockInv, [ShelfNext]_shelfVars PROVE StockInv'
  OBVIOUS
<1>1. ASSUME NEW q \in StockAmounts, NEW d \in Dates, StockIn(q, d) PROVE StockInv'
  BY <1>1, StockInAccounts
<1>2. ASSUME NEW q \in StockAmounts, StockOut(q) \/ Count(q) \/ Cook(q) PROVE StockInv'
  BY <1>2, StockOutAccounts, CountAccounts, CookAccounts
<1>3. ASSUME NEW i \in DOMAIN lots,
             Discard(i) \/ (\E d \in Dates : UpdateLotExpiry(i, d))
      PROVE  StockInv'
  BY <1>3, DiscardAccounts, UpdateLotExpiryAccounts
<1>4. ASSUME NEW e \in IngredientEditors,
             OpenForm(e) \/ (\E q \in StockAmounts, p \in Percents : SaveForm(e, q, p))
      PROVE  StockInv'
  BY <1>4, OpenFormAccounts, SaveFormAccounts
<1>5. ASSUME NEW e \in MenuEditors,
             OpenDish(e) \/ SavePrice(e) \/ (\E b \in BOOLEAN : SaveAvailability(e, b))
      PROVE  StockInv'
  BY <1>5, DishFormAccounts
<1>6. CASE UNCHANGED shelfVars
  BY <1>6 DEF StockInv, Accounts, Forms, shelfVars
<1> QED
  BY <1>1, <1>2, <1>3, <1>4, <1>5, <1>6 DEF ShelfNext

LEMMA ShelfInvariant == ShelfSpec => []StockInv
<1> QED
  BY InitAccounts, StepAccounts, PTL DEF ShelfSpec

\* The row, the lots, the forms and the replayed sum keep their types, whatever
\* is received, counted, cooked, discarded and saved.
THEOREM ShelfTypeCorrect == ShelfSpec => []ShelfTypeOK
<1>1. StockInv => ShelfTypeOK
  BY StockIsAnAmount DEF ShelfTypeOK, StockInv, Forms, Accounts, Holding
<1> QED
  BY <1>1, ShelfInvariant, PTL

\* The stock column, the lots and the movement rows always give one number.
THEOREM StockStaysExplained == ShelfSpec => []StockIsExplained
<1>1. StockInv => StockIsExplained
  BY DEF StockInv, Accounts, Holding, StockIsExplained, LotsHoldTheStock,
         MovementsExplainTheStock
<1> QED
  BY <1>1, ShelfInvariant, PTL

-----------------------------------------------------------------------------
(* The soonest expiry goes first *)

\* A lot that gives something has in front of it only lots that gave all.
LEMMA DrainTakesTheFrontFirst ==
    ASSUME NEW ls \in Seq(Lot), NEW quantity \in Nat,
           NEW i \in DOMAIN ls, NEW j \in DOMAIN ls,
           DrainLots(ls, quantity)[i].remaining < ls[i].remaining,
           ExpiresFirst(ls, j, i)
    PROVE  DrainLots(ls, quantity)[j].remaining = 0
<1> DEFINE front(k) == {m \in Open(ls) : ExpiresFirst(ls, m, k)}
           gives(k) == Gives(ls, k, quantity, front(k))
<1>1. ASSUME NEW k \in DOMAIN ls
      PROVE  /\ DrainLots(ls, quantity)[k].remaining = ls[k].remaining - gives(k)
             /\ ls[k].remaining \in Nat /\ TotalOf(ls, front(k)) \in Nat
  <2>1. DrainLots(ls, quantity)[k] = [ls[k] EXCEPT !.remaining = @ - gives(k)]
    BY DEF DrainLots
  <2>2. ls[k] \in Lot /\ front(k) \in SUBSET DOMAIN ls
    BY LotsAreAList DEF Open
  <2>3. ls[k].remaining \in Nat /\ TotalOf(ls, front(k)) \in Nat
    BY <2>2, RemainingIsNat, TotalOfPart
  <2> HIDE DEF front, gives
  <2> QED
    BY <2>1, <2>2, <2>3 DEF Lot
<1>2. quantity > TotalOf(ls, front(i))
  BY <1>1 DEF Gives, Smaller, Larger
<1>3. TotalOf(ls, front(i)) >= ls[j].remaining + TotalOf(ls, front(j))
  <2>1. CASE j \in Open(ls)
    <3>1. j \in front(i) /\ front(i) \in SUBSET DOMAIN ls
      BY <2>1 DEF Open
    <3>2. front(j) \in SUBSET (front(i) \ {j})
      BY SoonestLinesUp, BySoonestPairs DEF LinesUp, Open
    <3>3. TotalOf(ls, front(i)) = ls[j].remaining + TotalOf(ls, front(i) \ {j})
      BY <3>1, TotalWithout
    <3>4. TotalOf(ls, front(j)) <= TotalOf(ls, front(i) \ {j})
          /\ TotalOf(ls, front(i) \ {j}) \in Nat
      BY <3>1, <3>2, TotalOfPart
    <3> HIDE DEF front
    <3> QED
      BY <1>1, <3>3, <3>4
  <2>2. CASE j \notin Open(ls)
    <3>1. ls[j].remaining = 0
      BY <2>2, RemainingIsNat DEF Open
    <3>2. front(i) \in SUBSET DOMAIN ls /\ front(j) \in SUBSET front(i)
      BY SoonestLinesUp, BySoonestPairs DEF LinesUp, Open
    <3>3. TotalOf(ls, front(j)) <= TotalOf(ls, front(i))
      BY <3>2, TotalOfPart
    <3> HIDE DEF front
    <3> QED
      BY <1>1, <3>1, <3>3
  <2> QED
    BY <2>1, <2>2
<1>4. gives(j) = ls[j].remaining
  <2>1. TotalOf(ls, front(i)) \in Nat /\ TotalOf(ls, front(j)) \in Nat
        /\ ls[j].remaining \in Nat
    BY <1>1
  <2> HIDE DEF front
  <2> QED
    BY <1>2, <1>3, <2>1 DEF Gives, Smaller, Larger
<1> HIDE DEF front, gives
<1> QED
  BY <1>1, <1>4

\* Stock-out and the kitchen drain every open lot that expires before a lot
\* they touch.
THEOREM SoonestGoesFirst == ShelfSpec => SoonestIsUsedFirst
<1> DEFINE Soonest ==
       (\E q \in StockAmounts : StockOut(q) \/ Cook(q)) =>
          \A i, j \in DOMAIN lots :
             lots'[i].remaining < lots[i].remaining /\ ExpiresFirst(lots, j, i)
             => lots'[j].remaining = 0
<1>1. StockInv /\ [ShelfNext]_shelfVars => [Soonest]_shelfVars
  <2> SUFFICES ASSUME StockInv, NEW q \in StockAmounts, StockOut(q) \/ Cook(q),
                      NEW i \in DOMAIN lots, NEW j \in DOMAIN lots,
                      lots'[i].remaining < lots[i].remaining, ExpiresFirst(lots, j, i)
               PROVE  lots'[j].remaining = 0
    OBVIOUS
  <2>1. PICK quantity \in Nat : lots' = DrainLots(lots, quantity)
    <3>1. q \in Nat /\ Smaller(q, ingredient.stock) \in Nat
      BY StockIsAnAmount DEF Smaller, StockAmounts
    <3> QED
      BY <3>1 DEF StockOut, Cook
  <2>2. lots \in Seq(Lot)
    BY StockIsAnAmount DEF Holding
  <2> QED
    BY <2>1, <2>2, DrainTakesTheFrontFirst
<1> QED
  BY <1>1, ShelfInvariant, PTL DEF ShelfSpec, SoonestIsUsedFirst
=============================================================================
