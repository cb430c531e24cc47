---------------------------- MODULE FiniteLemmas ----------------------------
(***************************************************************************)
(* Facts about sums over finite sets, the extremes of finite sets of       *)
(* integers, and sequences: their lists of a set and their joins.          *)
(*                                                                         *)
(* SumFunctionOnSet is a recursive function that takes the elements in the *)
(* order of CHOOSE.  Here it is a number of pairs: those <<x, k>> with k   *)
(* in 1 .. f[x], less those with k in 1 .. -f[x] (SumIsCount), whatever    *)
(* the order.  Induction is by a minimal counterexample: SubsetInduction,  *)
(* NumberInduction, SequenceInduction.                                     *)
(***************************************************************************)
EXTENDS Integers, FiniteSets, FiniteSetsExt, SequencesExt, Functions,
        FiniteSetTheorems, SequenceTheorems, WellFoundedInduction, TLAPS

Units(f, S) == UNION {{x} \X (1 .. f[x]) : x \in S}
Above(n) == IF n > 0 THEN n ELSE 0
Debts(f, S) == UNION {{x} \X (1 .. -f[x]) : x \in S}

\* The units of x, and those of the others, are apart.
LEMMA UnitsOfOne ==
    ASSUME NEW x, NEW n \in Int
    PROVE  /\ IsFiniteSet({x} \X (1 .. n))
           /\ Cardinality({x} \X (1 .. n)) = Above(n)
<1>1. IsFiniteSet({x}) /\ Cardinality({x}) = 1
  BY FS_Singleton
<1>2. IsFiniteSet(1 .. n) /\ Cardinality(1 .. n) = IF 1 > n THEN 0 ELSE n - 1 + 1
  BY FS_Interval
<1>3. /\ IsFiniteSet({x} \X (1 .. n))
      /\ Cardinality({x} \X (1 .. n)) = Cardinality({x}) * Cardinality(1 .. n)
  BY <1>1, <1>2, FS_Product
<1> QED
  BY <1>1, <1>2, <1>3 DEF Above

\* Apart from the units of x, those of a set are those of the set without x.
LEMMA UnitsSplit ==
    ASSUME NEW f, NEW S, NEW x \in S, f[x] \in Int,
           IsFiniteSet(Units(f, S \ {x}))
    PROVE  /\ IsFiniteSet(Units(f, S))
           /\ Cardinality(Units(f, S))
                = Above(f[x]) + Cardinality(Units(f, S \ {x}))
<1> DEFINE A == {x} \X (1 .. f[x])
           B == Units(f, S \ {x})
           n == Above(f[x])
<1>1. Units(f, S) = A \cup B /\ A \cap B = {}
  BY DEF Units
<1>2. IsFiniteSet(A) /\ Cardinality(A) = n
  BY UnitsOfOne
<1>3. IsFiniteSet(B) /\ Cardinality(B) \in Nat
  BY FS_CardinalityType
<1>4. n \in Nat
  BY DEF Above
<1>5. Cardinality({}) = 0
  BY FS_EmptySet
<1> HIDE DEF A, B
<1>6. IsFiniteSet(A \cup B)
  BY <1>2, <1>3, FS_Union
<1>7. Cardinality(A \cup B) = Cardinality(A) + Cardinality(B) - Cardinality(A \cap B)
  BY <1>2, <1>3, FS_Union
<1>8. IsFiniteSet(Units(f, S))
  BY <1>1, <1>6
<1>9. Cardinality(Units(f, S)) = n + Cardinality(B)
  <2>1. Cardinality(A) = n
    BY <1>2
  <2>2. Cardinality(B) \in Nat
    BY <1>3
  <2>3. Cardinality(Units(f, S)) = Cardinality(A) + Cardinality(B) - 0
    BY <1>1, <1>5, <1>7, Zenon
  <2> HIDE DEF n
  <2> QED
    BY <1>4, <2>1, <2>2, <2>3
<1> QED
  BY <1>8, <1>9 DEF B

\* By a minimal counterexample: if a subset of a finite set is in Good whenever
\* those with one element less are, all of them are.
LEMMA SubsetInduction ==
    ASSUME NEW S, IsFiniteSet(S), NEW Good,
           \A s \in SUBSET S : (\A x \in s : s \ {x} \in Good) => s \in Good
    PROVE  SUBSET S \subseteq Good
<1> DEFINE Bad == {s \in SUBSET S : s \notin Good}
<1> SUFFICES ASSUME Bad # {} PROVE FALSE
  OBVIOUS
<1>1. IsWellFoundedOn(StrictSubsetOrdering(S), SUBSET S)
  <2> HIDE DEF Bad
  <2>1. FiniteSubsetsOf(S) = SUBSET S
    BY FS_FiniteSubsetsOfFinite
  <2>2. IsWellFoundedOn(StrictSubsetOrdering(S), FiniteSubsetsOf(S))
    BY FS_StrictSubsetOrderingWellFounded
  <2> QED
    BY <2>1, <2>2
<1>2. PICK s \in Bad : \A r \in Bad : ~ (<<r, s>> \in StrictSubsetOrdering(S))
  <2> HIDE DEF Bad
  <2>1. Bad \subseteq SUBSET S
    BY DEF Bad
  <2> QED
    BY <1>1, <2>1, WFMin
<1>3. ASSUME NEW x \in s
      PROVE  s \ {x} \in Good
  <2>1. s \ {x} \in SUBSET S /\ s \ {x} # s
    BY <1>2
  <2>2. <<s \ {x}, s>> \in StrictSubsetOrdering(S)
    BY <1>2, <2>1 DEF StrictSubsetOrdering
  <2> QED
    BY <1>2, <2>1, <2>2
<1> QED
  BY <1>2, <1>3

\* There are finitely many.
LEMMA UnitsFinite ==
    ASSUME NEW S, IsFiniteSet(S), NEW f, \A x \in S : f[x] \in Int
    PROVE  \A s \in SUBSET S : IsFiniteSet(Units(f, s))
<1> DEFINE Good == {s \in SUBSET S : IsFiniteSet(Units(f, s))}
<1>1. ASSUME NEW s \in SUBSET S, \A x \in s : s \ {x} \in Good
      PROVE  s \in Good
  <2>1. CASE s = {}
    <3>1. Units(f, s) = {}
      BY <2>1 DEF Units
    <3> QED
      BY <3>1, FS_EmptySet
  <2>2. CASE s # {}
    BY <1>1, <2>2, UnitsSplit
  <2> QED
    BY <2>1, <2>2
<1>2. SUBSET S \subseteq Good
  <2> HIDE DEF Good
  <2> QED
    BY <1>1, SubsetInduction
<1> QED
  BY <1>2

\* Debts are the units of the opposite values.
LEMMA DebtsAreUnits ==
    ASSUME NEW S, NEW f, NEW s \in SUBSET S
    PROVE  Debts(f, s) = Units([x \in S |-> -f[x]], s)
<1> DEFINE g == [x \in S |-> -f[x]]
<1>1. \A x \in s : {x} \X (1 .. -f[x]) = {x} \X (1 .. g[x])
  OBVIOUS
<1> HIDE DEF g
<1>2. {{x} \X (1 .. -f[x]) : x \in s} = {{x} \X (1 .. g[x]) : x \in s}
  BY <1>1
<1>3. Debts(f, s) = Units(g, s)
  BY <1>2 DEF Debts, Units
<1> QED
  BY <1>3 DEF g

\* What the sum over a subset is, whichever of its elements is taken first.
Count(f, s) == Cardinality(Units(f, s)) - Cardinality(Debts(f, s))

\* The count is an integer, to which each element adds its value.
LEMMA CountSplit ==
    ASSUME NEW S, IsFiniteSet(S), NEW f, \A x \in S : f[x] \in Int, NEW s \in SUBSET S
    PROVE  /\ Count(f, s) \in Int
           /\ \A x \in s : Count(f, s) = f[x] + Count(f, s \ {x})
<1> DEFINE g == [x \in S |-> -f[x]]
<1>1. \A x \in S : f[x] \in Int /\ g[x] \in Int
  OBVIOUS
<1> HIDE DEF g
<1>2. /\ \A r \in SUBSET S : IsFiniteSet(Units(f, r))
      /\ \A r \in SUBSET S : IsFiniteSet(Units(g, r))
  BY <1>1, UnitsFinite
<1>3. \A r \in SUBSET S : /\ Cardinality(Units(f, r)) \in Nat
                          /\ Cardinality(Units(g, r)) \in Nat
  BY <1>2, FS_CardinalityType
<1>4. \A r \in SUBSET S : Count(f, r) = Cardinality(Units(f, r)) - Cardinality(Units(g, r))
  BY DebtsAreUnits DEF Count, g
<1>5. ASSUME NEW x \in s
      PROVE  Count(f, s) = f[x] + Count(f, s \ {x})
  <2>1. s \ {x} \in SUBSET S /\ f[x] \in Int /\ g[x] \in Int
    BY <1>1
  <2>0. IsFiniteSet(Units(f, s \ {x})) /\ IsFiniteSet(Units(g, s \ {x}))
    BY <1>2, <2>1
  <2>2. Cardinality(Units(f, s))
          = Above(f[x]) + Cardinality(Units(f, s \ {x}))
    BY <2>1, <2>0, UnitsSplit
  <2>3. Cardinality(Units(g, s))
          = Above(g[x]) + Cardinality(Units(g, s \ {x}))
    BY <2>1, <2>0, UnitsSplit
  <2>4. g[x] = -f[x]
    BY DEF g
  <2> QED
    BY <1>3, <1>4, <2>1, <2>2, <2>3, <2>4 DEF Above
<1> QED
  BY <1>3, <1>4, <1>5

\* Nothing counts nothing.
LEMMA CountEmpty == ASSUME NEW f PROVE Count(f, {}) = 0
<1>1. Units(f, {}) = {} /\ Debts(f, {}) = {}
  BY DEF Units, Debts
<1> QED
  BY <1>1, FS_EmptySet DEF Count

\* The recursive function of the sum has a solution, the count, and no other.
LEMMA SumIsCount ==
    ASSUME NEW S, IsFiniteSet(S), NEW f, \A x \in S : f[x] \in Int
    PROVE  SumFunctionOnSet(f, S) = Count(f, S)
<1> DEFINE first(s) == CHOOSE x \in s : TRUE
           Solves(h) == h = [s \in SUBSET S |->
                               IF s = {} THEN 0 ELSE f[first(s)] + h[s \ {first(s)}]]
           iter == CHOOSE h : Solves(h)
           count == [s \in SUBSET S |-> Count(f, s)]
<1>1. SumFunctionOnSet(f, S) = iter[S]
  BY DEF SumFunctionOnSet, FoldFunctionOnSet, MapThenFoldSet
<1>2. \A s \in SUBSET S : s # {} => first(s) \in s /\ s \ {first(s)} \in SUBSET S
  OBVIOUS
<1> HIDE DEF first
<1>3. ASSUME NEW s \in SUBSET S
      PROVE  count[s] = IF s = {} THEN 0 ELSE f[first(s)] + count[s \ {first(s)}]
  <2>1. CASE s = {}
    BY <2>1, CountEmpty
  <2>2. CASE s # {}
    BY <1>2, <2>2, CountSplit
  <2> QED
    BY <2>1, <2>2
<1>4. Solves(count)
  BY <1>3
<1>5. Solves(iter)
  <2> HIDE DEF count
  <2> QED
    BY <1>4
<1> HIDE DEF iter
<1> DEFINE Good == {s \in SUBSET S : iter[s] = Count(f, s)}
<1>6. ASSUME NEW s \in SUBSET S, \A x \in s : s \ {x} \in Good
      PROVE  s \in Good
  <2>1. CASE s = {}
    BY <1>5, <2>1, CountEmpty
  <2>2. CASE s # {}
    <3>1. iter[s] = f[first(s)] + iter[s \ {first(s)}]
      BY <1>5, <2>2
    <3>2. s \ {first(s)} \in Good
      BY <1>2, <1>6, <2>2
    <3> QED
      BY <1>2, <2>2, <3>1, <3>2, CountSplit
  <2> QED
    BY <2>1, <2>2
<1>7. SUBSET S \subseteq Good
  <2> HIDE DEF Good
  <2> QED
    BY <1>6, SubsetInduction
<1> QED
  BY <1>1, <1>7
-----------------------------------------------------------------------------
(* Sums                                                                    *)

\* The sum of a function is the sum over its domain.
LEMMA SumOnDomain ==
    ASSUME NEW S, NEW R, NEW f \in [S -> R]
    PROVE  SumFunction(f) = SumFunctionOnSet(f, S)
BY DOMAIN f = S DEF SumFunction

\* A sum of integers is an integer.
LEMMA SumType ==
    ASSUME NEW S, IsFiniteSet(S), NEW f, \A x \in S : f[x] \in Int
    PROVE  SumFunctionOnSet(f, S) \in Int
BY SumIsCount, CountSplit

\* The sum of no values.
LEMMA SumEmpty == ASSUME NEW f PROVE SumFunctionOnSet(f, {}) = 0
BY FS_EmptySet, SumIsCount, CountEmpty

\* The sum of zeros.
LEMMA SumZero ==
    ASSUME NEW S, IsFiniteSet(S), NEW f, \A x \in S : f[x] = 0
    PROVE  SumFunctionOnSet(f, S) = 0
<1>1. Units(f, S) = {} /\ Debts(f, S) = {}
  BY DEF Units, Debts
<1>2. SumFunctionOnSet(f, S) = Count(f, S)
  BY SumIsCount
<1>3. Cardinality({}) = 0
  BY FS_EmptySet
<1> QED
  BY <1>1, <1>2, <1>3 DEF Count

\* Functions that agree on a set have the same sum over it.
LEMMA SumEqual ==
    ASSUME NEW S, IsFiniteSet(S), NEW f, NEW g, \A x \in S : f[x] \in Int /\ f[x] = g[x]
    PROVE  SumFunctionOnSet(f, S) = SumFunctionOnSet(g, S)
<1>1. /\ {{x} \X (1 .. f[x]) : x \in S} = {{x} \X (1 .. g[x]) : x \in S}
      /\ {{x} \X (1 .. -f[x]) : x \in S} = {{x} \X (1 .. -g[x]) : x \in S}
  OBVIOUS
<1>2. Units(f, S) = Units(g, S) /\ Debts(f, S) = Debts(g, S)
  BY <1>1 DEF Units, Debts
<1> QED
  BY <1>2, SumIsCount DEF Count

\* One value apart from the sum of the others.
LEMMA SumSplit ==
    ASSUME NEW S, IsFiniteSet(S), NEW f, \A x \in S : f[x] \in Int, NEW x \in S
    PROVE  SumFunctionOnSet(f, S) = f[x] + SumFunctionOnSet(f, S \ {x})
<1>1. IsFiniteSet(S \ {x})
  BY FS_RemoveElement
<1> QED
  BY <1>1, SumIsCount, CountSplit

\* A sum of which one value changes.
LEMMA SumChange ==
    ASSUME NEW S, IsFiniteSet(S), NEW f, NEW g, \A x \in S : f[x] \in Int /\ g[x] \in Int,
           NEW x \in S, \A y \in S \ {x} : g[y] = f[y]
    PROVE  SumFunctionOnSet(g, S) = SumFunctionOnSet(f, S) - f[x] + g[x]
<1>1. IsFiniteSet(S \ {x})
  BY FS_RemoveElement
<1>2. SumFunctionOnSet(f, S \ {x}) = SumFunctionOnSet(g, S \ {x})
  BY <1>1, SumEqual
<1>3. SumFunctionOnSet(f, S \ {x}) \in Int
  BY <1>1, SumType
<1>4. /\ SumFunctionOnSet(f, S) = f[x] + SumFunctionOnSet(f, S \ {x})
      /\ SumFunctionOnSet(g, S) = g[x] + SumFunctionOnSet(g, S \ {x})
  BY SumSplit
<1>5. f[x] \in Int /\ g[x] \in Int
  OBVIOUS
<1> QED
  BY <1>2, <1>3, <1>4, <1>5

\* A sum of natural numbers is one.
LEMMA SumNat ==
    ASSUME NEW S, IsFiniteSet(S), NEW f, \A x \in S : f[x] \in Nat
    PROVE  SumFunctionOnSet(f, S) \in Nat
<1>1. \A x \in S : f[x] \in Int
  OBVIOUS
<1>2. SumFunctionOnSet(f, S) = Cardinality(Units(f, S)) - Cardinality(Debts(f, S))
  BY <1>1, SumIsCount DEF Count
<1>3. Debts(f, S) = {}
  BY DEF Debts
<1>4. Cardinality(Debts(f, S)) = 0
  BY <1>3, FS_EmptySet
<1>5. IsFiniteSet(Units(f, S))
  BY <1>1, UnitsFinite
<1>6. Cardinality(Units(f, S)) \in Nat
  BY <1>5, FS_CardinalityType
<1> QED
  BY <1>2, <1>4, <1>6

\* If every positive value of f is at most the value of g at a point of its own, and
\* g has no negative ones, the sum of f is at most that of g.
LEMMA SumBelow ==
    ASSUME NEW S, IsFiniteSet(S), NEW f, \A x \in S : f[x] \in Int,
           NEW T, IsFiniteSet(T), NEW g, \A y \in T : g[y] \in Nat,
           NEW own,
           \A x \in S : f[x] > 0 => own[x] \in T /\ f[x] <= g[own[x]],
           \A x, y \in S : f[x] > 0 /\ f[y] > 0 /\ own[x] = own[y] => x = y
    PROVE  SumFunctionOnSet(f, S) <= SumFunctionOnSet(g, T)
<1>1. \A y \in T : g[y] \in Int
  OBVIOUS
<1>2. /\ SumFunctionOnSet(f, S) = Cardinality(Units(f, S)) - Cardinality(Debts(f, S))
      /\ SumFunctionOnSet(g, T) = Cardinality(Units(g, T)) - Cardinality(Debts(g, T))
  BY <1>1, SumIsCount DEF Count
<1>3. Cardinality(Debts(g, T)) = 0
  <2>1. Debts(g, T) = {}
    BY DEF Debts
  <2> QED
    BY <2>1, FS_EmptySet
<1>4. IsFiniteSet(Units(f, S)) /\ IsFiniteSet(Units(g, T)) /\ IsFiniteSet(Debts(f, S))
  <2>1. Debts(f, S) = Units([x \in S |-> -f[x]], S)
    BY DebtsAreUnits
  <2>2. \A x \in S : [y \in S |-> -f[y]][x] \in Int
    OBVIOUS
  <2>3. IsFiniteSet(Units([y \in S |-> -f[y]], S))
    BY <2>2, UnitsFinite
  <2> QED
    BY <1>1, <2>1, <2>3, UnitsFinite
<1>5. /\ Cardinality(Units(f, S)) \in Nat
      /\ Cardinality(Units(g, T)) \in Nat
      /\ Cardinality(Debts(f, S)) \in Nat
  BY <1>4, FS_CardinalityType
<1> DEFINE move == [u \in Units(f, S) |-> <<own[u[1]], u[2]>>]
<1>6. move \in Injection(Units(f, S), Units(g, T))
  <2>1. \A u \in Units(f, S) : /\ u = <<u[1], u[2]>>
                               /\ u[1] \in S /\ u[2] \in 1 .. f[u[1]] /\ f[u[1]] > 0
    BY DEF Units
  <2>2. ASSUME NEW u \in Units(f, S)
        PROVE  <<own[u[1]], u[2]>> \in Units(g, T)
    <3>1. own[u[1]] \in T /\ u[2] \in 1 .. g[own[u[1]]]
      BY <2>1
    <3> QED
      BY <3>1 DEF Units
  <2>3. ASSUME NEW u \in Units(f, S), NEW v \in Units(f, S), move[u] = move[v]
        PROVE  u = v
    <3>1. own[u[1]] = own[v[1]] /\ u[2] = v[2]
      BY <2>3
    <3>2. u[1] = v[1]
      BY <2>1, <3>1
    <3> QED
      BY <2>1, <3>1, <3>2
  <2>4. move \in [Units(f, S) -> Units(g, T)]
    BY <2>2
  <2> HIDE DEF move
  <2> QED
    BY <2>3, <2>4 DEF Injection, IsInjective
<1>7. Cardinality(Units(f, S)) <= Cardinality(Units(g, T))
  <2> HIDE DEF move
  <2> QED
    BY <1>4, <1>6, FS_Injection
<1> QED
  BY <1>2, <1>3, <1>5, <1>7

\* The same when every element accounts for itself.
LEMMA SumGrows ==
    ASSUME NEW S, IsFiniteSet(S), NEW f, \A x \in S : f[x] \in Int,
           NEW T, IsFiniteSet(T), NEW g, \A y \in T : g[y] \in Nat,
           \A x \in S : f[x] > 0 => x \in T /\ f[x] <= g[x]
    PROVE  SumFunctionOnSet(f, S) <= SumFunctionOnSet(g, T)
<1> DEFINE own == [x \in S |-> x]
<1>1. \A x \in S : f[x] > 0 => own[x] \in T /\ f[x] <= g[own[x]]
  OBVIOUS
<1>2. \A x, y \in S : f[x] > 0 /\ f[y] > 0 /\ own[x] = own[y] => x = y
  OBVIOUS
<1> HIDE DEF own
<1> QED
  BY <1>1, <1>2, SumBelow

-----------------------------------------------------------------------------
(* Extremes                                                                *)

\* A finite set of integers that is not empty has a greatest and a least element.
LEMMA Extremes ==
    ASSUME NEW S \in SUBSET Int, IsFiniteSet(S), S # {}
    PROVE  /\ Max(S) \in S /\ \A x \in S : x <= Max(S)
           /\ Min(S) \in S /\ \A x \in S : Min(S) <= x
<1> DEFINE Good == {s \in SUBSET S : s # {} => /\ \E m \in s : \A x \in s : x <= m
                                               /\ \E m \in s : \A x \in s : m <= x}
<1>1. ASSUME NEW s \in SUBSET S, \A x \in s : s \ {x} \in Good
      PROVE  s \in Good
  <2>1. CASE s = {}
    BY <2>1
  <2>2. CASE s # {}
    <3>1. PICK x \in s : TRUE
      BY <2>2
    <3>2. CASE s = {x}
      BY <3>1, <3>2
    <3>3. CASE s # {x}
      <4>1. s \ {x} # {} /\ s \ {x} \in Good
        BY <1>1, <3>1, <3>3
      <4>2. PICK m \in s \ {x} : \A y \in s \ {x} : y <= m
        BY <4>1
      <4>3. PICK n \in s \ {x} : \A y \in s \ {x} : n <= y
        BY <4>1
      <4>4. \E k \in s : \A y \in s : y <= k
        <5>1. CASE m <= x
          BY <3>1, <4>2, <5>1
        <5>2. CASE x <= m
          BY <3>1, <4>2, <5>2
        <5> QED
          BY <3>1, <4>2, <5>1, <5>2
      <4>5. \E k \in s : \A y \in s : k <= y
        <5>1. CASE n <= x
          BY <3>1, <4>3, <5>1
        <5>2. CASE x <= n
          BY <3>1, <4>3, <5>2
        <5> QED
          BY <3>1, <4>3, <5>1, <5>2
      <4> QED
        BY <4>4, <4>5
    <3> QED
      BY <3>2, <3>3
  <2> QED
    BY <2>1, <2>2
<1>2. SUBSET S \subseteq Good
  <2> HIDE DEF Good
  <2> QED
    BY <1>1, SubsetInduction
<1>3. /\ \E m \in S : \A x \in S : x <= m
      /\ \E m \in S : \A x \in S : m <= x
  BY <1>2
<1> QED
  BY <1>3 DEF Max, Min

\* The powers of two grow: the subsets of 1 .. m are subsets of 1 .. n.
LEMMA PowersGrow ==
    ASSUME NEW m \in Nat, NEW n \in Nat, m <= n
    PROVE  2^m \in Nat /\ 2^n \in Nat /\ 2^m <= 2^n
<1>1. /\ IsFiniteSet(1 .. m) /\ Cardinality(1 .. m) = m
      /\ IsFiniteSet(1 .. n) /\ Cardinality(1 .. n) = n
  BY FS_Interval
<1>2. /\ IsFiniteSet(SUBSET (1 .. m)) /\ Cardinality(SUBSET (1 .. m)) = 2^m
      /\ IsFiniteSet(SUBSET (1 .. n)) /\ Cardinality(SUBSET (1 .. n)) = 2^n
  BY <1>1, FS_SUBSET
<1>3. SUBSET (1 .. m) \in SUBSET (SUBSET (1 .. n))
  OBVIOUS
<1>4. Cardinality(SUBSET (1 .. m)) <= Cardinality(SUBSET (1 .. n))
  BY <1>2, <1>3, FS_Subset
<1>5. Cardinality(SUBSET (1 .. m)) \in Nat /\ Cardinality(SUBSET (1 .. n)) \in Nat
  BY <1>2, FS_CardinalityType
<1> QED
  BY <1>2, <1>4, <1>5
-----------------------------------------------------------------------------
(* Sequences                                                               *)

\* Induction over the natural numbers, with the numbers of which a fact holds as a
\* set: one that is not among them would have a least one.
LEMMA NumberInduction ==
    ASSUME NEW Good, 0 \in Good, \A n \in Nat : n \in Good => n + 1 \in Good
    PROVE  Nat \subseteq Good
<1> SUFFICES ASSUME NEW k \in Nat, k \notin Good PROVE FALSE
  OBVIOUS
<1> DEFINE Bad == {n \in 0 .. k : n \notin Good}
<1>1. Bad \in SUBSET Int /\ k \in Bad /\ IsFiniteSet(Bad)
  <2>1. IsFiniteSet(0 .. k) /\ Bad \in SUBSET (0 .. k)
    BY FS_Interval
  <2> QED
    BY <2>1, FS_Subset
<1>2. PICK m \in Bad : \A n \in Bad : m <= n
  <2> HIDE DEF Bad
  <2> QED
    BY <1>1, Extremes
<1>3. m \in Nat /\ m # 0 /\ m \in 0 .. k /\ m \notin Good
  BY <1>2
<1>4. m - 1 \in Nat /\ m - 1 \in 0 .. k /\ m - 1 < m
  BY <1>3
<1>5. m - 1 \in Good
  BY <1>2, <1>4
<1> QED
  BY <1>3, <1>4, <1>5

\* What sequences of a set satisfy if the empty one does and appending keeps it.
LEMMA SequenceInduction ==
    ASSUME NEW T, NEW Good, << >> \in Good,
           \A s \in Seq(T), x \in T : s \in Good => Append(s, x) \in Good
    PROVE  Seq(T) \subseteq Good
<1> DEFINE G == {n \in Nat : \A s \in Seq(T) : Len(s) = n => s \in Good}
<1>1. 0 \in G
  <2>1. \A s \in Seq(T) : Len(s) = 0 => s = << >>
    OBVIOUS
  <2> QED
    BY <2>1
<1>2. ASSUME NEW n \in Nat, n \in G
      PROVE  n + 1 \in G
  <2> SUFFICES ASSUME NEW s \in Seq(T), Len(s) = n + 1 PROVE s \in Good
    BY <1>2
  <2> DEFINE r == SubSeq(s, 1, n)
             x == s[n + 1]
  <2>1. r \in Seq(T) /\ Len(r) = n /\ x \in T /\ s = Append(r, x)
    OBVIOUS
  <2> HIDE DEF r, x
  <2>2. r \in Good
    BY <1>2, <2>1
  <2> QED
    BY <2>1, <2>2
<1>3. Nat \subseteq G
  <2> HIDE DEF G
  <2> QED
    BY <1>1, <1>2, NumberInduction
<1> QED
  BY <1>3

\* SetToSeq lists a finite set.
LEMMA ListOfSet ==
    ASSUME NEW S, IsFiniteSet(S)
    PROVE  SetToSeq(S) \in Seq(S) /\ Range(SetToSeq(S)) = S
<1> DEFINE n == Cardinality(S)
           f == SetToSeq(S)
<1>1. n \in Nat
  BY FS_CardinalityType
<1>2. ExistsBijection(1 .. n, S)
  BY FS_CardinalityType
<1>3. PICK g : g \in Bijection(1 .. n, S)
  BY <1>2 DEF ExistsBijection
<1>4. g \in [1 .. n -> S] /\ IsInjective(g)
  BY <1>3 DEF Bijection, Injection
<1>5. f \in [1 .. n -> S] /\ IsInjective(f)
  BY <1>4 DEF SetToSeq
<1> HIDE DEF f, n
<1>6. f \in Seq(S)
  BY <1>1, <1>5
<1>7. f \in Injection(1 .. n, S)
  BY <1>5 DEF Injection
<1>8. IsFiniteSet(1 .. n) /\ Cardinality(1 .. n) = n
  BY <1>1, FS_Interval
<1>9. f \in Surjection(1 .. n, S)
  BY <1>7, <1>8, FS_Injection DEF n
<1>10. Range(f) = S
  BY <1>5, <1>9 DEF Surjection, Range
<1> QED
  BY <1>6, <1>10 DEF f

\* A sequence with one more element, and what it holds.
LEMMA AppendFacts ==
    ASSUME NEW T, NEW s \in Seq(T), NEW x \in T
    PROVE  /\ DOMAIN Append(s, x) = 1 .. Len(s) + 1 /\ Append(s, x)[Len(s) + 1] = x
           /\ \A i \in 1 .. Len(s) : Append(s, x)[i] = s[i]
           /\ Append(s, x) = [i \in DOMAIN Append(s, x) |-> Append(s, x)[i]]
<1>1. DOMAIN Append(s, x) = 1 .. Len(s) + 1 /\ Append(s, x)[Len(s) + 1] = x
  OBVIOUS
<1>2. \A i \in 1 .. Len(s) : Append(s, x)[i] = s[i]
  OBVIOUS
<1> DEFINE a == Append(s, x)
<1>3. a \in Seq(T)
  OBVIOUS
<1>4. a = [i \in DOMAIN a |-> a[i]]
  <2> HIDE DEF a
  <2> QED
    BY <1>3
<1> QED
  BY <1>1, <1>2, <1>4

\* What is appended joins the elements of the sequence.
LEMMA AppendRange ==
    ASSUME NEW T, NEW s \in Seq(T), NEW x \in T
    PROVE  Range(Append(s, x)) = Range(s) \cup {x}
<1>1. /\ Append(s, x) = s \o <<x>> /\ s \in Seq(T) /\ <<x>> \in Seq(T)
  OBVIOUS
<1>2. Range(<<x>>) = {x}
  BY DEF Range
<1>3. Range(s \o <<x>>) = Range(s) \cup Range(<<x>>)
  BY <1>1, RangeConcatenation
<1> QED
  BY <1>1, <1>2, <1>3, Zenon


\* Joining is associative, and joins a list of two as two.
LEMMA JoinFacts ==
    ASSUME NEW T
    PROVE  /\ \A a \in Seq(T), b \in Seq(T) : a \o b \in Seq(T)
           /\ \A a \in Seq(T), b \in Seq(T), c \in Seq(T) : a \o (b \o c) = (a \o b) \o c
           /\ \A a \in Seq(T), x \in T, y \in T : a \o <<x, y>> = Append(Append(a, x), y)
           /\ \A a \in Seq(T), x \in T : Append(a, x) \in Seq(T)
           /\ \A x \in T, y \in T : <<x, y>> \in Seq(T)
<1>1. \A a \in Seq(T), b \in Seq(T) : a \o b \in Seq(T)
  OBVIOUS
<1>2. \A a \in Seq(T), b \in Seq(T), c \in Seq(T) : a \o (b \o c) = (a \o b) \o c
  OBVIOUS
<1>3. \A a \in Seq(T), x \in T, y \in T : a \o <<x, y>> = Append(Append(a, x), y)
  OBVIOUS
<1>4. \A a \in Seq(T), x \in T : Append(a, x) \in Seq(T)
  OBVIOUS
<1>5. \A x \in T, y \in T : <<x, y>> \in Seq(T)
  OBVIOUS
<1> QED
  BY <1>1, <1>2, <1>3, <1>4, <1>5

\* Joining, named so that a chain of it can be reordered by this one law.
Join(s, t) == s \o t

\* Joining keeps the type, and does not depend on how it is bracketed.
LEMMA JoinLaw ==
    ASSUME NEW T
    PROVE  \A s \in Seq(T), t \in Seq(T) :
             Join(s, t) \in Seq(T) /\ \A u \in Seq(T) : Join(s, Join(t, u)) = Join(Join(s, t), u)
<1> SUFFICES ASSUME NEW s \in Seq(T), NEW t \in Seq(T)
             PROVE  Join(s, t) \in Seq(T) /\ \A u \in Seq(T) : Join(s, Join(t, u)) = Join(Join(s, t), u)
  OBVIOUS
<1>1. Join(s, t) \in Seq(T)
  BY DEF Join
<1>2. ASSUME NEW u \in Seq(T) PROVE Join(s, Join(t, u)) = Join(Join(s, t), u)
  BY DEF Join
<1> QED
  BY <1>1, <1>2


\* The joins of the first sequences: the recursive function of FlattenSeq.
Joins(h, ss) ==
    h = [i \in 1 .. Len(ss) |-> IF i = 1 THEN ss[i] ELSE h[i - 1] \o ss[i]]

\* It has a solution, and with one more sequence the same up to there.
LEMMA JoinsExist ==
    ASSUME NEW T
    PROVE  \A ss \in Seq(Seq(T)) : \E h : Joins(h, ss)
<1> DEFINE Good == {ss \in Seq(Seq(T)) : \E h : Joins(h, ss)}
<1>1. << >> \in Good
  <2>1. << >> \in Seq(Seq(T)) /\ Len(<< >>) = 0
    OBVIOUS
  <2> DEFINE h == [i \in {} |-> << >>]
  <2>2. Joins(h, << >>)
    BY <2>1 DEF Joins
  <2> QED
    BY <2>1, <2>2
<1>2. ASSUME NEW ss \in Seq(Seq(T)), NEW x \in Seq(T), ss \in Good
      PROVE  Append(ss, x) \in Good
  <2> DEFINE n == Len(ss)
             tt == Append(ss, x)
  <2>1. PICK h : Joins(h, ss)
    BY <1>2
  <2>2. /\ n \in Nat /\ tt \in Seq(Seq(T)) /\ Len(tt) = n + 1
        /\ tt[n + 1] = x /\ \A i \in 1 .. n : tt[i] = ss[i]
    OBVIOUS
  <2> HIDE DEF n, tt
  <2> DEFINE g == [i \in 1 .. n + 1 |-> IF i <= n THEN h[i] ELSE IF n = 0 THEN x ELSE h[n] \o x]
  <2>3. ASSUME NEW i \in 1 .. n + 1
        PROVE  g[i] = IF i = 1 THEN tt[i] ELSE g[i - 1] \o tt[i]
    <3>1. CASE i <= n
      <4>1. i \in 1 .. n /\ g[i] = h[i]
        BY <2>2, <3>1
      <4>2. h[i] = IF i = 1 THEN ss[i] ELSE h[i - 1] \o ss[i]
        BY <2>1, <4>1 DEF Joins, n
      <4>3. i # 1 => i - 1 \in 1 .. n + 1 /\ g[i - 1] = h[i - 1]
        BY <2>2, <4>1
      <4> QED
        BY <2>2, <4>1, <4>2, <4>3
    <3>2. CASE i = n + 1
      <4>1. n # 0 => i - 1 \in 1 .. n + 1 /\ i - 1 <= n /\ i - 1 = n /\ g[i - 1] = h[n] /\ i # 1
        BY <2>2, <3>2
      <4>2. n = 0 => g[i] = x /\ i = 1
        BY <2>2, <3>2
      <4>3. n # 0 => g[i] = h[n] \o x
        BY <2>2, <3>2
      <4> QED
        BY <2>2, <3>2, <4>1, <4>2, <4>3
    <3> QED
      BY <2>2, <3>1, <3>2
  <2>4. Joins(g, tt)
    BY <2>2, <2>3 DEF Joins
  <2> QED
    BY <2>2, <2>4 DEF tt
<1>3. Seq(Seq(T)) \subseteq Good
  <2> HIDE DEF Good
  <2> QED
    BY <1>1, <1>2, SequenceInduction
<1> QED
  BY <1>3

\* Solutions of the recursion of a join, for a sequence and one element more, agree
\* up to the length of the former.
LEMMA JoinsAgree ==
    ASSUME NEW T, NEW ss \in Seq(Seq(T)), NEW x \in Seq(T), NEW h, Joins(h, ss),
           NEW g, Joins(g, Append(ss, x))
    PROVE  \A i \in 1 .. Len(ss) : g[i] = h[i]
<1> DEFINE n == Len(ss)
           tt == Append(ss, x)
           Good == {i \in Nat : i \in 1 .. n => g[i] = h[i]}
<1>1. /\ n \in Nat /\ tt \in Seq(Seq(T)) /\ Len(tt) = n + 1
      /\ \A i \in 1 .. n : tt[i] = ss[i]
  OBVIOUS
<1>2. \A i \in 1 .. n : h[i] = IF i = 1 THEN ss[i] ELSE h[i - 1] \o ss[i]
  BY DEF Joins
<1>3. \A i \in 1 .. Len(tt) : g[i] = IF i = 1 THEN tt[i] ELSE g[i - 1] \o tt[i]
  BY DEF Joins
<1> HIDE DEF n, tt
<1>4. ASSUME NEW k \in Nat, k \in Good
      PROVE  k + 1 \in Good
  <2> SUFFICES ASSUME k + 1 \in 1 .. n PROVE g[k + 1] = h[k + 1]
    OBVIOUS
  <2>1. k + 1 \in 1 .. Len(tt) /\ tt[k + 1] = ss[k + 1] /\ (k + 1) - 1 = k
    BY <1>1
  <2>2. CASE k = 0
    BY <1>2, <1>3, <2>1, <2>2
  <2>3. CASE k # 0
    <3>1. k \in 1 .. n /\ g[k] = h[k] /\ k + 1 # 1
      BY <1>1, <1>4, <2>3
    <3>2. h[k + 1] = h[k] \o ss[k + 1] /\ g[k + 1] = g[k] \o tt[k + 1]
      BY <1>2, <1>3, <2>1, <3>1
    <3> QED
      BY <2>1, <3>1, <3>2
  <2> QED
    BY <2>2, <2>3
<1>5. Nat \subseteq Good
  <2>1. 0 \in Good
    OBVIOUS
  <2> HIDE DEF Good
  <2> QED
    BY <1>4, <2>1, NumberInduction
<1> QED
  BY <1>1, <1>5 DEF n

\* FlattenSeq is the last of the joins.
LEMMA FlattenIsJoin ==
    ASSUME NEW ss, Len(ss) # 0
    PROVE  FlattenSeq(ss) = (CHOOSE h : Joins(h, ss))[Len(ss)]
BY DEF FlattenSeq, Joins

\* FlattenSeq joins sequences in their order.
LEMMA FlattenAppend ==
    ASSUME NEW T, NEW ss \in Seq(Seq(T)), NEW x \in Seq(T)
    PROVE  FlattenSeq(Append(ss, x)) = FlattenSeq(ss) \o x
<1> DEFINE n == Len(ss)
           tt == Append(ss, x)
           h == CHOOSE f : Joins(f, ss)
           g == CHOOSE f : Joins(f, tt)
<1>1. /\ n \in Nat /\ tt \in Seq(Seq(T)) /\ Len(tt) = n + 1 /\ tt[n + 1] = x
  OBVIOUS
<1>2. FlattenSeq(tt) = g[Len(tt)]
  <2>1. Len(tt) # 0
    BY <1>1
  <2> HIDE DEF tt
  <2> QED
    BY <2>1, FlattenIsJoin
<1>3. n # 0 => FlattenSeq(ss) = h[n]
  BY FlattenIsJoin
<1>4. Joins(h, ss)
  BY JoinsExist
<1>5. Joins(g, tt)
  <2> HIDE DEF tt
  <2> QED
    BY <1>1, JoinsExist
<1> HIDE DEF h, g
<1>6. n + 1 \in 1 .. Len(tt) /\ g[n + 1] = IF n + 1 = 1 THEN tt[n + 1] ELSE g[(n + 1) - 1] \o tt[n + 1]
  <2>1. \A i \in 1 .. Len(tt) : g[i] = IF i = 1 THEN tt[i] ELSE g[i - 1] \o tt[i]
    BY <1>5 DEF Joins
  <2> HIDE DEF n, tt
  <2> QED
    BY <1>1, <2>1
<1>7. CASE n = 0
  <2>1. ss = << >> /\ FlattenSeq(ss) = << >>
    BY <1>7 DEF FlattenSeq
  <2>2. << >> \o x = x
    OBVIOUS
  <2>3. FlattenSeq(tt) = x
    BY <1>1, <1>2, <1>6, <1>7
  <2> QED
    BY <2>1, <2>2, <2>3
<1>8. CASE n # 0
  <2>1. \A i \in 1 .. n : g[i] = h[i]
    BY <1>4, <1>5, JoinsAgree
  <2>2. n \in 1 .. n /\ (n + 1) - 1 = n /\ n + 1 # 1
    BY <1>1, <1>8
  <2>3. FlattenSeq(tt) = h[n] \o x
    <3> HIDE DEF n, tt
    <3> QED
      BY <1>1, <1>2, <1>6, <2>1, <2>2
  <2> QED
    BY <1>3, <1>8, <2>3
<1> QED
  BY <1>7, <1>8

\* Joined sequences of a set are a sequence of the set.
LEMMA FlattenType ==
    ASSUME NEW T
    PROVE  \A ss \in Seq(Seq(T)) : FlattenSeq(ss) \in Seq(T)
<1> DEFINE Good == {ss \in Seq(Seq(T)) : FlattenSeq(ss) \in Seq(T)}
<1>1. << >> \in Good
  <2>1. << >> \in Seq(Seq(T)) /\ Len(<< >>) = 0 /\ << >> \in Seq(T)
    OBVIOUS
  <2> QED
    BY <2>1 DEF FlattenSeq
<1>2. ASSUME NEW ss \in Seq(Seq(T)), NEW x \in Seq(T), ss \in Good
      PROVE  Append(ss, x) \in Good
  <2>1. FlattenSeq(Append(ss, x)) = FlattenSeq(ss) \o x
    BY FlattenAppend
  <2>2. FlattenSeq(ss) \in Seq(T)
    BY <1>2
  <2>3. FlattenSeq(ss) \o x \in Seq(T)
    BY <2>2
  <2>4. Append(ss, x) \in Seq(Seq(T))
    OBVIOUS
  <2> QED
    BY <2>1, <2>3, <2>4
<1>3. Seq(Seq(T)) \subseteq Good
  <2> HIDE DEF Good
  <2> QED
    BY <1>1, <1>2, SequenceInduction
<1> QED
  BY <1>3
=============================================================================
