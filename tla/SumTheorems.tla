---------------------------- MODULE SumTheorems ----------------------------
(***************************************************************************)
(* What SumFunction of the community modules computes: a sum over a finite *)
(* set does not depend on the order of its terms.  The modules that count  *)
(* clicks over all workers and codes rest on these lemmas.                 *)
(*                                                                         *)
(* SumFunction is a fold, so its recursion is shown to have a solution:    *)
(* the number of tokens, f[x] of them for every x.                         *)
(***************************************************************************)
EXTENDS Integers, Functions, FiniteSetTheorems, WellFoundedInduction, TLAPS

Tokens(f, T) == {p \in T \X Nat : 1 <= p[2] /\ p[2] <= f[p[1]]}
Count(f, T) == Cardinality(Tokens(f, T))

\* Induction over the subsets of a finite set, for a set of good subsets.
LEMMA SubsetInduction ==
  ASSUME NEW S, IsFiniteSet(S), NEW Good,
         \A T \in SUBSET S : (\A x \in T : T \ {x} \in Good) => T \in Good
  PROVE  \A T \in SUBSET S : T \in Good
<1> DEFINE Bad == (SUBSET S) \ Good
<1>1. IsWellFoundedOn(StrictSubsetOrdering(S), SUBSET S)
  BY FS_FiniteSubsetsOfFinite, FS_StrictSubsetOrderingWellFounded
<1>2. SUFFICES ASSUME Bad # {} PROVE FALSE
  OBVIOUS
<1>3. Bad \subseteq SUBSET S
  OBVIOUS
<1>4. PICK T \in Bad : \A U \in Bad : ~ (<<U, T>> \in StrictSubsetOrdering(S))
  <2> HIDE DEF Bad
  <2> QED
    BY <1>1, <1>2, <1>3, WFMin
<1>5. ASSUME NEW x \in T PROVE T \ {x} \in Good
  <2>1. <<T \ {x}, T>> \in StrictSubsetOrdering(S)
    BY DEF StrictSubsetOrdering
  <2> QED
    BY <1>4, <2>1
<1> QED
  BY <1>4, <1>5

-----------------------------------------------------------------------------
(* Counting tokens *)

LEMMA TokensOfOne ==
  ASSUME NEW S, NEW f \in [S -> Nat], NEW x \in S
  PROVE  IsFiniteSet(Tokens(f, {x})) /\ Cardinality(Tokens(f, {x})) = f[x]
<1>1. Tokens(f, {x}) = {x} \X (1..f[x])
  BY DEF Tokens
<1>2. IsFiniteSet({x}) /\ Cardinality({x}) = 1
  BY FS_Singleton
<1>3. f[x] \in Nat /\ f[x] \in Int
  OBVIOUS
<1>4. IsFiniteSet(1..f[x]) /\ Cardinality(1..f[x]) = f[x]
  BY <1>3, FS_Interval
<1>5. /\ IsFiniteSet({x} \X (1..f[x]))
      /\ Cardinality({x} \X (1..f[x])) = Cardinality({x}) * Cardinality(1..f[x])
  BY <1>2, <1>4, FS_Product, Zenon
<1>6. 1 * f[x] = f[x]
  BY <1>3
<1> QED
  BY <1>1, <1>2, <1>4, <1>5, <1>6

LEMMA CountEmpty == ASSUME NEW f PROVE IsFiniteSet(Tokens(f, {})) /\ Count(f, {}) = 0
<1>1. Tokens(f, {}) = {}
  BY DEF Tokens
<1> QED
  BY <1>1, FS_EmptySet DEF Count

\* The tokens of T are those of x and those of the rest.
LEMMA TokensSplit ==
  ASSUME NEW S, NEW f \in [S -> Nat], NEW T \in SUBSET S, NEW x \in T,
         IsFiniteSet(Tokens(f, T \ {x}))
  PROVE  /\ IsFiniteSet(Tokens(f, T))
         /\ Count(f, T) = f[x] + Count(f, T \ {x})
<1>1. Tokens(f, T) = Tokens(f, {x}) \cup Tokens(f, T \ {x})
  BY DEF Tokens
<1>2. Tokens(f, {x}) \cap Tokens(f, T \ {x}) = {}
  BY DEF Tokens
<1>3. IsFiniteSet(Tokens(f, {x})) /\ Cardinality(Tokens(f, {x})) = f[x]
  BY TokensOfOne
<1>4. Count(f, T \ {x}) \in Nat /\ f[x] \in Nat
  BY FS_CardinalityType DEF Count
<1>5. /\ IsFiniteSet(Tokens(f, T))
      /\ Cardinality(Tokens(f, T)) = Cardinality(Tokens(f, {x}))
           + Cardinality(Tokens(f, T \ {x})) - Cardinality(Tokens(f, {x}) \cap Tokens(f, T \ {x}))
  BY <1>1, <1>3, FS_Union, Zenon
<1>6. Cardinality(Tokens(f, {x}) \cap Tokens(f, T \ {x})) = 0
  BY <1>2, FS_EmptySet
<1> QED
  BY <1>3, <1>4, <1>5, <1>6 DEF Count

LEMMA TokensFinite ==
  ASSUME NEW S, IsFiniteSet(S), NEW f \in [S -> Nat], NEW T \in SUBSET S
  PROVE  IsFiniteSet(Tokens(f, T)) /\ Count(f, T) \in Nat
<1> DEFINE Good == {U \in SUBSET S : IsFiniteSet(Tokens(f, U))}
<1>1. ASSUME NEW U \in SUBSET S, \A x \in U : U \ {x} \in Good PROVE U \in Good
  <2>1. CASE U = {}
    BY <2>1, CountEmpty
  <2>2. CASE U # {}
    <3>1. PICK x \in U : TRUE
      BY <2>2
    <3> QED
      BY <1>1, <3>1, TokensSplit
  <2> QED
    BY <2>1, <2>2
<1>2. \A U \in SUBSET S : U \in Good
  <2> HIDE DEF Good
  <2> QED
    BY <1>1, SubsetInduction
<1> QED
  BY <1>2, FS_CardinalityType DEF Count

LEMMA CountStep ==
  ASSUME NEW S, IsFiniteSet(S), NEW f \in [S -> Nat], NEW T \in SUBSET S, NEW x \in T
  PROVE  Count(f, T) = f[x] + Count(f, T \ {x})
  BY TokensFinite, TokensSplit

-----------------------------------------------------------------------------
(* The fold computes the count *)

Recursion(f, S, iter) ==
  iter = [s \in SUBSET S |-> IF s = {} THEN 0
                             ELSE LET x == CHOOSE x \in s : TRUE IN f[x] + iter[s \ {x}]]

LEMMA RecursionExists ==
  ASSUME NEW S, IsFiniteSet(S), NEW f \in [S -> Nat]
  PROVE  \E iter : Recursion(f, S, iter)
<1> DEFINE count == [s \in SUBSET S |-> Count(f, s)]
<1>1. ASSUME NEW s \in SUBSET S
      PROVE count[s] = IF s = {} THEN 0
                       ELSE LET x == CHOOSE x \in s : TRUE IN f[x] + count[s \ {x}]
  <2>1. CASE s = {}
    BY <2>1, CountEmpty
  <2>2. CASE s # {}
    <3> DEFINE x == CHOOSE x \in s : TRUE
    <3>1. x \in s
      BY <2>2
    <3>2. count[s] = Count(f, s) /\ count[s \ {x}] = Count(f, s \ {x})
      OBVIOUS
    <3> HIDE DEF x, count
    <3>3. Count(f, s) = f[x] + Count(f, s \ {x})
      BY <3>1, CountStep
    <3> QED
      BY <2>2, <3>2, <3>3 DEF x
  <2> QED
    BY <2>1, <2>2
<1>2. Recursion(f, S, count)
  BY <1>1 DEF Recursion
<1> QED
  BY <1>2

LEMMA RecursionCounts ==
  ASSUME NEW S, IsFiniteSet(S), NEW f \in [S -> Nat], NEW iter, Recursion(f, S, iter)
  PROVE  \A T \in SUBSET S : iter[T] = Count(f, T)
<1> DEFINE Good == {T \in SUBSET S : iter[T] = Count(f, T)}
<1>1. ASSUME NEW T \in SUBSET S, \A x \in T : T \ {x} \in Good PROVE T \in Good
  <2>1. CASE T = {}
    BY <2>1, CountEmpty DEF Recursion
  <2>2. CASE T # {}
    <3> DEFINE x == CHOOSE x \in T : TRUE
    <3>1. x \in T
      BY <2>2
    <3>2. iter[T] = f[x] + iter[T \ {x}]
      BY <2>2 DEF Recursion
    <3>3. iter[T \ {x}] = Count(f, T \ {x})
      BY <1>1, <3>1
    <3> HIDE DEF x, Good
    <3>4. Count(f, T) = f[x] + Count(f, T \ {x})
      BY <3>1, CountStep
    <3>5. iter[T] = Count(f, T)
      BY <3>2, <3>3, <3>4
    <3> QED
      BY <3>5 DEF Good
  <2> QED
    BY <2>1, <2>2
<1>2. \A T \in SUBSET S : T \in Good
  <2> HIDE DEF Good
  <2> QED
    BY <1>1, SubsetInduction
<1> QED
  BY <1>2

LEMMA SumIsCount ==
  ASSUME NEW S, IsFiniteSet(S), NEW f \in [S -> Nat]
  PROVE  SumFunction(f) = Count(f, S)
<1>1. DOMAIN f = S
  OBVIOUS
<1>2. SumFunction(f) = (CHOOSE iter : Recursion(f, S, iter))[S]
  BY <1>1 DEF SumFunction, SumFunctionOnSet, FoldFunctionOnSet, MapThenFoldSet, Recursion
<1>3. Recursion(f, S, CHOOSE iter : Recursion(f, S, iter))
  BY RecursionExists
<1> QED
  BY <1>2, <1>3, RecursionCounts

-----------------------------------------------------------------------------
(* Sums *)

LEMMA SumType ==
  ASSUME NEW S, IsFiniteSet(S), NEW f \in [S -> Nat]
  PROVE  SumFunction(f) \in Nat
  BY SumIsCount, TokensFinite

\* A term is at most the sum.
LEMMA TermBelowSum ==
  ASSUME NEW S, IsFiniteSet(S), NEW f \in [S -> Nat], NEW x \in S
  PROVE  f[x] <= SumFunction(f)
<1>1. Count(f, S) = f[x] + Count(f, S \ {x})
  BY CountStep
<1>2. Count(f, S \ {x}) \in Nat
  BY TokensFinite
<1> QED
  BY <1>1, <1>2, SumIsCount

LEMMA SumMonotone ==
  ASSUME NEW S, IsFiniteSet(S), NEW f \in [S -> Nat], NEW g \in [S -> Nat],
         \A x \in S : f[x] <= g[x]
  PROVE  SumFunction(f) <= SumFunction(g)
<1>1. Tokens(f, S) \subseteq Tokens(g, S)
  <2> SUFFICES ASSUME NEW x \in S, NEW n \in Nat, 1 <= n, n <= f[x] PROVE n <= g[x]
    BY DEF Tokens
  <2>1. f[x] \in Nat /\ g[x] \in Nat /\ f[x] <= g[x]
    OBVIOUS
  <2> QED
    BY <2>1
<1>2. IsFiniteSet(Tokens(g, S))
  BY TokensFinite
<1> QED
  BY <1>1, <1>2, FS_Subset, SumIsCount DEF Count

LEMMA SumZero ==
  ASSUME NEW S, IsFiniteSet(S), NEW f \in [S -> Nat], \A x \in S : f[x] = 0
  PROVE  SumFunction(f) = 0
<1>1. Tokens(f, S) = {}
  BY DEF Tokens
<1> QED
  BY <1>1, FS_EmptySet, SumIsCount DEF Count

LEMMA SumBound ==
  ASSUME NEW S, IsFiniteSet(S), NEW f \in [S -> Nat], NEW k \in Nat, \A x \in S : f[x] <= k
  PROVE  SumFunction(f) <= k * Cardinality(S)
<1>1. Tokens(f, S) \subseteq S \X (1..k)
  <2> SUFFICES ASSUME NEW x \in S, NEW n \in Nat, 1 <= n, n <= f[x] PROVE n <= k
    BY DEF Tokens
  <2>1. f[x] \in Nat /\ f[x] <= k
    OBVIOUS
  <2> QED
    BY <2>1
<1>2. IsFiniteSet(1..k) /\ Cardinality(1..k) = k
  BY FS_Interval
<1>3. IsFiniteSet(S \X (1..k)) /\ Cardinality(S \X (1..k)) = Cardinality(S) * k
  BY <1>2, FS_Product
<1>4. Cardinality(Tokens(f, S)) <= Cardinality(S) * k
  BY <1>1, <1>3, FS_Subset
<1>5. Cardinality(S) * k = k * Cardinality(S)
  BY FS_CardinalityType
<1> QED
  BY <1>4, <1>5, SumIsCount DEF Count

\* When one term changes, the sum changes with it.
LEMMA SumUpdate ==
  ASSUME NEW S, IsFiniteSet(S), NEW f \in [S -> Nat], NEW g \in [S -> Nat], NEW x \in S,
         \A y \in S \ {x} : g[y] = f[y]
  PROVE  SumFunction(g) = SumFunction(f) - f[x] + g[x]
<1>1. Tokens(f, S \ {x}) = Tokens(g, S \ {x})
  BY DEF Tokens
<1>2. Count(f, S \ {x}) = Count(g, S \ {x}) /\ Count(f, S \ {x}) \in Nat
  BY <1>1, TokensFinite DEF Count
<1>3. Count(f, S) = f[x] + Count(f, S \ {x}) /\ Count(g, S) = g[x] + Count(g, S \ {x})
  BY CountStep
<1>4. f[x] \in Nat /\ g[x] \in Nat
  OBVIOUS
<1> QED
  BY <1>2, <1>3, <1>4, SumIsCount

\* A sum of sums is the sum of the terms.
LEMMA SumPlus ==
  ASSUME NEW S, IsFiniteSet(S), NEW f \in [S -> Nat], NEW g \in [S -> Nat], NEW h \in [S -> Nat],
         \A x \in S : f[x] = g[x] + h[x]
  PROVE  SumFunction(f) = SumFunction(g) + SumFunction(h)
<1> DEFINE Good == {T \in SUBSET S : Count(f, T) = Count(g, T) + Count(h, T)}
<1>1. ASSUME NEW T \in SUBSET S, \A x \in T : T \ {x} \in Good PROVE T \in Good
  <2>1. CASE T = {}
    BY <2>1, CountEmpty
  <2>2. CASE T # {}
    <3>1. PICK x \in T : TRUE
      BY <2>2
    <3> DEFINE R == T \ {x}
    <3>2. Count(f, R) = Count(g, R) + Count(h, R)
      BY <1>1
    <3>3. Count(f, R) \in Nat /\ Count(g, R) \in Nat /\ Count(h, R) \in Nat
      BY TokensFinite
    <3>4. /\ Count(f, T) = f[x] + Count(f, R) /\ Count(g, T) = g[x] + Count(g, R)
          /\ Count(h, T) = h[x] + Count(h, R)
      BY CountStep
    <3>5. f[x] = g[x] + h[x] /\ g[x] \in Nat /\ h[x] \in Nat
      OBVIOUS
    <3> HIDE DEF R
    <3> QED
      BY <3>2, <3>3, <3>4, <3>5
  <2> QED
    BY <2>1, <2>2
<1>2. \A T \in SUBSET S : T \in Good
  <2> HIDE DEF Good
  <2> QED
    BY <1>1, SubsetInduction
<1> QED
  BY <1>2, SumIsCount

=============================================================================
