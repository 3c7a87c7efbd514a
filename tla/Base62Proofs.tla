---------------------------- MODULE Base62Proofs ----------------------------
(***************************************************************************)
(* Decode undoes Encode, for every ID and every base.  Both are loops, so  *)
(* the recursive function and the fold that model them are first shown to  *)
(* have one solution; induction is by a smallest counterexample, over a    *)
(* set of good numbers.                                                    *)
(***************************************************************************)
EXTENDS ShortCodes, IdAllocatorProofs, WellFoundedInduction

-----------------------------------------------------------------------------
(* Induction over the naturals, for a set of good ones *)

LEMMA StrongInduction ==
  ASSUME NEW Good, \A n \in Nat : (\A m \in Nat : m < n => m \in Good) => n \in Good
  PROVE  \A n \in Nat : n \in Good
<1> DEFINE Bad == Nat \ Good
<1>1. SUFFICES ASSUME Bad # {} PROVE FALSE
  OBVIOUS
<1>2. Bad \subseteq Nat
  OBVIOUS
<1>3. PICK n \in Bad : \A m \in Bad : ~ (<<m, n>> \in OpToRel(<, Nat))
  <2> HIDE DEF Bad
  <2> QED
    BY <1>1, <1>2, NatLessThanWellFounded, WFMin
<1>4. ASSUME NEW m \in Nat, m < n PROVE m \in Good
  <2>1. <<m, n>> \in OpToRel(<, Nat)
    BY <1>3, <1>4 DEF OpToRel
  <2> QED
    BY <1>3, <2>1
<1> QED
  BY <1>3, <1>4

LEMMA Induction ==
  ASSUME NEW Good, 0 \in Good, \A n \in Nat : n \in Good => n + 1 \in Good
  PROVE  \A n \in Nat : n \in Good
<1>1. ASSUME NEW n \in Nat, \A m \in Nat : m < n => m \in Good PROVE n \in Good
  <2>1. CASE n = 0
    BY <2>1
  <2>2. CASE n # 0
    <3>1. n - 1 \in Nat /\ n - 1 < n /\ (n - 1) + 1 = n
      BY <2>2
    <3>2. n - 1 \in Good
      BY <1>1, <3>1
    <3> QED
      BY <3>1, <3>2
  <2> QED
    BY <2>1, <2>2
<1> QED
  BY <1>1, StrongInduction

LEMMA Division ==
  ASSUME NEW n \in Nat
  PROVE  /\ n \div Base \in Nat /\ n % Base \in 0..(Base - 1)
         /\ (n \div Base) * Base + (n % Base) = n
         /\ n # 0 => n \div Base < n
<1>1. Base \in Nat /\ Base >= 2 /\ Base > 0
  BY BaseAssumption
<1>2. \A b \in Nat : b > 0 => n \div b \in Int /\ n % b \in 0..(b - 1)
  OBVIOUS
<1>3. \A b \in Nat : b > 0 => n = b * (n \div b) + (n % b)
  OBVIOUS
<1> DEFINE q == n \div Base
           r == n % Base
<1>4. q \in Int /\ r \in Int /\ 0 <= r /\ r < Base /\ n = Base * q + r
  BY <1>1, <1>2, <1>3
<1> HIDE DEF q, r
<1>5. q >= 0
  BY <1>1, <1>4
<1>6. Base * q = q * Base
  BY <1>1, <1>4
<1>7. n # 0 => q < n
  BY <1>1, <1>4, <1>5
<1>8. q \in Nat /\ r \in 0..(Base - 1) /\ q * Base + r = n
  BY <1>1, <1>4, <1>5, <1>6
<1> QED
  BY <1>7, <1>8 DEF q, r

-----------------------------------------------------------------------------
(* The recursion of Remainders has one solution *)

Digit == 0..(Base - 1)
Step(f, n) == IF n = 0 THEN <<>> ELSE <<n % Base>> \o f[n \div Base]
Upto(f, n) == f = [m \in 0..n |-> Step(f, m)]

LEMMA UptoAgree ==
  ASSUME NEW f, NEW g, NEW n \in Nat, NEW k \in Nat, Upto(f, n), Upto(g, k)
  PROVE  \A m \in Nat : m <= n /\ m <= k => f[m] = g[m]
<1> DEFINE Good == {m \in Nat : m <= n /\ m <= k => f[m] = g[m]}
<1>1. ASSUME NEW m \in Nat, \A l \in Nat : l < m => l \in Good PROVE m \in Good
  <2>1. CASE m <= n /\ m <= k
    <3>1. f[m] = Step(f, m) /\ g[m] = Step(g, m)
      <4>1. m \in 0..n /\ m \in 0..k
        BY <2>1
      <4> QED
        BY <4>1 DEF Upto
    <3>2. m # 0 => f[m \div Base] = g[m \div Base]
      <4> DEFINE q == m \div Base
      <4>1. m # 0 => q \in Nat /\ q < m
        BY Division
      <4> HIDE DEF q
      <4>2. m # 0 => q \in Good /\ q <= n /\ q <= k
        BY <1>1, <2>1, <4>1
      <4> QED
        BY <4>2 DEF q
    <3> QED
      BY <3>1, <3>2 DEF Step
  <2> QED
    BY <2>1
<1>2. \A m \in Nat : m \in Good
  <2> HIDE DEF Good
  <2> QED
    BY <1>1, StrongInduction
<1> QED
  BY <1>2

LEMMA UptoExists == \A n \in Nat : \E f : Upto(f, n)
<1> DEFINE Good == {n \in Nat : \E f : Upto(f, n)}
<1>1. 0 \in Good
  <2> DEFINE f == [m \in 0..0 |-> <<>>]
  <2>1. Upto(f, 0)
    BY DEF Upto, Step
  <2> QED
    BY <2>1
<1>2. ASSUME NEW n \in Nat, n \in Good PROVE n + 1 \in Good
  <2>1. PICK f : Upto(f, n)
    BY <1>2
  <2> DEFINE g == [m \in 0..(n + 1) |-> IF m <= n THEN f[m] ELSE Step(f, m)]
  <2>2. ASSUME NEW m \in 0..(n + 1) PROVE g[m] = Step(g, m)
    <3> DEFINE q == m \div Base
    <3>1. m \in Nat /\ q \in Nat /\ (m # 0 => q < m)
      BY Division
    <3>2. m # 0 => g[q] = f[q]
      <4> HIDE DEF q
      <4> QED
        BY <3>1
    <3>3. Step(g, m) = Step(f, m)
      <4> HIDE DEF g
      <4>1. CASE m = 0
        BY <4>1 DEF Step
      <4>2. CASE m # 0
        BY <3>2, <4>2 DEF Step
      <4> QED
        BY <4>1, <4>2
    <3>4. m <= n => f[m] = Step(f, m)
      BY <2>1, <3>1 DEF Upto
    <3> QED
      BY <3>3, <3>4
  <2>3. Upto(g, n + 1)
    BY <2>2 DEF Upto
  <2> QED
    BY <2>3
<1> HIDE DEF Good
<1>3. \A n \in Nat : n \in Good
  BY <1>1, <1>2, Induction
<1> QED
  BY <1>3 DEF Good

LEMMA RemaindersDef == \A n \in Nat : Remainders[n] = Step(Remainders, n)
<1> DEFINE upto == [n \in Nat |-> CHOOSE f : Upto(f, n)]
           whole == [n \in Nat |-> upto[n][n]]
<1>1. \A n \in Nat : Upto(upto[n], n)
  BY UptoExists
<1>2. ASSUME NEW n \in Nat PROVE whole[n] = Step(whole, n)
  <2> DEFINE q == n \div Base
  <2>1. q \in Nat /\ (n # 0 => q < n)
    BY Division
  <2>2. whole[n] = upto[n][n] /\ whole[q] = upto[q][q]
    BY <2>1
  <2> HIDE DEF upto, whole, q
  <2>3. upto[n][n] = Step(upto[n], n)
    <3>1. n \in 0..n
      OBVIOUS
    <3> QED
      BY <1>1, <3>1 DEF Upto
  <2>4. n # 0 => upto[n][q] = upto[q][q]
    BY <1>1, <2>1, UptoAgree
  <2> QED
    BY <2>2, <2>3, <2>4 DEF Step, q
<1>3. \E f : f = [n \in Nat |-> Step(f, n)]
  <2>1. whole = [n \in Nat |-> whole[n]]
    OBVIOUS
  <2> HIDE DEF whole
  <2> QED
    BY <1>2, <2>1
<1>4. Remainders = CHOOSE f : f = [n \in Nat |-> Step(f, n)]
  BY DEF Remainders, Step
<1> QED
  BY <1>3, <1>4

\* Of n: its last digit, then those of the quotient; the last remainder is the
\* first character of the code.
LEMMA RemaindersType ==
  \A n \in Nat : /\ Remainders[n] \in Seq(Digit)
                 /\ n # 0 => Remainders[n] # <<>> /\ Remainders[n][Len(Remainders[n])] # 0
<1> DEFINE Good == {n \in Nat : /\ Remainders[n] \in Seq(Digit)
                                /\ n # 0 => /\ Remainders[n] # <<>>
                                            /\ Remainders[n][Len(Remainders[n])] # 0}
<1>1. ASSUME NEW n \in Nat, \A m \in Nat : m < n => m \in Good PROVE n \in Good
  <2>1. CASE n = 0
    <3>1. Remainders[0] = <<>>
      BY RemaindersDef DEF Step
    <3>2. <<>> \in Seq(Digit)
      OBVIOUS
    <3> QED
      BY <2>1, <3>1, <3>2
  <2>2. CASE n # 0
    <3> DEFINE q == n \div Base
               r == n % Base
               s == Remainders[q]
               t == Remainders[n]
    <3>1. q \in Nat /\ q < n /\ r \in Digit /\ q * Base + r = n
      BY <2>2, Division DEF Digit
    <3>2. t = <<r>> \o s
      BY <2>2, RemaindersDef DEF Step
    <3>3. s \in Seq(Digit) /\ (q # 0 => s # <<>> /\ s[Len(s)] # 0)
      BY <1>1, <3>1
    <3>4. q = 0 => s = <<>> /\ r # 0
      <4>1. q = 0 => r = n
        <5> HIDE DEF q, r
        <5> QED
          BY <3>1, BaseAssumption DEF Digit
      <4>2. Remainders[0] = <<>>
        BY RemaindersDef DEF Step
      <4> QED
        BY <2>2, <4>1, <4>2
    <3> HIDE DEF q, r, s, t
    <3>5. t \in Seq(Digit) /\ t # <<>> /\ Len(t) = Len(s) + 1
      BY <3>1, <3>2, <3>3
    <3>6. s = <<>> => t[Len(t)] = r
      BY <3>1, <3>2, <3>5
    <3>7. s # <<>> => t[Len(t)] = s[Len(s)]
      BY <3>1, <3>2, <3>3, <3>5
    <3> QED
      BY <3>3, <3>4, <3>5, <3>6, <3>7 DEF t
  <2> QED
    BY <2>1, <2>2
<1> HIDE DEF Good
<1>2. \A n \in Nat : n \in Good
  BY <1>1, StrongInduction
<1> QED
  BY <1>2 DEF Good

-----------------------------------------------------------------------------
(* The fold of Decode has one result *)

Value(code, iter, s) == IF s = {} THEN 0
                        ELSE LET x == Max(s) IN iter[s \ {x}] * Base + code[x]
Folding(code, iter) == iter = [s \in SUBSET DOMAIN code |-> Value(code, iter, s)]
\* For the first k characters.
FoldsUpto(code, k) == \E f : f = [s \in SUBSET (1..k) |-> Value(code, f, s)]

LEMMA MaxOfInterval == \A k \in Nat : k # 0 => Max(1..k) = k /\ (1..k) \ {k} = 1..(k - 1)
<1> SUFFICES ASSUME NEW k \in Nat, k # 0 PROVE Max(1..k) = k /\ (1..k) \ {k} = 1..(k - 1)
  OBVIOUS
<1>1. k \in 1..k /\ \A y \in 1..k : k >= y
  OBVIOUS
<1>2. \A x \in 1..k : (\A y \in 1..k : x >= y) => x = k
  BY <1>1
<1> QED
  BY <1>1, <1>2 DEF Max

\* Over the subsets of 1..k, one more character at a time.
LEMMA FoldingExists == ASSUME NEW code \in Seq(Digit) PROVE \E iter : Folding(code, iter)
<1> DEFINE Good == {k \in Nat : k <= Len(code) => FoldsUpto(code, k)}
<1>1. 0 \in Good
  <2> DEFINE f == [s \in SUBSET (1..0) |-> 0]
  <2>1. f = [s \in SUBSET (1..0) |-> Value(code, f, s)]
    <3>1. \A s \in SUBSET (1..0) : s = {}
      OBVIOUS
    <3> QED
      BY <3>1 DEF Value
  <2> HIDE DEF f
  <2> QED
    BY <2>1 DEF FoldsUpto
<1>2. ASSUME NEW k \in Nat, k \in Good PROVE k + 1 \in Good
  <2> SUFFICES ASSUME k + 1 <= Len(code) PROVE FoldsUpto(code, k + 1)
    OBVIOUS
  <2>1. PICK f : f = [s \in SUBSET (1..k) |-> Value(code, f, s)]
    <3>1. k <= Len(code)
      OBVIOUS
    <3> QED
      BY <1>2, <3>1 DEF FoldsUpto
  <2> DEFINE top == k + 1
             g == [s \in SUBSET (1..top) |->
                     IF top \in s THEN f[s \ {top}] * Base + code[top] ELSE f[s]]
  <2>2. ASSUME NEW s \in SUBSET (1..top) PROVE g[s] = Value(code, g, s)
    <3>1. CASE top \in s
      <4>1. Max(s) = top
        <5>1. \A y \in s : top >= y
          OBVIOUS
        <5>2. \A x \in s : (\A y \in s : x >= y) => x = top
          BY <3>1, <5>1
        <5> HIDE DEF top
        <5> QED
          BY <3>1, <5>1, <5>2 DEF Max
      <4>2. s \ {top} \in SUBSET (1..top) /\ top \notin s \ {top}
        OBVIOUS
      <4>3. g[s \ {top}] = f[s \ {top}] /\ g[s] = f[s \ {top}] * Base + code[top]
        BY <3>1, <4>2
      <4>4. s # {}
        BY <3>1
      <4> HIDE DEF g, top
      <4> QED
        BY <4>1, <4>3, <4>4 DEF Value
    <3>2. CASE top \notin s
      <4>1. s \in SUBSET (1..k)
        BY <3>2
      <4>2. f[s] = Value(code, f, s) /\ g[s] = f[s]
        <5>1. f[s] = Value(code, f, s)
          BY <2>1, <4>1
        <5> QED
          BY <3>2, <5>1
      <4>3. s # {} => g[s \ {Max(s)}] = f[s \ {Max(s)}]
        <5>1. s \ {Max(s)} \in SUBSET (1..top) /\ top \notin s \ {Max(s)}
          BY <3>2
        <5> QED
          BY <5>1
      <4> HIDE DEF g
      <4> QED
        BY <4>2, <4>3 DEF Value
    <3> QED
      BY <3>1, <3>2
  <2>3. g = [s \in SUBSET (1..top) |-> Value(code, g, s)]
    <3>1. g = [s \in SUBSET (1..top) |-> g[s]]
      OBVIOUS
    <3> HIDE DEF g, top
    <3> QED
      BY <2>2, <3>1
  <2> HIDE DEF g
  <2> QED
    BY <2>3 DEF FoldsUpto
<1>3. Len(code) \in Nat /\ DOMAIN code = 1..Len(code)
  OBVIOUS
<1> HIDE DEF Good
<1>4. Len(code) \in Good
  BY <1>1, <1>2, <1>3, Induction
<1>5. FoldsUpto(code, Len(code))
  BY <1>3, <1>4 DEF Good
<1> QED
  BY <1>3, <1>5 DEF Folding, FoldsUpto

LEMMA FoldingSteps ==
  ASSUME NEW code \in Seq(Digit), NEW iter, Folding(code, iter)
  PROVE  /\ iter[1..0] = 0
         /\ \A k \in 1..Len(code) : iter[1..k] = iter[1..(k - 1)] * Base + code[k]
<1>1. DOMAIN code = 1..Len(code) /\ Len(code) \in Nat
  OBVIOUS
<1>2. iter[1..0] = 0
  <2>1. 1..0 = {} /\ {} \in SUBSET DOMAIN code
    OBVIOUS
  <2> QED
    BY <2>1 DEF Folding, Value
<1>3. ASSUME NEW k \in 1..Len(code) PROVE iter[1..k] = iter[1..(k - 1)] * Base + code[k]
  <2> DEFINE s == 1..k
  <2>1. s \in SUBSET DOMAIN code /\ s # {}
    <3>1. 1..k \subseteq 1..Len(code)
      BY <1>1
    <3>2. k \in 1..k
      BY <1>1
    <3> QED
      BY <1>1, <3>1, <3>2
  <2>2. Max(s) = k /\ s \ {k} = 1..(k - 1)
    BY <1>1, MaxOfInterval
  <2> HIDE DEF s
  <2>3. iter[s] = iter[s \ {Max(s)}] * Base + code[Max(s)]
    BY <2>1 DEF Folding, Value
  <2> QED
    BY <2>2, <2>3 DEF s
<1> QED
  BY <1>2, <1>3

LEMMA DecodeIsFolding ==
  ASSUME NEW code \in Seq(Digit)
  PROVE  \E iter : Folding(code, iter) /\ Decode(code) = iter[1..Len(code)]
<1>1. Decode(code) = (CHOOSE iter : Folding(code, iter))[DOMAIN code]
  BY DEF Decode, FoldLeft, MapThenFoldSet, Folding, Value
<1>2. Folding(code, CHOOSE iter : Folding(code, iter))
  BY FoldingExists
<1>3. DOMAIN code = 1..Len(code)
  OBVIOUS
<1> QED
  BY <1>1, <1>2, <1>3

\* The loop of Decode, one character longer.
LEMMA DecodeAppend ==
  ASSUME NEW code \in Seq(Digit), NEW pos \in Digit
  PROVE  Decode(Append(code, pos)) = Decode(code) * Base + pos
<1> DEFINE more == Append(code, pos)
           n == Len(code)
<1>1. /\ more \in Seq(Digit) /\ n \in Nat /\ Len(more) = n + 1
      /\ more[n + 1] = pos /\ \A k \in 1..n : more[k] = code[k]
  OBVIOUS
<1> HIDE DEF more
<1>2. PICK i : Folding(code, i) /\ Decode(code) = i[1..n]
  BY DecodeIsFolding
<1>3. PICK j : Folding(more, j) /\ Decode(more) = j[1..(n + 1)]
  BY <1>1, DecodeIsFolding
<1>4. i[1..0] = 0 /\ \A k \in 1..n : i[1..k] = i[1..(k - 1)] * Base + code[k]
  BY <1>2, FoldingSteps
<1>5. j[1..0] = 0 /\ \A k \in 1..(n + 1) : j[1..k] = j[1..(k - 1)] * Base + more[k]
  BY <1>1, <1>3, FoldingSteps
<1> DEFINE Good == {k \in Nat : k <= n => i[1..k] = j[1..k]}
<1>6. 0 \in Good
  BY <1>4, <1>5
<1>7. ASSUME NEW k \in Nat, k \in Good PROVE k + 1 \in Good
  <2> SUFFICES ASSUME k + 1 <= n PROVE i[1..(k + 1)] = j[1..(k + 1)]
    OBVIOUS
  <2> DEFINE top == k + 1
  <2>1. top \in 1..n /\ top \in 1..(n + 1) /\ top - 1 = k /\ i[1..k] = j[1..k]
    BY <1>1, <1>7
  <2> HIDE DEF top
  <2> QED
    BY <1>1, <1>4, <1>5, <2>1 DEF top
<1> HIDE DEF Good
<1>8. n \in Good
  BY <1>1, <1>6, <1>7, Induction
<1>9. i[1..n] = j[1..n]
  BY <1>1, <1>8 DEF Good
<1>10. j[1..(n + 1)] = j[1..n] * Base + pos
  <2>1. n + 1 \in 1..(n + 1) /\ (n + 1) - 1 = n
    BY <1>1
  <2> QED
    BY <1>1, <1>5, <2>1
<1> QED
  BY <1>2, <1>3, <1>9, <1>10 DEF more

LEMMA DecodeEmpty == Decode(<<>>) = 0
<1>1. <<>> \in Seq(Digit) /\ Len(<<>>) = 0
  OBVIOUS
<1>2. PICK i : Folding(<<>>, i) /\ Decode(<<>>) = i[1..0]
  BY <1>1, DecodeIsFolding
<1> QED
  BY <1>1, <1>2, FoldingSteps

-----------------------------------------------------------------------------
(* Encode and Decode *)

LEMMA ReverseCons ==
  ASSUME NEW s \in Seq(Digit), NEW r \in Digit
  PROVE  Reverse(s) \in Seq(Digit) /\ Reverse(<<r>> \o s) = Append(Reverse(s), r)
<1> DEFINE t == <<r>> \o s
           n == Len(s)
<1>1. /\ t \in Seq(Digit) /\ n \in Nat /\ Len(t) = n + 1 /\ t[1] = r
      /\ \A k \in 1..n : t[k + 1] = s[k] /\ s[k] \in Digit
  OBVIOUS
<1>2. Reverse(s) = [i \in 1..n |-> s[(n - i) + 1]] /\ Reverse(t) = [i \in 1..(n + 1) |-> t[((n + 1) - i) + 1]]
  BY <1>1 DEF Reverse
<1>3. \A i \in 1..n : (n - i) + 1 \in 1..n
  BY <1>1
<1> HIDE DEF t, n
<1>4. Reverse(s) \in Seq(Digit) /\ Len(Reverse(s)) = n
  BY <1>1, <1>2, <1>3
<1> DEFINE u == Append(Reverse(s), r)
<1>5. /\ u \in Seq(Digit) /\ Len(u) = n + 1 /\ u[n + 1] = r
      /\ \A i \in 1..n : u[i] = Reverse(s)[i]
  BY <1>1, <1>4
<1>6. ASSUME NEW i \in 1..(n + 1) PROVE u[i] = t[((n + 1) - i) + 1]
  <2>1. CASE i = n + 1
    BY <1>1, <1>5, <2>1
  <2>2. CASE i # n + 1
    <3>1. i \in 1..n /\ ((n + 1) - i) + 1 = ((n - i) + 1) + 1 /\ (n - i) + 1 \in 1..n
      BY <1>1, <2>2
    <3> QED
      BY <1>1, <1>2, <1>5, <3>1
  <2> QED
    BY <2>1, <2>2
<1> HIDE DEF u
<1>7. u = [i \in 1..(n + 1) |-> u[i]]
  BY <1>1, <1>5
<1>8. u = Reverse(t)
  BY <1>2, <1>6, <1>7
<1> QED
  BY <1>4, <1>8 DEF u, t

\* base62.go: the loop of Decode undoes the loop and the reversal of Encode,
\* for every number.
THEOREM DecodeEncode == \A n \in Nat : Decode(Encode(n)) = n
<1> DEFINE Good == {n \in Nat : Decode(Reverse(Remainders[n])) = n}
<1>1. ASSUME NEW n \in Nat, \A m \in Nat : m < n => m \in Good PROVE n \in Good
  <2>1. CASE n = 0
    <3>1. Remainders[0] = <<>>
      BY RemaindersDef DEF Step
    <3>2. Reverse(<<>>) = <<>>
      BY DEF Reverse
    <3> QED
      BY <2>1, <3>1, <3>2, DecodeEmpty
  <2>2. CASE n # 0
    <3> DEFINE q == n \div Base
               r == n % Base
               s == Remainders[q]
    <3>1. q \in Nat /\ q < n /\ r \in Digit /\ q * Base + r = n
      BY <2>2, Division DEF Digit
    <3>2. Remainders[n] = <<r>> \o s
      BY <2>2, RemaindersDef DEF Step
    <3>3. s \in Seq(Digit)
      BY <3>1, RemaindersType
    <3>4. Decode(Reverse(s)) = q
      BY <1>1, <3>1
    <3> HIDE DEF q, r, s
    <3>5. Reverse(s) \in Seq(Digit) /\ Reverse(Remainders[n]) = Append(Reverse(s), r)
      BY <3>1, <3>2, <3>3, ReverseCons
    <3>6. Decode(Reverse(Remainders[n])) = n
      BY <3>1, <3>4, <3>5, DecodeAppend
    <3> QED
      BY <3>6
  <2> QED
    BY <2>1, <2>2
<1>2. \A n \in Nat : n \in Good
  <2> HIDE DEF Good
  <2> QED
    BY <1>1, StrongInduction
<1>3. Decode(<<0>>) = 0
  <2>1. 0 \in Digit /\ Base \in Nat /\ <<>> \in Seq(Digit)
    BY BaseAssumption DEF Digit
  <2>2. Decode(Append(<<>>, 0)) = 0 * Base + 0
    BY <2>1, DecodeAppend, DecodeEmpty
  <2>3. Append(<<>>, 0) = <<0>>
    OBVIOUS
  <2> QED
    BY <2>1, <2>2, <2>3
<1> QED
  BY <1>2, <1>3 DEF Encode

\* base62.go: two numbers never have one code.
COROLLARY CodesDiffer == \A m, n \in Nat : Encode(m) = Encode(n) => m = n
<1> SUFFICES ASSUME NEW m \in Nat, NEW n \in Nat, Encode(m) = Encode(n) PROVE m = n
  OBVIOUS
<1>1. Decode(Encode(m)) = m /\ Decode(Encode(n)) = n
  BY DecodeEncode
<1> QED
  BY <1>1

\* The first character of a code is a zero only for the ID 0.
LEMMA NoLeadingZero == \A n \in Nat : Encode(n)[1] = 0 => n = 0
<1> SUFFICES ASSUME NEW n \in Nat, n # 0 PROVE Encode(n)[1] # 0
  OBVIOUS
<1> DEFINE s == Remainders[n]
<1>1. s \in Seq(Digit) /\ s # <<>> /\ s[Len(s)] # 0
  BY RemaindersType
<1>2. Encode(n) = Reverse(s)
  BY DEF Encode
<1> HIDE DEF s
<1>3. Len(s) \in Nat /\ 1 \in 1..Len(s) /\ (Len(s) - 1) + 1 = Len(s)
  BY <1>1
<1>4. Reverse(s)[1] = s[Len(s)]
  BY <1>3 DEF Reverse
<1> QED
  BY <1>1, <1>2, <1>4

\* Encode and Decode on what NextID returns: the code that Shorten makes of an
\* ID, whatever it is, decodes to the ID, and has no leading zero.
THEOREM CodesDecode == SafeStart /\ Spec => []IssuedCodesDecode
<1>1. IInv => IssuedCodesDecode
  <2> SUFFICES ASSUME IInv, NEW id \in issued
               PROVE  Decode(Encode(id)) = id /\ (Encode(id)[1] = 0 => id = 0)
    BY DEF IssuedCodesDecode
  <2>1. id \in Nat
    BY DEF IInv, TypeOK
  <2> QED
    BY <2>1, DecodeEncode, NoLeadingZero
<1> QED
  BY <1>1, Invariance, PTL

-----------------------------------------------------------------------------
(* How long a code is *)

LEMMA OneMoreDigit ==
  ASSUME NEW n \in Nat, n # 0
  PROVE  /\ n \div Base \in Nat /\ Len(Remainders[n \div Base]) \in Nat
         /\ Len(Remainders[n]) = Len(Remainders[n \div Base]) + 1
<1> DEFINE q == n \div Base
           s == Remainders[q]
<1>1. q \in Nat /\ n % Base \in Digit
  BY Division DEF Digit
<1>2. s \in Seq(Digit) /\ Remainders[n] = <<n % Base>> \o s
  BY <1>1, RemaindersType, RemaindersDef DEF Step
<1> HIDE DEF s
<1>3. Len(s) \in Nat /\ Len(<<n % Base>> \o s) = Len(s) + 1
  BY <1>1, <1>2
<1> QED
  BY <1>1, <1>2, <1>3 DEF s

\* A quotient stays between the quotients of two multiples of the base.
LEMMA QuotientBetween ==
  ASSUME NEW n \in Nat, NEW low \in Nat, NEW high \in Nat,
         low * Base <= n, n < high * Base
  PROVE  low <= n \div Base /\ n \div Base < high
<1> DEFINE q == n \div Base
           r == n % Base
<1>1. q \in Nat /\ r \in 0..(Base - 1) /\ q * Base + r = n /\ Base \in Nat /\ Base >= 2
  BY Division, BaseAssumption
<1> HIDE DEF q, r
<1>2. n < (q + 1) * Base /\ q * Base <= n
  BY <1>1
<1>3. low < q + 1
  <2>1. low * Base < (q + 1) * Base /\ (q + 1) * Base \in Nat /\ low * Base \in Nat
    BY <1>1, <1>2
  <2>2. CASE q + 1 <= low
    <3>1. PICK d \in Nat : low = (q + 1) + d
      <4>1. low - (q + 1) \in Nat /\ low = (q + 1) + (low - (q + 1))
        BY <1>1, <2>2
      <4> QED
        BY <4>1
    <3>2. low * Base = (q + 1) * Base + d * Base /\ d * Base \in Nat
      BY <1>1, <3>1
    <3> QED
      BY <2>1, <3>2
  <2> QED
    BY <1>1, <2>2
<1>4. q < high
  <2>1. CASE high <= q
    <3>1. PICK d \in Nat : q = high + d
      <4>1. q - high \in Nat /\ q = high + (q - high)
        BY <1>1, <2>1
      <4> QED
        BY <4>1
    <3>2. q * Base = high * Base + d * Base /\ d * Base \in Nat /\ high * Base \in Nat
      BY <1>1, <3>1
    <3> QED
      BY <1>1, <1>2, <3>2
  <2> QED
    BY <1>1, <2>1
<1> QED
  BY <1>1, <1>3, <1>4 DEF q

\* A number below the base has one byte.
LEMMA OneByte ==
  ASSUME NEW p \in Nat, 1 <= p, p < Base
  PROVE  Len(Remainders[p]) = 1
<1>1. Base \in Nat /\ 1 * Base = Base /\ 0 * Base = 0
  BY BaseAssumption
<1>2. p \div Base \in Nat
  BY BaseAssumption, Division
<1>3. p \div Base < 1
  BY <1>1, QuotientBetween
<1>4. p \div Base = 0
  BY <1>2, <1>3
<1>5. Remainders[0] = <<>>
  BY RemaindersDef DEF Step
<1>6. p # 0
  OBVIOUS
<1>7. Len(Remainders[p]) = Len(Remainders[p \div Base]) + 1
  BY <1>6, OneMoreDigit
<1> QED
  BY <1>4, <1>5, <1>7

\* A number from the base up to its square has two.
LEMMA TwoBytes ==
  ASSUME NEW q \in Nat, Base <= q, q < Base * Base
  PROVE  Len(Remainders[q]) = 2
<1>1. Base \in Nat /\ Base >= 2 /\ 1 * Base = Base
  BY BaseAssumption
<1>2. q \div Base \in Nat /\ 1 <= q \div Base /\ q \div Base < Base
  BY <1>1, Division, QuotientBetween
<1>3. Len(Remainders[q \div Base]) = 1
  BY <1>2, OneByte
<1>4. q # 0
  BY <1>1
<1>5. Len(Remainders[q]) = Len(Remainders[q \div Base]) + 1
  BY <1>4, OneMoreDigit
<1> QED
  BY <1>3, <1>5

\* The loop at the end of Encode turns the bytes round and loses none.
LEMMA ReverseLength ==
  ASSUME NEW s \in Seq(Digit)
  PROVE  Len(Reverse(s)) = Len(s)
<1> DEFINE n == Len(s)
<1>1. n \in Nat /\ \A k \in 1..n : s[k] \in Digit
  OBVIOUS
<1>2. Reverse(s) = [i \in 1..n |-> s[(n - i) + 1]]
  BY DEF Reverse
<1> HIDE DEF n
<1>3. \A i \in 1..n : (n - i) + 1 \in 1..n
  BY <1>1
<1>4. [i \in 1..n |-> s[(n - i) + 1]] \in Seq(Digit)
  BY <1>1, <1>3
<1>5. Len([i \in 1..n |-> s[(n - i) + 1]]) = n
  BY <1>1, <1>3
<1> QED
  BY <1>2, <1>5 DEF n

\* allocator.go: minIDOffset is 100000, which lies between 62 * 62 and
\* 62 * 62 * 62: the codes from there up to the cube have three characters
\* (line 11 says so of the first, lines 70 and 71 promise four).
THEOREM ThreeCharacters ==
  \A n \in Nat : Base * Base <= n /\ n < Base * Base * Base => Len(Encode(n)) = 3
<1> SUFFICES ASSUME NEW n \in Nat, Base * Base <= n, n < Base * Base * Base
             PROVE  Len(Encode(n)) = 3
  OBVIOUS
<1>1. Base \in Nat /\ Base >= 2 /\ Base * Base \in Nat /\ Base * Base >= 2
  BY BaseAssumption
<1>2. n \div Base \in Nat /\ Base <= n \div Base /\ n \div Base < Base * Base
  BY <1>1, Division, QuotientBetween
<1>3. Len(Remainders[n \div Base]) = 2
  BY <1>2, TwoBytes
<1>4. n # 0
  BY <1>1
<1>5. Len(Remainders[n]) = Len(Remainders[n \div Base]) + 1
  BY <1>4, OneMoreDigit
<1>6. Remainders[n] \in Seq(Digit) /\ Len(Remainders[n]) = 3
  BY <1>3, <1>5, RemaindersType
<1>7. Len(Reverse(Remainders[n])) = 3
  BY <1>6, ReverseLength
<1> QED
  BY <1>4, <1>7 DEF Encode

LEMMA QuotientMonotone ==
  ASSUME NEW m \in Nat, NEW n \in Nat, m <= n
  PROVE  m \div Base <= n \div Base
<1> DEFINE q == m \div Base
           p == n \div Base
<1>1. q \in Nat /\ p \in Nat /\ q * Base <= m /\ n < (p + 1) * Base /\ (p + 1) * Base \in Nat
  <2>1. /\ q \in Nat /\ m % Base \in 0..(Base - 1) /\ q * Base + (m % Base) = m
        /\ p \in Nat /\ n % Base \in 0..(Base - 1) /\ p * Base + (n % Base) = n
    BY Division
  <2>2. Base \in Nat /\ Base >= 2
    BY BaseAssumption
  <2> DEFINE r == m % Base
             t == n % Base
  <2> HIDE DEF q, p, r, t
  <2>3. /\ q \in Nat /\ r \in 0..(Base - 1) /\ q * Base + r = m
        /\ p \in Nat /\ t \in 0..(Base - 1) /\ p * Base + t = n
    BY <2>1 DEF q, p, r, t
  <2> QED
    BY <2>2, <2>3
<1>2. m < (p + 1) * Base
  BY <1>1
<1>3. 0 * Base <= m /\ p + 1 \in Nat
  BY <1>1, BaseAssumption
<1> HIDE DEF p
<1>4. m \div Base < p + 1
  BY <1>2, <1>3, QuotientBetween
<1> QED
  BY <1>1, <1>4 DEF p

\* A greater number has no shorter code.
LEMMA LengthMonotone ==
  \A n \in Nat : \A m \in Nat : m <= n => Len(Remainders[m]) <= Len(Remainders[n])
<1> DEFINE Good == {n \in Nat : \A m \in Nat : m <= n => Len(Remainders[m]) <= Len(Remainders[n])}
<1>1. Len(Remainders[0]) = 0
  <2>1. Remainders[0] = <<>>
    BY RemaindersDef DEF Step
  <2> QED
    BY <2>1
<1>2. \A k \in Nat : Len(Remainders[k]) \in Nat
  BY RemaindersType
<1>3. ASSUME NEW n \in Nat, \A k \in Nat : k < n => k \in Good PROVE n \in Good
  <2> SUFFICES ASSUME NEW m \in Nat, m <= n PROVE Len(Remainders[m]) <= Len(Remainders[n])
    OBVIOUS
  <2>1. CASE m = 0
    BY <1>1, <1>2, <2>1
  <2>2. CASE m # 0
    <3>1. n # 0
      BY <2>2
    <3>2. n \div Base \in Nat /\ n \div Base < n /\ m \div Base \in Nat /\ m \div Base <= n \div Base
      BY <3>1, Division, QuotientMonotone
    <3>3. n \div Base \in Good
      BY <1>3, <3>2
    <3>4. Len(Remainders[m \div Base]) <= Len(Remainders[n \div Base])
      BY <3>2, <3>3
    <3>5. Len(Remainders[m]) = Len(Remainders[m \div Base]) + 1
      BY <2>2, OneMoreDigit
    <3>6. Len(Remainders[n]) = Len(Remainders[n \div Base]) + 1
      BY <3>1, OneMoreDigit
    <3> QED
      BY <1>2, <3>2, <3>4, <3>5, <3>6
  <2> QED
    BY <2>1, <2>2
<1>4. \A n \in Nat : n \in Good
  <2> HIDE DEF Good
  <2> QED
    BY <1>3, StrongInduction
<1> QED
  BY <1>4

LEMMA CodeLength ==
  ASSUME NEW n \in Nat, n # 0
  PROVE  Len(Encode(n)) = Len(Remainders[n])
BY RemaindersType, ReverseLength DEF Encode

\* minIDOffset does what it is for, if not as much as the comments say: no code
\* is shorter than that of the first ID of the first block, which in the
\* deployment of main.go (99001) has three characters.
THEOREM CodesLongEnough == SafeStart /\ Spec => []NoShortCode
<1> DEFINE first == MinIDOffset - RangeSize + 1
           Above == \A id \in issued : MinIDOffset - RangeSize < id
<1>1. IInv /\ Above => NoShortCode
  <2> SUFFICES ASSUME IInv, Above, NEW id \in issued
               PROVE  Len(Encode(id)) >= Len(Encode(first))
    BY DEF NoShortCode
  <2>1. id \in Nat /\ first \in Nat /\ first # 0 /\ first <= id /\ id # 0
    BY RangeAssumption DEF IInv, TypeOK
  <2> HIDE DEF first
  <2>2. Len(Remainders[first]) <= Len(Remainders[id])
    BY <2>1, LengthMonotone
  <2>3. Len(Remainders[first]) \in Nat /\ Len(Remainders[id]) \in Nat
    BY <2>1, RemaindersType
  <2>4. Len(Encode(id)) = Len(Remainders[id]) /\ Len(Encode(first)) = Len(Remainders[first])
    BY <2>1, CodeLength
  <2> QED
    BY <2>2, <2>3, <2>4
<1>2. SafeStart /\ Spec => []Above
  BY IdsAboveFloor
<1> QED
  BY <1>1, <1>2, Invariance, PTL
=============================================================================
