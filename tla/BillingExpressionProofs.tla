---------------------- MODULE BillingExpressionProofs ----------------------
(***************************************************************************)
(* Proofs about Expressions and BillingExpression: about what sources may  *)
(* write, for any bounds, and about what the parser makes of it, for every *)
(* expression and every number of tokens.                                  *)
(*                                                                         *)
(* The parser goes from left to right and reduces as it goes; the          *)
(* reference splits an expression at its last operator and evaluates the   *)
(* parts.  Means says of a value that was read what both have in common:   *)
(* the tokens read are a segment whose parentheses match and that splits   *)
(* where the procedure says, and the value is worth what the segment       *)
(* evaluates to.  Each procedure keeps it if its calls do.  The calls, and *)
(* the parts of a segment, decrease what is left to read, so that the two  *)
(* recursive functions exist and are the ones this was proved of.          *)
(***************************************************************************)
EXTENDS BillingExpression, FiniteSetTheorems, WellFoundedInduction, TLAPS

-----------------------------------------------------------------------------
(* Numbers, and loops over 1..N.                                           *)

\* A set of naturals has a least one.
LEMMA LeastNat ==
    ASSUME NEW T \in SUBSET Nat, T # {}
    PROVE  \E n \in T : \A m \in T : n <= m
<1> DEFINE R == OpToRel(<, Nat)
<1>1. IsWellFoundedOn(R, Nat)
  BY NatLessThanWellFounded, Zenon
<1>2. \A m, n \in T : m < n => <<m, n>> \in R
  BY Zenon DEF OpToRel
<1> HIDE DEF R
<1>3. PICK n \in T : \A m \in T : ~(<<m, n>> \in R)
  BY <1>1, WFMin
<1>4. \A m \in T : ~(m < n)
  BY <1>2, <1>3
<1> QED BY <1>3, <1>4

\* Induction up to a number, over the set of those for which something holds.
LEMMA Upto ==
    ASSUME NEW N \in Nat, NEW T \in SUBSET (0..N), 0 \in T,
           \A n \in 1..N : n - 1 \in T => n \in T
    PROVE  T = 0..N
<1> DEFINE bad == (0..N) \ T
<1>1. ASSUME bad # {} PROVE FALSE
  <2>1. bad \subseteq Nat
    OBVIOUS
  <2>2. PICK n \in bad : \A m \in bad : n <= m
    BY <1>1, <2>1, LeastNat
  <2>3. n \in 1..N /\ n - 1 \in 0..N /\ ~(n <= n - 1)
    BY <2>2
  <2> QED BY <2>2, <2>3
<1> QED BY <1>1

\* A loop over 1..N that turns one V into another.
IsRun(f, N, V, start, step) ==
    f \in [0..N -> V] /\ f[0] = start /\ \A n \in 1..N : f[n] = step[n][f[n - 1]]
HasRun(N, V, start, step) == \E f : IsRun(f, N, V, start, step)

\* Every loop has its values.
LEMMA LoopExists ==
    ASSUME NEW N \in Nat, NEW V, NEW start \in V, NEW step \in [1..N -> [V -> V]]
    PROVE  HasRun(N, V, start, step)
<1> DEFINE Runs(f, n) == /\ f \in [0..n -> V] /\ f[0] = start
                         /\ \A i \in 1..n : f[i] = step[i][f[i - 1]]
           T == {n \in 0..N : \E f : Runs(f, n)}
<1>1. 0 \in T
  <2> DEFINE only == [i \in 0..0 |-> start]
  <2>1. Runs(only, 0)
    OBVIOUS
  <2> HIDE DEF only
  <2>2. \E f : Runs(f, 0)
    BY <2>1
  <2> QED BY <2>2
<1>2. ASSUME NEW n \in 1..N, n - 1 \in T PROVE n \in T
  <2>1. PICK f : Runs(f, n - 1)
    BY <1>2
  <2> DEFINE g == [i \in 0..n |-> IF i = n THEN step[n][f[n - 1]] ELSE f[i]]
  <2>2. n \in Nat \ {0} /\ n - 1 \in 0..(n - 1) /\ 0 \in 0..(n - 1)
    OBVIOUS
  <2>3. \A i \in 0..(n - 1) : i \in 0..n /\ i # n /\ g[i] = f[i]
    BY <2>2
  <2>4. step[n][f[n - 1]] \in V /\ g[n] = step[n][f[n - 1]]
    BY <2>1, <2>2
  <2>5. g \in [0..n -> V]
    <3>1. \A i \in 0..n : i # n => i \in 0..(n - 1)
      BY <2>2
    <3>2. \A i \in 0..n : (IF i = n THEN step[n][f[n - 1]] ELSE f[i]) \in V
      BY <2>1, <2>4, <3>1
    <3> QED BY <3>2
  <2>6. g[0] = start
    BY <2>1, <2>2, <2>3
  <2>7. ASSUME NEW i \in 1..n PROVE g[i] = step[i][g[i - 1]]
    <3>1. CASE i = n
      <4>1. g[i - 1] = f[n - 1]
        BY <2>2, <2>3, <3>1
      <4> QED BY <2>4, <3>1, <4>1
    <3>2. CASE i # n
      <4>1. i \in 1..(n - 1) /\ i \in 0..(n - 1) /\ i - 1 \in 0..(n - 1)
        BY <2>2, <3>2
      <4> QED BY <2>1, <2>3, <4>1
    <3> QED BY <3>1, <3>2
  <2> HIDE DEF g
  <2>8. Runs(g, n)
    BY <2>5, <2>6, <2>7
  <2> QED BY <2>8
<1> HIDE DEF T
<1>3. T = 0..N
  <2>1. T \in SUBSET (0..N)
    BY DEF T
  <2> QED BY <1>1, <1>2, <2>1, Upto
<1>4. PICK f : Runs(f, N)
  BY <1>3, SMTT(30) DEF T
<1> QED BY <1>4 DEF HasRun, IsRun

-----------------------------------------------------------------------------
(* Billing expressions: fractions.                                         *)

\* Products of numbers.
LEMMA ProductOfNats ==
    ASSUME NEW m \in Nat \ {0}, NEW n \in Nat \ {0} PROVE m * n \in Nat \ {0}
OBVIOUS

\* A positive factor cancels.
LEMMA Cancel ==
    ASSUME NEW m \in Int, NEW n \in Int, NEW k \in Nat \ {0}, k * m = k * n PROVE m = n
OBVIOUS

\* A fraction and its parts.
LEMMA Parts ==
    ASSUME NEW a \in Fraction
    PROVE  a[1] \in Int /\ a[2] \in Nat \ {0} /\ a[2] \in Int /\ a = <<a[1], a[2]>>
  BY DEF Fraction

\* Fractions stay fractions.
LEMMA WholeIs == ASSUME NEW n \in Int PROVE Whole(n) \in Fraction
  BY DEF Whole, Fraction
\* The sum of two fractions is one.
LEMMA PlusIs == ASSUME NEW a \in Fraction, NEW b \in Fraction PROVE Plus(a, b) \in Fraction
<1>1. a[1] \in Int /\ a[2] \in Nat \ {0} /\ b[1] \in Int /\ b[2] \in Nat \ {0}
  BY Parts
<1>2. a[2] * b[2] \in Nat \ {0}
  BY <1>1, ProductOfNats
<1> QED BY <1>1, <1>2 DEF Plus, Fraction
\* So is their product,
LEMMA TimesIs == ASSUME NEW a \in Fraction, NEW b \in Fraction PROVE Times(a, b) \in Fraction
<1>1. a[1] \in Int /\ a[2] \in Nat \ {0} /\ b[1] \in Int /\ b[2] \in Nat \ {0}
  BY Parts
<1>2. a[2] * b[2] \in Nat \ {0}
  BY <1>1, ProductOfNats
<1> QED BY <1>1, <1>2 DEF Times, Fraction
\* their difference,
LEMMA MinusIs == ASSUME NEW a \in Fraction, NEW b \in Fraction PROVE Minus(a, b) \in Fraction
<1>1. Whole(-1) \in Fraction
  BY WholeIs
<1> QED BY <1>1, PlusIs, TimesIs DEF Minus
\* the reciprocal of one that is not zero,
LEMMA ReciprocalIs == ASSUME NEW b \in Fraction, b[1] # 0 PROVE Reciprocal(b) \in Fraction
  BY Parts DEF Reciprocal, Fraction
\* and their quotient.
LEMMA QuotientIs == ASSUME NEW a \in Fraction, NEW b \in Fraction PROVE Quotient(a, b) \in Fraction
<1>1. Whole(0) \in Fraction
  BY WholeIs
<1> QED BY <1>1, TimesIs, ReciprocalIs DEF Quotient

\* To be the same is an equivalence.
LEMMA SameReflexive == ASSUME NEW a \in Fraction PROVE Same(a, a)
  BY DEF Same
\* It works both ways,
LEMMA SameSymmetric == ASSUME NEW a \in Fraction, NEW b \in Fraction, Same(a, b) PROVE Same(b, a)
  BY DEF Same
\* and through a third fraction.
LEMMA SameTransitive ==
    ASSUME NEW a \in Fraction, NEW b \in Fraction, NEW c \in Fraction, Same(a, b), Same(b, c)
    PROVE  Same(a, c)
<1>1. /\ a[1] \in Int /\ a[2] \in Nat \ {0} /\ b[1] \in Int /\ b[2] \in Nat \ {0}
      /\ c[1] \in Int /\ c[2] \in Nat \ {0}
  BY Parts
<1>2. a[1] * b[2] = b[1] * a[2] /\ b[1] * c[2] = c[1] * b[2]
  BY DEF Same
<1>3. b[2] * (a[1] * c[2]) = (a[1] * b[2]) * c[2]
  BY <1>1
<1>4. (b[1] * a[2]) * c[2] = (b[1] * c[2]) * a[2]
  BY <1>1
<1>5. (c[1] * b[2]) * a[2] = b[2] * (c[1] * a[2])
  BY <1>1
<1>6. b[2] * (a[1] * c[2]) = b[2] * (c[1] * a[2])
  BY <1>2, <1>3, <1>4, <1>5
<1>7. a[1] * c[2] \in Int /\ c[1] * a[2] \in Int
  BY <1>1
<1>8. a[1] * c[2] = c[1] * a[2]
  BY <1>1, <1>6, <1>7, Cancel
<1> QED BY <1>8 DEF Same

\* Sums, products and quotients of what is the same are the same.
LEMMA PlusSame ==
    ASSUME NEW a \in Fraction, NEW b \in Fraction, NEW c \in Fraction, NEW d \in Fraction,
           Same(a, b), Same(c, d)
    PROVE  Same(Plus(a, c), Plus(b, d))
<1>1. /\ a[1] \in Int /\ a[2] \in Int /\ b[1] \in Int /\ b[2] \in Int
      /\ c[1] \in Int /\ c[2] \in Int /\ d[1] \in Int /\ d[2] \in Int
  BY Parts
<1>2. a[1] * b[2] = b[1] * a[2] /\ c[1] * d[2] = d[1] * c[2]
  BY DEF Same
<1>3. (a[1] * c[2] + c[1] * a[2]) * (b[2] * d[2]) = (b[1] * d[2] + d[1] * b[2]) * (a[2] * c[2])
  <2>1. (a[1] * c[2] + c[1] * a[2]) * (b[2] * d[2])
        = (a[1] * b[2]) * (c[2] * d[2]) + (c[1] * d[2]) * (a[2] * b[2])
    BY <1>1
  <2>2. (b[1] * d[2] + d[1] * b[2]) * (a[2] * c[2])
        = (b[1] * a[2]) * (c[2] * d[2]) + (d[1] * c[2]) * (a[2] * b[2])
    BY <1>1
  <2> QED BY <1>2, <2>1, <2>2
<1> QED BY <1>3 DEF Same, Plus
\* Products of equal factors are the same,
LEMMA TimesSame ==
    ASSUME NEW a \in Fraction, NEW b \in Fraction, NEW c \in Fraction, NEW d \in Fraction,
           Same(a, b), Same(c, d)
    PROVE  Same(Times(a, c), Times(b, d))
<1>1. /\ a[1] \in Int /\ a[2] \in Int /\ b[1] \in Int /\ b[2] \in Int
      /\ c[1] \in Int /\ c[2] \in Int /\ d[1] \in Int /\ d[2] \in Int
  BY Parts
<1>2. a[1] * b[2] = b[1] * a[2] /\ c[1] * d[2] = d[1] * c[2]
  BY DEF Same
<1>3. (a[1] * c[1]) * (b[2] * d[2]) = (b[1] * d[1]) * (a[2] * c[2])
  <2>1. (a[1] * c[1]) * (b[2] * d[2]) = (a[1] * b[2]) * (c[1] * d[2])
    BY <1>1
  <2>2. (b[1] * d[1]) * (a[2] * c[2]) = (b[1] * a[2]) * (d[1] * c[2])
    BY <1>1
  <2> QED BY <1>2, <2>1, <2>2
<1> QED BY <1>3 DEF Same, Times
\* and differences are.
LEMMA MinusSame ==
    ASSUME NEW a \in Fraction, NEW b \in Fraction, NEW c \in Fraction, NEW d \in Fraction,
           Same(a, b), Same(c, d)
    PROVE  Same(Minus(a, c), Minus(b, d))
<1>1. Whole(-1) \in Fraction /\ Same(Whole(-1), Whole(-1))
  BY WholeIs, SameReflexive
<1>2. Times(c, Whole(-1)) \in Fraction /\ Times(d, Whole(-1)) \in Fraction
  BY <1>1, TimesIs
<1> QED BY <1>1, <1>2, PlusSame, TimesSame DEF Minus
\* Equal fractions have equal signs.
LEMMA CrossZero ==
    ASSUME NEW a \in Int, NEW b \in Int, NEW k \in Nat \ {0}, NEW l \in Nat \ {0}, a * l = b * k
    PROVE  (a = 0 <=> b = 0) /\ (a > 0 <=> b > 0)
<1>1. a > 0 => a * l > 0
  OBVIOUS
<1>2. a < 0 => a * l < 0
  OBVIOUS
<1>3. b > 0 => b * k > 0
  OBVIOUS
<1>4. b < 0 => b * k < 0
  OBVIOUS
<1>5. a = 0 => a * l = 0
  OBVIOUS
<1>6. b = 0 => b * k = 0
  OBVIOUS
<1> QED BY <1>1, <1>2, <1>3, <1>4, <1>5, <1>6
\* Quotients of equal fractions are the same.
LEMMA QuotientSame ==
    ASSUME NEW a \in Fraction, NEW b \in Fraction, NEW c \in Fraction, NEW d \in Fraction,
           Same(a, b), Same(c, d)
    PROVE  Same(Quotient(a, c), Quotient(b, d))
<1>1. c[1] \in Int /\ c[2] \in Nat \ {0} /\ d[1] \in Int /\ d[2] \in Nat \ {0}
  BY Parts
<1>2. c[1] * d[2] = d[1] * c[2]
  BY DEF Same
<1>3. (c[1] = 0 <=> d[1] = 0) /\ (c[1] > 0 <=> d[1] > 0)
  BY <1>1, <1>2, CrossZero
<1>4. CASE c[1] = 0
  <2>1. Quotient(a, c) = Whole(0) /\ Quotient(b, d) = Whole(0)
    BY <1>3, <1>4 DEF Quotient
  <2> QED BY <2>1, WholeIs, SameReflexive
<1>5. CASE c[1] # 0
  <2>1. d[1] # 0
    BY <1>3, <1>5
  <2>2. Same(Reciprocal(c), Reciprocal(d))
    <3>1. CASE c[1] > 0
      <4>1. c[2] * d[1] = d[2] * c[1]
        BY <1>1, <1>2
      <4> QED BY <1>3, <3>1, <4>1 DEF Same, Reciprocal
    <3>2. CASE ~(c[1] > 0)
      <4>1. (-c[2]) * (-d[1]) = (-d[2]) * (-c[1])
        BY <1>1, <1>2
      <4> QED BY <1>3, <3>2, <4>1 DEF Same, Reciprocal
    <3> QED BY <3>1, <3>2
  <2>3. Reciprocal(c) \in Fraction /\ Reciprocal(d) \in Fraction
    BY <1>5, <2>1, ReciprocalIs
  <2>4. Quotient(a, c) = Times(a, Reciprocal(c)) /\ Quotient(b, d) = Times(b, Reciprocal(d))
    BY <1>5, <2>1 DEF Quotient
  <2> QED BY <2>2, <2>3, <2>4, TimesSame
<1> QED BY <1>4, <1>5

\* Sums and products in another order.
LEMMA PlusSwap ==
    ASSUME NEW a \in Fraction, NEW b \in Fraction, NEW c \in Fraction, NEW d \in Fraction
    PROVE  Plus(Plus(a, b), Plus(c, d)) = Plus(Plus(a, c), Plus(b, d))
<1>1. /\ a[1] \in Int /\ a[2] \in Int /\ b[1] \in Int /\ b[2] \in Int
      /\ c[1] \in Int /\ c[2] \in Int /\ d[1] \in Int /\ d[2] \in Int
  BY Parts
<1>2. (a[2] * b[2]) * (c[2] * d[2]) = (a[2] * c[2]) * (b[2] * d[2])
  BY <1>1
<1>3. (a[1] * b[2] + b[1] * a[2]) * (c[2] * d[2]) + (c[1] * d[2] + d[1] * c[2]) * (a[2] * b[2])
      = (a[1] * c[2] + c[1] * a[2]) * (b[2] * d[2]) + (b[1] * d[2] + d[1] * b[2]) * (a[2] * c[2])
  BY <1>1
<1> QED BY <1>2, <1>3 DEF Plus
\* The order of factors does not matter.
LEMMA TimesSwap ==
    ASSUME NEW a \in Fraction, NEW b \in Fraction, NEW c \in Fraction
    PROVE  Times(Times(a, b), c) = Times(Times(a, c), b)
<1>1. a[1] \in Int /\ a[2] \in Int /\ b[1] \in Int /\ b[2] \in Int /\ c[1] \in Int /\ c[2] \in Int
  BY Parts
<1>2. (a[1] * b[1]) * c[1] = (a[1] * c[1]) * b[1] /\ (a[2] * b[2]) * c[2] = (a[2] * c[2]) * b[2]
  BY <1>1
<1> QED BY <1>2 DEF Times
\* Nor does that of two.
LEMMA TimesCommutes ==
    ASSUME NEW a \in Fraction, NEW b \in Fraction PROVE Times(a, b) = Times(b, a)
<1>1. a[1] \in Int /\ a[2] \in Int /\ b[1] \in Int /\ b[2] \in Int
  BY Parts
<1> QED BY <1>1 DEF Times
\* A product of a sum is the sum of the products.
LEMMA Distributes ==
    ASSUME NEW a \in Fraction, NEW b \in Fraction, NEW c \in Fraction
    PROVE  Same(Times(Plus(a, b), c), Plus(Times(a, c), Times(b, c)))
<1>1. a[1] \in Int /\ a[2] \in Int /\ b[1] \in Int /\ b[2] \in Int /\ c[1] \in Int /\ c[2] \in Int
  BY Parts
<1>2. ((a[1] * b[2] + b[1] * a[2]) * c[1]) * ((a[2] * c[2]) * (b[2] * c[2]))
      = ((a[1] * c[1]) * (b[2] * c[2]) + (b[1] * c[1]) * (a[2] * c[2])) * ((a[2] * b[2]) * c[2])
  BY <1>1
<1> QED BY <1>2 DEF Same, Times, Plus

\* Nothing.
LEMMA NothingAdded ==
    ASSUME NEW a \in Fraction, NEW b \in Fraction, b[1] = 0
    PROVE  Same(Plus(a, b), a) /\ Same(Plus(b, a), a)
<1>1. a[1] \in Int /\ a[2] \in Int /\ b[2] \in Int
  BY Parts
<1>2. (a[1] * b[2] + 0 * a[2]) * a[2] = a[1] * (a[2] * b[2])
  BY <1>1
<1>3. (0 * a[2] + a[1] * b[2]) * a[2] = a[1] * (b[2] * a[2])
  BY <1>1
<1> QED BY <1>2, <1>3 DEF Same, Plus
\* Nothing, multiplied, is nothing.
LEMMA NothingTimes ==
    ASSUME NEW a \in Fraction PROVE Times(Whole(0), a)[1] = 0 /\ Times(Whole(0), a) \in Fraction
<1>1. a[1] \in Int /\ Whole(0) \in Fraction
  BY Parts, WholeIs
<1>2. 0 * a[1] = 0
  BY <1>1
<1> QED BY <1>1, <1>2, TimesIs DEF Times, Whole

-----------------------------------------------------------------------------
(* Recursive functions, by a measure that their calls decrease.            *)

\* Two functions agree wherever the measure is below n.
AgreeBelow(f, g, S, measure, n) == \A y \in S : measure[y] < n => f[y] = g[y]
AgreeUpto(f, g, S, measure, n) == \A y \in S : measure[y] <= n => f[y] = g[y]
HasFixpoint(S, N, measure, F, start, step) == \E g \in F : step[g] = g

\* A recursive definition whose calls decrease the measure defines a function.
LEMMA FixpointExists ==
    ASSUME NEW S, NEW N \in Nat, NEW measure \in [S -> 0..N], NEW F,
           NEW start \in F, NEW step \in [F -> F],
           \A f \in F : f = [x \in S |-> f[x]],
           \A f \in F, g \in F, x \in S :
              AgreeBelow(f, g, S, measure, measure[x]) => step[f][x] = step[g][x]
    PROVE  HasFixpoint(S, N, measure, F, start, step)
<1> DEFINE M == N + 2
           turn == [n \in 1..M |-> step]
<1>1. M \in Nat /\ turn \in [1..M -> [F -> F]]
  OBVIOUS
<1>2. PICK it : IsRun(it, M, F, start, turn)
  <2> HIDE DEF M, turn
  <2>1. HasRun(M, F, start, turn)
    BY <1>1, LoopExists
  <2> QED BY <2>1 DEF HasRun
<1>3. \A n \in 0..M : it[n] \in F
  BY <1>2 DEF IsRun
<1>4. \A n \in 1..M : it[n] = step[it[n - 1]]
  BY <1>2 DEF IsRun
<1> DEFINE L == N + 1
           T == {n \in 0..L : AgreeBelow(it[n], it[n + 1], S, measure, n)}
<1>5. 0 \in T
  BY DEF AgreeBelow
<1>6. ASSUME NEW n \in 1..L, n - 1 \in T PROVE n \in T
  <2>1. /\ n \in Int
        /\ n \in 0..L
        /\ n \in 1..M
        /\ n + 1 \in 1..M
        /\ n - 1 \in 0..M
        /\ n - 1 + 1 = n
        /\ n + 1 - 1 = n
    OBVIOUS
  <2>2. AgreeBelow(it[n - 1], it[n], S, measure, n - 1)
    BY <1>6, <2>1
  <2>3. PICK f \in F, g \in F, h \in F : f = it[n - 1] /\ g = it[n] /\ h = it[n + 1]
    BY <1>3, <2>1
  <2>4. g = step[f] /\ h = step[g]
    BY <1>4, <2>1, <2>3
  <2>5. ASSUME NEW y \in S, measure[y] < n PROVE g[y] = h[y]
    <3>1. AgreeBelow(f, g, S, measure, measure[y])
      <4>1. measure[y] \in Int
        OBVIOUS
      <4>2. \A z \in S : measure[z] \in Int /\ (measure[z] < measure[y] => measure[z] < n - 1)
        BY <2>1, <2>5, <4>1
      <4> QED BY <2>2, <2>3, <4>2 DEF AgreeBelow
    <3> QED BY <2>4, <3>1
  <2> QED BY <2>1, <2>3, <2>5 DEF AgreeBelow
<1>7. T = 0..L
  <2>1. T \in SUBSET (0..L) /\ L \in Nat
    OBVIOUS
  <2> HIDE DEF T, L
  <2> QED BY <1>5, <1>6, <2>1, Upto
<1>8. AgreeBelow(it[N + 1], it[N + 2], S, measure, N + 1)
  <2>1. L \in T
    BY <1>7
  <2> QED BY <2>1
<1>9. PICK g \in F, h \in F : g = it[N + 1] /\ h = it[N + 2]
  BY <1>3
<1>10. h = step[g]
  <2>1. N + 2 \in 1..M /\ (N + 2) - 1 = N + 1
    OBVIOUS
  <2> QED BY <1>4, <1>9, <2>1
<1>11. \A x \in S : g[x] = h[x]
  <2>1. \A x \in S : measure[x] < N + 1
    OBVIOUS
  <2> QED BY <1>8, <1>9, <2>1 DEF AgreeBelow
<1>12. g = h
  BY <1>11
<1> QED BY <1>10, <1>12 DEF HasFixpoint

\* It defines one function only.
LEMMA FixpointUnique ==
    ASSUME NEW S, NEW N \in Nat, NEW measure \in [S -> 0..N], NEW f, NEW g,
           f = [x \in S |-> f[x]], g = [x \in S |-> g[x]],
           \A x \in S : AgreeBelow(f, g, S, measure, measure[x]) => f[x] = g[x]
    PROVE  AgreeUpto(f, g, S, measure, N)
<1> DEFINE L == N + 1
           T == {n \in 0..L : AgreeBelow(f, g, S, measure, n)}
<1>1. 0 \in T
  BY DEF AgreeBelow
<1>2. ASSUME NEW n \in 1..L, n - 1 \in T PROVE n \in T
  <2>1. n \in Int /\ n \in 0..L
    OBVIOUS
  <2>2. AgreeBelow(f, g, S, measure, n - 1)
    BY <1>2
  <2>3. ASSUME NEW y \in S, measure[y] < n PROVE f[y] = g[y]
    <3>1. \A z \in S : measure[z] < measure[y] => measure[z] < n - 1
      BY <2>1, <2>3
    <3> QED BY <2>2, <3>1 DEF AgreeBelow
  <2> QED BY <2>1, <2>3 DEF AgreeBelow
<1>3. T = 0..L
  <2>1. T \in SUBSET (0..L) /\ L \in Nat
    OBVIOUS
  <2> HIDE DEF T, L
  <2> QED BY <1>1, <1>2, <2>1, Upto
<1>4. AgreeBelow(f, g, S, measure, N + 1)
  <2>1. L \in T
    BY <1>3
  <2> QED BY <2>1
<1>5. \A x \in S : measure[x] < N + 1
  OBVIOUS
<1> QED BY <1>4, <1>5 DEF AgreeBelow, AgreeUpto

-----------------------------------------------------------------------------
(* Billing expressions: the reference evaluator.                           *)

\* The largest of a set of positions.
LEMMA MaxIs ==
    ASSUME NEW K \in Nat, NEW T \in SUBSET (1..K), T # {}
    PROVE  Max(T) \in T /\ \A m \in T : m <= Max(T)
<1> DEFINE U == {K - m : m \in T}
<1>0. \A m \in T : m \in Int /\ K - m \in Nat
  OBVIOUS
<1>1. U \in SUBSET Nat /\ U # {}
  BY <1>0
<1>2. PICK n \in U : \A m \in U : n <= m
  <2> HIDE DEF U
  <2> QED BY <1>1, LeastNat
<1>3. PICK x \in T : n = K - x
  BY <1>2
<1>4. \A m \in T : x >= m
  <2> TAKE m \in T
  <2>1. K - m \in U /\ m \in Int /\ x \in Int
    BY <1>0
  <2>2. n <= K - m
    BY <1>2, <2>1
  <2> QED BY <1>3, <2>1, <2>2
<1> HIDE DEF U
<1>5. Max(T) \in T /\ \A m \in T : Max(T) >= m
  BY <1>4 DEF Max
<1> QED BY <1>4, <1>5

\* It is the one that no other exceeds.
LEMMA MaxWhen ==
    ASSUME NEW K \in Nat, NEW T \in SUBSET (1..K), NEW m \in T, \A n \in T : n <= m
    PROVE  Max(T) = m
<1>1. Max(T) \in T /\ m <= Max(T)
  BY MaxIs
<1>2. \A n \in T : n \in Int
  OBVIOUS
<1>3. Max(T) <= m /\ Max(T) \in Int /\ m \in Int
  BY <1>1, <1>2
<1> QED BY <1>1, <1>3

Sums(t, s) == Binary(t, s, {"+", "-"})
Products(t, s) == Binary(t, s, {"*", "/"})
Signs == {"+", "-", "*", "/"}

\* Where a segment splits.
LEMMA BinaryIs ==
    ASSUME NEW t \in Seq(Token), NEW s \in Segments(t), NEW ops
    PROVE  /\ Binary(t, s, ops) \in SUBSET (s[1] + 1..s[2] - 1)
           /\ Binary(t, s, ops) \in SUBSET (1..Len(t))
<1>1. s[1] \in 1..Len(t) + 1 /\ s[2] \in 1..Len(t) + 1
  BY DEF Segments
<1> QED BY <1>1 DEF Binary

\* A segment splits inside of it.
LEMMA SplitsInside ==
    ASSUME NEW t \in Seq(Token), NEW s \in Segments(t), NEW ops, Binary(t, s, ops) # {}
    PROVE  Max(Binary(t, s, ops)) \in s[1] + 1..s[2] - 1
<1>1. Binary(t, s, ops) \in SUBSET (s[1] + 1..s[2] - 1) /\ Binary(t, s, ops) \in SUBSET (1..Len(t))
  BY BinaryIs
<1>2. Max(Binary(t, s, ops)) \in Binary(t, s, ops)
  <2>1. Len(t) \in Nat
    OBVIOUS
  <2> QED BY <1>1, <2>1, MaxIs
<1> QED BY <1>1, <1>2

\* What comes first in a segment decides what one that does not split is worth.
FirstOf(t, env, s, worth) ==
    CASE t[s[1]] = "-" -> Minus(Whole(0), worth[<<s[1] + 1, s[2]>>])
      [] t[s[1]] = "+" -> worth[<<s[1] + 1, s[2]>>]
      [] t[s[1]] = "(" -> worth[<<s[1] + 1, s[2] - 1>>]
      [] t[s[1]] \in DOMAIN Number -> Whole(Number[t[s[1]]])
      [] t[s[1]] \in Names -> env[t[s[1]]]
      [] OTHER -> Whole(0)

\* The cases of the evaluation.
LEMMA EvaluateCases ==
    ASSUME NEW t, NEW env, NEW s, NEW w, s[1] \in Int, s[2] \in Int
    PROVE  /\ s[1] >= s[2] => Evaluate(t, env, s, w) = Whole(0)
           /\ s[1] < s[2] /\ Sums(t, s) # {} =>
                 \A at \in {Max(Sums(t, s))} :
                    Evaluate(t, env, s, w) =
                       IF t[at] = "+" THEN Plus(w[<<s[1], at>>], w[<<at + 1, s[2]>>])
                       ELSE Minus(w[<<s[1], at>>], w[<<at + 1, s[2]>>])
           /\ s[1] < s[2] /\ Sums(t, s) = {} /\ Products(t, s) # {} =>
                 \A at \in {Max(Products(t, s))} :
                    Evaluate(t, env, s, w) =
                       IF t[at] = "*" THEN Times(w[<<s[1], at>>], w[<<at + 1, s[2]>>])
                       ELSE Quotient(w[<<s[1], at>>], w[<<at + 1, s[2]>>])
           /\ s[1] < s[2] /\ Sums(t, s) = {} /\ Products(t, s) = {} =>
                 Evaluate(t, env, s, w) = FirstOf(t, env, s, w)
<1>1. CASE s[1] >= s[2]
  <2>1. ~(s[1] < s[2])
    BY <1>1
  <2> QED BY <1>1, <2>1 DEF Evaluate
<1>2. CASE s[1] < s[2]
  <2>1. ~(s[1] >= s[2])
    BY <1>2
  <2>2. CASE Sums(t, s) # {}
    BY <1>2, <2>1, <2>2 DEF Evaluate, Sums
  <2>3. CASE Sums(t, s) = {} /\ Products(t, s) # {}
    BY <1>2, <2>1, <2>3 DEF Evaluate, Sums, Products
  <2>4. CASE Sums(t, s) = {} /\ Products(t, s) = {}
    BY <1>2, <2>1, <2>4 DEF Evaluate, Sums, Products, FirstOf
  <2> QED BY <2>1, <2>2, <2>3, <2>4
<1> QED BY <1>1, <1>2

Longer(t) == [s \in Segments(t) |-> IF s[1] < s[2] THEN s[2] - s[1] ELSE 0]

\* Shorter segments.
LEMMA SegmentFacts ==
    ASSUME NEW t \in Seq(Token), NEW a \in 1..Len(t) + 1, NEW b \in 1..Len(t) + 1
    PROVE  /\ <<a, b>> \in Segments(t) /\ <<a, b>>[1] = a /\ <<a, b>>[2] = b
           /\ Longer(t)[<<a, b>>] = IF a < b THEN b - a ELSE 0
  BY DEF Segments, Longer
\* A segment is a pair of positions.
LEMMA SegmentOf ==
    ASSUME NEW t \in Seq(Token), NEW s \in Segments(t)
    PROVE  s[1] \in 1..Len(t) + 1 /\ s[2] \in 1..Len(t) + 1 /\ s = <<s[1], s[2]>>
  BY DEF Segments
\* The parts of a segment are shorter segments.
LEMMA PartsAreShorter ==
    ASSUME NEW t \in Seq(Token), NEW s \in Segments(t), s[1] < s[2]
    PROVE  /\ \A at \in s[1] + 1..s[2] - 1 :
                 /\ <<s[1], at>> \in Segments(t) /\ Longer(t)[<<s[1], at>>] < Longer(t)[s]
                 /\ <<at + 1, s[2]>> \in Segments(t) /\ Longer(t)[<<at + 1, s[2]>>] < Longer(t)[s]
           /\ <<s[1] + 1, s[2]>> \in Segments(t) /\ Longer(t)[<<s[1] + 1, s[2]>>] < Longer(t)[s]
           /\ <<s[1] + 1, s[2] - 1>> \in Segments(t)
           /\ Longer(t)[<<s[1] + 1, s[2] - 1>>] < Longer(t)[s]
<1>1. PICK a \in 1..Len(t) + 1, b \in 1..Len(t) + 1 : s = <<a, b>>
  BY SegmentOf
<1>2. a < b /\ s[1] = a /\ s[2] = b /\ Longer(t)[s] = b - a
  BY <1>1, SegmentFacts
<1>3. ASSUME NEW at \in a + 1..b - 1
      PROVE  /\ <<a, at>> \in Segments(t) /\ Longer(t)[<<a, at>>] < Longer(t)[s]
             /\ <<at + 1, b>> \in Segments(t) /\ Longer(t)[<<at + 1, b>>] < Longer(t)[s]
  <2>1. at \in 1..Len(t) + 1 /\ at + 1 \in 1..Len(t) + 1
    OBVIOUS
  <2>2. Longer(t)[<<a, at>>] = at - a
    BY <2>1, SegmentFacts
  <2>3. Longer(t)[<<at + 1, b>>] = IF at + 1 < b THEN b - (at + 1) ELSE 0
    BY <2>1, SegmentFacts
  <2> QED BY <1>2, <2>1, <2>2, <2>3, SegmentFacts
<1>4. a + 1 \in 1..Len(t) + 1 /\ b - 1 \in 1..Len(t) + 1
  BY <1>2
<1>5. /\ Longer(t)[<<a + 1, b>>] = IF a + 1 < b THEN b - (a + 1) ELSE 0
      /\ Longer(t)[<<a + 1, b - 1>>] = IF a + 1 < b - 1 THEN (b - 1) - (a + 1) ELSE 0
  <2>1. ASSUME NEW m \in 1..Len(t) + 1, NEW n \in 1..Len(t) + 1
        PROVE  Longer(t)[<<m, n>>] = IF m < n THEN n - m ELSE 0
    BY SegmentFacts
  <2> QED BY <1>4, <2>1, Zenon
<1>6. /\ <<a + 1, b>> \in Segments(t) /\ Longer(t)[<<a + 1, b>>] < Longer(t)[s]
      /\ <<a + 1, b - 1>> \in Segments(t) /\ Longer(t)[<<a + 1, b - 1>>] < Longer(t)[s]
  BY <1>2, <1>4, <1>5, SegmentFacts
<1>7. s[1] + 1 = a + 1 /\ s[2] - 1 = b - 1 /\ s[1] = a /\ s[2] = b
  BY <1>2
<1> QED BY <1>3, <1>6, <1>7, Zenon

\* An evaluation uses what shorter segments are worth.
LEMMA EvaluateAgrees ==
    ASSUME NEW t \in Seq(Token), NEW env, NEW s \in Segments(t), NEW f, NEW g,
           AgreeBelow(f, g, Segments(t), Longer(t), Longer(t)[s])
    PROVE  Evaluate(t, env, s, f) = Evaluate(t, env, s, g)
<1>1. s[1] \in Int /\ s[2] \in Int
  BY SegmentOf
<1>2. CASE s[1] >= s[2]
  BY <1>1, <1>2, EvaluateCases
<1>3. CASE s[1] < s[2]
  <2>0. \A x \in Segments(t) : Longer(t)[x] < Longer(t)[s] => f[x] = g[x]
    BY DEF AgreeBelow
  <2>1. \A at \in s[1] + 1..s[2] - 1 :
            f[<<s[1], at>>] = g[<<s[1], at>>] /\ f[<<at + 1, s[2]>>] = g[<<at + 1, s[2]>>]
    BY <1>3, <2>0, PartsAreShorter
  <2>2. /\ f[<<s[1] + 1, s[2]>>] = g[<<s[1] + 1, s[2]>>]
        /\ f[<<s[1] + 1, s[2] - 1>>] = g[<<s[1] + 1, s[2] - 1>>]
    BY <1>3, <2>0, PartsAreShorter
  <2>3. CASE Sums(t, s) # {}
    <3>1. PICK at \in s[1] + 1..s[2] - 1 : at = Max(Sums(t, s))
      BY <2>3, SplitsInside DEF Sums
    <3>2. Evaluate(t, env, s, f) = IF t[at] = "+" THEN Plus(f[<<s[1], at>>], f[<<at + 1, s[2]>>])
                                   ELSE Minus(f[<<s[1], at>>], f[<<at + 1, s[2]>>])
      BY <1>1, <1>3, <2>3, <3>1, EvaluateCases
    <3>3. Evaluate(t, env, s, g) = IF t[at] = "+" THEN Plus(g[<<s[1], at>>], g[<<at + 1, s[2]>>])
                                   ELSE Minus(g[<<s[1], at>>], g[<<at + 1, s[2]>>])
      BY <1>1, <1>3, <2>3, <3>1, EvaluateCases
    <3>4. f[<<s[1], at>>] = g[<<s[1], at>>] /\ f[<<at + 1, s[2]>>] = g[<<at + 1, s[2]>>]
      BY <2>1
    <3> QED BY <3>2, <3>3, <3>4
  <2>4. CASE Sums(t, s) = {} /\ Products(t, s) # {}
    <3>1. PICK at \in s[1] + 1..s[2] - 1 : at = Max(Products(t, s))
      BY <2>4, SplitsInside DEF Products
    <3>2. Evaluate(t, env, s, f) = IF t[at] = "*" THEN Times(f[<<s[1], at>>], f[<<at + 1, s[2]>>])
                                   ELSE Quotient(f[<<s[1], at>>], f[<<at + 1, s[2]>>])
      BY <1>1, <1>3, <2>4, <3>1, EvaluateCases
    <3>3. Evaluate(t, env, s, g) = IF t[at] = "*" THEN Times(g[<<s[1], at>>], g[<<at + 1, s[2]>>])
                                   ELSE Quotient(g[<<s[1], at>>], g[<<at + 1, s[2]>>])
      BY <1>1, <1>3, <2>4, <3>1, EvaluateCases
    <3>4. f[<<s[1], at>>] = g[<<s[1], at>>] /\ f[<<at + 1, s[2]>>] = g[<<at + 1, s[2]>>]
      BY <2>1
    <3> QED BY <3>2, <3>3, <3>4
  <2>5. CASE Sums(t, s) = {} /\ Products(t, s) = {}
    <3>1. FirstOf(t, env, s, f) = FirstOf(t, env, s, g)
      BY <2>2 DEF FirstOf
    <3> QED BY <1>1, <1>3, <2>5, <3>1, EvaluateCases, ZenonT(30)
  <2> QED BY <2>3, <2>4, <2>5
<1> QED BY <1>1, <1>2, <1>3

\* An evaluation gives a fraction.
LEMMA EvaluateIs ==
    ASSUME NEW t \in Seq(Token), NEW env \in [Names -> Fraction], NEW s \in Segments(t),
           NEW w \in [Segments(t) -> Fraction]
    PROVE  Evaluate(t, env, s, w) \in Fraction
<1>1. s[1] \in Int /\ s[2] \in Int
  BY SegmentOf
<1>2. Whole(0) \in Fraction /\ \A n \in DOMAIN Number : Whole(Number[n]) \in Fraction
  BY WholeIs DEF Number
<1>3. CASE s[1] >= s[2]
  BY <1>1, <1>2, <1>3, EvaluateCases
<1>4. CASE s[1] < s[2]
  <2>1. \A at \in s[1] + 1..s[2] - 1 :
            w[<<s[1], at>>] \in Fraction /\ w[<<at + 1, s[2]>>] \in Fraction
    BY <1>4, PartsAreShorter
  <2>2. w[<<s[1] + 1, s[2]>>] \in Fraction /\ w[<<s[1] + 1, s[2] - 1>>] \in Fraction
    BY <1>4, PartsAreShorter
  <2>3. CASE Sums(t, s) # {}
    <3>1. PICK at \in s[1] + 1..s[2] - 1 : at = Max(Sums(t, s))
      BY <2>3, SplitsInside DEF Sums
    <3>2. PICK left \in Fraction, right \in Fraction :
                   left = w[<<s[1], at>>] /\ right = w[<<at + 1, s[2]>>]
      BY <2>1
    <3>3. Plus(left, right) \in Fraction /\ Minus(left, right) \in Fraction
      BY PlusIs, MinusIs
    <3>4. Evaluate(t, env, s, w) = IF t[at] = "+" THEN Plus(left, right) ELSE Minus(left, right)
      BY <1>1, <1>4, <2>3, <3>1, <3>2, EvaluateCases
    <3> QED BY <3>3, <3>4
  <2>4. CASE Sums(t, s) = {} /\ Products(t, s) # {}
    <3>1. PICK at \in s[1] + 1..s[2] - 1 : at = Max(Products(t, s))
      BY <2>4, SplitsInside DEF Products
    <3>2. PICK left \in Fraction, right \in Fraction :
                   left = w[<<s[1], at>>] /\ right = w[<<at + 1, s[2]>>]
      BY <2>1
    <3>3. Times(left, right) \in Fraction /\ Quotient(left, right) \in Fraction
      BY TimesIs, QuotientIs
    <3>4. Evaluate(t, env, s, w) = IF t[at] = "*" THEN Times(left, right) ELSE Quotient(left, right)
      BY <1>1, <1>4, <2>4, <3>1, <3>2, EvaluateCases
    <3> QED BY <3>3, <3>4
  <2>5. CASE Sums(t, s) = {} /\ Products(t, s) = {}
    <3>1. Minus(Whole(0), w[<<s[1] + 1, s[2]>>]) \in Fraction
      BY <1>2, <2>2, MinusIs
    <3>2. \A n \in Names : env[n] \in Fraction
      OBVIOUS
    <3>3. FirstOf(t, env, s, w) \in Fraction
      BY <1>2, <2>2, <3>1, <3>2 DEF FirstOf
    <3> QED BY <1>1, <1>4, <2>5, <3>3, EvaluateCases
  <2> QED BY <2>3, <2>4, <2>5
<1> QED BY <1>1, <1>3, <1>4

\* What each segment of an expression is worth.
WorthOf(t, env) == CHOOSE f : f = [s \in Segments(t) |-> Evaluate(t, env, s, f)]

\* That function exists, and it is the one of Value.
LEMMA WorthOfFacts ==
    ASSUME NEW t \in Seq(Token), NEW env \in [Names -> Fraction]
    PROVE  /\ WorthOf(t, env) \in [Segments(t) -> Fraction]
           /\ \A s \in Segments(t) : WorthOf(t, env)[s] = Evaluate(t, env, s, WorthOf(t, env))
           /\ Value(t, env) = WorthOf(t, env)[<<1, Len(t) + 1>>]
<1> DEFINE S == Segments(t)
           F == [S -> Fraction]
           N == Len(t)
           step == [f \in F |-> [s \in S |-> Evaluate(t, env, s, f)]]
           start == [s \in S |-> Whole(0)]
           measure == Longer(t)
<1>1. N \in Nat /\ measure \in [S -> 0..N]
  <2>1. ASSUME NEW s \in S PROVE Longer(t)[s] \in 0..N
    <3>1. PICK a \in 1..Len(t) + 1, b \in 1..Len(t) + 1 : s = <<a, b>>
      BY SegmentOf
    <3>2. Longer(t)[s] = IF a < b THEN b - a ELSE 0
      BY <3>1, SegmentFacts
    <3> QED BY <3>2
  <2>2. Longer(t) = [s \in S |-> Longer(t)[s]]
    BY DEF Longer
  <2> QED BY <2>1, <2>2
<1>2. start \in F
  BY WholeIs
<1>3. step \in [F -> F]
  <2>1. \A f \in F, s \in S : Evaluate(t, env, s, f) \in Fraction
    BY EvaluateIs
  <2> QED BY <2>1
<1>4. \A f \in F : f = [s \in S |-> f[s]]
  OBVIOUS
<1>5. \A f, g : \A s \in S : AgreeBelow(f, g, S, measure, measure[s]) =>
          Evaluate(t, env, s, f) = Evaluate(t, env, s, g)
  BY EvaluateAgrees
<1>6. \A f \in F, g \in F, s \in S : AgreeBelow(f, g, S, measure, measure[s]) =>
          step[f][s] = step[g][s]
  BY <1>5
<1>7. PICK g \in F : step[g] = g
  <2> HIDE DEF S, F, N, step, start, measure
  <2>1. HasFixpoint(S, N, measure, F, start, step)
    BY <1>1, <1>2, <1>3, <1>4, <1>6, FixpointExists
  <2> QED BY <2>1 DEF HasFixpoint
<1>8. g = [s \in S |-> Evaluate(t, env, s, g)]
  BY <1>7
<1> HIDE DEF step, start
<1>9. PICK w : w = WorthOf(t, env)
  OBVIOUS
<1>10. w = [s \in S |-> Evaluate(t, env, s, w)]
  BY <1>8, <1>9 DEF WorthOf
<1>11. w = g
  <2>1. w = [s \in S |-> w[s]] /\ g = [s \in S |-> g[s]]
    BY <1>4, <1>10
  <2>2. \A s \in S : w[s] = Evaluate(t, env, s, w) /\ g[s] = Evaluate(t, env, s, g)
    BY <1>8, <1>10
  <2>3. \A s \in S : AgreeBelow(w, g, S, measure, measure[s]) => w[s] = g[s]
    BY <1>5, <2>2
  <2>4. AgreeUpto(w, g, S, measure, N)
    <3> HIDE DEF S, F, N, measure
    <3> QED BY <1>1, <2>1, <2>3, FixpointUnique
  <2>5. \A s \in S : measure[s] <= N
    <3> HIDE DEF S, N, measure
    <3> QED BY <1>1
  <2>6. \A s \in S : w[s] = g[s]
    BY <2>4, <2>5 DEF AgreeUpto
  <2> QED BY <2>1, <2>6
<1>12. \A s \in S : w[s] = Evaluate(t, env, s, w)
  BY <1>10
<1>13. Value(t, env) = WorthOf(t, env)[<<1, Len(t) + 1>>]
  BY DEF Value, WorthOf
<1> QED BY <1>9, <1>11, <1>12, <1>13

-----------------------------------------------------------------------------
(* Billing expressions: where they split.                                  *)

\* The depth at a token is that before it, but for a parenthesis.
LEMMA DepthFacts ==
    ASSUME NEW t, NEW i \in Nat \ {0}
    PROVE  /\ Depth(t, i) \in Int /\ Depth(t, i - 1) \in Int
           /\ t[i] = "(" => Depth(t, i) = Depth(t, i - 1) + 1
           /\ t[i] = ")" => Depth(t, i) = Depth(t, i - 1) - 1
           /\ t[i] \notin {"(", ")"} => Depth(t, i) = Depth(t, i - 1)
<1> DEFINE At(c, n) == {j \in 1..n : t[j] = c}
<1>1. ASSUME NEW c
      PROVE  /\ Cardinality(At(c, i)) \in Int /\ Cardinality(At(c, i - 1)) \in Int
             /\ t[i] = c => Cardinality(At(c, i)) = Cardinality(At(c, i - 1)) + 1
             /\ t[i] # c => Cardinality(At(c, i)) = Cardinality(At(c, i - 1))
  <2>1. IsFiniteSet(1..(i - 1)) /\ IsFiniteSet(1..i)
    BY FS_Interval
  <2>2. IsFiniteSet(At(c, i)) /\ IsFiniteSet(At(c, i - 1))
    BY <2>1, FS_Subset
  <2>3. Cardinality(At(c, i)) \in Nat /\ Cardinality(At(c, i - 1)) \in Nat
    BY <2>2, FS_CardinalityType
  <2>4. i \notin At(c, i - 1)
    OBVIOUS
  <2>5. CASE t[i] = c
    <3>1. At(c, i) = At(c, i - 1) \cup {i}
      BY <2>5
    <3> HIDE DEF At
    <3> QED BY <2>2, <2>3, <2>4, <2>5, <3>1, FS_AddElement
  <2>6. CASE t[i] # c
    <3>1. At(c, i) = At(c, i - 1)
      BY <2>6
    <3> QED BY <2>3, <2>6, <3>1
  <2> QED BY <2>5, <2>6
<1>2. \A n \in {i, i - 1} : Depth(t, n) = Cardinality(At("(", n)) - Cardinality(At(")", n))
  BY DEF Depth
<1> HIDE DEF At
<1>3. "(" # ")"
  OBVIOUS
<1> QED BY <1>1, <1>2, <1>3

\* A segment an operand can be: its parentheses match and it ends.
Closed(t, a, b) ==
    /\ a \in 1..Len(t) + 1 /\ b \in 1..Len(t) + 1 /\ a < b
    /\ Depth(t, b - 1) = Depth(t, a - 1)
    /\ \A i \in a..b - 1 : Depth(t, i) >= Depth(t, a - 1)
    /\ t[b - 1] \notin Signs \cup {"("}

Splits(t, a, b, ops, i) ==
    /\ i \in a + 1..b - 1 /\ t[i] \in ops /\ t[i - 1] \notin Signs \cup {"("}
    /\ Depth(t, i) = Depth(t, a - 1)

\* Where a segment splits, one fact at a time.
LEMMA SplitsAt ==
    ASSUME NEW t, NEW a, NEW b, NEW ops, NEW i
    PROVE  i \in Binary(t, <<a, b>>, ops) <=> Splits(t, a, b, ops, i)
  BY DEF Binary, Signs, Splits

\* A number or a name.
LEMMA LeafShape ==
    ASSUME NEW t \in Seq(Token), NEW a \in 1..Len(t), t[a] \notin Signs \cup {"(", ")"}
    PROVE  /\ Closed(t, a, a + 1)
           /\ \A ops : Binary(t, <<a, a + 1>>, ops) = {}
<1>1. Depth(t, a) = Depth(t, a - 1) /\ Depth(t, a - 1) \in Int
  BY DepthFacts
<1>2. \A i \in a..(a + 1) - 1 : i = a
  OBVIOUS
<1>3. (a + 1) - 1 = a /\ a + 1 \in 1..Len(t) + 1 /\ a \in 1..Len(t) + 1 /\ a < a + 1
  OBVIOUS
<1>4. Closed(t, a, a + 1)
  BY <1>1, <1>2, <1>3 DEF Closed
<1>5. \A i : i \notin (a + 1)..(a + 1) - 1
  OBVIOUS
<1> QED BY <1>4, <1>5, SplitsAt, ZenonT(30) DEF Splits

\* fixed(N).
LEMMA CallShape ==
    ASSUME NEW t \in Seq(Token), NEW a \in 1..Len(t), a + 3 \in 1..Len(t),
           t[a] \notin Signs \cup {"(", ")"}, t[a + 1] = "(",
           t[a + 2] \notin Signs \cup {"(", ")"}, t[a + 3] = ")"
    PROVE  /\ Closed(t, a, a + 4)
           /\ \A ops \in SUBSET Signs : Binary(t, <<a, a + 4>>, ops) = {}
<1>1. /\ a \in Nat \ {0}
      /\ (a + 1) - 1 = a
      /\ (a + 2) - 1 = a + 1
      /\ (a + 3) - 1 = a + 2
      /\ (a + 4) - 1 = a + 3
  OBVIOUS
<1>2. Depth(t, a - 1) \in Int /\ Depth(t, a) = Depth(t, a - 1)
  BY <1>1, DepthFacts
<1>3. Depth(t, a + 1) = Depth(t, a) + 1
  <2>1. a + 1 \in Nat \ {0}
    OBVIOUS
  <2>2. Depth(t, a + 1) = Depth(t, (a + 1) - 1) + 1
    BY <2>1, DepthFacts
  <2> QED BY <1>1, <2>2
<1>4. Depth(t, a + 2) = Depth(t, a + 1)
  <2>1. a + 2 \in Nat \ {0}
    OBVIOUS
  <2>2. Depth(t, a + 2) = Depth(t, (a + 2) - 1)
    BY <2>1, DepthFacts
  <2> QED BY <1>1, <2>2
<1>5. Depth(t, a + 3) = Depth(t, a + 2) - 1
  <2>1. a + 3 \in Nat \ {0}
    OBVIOUS
  <2>2. Depth(t, a + 3) = Depth(t, (a + 3) - 1) - 1
    BY <2>1, DepthFacts
  <2> QED BY <1>1, <2>2
<1>6. \A i \in a..(a + 4) - 1 : i \in {a, a + 1, a + 2, a + 3}
  OBVIOUS
<1>7. t[a + 3] \notin Signs \cup {"("} /\ "(" \notin Signs /\ ")" \notin Signs
  BY DEF Signs
<1>8. Closed(t, a, a + 4)
  <2>1. \A i \in a..(a + 4) - 1 : Depth(t, i) >= Depth(t, a - 1)
    <3>1. /\ Depth(t, a) >= Depth(t, a - 1) /\ Depth(t, a + 1) >= Depth(t, a - 1)
          /\ Depth(t, a + 2) >= Depth(t, a - 1) /\ Depth(t, a + 3) >= Depth(t, a - 1)
      BY <1>2, <1>3, <1>4, <1>5
    <3> QED BY <1>6, <3>1
  <2>2. a + 4 \in 1..Len(t) + 1 /\ a \in 1..Len(t) + 1 /\ a < a + 4
    OBVIOUS
  <2>3. Depth(t, (a + 4) - 1) = Depth(t, a - 1)
    BY <1>1, <1>2, <1>3, <1>4, <1>5
  <2> QED BY <1>1, <1>7, <2>1, <2>2, <2>3 DEF Closed
<1>9. ASSUME NEW ops \in SUBSET Signs, NEW i, i \in Binary(t, <<a, a + 4>>, ops) PROVE FALSE
  <2>0. Splits(t, a, a + 4, ops, i)
    BY <1>9, SplitsAt
  <2>1. i \in a + 1..(a + 4) - 1 /\ t[i] \in Signs
    BY <2>0 DEF Splits
  <2>2. i \in {a + 1, a + 2, a + 3}
    BY <2>1
  <2> QED BY <1>7, <2>1, <2>2
<1> QED BY <1>8, <1>9

\* Parentheses around a segment.
LEMMA EnclosedShape ==
    ASSUME NEW t \in Seq(Token), NEW a \in 1..Len(t), NEW m \in 1..Len(t),
           t[a] = "(", Closed(t, a + 1, m), t[m] = ")"
    PROVE  /\ Closed(t, a, m + 1)
           /\ \A ops \in SUBSET Signs : Binary(t, <<a, m + 1>>, ops) = {}
<1>1. a \in Nat \ {0} /\ m \in Nat \ {0} /\ (a + 1) - 1 = a /\ (m + 1) - 1 = m /\ a + 1 < m
  BY DEF Closed
<1>2. Depth(t, a - 1) \in Int /\ Depth(t, a) = Depth(t, a - 1) + 1
  BY <1>1, DepthFacts
<1>3. Depth(t, m - 1) = Depth(t, a) /\ \A i \in a + 1..m - 1 : Depth(t, i) >= Depth(t, a)
  BY <1>1 DEF Closed
<1>4. Depth(t, m) = Depth(t, a - 1)
  <2>1. Depth(t, m) = Depth(t, m - 1) - 1
    BY <1>1, DepthFacts
  <2> QED BY <1>2, <1>3, <2>1
<1>5. \A i \in a..m : i = a \/ i = m \/ i \in a + 1..m - 1
  BY <1>1
<1>6. \A i \in a + 1..m - 1 : Depth(t, i) > Depth(t, a - 1)
  <2>1. \A i \in a + 1..m - 1 : Depth(t, i) \in Int
    <3>1. \A i \in a + 1..m - 1 : i \in Nat \ {0}
      OBVIOUS
    <3> QED BY <3>1, DepthFacts
  <2> QED BY <1>2, <1>3, <2>1
<1>7. ")" \notin Signs \cup {"("} /\ "(" \notin Signs
  BY DEF Signs
<1>8. Closed(t, a, m + 1)
  <2>1. \A i \in a..m : Depth(t, i) >= Depth(t, a - 1)
    <3> TAKE i \in a..m
    <3>1. CASE i = a
      BY <1>2, <3>1
    <3>2. CASE i = m
      BY <1>2, <1>4, <3>2
    <3>3. CASE i \in a + 1..m - 1
      <4>1. Depth(t, i) \in Int
        <5>1. i \in Nat \ {0}
          OBVIOUS
        <5> QED BY <5>1, DepthFacts
      <4> QED BY <1>2, <1>6, <3>3, <4>1
    <3> QED BY <1>5, <3>1, <3>2, <3>3
  <2>2. a \in 1..Len(t) + 1 /\ m + 1 \in 1..Len(t) + 1 /\ a < m + 1
    BY <1>1
  <2> QED BY <1>1, <1>4, <1>7, <2>1, <2>2 DEF Closed
<1>9. ASSUME NEW ops \in SUBSET Signs, NEW i, i \in Binary(t, <<a, m + 1>>, ops) PROVE FALSE
  <2>0. Splits(t, a, m + 1, ops, i)
    BY <1>9, SplitsAt
  <2>1. i \in a + 1..(m + 1) - 1 /\ t[i] \in Signs /\ Depth(t, i) = Depth(t, a - 1)
    BY <2>0 DEF Splits
  <2>2. i = m \/ i \in a + 1..m - 1
    BY <1>1, <2>1
  <2>3. CASE i = m
    BY <1>7, <2>1, <2>3
  <2>4. CASE i \in a + 1..m - 1
    BY <1>2, <1>6, <2>1, <2>4
  <2> QED BY <2>2, <2>3, <2>4
<1> QED BY <1>8, <1>9

\* A sign before a segment that does not split.
LEMMA SignedShape ==
    ASSUME NEW t \in Seq(Token), NEW a \in 1..Len(t), NEW m, t[a] \in Signs, Closed(t, a + 1, m)
    PROVE  /\ Closed(t, a, m)
           /\ \A ops : Binary(t, <<a + 1, m>>, ops) = {} => Binary(t, <<a, m>>, ops) = {}
<1>1. a \in Nat \ {0} /\ (a + 1) - 1 = a /\ m \in 1..Len(t) + 1 /\ a + 1 < m /\ m \in Int
  BY DEF Closed
<1>2. Depth(t, a - 1) \in Int /\ Depth(t, a) = Depth(t, a - 1)
  <2>1. t[a] \notin {"(", ")"}
    BY DEF Signs
  <2> QED BY <1>1, <2>1, DepthFacts
<1>3. Closed(t, a, m)
  <2>1. \A i \in a..m - 1 : i = a \/ i \in a + 1..m - 1
    BY <1>1
  <2>2. \A i \in a..m - 1 : Depth(t, i) >= Depth(t, a - 1)
    BY <1>1, <1>2, <2>1 DEF Closed
  <2>3. Depth(t, m - 1) = Depth(t, a - 1) /\ t[m - 1] \notin Signs \cup {"("}
    BY <1>1, <1>2 DEF Closed
  <2> QED BY <1>1, <2>2, <2>3 DEF Closed
<1>4. ASSUME NEW ops, Binary(t, <<a + 1, m>>, ops) = {}, NEW i, i \in Binary(t, <<a, m>>, ops)
      PROVE  FALSE
  <2>0. Splits(t, a, m, ops, i)
    BY <1>4, SplitsAt
  <2>1. /\ i \in a + 1..m - 1 /\ t[i] \in ops /\ t[i - 1] \notin Signs \cup {"("}
        /\ Depth(t, i) = Depth(t, a - 1)
    BY <2>0 DEF Splits
  <2>2. i # a + 1
    BY <1>1, <2>1
  <2>3. i \in (a + 1) + 1..m - 1
    BY <1>1, <2>1, <2>2
  <2>4. i \in Binary(t, <<a + 1, m>>, ops)
    BY <1>1, <1>2, <2>1, <2>3, SplitsAt, ZenonT(30) DEF Splits
  <2> QED BY <1>4, <2>4
<1> QED BY <1>3, <1>4

\* Two segments and an operator between them.
LEMMA JoinedShape ==
    ASSUME NEW t \in Seq(Token), NEW a, NEW m \in 1..Len(t), NEW b,
           Closed(t, a, m), t[m] \in Signs, Closed(t, m + 1, b)
    PROVE  /\ Closed(t, a, b)
           /\ \A ops : Binary(t, <<a, b>>, ops) =
                 Binary(t, <<a, m>>, ops) \cup {i \in {m} : t[m] \in ops}
                 \cup Binary(t, <<m + 1, b>>, ops)
<1>1. /\ /\ a \in Nat \ {0}
      /\ m \in Nat \ {0}
      /\ b \in Nat \ {0}
      /\ a < m
      /\ m + 1 < b
      /\ (m + 1) - 1 = m
      /\ a \in 1..Len(t) + 1 /\ b \in 1..Len(t) + 1
  BY DEF Closed
<1>2. Depth(t, a - 1) \in Int /\ Depth(t, m - 1) = Depth(t, a - 1) /\ Depth(t, m) = Depth(t, a - 1)
  <2>1. t[m] \notin {"(", ")"}
    BY DEF Signs
  <2>2. Depth(t, m) = Depth(t, m - 1) /\ Depth(t, a - 1) \in Int
    BY <1>1, <2>1, DepthFacts
  <2> QED BY <2>2 DEF Closed
<1>3. Closed(t, a, b)
  <2>1. \A i \in a..b - 1 : i \in a..m - 1 \/ i = m \/ i \in m + 1..b - 1
    BY <1>1
  <2>2. \A i \in a..m - 1 : Depth(t, i) >= Depth(t, a - 1)
    BY DEF Closed
  <2>3. \A i \in m + 1..b - 1 : Depth(t, i) >= Depth(t, a - 1)
    BY <1>1, <1>2 DEF Closed
  <2>4. Depth(t, m) >= Depth(t, a - 1)
    BY <1>2
  <2>5. \A i \in a..b - 1 : Depth(t, i) >= Depth(t, a - 1)
    BY <2>1, <2>2, <2>3, <2>4
  <2>6. Depth(t, b - 1) = Depth(t, a - 1) /\ t[b - 1] \notin Signs \cup {"("}
    BY <1>1, <1>2 DEF Closed
  <2>7. a < b
    BY <1>1
  <2> QED BY <1>1, <2>5, <2>6, <2>7 DEF Closed
<1>4. ASSUME NEW ops, NEW i \in Binary(t, <<a, b>>, ops)
      PROVE  \/ i \in Binary(t, <<a, m>>, ops) \/ (i = m /\ t[m] \in ops)
             \/ i \in Binary(t, <<m + 1, b>>, ops)
  <2>0. Splits(t, a, b, ops, i)
    BY <1>4, SplitsAt
  <2>1. /\ i \in a + 1..b - 1 /\ t[i] \in ops /\ t[i - 1] \notin Signs \cup {"("}
        /\ Depth(t, i) = Depth(t, a - 1)
    BY <2>0 DEF Splits
  <2>2. CASE i < m
    <3>1. i \in a + 1..m - 1
      BY <1>1, <2>1, <2>2
    <3> QED BY <2>1, <3>1, SplitsAt DEF Splits
  <2>3. CASE i = m
    BY <2>1, <2>3
  <2>4. CASE i > m
    <3>1. i # m + 1
      BY <1>1, <2>1
    <3>2. i \in (m + 1) + 1..b - 1
      BY <1>1, <2>1, <2>4, <3>1
    <3>3. Depth(t, i) = Depth(t, (m + 1) - 1)
      BY <1>1, <1>2, <2>1
    <3> QED BY <2>1, <3>2, <3>3, SplitsAt DEF Splits
  <2>5. i \in Int
    BY <2>1
  <2> QED BY <1>1, <2>2, <2>3, <2>4, <2>5
<1>5. ASSUME NEW ops, NEW i \in Binary(t, <<a, m>>, ops) PROVE i \in Binary(t, <<a, b>>, ops)
  <2>0. Splits(t, a, m, ops, i)
    BY <1>5, SplitsAt
  <2>1. /\ i \in a + 1..m - 1 /\ t[i] \in ops /\ t[i - 1] \notin Signs \cup {"("}
        /\ Depth(t, i) = Depth(t, a - 1)
    BY <2>0 DEF Splits
  <2>2. i \in a + 1..b - 1
    BY <1>1, <2>1
  <2> QED BY <2>1, <2>2, SplitsAt DEF Splits
<1>6. ASSUME NEW ops, t[m] \in ops PROVE m \in Binary(t, <<a, b>>, ops)
  <2>1. m \in a + 1..b - 1 /\ t[m - 1] \notin Signs \cup {"("}
    BY <1>1 DEF Closed
  <2> QED BY <1>2, <1>6, <2>1, SplitsAt DEF Splits
<1>7. ASSUME NEW ops, NEW i \in Binary(t, <<m + 1, b>>, ops) PROVE i \in Binary(t, <<a, b>>, ops)
  <2>0. Splits(t, m + 1, b, ops, i)
    BY <1>7, SplitsAt
  <2>1. /\ i \in (m + 1) + 1..b - 1 /\ t[i] \in ops /\ t[i - 1] \notin Signs \cup {"("}
        /\ Depth(t, i) = Depth(t, (m + 1) - 1)
    BY <2>0 DEF Splits
  <2>2. i \in a + 1..b - 1 /\ Depth(t, i) = Depth(t, a - 1)
    BY <1>1, <1>2, <2>1
  <2> QED BY <2>1, <2>2, SplitsAt DEF Splits
<1>8. ASSUME NEW ops
      PROVE  Binary(t, <<a, b>>, ops) =
                 Binary(t, <<a, m>>, ops) \cup {i \in {m} : t[m] \in ops}
                 \cup Binary(t, <<m + 1, b>>, ops)
  BY <1>4, <1>5, <1>6, <1>7
<1> QED BY <1>3, <1>8

-----------------------------------------------------------------------------
(* Billing expressions: what a segment is worth by its parts.              *)

\* What a segment is worth: where it splits last decides.
WorthBy(t, env, w, a, b) ==
    /\ w[<<a, b>>] \in Fraction
    /\ Sums(t, <<a, b>>) # {} =>
          \A at \in {Max(Sums(t, <<a, b>>))} :
             w[<<a, b>>] = IF t[at] = "+" THEN Plus(w[<<a, at>>], w[<<at + 1, b>>])
                           ELSE Minus(w[<<a, at>>], w[<<at + 1, b>>])
    /\ Sums(t, <<a, b>>) = {} /\ Products(t, <<a, b>>) # {} =>
          \A at \in {Max(Products(t, <<a, b>>))} :
             w[<<a, b>>] = IF t[at] = "*" THEN Times(w[<<a, at>>], w[<<at + 1, b>>])
                           ELSE Quotient(w[<<a, at>>], w[<<at + 1, b>>])
    /\ Sums(t, <<a, b>>) = {} /\ Products(t, <<a, b>>) = {} =>
          w[<<a, b>>] = FirstOf(t, env, <<a, b>>, w)

\* It holds for every segment.
LEMMA WorthCases ==
    ASSUME NEW t \in Seq(Token), NEW env \in [Names -> Fraction], NEW w, w = WorthOf(t, env),
           NEW a \in 1..Len(t) + 1, NEW b \in 1..Len(t) + 1, a < b
    PROVE  WorthBy(t, env, w, a, b)
<1>1. PICK s \in Segments(t) : s = <<a, b>>
  BY SegmentFacts
<1>2. s[1] = a /\ s[2] = b /\ s[1] \in Int /\ s[2] \in Int /\ s[1] < s[2]
  BY <1>1
<1>3. w[s] \in Fraction /\ w[s] = Evaluate(t, env, s, w)
  BY WorthOfFacts
<1>4. ASSUME Sums(t, s) # {}, NEW at, at = Max(Sums(t, s))
      PROVE  w[s] = IF t[at] = "+" THEN Plus(w[<<a, at>>], w[<<at + 1, b>>])
                                   ELSE Minus(w[<<a, at>>], w[<<at + 1, b>>])
  BY <1>2, <1>3, <1>4, EvaluateCases
<1>5. ASSUME Sums(t, s) = {}, Products(t, s) # {}, NEW at, at = Max(Products(t, s))
      PROVE  w[s] = IF t[at] = "*" THEN Times(w[<<a, at>>], w[<<at + 1, b>>])
                                   ELSE Quotient(w[<<a, at>>], w[<<at + 1, b>>])
  BY <1>2, <1>3, <1>5, EvaluateCases
<1>6. ASSUME Sums(t, s) = {}, Products(t, s) = {} PROVE w[s] = FirstOf(t, env, s, w)
  BY <1>2, <1>3, <1>6, EvaluateCases
<1> QED BY <1>1, <1>3, <1>4, <1>5, <1>6 DEF WorthBy

FirstBy(t, env, w, a, b) ==
    /\ t[a] = "-" => FirstOf(t, env, <<a, b>>, w) = Minus(Whole(0), w[<<a + 1, b>>])
    /\ t[a] = "+" => FirstOf(t, env, <<a, b>>, w) = w[<<a + 1, b>>]
    /\ t[a] = "(" => FirstOf(t, env, <<a, b>>, w) = w[<<a + 1, b - 1>>]
    /\ t[a] \in DOMAIN Number => FirstOf(t, env, <<a, b>>, w) = Whole(Number[t[a]])
    /\ t[a] \in Names => FirstOf(t, env, <<a, b>>, w) = env[t[a]]

\* What the first token decides.
LEMMA FirstCases ==
    ASSUME NEW t, NEW env, NEW w, NEW a, NEW b
    PROVE  FirstBy(t, env, w, a, b)
<1>1. <<a, b>>[1] = a /\ <<a, b>>[2] = b
  OBVIOUS
<1>2. /\ "-" \notin DOMAIN Number \cup Names
      /\ "+" \notin DOMAIN Number \cup Names
      /\ "(" \notin DOMAIN Number \cup Names
  BY DEF Number, Names, Variables
<1>3. \A n \in DOMAIN Number : n \notin Names
  BY DEF Number, Names, Variables
<1> QED BY <1>1, <1>2, <1>3 DEF FirstOf, FirstBy

\* A number or a name.
LEMMA LeafWorth ==
    ASSUME NEW t \in Seq(Token), NEW env \in [Names -> Fraction], NEW w, w = WorthOf(t, env),
           NEW a \in 1..Len(t), t[a] \in DOMAIN Number \cup Names
    PROVE  /\ t[a] \in DOMAIN Number => w[<<a, a + 1>>] = Whole(Number[t[a]])
           /\ t[a] \in Names => w[<<a, a + 1>>] = env[t[a]]
<1>1. t[a] \notin Signs \cup {"(", ")"}
  BY DEF Number, Names, Variables, Signs
<1>2. Sums(t, <<a, a + 1>>) = {} /\ Products(t, <<a, a + 1>>) = {}
  BY <1>1, LeafShape DEF Sums, Products
<1>3. w[<<a, a + 1>>] = FirstOf(t, env, <<a, a + 1>>, w)
  <2>1. a \in 1..Len(t) + 1 /\ a + 1 \in 1..Len(t) + 1 /\ a < a + 1
    OBVIOUS
  <2>2. WorthBy(t, env, w, a, a + 1)
    BY <2>1, WorthCases
  <2> QED BY <1>2, <2>2 DEF WorthBy
<1>4. FirstBy(t, env, w, a, a + 1)
  BY FirstCases
<1> QED BY <1>3, <1>4 DEF FirstBy

\* What stands in parentheses.
LEMMA EnclosedWorth ==
    ASSUME NEW t \in Seq(Token), NEW env \in [Names -> Fraction], NEW w, w = WorthOf(t, env),
           NEW a \in 1..Len(t), NEW m \in 1..Len(t),
           t[a] = "(", Closed(t, a + 1, m), t[m] = ")"
    PROVE  w[<<a, m + 1>>] = w[<<a + 1, m>>]
<1>1. Sums(t, <<a, m + 1>>) = {} /\ Products(t, <<a, m + 1>>) = {}
  <2>1. {"+", "-"} \in SUBSET Signs /\ {"*", "/"} \in SUBSET Signs
    BY DEF Signs
  <2> QED BY <2>1, EnclosedShape DEF Sums, Products
<1>2. a \in 1..Len(t) + 1 /\ m + 1 \in 1..Len(t) + 1 /\ a < m + 1 /\ (m + 1) - 1 = m
  BY DEF Closed
<1>3. w[<<a, m + 1>>] = FirstOf(t, env, <<a, m + 1>>, w)
  <2>1. WorthBy(t, env, w, a, m + 1)
    BY <1>2, WorthCases
  <2> QED BY <1>1, <2>1 DEF WorthBy
<1>4. FirstOf(t, env, <<a, m + 1>>, w) = w[<<a + 1, (m + 1) - 1>>]
  <2>1. FirstBy(t, env, w, a, m + 1)
    BY FirstCases
  <2> QED BY <2>1 DEF FirstBy
<1> QED BY <1>2, <1>3, <1>4

SignedBy(t, env, w, a, m) ==
    /\ t[a] = "-" => w[<<a, m>>] = Minus(Whole(0), w[<<a + 1, m>>])
    /\ t[a] = "+" => w[<<a, m>>] = w[<<a + 1, m>>]

\* What has a sign.
LEMMA SignedWorth ==
    ASSUME NEW t \in Seq(Token), NEW env \in [Names -> Fraction], NEW w, w = WorthOf(t, env),
           NEW a \in 1..Len(t), NEW m, Closed(t, a + 1, m), t[a] \in Signs,
           Sums(t, <<a + 1, m>>) = {}, Products(t, <<a + 1, m>>) = {}
    PROVE  SignedBy(t, env, w, a, m)
<1>1. Sums(t, <<a, m>>) = {} /\ Products(t, <<a, m>>) = {}
  BY SignedShape DEF Sums, Products
<1>2. a \in 1..Len(t) + 1 /\ m \in 1..Len(t) + 1 /\ a < m
  BY DEF Closed
<1>3. w[<<a, m>>] = FirstOf(t, env, <<a, m>>, w)
  <2>1. WorthBy(t, env, w, a, m)
    BY <1>2, WorthCases
  <2> QED BY <1>1, <2>1 DEF WorthBy
<1>4. FirstBy(t, env, w, a, m)
  BY FirstCases
<1> QED BY <1>3, <1>4 DEF FirstBy, SignedBy

ProductBy(t, env, w, a, m, b) ==
    /\ Sums(t, <<a, b>>) = {}
    /\ w[<<a, b>>] = IF t[m] = "*" THEN Times(w[<<a, m>>], w[<<m + 1, b>>])
                     ELSE Quotient(w[<<a, m>>], w[<<m + 1, b>>])

\* A product or a quotient splits at its last operator.
LEMMA ProductWorth ==
    ASSUME NEW t \in Seq(Token), NEW env \in [Names -> Fraction], NEW w, w = WorthOf(t, env),
           NEW a, NEW m \in 1..Len(t), NEW b,
           Closed(t, a, m), t[m] \in {"*", "/"}, Closed(t, m + 1, b),
           Sums(t, <<a, m>>) = {}, Sums(t, <<m + 1, b>>) = {}, Products(t, <<m + 1, b>>) = {}
    PROVE  ProductBy(t, env, w, a, m, b)
<1>0. t[m] \in Signs
  BY DEF Signs
<1>1. a \in 1..Len(t) + 1 /\ b \in 1..Len(t) + 1 /\ a < b /\ a \in Int /\ b \in Int
  BY DEF Closed
<1>2. Sums(t, <<a, b>>) = {}
  BY <1>0, JoinedShape, SMTT(30) DEF Sums
<1>3. Products(t, <<a, b>>) = Products(t, <<a, m>>) \cup {m}
  <2>1. Products(t, <<a, b>>) =
           Products(t, <<a, m>>) \cup {i \in {m} : t[m] \in {"*", "/"}}
           \cup Products(t, <<m + 1, b>>)
    BY <1>0, JoinedShape DEF Products
  <2> QED BY <2>1
<1>4. Max(Products(t, <<a, b>>)) = m
  <2>1. <<a, b>> \in Segments(t) /\ <<a, m>> \in Segments(t) /\ Len(t) \in Nat
    BY <1>1 DEF Segments
  <2>2. Products(t, <<a, b>>) \in SUBSET (1..Len(t)) /\ m \in Products(t, <<a, b>>)
    BY <1>3, <2>1, BinaryIs DEF Products
  <2>3. \A n \in Products(t, <<a, m>>) : n <= m
    <3>1. Products(t, <<a, m>>) \in SUBSET (a + 1..m - 1)
      <4>1. <<a, m>>[1] = a /\ <<a, m>>[2] = m
        OBVIOUS
      <4> QED BY <2>1, <4>1, BinaryIs DEF Products
    <3> QED BY <1>1, <3>1, SMTT(30)
  <2>4. \A n \in Products(t, <<a, b>>) : n <= m
    <3>1. m <= m
      OBVIOUS
    <3> QED BY <1>3, <2>3, <3>1
  <2> QED BY <2>1, <2>2, <2>4, MaxWhen
<1>5. Products(t, <<a, b>>) # {}
  BY <1>3
<1>6. WorthBy(t, env, w, a, b)
  BY <1>1, WorthCases
<1> QED BY <1>2, <1>4, <1>5, <1>6 DEF WorthBy, ProductBy

SumBy(t, env, w, a, m, b) ==
    w[<<a, b>>] = IF t[m] = "+" THEN Plus(w[<<a, m>>], w[<<m + 1, b>>])
                  ELSE Minus(w[<<a, m>>], w[<<m + 1, b>>])

\* So does a sum or a difference.
LEMMA SumWorth ==
    ASSUME NEW t \in Seq(Token), NEW env \in [Names -> Fraction], NEW w, w = WorthOf(t, env),
           NEW a, NEW m \in 1..Len(t), NEW b,
           Closed(t, a, m), t[m] \in {"+", "-"}, Closed(t, m + 1, b), Sums(t, <<m + 1, b>>) = {}
    PROVE  SumBy(t, env, w, a, m, b)
<1>0. t[m] \in Signs
  BY DEF Signs
<1>1. a \in 1..Len(t) + 1 /\ b \in 1..Len(t) + 1 /\ a < b /\ a \in Int /\ b \in Int
  BY DEF Closed
<1>2. Sums(t, <<a, b>>) = Sums(t, <<a, m>>) \cup {m}
  <2>1. Sums(t, <<a, b>>) =
           Sums(t, <<a, m>>) \cup {i \in {m} : t[m] \in {"+", "-"}} \cup Sums(t, <<m + 1, b>>)
    BY <1>0, JoinedShape DEF Sums
  <2> QED BY <2>1
<1>3. Max(Sums(t, <<a, b>>)) = m
  <2>1. <<a, b>> \in Segments(t) /\ <<a, m>> \in Segments(t) /\ Len(t) \in Nat
    BY <1>1 DEF Segments
  <2>2. Sums(t, <<a, b>>) \in SUBSET (1..Len(t)) /\ m \in Sums(t, <<a, b>>)
    BY <1>2, <2>1, BinaryIs DEF Sums
  <2>3. \A n \in Sums(t, <<a, m>>) : n <= m
    <3>1. Sums(t, <<a, m>>) \in SUBSET (a + 1..m - 1)
      <4>1. <<a, m>>[1] = a /\ <<a, m>>[2] = m
        OBVIOUS
      <4> QED BY <2>1, <4>1, BinaryIs DEF Sums
    <3> QED BY <1>1, <3>1
  <2>4. \A n \in Sums(t, <<a, b>>) : n <= m
    <3>1. m <= m
      OBVIOUS
    <3> QED BY <1>2, <2>3, <3>1
  <2> QED BY <2>1, <2>2, <2>4, MaxWhen
<1>4. Sums(t, <<a, b>>) # {}
  BY <1>2
<1>5. WorthBy(t, env, w, a, b)
  BY <1>1, WorthCases
<1> QED BY <1>3, <1>4, <1>5 DEF WorthBy, SumBy

-----------------------------------------------------------------------------
(* Billing expressions: linear values.                                     *)

\* Nil is no fraction.
LEMMA NilIsNone == Nil \notin Fraction
  BY DEF Nil, Fraction

\* The parts of a value.
LEMMA ValueParts ==
    ASSUME NEW value \in Values
    PROVE  /\ value.constant \in Fraction /\ value.fixed \in Fraction \cup {Nil}
           /\ \A v \in Names : value.coefficients[v] \in Fraction \cup {Nil}
           /\ \A v \in Names : Coefficient(value, v) \in Fraction
<1>1. Whole(0) \in Fraction
  BY WholeIs
<1> QED BY <1>1 DEF Values, Coefficient

\* A number,
LEMMA ConstantIs ==
    ASSUME NEW n \in Int
    PROVE  /\ Constant(n) \in Values /\ Pure(Constant(n)) /\ Constant(n).fixed = Nil
           /\ Constant(n).constant = Whole(n)
<1>1. Whole(n) \in Fraction
  BY WholeIs
<1> QED BY <1>1 DEF Constant, Values, Pure
\* fixed(N),
LEMMA FixedIs ==
    ASSUME NEW n \in Int
    PROVE  /\ [Constant(0) EXCEPT !.fixed = Whole(n)] \in Values
           /\ Pure([Constant(0) EXCEPT !.fixed = Whole(n)])
           /\ [Constant(0) EXCEPT !.fixed = Whole(n)].fixed # Nil
<1>1. Whole(n) \in Fraction /\ Whole(0) \in Fraction
  BY WholeIs
<1> QED BY <1>1, NilIsNone DEF Constant, Values, Pure
\* and a name as values.
LEMMA VariableIs ==
    ASSUME NEW v \in Names
    PROVE  /\ Variable(v) \in Values /\ Variable(v).fixed = Nil
           /\ Variable(v).constant = Whole(0)
           /\ Variable(v).coefficients = [w \in Names |-> IF w = v THEN Whole(1) ELSE Nil]
<1>1. Whole(0) \in Fraction /\ Whole(1) \in Fraction
  BY WholeIs
<1>2. Variable(v) = [constant |-> Whole(0),
                     coefficients |-> [w \in Names |-> IF w = v THEN Whole(1) ELSE Nil],
                     fixed |-> Nil]
  BY DEF Variable, Constant
<1>3. [w \in Names |-> IF w = v THEN Whole(1) ELSE Nil] \in [Names -> Fraction \cup {Nil}]
  BY <1>1
<1> QED BY <1>1, <1>2, <1>3 DEF Values
\* scaleLinear.
LEMMA ScaleIs ==
    ASSUME NEW value \in Values, NEW k \in Fraction
    PROVE  /\ ScaleLinear(value, k) \in Values
           /\ ScaleLinear(value, k).fixed = value.fixed
           /\ ScaleLinear(value, k).constant = Times(value.constant, k)
           /\ \A v \in Names : ScaleLinear(value, k).coefficients[v] =
                 IF value.coefficients[v] = Nil THEN Nil ELSE Times(value.coefficients[v], k)
<1>1. Times(value.constant, k) \in Fraction
  BY ValueParts, TimesIs
<1>2. \A v \in Names : value.coefficients[v] # Nil => Times(value.coefficients[v], k) \in Fraction
  BY ValueParts, TimesIs
<1>3. [v \in Names |-> IF value.coefficients[v] = Nil THEN Nil ELSE Times(value.coefficients[v], k)]
         \in [Names -> Fraction \cup {Nil}]
  BY <1>2
<1>4. value.fixed \in Fraction \cup {Nil}
  BY ValueParts
<1> QED BY <1>1, <1>3, <1>4 DEF ScaleLinear, Values
\* What parseExpression makes of a sum.
LEMMA CombineSumIs ==
    ASSUME NEW left \in Values, NEW right \in Values, NEW op
    PROVE  /\ CombineSum(left, right, op) \in Values
           /\ CombineSum(left, right, op).fixed = Nil
           /\ CombineSum(left, right, op).constant =
                 IF op = "+" THEN Plus(left.constant, right.constant)
                 ELSE Minus(left.constant, right.constant)
           /\ \A v \in Names : CombineSum(left, right, op).coefficients[v] =
                 IF left.coefficients[v] = Nil /\ right.coefficients[v] = Nil THEN Nil
                 ELSE Plus(Coefficient(left, v), Coefficient(right, v))
<1>1. /\ Plus(left.constant, right.constant) \in Fraction
      /\ Minus(left.constant, right.constant) \in Fraction
  BY ValueParts, PlusIs, MinusIs
<1>2. \A v \in Names : Plus(Coefficient(left, v), Coefficient(right, v)) \in Fraction
  BY ValueParts, PlusIs
<1>3. [v \in Names |-> IF left.coefficients[v] = Nil /\ right.coefficients[v] = Nil THEN Nil
                       ELSE Plus(Coefficient(left, v), Coefficient(right, v))]
         \in [Names -> Fraction \cup {Nil}]
  BY <1>2
<1> QED BY <1>1, <1>3 DEF CombineSum, Values

\* A sum of four.
Four(a, b, c, d) == Plus(Plus(a, b), Plus(c, d))

\* It is a fraction,
LEMMA FourIs ==
    ASSUME NEW a \in Fraction, NEW b \in Fraction, NEW c \in Fraction, NEW d \in Fraction
    PROVE  Four(a, b, c, d) \in Fraction
  BY PlusIs DEF Four
\* the same for the same four,
LEMMA FourSame ==
    ASSUME NEW a \in Fraction, NEW b \in Fraction, NEW c \in Fraction, NEW d \in Fraction,
           NEW p \in Fraction, NEW q \in Fraction, NEW r \in Fraction, NEW s \in Fraction,
           Same(a, p), Same(b, q), Same(c, r), Same(d, s)
    PROVE  Same(Four(a, b, c, d), Four(p, q, r, s))
<1>1. /\ Plus(a, b) \in Fraction /\ Plus(c, d) \in Fraction
      /\ Plus(p, q) \in Fraction /\ Plus(r, s) \in Fraction
  BY PlusIs
<1>2. Same(Plus(a, b), Plus(p, q)) /\ Same(Plus(c, d), Plus(r, s))
  BY PlusSame
<1> QED BY <1>1, <1>2, PlusSame DEF Four
\* and it may be multiplied one by one.
LEMMA FourTimes ==
    ASSUME NEW a \in Fraction, NEW b \in Fraction, NEW c \in Fraction, NEW d \in Fraction,
           NEW k \in Fraction
    PROVE  Same(Times(Four(a, b, c, d), k),
               Four(Times(a, k), Times(b, k), Times(c, k), Times(d, k)))
<1>1. Plus(a, b) \in Fraction /\ Plus(c, d) \in Fraction
  BY PlusIs
<1>2. /\ Times(a, k) \in Fraction /\ Times(b, k) \in Fraction
      /\ Times(c, k) \in Fraction /\ Times(d, k) \in Fraction
      /\ Times(Plus(a, b), k) \in Fraction /\ Times(Plus(c, d), k) \in Fraction
  BY <1>1, TimesIs
<1>3. PICK x \in Fraction, y \in Fraction :
         x = Plus(Times(a, k), Times(b, k)) /\ y = Plus(Times(c, k), Times(d, k))
  BY <1>2, PlusIs
<1>4. Same(Times(Plus(a, b), k), x) /\ Same(Times(Plus(c, d), k), y)
  BY <1>3, Distributes
<1>5. PICK u \in Fraction, v \in Fraction : u = Times(Plus(a, b), k) /\ v = Times(Plus(c, d), k)
  BY <1>2
<1>6. Same(Plus(u, v), Plus(x, y))
  BY <1>4, <1>5, PlusSame
<1>7. Same(Times(Four(a, b, c, d), k), Plus(u, v))
  BY <1>1, <1>5, Distributes DEF Four
<1>8. Times(Four(a, b, c, d), k) \in Fraction /\ Plus(u, v) \in Fraction /\ Plus(x, y) \in Fraction
  BY FourIs, TimesIs, PlusIs
<1>9. Same(Times(Four(a, b, c, d), k), Plus(x, y))
  BY <1>6, <1>7, <1>8, SameTransitive
<1> QED BY <1>3, <1>9 DEF Four

-----------------------------------------------------------------------------
(* Billing expressions: what linear values are worth.                      *)

Share(value, env, v) == Times(Coefficient(value, v), env[v])

\* The worth of a value is the sum of its constant and its shares.
LEMMA WorthIs ==
    ASSUME NEW value \in Values, NEW env \in [Names -> Fraction]
    PROVE  /\ Worth(value, env) = Four(value.constant, Share(value, env, "p"),
                                       Share(value, env, "c"), Share(value, env, "fixed"))
           /\ \A v \in Names : Share(value, env, v) \in Fraction
           /\ {"p", "c", "fixed"} = Names
           /\ Worth(value, env) \in Fraction
<1>1. \A v \in Names : Share(value, env, v) \in Fraction
  BY ValueParts, TimesIs DEF Share
<1>2. {"p", "c", "fixed"} = Names
  BY DEF Names, Variables
<1>3. Worth(value, env) = Four(value.constant, Share(value, env, "p"),
                               Share(value, env, "c"), Share(value, env, "fixed"))
  BY DEF Worth, Four, Share
<1>4. Worth(value, env) \in Fraction
  <2>1. /\ Share(value, env, "p") \in Fraction /\ Share(value, env, "c") \in Fraction
        /\ Share(value, env, "fixed") \in Fraction /\ value.constant \in Fraction
    BY <1>1, <1>2, ValueParts
  <2> QED BY <1>3, <2>1, FourIs
<1> QED BY <1>1, <1>2, <1>3, <1>4

\* Values whose parts are worth the same are.
LEMMA WorthSame ==
    ASSUME NEW value \in Values, NEW env \in [Names -> Fraction],
           NEW a \in Fraction, NEW share \in [Names -> Fraction],
           Same(value.constant, a), \A v \in Names : Same(Share(value, env, v), share[v])
    PROVE  Same(Worth(value, env), Four(a, share["p"], share["c"], share["fixed"]))
<1>1. "p" \in Names /\ "c" \in Names /\ "fixed" \in Names
  BY WorthIs
<1>2. /\ Share(value, env, "p") \in Fraction /\ Share(value, env, "c") \in Fraction
      /\ Share(value, env, "fixed") \in Fraction /\ value.constant \in Fraction
      /\ share["p"] \in Fraction /\ share["c"] \in Fraction /\ share["fixed"] \in Fraction
  BY <1>1, WorthIs, ValueParts
<1>3. /\ Same(Share(value, env, "p"), share["p"]) /\ Same(Share(value, env, "c"), share["c"])
      /\ Same(Share(value, env, "fixed"), share["fixed"])
  BY <1>1
<1>4. Same(Four(value.constant, Share(value, env, "p"),
                Share(value, env, "c"), Share(value, env, "fixed")),
           Four(a, share["p"], share["c"], share["fixed"]))
  BY <1>2, <1>3, FourSame
<1> QED BY <1>4, WorthIs

\* A scaled value is worth as many times as much.
LEMMA ScaleWorth ==
    ASSUME NEW value \in Values, NEW k \in Fraction, NEW env \in [Names -> Fraction]
    PROVE  Same(Worth(ScaleLinear(value, k), env), Times(Worth(value, env), k))
<1> DEFINE share == [v \in Names |-> Times(Share(value, env, v), k)]
<1>1. ScaleLinear(value, k) \in Values /\ ScaleLinear(value, k).constant = Times(value.constant, k)
  BY ScaleIs
<1>2. /\ share \in [Names -> Fraction]
      /\ Times(value.constant, k) \in Fraction
      /\ value.constant \in Fraction
  <2>1. \A v \in Names : Times(Share(value, env, v), k) \in Fraction
    BY WorthIs, TimesIs
  <2> QED BY <2>1, ValueParts, TimesIs
<1>3. ASSUME NEW v \in Names PROVE Same(Share(ScaleLinear(value, k), env, v), share[v])
  <2>1. PICK c \in Fraction, d \in Fraction, e \in Fraction :
           c = Coefficient(value, v) /\ d = Coefficient(ScaleLinear(value, k), v) /\ e = env[v]
    BY <1>1, ValueParts
  <2>2. Same(d, Times(c, k))
    <3>1. CASE value.coefficients[v] = Nil
      <4>1. ScaleLinear(value, k).coefficients[v] = Nil
        BY <3>1, ScaleIs
      <4>2. c = Whole(0) /\ d = Whole(0)
        BY <2>1, <3>1, <4>1 DEF Coefficient
      <4>3. Times(Whole(0), k)[1] = 0 /\ Times(Whole(0), k) \in Fraction
        BY NothingTimes
      <4>4. Times(Whole(0), k)[2] \in Int /\ Whole(0)[1] = 0 /\ Whole(0)[2] = 1
        BY <4>3, Parts DEF Whole
      <4> QED BY <4>2, <4>3, <4>4 DEF Same
    <3>2. CASE value.coefficients[v] # Nil
      <4>1. ScaleLinear(value, k).coefficients[v] = Times(value.coefficients[v], k)
        BY <3>2, ScaleIs
      <4>2. Times(value.coefficients[v], k) \in Fraction /\ Times(value.coefficients[v], k) # Nil
        <5>1. value.coefficients[v] \in Fraction
          BY <3>2, ValueParts
        <5> QED BY <5>1, TimesIs, NilIsNone
      <4>3. d = Times(c, k)
        BY <2>1, <3>2, <4>1, <4>2 DEF Coefficient
      <4> QED BY <2>1, <4>3, SameReflexive
    <3> QED BY <3>1, <3>2
  <2>3. Same(Times(d, e), Times(Times(c, k), e))
    BY <2>2, SameReflexive, TimesSame, TimesIs
  <2>4. Times(Times(c, k), e) = Times(Times(c, e), k)
    BY TimesSwap
  <2>5. Share(ScaleLinear(value, k), env, v) = Times(d, e) /\ share[v] = Times(Times(c, e), k)
    BY <2>1 DEF Share
  <2> QED BY <2>3, <2>4, <2>5
<1>4. PICK given \in [Names -> Fraction] : given = share
  BY <1>2
<1>5. PICK x \in Fraction, p \in Fraction, c \in Fraction, f \in Fraction :
         /\ x = value.constant /\ p = Share(value, env, "p") /\ c = Share(value, env, "c")
         /\ f = Share(value, env, "fixed")
  BY <1>2, WorthIs
<1>6. given["p"] = Times(p, k) /\ given["c"] = Times(c, k) /\ given["fixed"] = Times(f, k)
  <2>1. "p" \in Names /\ "c" \in Names /\ "fixed" \in Names
    BY WorthIs
  <2> QED BY <1>4, <1>5, <2>1
<1>7. Same(Worth(ScaleLinear(value, k), env),
          Four(Times(x, k), Times(p, k), Times(c, k), Times(f, k)))
  <2>1. \A v \in Names : Same(Share(ScaleLinear(value, k), env, v), given[v])
    BY <1>3, <1>4
  <2>2. Same(ScaleLinear(value, k).constant, Times(x, k)) /\ Times(x, k) \in Fraction
    BY <1>1, <1>5, TimesIs, SameReflexive
  <2> HIDE DEF share
  <2> QED BY <1>1, <1>6, <2>1, <2>2, WorthSame
<1>8. Same(Times(Worth(value, env), k), Four(Times(x, k), Times(p, k), Times(c, k), Times(f, k)))
  BY <1>5, WorthIs, FourTimes
<1>9. /\ Worth(ScaleLinear(value, k), env) \in Fraction /\ Times(Worth(value, env), k) \in Fraction
      /\ Four(Times(x, k), Times(p, k), Times(c, k), Times(f, k)) \in Fraction
  BY <1>1, WorthIs, TimesIs, FourIs
<1> QED BY <1>7, <1>8, <1>9, SameSymmetric, SameTransitive

\* A sum is worth the sum; a difference, if nothing with a name is subtracted.
LEMMA SumsWorth ==
    ASSUME NEW left \in Values, NEW right \in Values, NEW op, NEW env \in [Names -> Fraction],
           op = "+" \/ Pure(right)
    PROVE  Same(Worth(CombineSum(left, right, op), env),
                IF op = "+" THEN Plus(Worth(left, env), Worth(right, env))
                ELSE Plus(Worth(left, env),
                          Four(Times(right.constant, Whole(-1)), Share(right, env, "p"),
                               Share(right, env, "c"), Share(right, env, "fixed"))))
<1> DEFINE sum == CombineSum(left, right, op)
           share == [v \in Names |-> Plus(Share(left, env, v), Share(right, env, v))]
           second == IF op = "+" THEN right.constant ELSE Times(right.constant, Whole(-1))
<1>1. /\ sum \in Values
      /\ second \in Fraction
      /\ left.constant \in Fraction
      /\ right.constant \in Fraction
  BY CombineSumIs, ValueParts, WholeIs, TimesIs
<1>2. sum.constant = Plus(left.constant, second)
  BY CombineSumIs DEF Minus
<1>3. share \in [Names -> Fraction]
  <2>1. \A v \in Names : Plus(Share(left, env, v), Share(right, env, v)) \in Fraction
    BY WorthIs, PlusIs
  <2> QED BY <2>1
<1>4. ASSUME NEW v \in Names PROVE Same(Share(sum, env, v), share[v])
  <2>1. PICK a \in Fraction, b \in Fraction, s \in Fraction, e \in Fraction :
           /\ a = Coefficient(left, v)
           /\ b = Coefficient(right, v)
           /\ s = Coefficient(sum, v)
           /\ e = env[v]
    BY <1>1, ValueParts
  <2>2. s = Plus(a, b)
    <3>1. CASE left.coefficients[v] = Nil /\ right.coefficients[v] = Nil
      <4>1. sum.coefficients[v] = Nil
        BY <3>1, CombineSumIs
      <4>2. a = Whole(0) /\ b = Whole(0) /\ s = Whole(0)
        BY <2>1, <3>1, <4>1 DEF Coefficient
      <4> QED BY <4>2 DEF Whole, Plus
    <3>2. CASE ~(left.coefficients[v] = Nil /\ right.coefficients[v] = Nil)
      <4>1. sum.coefficients[v] = Plus(a, b)
        BY <2>1, <3>2, CombineSumIs
      <4>2. Plus(a, b) # Nil
        BY PlusIs, NilIsNone
      <4> QED BY <2>1, <4>1, <4>2 DEF Coefficient
    <3> QED BY <3>1, <3>2
  <2>3. Same(Times(Plus(a, b), e), Plus(Times(a, e), Times(b, e)))
    BY Distributes
  <2> HIDE DEF sum
  <2>4. Share(sum, env, v) = Times(s, e) /\ share[v] = Plus(Times(a, e), Times(b, e))
    BY <2>1 DEF Share
  <2> QED BY <2>2, <2>3, <2>4
<1> HIDE DEF sum, second
<1>5. PICK given \in [Names -> Fraction] : given = share
  BY <1>3
<1>6. PICK x \in Fraction, p \in Fraction, c \in Fraction, f \in Fraction,
           y \in Fraction, q \in Fraction, d \in Fraction, g \in Fraction :
         /\ x = left.constant /\ p = Share(left, env, "p") /\ c = Share(left, env, "c")
         /\ f = Share(left, env, "fixed")
         /\ y = second /\ q = Share(right, env, "p") /\ d = Share(right, env, "c")
         /\ g = Share(right, env, "fixed")
  <2>1. /\ Share(left, env, "p") \in Fraction /\ Share(left, env, "c") \in Fraction
        /\ Share(left, env, "fixed") \in Fraction
    BY WorthIs
  <2>2. /\ Share(right, env, "p") \in Fraction /\ Share(right, env, "c") \in Fraction
        /\ Share(right, env, "fixed") \in Fraction
    BY WorthIs
  <2> QED BY <1>1, <2>1, <2>2, Zenon
<1>7. given["p"] = Plus(p, q) /\ given["c"] = Plus(c, d) /\ given["fixed"] = Plus(f, g)
  <2>1. "p" \in Names /\ "c" \in Names /\ "fixed" \in Names
    BY WorthIs
  <2> QED BY <1>5, <1>6, <2>1
<1>8. Same(Worth(sum, env), Four(Plus(x, y), Plus(p, q), Plus(c, d), Plus(f, g)))
  <2>1. \A v \in Names : Same(Share(sum, env, v), given[v])
    BY <1>4, <1>5
  <2>2. Same(sum.constant, Plus(x, y)) /\ Plus(x, y) \in Fraction
    BY <1>1, <1>2, <1>6, PlusIs, SameReflexive
  <2> HIDE DEF share
  <2> QED BY <1>1, <1>7, <2>1, <2>2, WorthSame
<1>9. Four(Plus(x, y), Plus(p, q), Plus(c, d), Plus(f, g)) =
         Plus(Four(x, p, c, f), Four(y, q, d, g))
  <2>1. Plus(Plus(x, y), Plus(p, q)) = Plus(Plus(x, p), Plus(y, q))
    BY PlusSwap
  <2>2. Plus(Plus(c, d), Plus(f, g)) = Plus(Plus(c, f), Plus(d, g))
    BY PlusSwap
  <2>3. /\ Plus(x, p) \in Fraction /\ Plus(y, q) \in Fraction
        /\ Plus(c, f) \in Fraction /\ Plus(d, g) \in Fraction
    BY PlusIs
  <2>4. Plus(Plus(Plus(x, p), Plus(y, q)), Plus(Plus(c, f), Plus(d, g)))
        = Plus(Plus(Plus(x, p), Plus(c, f)), Plus(Plus(y, q), Plus(d, g)))
    BY <2>3, PlusSwap
  <2> QED BY <2>1, <2>2, <2>4 DEF Four
<1>10. Worth(left, env) = Four(x, p, c, f)
  BY <1>6, WorthIs
<1>11. CASE op = "+"
  <2>1. Worth(right, env) = Four(y, q, d, g)
    BY <1>6, <1>11, WorthIs DEF second
  <2> QED BY <1>8, <1>9, <1>10, <1>11, <2>1 DEF sum
<1>12. CASE op # "+"
  <2>1. y = Times(right.constant, Whole(-1))
    BY <1>6, <1>12 DEF second
  <2> QED BY <1>6, <1>8, <1>9, <1>10, <1>12, <2>1 DEF sum
<1> QED BY <1>11, <1>12

\* Without a name, a value is worth its constant.
LEMMA PureWorth ==
    ASSUME NEW value \in Values, NEW env \in [Names -> Fraction], Pure(value), NEW a \in Fraction
    PROVE  /\ Same(Worth(value, env), value.constant)
           /\ Same(Four(a, Share(value, env, "p"), Share(value, env, "c"),
                        Share(value, env, "fixed")), a)
<1>1. ASSUME NEW v \in Names PROVE Share(value, env, v)[1] = 0 /\ Share(value, env, v) \in Fraction
  <2>1. Coefficient(value, v) = Whole(0)
    BY DEF Pure, Coefficient
  <2>2. env[v] \in Fraction
    OBVIOUS
  <2> QED BY <2>1, <2>2, NothingTimes DEF Share
<1>2. PICK p \in Fraction, c \in Fraction, f \in Fraction :
         /\ /\ p = Share(value, env, "p")
         /\ c = Share(value, env, "c")
         /\ f = Share(value, env, "fixed")
         /\ p[1] = 0 /\ c[1] = 0 /\ f[1] = 0
  <2>1. "p" \in Names /\ "c" \in Names /\ "fixed" \in Names
    BY WorthIs
  <2> QED BY <1>1, <2>1
<1>3. ASSUME NEW b \in Fraction PROVE Same(Four(b, p, c, f), b)
  <2>1. Same(Plus(b, p), b) /\ Plus(b, p) \in Fraction
    BY <1>2, NothingAdded, PlusIs
  <2>2. Plus(c, f)[1] = 0 /\ Plus(c, f) \in Fraction
    <3>1. c[2] \in Int /\ f[2] \in Int
      BY Parts
    <3> QED BY <1>2, <3>1, PlusIs DEF Plus
  <2>3. Same(Plus(Plus(b, p), Plus(c, f)), Plus(b, p))
    BY <2>1, <2>2, NothingAdded
  <2>4. Plus(Plus(b, p), Plus(c, f)) \in Fraction
    BY <2>1, <2>2, PlusIs
  <2> QED BY <2>1, <2>3, <2>4, SameTransitive DEF Four
<1>4. value.constant \in Fraction /\ Worth(value, env) = Four(value.constant, p, c, f)
  BY <1>2, WorthIs, ValueParts
<1> QED BY <1>2, <1>3, <1>4

\* A name is worth what it stands for.
LEMMA VariableWorth ==
    ASSUME NEW v \in Names, NEW env \in [Names -> Fraction]
    PROVE  Same(Worth(Variable(v), env), env[v])
<1> DEFINE nothing == <<0, env[v][2]>>
           shares == [w \in Names |-> IF w = v THEN env[v] ELSE <<0, 1>>]
<1>1. /\ env[v] \in Fraction
      /\ \A w \in Names : env[w] \in Fraction /\ env[w][1] \in Int /\ env[w][2] \in Nat \ {0}
  BY Parts
<1>2. Variable(v) \in Values /\ Variable(v).constant = Whole(0) /\ Whole(0) \in Fraction
  <2>1. Whole(0) \in Fraction
    BY WholeIs
  <2>2. Variable(v) \in Values /\ Variable(v).constant = Whole(0)
    BY VariableIs, Zenon
  <2> QED BY <2>1, <2>2
<1>3. shares \in [Names -> Fraction]
  BY <1>1 DEF Fraction
<1>4. ASSUME NEW w \in Names PROVE Same(Share(Variable(v), env, w), shares[w])
  <2>1. PICK e \in Fraction : e = env[w] /\ e[1] \in Int /\ e[2] \in Nat \ {0} /\ e = <<e[1], e[2]>>
    BY <1>1, Parts
  <2>2. CASE w = v
    <3>1. Coefficient(Variable(v), w) = Whole(1)
      <4>1. Variable(v).coefficients[w] = Whole(1)
        BY <2>2, VariableIs
      <4>2. Whole(1) # Nil
        BY DEF Nil, Whole
      <4> QED BY <4>1, <4>2 DEF Coefficient
    <3>2. Times(Whole(1), e) = <<1 * e[1], 1 * e[2]>>
      BY DEF Times, Whole
    <3>3. 1 * e[1] = e[1] /\ 1 * e[2] = e[2]
      BY <2>1
    <3>4. shares[w] = e /\ Share(Variable(v), env, w) = e
      BY <2>1, <2>2, <3>1, <3>2, <3>3 DEF Share
    <3> QED BY <3>4, SameReflexive
  <2>3. CASE w # v
    <3>1. Coefficient(Variable(v), w) = Whole(0)
      BY <2>3, VariableIs, ZenonT(30) DEF Coefficient
    <3>2. Times(Whole(0), e)[1] = 0 /\ Times(Whole(0), e)[2] \in Int
      BY NothingTimes, Parts
    <3>3. shares[w] = <<0, 1>> /\ Share(Variable(v), env, w) = Times(Whole(0), e)
      BY <2>1, <2>3, <3>1 DEF Share
    <3> QED BY <3>2, <3>3 DEF Same
  <2> QED BY <2>2, <2>3
<1>5. PICK given \in [Names -> Fraction] : given = shares
  BY <1>3
<1>6. Same(Worth(Variable(v), env), Four(Whole(0), given["p"], given["c"], given["fixed"]))
  <2>1. \A w \in Names : Same(Share(Variable(v), env, w), given[w])
    BY <1>4, <1>5
  <2>2. Same(Variable(v).constant, Whole(0))
    BY <1>2, SameReflexive
  <2> QED BY <1>2, <2>1, <2>2, WorthSame
<1>7. Four(Whole(0), given["p"], given["c"], given["fixed"]) = env[v]
  <2>1. PICK x \in Int, y \in Nat \ {0} : env[v] = <<x, y>> /\ env[v][1] = x /\ env[v][2] = y
    BY <1>1, Parts
  <2>2. "p" \in Names /\ "c" \in Names /\ "fixed" \in Names
    BY DEF Names, Variables
  <2>3. v \in {"p", "c", "fixed"}
    BY DEF Names, Variables
  <2>4. /\ Plus(<<0, 1>>, <<0, 1>>) = <<0, 1>>
        /\ Plus(<<x, y>>, <<0, 1>>) = <<x, y>>
        /\ Plus(<<0, 1>>, <<x, y>>) = <<x, y>>
    <3>1. x * 1 + 0 * y = x /\ 0 * y + x * 1 = x /\ y * 1 = y /\ 1 * y = y
      OBVIOUS
    <3> QED BY <3>1 DEF Plus
  <2>5. CASE v = "p"
    <3>1. given["p"] = <<x, y>> /\ given["c"] = <<0, 1>> /\ given["fixed"] = <<0, 1>>
      BY <1>5, <2>1, <2>2, <2>5
    <3> QED BY <2>1, <2>4, <3>1 DEF Four, Whole
  <2>6. CASE v = "c"
    <3>1. given["p"] = <<0, 1>> /\ given["c"] = <<x, y>> /\ given["fixed"] = <<0, 1>>
      BY <1>5, <2>1, <2>2, <2>6
    <3> QED BY <2>1, <2>4, <3>1 DEF Four, Whole
  <2>7. CASE v = "fixed"
    <3>1. given["p"] = <<0, 1>> /\ given["c"] = <<0, 1>> /\ given["fixed"] = <<x, y>>
      BY <1>5, <2>1, <2>2, <2>7
    <3> QED BY <2>1, <2>4, <3>1 DEF Four, Whole
  <2> QED BY <2>3, <2>5, <2>6, <2>7
<1> QED BY <1>6, <1>7

\* What is subtracted without a name is worth less than nothing by as much.
LEMMA DifferenceWorth ==
    ASSUME NEW left \in Values, NEW right \in Values, NEW env \in [Names -> Fraction], Pure(right)
    PROVE  Same(Worth(CombineSum(left, right, "-"), env),
               Minus(Worth(left, env), Worth(right, env)))
<1>1. PICK l \in Fraction, r \in Fraction, k \in Fraction, m \in Fraction :
         l = Worth(left, env) /\ r = Worth(right, env) /\ k = right.constant /\ m = Whole(-1)
  BY WorthIs, ValueParts, WholeIs
<1>2. PICK x \in Fraction :
         x = Four(Times(k, m), Share(right, env, "p"), Share(right, env, "c"),
                  Share(right, env, "fixed"))
  <2>1. "p" \in Names /\ "c" \in Names /\ "fixed" \in Names
    BY WorthIs
  <2>2. /\ Share(right, env, "p") \in Fraction /\ Share(right, env, "c") \in Fraction
        /\ Share(right, env, "fixed") \in Fraction
    BY <2>1, WorthIs
  <2> QED BY <2>2, TimesIs, FourIs
<1>3. Same(Worth(CombineSum(left, right, "-"), env), Plus(l, x))
  <2>1. "-" # "+"
    OBVIOUS
  <2>2. PICK op : op = "-"
    OBVIOUS
  <2>3. Same(Worth(CombineSum(left, right, op), env),
             IF op = "+" THEN Plus(Worth(left, env), Worth(right, env))
             ELSE Plus(Worth(left, env),
                       Four(Times(right.constant, Whole(-1)), Share(right, env, "p"),
                            Share(right, env, "c"), Share(right, env, "fixed"))))
    BY SumsWorth
  <2> QED BY <1>1, <1>2, <2>1, <2>2, <2>3
<1>4. Same(x, Times(k, m)) /\ Times(k, m) \in Fraction
  BY <1>1, <1>2, TimesIs, PureWorth
<1>5. Same(r, k)
  BY <1>1, PureWorth
<1>6. Same(Times(k, m), Times(r, m)) /\ Times(r, m) \in Fraction
  BY <1>5, SameReflexive, SameSymmetric, TimesSame, TimesIs
<1>7. Same(x, Times(r, m))
  BY <1>4, <1>6, SameTransitive
<1>8. Same(Plus(l, x), Plus(l, Times(r, m)))
  BY <1>6, <1>7, SameReflexive, PlusSame
<1>9. /\ Worth(CombineSum(left, right, "-"), env) \in Fraction /\ Plus(l, x) \in Fraction
      /\ Plus(l, Times(r, m)) \in Fraction
  BY <1>6, CombineSumIs, WorthIs, PlusIs
<1>10. Same(Worth(CombineSum(left, right, "-"), env), Plus(l, Times(r, m)))
  BY <1>3, <1>8, <1>9, SameTransitive
<1> QED BY <1>1, <1>10 DEF Minus

\* The products and quotients that combineTerm makes.
LEMMA TermIs ==
    ASSUME NEW left \in Values, NEW right \in Values, NEW op \in {"*", "/"}, Linear(left, right, op)
    PROVE  /\ CombineTerm(left, right, op) \in Values
           /\ CombineTerm(left, right, op).fixed = Nil
           /\ \A v \in Names : CombineTerm(left, right, op).coefficients[v] # Nil =>
                 left.coefficients[v] # Nil \/ right.coefficients[v] # Nil
           /\ \A env \in [Names -> Fraction] :
                 Same(Worth(CombineTerm(left, right, op), env),
                      IF op = "*" THEN Times(Worth(left, env), Worth(right, env))
                      ELSE Quotient(Worth(left, env), Worth(right, env)))
<1>1. PICK a \in Fraction, b \in Fraction : a = left.constant /\ b = right.constant
  BY ValueParts
<1>2. left.fixed = Nil /\ right.fixed = Nil
  BY DEF Linear
<1>3. CASE op = "/"
  <2>1. Pure(right) /\ b[1] # 0
    BY <1>1, <1>3 DEF Linear
  <2>2. /\ Reciprocal(b) \in Fraction
        /\ CombineTerm(left, right, op) = ScaleLinear(left, Reciprocal(b))
    BY <1>1, <1>3, <2>1, ReciprocalIs DEF CombineTerm
  <2>3. ASSUME NEW env \in [Names -> Fraction]
        PROVE  Same(Worth(ScaleLinear(left, Reciprocal(b)), env),
                   Quotient(Worth(left, env), Worth(right, env)))
    <3>1. PICK l \in Fraction, r \in Fraction, s \in Fraction :
             /\ l = Worth(left, env)
             /\ r = Worth(right, env)
             /\ s = Worth(ScaleLinear(left, Reciprocal(b)), env)
      BY <2>2, ScaleIs, WorthIs
    <3>2. Same(s, Quotient(l, b))
      <4>1. Same(s, Times(l, Reciprocal(b)))
        BY <2>2, <3>1, ScaleWorth
      <4> QED BY <2>1, <4>1 DEF Quotient
    <3>3. Same(r, b)
      BY <1>1, <2>1, <3>1, PureWorth
    <3>4. Same(Quotient(l, b), Quotient(l, r))
      BY <3>3, SameReflexive, SameSymmetric, QuotientSame
    <3>5. Quotient(l, b) \in Fraction /\ Quotient(l, r) \in Fraction
      BY QuotientIs
    <3> QED BY <3>1, <3>2, <3>4, <3>5, SameTransitive
  <2> QED BY <1>2, <1>3, <2>2, <2>3, ScaleIs, SMTT(30)
<1>4. CASE op = "*" /\ Pure(left)
  <2>1. CombineTerm(left, right, op) = ScaleLinear(right, a)
    BY <1>1, <1>4 DEF CombineTerm
  <2>2. ASSUME NEW env \in [Names -> Fraction]
        PROVE  Same(Worth(ScaleLinear(right, a), env), Times(Worth(left, env), Worth(right, env)))
    <3>1. PICK l \in Fraction, r \in Fraction, s \in Fraction :
             l = Worth(left, env) /\ r = Worth(right, env) /\ s = Worth(ScaleLinear(right, a), env)
      BY ScaleIs, WorthIs
    <3>2. Same(s, Times(r, a))
      BY <3>1, ScaleWorth
    <3>3. Same(l, a)
      BY <1>1, <1>4, <3>1, PureWorth
    <3>4. Same(Times(r, a), Times(r, l))
      BY <3>3, SameReflexive, SameSymmetric, TimesSame
    <3>5. Times(r, a) \in Fraction /\ Times(r, l) \in Fraction /\ Times(r, l) = Times(l, r)
      BY TimesIs, TimesCommutes
    <3> QED BY <3>1, <3>2, <3>4, <3>5, SameTransitive
  <2>3. op # "/"
    BY <1>4
  <2> QED BY <1>2, <1>4, <2>1, <2>2, ScaleIs
<1>5. CASE op = "*" /\ ~Pure(left)
  <2>1. Pure(right) /\ CombineTerm(left, right, op) = ScaleLinear(left, b)
    BY <1>1, <1>5 DEF CombineTerm, Linear
  <2>2. ASSUME NEW env \in [Names -> Fraction]
        PROVE  Same(Worth(ScaleLinear(left, b), env), Times(Worth(left, env), Worth(right, env)))
    <3>1. PICK l \in Fraction, r \in Fraction, s \in Fraction :
             l = Worth(left, env) /\ r = Worth(right, env) /\ s = Worth(ScaleLinear(left, b), env)
      BY ScaleIs, WorthIs
    <3>2. Same(s, Times(l, b))
      BY <3>1, ScaleWorth
    <3>3. Same(r, b)
      BY <1>1, <2>1, <3>1, PureWorth
    <3>4. Same(Times(l, b), Times(l, r))
      BY <3>3, SameReflexive, SameSymmetric, TimesSame
    <3>5. Times(l, b) \in Fraction /\ Times(l, r) \in Fraction
      BY TimesIs
    <3> QED BY <3>1, <3>2, <3>4, <3>5, SameTransitive
  <2> QED BY <1>2, <1>5, <2>1, <2>2, ScaleIs
<1> QED BY <1>3, <1>4, <1>5

-----------------------------------------------------------------------------
(* Billing expressions: what the parser returns.                           *)

Lefts(t) == [ok : {TRUE}, value : Values, pos : 1..Len(t) + 1]
Results(t) == {Fails} \cup Lefts(t)

\* A value read from position a on is worth what the tokens read are worth.
Means(t, a, r) ==
    /\ r \in Lefts(t) /\ Closed(t, a, r.pos)
    /\ \A v \in Names : r.value.coefficients[v] # Nil => \E i \in a..r.pos - 1 : t[i] = v
    /\ r.value.fixed # Nil => \E i \in a..r.pos - 1 : t[i] = "fixed"
    /\ r.value.fixed = Nil /\ ~Subtracts(t) =>
          \A env \in [Names -> Fraction] :
             Same(WorthOf(t, env)[<<a, r.pos>>], Worth(r.value, env))
MeansTerm(t, a, r) == Means(t, a, r) /\ Sums(t, <<a, r.pos>>) = {}
MeansUnary(t, a, r) == MeansTerm(t, a, r) /\ Products(t, <<a, r.pos>>) = {}

\* What each call may return.
SoundUnary(t, pos, r) == r \in Results(t) /\ (r.ok => MeansUnary(t, pos, r))
SoundTerm(t, pos, r) == r \in Results(t) /\ (r.ok => MeansTerm(t, pos, r))
SoundExpression(t, pos, r) == r \in Results(t) /\ (r.ok => Means(t, pos, r))
SoundProduct(t, left, r) ==
    r \in Results(t) /\ (r.ok => \A a : MeansTerm(t, a, left) => MeansTerm(t, a, r))
SoundSum(t, left, r) == r \in Results(t) /\ (r.ok => \A a : Means(t, a, left) => Means(t, a, r))
Readers(t) ==
    {f \in [Calls(t) -> Results(t)] :
        /\ \A pos \in 1..Len(t) + 1 : /\ SoundUnary(t, pos, f[<<"unary", pos>>])
                                      /\ SoundTerm(t, pos, f[<<"term", pos>>])
                                      /\ SoundExpression(t, pos, f[<<"expression", pos>>])
        /\ \A left \in Lefts(t) : /\ SoundProduct(t, left, f[<<"product", left>>])
                                  /\ SoundSum(t, left, f[<<"sum", left>>])}

\* The calls.
LEMMA CallFacts ==
    ASSUME NEW t
    PROVE  /\ \A pos \in 1..Len(t) + 1 : /\ <<"unary", pos>> \in Calls(t)
                                         /\ <<"term", pos>> \in Calls(t)
                                         /\ <<"expression", pos>> \in Calls(t)
           /\ \A left \in Lefts(t) : /\ <<"product", left>> \in Calls(t)
                                     /\ <<"sum", left>> \in Calls(t)
  BY DEF Calls, Lefts
\* There are no other calls.
LEMMA CallKinds ==
    ASSUME NEW t, NEW call \in Calls(t)
    PROVE  \/ \E pos \in 1..Len(t) + 1 : \/ call = <<"unary", pos>> \/ call = <<"term", pos>>
                                         \/ call = <<"expression", pos>>
           \/ \E left \in Lefts(t) : call = <<"product", left>> \/ call = <<"sum", left>>
<1>1. CASE call \in {"unary", "term", "expression"} \X (1..Len(t) + 1)
  <2>1. PICK what \in {"unary", "term", "expression"}, pos \in 1..Len(t) + 1 : call = <<what, pos>>
    BY <1>1
  <2> QED BY <2>1
<1>2. CASE call \in {"product", "sum"} \X Lefts(t)
  <2>1. PICK what \in {"product", "sum"}, left \in Lefts(t) : call = <<what, left>>
    BY <1>2
  <2> QED BY <2>1
<1> QED BY <1>1, <1>2 DEF Calls, Lefts

\* A call fails or returns a value and a position.
LEMMA ResultKinds ==
    ASSUME NEW t, NEW r \in Results(t)
    PROVE  \/ r = Fails /\ ~r.ok
           \/ r \in Lefts(t) /\ r.ok /\ r.value \in Values /\ r.pos \in 1..Len(t) + 1
<1>1. CASE r = Fails
  BY <1>1 DEF Fails
<1>2. CASE r \in Lefts(t)
  BY <1>2 DEF Lefts
<1> QED BY <1>1, <1>2 DEF Results
\* To fail is sound.
LEMMA FailsIs ==
    ASSUME NEW t, NEW pos, NEW left
    PROVE  /\ /\ SoundUnary(t, pos, Fails)
           /\ SoundTerm(t, pos, Fails)
           /\ SoundExpression(t, pos, Fails)
           /\ SoundProduct(t, left, Fails) /\ SoundSum(t, left, Fails)
  BY DEF Fails, Results, SoundUnary, SoundTerm, SoundExpression, SoundProduct, SoundSum
\* What Parsed makes.
LEMMA ParsedIs ==
    ASSUME NEW t, NEW value \in Values, NEW pos \in 1..Len(t) + 1
    PROVE  /\ Parsed(value, pos) \in Lefts(t) /\ Parsed(value, pos).ok
           /\ Parsed(value, pos).value = value /\ Parsed(value, pos).pos = pos
  BY DEF Parsed, Lefts

\* A token that peek returns is there.
LEMMA PeekFacts ==
    ASSUME NEW t \in Seq(Token), NEW pos \in Nat \ {0}
    PROVE  Peek(t, pos) \in {"+", "-", "*", "/", "(", ")", "fixed"} \cup DOMAIN Number \cup Names =>
              pos \in 1..Len(t) /\ Peek(t, pos) = t[pos]
<1>1. "end" \notin {"+", "-", "*", "/", "(", ")", "fixed"} \cup DOMAIN Number \cup Names
  BY DEF Number, Names, Variables
<1> QED BY <1>1 DEF Peek

\* A value without a name in it.
LEMMA PureIsOf ==
    ASSUME NEW value, Pure(value), NEW v \in Names PROVE value.coefficients[v] = Nil
  BY DEF Pure

\* A number.
LEMMA NumberMeans ==
    ASSUME NEW t \in Seq(Token), NEW a \in 1..Len(t), t[a] \in DOMAIN Number
    PROVE  MeansUnary(t, a, Parsed(Constant(Number[t[a]]), a + 1))
<1>1. PICK n \in Int : n = Number[t[a]]
  BY DEF Number
<1>2. t[a] \notin Signs \cup {"(", ")"}
  BY DEF Number, Signs
<1>3. a + 1 \in 1..Len(t) + 1
  OBVIOUS
<1>4. PICK value \in Values : value = Constant(n)
  BY ConstantIs
<1>5. Pure(value) /\ value.fixed = Nil /\ value.constant = Whole(n)
  BY <1>4, ConstantIs
<1>6. PICK r \in Lefts(t) : r = Parsed(value, a + 1) /\ r.value = value /\ r.pos = a + 1
  BY <1>3, ParsedIs
<1>7. Closed(t, a, a + 1) /\ Sums(t, <<a, a + 1>>) = {} /\ Products(t, <<a, a + 1>>) = {}
  BY <1>2, LeafShape DEF Sums, Products
<1>8. ASSUME NEW env \in [Names -> Fraction]
      PROVE  Same(WorthOf(t, env)[<<a, a + 1>>], Worth(value, env))
  <2>1. PICK w : w = WorthOf(t, env)
    OBVIOUS
  <2>2. w[<<a, a + 1>>] = Whole(n)
    BY <1>1, <2>1, LeafWorth
  <2>3. Same(Worth(value, env), Whole(n)) /\ Whole(n) \in Fraction /\ Worth(value, env) \in Fraction
    <3>1. Whole(n) \in Fraction
      BY WholeIs
    <3> QED BY <1>5, <3>1, PureWorth, WorthIs
  <2> QED BY <2>1, <2>2, <2>3, SameSymmetric
<1>9. \A v \in Names : value.coefficients[v] = Nil
  BY <1>5, PureIsOf
<1>10. MeansUnary(t, a, r)
  BY <1>5, <1>6, <1>7, <1>8, <1>9 DEF MeansUnary, MeansTerm, Means
<1> QED BY <1>1, <1>4, <1>6, <1>10

\* A name.
LEMMA NameMeans ==
    ASSUME NEW t \in Seq(Token), NEW a \in 1..Len(t), t[a] \in Names
    PROVE  MeansUnary(t, a, Parsed(Variable(t[a]), a + 1))
<1>1. PICK v \in Names : v = t[a]
  OBVIOUS
<1>2. t[a] \notin Signs \cup {"(", ")"}
  BY DEF Names, Variables, Signs
<1>3. a + 1 \in 1..Len(t) + 1 /\ a \in a..(a + 1) - 1
  OBVIOUS
<1>4. PICK value \in Values : value = Variable(v)
  BY VariableIs
<1>5. value.fixed = Nil /\ value.coefficients = [x \in Names |-> IF x = v THEN Whole(1) ELSE Nil]
  BY <1>4, VariableIs
<1>6. PICK r \in Lefts(t) : r = Parsed(value, a + 1) /\ r.value = value /\ r.pos = a + 1
  BY <1>3, ParsedIs
<1>7. Closed(t, a, a + 1) /\ Sums(t, <<a, a + 1>>) = {} /\ Products(t, <<a, a + 1>>) = {}
  BY <1>2, LeafShape DEF Sums, Products
<1>8. ASSUME NEW env \in [Names -> Fraction]
      PROVE  Same(WorthOf(t, env)[<<a, a + 1>>], Worth(value, env))
  <2>1. PICK w : w = WorthOf(t, env)
    OBVIOUS
  <2>2. w[<<a, a + 1>>] = env[v]
    BY <1>1, <2>1, LeafWorth
  <2>3. Same(Worth(value, env), env[v]) /\ env[v] \in Fraction /\ Worth(value, env) \in Fraction
    BY <1>4, VariableWorth, WorthIs
  <2> QED BY <2>1, <2>2, <2>3, SameSymmetric
<1>9. \A x \in Names : value.coefficients[x] # Nil => x = t[a]
  BY <1>1, <1>5
<1>10. MeansUnary(t, a, r)
  BY <1>3, <1>5, <1>6, <1>7, <1>8, <1>9 DEF MeansUnary, MeansTerm, Means
<1> QED BY <1>1, <1>4, <1>6, <1>10

\* fixed(N).
LEMMA FixedMeans ==
    ASSUME NEW t \in Seq(Token), NEW a \in 1..Len(t), a + 3 \in 1..Len(t),
           t[a] = "fixed", t[a + 1] = "(", t[a + 2] \in DOMAIN Number, t[a + 3] = ")"
    PROVE  MeansUnary(t, a, Parsed([Constant(0) EXCEPT !.fixed = Whole(Number[t[a + 2]])], a + 4))
<1>1. PICK n \in Int : n = Number[t[a + 2]]
  BY SMTT(30) DEF Number
<1>2. t[a] \notin Signs \cup {"(", ")"} /\ t[a + 2] \notin Signs \cup {"(", ")"}
  BY DEF Signs, Number
<1>3. a + 4 \in 1..Len(t) + 1 /\ a \in a..(a + 4) - 1
  OBVIOUS
<1>4. PICK value \in Values : value = [Constant(0) EXCEPT !.fixed = Whole(n)]
  BY FixedIs
<1>5. Pure(value) /\ value.fixed # Nil
  BY <1>4, FixedIs
<1>6. PICK r \in Lefts(t) : r = Parsed(value, a + 4) /\ r.value = value /\ r.pos = a + 4
  BY <1>3, ParsedIs
<1>7. Closed(t, a, a + 4) /\ Sums(t, <<a, a + 4>>) = {} /\ Products(t, <<a, a + 4>>) = {}
  <2>1. {"+", "-"} \in SUBSET Signs /\ {"*", "/"} \in SUBSET Signs
    BY DEF Signs
  <2> QED BY <1>2, <2>1, CallShape DEF Sums, Products
<1>8. \A v \in Names : value.coefficients[v] = Nil
  BY <1>5, PureIsOf
<1>9. MeansUnary(t, a, r)
  BY <1>3, <1>5, <1>6, <1>7, <1>8 DEF MeansUnary, MeansTerm, Means
<1> QED BY <1>1, <1>4, <1>6, <1>9

\* What stands in parentheses.
LEMMA EnclosedMeans ==
    ASSUME NEW t \in Seq(Token), NEW a \in 1..Len(t), NEW inner, Means(t, a + 1, inner),
           inner.pos \in 1..Len(t), t[a] = "(", t[inner.pos] = ")"
    PROVE  MeansUnary(t, a, Parsed(inner.value, inner.pos + 1))
<1>1. PICK m \in 1..Len(t), value \in Values : m = inner.pos /\ value = inner.value
  BY DEF Means, Lefts
<1>2. Closed(t, a + 1, m) /\ a + 1 < m
  BY <1>1 DEF Means, Closed
<1>3. m + 1 \in 1..Len(t) + 1 /\ \A i \in a + 1..m - 1 : i \in a..(m + 1) - 1
  OBVIOUS
<1>4. PICK r \in Lefts(t) : r = Parsed(value, m + 1) /\ r.value = value /\ r.pos = m + 1
  BY <1>3, ParsedIs
<1>5. Closed(t, a, m + 1) /\ Sums(t, <<a, m + 1>>) = {} /\ Products(t, <<a, m + 1>>) = {}
  <2>1. {"+", "-"} \in SUBSET Signs /\ {"*", "/"} \in SUBSET Signs
    BY DEF Signs
  <2> QED BY <1>1, <1>2, <2>1, EnclosedShape DEF Sums, Products
<1>6. ASSUME value.fixed = Nil, ~Subtracts(t), NEW env \in [Names -> Fraction]
      PROVE  Same(WorthOf(t, env)[<<a, m + 1>>], Worth(value, env))
  <2>1. PICK w : w = WorthOf(t, env)
    OBVIOUS
  <2>2. w[<<a, m + 1>>] = w[<<a + 1, m>>]
    <3>1. Closed(t, a + 1, m) /\ t[m] = ")"
      BY <1>1, <1>2
    <3> QED BY <2>1, <3>1, EnclosedWorth, SMTT(30)
  <2>3. Same(w[<<a + 1, m>>], Worth(value, env))
    BY <1>1, <1>6, <2>1 DEF Means
  <2> QED BY <2>1, <2>2, <2>3
<1>7. /\ \A v \in Names : value.coefficients[v] # Nil => \E i \in a + 1..m - 1 : t[i] = v
      /\ value.fixed # Nil => \E i \in a + 1..m - 1 : t[i] = "fixed"
  BY <1>1 DEF Means
<1>8. MeansUnary(t, a, r)
  BY <1>3, <1>4, <1>5, <1>6, <1>7 DEF MeansUnary, MeansTerm, Means
<1> QED BY <1>1, <1>4, <1>8

\* The opposite of the same is the same.
LEMMA NegativeWorth ==
    ASSUME NEW x \in Fraction, NEW y \in Fraction, NEW z \in Fraction, Same(x, y),
           Same(z, Times(y, Whole(-1)))
    PROVE  Same(Minus(Whole(0), x), z)
<1>1. Whole(0) \in Fraction /\ Whole(-1) \in Fraction
  BY WholeIs
<1>2. /\ Times(x, Whole(-1)) \in Fraction
      /\ Times(y, Whole(-1)) \in Fraction
      /\ Minus(Whole(0), x) \in Fraction
  BY <1>1, TimesIs, MinusIs
<1>3. Same(Minus(Whole(0), x), Times(x, Whole(-1)))
  <2>1. Whole(0)[1] = 0
    BY DEF Whole
  <2> QED BY <1>1, <1>2, <2>1, NothingAdded DEF Minus
<1>4. Same(Times(x, Whole(-1)), Times(y, Whole(-1)))
  BY <1>1, SameReflexive, TimesSame
<1>5. Same(Minus(Whole(0), x), Times(y, Whole(-1)))
  BY <1>2, <1>3, <1>4, SameTransitive
<1>6. Same(Times(y, Whole(-1)), z)
  BY <1>2, SameSymmetric
<1> QED BY <1>2, <1>5, <1>6, SameTransitive

\* What has a sign.
LEMMA SignedMeans ==
    ASSUME NEW t \in Seq(Token), NEW a \in 1..Len(t), NEW r, MeansUnary(t, a + 1, r)
    PROVE  /\ t[a] = "+" => MeansUnary(t, a, r)
           /\ t[a] = "-" /\ r.value.fixed = Nil =>
                 MeansUnary(t, a, Parsed(ScaleLinear(r.value, Whole(-1)), r.pos))
<1> SUFFICES ASSUME t[a] \in {"+", "-"}
             PROVE  /\ t[a] = "+" => MeansUnary(t, a, r)
                    /\ t[a] = "-" /\ r.value.fixed = Nil =>
                          MeansUnary(t, a, Parsed(ScaleLinear(r.value, Whole(-1)), r.pos))
  OBVIOUS
<1>1. t[a] \in Signs
  BY DEF Signs
<1>2. PICK m \in 1..Len(t) + 1, value \in Values : m = r.pos /\ value = r.value
  BY DEF MeansUnary, MeansTerm, Means, Lefts
<1>3. /\ Closed(t, a + 1, m)
      /\ Sums(t, <<a + 1, m>>) = {}
      /\ Products(t, <<a + 1, m>>) = {}
      /\ r \in Lefts(t)
  BY <1>2 DEF MeansUnary, MeansTerm, Means
<1>4. Closed(t, a, m) /\ Sums(t, <<a, m>>) = {} /\ Products(t, <<a, m>>) = {}
  BY <1>1, <1>3, SignedShape DEF Sums, Products
<1>5. \A i \in a + 1..m - 1 : i \in a..m - 1
  OBVIOUS
<1>6. ASSUME value.fixed = Nil, ~Subtracts(t), NEW env \in [Names -> Fraction]
      PROVE  /\ t[a] = "+" => Same(WorthOf(t, env)[<<a, m>>], Worth(value, env))
             /\ t[a] = "-" =>
                   Same(WorthOf(t, env)[<<a, m>>], Worth(ScaleLinear(value, Whole(-1)), env))
  <2>1. PICK w : w = WorthOf(t, env)
    OBVIOUS
  <2>2. /\ t[a] = "-" => w[<<a, m>>] = Minus(Whole(0), w[<<a + 1, m>>])
        /\ t[a] = "+" => w[<<a, m>>] = w[<<a + 1, m>>]
    <3>1. SignedBy(t, env, w, a, m)
      BY <1>1, <1>3, <2>1, SignedWorth
    <3> QED BY <3>1 DEF SignedBy
  <2>3. Same(w[<<a + 1, m>>], Worth(value, env))
    BY <1>2, <1>6, <2>1 DEF MeansUnary, MeansTerm, Means
  <2>4. w[<<a + 1, m>>] \in Fraction
    <3>1. a + 1 \in 1..Len(t) + 1 /\ a + 1 < m
      BY <1>3 DEF Closed
    <3>2. WorthBy(t, env, w, a + 1, m)
      BY <2>1, <3>1, WorthCases
    <3> QED BY <3>2 DEF WorthBy
  <2>5. PICK x \in Fraction, y \in Fraction, z \in Fraction :
           /\ x = w[<<a + 1, m>>]
           /\ y = Worth(value, env)
           /\ z = Worth(ScaleLinear(value, Whole(-1)), env)
    <3>1. PICK k \in Fraction : k = Whole(-1)
      BY WholeIs
    <3>2. PICK less \in Values : less = ScaleLinear(value, k)
      BY ScaleIs
    <3>3. Worth(value, env) \in Fraction /\ Worth(less, env) \in Fraction
      BY WorthIs
    <3> QED BY <2>4, <3>1, <3>2, <3>3
  <2>6. Same(z, Times(y, Whole(-1)))
    <3>1. Whole(-1) \in Fraction
      BY WholeIs
    <3> QED BY <2>5, <3>1, ScaleWorth
  <2>7. Same(Minus(Whole(0), x), z)
    BY <2>3, <2>5, <2>6, NegativeWorth
  <2> QED BY <2>1, <2>2, <2>3, <2>5, <2>7
<1>7. /\ \A v \in Names : value.coefficients[v] # Nil => \E i \in a + 1..m - 1 : t[i] = v
      /\ value.fixed # Nil => \E i \in a + 1..m - 1 : t[i] = "fixed"
  BY <1>2 DEF MeansUnary, MeansTerm, Means
<1>8. CASE t[a] = "+"
  BY <1>2, <1>3, <1>4, <1>5, <1>6, <1>7, <1>8 DEF MeansUnary, MeansTerm, Means
<1>9. ASSUME t[a] = "-", value.fixed = Nil
      PROVE  MeansUnary(t, a, Parsed(ScaleLinear(value, Whole(-1)), m))
  <2>1. PICK k \in Fraction : k = Whole(-1)
    BY WholeIs
  <2>2. PICK less \in Values : less = ScaleLinear(value, k)
    BY ScaleIs
  <2>3. /\ less.fixed = Nil
        /\ \A v \in Names : less.coefficients[v] # Nil => value.coefficients[v] # Nil
    BY <1>9, <2>2, ScaleIs
  <2>4. PICK s \in Lefts(t) : s = Parsed(less, m) /\ s.value = less /\ s.pos = m
    BY ParsedIs
  <2>5. MeansUnary(t, a, s)
    BY <1>4, <1>5, <1>6, <1>7, <1>9, <2>1, <2>2, <2>3, <2>4 DEF MeansUnary, MeansTerm, Means
  <2> QED BY <2>1, <2>2, <2>4, <2>5
<1> QED BY <1>2, <1>8, <1>9

-----------------------------------------------------------------------------
(* Billing expressions: what the loops and the procedures return.          *)

\* What a value read holds, one fact at a time.
LEMMA MeansFacts ==
    ASSUME NEW t, NEW a, NEW r, Means(t, a, r)
    PROVE  /\ r \in Lefts(t) /\ r.ok /\ r.value \in Values /\ r.pos \in 1..Len(t) + 1
           /\ Closed(t, a, r.pos) /\ a \in 1..Len(t) + 1 /\ a < r.pos
  BY DEF Means, Lefts, Closed

\* A factor more.
LEMMA ProductMeans ==
    ASSUME NEW t \in Seq(Token), NEW a, NEW left, NEW right, MeansTerm(t, a, left),
           left.pos \in 1..Len(t), t[left.pos] \in {"*", "/"}, MeansUnary(t, left.pos + 1, right),
           Linear(left.value, right.value, t[left.pos])
    PROVE  MeansTerm(t, a, Parsed(CombineTerm(left.value, right.value, t[left.pos]), right.pos))
<1>1. PICK m \in 1..Len(t), op \in {"*", "/"} : m = left.pos /\ op = t[m]
  OBVIOUS
<1>2. Means(t, a, left) /\ Means(t, m + 1, right)
  BY <1>1 DEF MeansUnary, MeansTerm
<1>3. PICK l \in Values, r \in Values, b \in 1..Len(t) + 1 :
               l = left.value /\ r = right.value /\ b = right.pos
  BY <1>2, MeansFacts
<1>4. Closed(t, a, m) /\ Closed(t, m + 1, b) /\ m + 1 < b /\ a \in Int /\ a < m
  BY <1>1, <1>2, <1>3, MeansFacts
<1>5. Sums(t, <<a, m>>) = {} /\ Sums(t, <<m + 1, b>>) = {} /\ Products(t, <<m + 1, b>>) = {}
  BY <1>1, <1>3 DEF MeansUnary, MeansTerm
<1>6. PICK value \in Values : value = CombineTerm(l, r, op)
  BY <1>1, <1>3, TermIs
<1>7. /\ value.fixed = Nil
      /\ \A v \in Names : value.coefficients[v] # Nil =>
             l.coefficients[v] # Nil \/ r.coefficients[v] # Nil
  BY <1>1, <1>3, <1>6, TermIs
<1>8. PICK s \in Lefts(t) : s = Parsed(value, b) /\ s.value = value /\ s.pos = b
  BY ParsedIs
<1>9. Closed(t, a, b)
  <2>1. t[m] \in Signs
    BY <1>1 DEF Signs
  <2> QED BY <1>4, <2>1, JoinedShape
<1>10. Sums(t, <<a, b>>) = {}
  <2>1. t[m] \in Signs /\ t[m] \notin {"+", "-"}
    BY <1>1 DEF Signs
  <2> QED BY <1>4, <1>5, <2>1, JoinedShape DEF Sums
<1>11. ASSUME ~Subtracts(t), NEW env \in [Names -> Fraction]
       PROVE  Same(WorthOf(t, env)[<<a, b>>], Worth(value, env))
  <2>1. PICK w : w = WorthOf(t, env)
    OBVIOUS
  <2>2. w[<<a, b>>] = IF op = "*" THEN Times(w[<<a, m>>], w[<<m + 1, b>>])
                                  ELSE Quotient(w[<<a, m>>], w[<<m + 1, b>>])
    <3>1. ProductBy(t, env, w, a, m, b)
      BY <1>1, <1>4, <1>5, <2>1, ProductWorth
    <3> QED BY <1>1, <3>1 DEF ProductBy
  <2>3. l.fixed = Nil /\ r.fixed = Nil
    BY <1>1, <1>3 DEF Linear
  <2>4. Same(w[<<a, m>>], Worth(l, env)) /\ Same(w[<<m + 1, b>>], Worth(r, env))
    BY <1>1, <1>2, <1>3, <1>11, <2>1, <2>3 DEF Means
  <2>5. w[<<a, m>>] \in Fraction /\ w[<<m + 1, b>>] \in Fraction
    <3>1. WorthBy(t, env, w, a, m) /\ WorthBy(t, env, w, m + 1, b)
      BY <1>4, <2>1, WorthCases DEF Closed
    <3> QED BY <3>1 DEF WorthBy
  <2>6. PICK x \in Fraction, y \in Fraction, p \in Fraction, q \in Fraction, z \in Fraction :
           /\ x = w[<<a, m>>] /\ y = w[<<m + 1, b>>]
           /\ p = Worth(l, env) /\ q = Worth(r, env) /\ z = Worth(value, env)
    <3>1. Worth(l, env) \in Fraction /\ Worth(r, env) \in Fraction /\ Worth(value, env) \in Fraction
      BY WorthIs
    <3> QED BY <2>5, <3>1
  <2>7. Same(z, IF op = "*" THEN Times(p, q) ELSE Quotient(p, q))
    <3>1. Linear(l, r, op)
      BY <1>1, <1>3
    <3>2. Same(Worth(CombineTerm(l, r, op), env),
               IF op = "*" THEN Times(Worth(l, env), Worth(r, env))
               ELSE Quotient(Worth(l, env), Worth(r, env)))
      BY <3>1, TermIs
    <3> QED BY <1>6, <2>6, <3>2
  <2>8. CASE op = "*"
    <3>1. Same(Times(x, y), Times(p, q)) /\ Times(x, y) \in Fraction /\ Times(p, q) \in Fraction
      BY <2>4, <2>6, TimesSame, TimesIs
    <3>2. Same(Times(p, q), z)
      BY <2>7, <2>8, <3>1, SameSymmetric
    <3>3. Same(Times(x, y), z)
      BY <3>1, <3>2, SameTransitive
    <3> QED BY <2>1, <2>2, <2>6, <2>8, <3>3
  <2>9. CASE op # "*"
    <3>1. /\ Same(Quotient(x, y), Quotient(p, q)) /\ Quotient(x, y) \in Fraction
          /\ Quotient(p, q) \in Fraction
      BY <2>4, <2>6, QuotientSame, QuotientIs
    <3>2. Same(Quotient(p, q), z)
      BY <2>7, <2>9, <3>1, SameSymmetric
    <3>3. Same(Quotient(x, y), z)
      BY <3>1, <3>2, SameTransitive
    <3> QED BY <2>1, <2>2, <2>6, <2>9, <3>3
  <2> QED BY <2>8, <2>9
<1>12. ASSUME NEW v \in Names, value.coefficients[v] # Nil PROVE \E i \in a..b - 1 : t[i] = v
  <2>1. \A i \in a..m - 1 : i \in a..b - 1
    BY <1>4
  <2>2. \A i \in m + 1..b - 1 : i \in a..b - 1
    BY <1>4
  <2>3. (\E i \in a..m - 1 : t[i] = v) \/ (\E i \in m + 1..b - 1 : t[i] = v)
    BY <1>1, <1>2, <1>3, <1>7, <1>12 DEF Means
  <2> QED BY <2>1, <2>2, <2>3
<1>13. MeansTerm(t, a, s)
  BY <1>7, <1>8, <1>9, <1>10, <1>11, <1>12 DEF MeansTerm, Means
<1> QED BY <1>1, <1>3, <1>6, <1>8, <1>13

\* A term more: one with a variable may be added, but not be subtracted.
LEMMA SumMeans ==
    ASSUME NEW t \in Seq(Token), NEW a, NEW left, NEW right, Means(t, a, left),
           left.pos \in 1..Len(t), t[left.pos] \in {"+", "-"}, MeansTerm(t, left.pos + 1, right),
           left.value.fixed = Nil, right.value.fixed = Nil
    PROVE  Means(t, a, Parsed(CombineSum(left.value, right.value, t[left.pos]), right.pos))
<1>1. PICK m \in 1..Len(t), op \in {"+", "-"} : m = left.pos /\ op = t[m]
  OBVIOUS
<1>2. Means(t, a, left) /\ Means(t, m + 1, right)
  BY <1>1 DEF MeansTerm
<1>3. PICK l \in Values, r \in Values, b \in 1..Len(t) + 1 :
               l = left.value /\ r = right.value /\ b = right.pos
  BY <1>2, MeansFacts
<1>4. Closed(t, a, m) /\ Closed(t, m + 1, b) /\ m + 1 < b /\ a \in Int /\ a < m
  BY <1>1, <1>2, <1>3, MeansFacts
<1>5. Sums(t, <<m + 1, b>>) = {} /\ l.fixed = Nil /\ r.fixed = Nil
  BY <1>1, <1>3 DEF MeansTerm
<1>6. PICK value \in Values : value = CombineSum(l, r, op)
  BY CombineSumIs
<1>7. /\ value.fixed = Nil
      /\ \A v \in Names : value.coefficients[v] # Nil =>
             l.coefficients[v] # Nil \/ r.coefficients[v] # Nil
  BY <1>6, CombineSumIs
<1>8. PICK s \in Lefts(t) : s = Parsed(value, b) /\ s.value = value /\ s.pos = b
  BY ParsedIs
<1>9. Closed(t, a, b)
  <2>1. t[m] \in Signs
    BY <1>1 DEF Signs
  <2> QED BY <1>4, <2>1, JoinedShape
<1>10. ASSUME NEW v \in Names, r.coefficients[v] # Nil PROVE \E i \in m + 1..b - 1 : t[i] = v
  BY <1>2, <1>3, <1>10 DEF Means
<1>11. ASSUME ~Subtracts(t), NEW env \in [Names -> Fraction]
       PROVE  Same(WorthOf(t, env)[<<a, b>>], Worth(value, env))
  <2>1. PICK w : w = WorthOf(t, env)
    OBVIOUS
  <2>2. w[<<a, b>>] = IF op = "+" THEN Plus(w[<<a, m>>], w[<<m + 1, b>>])
                                  ELSE Minus(w[<<a, m>>], w[<<m + 1, b>>])
    <3>1. SumBy(t, env, w, a, m, b)
      BY <1>1, <1>4, <1>5, <2>1, SumWorth
    <3> QED BY <1>1, <3>1 DEF SumBy
  <2>3. Same(w[<<a, m>>], Worth(l, env)) /\ Same(w[<<m + 1, b>>], Worth(r, env))
    BY <1>1, <1>2, <1>3, <1>5, <1>11, <2>1 DEF Means
  <2>4. w[<<a, m>>] \in Fraction /\ w[<<m + 1, b>>] \in Fraction
    <3>1. WorthBy(t, env, w, a, m) /\ WorthBy(t, env, w, m + 1, b)
      BY <1>4, <2>1, WorthCases DEF Closed
    <3> QED BY <3>1 DEF WorthBy
  <2>5. PICK x \in Fraction, y \in Fraction, p \in Fraction, q \in Fraction, z \in Fraction :
           /\ x = w[<<a, m>>] /\ y = w[<<m + 1, b>>]
           /\ p = Worth(l, env) /\ q = Worth(r, env) /\ z = Worth(value, env)
    <3>1. Worth(l, env) \in Fraction /\ Worth(r, env) \in Fraction /\ Worth(value, env) \in Fraction
      BY WorthIs
    <3> QED BY <2>4, <3>1
  <2>6. CASE op = "+"
    <3>1. Same(Plus(x, y), Plus(p, q)) /\ Plus(x, y) \in Fraction /\ Plus(p, q) \in Fraction
      BY <2>3, <2>5, PlusSame, PlusIs
    <3>2. Same(z, Plus(p, q))
      <4>1. Same(Worth(CombineSum(l, r, op), env),
                 IF op = "+" THEN Plus(Worth(l, env), Worth(r, env))
                 ELSE Plus(Worth(l, env),
                           Four(Times(r.constant, Whole(-1)), Share(r, env, "p"),
                                Share(r, env, "c"), Share(r, env, "fixed"))))
        BY <2>6, SumsWorth
      <4> QED BY <1>6, <2>5, <2>6, <4>1
    <3>3. Same(Plus(p, q), z)
      BY <3>1, <3>2, SameSymmetric
    <3>4. Same(Plus(x, y), z)
      BY <3>1, <3>3, SameTransitive
    <3> QED BY <2>1, <2>2, <2>5, <2>6, <3>4
  <2>7. CASE op = "-"
    <3>1. Pure(r)
      <4>1. ASSUME NEW v \in Names, r.coefficients[v] # Nil PROVE FALSE
        <5>1. PICK i \in m + 1..b - 1 : t[i] = v
          BY <1>10, <4>1
        <5>2. i \in 1..Len(t) /\ m < i
          BY <1>1, <1>3
        <5> QED BY <1>1, <1>11, <2>7, <5>1, <5>2 DEF Subtracts
      <4> QED BY <4>1 DEF Pure
    <3>2. Same(Minus(x, y), Minus(p, q)) /\ Minus(x, y) \in Fraction /\ Minus(p, q) \in Fraction
      BY <2>3, <2>5, MinusSame, MinusIs
    <3>3. Same(z, Minus(p, q))
      <4>1. Same(Worth(CombineSum(l, r, "-"), env), Minus(Worth(l, env), Worth(r, env)))
        BY <3>1, DifferenceWorth
      <4> QED BY <1>6, <2>5, <2>7, <4>1
    <3>4. Same(Minus(p, q), z)
      BY <3>2, <3>3, SameSymmetric
    <3>5. Same(Minus(x, y), z)
      BY <3>2, <3>4, SameTransitive
    <3> QED BY <2>1, <2>2, <2>5, <2>7, <3>5
  <2> QED BY <2>6, <2>7
<1>12. ASSUME NEW v \in Names, value.coefficients[v] # Nil PROVE \E i \in a..b - 1 : t[i] = v
  <2>1. \A i \in a..m - 1 : i \in a..b - 1
    BY <1>4
  <2>2. \A i \in m + 1..b - 1 : i \in a..b - 1
    BY <1>4
  <2>3. (\E i \in a..m - 1 : t[i] = v) \/ (\E i \in m + 1..b - 1 : t[i] = v)
    BY <1>1, <1>2, <1>3, <1>7, <1>12 DEF Means
  <2> QED BY <2>1, <2>2, <2>3
<1>13. Means(t, a, s)
  BY <1>7, <1>8, <1>9, <1>11, <1>12 DEF Means
<1> QED BY <1>1, <1>3, <1>6, <1>8, <1>13

-----------------------------------------------------------------------------
(* Billing expressions: each procedure keeps what its calls promise.       *)

\* What a reader of the tokens returns is sound.
LEMMA ReadersSound ==
    ASSUME NEW t, NEW f \in Readers(t)
    PROVE  /\ \A pos \in 1..Len(t) + 1 : /\ SoundUnary(t, pos, f[<<"unary", pos>>])
                                         /\ SoundTerm(t, pos, f[<<"term", pos>>])
                                         /\ SoundExpression(t, pos, f[<<"expression", pos>>])
           /\ \A left \in Lefts(t) : /\ SoundProduct(t, left, f[<<"product", left>>])
                                     /\ SoundSum(t, left, f[<<"sum", left>>])
  BY DEF Readers

\* A value that was read, as what a procedure returns.
LEMMA ReadUnary ==
    ASSUME NEW t, NEW pos, NEW r, MeansUnary(t, pos, r) PROVE SoundUnary(t, pos, r)
  BY DEF MeansUnary, MeansTerm, Means, SoundUnary, Results
\* A unary failed, or it was read;
LEMMA SoundUnaryIs ==
    ASSUME NEW t, NEW pos, NEW r, SoundUnary(t, pos, r)
    PROVE  (r = Fails /\ ~r.ok) \/ (r.ok /\ MeansUnary(t, pos, r))
<1>1. r \in Results(t)
  BY DEF SoundUnary
<1> QED BY <1>1, ResultKinds DEF SoundUnary
\* so was a term,
LEMMA SoundTermIs ==
    ASSUME NEW t, NEW pos, NEW r, SoundTerm(t, pos, r)
    PROVE  (r = Fails /\ ~r.ok) \/ (r.ok /\ MeansTerm(t, pos, r))
<1>1. r \in Results(t)
  BY DEF SoundTerm
<1> QED BY <1>1, ResultKinds DEF SoundTerm
\* and so was an expression.
LEMMA SoundExpressionIs ==
    ASSUME NEW t, NEW pos, NEW r, SoundExpression(t, pos, r)
    PROVE  (r = Fails /\ ~r.ok) \/ (r.ok /\ Means(t, pos, r))
<1>1. r \in Results(t)
  BY DEF SoundExpression
<1> QED BY <1>1, ResultKinds DEF SoundExpression

\* parseAtom and parseFunctionCall.
LEMMA AtomSound ==
    ASSUME NEW t \in Seq(Token), NEW f \in Readers(t), NEW pos \in 1..Len(t) + 1
    PROVE  SoundUnary(t, pos, ParseAtom(t, pos, f))
<1>1. PICK r : r = ParseAtom(t, pos, f)
  OBVIOUS
<1>2. PICK token : token = Peek(t, pos)
  OBVIOUS
<1>3. "(" \notin DOMAIN Number \cup Names /\ \A n \in DOMAIN Number : n \notin Names
  BY DEF Number, Names, Variables
<1>4. CASE token \in DOMAIN Number
  <2>1. pos \in 1..Len(t) /\ token = t[pos]
    BY <1>2, <1>4, PeekFacts
  <2>2. r = Parsed(Constant(Number[token]), pos + 1)
    BY <1>1, <1>2, <1>3, <1>4 DEF ParseAtom
  <2> QED BY <1>1, <1>4, <2>1, <2>2, NumberMeans, ReadUnary
<1>5. CASE token \in Names /\ Peek(t, pos + 1) # "("
  <2>1. pos \in 1..Len(t) /\ token = t[pos]
    BY <1>2, <1>5, PeekFacts
  <2>2. r = Parsed(Variable(token), pos + 1)
    BY <1>1, <1>2, <1>3, <1>5 DEF ParseAtom
  <2> QED BY <1>1, <1>5, <2>1, <2>2, NameMeans, ReadUnary
<1>6. CASE token \in Names /\ Peek(t, pos + 1) = "("
  <2>1. r = ParseFunctionCall(t, pos)
    BY <1>1, <1>2, <1>3, <1>6 DEF ParseAtom
  <2>2. CASE t[pos] = "fixed" /\ Peek(t, pos + 2) \in DOMAIN Number /\ Peek(t, pos + 3) = ")"
    <3>1. pos + 1 \in Nat \ {0} /\ pos + 2 \in Nat \ {0} /\ pos + 3 \in Nat \ {0}
      OBVIOUS
    <3>2. pos \in 1..Len(t) /\ t[pos + 1] = "("
      <4>1. pos \in 1..Len(t)
        BY <1>2, <1>6, PeekFacts
      <4>2. Peek(t, pos + 1) = t[pos + 1]
        BY <1>6, <3>1, PeekFacts
      <4> QED BY <1>6, <4>1, <4>2
    <3>3. t[pos + 2] \in DOMAIN Number
      <4>1. Peek(t, pos + 2) = t[pos + 2]
        BY <2>2, <3>1, PeekFacts
      <4> QED BY <2>2, <4>1
    <3>4. pos + 3 \in 1..Len(t) /\ t[pos + 3] = ")"
      <4>1. pos + 3 \in 1..Len(t) /\ Peek(t, pos + 3) = t[pos + 3]
        BY <2>2, <3>1, PeekFacts
      <4> QED BY <2>2, <4>1
    <3>5. r = Parsed([Constant(0) EXCEPT !.fixed = Whole(Number[t[pos + 2]])], pos + 4)
      BY <2>1, <2>2 DEF ParseFunctionCall
    <3>6. MeansUnary(t, pos, Parsed([Constant(0) EXCEPT !.fixed = Whole(Number[t[pos + 2]])],
                                    pos + 4))
      BY <2>2, <3>2, <3>3, <3>4, FixedMeans
    <3> QED BY <1>1, <3>5, <3>6, ReadUnary
  <2>3. CASE ~(t[pos] = "fixed" /\ Peek(t, pos + 2) \in DOMAIN Number /\ Peek(t, pos + 3) = ")")
    <3>1. r = Fails
      BY <2>1, <2>3 DEF ParseFunctionCall
    <3> QED BY <1>1, <3>1, FailsIs
  <2> QED BY <2>2, <2>3
<1>7. CASE token = "("
  <2>1. pos \in 1..Len(t) /\ t[pos] = "("
    <3>1. Peek(t, pos) = "(" /\ pos \in Nat \ {0}
      BY <1>2, <1>7
    <3> QED BY <3>1, PeekFacts
  <2>2. PICK inner : inner = f[<<"expression", pos + 1>>]
    OBVIOUS
  <2>3. r = IF inner.ok /\ Peek(t, inner.pos) = ")"
            THEN Parsed(inner.value, inner.pos + 1) ELSE Fails
    BY <1>1, <1>2, <1>3, <1>7, <2>2 DEF ParseAtom
  <2>4. pos + 1 \in 1..Len(t) + 1
    BY <2>1
  <2>5. SoundExpression(t, pos + 1, inner)
    BY <2>2, <2>4, ReadersSound
  <2>6. CASE inner.ok /\ Peek(t, inner.pos) = ")"
    <3>1. Means(t, pos + 1, inner)
      BY <2>5, <2>6, SoundExpressionIs
    <3>2. inner.pos \in 1..Len(t) + 1
      BY <3>1, MeansFacts
    <3>3. inner.pos \in 1..Len(t) /\ t[inner.pos] = ")"
      <4>1. inner.pos \in Nat \ {0}
        BY <3>2
      <4> QED BY <2>6, <4>1, PeekFacts
    <3>4. MeansUnary(t, pos, r)
      BY <2>1, <2>3, <2>6, <3>1, <3>3, EnclosedMeans
    <3> QED BY <1>1, <3>4, ReadUnary
  <2>7. CASE ~(inner.ok /\ Peek(t, inner.pos) = ")")
    <3>1. r = Fails
      BY <2>3, <2>7
    <3> QED BY <1>1, <3>1, FailsIs
  <2> QED BY <2>6, <2>7
<1>8. CASE token \notin DOMAIN Number \cup Names \cup {"("}
  <2>1. r = Fails
    BY <1>1, <1>2, <1>8 DEF ParseAtom
  <2> QED BY <1>1, <2>1, FailsIs
<1> QED BY <1>4, <1>5, <1>6, <1>7, <1>8

\* parseUnary.
LEMMA UnarySound ==
    ASSUME NEW t \in Seq(Token), NEW f \in Readers(t), NEW pos \in 1..Len(t) + 1
    PROVE  SoundUnary(t, pos, ParseUnary(t, pos, f))
<1>1. PICK r : r = ParseUnary(t, pos, f)
  OBVIOUS
<1>2. CASE Peek(t, pos) \notin {"+", "-"}
  <2>1. r = ParseAtom(t, pos, f)
    BY <1>1, <1>2 DEF ParseUnary
  <2> QED BY <1>1, <2>1, AtomSound
<1>3. CASE Peek(t, pos) \in {"+", "-"}
  <2>1. pos \in 1..Len(t) /\ t[pos] \in {"+", "-"}
    BY <1>3, PeekFacts
  <2>2. PICK operand : operand = f[<<"unary", pos + 1>>]
    OBVIOUS
  <2>3. r = IF t[pos] = "+" \/ ~operand.ok THEN operand
            ELSE IF operand.value.fixed # Nil THEN Fails
            ELSE Parsed(ScaleLinear(operand.value, Whole(-1)), operand.pos)
    BY <1>1, <1>3, <2>2 DEF ParseUnary
  <2>4. pos + 1 \in 1..Len(t) + 1
    BY <2>1
  <2>5. SoundUnary(t, pos + 1, operand)
    BY <2>2, <2>4, ReadersSound
  <2>6. CASE ~operand.ok
    <3>1. r = Fails
      BY <2>3, <2>5, <2>6, SoundUnaryIs
    <3> QED BY <1>1, <3>1, FailsIs
  <2>7. CASE operand.ok
    <3>1. MeansUnary(t, pos + 1, operand)
      BY <2>5, <2>7, SoundUnaryIs
    <3>2. CASE t[pos] = "+"
      <4>1. MeansUnary(t, pos, operand)
        BY <2>1, <3>1, <3>2, SignedMeans
      <4>2. r = operand
        BY <2>3, <3>2
      <4> QED BY <1>1, <4>1, <4>2, ReadUnary
    <3>3. CASE t[pos] = "-" /\ operand.value.fixed = Nil
      <4>1. MeansUnary(t, pos, Parsed(ScaleLinear(operand.value, Whole(-1)), operand.pos))
        BY <2>1, <3>1, <3>3, SignedMeans
      <4>2. r = Parsed(ScaleLinear(operand.value, Whole(-1)), operand.pos)
        BY <2>3, <2>7, <3>3
      <4> QED BY <1>1, <4>1, <4>2, ReadUnary
    <3>4. CASE t[pos] = "-" /\ operand.value.fixed # Nil
      <4>1. r = Fails
        BY <2>3, <2>7, <3>4
      <4> QED BY <1>1, <4>1, FailsIs
    <3> QED BY <2>1, <3>2, <3>3, <3>4
  <2> QED BY <2>6, <2>7
<1> QED BY <1>2, <1>3

\* What the loop of parseTerm has on the left next.
NextProduct(t, left, f) ==
    LET right == f[<<"unary", left.pos + 1>>]
    IN  Parsed(CombineTerm(left.value, right.value, t[left.pos]), right.pos)
\* It is of the same value and further on.
LEMMA NextProductIs ==
    ASSUME NEW t \in Seq(Token), NEW f \in Readers(t), NEW left \in Lefts(t),
           Peek(t, left.pos) \in {"*", "/"}, f[<<"unary", left.pos + 1>>].ok,
           Linear(left.value, f[<<"unary", left.pos + 1>>].value, t[left.pos])
    PROVE  /\ NextProduct(t, left, f) \in Lefts(t) /\ NextProduct(t, left, f).pos > left.pos + 1
           /\ left.pos + 1 \in 1..Len(t) + 1
           /\ \A a : MeansTerm(t, a, left) => MeansTerm(t, a, NextProduct(t, left, f))
<1> DEFINE next == NextProduct(t, left, f)
<1>0. PICK right : /\ right = f[<<"unary", left.pos + 1>>]
                   /\ next = Parsed(CombineTerm(left.value, right.value, t[left.pos]), right.pos)
  BY DEF NextProduct
<1> HIDE DEF next
<1>1. left.value \in Values /\ left.pos \in 1..Len(t) + 1 /\ left.pos \in Nat \ {0}
  BY DEF Lefts
<1>2. left.pos \in 1..Len(t) /\ t[left.pos] \in {"*", "/"}
  BY <1>1, PeekFacts
<1>3. left.pos + 1 \in 1..Len(t) + 1
  BY <1>2
<1>4. MeansUnary(t, left.pos + 1, right)
  <2>1. SoundUnary(t, left.pos + 1, right)
    BY <1>0, <1>3, ReadersSound
  <2> QED BY <1>0, <2>1, SoundUnaryIs
<1>5. right.value \in Values /\ right.pos \in 1..Len(t) + 1 /\ left.pos + 1 < right.pos
  BY <1>4, MeansFacts DEF MeansUnary, MeansTerm
<1>6. CombineTerm(left.value, right.value, t[left.pos]) \in Values
  BY <1>0, <1>1, <1>2, <1>5, TermIs
<1>7. next \in Lefts(t) /\ next.pos = right.pos
  BY <1>0, <1>5, <1>6, ParsedIs
<1>8. ASSUME NEW a, MeansTerm(t, a, left) PROVE MeansTerm(t, a, next)
  BY <1>0, <1>2, <1>4, <1>8, ProductMeans
<1>9. next.pos > left.pos + 1
  BY <1>1, <1>5, <1>7
<1> QED BY <1>3, <1>7, <1>8, <1>9 DEF next

\* The loop of parseTerm.
LEMMA ProductSound ==
    ASSUME NEW t \in Seq(Token), NEW f \in Readers(t), NEW left \in Lefts(t)
    PROVE  SoundProduct(t, left, Product(t, left, f))
<1>1. PICK r : r = Product(t, left, f)
  OBVIOUS
<1>2. CASE Peek(t, left.pos) \notin {"*", "/"}
  <2>1. r = left
    BY <1>1, <1>2 DEF Product
  <2> QED BY <1>1, <2>1 DEF SoundProduct, Results
<1>3. CASE Peek(t, left.pos) \in {"*", "/"}
  <2>1. PICK right : right = f[<<"unary", left.pos + 1>>]
    OBVIOUS
  <2>2. CASE ~(right.ok /\ Linear(left.value, right.value, t[left.pos]))
    <3>1. r = Fails
      BY <1>1, <1>3, <2>1, <2>2 DEF Product
    <3> QED BY <1>1, <3>1, FailsIs
  <2>3. CASE right.ok /\ Linear(left.value, right.value, t[left.pos])
    <3>1. PICK next : next = NextProduct(t, left, f)
      OBVIOUS
    <3>2. next \in Lefts(t) /\ \A a : MeansTerm(t, a, left) => MeansTerm(t, a, next)
      BY <1>3, <2>1, <2>3, <3>1, NextProductIs
    <3>3. SoundProduct(t, next, f[<<"product", next>>])
      BY <3>2, ReadersSound
    <3>4. r = f[<<"product", next>>]
      BY <1>1, <1>3, <2>1, <2>3, <3>1 DEF Product, NextProduct
    <3> QED BY <1>1, <3>2, <3>3, <3>4 DEF SoundProduct
  <2> QED BY <2>2, <2>3
<1> QED BY <1>2, <1>3

\* parseTerm.
LEMMA TermSound ==
    ASSUME NEW t \in Seq(Token), NEW f \in Readers(t), NEW pos \in 1..Len(t) + 1
    PROVE  SoundTerm(t, pos, ParseTerm(pos, f))
<1>1. PICK first : first = f[<<"unary", pos>>]
  OBVIOUS
<1>2. SoundUnary(t, pos, first)
  BY <1>1, ReadersSound
<1>3. CASE ~first.ok
  <2>1. ParseTerm(pos, f) = Fails
    BY <1>1, <1>3 DEF ParseTerm
  <2> QED BY <2>1, FailsIs
<1>4. CASE first.ok
  <2>1. MeansTerm(t, pos, first)
    BY <1>2, <1>4, SoundUnaryIs DEF MeansUnary
  <2>2. first \in Lefts(t)
    BY <2>1, MeansFacts DEF MeansTerm
  <2>3. SoundProduct(t, first, f[<<"product", first>>])
    BY <2>2, ReadersSound
  <2>4. ParseTerm(pos, f) = f[<<"product", first>>]
    BY <1>1, <1>4 DEF ParseTerm
  <2> QED BY <2>1, <2>3, <2>4 DEF SoundProduct, SoundTerm
<1> QED BY <1>3, <1>4

\* What the loop of parseExpression has on the left next.
NextSum(t, left, f) ==
    LET right == f[<<"term", left.pos + 1>>]
    IN  Parsed(CombineSum(left.value, right.value, t[left.pos]), right.pos)
\* It is of the same value and further on.
LEMMA NextSumIs ==
    ASSUME NEW t \in Seq(Token), NEW f \in Readers(t), NEW left \in Lefts(t),
           Peek(t, left.pos) \in {"+", "-"}, f[<<"term", left.pos + 1>>].ok,
           left.value.fixed = Nil, f[<<"term", left.pos + 1>>].value.fixed = Nil
    PROVE  /\ NextSum(t, left, f) \in Lefts(t) /\ NextSum(t, left, f).pos > left.pos + 1
           /\ left.pos + 1 \in 1..Len(t) + 1
           /\ \A a : Means(t, a, left) => Means(t, a, NextSum(t, left, f))
<1> DEFINE next == NextSum(t, left, f)
<1>0. PICK right : /\ right = f[<<"term", left.pos + 1>>]
                   /\ next = Parsed(CombineSum(left.value, right.value, t[left.pos]), right.pos)
  BY DEF NextSum
<1> HIDE DEF next
<1>1. left.value \in Values /\ left.pos \in 1..Len(t) + 1 /\ left.pos \in Nat \ {0}
  BY DEF Lefts
<1>2. left.pos \in 1..Len(t) /\ t[left.pos] \in {"+", "-"}
  BY <1>1, PeekFacts
<1>3. left.pos + 1 \in 1..Len(t) + 1
  BY <1>2
<1>4. MeansTerm(t, left.pos + 1, right)
  <2>1. SoundTerm(t, left.pos + 1, right)
    BY <1>0, <1>3, ReadersSound
  <2> QED BY <1>0, <2>1, SoundTermIs
<1>5. right.value \in Values /\ right.pos \in 1..Len(t) + 1 /\ left.pos + 1 < right.pos
  BY <1>4, MeansFacts DEF MeansTerm
<1>6. CombineSum(left.value, right.value, t[left.pos]) \in Values
  BY <1>1, <1>5, CombineSumIs
<1>7. next \in Lefts(t) /\ next.pos = right.pos
  BY <1>0, <1>5, <1>6, ParsedIs
<1>8. ASSUME NEW a, Means(t, a, left) PROVE Means(t, a, next)
  BY <1>0, <1>2, <1>4, <1>8, SumMeans
<1>9. next.pos > left.pos + 1
  BY <1>1, <1>5, <1>7
<1> QED BY <1>3, <1>7, <1>8, <1>9 DEF next

\* The loop of parseExpression.
LEMMA SumSound ==
    ASSUME NEW t \in Seq(Token), NEW f \in Readers(t), NEW left \in Lefts(t)
    PROVE  SoundSum(t, left, Sum(t, left, f))
<1>1. PICK r : r = Sum(t, left, f)
  OBVIOUS
<1>2. CASE Peek(t, left.pos) \notin {"+", "-"}
  <2>1. r = left
    BY <1>1, <1>2 DEF Sum
  <2> QED BY <1>1, <2>1 DEF SoundSum, Results
<1>3. CASE Peek(t, left.pos) \in {"+", "-"}
  <2>1. PICK right : right = f[<<"term", left.pos + 1>>]
    OBVIOUS
  <2>2. CASE ~(right.ok /\ left.value.fixed = Nil /\ right.value.fixed = Nil)
    <3>1. r = Fails
      BY <1>1, <1>3, <2>1, <2>2 DEF Sum
    <3> QED BY <1>1, <3>1, FailsIs
  <2>3. CASE right.ok /\ left.value.fixed = Nil /\ right.value.fixed = Nil
    <3>1. PICK next : next = NextSum(t, left, f)
      OBVIOUS
    <3>2. next \in Lefts(t) /\ \A a : Means(t, a, left) => Means(t, a, next)
      BY <1>3, <2>1, <2>3, <3>1, NextSumIs
    <3>3. SoundSum(t, next, f[<<"sum", next>>])
      BY <3>2, ReadersSound
    <3>4. r = f[<<"sum", next>>]
      BY <1>1, <1>3, <2>1, <2>3, <3>1 DEF Sum, NextSum
    <3> QED BY <1>1, <3>2, <3>3, <3>4 DEF SoundSum
  <2> QED BY <2>2, <2>3
<1> QED BY <1>2, <1>3

\* parseExpression.
LEMMA ExpressionSound ==
    ASSUME NEW t \in Seq(Token), NEW f \in Readers(t), NEW pos \in 1..Len(t) + 1
    PROVE  SoundExpression(t, pos, ParseExpression(pos, f))
<1>1. PICK first : first = f[<<"term", pos>>]
  OBVIOUS
<1>2. SoundTerm(t, pos, first)
  BY <1>1, ReadersSound
<1>3. CASE ~first.ok
  <2>1. ParseExpression(pos, f) = Fails
    BY <1>1, <1>3 DEF ParseExpression
  <2> QED BY <2>1, FailsIs
<1>4. CASE first.ok
  <2>1. Means(t, pos, first)
    BY <1>2, <1>4, SoundTermIs DEF MeansTerm
  <2>2. first \in Lefts(t)
    BY <2>1, MeansFacts
  <2>3. SoundSum(t, first, f[<<"sum", first>>])
    BY <2>2, ReadersSound
  <2>4. ParseExpression(pos, f) = f[<<"sum", first>>]
    BY <1>1, <1>4 DEF ParseExpression
  <2> QED BY <2>1, <2>3, <2>4 DEF SoundSum, SoundExpression
<1> QED BY <1>3, <1>4

-----------------------------------------------------------------------------
(* Billing expressions: the calls end, and what the parser returns.        *)

\* What is left to read, and which procedures may call which at one position.
Remaining(t) ==
    [call \in Calls(t) |->
        CASE call[1] = "unary" -> 3 * (Len(t) + 1 - call[2])
          [] call[1] = "term" -> 3 * (Len(t) + 1 - call[2]) + 1
          [] call[1] = "expression" -> 3 * (Len(t) + 1 - call[2]) + 2
          [] OTHER -> 3 * (Len(t) + 1 - call[2].pos)]

\* What each call leaves.
LEMMA RemainingIs ==
    ASSUME NEW t
    PROVE  /\ \A pos \in 1..Len(t) + 1 :
                 /\ Remaining(t)[<<"unary", pos>>] = 3 * (Len(t) + 1 - pos)
                 /\ Remaining(t)[<<"term", pos>>] = 3 * (Len(t) + 1 - pos) + 1
                 /\ Remaining(t)[<<"expression", pos>>] = 3 * (Len(t) + 1 - pos) + 2
           /\ \A left \in Lefts(t) :
                 /\ Remaining(t)[<<"product", left>>] = 3 * (Len(t) + 1 - left.pos)
                 /\ Remaining(t)[<<"sum", left>>] = 3 * (Len(t) + 1 - left.pos)
  BY CallFacts DEF Remaining

\* The measure is bounded by the length.
LEMMA RemainingType ==
    ASSUME NEW t \in Seq(Token) PROVE Remaining(t) \in [Calls(t) -> 0..3 * Len(t) + 2]
<1>1. ASSUME NEW call \in Calls(t) PROVE Remaining(t)[call] \in 0..3 * Len(t) + 2
  <2>1. ASSUME NEW pos \in 1..Len(t) + 1, NEW d \in 0..2
        PROVE  /\ 3 * (Len(t) + 1 - pos) + d \in 0..3 * Len(t) + 2
               /\ 3 * (Len(t) + 1 - pos) \in 0..3 * Len(t) + 2
    OBVIOUS
  <2>2. ASSUME NEW left \in Lefts(t) PROVE left.pos \in 1..Len(t) + 1
    BY DEF Lefts
  <2>3. ASSUME NEW pos \in 1..Len(t) + 1,
               call \in {<<"unary", pos>>, <<"term", pos>>, <<"expression", pos>>}
        PROVE  Remaining(t)[call] \in 0..3 * Len(t) + 2
    <3>1. CASE call = <<"unary", pos>>
      <4>1. Remaining(t)[call] = 3 * (Len(t) + 1 - pos)
        BY <3>1, RemainingIs
      <4> QED BY <2>1, <4>1
    <3>2. CASE call = <<"term", pos>>
      <4>1. Remaining(t)[call] = 3 * (Len(t) + 1 - pos) + 1
        BY <3>2, RemainingIs
      <4>2. 1 \in 0..2
        OBVIOUS
      <4> QED BY <2>1, <4>1, <4>2
    <3>3. CASE call = <<"expression", pos>>
      <4>1. Remaining(t)[call] = 3 * (Len(t) + 1 - pos) + 2
        BY <3>3, RemainingIs
      <4>2. 2 \in 0..2
        OBVIOUS
      <4> QED BY <2>1, <4>1, <4>2
    <3> QED BY <2>3, <3>1, <3>2, <3>3
  <2>4. ASSUME NEW left \in Lefts(t), call \in {<<"product", left>>, <<"sum", left>>}
        PROVE  Remaining(t)[call] \in 0..3 * Len(t) + 2
    <3>1. Remaining(t)[call] = 3 * (Len(t) + 1 - left.pos)
      BY <2>4, RemainingIs, ZenonT(30)
    <3> QED BY <2>1, <2>2, <3>1
  <2> QED BY <2>3, <2>4, CallKinds
<1>2. Remaining(t) = [call \in Calls(t) |-> Remaining(t)[call]]
  BY DEF Remaining
<1> QED BY <1>1, <1>2

\* Each call runs its procedure.
LEMMA PerformIs ==
    ASSUME NEW t, NEW f
    PROVE  /\ \A pos : /\ Perform(t, <<"unary", pos>>, f) = ParseUnary(t, pos, f)
                       /\ Perform(t, <<"term", pos>>, f) = ParseTerm(pos, f)
                       /\ Perform(t, <<"expression", pos>>, f) = ParseExpression(pos, f)
           /\ \A left : /\ Perform(t, <<"product", left>>, f) = Product(t, left, f)
                        /\ Perform(t, <<"sum", left>>, f) = Sum(t, left, f)
  BY DEF Perform

\* What one turn of all calls makes of what they return.
Turn(t, f) == [call \in Calls(t) |-> Perform(t, call, f)]

\* A turn runs them all,
LEMMA TurnIs ==
    ASSUME NEW t, NEW f
    PROVE  /\ \A pos \in 1..Len(t) + 1 :
                 /\ Turn(t, f)[<<"unary", pos>>] = ParseUnary(t, pos, f)
                 /\ Turn(t, f)[<<"term", pos>>] = ParseTerm(pos, f)
                 /\ Turn(t, f)[<<"expression", pos>>] = ParseExpression(pos, f)
           /\ \A left \in Lefts(t) : /\ Turn(t, f)[<<"product", left>>] = Product(t, left, f)
                                     /\ Turn(t, f)[<<"sum", left>>] = Sum(t, left, f)
  BY CallFacts, PerformIs DEF Turn

\* and what they return stays sound.
LEMMA TurnReads ==
    ASSUME NEW t \in Seq(Token), NEW f \in Readers(t) PROVE Turn(t, f) \in Readers(t)
<1>1. PICK g : g = Turn(t, f)
  OBVIOUS
<1>2. ASSUME NEW pos \in 1..Len(t) + 1
      PROVE  /\ SoundUnary(t, pos, g[<<"unary", pos>>]) /\ SoundTerm(t, pos, g[<<"term", pos>>])
             /\ SoundExpression(t, pos, g[<<"expression", pos>>])
  <2>1. /\ SoundUnary(t, pos, ParseUnary(t, pos, f)) /\ SoundTerm(t, pos, ParseTerm(pos, f))
        /\ SoundExpression(t, pos, ParseExpression(pos, f))
    BY UnarySound, TermSound, ExpressionSound
  <2>2. /\ g[<<"unary", pos>>] = ParseUnary(t, pos, f) /\ g[<<"term", pos>>] = ParseTerm(pos, f)
        /\ g[<<"expression", pos>>] = ParseExpression(pos, f)
    BY <1>1, TurnIs
  <2> QED BY <2>1, <2>2
<1>3. ASSUME NEW left \in Lefts(t)
      PROVE  /\ /\ SoundProduct(t, left, g[<<"product", left>>])
             /\ SoundSum(t, left, g[<<"sum", left>>])
  <2>1. SoundProduct(t, left, Product(t, left, f)) /\ SoundSum(t, left, Sum(t, left, f))
    BY ProductSound, SumSound
  <2>2. g[<<"product", left>>] = Product(t, left, f) /\ g[<<"sum", left>>] = Sum(t, left, f)
    BY <1>1, TurnIs
  <2> QED BY <2>1, <2>2
<1>4. \A call \in Calls(t) : g[call] \in Results(t)
  <2> TAKE call \in Calls(t)
  <2>1. CASE \E pos \in 1..Len(t) + 1 :
                 call \in {<<"unary", pos>>, <<"term", pos>>, <<"expression", pos>>}
    BY <1>2, <2>1 DEF SoundUnary, SoundTerm, SoundExpression
  <2>2. CASE \E left \in Lefts(t) : call \in {<<"product", left>>, <<"sum", left>>}
    BY <1>3, <2>2 DEF SoundProduct, SoundSum
  <2> QED BY <2>1, <2>2, CallKinds
<1>5. g \in [Calls(t) -> Results(t)]
  BY <1>1, <1>4 DEF Turn
<1>6. g \in Readers(t)
  BY <1>2, <1>3, <1>5 DEF Readers
<1> QED BY <1>1, <1>6

\* A procedure sees of what the calls return only what decreases the measure.
LEMMA TurnAgrees ==
    ASSUME NEW t \in Seq(Token), NEW f, NEW g \in Readers(t), NEW call \in Calls(t),
           AgreeBelow(f, g, Calls(t), Remaining(t), Remaining(t)[call])
    PROVE  Turn(t, f)[call] = Turn(t, g)[call]
<1>1. \A other \in Calls(t) : Remaining(t)[other] < Remaining(t)[call] => f[other] = g[other]
  BY DEF AgreeBelow
<1>2. ASSUME NEW pos \in 1..Len(t) + 1, call = <<"unary", pos>>
      PROVE  Turn(t, f)[call] = Turn(t, g)[call]
  <2>a. /\ Turn(t, f)[call] = ParseUnary(t, pos, f)
        /\ Turn(t, g)[call] = ParseUnary(t, pos, g)
    <3>1. Turn(t, f)[call] = ParseUnary(t, pos, f)
      BY <1>2, TurnIs
    <3>2. Turn(t, g)[call] = ParseUnary(t, pos, g)
      BY <1>2, TurnIs
    <3> QED BY <3>1, <3>2
  <2>1. ASSUME Peek(t, pos) \in {"+", "-", "("}
        PROVE  /\ f[<<"unary", pos + 1>>] = g[<<"unary", pos + 1>>]
               /\ f[<<"expression", pos + 1>>] = g[<<"expression", pos + 1>>]
    <3>1. pos + 1 \in 1..Len(t) + 1
      <4>1. pos \in Nat \ {0}
        OBVIOUS
      <4>2. pos \in 1..Len(t)
        BY <2>1, <4>1, PeekFacts
      <4> QED BY <4>2
    <3>2. <<"unary", pos + 1>> \in Calls(t) /\ <<"expression", pos + 1>> \in Calls(t)
      BY <3>1, CallFacts
    <3>3. /\ Remaining(t)[call] = 3 * (Len(t) + 1 - pos)
          /\ Remaining(t)[<<"unary", pos + 1>>] = 3 * (Len(t) + 1 - (pos + 1))
          /\ Remaining(t)[<<"expression", pos + 1>>] = 3 * (Len(t) + 1 - (pos + 1)) + 2
      BY <1>2, <3>1, RemainingIs
    <3>4. /\ Remaining(t)[<<"unary", pos + 1>>] < Remaining(t)[call]
          /\ Remaining(t)[<<"expression", pos + 1>>] < Remaining(t)[call]
      BY <3>3
    <3> QED BY <1>1, <3>2, <3>4
  <2>2. ParseAtom(t, pos, f) = ParseAtom(t, pos, g)
    <3>1. CASE Peek(t, pos) = "("
      BY <2>1, <3>1 DEF ParseAtom
    <3>2. CASE Peek(t, pos) # "("
      BY <3>2 DEF ParseAtom
    <3> QED BY <3>1, <3>2
  <2>3. ParseUnary(t, pos, f) = ParseUnary(t, pos, g)
    <3>1. CASE Peek(t, pos) \in {"+", "-"}
      BY <2>1, <3>1 DEF ParseUnary
    <3>2. CASE Peek(t, pos) \notin {"+", "-"}
      BY <2>2, <3>2 DEF ParseUnary
    <3> QED BY <3>1, <3>2
  <2> QED BY <2>a, <2>3
<1>3. ASSUME NEW pos \in 1..Len(t) + 1, call = <<"term", pos>>
      PROVE  Turn(t, f)[call] = Turn(t, g)[call]
  <2>a. /\ Turn(t, f)[call] = ParseTerm(pos, f)
        /\ Turn(t, g)[call] = ParseTerm(pos, g)
    <3>1. Turn(t, f)[call] = ParseTerm(pos, f)
      BY <1>3, TurnIs
    <3>2. Turn(t, g)[call] = ParseTerm(pos, g)
      BY <1>3, TurnIs
    <3> QED BY <3>1, <3>2
  <2>1. PICK first : first = g[<<"unary", pos>>]
    OBVIOUS
  <2>2. f[<<"unary", pos>>] = first
    <3>1. /\ Remaining(t)[call] = 3 * (Len(t) + 1 - pos) + 1
          /\ Remaining(t)[<<"unary", pos>>] = 3 * (Len(t) + 1 - pos)
      BY <1>3, RemainingIs
    <3>2. Remaining(t)[<<"unary", pos>>] < Remaining(t)[call] /\ <<"unary", pos>> \in Calls(t)
      <4>1. Remaining(t)[<<"unary", pos>>] < Remaining(t)[call]
        BY <3>1
      <4>2. <<"unary", pos>> \in Calls(t)
        BY <3>1, CallFacts
      <4> QED BY <4>1, <4>2
    <3> QED BY <1>1, <2>1, <3>2
  <2>3. CASE first.ok
    <3>1. Means(t, pos, first)
      <4>1. SoundUnary(t, pos, first)
        BY <2>1, ReadersSound
      <4> QED BY <2>3, <4>1, SoundUnaryIs DEF MeansUnary, MeansTerm
    <3>2. first \in Lefts(t) /\ first.pos \in 1..Len(t) + 1 /\ pos < first.pos
      BY <3>1, MeansFacts
    <3>3. /\ Remaining(t)[call] = 3 * (Len(t) + 1 - pos) + 1
          /\ Remaining(t)[<<"product", first>>] = 3 * (Len(t) + 1 - first.pos)
      BY <1>3, <3>2, RemainingIs
    <3>4. /\ Remaining(t)[<<"product", first>>] < Remaining(t)[call]
          /\ <<"product", first>> \in Calls(t)
      <4>1. Remaining(t)[<<"product", first>>] < Remaining(t)[call]
        BY <3>2, <3>3
      <4>2. <<"product", first>> \in Calls(t)
        BY <3>2, <3>3, CallFacts
      <4> QED BY <4>1, <4>2
    <3>5. f[<<"product", first>>] = g[<<"product", first>>]
      BY <1>1, <3>4
    <3>6. ParseTerm(pos, f) = ParseTerm(pos, g)
      BY <2>1, <2>2, <2>3, <3>5 DEF ParseTerm
    <3> QED BY <2>a, <3>6
  <2>4. CASE ~first.ok
    <3>1. ParseTerm(pos, f) = ParseTerm(pos, g)
      BY <2>1, <2>2, <2>4 DEF ParseTerm
    <3> QED BY <2>a, <3>1
  <2> QED BY <2>3, <2>4
<1>4. ASSUME NEW pos \in 1..Len(t) + 1, call = <<"expression", pos>>
      PROVE  Turn(t, f)[call] = Turn(t, g)[call]
  <2>a. /\ Turn(t, f)[call] = ParseExpression(pos, f)
        /\ Turn(t, g)[call] = ParseExpression(pos, g)
    <3>1. Turn(t, f)[call] = ParseExpression(pos, f)
      BY <1>4, TurnIs
    <3>2. Turn(t, g)[call] = ParseExpression(pos, g)
      BY <1>4, TurnIs
    <3> QED BY <3>1, <3>2
  <2>1. PICK first : first = g[<<"term", pos>>]
    OBVIOUS
  <2>2. f[<<"term", pos>>] = first
    <3>1. /\ Remaining(t)[call] = 3 * (Len(t) + 1 - pos) + 2
          /\ Remaining(t)[<<"term", pos>>] = 3 * (Len(t) + 1 - pos) + 1
      BY <1>4, RemainingIs
    <3>2. Remaining(t)[<<"term", pos>>] < Remaining(t)[call] /\ <<"term", pos>> \in Calls(t)
      <4>1. Remaining(t)[<<"term", pos>>] < Remaining(t)[call]
        BY <3>1
      <4>2. <<"term", pos>> \in Calls(t)
        BY <3>1, CallFacts
      <4> QED BY <4>1, <4>2
    <3> QED BY <1>1, <2>1, <3>2
  <2>3. CASE first.ok
    <3>1. Means(t, pos, first)
      <4>1. SoundTerm(t, pos, first)
        BY <2>1, ReadersSound
      <4> QED BY <2>3, <4>1, SoundTermIs DEF MeansTerm
    <3>2. first \in Lefts(t) /\ first.pos \in 1..Len(t) + 1 /\ pos < first.pos
      BY <3>1, MeansFacts
    <3>3. /\ Remaining(t)[call] = 3 * (Len(t) + 1 - pos) + 2
          /\ Remaining(t)[<<"sum", first>>] = 3 * (Len(t) + 1 - first.pos)
      BY <1>4, <3>2, RemainingIs
    <3>4. Remaining(t)[<<"sum", first>>] < Remaining(t)[call] /\ <<"sum", first>> \in Calls(t)
      <4>1. Remaining(t)[<<"sum", first>>] < Remaining(t)[call]
        BY <3>2, <3>3
      <4>2. <<"sum", first>> \in Calls(t)
        BY <3>2, <3>3, CallFacts
      <4> QED BY <4>1, <4>2
    <3>5. f[<<"sum", first>>] = g[<<"sum", first>>]
      BY <1>1, <3>4
    <3>6. ParseExpression(pos, f) = ParseExpression(pos, g)
      BY <2>1, <2>2, <2>3, <3>5 DEF ParseExpression
    <3> QED BY <2>a, <3>6
  <2>4. CASE ~first.ok
    <3>1. ParseExpression(pos, f) = ParseExpression(pos, g)
      BY <2>1, <2>2, <2>4 DEF ParseExpression
    <3> QED BY <2>a, <3>1
  <2> QED BY <2>3, <2>4
<1>5. ASSUME NEW left \in Lefts(t), call = <<"product", left>>
      PROVE  Turn(t, f)[call] = Turn(t, g)[call]
  <2>a. /\ Turn(t, f)[call] = Product(t, left, f)
        /\ Turn(t, g)[call] = Product(t, left, g)
    <3>1. Turn(t, f)[call] = Product(t, left, f)
      BY <1>5, TurnIs
    <3>2. Turn(t, g)[call] = Product(t, left, g)
      BY <1>5, TurnIs
    <3> QED BY <3>1, <3>2
  <2>0. left.pos \in 1..Len(t) + 1 /\ left.pos \in Nat \ {0}
    BY DEF Lefts
  <2>1. CASE Peek(t, left.pos) \notin {"*", "/"}
    <3>1. Product(t, left, f) = Product(t, left, g)
      BY <2>1 DEF Product
    <3> QED BY <2>a, <3>1
  <2>2. CASE Peek(t, left.pos) \in {"*", "/"}
    <3>1. left.pos \in 1..Len(t)
      BY <2>0, <2>2, PeekFacts
    <3>2. left.pos + 1 \in 1..Len(t) + 1
      BY <3>1
    <3>3. PICK right : right = g[<<"unary", left.pos + 1>>]
      OBVIOUS
    <3>4. f[<<"unary", left.pos + 1>>] = right
      <4>1. /\ Remaining(t)[call] = 3 * (Len(t) + 1 - left.pos)
            /\ Remaining(t)[<<"unary", left.pos + 1>>] = 3 * (Len(t) + 1 - (left.pos + 1))
        BY <1>5, <3>2, RemainingIs
      <4>2. /\ Remaining(t)[<<"unary", left.pos + 1>>] < Remaining(t)[call]
            /\ <<"unary", left.pos + 1>> \in Calls(t)
        <5>1. Remaining(t)[<<"unary", left.pos + 1>>] < Remaining(t)[call]
          BY <2>0, <3>2, <4>1
        <5>2. <<"unary", left.pos + 1>> \in Calls(t)
          BY <2>0, <3>2, <4>1, CallFacts
        <5> QED BY <5>1, <5>2
      <4> QED BY <1>1, <3>3, <4>2
    <3>5. CASE right.ok /\ Linear(left.value, right.value, t[left.pos])
      <4>1. PICK next : next = NextProduct(t, left, g)
        OBVIOUS
      <4>2. next \in Lefts(t) /\ next.pos > left.pos + 1
        BY <2>2, <3>3, <3>5, <4>1, NextProductIs
      <4>3. next = Parsed(CombineTerm(left.value, right.value, t[left.pos]), right.pos)
        BY <3>3, <4>1 DEF NextProduct
      <4>4. /\ Remaining(t)[call] = 3 * (Len(t) + 1 - left.pos)
            /\ Remaining(t)[<<"product", next>>] = 3 * (Len(t) + 1 - next.pos)
        BY <1>5, <4>2, RemainingIs
      <4>5. next.pos \in 1..Len(t) + 1
        BY <4>2 DEF Lefts
      <4>6. /\ Remaining(t)[<<"product", next>>] < Remaining(t)[call]
            /\ <<"product", next>> \in Calls(t)
        <5>1. Remaining(t)[<<"product", next>>] < Remaining(t)[call]
          BY <2>0, <4>2, <4>4, <4>5
        <5>2. <<"product", next>> \in Calls(t)
          BY <2>0, <4>2, <4>4, <4>5, CallFacts
        <5> QED BY <5>1, <5>2
      <4>7. f[<<"product", next>>] = g[<<"product", next>>]
        BY <1>1, <4>6
      <4>8. Product(t, left, f) = f[<<"product", next>>]
        BY <2>2, <3>4, <3>5, <4>3 DEF Product
      <4>9. Product(t, left, g) = g[<<"product", next>>]
        BY <2>2, <3>3, <3>5, <4>3 DEF Product
      <4> QED BY <2>a, <4>7, <4>8, <4>9
    <3>6. CASE ~(right.ok /\ Linear(left.value, right.value, t[left.pos]))
      <4>1. Product(t, left, f) = Fails
        BY <2>2, <3>4, <3>6 DEF Product
      <4>2. Product(t, left, g) = Fails
        BY <2>2, <3>3, <3>6 DEF Product
      <4> QED BY <2>a, <4>1, <4>2
    <3> QED BY <3>5, <3>6
  <2> QED BY <2>1, <2>2
<1>6. ASSUME NEW left \in Lefts(t), call = <<"sum", left>> PROVE Turn(t, f)[call] = Turn(t, g)[call]
  <2>a. /\ Turn(t, f)[call] = Sum(t, left, f)
        /\ Turn(t, g)[call] = Sum(t, left, g)
    <3>1. Turn(t, f)[call] = Sum(t, left, f)
      BY <1>6, TurnIs
    <3>2. Turn(t, g)[call] = Sum(t, left, g)
      BY <1>6, TurnIs
    <3> QED BY <3>1, <3>2
  <2>0. left.pos \in 1..Len(t) + 1 /\ left.pos \in Nat \ {0}
    BY DEF Lefts
  <2>1. CASE Peek(t, left.pos) \notin {"+", "-"}
    <3>1. Sum(t, left, f) = Sum(t, left, g)
      BY <2>1 DEF Sum
    <3> QED BY <2>a, <3>1
  <2>2. CASE Peek(t, left.pos) \in {"+", "-"}
    <3>1. left.pos \in 1..Len(t)
      BY <2>0, <2>2, PeekFacts
    <3>2. left.pos + 1 \in 1..Len(t) + 1
      BY <3>1
    <3>3. PICK right : right = g[<<"term", left.pos + 1>>]
      OBVIOUS
    <3>4. f[<<"term", left.pos + 1>>] = right
      <4>1. /\ Remaining(t)[call] = 3 * (Len(t) + 1 - left.pos)
            /\ Remaining(t)[<<"term", left.pos + 1>>] = 3 * (Len(t) + 1 - (left.pos + 1)) + 1
        BY <1>6, <3>2, RemainingIs
      <4>2. /\ Remaining(t)[<<"term", left.pos + 1>>] < Remaining(t)[call]
            /\ <<"term", left.pos + 1>> \in Calls(t)
        <5>1. Remaining(t)[<<"term", left.pos + 1>>] < Remaining(t)[call]
          BY <2>0, <3>2, <4>1, SMTT(30)
        <5>2. <<"term", left.pos + 1>> \in Calls(t)
          BY <2>0, <3>2, <4>1, CallFacts
        <5> QED BY <5>1, <5>2
      <4> QED BY <1>1, <3>3, <4>2
    <3>5. CASE right.ok /\ left.value.fixed = Nil /\ right.value.fixed = Nil
      <4>1. PICK next : next = NextSum(t, left, g)
        OBVIOUS
      <4>2. next \in Lefts(t) /\ next.pos > left.pos + 1
        BY <2>2, <3>3, <3>5, <4>1, NextSumIs
      <4>3. next = Parsed(CombineSum(left.value, right.value, t[left.pos]), right.pos)
        BY <3>3, <4>1 DEF NextSum
      <4>4. /\ Remaining(t)[call] = 3 * (Len(t) + 1 - left.pos)
            /\ Remaining(t)[<<"sum", next>>] = 3 * (Len(t) + 1 - next.pos)
        BY <1>6, <4>2, RemainingIs
      <4>5. next.pos \in 1..Len(t) + 1
        BY <4>2 DEF Lefts
      <4>6. Remaining(t)[<<"sum", next>>] < Remaining(t)[call] /\ <<"sum", next>> \in Calls(t)
        <5>1. Remaining(t)[<<"sum", next>>] < Remaining(t)[call]
          BY <2>0, <4>2, <4>4, <4>5
        <5>2. <<"sum", next>> \in Calls(t)
          BY <2>0, <4>2, <4>4, <4>5, CallFacts
        <5> QED BY <5>1, <5>2
      <4>7. f[<<"sum", next>>] = g[<<"sum", next>>]
        BY <1>1, <4>6
      <4>8. Sum(t, left, f) = f[<<"sum", next>>]
        BY <2>2, <3>4, <3>5, <4>3 DEF Sum
      <4>9. Sum(t, left, g) = g[<<"sum", next>>]
        BY <2>2, <3>3, <3>5, <4>3 DEF Sum
      <4> QED BY <2>a, <4>7, <4>8, <4>9
    <3>6. CASE ~(right.ok /\ left.value.fixed = Nil /\ right.value.fixed = Nil)
      <4>1. Sum(t, left, f) = Fails
        BY <2>2, <3>4, <3>6 DEF Sum
      <4>2. Sum(t, left, g) = Fails
        BY <2>2, <3>3, <3>6 DEF Sum
      <4> QED BY <2>a, <4>1, <4>2
    <3> QED BY <3>5, <3>6
  <2> QED BY <2>1, <2>2
<1> QED BY <1>2, <1>3, <1>4, <1>5, <1>6, CallKinds

\* What each call returns.
Returned(t) == CHOOSE f : f = Turn(t, f)

\* That every call fails is sound.
LEMMA NothingRead ==
    ASSUME NEW t PROVE [call \in Calls(t) |-> Fails] \in Readers(t)
<1>1. PICK f : f = [call \in Calls(t) |-> Fails]
  OBVIOUS
<1>2. f \in [Calls(t) -> Results(t)]
  BY <1>1 DEF Results
<1>3. ASSUME NEW pos \in 1..Len(t) + 1
      PROVE  /\ SoundUnary(t, pos, f[<<"unary", pos>>]) /\ SoundTerm(t, pos, f[<<"term", pos>>])
             /\ SoundExpression(t, pos, f[<<"expression", pos>>])
  <2>1. /\ f[<<"unary", pos>>] = Fails
        /\ f[<<"term", pos>>] = Fails
        /\ f[<<"expression", pos>>] = Fails
    BY <1>1, CallFacts
  <2> QED BY <2>1, FailsIs
<1>4. ASSUME NEW left \in Lefts(t)
      PROVE  SoundProduct(t, left, f[<<"product", left>>]) /\ SoundSum(t, left, f[<<"sum", left>>])
  <2>1. f[<<"product", left>>] = Fails /\ f[<<"sum", left>>] = Fails
    BY <1>1, CallFacts
  <2> QED BY <2>1, FailsIs
<1>5. f \in Readers(t)
  BY <1>2, <1>3, <1>4 DEF Readers
<1> QED BY <1>1, <1>5

\* The calls end, and what they return is sound.
LEMMA ReturnedReads == ASSUME NEW t \in Seq(Token) PROVE Returned(t) \in Readers(t)
<1> DEFINE S == Calls(t)
           F == Readers(t)
           N == 3 * Len(t) + 2
           measure == Remaining(t)
           start == [call \in S |-> Fails]
           step == [f \in F |-> Turn(t, f)]
<1>1. N \in Nat /\ measure \in [S -> 0..N]
  BY RemainingType
<1>2. start \in F
  BY NothingRead
<1>3. step \in [F -> F]
  BY TurnReads
<1>4. \A f \in F : f = [call \in S |-> f[call]]
  BY DEF Readers
<1>5. \A f : \A g \in F, call \in S :
         AgreeBelow(f, g, S, measure, measure[call]) => Turn(t, f)[call] = Turn(t, g)[call]
  BY TurnAgrees
<1>6. \A f \in F, g \in F, call \in S :
         AgreeBelow(f, g, S, measure, measure[call]) => step[f][call] = step[g][call]
  BY <1>5
<1>7. PICK g \in F : step[g] = g
  <2> HIDE DEF S, F, N, step, start, measure
  <2>1. HasFixpoint(S, N, measure, F, start, step)
    BY <1>1, <1>2, <1>3, <1>4, <1>6, FixpointExists
  <2> QED BY <2>1 DEF HasFixpoint
<1>8. g = Turn(t, g)
  BY <1>7
<1> HIDE DEF step, start
<1>9. PICK f : f = Returned(t)
  OBVIOUS
<1>10. f = Turn(t, f)
  BY <1>8, <1>9 DEF Returned
<1>11. f = g
  <2>1. f = [call \in S |-> f[call]] /\ g = [call \in S |-> g[call]]
    <3>1. Turn(t, f) = [call \in S |-> Turn(t, f)[call]]
      BY DEF Turn
    <3> QED BY <1>4, <1>10, <3>1
  <2>2. \A call \in S : AgreeBelow(f, g, S, measure, measure[call]) => f[call] = g[call]
    BY <1>5, <1>8, <1>10
  <2>3. AgreeUpto(f, g, S, measure, N)
    <3> HIDE DEF S, F, N, measure
    <3> QED BY <1>1, <2>1, <2>2, FixpointUnique
  <2>4. \A call \in S : measure[call] <= N
    <3> HIDE DEF S, N, measure
    <3> QED BY <1>1
  <2>5. \A call \in S : f[call] = g[call]
    BY <2>3, <2>4 DEF AgreeUpto
  <2> QED BY <2>1, <2>5
<1> QED BY <1>9, <1>11

\* What the parser accepts, it has read to its end.
LEMMA AcceptedMeans ==
    ASSUME NEW t \in Seq(Token), NEW r, r = ParseLinearExpression(t)
    PROVE  (r = Fails /\ ~r.ok) \/ (r.ok /\ Means(t, 1, r) /\ r.pos = Len(t) + 1)
<1>1. PICK all : all = Returned(t)[<<"expression", 1>>]
  OBVIOUS
<1>2. SoundExpression(t, 1, all)
  <2>1. 1 \in 1..Len(t) + 1
    OBVIOUS
  <2> QED BY <1>1, <2>1, ReturnedReads, ReadersSound
<1>3. r = IF all.ok /\ all.pos = Len(t) + 1 THEN all ELSE Fails
  BY <1>1 DEF ParseLinearExpression, Returned, Turn
<1>4. ~Fails.ok
  BY DEF Fails
<1> QED BY <1>2, <1>3, <1>4, SoundExpressionIs

\* The parser reduces what it accepts without a call of fixed, and without a
\* term with a variable subtracted, to values that are worth, for any number of
\* tokens, what the expression evaluates to (parseLinearExpression).
THEOREM AcceptedIsExact ==
    ASSUME NEW t \in Seq(Token), NEW env \in [Names -> Fraction], NEW parse,
           parse = ParseLinearExpression(t), parse.ok, parse.value.fixed = Nil, ~Subtracts(t)
    PROVE  Same(Value(t, env), Worth(parse.value, env))
<1>1. Means(t, 1, parse) /\ parse.pos = Len(t) + 1
  BY AcceptedMeans
<1>2. Same(WorthOf(t, env)[<<1, Len(t) + 1>>], Worth(parse.value, env))
  BY <1>1 DEF Means
<1>3. Value(t, env) = WorthOf(t, env)[<<1, Len(t) + 1>>]
  BY WorthOfFacts
<1> QED BY <1>2, <1>3

\* A value without a constant is worth what its coefficients ask for.
LEMMA AskedIs ==
    ASSUME NEW value \in Values, value.constant[1] = 0, NEW env \in [Names -> Fraction]
    PROVE  /\ Asked(value.coefficients, env) \in Fraction
           /\ Same(Worth(value, env), Asked(value.coefficients, env))
<1>1. PICK asked : asked = [Constant(0) EXCEPT !.coefficients = value.coefficients]
  OBVIOUS
<1>2. asked = [constant |-> Whole(0), coefficients |-> value.coefficients, fixed |-> Nil]
  BY <1>1 DEF Constant
<1>3. Whole(0) \in Fraction /\ Whole(0)[1] = 0 /\ value.constant \in Fraction
  BY WholeIs, ValueParts DEF Whole
<1>4. asked \in Values /\ asked.constant = Whole(0) /\ asked.coefficients = value.coefficients
  BY <1>2, <1>3 DEF Values
<1>5. ASSUME NEW v \in Names PROVE Share(asked, env, v) = Share(value, env, v)
  BY <1>4 DEF Share, Coefficient
<1>6. PICK share \in [Names -> Fraction] : share = [v \in Names |-> Share(value, env, v)]
  BY WorthIs
<1>7. \A v \in Names : Same(Share(value, env, v), share[v])
  BY <1>6, SameReflexive
<1>8. Same(value.constant, Whole(0))
  <2>1. value.constant[2] \in Int /\ Whole(0)[2] \in Int
    BY <1>3, Parts
  <2> QED BY <1>3, <2>1 DEF Same
<1>9. Same(Worth(value, env), Four(Whole(0), share["p"], share["c"], share["fixed"]))
  BY <1>3, <1>7, <1>8, WorthSame
<1>10. /\ Worth(asked, env) = Four(Whole(0), share["p"], share["c"], share["fixed"])
       /\ Worth(asked, env) \in Fraction
  <2>1. "p" \in Names /\ "c" \in Names /\ "fixed" \in Names
    BY WorthIs
  <2>2. /\ share["p"] = Share(asked, env, "p") /\ share["c"] = Share(asked, env, "c")
        /\ share["fixed"] = Share(asked, env, "fixed")
    BY <1>5, <1>6, <2>1
  <2> QED BY <1>4, <2>2, WorthIs
<1>11. Asked(value.coefficients, env) = Worth(asked, env)
  BY <1>1 DEF Asked
<1> QED BY <1>9, <1>10, <1>11

\* The price of a body is right, unless it subtracts a variable (parseBillingExpression).
LEMMA QuoteIsRight ==
    ASSUME NEW t \in Seq(Token), ~Subtracts(t) PROVE CorrectFor(t, PriceOf(t))
<1>1. PICK parse : parse = ParseLinearExpression(t)
  OBVIOUS
<1>2. PICK quote : quote = PriceOf(t)
  OBVIOUS
<1>3. "none" # "perRequest" /\ "none" # "perToken" /\ "perRequest" # "perToken"
  OBVIOUS
<1>4. CASE parse.ok /\ parse.value.fixed # Nil /\ Pure(parse.value)
  <2>1. quote = [kind |-> "perRequest", fixed |-> parse.value.fixed]
    BY <1>1, <1>2, <1>4 DEF PriceOf
  <2>2. quote.kind = "perRequest"
    BY <2>1
  <2>3. Means(t, 1, parse) /\ parse.pos = Len(t) + 1
    BY <1>1, <1>4, AcceptedMeans
  <2>4. PICK i \in 1..Len(t) + 1 - 1 : t[i] = "fixed"
    BY <1>4, <2>3 DEF Means
  <2>5. i \in DOMAIN t
    OBVIOUS
  <2>6. CorrectFor(t, quote)
    BY <2>2, <2>4, <2>5, <1>3 DEF CorrectFor
  <2> QED BY <1>2, <2>6
<1>5. CASE IsPerToken(parse) /\ ~(parse.ok /\ parse.value.fixed # Nil /\ Pure(parse.value))
  <2>1. quote = [kind |-> "perToken", coefficients |-> parse.value.coefficients]
    BY <1>1, <1>2, <1>5 DEF PriceOf
  <2>2. quote.kind = "perToken" /\ quote.coefficients = parse.value.coefficients
    BY <2>1
  <2>3. parse.ok /\ parse.value.fixed = Nil /\ parse.value.constant[1] = 0
    BY <1>5 DEF IsPerToken
  <2>4. PICK value \in Values : value = parse.value
    BY <1>1, <2>3, AcceptedMeans, MeansFacts
  <2>5. ASSUME NEW env \in Environments PROVE Same(Value(t, env), Asked(quote.coefficients, env))
    <3>1. PICK e \in [Names -> Fraction] : e = env
      <4>1. {Whole(1), Whole(3)} \in SUBSET Fraction
        BY WholeIs
      <4> QED BY <4>1 DEF Environments
    <3>2. Same(Value(t, e), Worth(value, e))
      BY <1>1, <2>3, <2>4, AcceptedIsExact
    <3>3. /\ Same(Worth(value, e), Asked(value.coefficients, e))
          /\ Asked(value.coefficients, e) \in Fraction
      BY <2>3, <2>4, AskedIs
    <3>4. Worth(value, e) \in Fraction /\ Value(t, e) \in Fraction
      <4>1. 1 \in 1..Len(t) + 1 /\ Len(t) + 1 \in 1..Len(t) + 1
        OBVIOUS
      <4>2. <<1, Len(t) + 1>> \in Segments(t)
        BY <4>1 DEF Segments
      <4>3. /\ WorthOf(t, e) \in [Segments(t) -> Fraction]
            /\ Value(t, e) = WorthOf(t, e)[<<1, Len(t) + 1>>]
        BY WorthOfFacts
      <4>4. Value(t, e) \in Fraction
        BY <4>2, <4>3
      <4> QED BY <4>4, WorthIs
    <3>5. Same(Value(t, e), Asked(value.coefficients, e))
      BY <3>2, <3>3, <3>4, SameTransitive
    <3> QED BY <2>2, <2>4, <3>1, <3>5
  <2>6. CorrectFor(t, quote)
    BY <1>3, <2>2, <2>5 DEF CorrectFor
  <2> QED BY <1>2, <2>6
<1>6. CASE ~IsPerToken(parse) /\ ~(parse.ok /\ parse.value.fixed # Nil /\ Pure(parse.value))
  <2>1. quote.kind = "none"
    BY <1>1, <1>2, <1>6 DEF PriceOf, NoQuote
  <2>2. CorrectFor(t, quote)
    BY <1>3, <2>1 DEF CorrectFor
  <2> QED BY <1>2, <2>2
<1> QED BY <1>4, <1>5, <1>6

-----------------------------------------------------------------------------
(* Billing expressions: the tier that is picked.                           *)

\* The first of a set of tiers.
LEMMA MinIs ==
    ASSUME NEW T \in SUBSET Nat, T # {} PROVE Min(T) \in T
<1>1. PICK n \in T : \A m \in T : n <= m
  BY LeastNat
<1> QED BY <1>1 DEF Min

\* A tier is picked that may stand for the price (pickTierBody).
LEMMA PickedTier ==
    ASSUME text \in Seq(Token), tiers \in Seq(TypeOfTier)
    PROVE  PickTierBody \in Seq(Token) /\ Stands(PickTierBody)
<1>1. CASE tiers = <<>>
  BY <1>1 DEF PickTierBody, Stands
<1>2. CASE tiers # <<>>
  <2>1. 1 \in DOMAIN tiers /\ DOMAIN tiers \in SUBSET Nat
    BY <1>2
  <2>2. /\ /\ TiersNamed("base") \in SUBSET DOMAIN tiers
        /\ TiersNamed("standard") \in SUBSET DOMAIN tiers
        /\ PerTokenTiers \in SUBSET DOMAIN tiers
    BY DEF TiersNamed, PerTokenTiers
  <2>3. PICK i \in DOMAIN tiers :
           /\ PickTierBody = tiers[i].body
           /\ TiersNamed("base") # {} => i \in TiersNamed("base")
           /\ TiersNamed("base") = {} /\ TiersNamed("standard") # {} => i \in TiersNamed("standard")
    <3> DEFINE Is(preferred) ==
                  PickTierBody = tiers[IF preferred = {} THEN 1 ELSE Min(preferred)].body
    <3>1. CASE TiersNamed("base") # {}
      <4>1. Is(TiersNamed("base"))
        BY <1>2, <3>1 DEF PickTierBody
      <4>2. TiersNamed("base") \in SUBSET Nat
        BY <2>1, <2>2
      <4>3. Min(TiersNamed("base")) \in TiersNamed("base")
        BY <3>1, <4>2, MinIs
      <4> QED BY <2>2, <3>1, <4>1, <4>3
    <3>2. CASE TiersNamed("base") = {} /\ TiersNamed("standard") # {}
      <4>1. Is(TiersNamed("standard"))
        BY <1>2, <3>2 DEF PickTierBody
      <4>2. TiersNamed("standard") \in SUBSET Nat
        BY <2>1, <2>2
      <4>3. Min(TiersNamed("standard")) \in TiersNamed("standard")
        BY <3>2, <4>2, MinIs
      <4> QED BY <2>2, <3>2, <4>1, <4>3
    <3>3. CASE TiersNamed("base") = {} /\ TiersNamed("standard") = {}
      <4>1. Is(PerTokenTiers)
        BY <1>2, <3>3 DEF PickTierBody
      <4>2. PerTokenTiers \in SUBSET Nat
        BY <2>1, <2>2
      <4>3. PerTokenTiers # {} => Min(PerTokenTiers) \in PerTokenTiers
        BY <4>2, MinIs
      <4> QED BY <2>1, <2>2, <3>3, <4>1, <4>3
    <3> QED BY <3>1, <3>2, <3>3
  <2>4. tiers[i].body \in Seq(Token)
    <3>1. tiers[i] \in TypeOfTier
      BY <2>3
    <3> QED BY <3>1 DEF TypeOfTier
  <2>5. ASSUME NEW j \in DOMAIN tiers
        PROVE  /\ tiers[j].name = "base" => tiers[i].name = "base"
               /\ tiers[j].name = "standard" => tiers[i].name \in {"base", "standard"}
    <3>1. tiers[j].name = "base" => j \in TiersNamed("base")
      BY DEF TiersNamed
    <3>2. tiers[j].name = "standard" => j \in TiersNamed("standard")
      BY DEF TiersNamed
    <3>3. /\ i \in TiersNamed("base") => tiers[i].name = "base"
          /\ i \in TiersNamed("standard") => tiers[i].name = "standard"
      BY DEF TiersNamed
    <3> QED BY <2>3, <3>1, <3>2, <3>3
  <2> QED BY <1>2, <2>3, <2>4, <2>5 DEF Stands
<1> QED BY <1>1, <1>2

\* So the quote is right.
LEMMA QuoteHolds == ASSUME ExprTypeOK PROVE QuoteIsTheTiersPrice
<1>1. PickTierBody \in Seq(Token) /\ Stands(PickTierBody)
  BY PickedTier DEF ExprTypeOK
<1>2. Subtracts(PickTierBody) \/ CorrectFor(PickTierBody, PriceOf(PickTierBody))
  BY <1>1, QuoteIsRight
<1> QED BY <1>1, <1>2 DEF QuoteIsTheTiersPrice

-----------------------------------------------------------------------------
(* Expressions: types.                                                     *)

ExprInv == ExprTypeOK /\ Len(text) >= 1

\* The bounds are numbers.
LEMMA BoundsAreNumbers ==
    /\ MaxTokens \in Nat /\ MaxBody \in Nat /\ MaxTiers \in Nat
    /\ MaxTokens >= 4 /\ MaxTiers >= 1
<1>1. \A n \in {MaxTokens, MaxBody, MaxTiers} : n \in Nat \ {0}
  BY ExpressionAssumption
<1> QED BY <1>1, ExpressionAssumption

\* Atoms are sequences of tokens, as a tier's variable is.
LEMMA AtomFacts ==
    /\ \A a \in Atoms : a \in Seq(Token) /\ Len(a) \in 1..4
    /\ <<"p">> \in Seq(Token) /\ Len(<<"p">>) = 1
    /\ \A op \in Operators : <<op>> \in Seq(Token)
    /\ <<"(">> \in Seq(Token) /\ <<")">> \in Seq(Token) /\ <<"-">> \in Seq(Token)
<1>1. {"0", "2", "p", "c", "fixed", "(", ")", "+", "-", "*", "/"} \subseteq Token
  BY DEF Token, Variables, Number
<1>2. \A t \in Token : <<t>> \in Seq(Token) /\ Len(<<t>>) = 1
  OBVIOUS
<1>3. /\ <<"fixed", "(", "2", ")">> \in Seq(Token)
      /\ Len(<<"fixed", "(", "2", ")">>) = 4
  BY <1>1
<1> HIDE DEF Token
<1>4. \A a \in Atoms : a \in Seq(Token) /\ Len(a) \in 1..4
  <2> TAKE a \in Atoms
  <2>1. CASE a = <<"fixed", "(", "2", ")">>
    BY <1>3, <2>1
  <2>2. CASE a # <<"fixed", "(", "2", ")">>
    <3>1. PICK t \in {"0", "2", "p", "c"} : a = <<t>>
      BY <2>2 DEF Atoms
    <3>2. t \in Token
      BY <1>1
    <3> QED BY <1>2, <3>1, <3>2
  <2> QED BY <2>1, <2>2
<1>5. \A op \in Operators : <<op>> \in Seq(Token)
  BY <1>1, <1>2 DEF Operators
<1> QED BY <1>1, <1>2, <1>4, <1>5

\* Writing tokens keeps the types.
LEMMA WriteKeeps ==
    ASSUME ExprInv, NEW t \in Seq(Token), Write(t)
    PROVE  ExprInv'
  BY BoundsAreNumbers DEF ExprInv, ExprTypeOK, Write

\* So does every step of an author.
LEMMA ExprStep == ASSUME ExprInv, [ExprNext]_exprVars PROVE ExprInv'
<1>1. text \in Seq(Token) /\ Len(text) >= 1
  BY DEF ExprInv, ExprTypeOK
<1>2. CASE UNCHANGED exprVars
  BY <1>2 DEF exprVars, ExprInv, ExprTypeOK
<1>3. ASSUME NEW a \in Atoms, NEW op \in Operators
      PROVE  text \o <<op>> \o a \in Seq(Token) /\ a \o <<op>> \o text \in Seq(Token)
  <2>1. a \in Seq(Token) /\ <<op>> \in Seq(Token)
    BY AtomFacts
  <2>2. \A x, y \in Seq(Token) : x \o y \in Seq(Token)
    OBVIOUS
  <2> HIDE DEF Token
  <2>3. text \o <<op>> \in Seq(Token) /\ a \o <<op>> \in Seq(Token)
    BY <1>1, <2>1, <2>2
  <2> QED BY <1>1, <2>1, <2>2, <2>3
<1>4. CASE Continue
  <2>1. PICK a \in Atoms, op \in Operators : Write(text \o <<op>> \o a)
    BY <1>4 DEF Continue
  <2> QED BY <1>3, <2>1, WriteKeeps
<1>5. CASE Precede
  <2>1. PICK a \in Atoms, op \in Operators : Write(a \o <<op>> \o text)
    BY <1>5 DEF Precede
  <2> QED BY <1>3, <2>1, WriteKeeps
<1>6. CASE Enclose
  <2>1. \A x, y \in Seq(Token) : x \o y \in Seq(Token)
    OBVIOUS
  <2>2. <<"(">> \o text \o <<")">> \in Seq(Token)
    BY <1>1, <2>1, AtomFacts
  <2> QED BY <1>6, <2>2, WriteKeeps DEF Enclose
<1>7. CASE Negate
  <2>1. \A x, y \in Seq(Token) : x \o y \in Seq(Token)
    OBVIOUS
  <2>2. <<"-">> \o text \in Seq(Token)
    BY <1>1, <2>1, AtomFacts
  <2> QED BY <1>7, <2>2, WriteKeeps DEF Negate
<1>8. CASE Truncate
  <2>1. Tail(text) \in Seq(Token)
    BY <1>1
  <2>2. Front(text) \in Seq(Token)
    BY <1>1 DEF Front
  <2> QED BY <1>8, <2>1, <2>2, WriteKeeps DEF Truncate
<1>9. CASE CloseTier
  <2>1. PICK n \in TierNames \cup {"base", "standard"} :
            tiers' = Append(tiers, [name |-> n, body |-> text])
    BY <1>9 DEF CloseTier
  <2>2. [name |-> n, body |-> text] \in TypeOfTier
    BY <1>1 DEF TypeOfTier
  <2>3. tiers \in Seq(TypeOfTier) /\ Len(tiers) < MaxTiers
    BY <1>9 DEF CloseTier, ExprInv, ExprTypeOK
  <2>4. tiers' \in Seq(TypeOfTier) /\ Len(tiers') <= MaxTiers
    BY <2>1, <2>2, <2>3, BoundsAreNumbers
  <2>5. text' = <<"p">>
    BY <1>9 DEF CloseTier
  <2> QED BY <2>4, <2>5, AtomFacts, BoundsAreNumbers DEF ExprInv, ExprTypeOK
<1> QED BY <1>2, <1>4, <1>5, <1>6, <1>7, <1>8, <1>9 DEF ExprNext

\* Expressions stay sequences of tokens within their bounds.
THEOREM ExprInvariant == ExprSpec => []ExprInv
<1>1. ExprInit => ExprInv
  <2> SUFFICES ASSUME ExprInit PROVE ExprInv
    OBVIOUS
  <2>1. text \in Seq(Token) /\ Len(text) \in 1..4
    BY AtomFacts DEF ExprInit
  <2>2. tiers \in Seq(TypeOfTier) /\ Len(tiers) = 0
    BY DEF ExprInit
  <2>3. Len(text) <= MaxTokens /\ Len(text) >= 1
    <3>1. \A n \in 1..4 : n <= MaxTokens /\ n >= 1
      BY BoundsAreNumbers
    <3> QED BY <2>1, <3>1
  <2>4. Len(tiers) <= MaxTiers
    <3>1. 0 <= MaxTiers
      BY BoundsAreNumbers
    <3> QED BY <2>2, <3>1
  <2> QED BY <2>1, <2>2, <2>3, <2>4 DEF ExprInv, ExprTypeOK
<1>2. ExprInv /\ [ExprNext]_exprVars => ExprInv'
  BY ExprStep
<1> QED BY <1>1, <1>2, PTL DEF ExprSpec

\* Whatever sources write, its quote is what the tier that may stand for it
\* evaluates to, if no term with a variable is subtracted (parseBillingExpression).
THEOREM QuotedAtItsWorth == ExprSpec => []QuoteIsTheTiersPrice
<1>1. ExprInv => QuoteIsTheTiersPrice
  BY QuoteHolds DEF ExprInv
<1> QED BY <1>1, ExprInvariant, PTL
=============================================================================
