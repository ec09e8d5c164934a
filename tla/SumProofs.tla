------------------------------- MODULE SumProofs -------------------------------
(***************************************************************************)
(* Facts of arithmetic that the accounting proofs cite: bounds of products *)
(* and quotients, and sums of a function over a finite set, which are the  *)
(* SumFunctionOnSet of the community modules.  A sum is defined by         *)
(* recursion on the set; a fact about it is proved by a minimal            *)
(* counterexample among the subsets of the set, which the well-foundedness *)
(* of strict inclusion on finite sets provides.  The same argument gives   *)
(* the least number at which something fails, and with it the values of    *)
(* recursive functions and of sums over consecutive numbers.               *)
(***************************************************************************)
EXTENDS Integers, FiniteSets, Functions, FiniteSetTheorems, WellFoundedInduction, TLAPS

-----------------------------------------------------------------------------
(* Quotients and products. *)

\* The quotient and the remainder.
LEMMA DivBounds ==
  ASSUME NEW a \in Nat, NEW d \in Nat \ {0}
  PROVE  /\ a \div d \in Nat
         /\ d * (a \div d) <= a
         /\ a < d * (a \div d) + d
  OBVIOUS

\* A larger dividend, or a smaller divisor, gives no smaller quotient.
LEMMA DivMono ==
  ASSUME NEW a \in Nat, NEW b \in Nat, NEW d \in Nat \ {0}, NEW e \in Nat \ {0},
         a <= b, d <= e
  PROVE  a \div e <= b \div d
  <1> DEFINE p == a \div e
             q == b \div d
  <1>1. p \in Nat /\ e * p <= a
    BY DivBounds
  <1>2. q \in Nat /\ b < d * q + d
    BY DivBounds
  <1> SUFFICES p <= q
    OBVIOUS
  <1> HIDE DEF p, q
  <1>3. SUFFICES ASSUME q + 1 <= p PROVE FALSE
    BY <1>1, <1>2
  <1>4. d * (q + 1) <= d * p
    BY <1>1, <1>2, <1>3
  <1>5. d * p <= e * p
    BY <1>1
  <1>6. d * (q + 1) = d * q + d
    BY <1>2
  <1>7. QED
    BY <1>1, <1>2, <1>4, <1>5, <1>6

\* A larger factor gives no smaller product.
LEMMA ProductMono ==
  ASSUME NEW a \in Nat, NEW b \in Nat, NEW s \in Nat, a <= b
  PROVE  a * s <= b * s
  OBVIOUS

\* The collateral ratio of both venues, in basis points.
RatioAt(one, unit, collateral, debt) == (((collateral * unit) \div one) * 10000) \div debt

\* More collateral, or less debt, gives no smaller ratio.
LEMMA RatioMono ==
  ASSUME NEW one \in Nat \ {0}, NEW unit \in Nat, NEW c \in Nat, NEW d \in Nat,
         NEW e \in Nat \ {0}, NEW f \in Nat \ {0}, c <= d, f <= e
  PROVE  /\ RatioAt(one, unit, c, e) \in Nat /\ RatioAt(one, unit, d, f) \in Nat
         /\ RatioAt(one, unit, c, e) <= RatioAt(one, unit, d, f)
  <1> DEFINE g == c * unit
             h == d * unit
             x == g \div one
             y == h \div one
             v == x * 10000
             w == y * 10000
  <1>1. g \in Nat /\ h \in Nat /\ g <= h
    BY ProductMono
  <1>2. x \in Nat /\ y \in Nat /\ x <= y
    <2> HIDE DEF g, h
    <2>1. x \in Nat /\ y \in Nat
      BY <1>1, DivBounds
    <2>2. x <= y
      BY <1>1, DivMono
    <2>3. QED
      BY <2>1, <2>2
  <1>3. v \in Nat /\ w \in Nat /\ v <= w
    <2> HIDE DEF x, y
    <2> QED BY <1>2
  <1>4. v \div e \in Nat /\ w \div f \in Nat /\ v \div e <= w \div f
    <2> HIDE DEF v, w
    <2>1. v \div e \in Nat /\ w \div f \in Nat
      BY <1>3, DivBounds
    <2>2. v \div e <= w \div f
      BY <1>3, DivMono
    <2>3. QED
      BY <2>1, <2>2
  <1>5. QED
    BY <1>4 DEF RatioAt

\* A larger price gives no smaller ratio either.
LEMMA RatioMonoPrice ==
  ASSUME NEW one \in Nat \ {0}, NEW p \in Nat, NEW q \in Nat, p <= q, NEW s \in Nat,
         NEW b \in Nat \ {0}
  PROVE  RatioAt(one, p, s, b) <= RatioAt(one, q, s, b)
  <1>1. PICK x \in Nat, y \in Nat : x = s * p /\ y = s * q
    OBVIOUS
  <1>2. x <= y
    <2>1. p * s <= q * s
      BY ProductMono
    <2> QED
      BY <1>1, <2>1
  <1>3. PICK u \in Nat, v \in Nat : u = x \div one /\ v = y \div one
    BY DivBounds
  <1>4. u <= v
    BY <1>2, <1>3, DivMono
  <1>5. u * 10000 \in Nat /\ v * 10000 \in Nat /\ u * 10000 <= v * 10000
    BY <1>4
  <1>6. (u * 10000) \div b <= (v * 10000) \div b
    BY <1>5, DivMono
  <1> QED
    BY <1>1, <1>3, <1>6 DEF RatioAt

\* Of n deposits of S that allow a debt of B each, s is supplied and b is owed: no more
\* was taken back than was repaid.  At the price D one deposit and its debt are at the
\* ratio T, with the rounding of the price against them.
DepositsCarry(one, T, S, B, D, s, b, n) ==
    /\ B <= S /\ D <= one /\ 10000 <= T
    /\ 10000 * (S * D - one + 1) >= T * B * one
    /\ b <= n * B /\ b + n * (S - B) <= s

\* Then so are s and b.
LEMMA RatioOfDeposits ==
  ASSUME NEW one \in Nat \ {0}, NEW T \in Nat, NEW S \in Nat, NEW B \in Nat, NEW D \in Nat,
         NEW s \in Nat, NEW b \in Nat \ {0}, NEW n \in Nat,
         DepositsCarry(one, T, S, B, D, s, b, n)
  PROVE  RatioAt(one, D, s, b) >= T
  <1>0. /\ B <= S /\ D <= one /\ 10000 <= T
        /\ 10000 * (S * D - one + 1) >= T * B * one
        /\ b <= n * B /\ b + n * (S - B) <= s
    BY DEF DepositsCarry
  <1>1. n >= 1
    BY <1>0, SMTT(30)
  <1>2. PICK x \in Nat : x = s * D
    OBVIOUS
  <1>3. PICK y \in Nat : y = x \div one /\ x < one * y + one
    BY DivBounds
  <1>4. PICK z \in Nat : z = n * B - b
    BY <1>0
  <1>5. PICK r \in Nat : r = T * one - 10000 * D
    <2>1. T * one \in Nat /\ 10000 * one <= T * one
      BY <1>0, ProductMono
    <2>2. 10000 * D <= 10000 * one
      BY <1>0
    <2> QED
      BY <2>1, <2>2
  <1>6. n * S - z <= s
    <2>1. n * (S - B) = n * S - n * B
      OBVIOUS
    <2> QED
      BY <1>0, <1>4, <2>1
  <1>7. (n * S - z) * D <= s * D
    <2>1. n * S - z \in Int
      OBVIOUS
    <2>2. PICK d \in Nat : d = s - (n * S - z)
      BY <1>6, <2>1
    <2>3. d * D \in Nat /\ d * D = s * D - (n * S - z) * D
      BY <2>1, <2>2
    <2> QED
      BY <2>1, <2>3
  <1>8. (n * S - z) * D = n * (S * D) - z * D
    OBVIOUS
  <1>9. n * (S * D) - z * D <= x
    BY <1>2, <1>7, <1>8
  <1>10. 10000 * (n * (S * D)) >= n * (T * B * one) + 10000 * (one - 1)
    <2>1. PICK m \in Nat : m = n - 1
      BY <1>1
    <2>2. PICK e \in Nat : e = 10000 * (S * D - one + 1) - T * B * one
      BY <1>0
    <2>3. n * e \in Nat /\ n * e = n * (10000 * (S * D - one + 1)) - n * (T * B * one)
      BY <2>2
    <2>4. n * (10000 * (S * D - one + 1)) = 10000 * (n * (S * D)) - n * (10000 * (one - 1))
      OBVIOUS
    <2>5. n * (10000 * (one - 1)) >= 10000 * (one - 1)
      BY <1>1
    <2> QED
      BY <2>3, <2>4, <2>5
  <1>11. n * (T * B * one) = T * one * (b + z)
    <2>1. n * B = b + z
      BY <1>4
    <2>2. n * (T * B * one) = T * one * (n * B)
      OBVIOUS
    <2> QED
      BY <2>1, <2>2
  <1>12. T * one * (b + z) = T * one * b + (r + 10000 * D) * z
    BY <1>5
  <1>13. z * r \in Nat /\ (r + 10000 * D) * z = z * r + 10000 * (z * D)
    OBVIOUS
  <1>14. 10000 * x >= T * one * b + 10000 * (one - 1)
    BY <1>9, <1>10, <1>11, <1>12, <1>13
  <1>15. 10000 * y * one >= T * b * one
    BY <1>3, <1>14
  <1>16. 10000 * y >= T * b
    <2>1. PICK g \in Int : g = T * b - 10000 * y
      OBVIOUS
    <2>2. g * one <= 0
      BY <1>15, <2>1
    <2>3. g <= 0
      BY <2>2
    <2> QED
      BY <2>1, <2>3
  <1>17. T <= (y * 10000) \div b
    <2>1. PICK q \in Nat : q = (y * 10000) \div b /\ y * 10000 < b * q + b
      BY DivBounds
    <2>2. T * b < (q + 1) * b
      BY <1>16, <2>1
    <2>3. T < q + 1
      BY <2>2
    <2> QED
      BY <2>1, <2>3
  <1> QED
    BY <1>2, <1>3, <1>17 DEF RatioAt

-----------------------------------------------------------------------------
(* Sums. *)

Pick(s) == CHOOSE x \in s : TRUE

SumStep(f, g, s) == IF s = {} THEN 0 ELSE f[Pick(s)] + g[s \ {Pick(s)}]

IsSum(g, f, S) == g = [s \in SUBSET S |-> SumStep(f, g, s)]

SumTable(f, S) == CHOOSE g : IsSum(g, f, S)

\* The library's sum, by the table of the sums of all subsets that it is defined from.
LEMMA SumIsTable ==
  ASSUME NEW f, NEW S
  PROVE  SumFunctionOnSet(f, S) = SumTable(f, S)[S]
BY DEF SumFunctionOnSet, FoldFunctionOnSet, MapThenFoldSet, SumTable, IsSum, SumStep, Pick

\* A nonempty family of subsets of a finite set has a minimal one: a claim about all
\* subsets follows once no minimal one can fail it.
LEMMA MinimalSubset ==
  ASSUME NEW S, IsFiniteSet(S), NEW T \in SUBSET SUBSET S, T # {}
  PROVE  \E x \in T : \A y \in T : y \subseteq x => y = x
<1>1. IsWellFoundedOn(StrictSubsetOrdering(S), FiniteSubsetsOf(S))
  BY FS_StrictSubsetOrderingWellFounded
<1>2. T \subseteq FiniteSubsetsOf(S)
  BY FS_FiniteSubsetsOfFinite
<1>3. PICK x \in T : \A y \in T : ~ (<<y, x>> \in StrictSubsetOrdering(S))
  BY <1>1, <1>2, WFMin
<1>4. ASSUME NEW y \in T, y \subseteq x, y # x PROVE FALSE
  <2>1. <<y, x>> \in (SUBSET S) \X (SUBSET S)  OBVIOUS
  <2>2. <<y, x>> \in StrictSubsetOrdering(S)  BY <2>1, <1>4 DEF StrictSubsetOrdering
  <2> QED BY <2>2, <1>3
<1> QED BY <1>4

\* What the library adds first is an element.
LEMMA PickIn ==
  ASSUME NEW s, s # {}
  PROVE  Pick(s) \in s
BY DEF Pick

\* The tables of two sets give their common subsets the same sums.
LEMMA SumsAgree ==
  ASSUME NEW f, NEW S, NEW T \in SUBSET S, IsFiniteSet(S),
         NEW g, IsSum(g, f, S), NEW h, IsSum(h, f, T), NEW u \in SUBSET T
  PROVE  g[u] = h[u]
<1> DEFINE Bad == {v \in SUBSET T : g[v] # h[v]}
<1>1. SUFFICES ASSUME Bad # {} PROVE FALSE
  OBVIOUS
<1>2. Bad \in SUBSET SUBSET S  OBVIOUS
<1>3. PICK v \in Bad : \A y \in Bad : y \subseteq v => y = v
  <2> HIDE DEF Bad
  <2> QED BY <1>1, <1>2, MinimalSubset
<1>4. g[v] = SumStep(f, g, v) /\ h[v] = SumStep(f, h, v)
  BY DEF IsSum
<1>5. v # {}  BY <1>4 DEF SumStep
<1>6. Pick(v) \in v  BY <1>5, PickIn
<1>7. v \ {Pick(v)} \notin Bad  BY <1>3, <1>6
<1>8. g[v \ {Pick(v)}] = h[v \ {Pick(v)}]  BY <1>7
<1> QED BY <1>4, <1>8 DEF SumStep

\* Every subset of a finite set has a sum.
LEMMA SumTableExists ==
  ASSUME NEW f, NEW S, IsFiniteSet(S)
  PROVE  \E g : IsSum(g, f, S)
<1> DEFINE Bad == {v \in SUBSET S : ~ \E g : IsSum(g, f, v)}
<1>1. SUFFICES ASSUME Bad # {} PROVE FALSE
  OBVIOUS
<1>2. Bad \in SUBSET SUBSET S  OBVIOUS
<1>3. PICK T \in Bad : \A y \in Bad : y \subseteq T => y = T
  <2> HIDE DEF Bad
  <2> QED BY <1>1, <1>2, MinimalSubset
<1>4. \A v \in SUBSET T : v # T => IsSum(SumTable(f, v), f, v)
  <2> TAKE v \in SUBSET T
  <2> HAVE v # T
  <2>1. \E g : IsSum(g, f, v)  BY <1>3
  <2> QED BY <2>1 DEF SumTable
<1> DEFINE G == [s \in SUBSET T |-> 
                  IF s = {} THEN 0 ELSE f[Pick(s)] + SumTable(f, s \ {Pick(s)})[s \ {Pick(s)}]]
<1>5. ASSUME NEW s \in SUBSET T PROVE G[s] = SumStep(f, G, s)
  <2>1. CASE s = {}  BY <2>1 DEF SumStep
  <2>2. CASE s # {}
    <3> DEFINE r == s \ {Pick(s)}
    <3>1. Pick(s) \in s  BY <2>2, PickIn
    <3>2. r \in SUBSET T /\ r # T  BY <3>1
    <3>3. IsSum(SumTable(f, r), f, r)  BY <3>2, <1>4
    <3>4. SumTable(f, r)[r] = SumStep(f, SumTable(f, r), r)  BY <3>3 DEF IsSum
    <3>5. G[r] = SumTable(f, r)[r]
      <4>1. CASE r = {}  BY <4>1, <3>4, <3>2 DEF SumStep
      <4>2. CASE r # {}
        <5> DEFINE q == r \ {Pick(r)}
        <5>1. Pick(r) \in r  BY <4>2, PickIn
        <5>2. q \in SUBSET r /\ q \in SUBSET T /\ q # T  BY <5>1, <3>2
        <5>3. IsSum(SumTable(f, q), f, q)  BY <5>2, <1>4
        <5>4. IsFiniteSet(r)  BY <3>2, FS_Subset
        <5>5. q \in SUBSET q OBVIOUS
        <5>6. SumTable(f, r)[q] = SumTable(f, q)[q]
          <6> HIDE DEF q, r
          <6> QED BY <5>2, <5>3, <5>4, <5>5, <3>3, SumsAgree
        <5>7. G[r] = f[Pick(r)] + SumTable(f, q)[q]  BY <3>2, <4>2
        <5>8. SumStep(f, SumTable(f, r), r) = f[Pick(r)] + SumTable(f, r)[q]  BY <4>2 DEF SumStep
        <5> QED BY <5>6, <5>7, <5>8, <3>4
      <4> QED BY <4>1, <4>2
    <3>6. G[s] = f[Pick(s)] + SumTable(f, r)[r]  BY <2>2
    <3>7. SumStep(f, G, s) = f[Pick(s)] + G[r]  BY <2>2 DEF SumStep
    <3> QED BY <3>5, <3>6, <3>7
  <2> QED BY <2>1, <2>2
<1>6. IsSum(G, f, T)
  <2>1. G = [s \in SUBSET T |-> G[s]]  OBVIOUS
  <2> HIDE DEF G
  <2> QED BY <2>1, <1>5 DEF IsSum
<1> QED BY <1>6, <1>3
\* Nothing adds up to zero.
LEMMA SumEmpty ==
  ASSUME NEW f
  PROVE  SumFunctionOnSet(f, {}) = 0
<1>1. IsSum(SumTable(f, {}), f, {})
  BY SumTableExists, FS_EmptySet DEF SumTable
<1> QED BY <1>1, SumIsTable DEF IsSum, SumStep

\* The sum by its first element and the rest.
LEMMA SumUnfold ==
  ASSUME NEW f, NEW S, IsFiniteSet(S), S # {}
  PROVE  SumFunctionOnSet(f, S) = f[Pick(S)] + SumFunctionOnSet(f, S \ {Pick(S)})
<1> DEFINE R == S \ {Pick(S)}
<1>1. IsFiniteSet(R) /\ R \in SUBSET S /\ R \in SUBSET R
  BY FS_Subset
<1>2. IsSum(SumTable(f, S), f, S) /\ IsSum(SumTable(f, R), f, R)
  BY <1>1, SumTableExists DEF SumTable
<1>3. SumTable(f, S)[R] = SumTable(f, R)[R]
  <2> HIDE DEF R
  <2> QED BY <1>1, <1>2, SumsAgree
<1>4. SumTable(f, S)[S] = SumStep(f, SumTable(f, S), S)
  BY <1>2 DEF IsSum
<1>5. SumStep(f, SumTable(f, S), S) = f[Pick(S)] + SumTable(f, S)[R]
  BY DEF SumStep
<1> QED BY <1>3, <1>4, <1>5, SumIsTable

\* Integers add up to an integer.
LEMMA SumInt ==
  ASSUME NEW f, NEW S, IsFiniteSet(S), \A x \in S : f[x] \in Int
  PROVE  SumFunctionOnSet(f, S) \in Int
<1> DEFINE Bad == {v \in SUBSET S : SumFunctionOnSet(f, v) \notin Int}
<1>1. SUFFICES ASSUME Bad # {} PROVE FALSE
  OBVIOUS
<1>2. PICK v \in Bad : \A y \in Bad : y \subseteq v => y = v
  <2>1. Bad \in SUBSET SUBSET S  OBVIOUS
  <2> HIDE DEF Bad
  <2> QED BY <1>1, <2>1, MinimalSubset
<1>3. v # {}  BY SumEmpty
<1>4. Pick(v) \in v  BY <1>3, PickIn
<1>5. v \ {Pick(v)} \notin Bad  BY <1>2, <1>4
<1>6. SumFunctionOnSet(f, v \ {Pick(v)}) \in Int  BY <1>5
<1>7. SumFunctionOnSet(f, v) = f[Pick(v)] + SumFunctionOnSet(f, v \ {Pick(v)})
  BY <1>3, SumUnfold, FS_Subset
<1>8. f[Pick(v)] \in Int  BY <1>4
<1>9. SumFunctionOnSet(f, v) \in Int  BY <1>6, <1>7, <1>8
<1> QED BY <1>9

\* Any element can be taken out first: the order does not matter.
LEMMA SumRemove ==
  ASSUME NEW f, NEW S, IsFiniteSet(S), \A y \in S : f[y] \in Int, NEW x \in S
  PROVE  SumFunctionOnSet(f, S) = f[x] + SumFunctionOnSet(f, S \ {x})
<1> DEFINE Bad == {v \in SUBSET S : \E z \in v :
                     SumFunctionOnSet(f, v) # f[z] + SumFunctionOnSet(f, v \ {z})}
<1>1. SUFFICES ASSUME Bad # {} PROVE FALSE
  OBVIOUS
<1>2. PICK v \in Bad : \A y \in Bad : y \subseteq v => y = v
  <2>1. Bad \in SUBSET SUBSET S  OBVIOUS
  <2> HIDE DEF Bad
  <2> QED BY <1>1, <2>1, MinimalSubset
<1>3. PICK z \in v : SumFunctionOnSet(f, v) # f[z] + SumFunctionOnSet(f, v \ {z})
  OBVIOUS
<1> DEFINE p == Pick(v)
<1>4. p \in v  BY <1>3, PickIn
<1> DEFINE a == v \ {p}
           b == v \ {z}
           r == v \ {p, z}
<1>5. SumFunctionOnSet(f, v) = f[p] + SumFunctionOnSet(f, a)
  BY <1>3, SumUnfold, FS_Subset
<1>6. p # z  BY <1>3, <1>5
<1>7. z \in a /\ p \in b /\ a \ {z} = r /\ b \ {p} = r  BY <1>4, <1>6
<1>8. a \notin Bad /\ b \notin Bad  BY <1>2, <1>4, <1>3
<1>9. SumFunctionOnSet(f, a) = f[z] + SumFunctionOnSet(f, r)  BY <1>7, <1>8
<1>10. SumFunctionOnSet(f, b) = f[p] + SumFunctionOnSet(f, r)  BY <1>7, <1>8
<1>11. SumFunctionOnSet(f, r) \in Int
  <2>1. IsFiniteSet(r) /\ \A y \in r : f[y] \in Int  BY FS_Subset
  <2> HIDE DEF r
  <2> QED BY <2>1, SumInt
<1>12. f[p] \in Int /\ f[z] \in Int  BY <1>4
<1>13. SumFunctionOnSet(f, v) = f[z] + SumFunctionOnSet(f, b)
  <2> HIDE DEF p, a, b, r
  <2> QED BY <1>5, <1>9, <1>10, <1>11, <1>12
<1> QED BY <1>13, <1>3

\* A new element adds its value.
LEMMA SumAdd ==
  ASSUME NEW f, NEW S, IsFiniteSet(S), NEW x, x \notin S, \A y \in S \cup {x} : f[y] \in Int
  PROVE  SumFunctionOnSet(f, S \cup {x}) = SumFunctionOnSet(f, S) + f[x]
<1> DEFINE T == S \cup {x}
<1>1. IsFiniteSet(T) /\ x \in T /\ T \ {x} = S  BY FS_AddElement
<1>2. SumFunctionOnSet(f, T) = f[x] + SumFunctionOnSet(f, T \ {x})
  <2>1. \A y \in T : f[y] \in Int  OBVIOUS
  <2> HIDE DEF T
  <2> QED BY <1>1, <2>1, SumRemove
<1>3. SumFunctionOnSet(f, S) \in Int /\ f[x] \in Int
  BY SumInt
<1>4. SumFunctionOnSet(f, T) = f[x] + SumFunctionOnSet(f, S)
  BY <1>1, <1>2
<1> QED BY <1>3, <1>4

\* The sum depends on the values in the set only.
LEMMA SumSame ==
  ASSUME NEW f, NEW g, NEW S, IsFiniteSet(S), \A y \in S : f[y] = g[y]
  PROVE  SumFunctionOnSet(f, S) = SumFunctionOnSet(g, S)
<1> DEFINE Bad == {v \in SUBSET S : SumFunctionOnSet(f, v) # SumFunctionOnSet(g, v)}
<1>1. SUFFICES ASSUME Bad # {} PROVE FALSE
  OBVIOUS
<1>2. PICK v \in Bad : \A y \in Bad : y \subseteq v => y = v
  <2>1. Bad \in SUBSET SUBSET S  OBVIOUS
  <2> HIDE DEF Bad
  <2> QED BY <1>1, <2>1, MinimalSubset
<1>3. v # {}  BY SumEmpty
<1>4. Pick(v) \in v  BY <1>3, PickIn
<1>5. v \ {Pick(v)} \notin Bad  BY <1>2, <1>4
<1>6. SumFunctionOnSet(f, v \ {Pick(v)}) = SumFunctionOnSet(g, v \ {Pick(v)})  BY <1>5
<1>7. /\ SumFunctionOnSet(f, v) = f[Pick(v)] + SumFunctionOnSet(f, v \ {Pick(v)})
      /\ SumFunctionOnSet(g, v) = g[Pick(v)] + SumFunctionOnSet(g, v \ {Pick(v)})
  BY <1>3, SumUnfold, FS_Subset
<1> QED BY <1>4, <1>6, <1>7

\* Where the functions differ in one element, the sums differ by as much.
LEMMA SumChange ==
  ASSUME NEW f, NEW g, NEW S, IsFiniteSet(S), NEW x \in S,
         \A y \in S : f[y] \in Int /\ g[y] \in Int,
         \A y \in S \ {x} : g[y] = f[y]
  PROVE  SumFunctionOnSet(g, S) = SumFunctionOnSet(f, S) - f[x] + g[x]
<1> DEFINE R == S \ {x}
<1>1. IsFiniteSet(R) /\ \A y \in R : f[y] \in Int /\ g[y] \in Int /\ f[y] = g[y]
  BY FS_Subset
<1>2. SumFunctionOnSet(f, R) = SumFunctionOnSet(g, R) /\ SumFunctionOnSet(f, R) \in Int
  <2> HIDE DEF R
  <2> QED BY <1>1, SumSame, SumInt
<1>3. SumFunctionOnSet(f, S) = f[x] + SumFunctionOnSet(f, R)
  BY SumRemove
<1>4. SumFunctionOnSet(g, S) = g[x] + SumFunctionOnSet(g, R)
  BY SumRemove
<1> QED BY <1>2, <1>3, <1>4

\* Larger values, larger sum.
LEMMA SumAtMost ==
  ASSUME NEW f, NEW g, NEW S, IsFiniteSet(S),
         \A y \in S : f[y] \in Int /\ g[y] \in Int /\ f[y] <= g[y]
  PROVE  SumFunctionOnSet(f, S) <= SumFunctionOnSet(g, S)
<1> DEFINE Bad == {v \in SUBSET S : ~ (SumFunctionOnSet(f, v) <= SumFunctionOnSet(g, v))}
<1>1. SUFFICES ASSUME Bad # {} PROVE FALSE
  OBVIOUS
<1>2. PICK v \in Bad : \A y \in Bad : y \subseteq v => y = v
  <2>1. Bad \in SUBSET SUBSET S  OBVIOUS
  <2> HIDE DEF Bad
  <2> QED BY <1>1, <2>1, MinimalSubset
<1>3. v # {}  BY SumEmpty
<1>4. Pick(v) \in v  BY <1>3, PickIn
<1> DEFINE r == v \ {Pick(v)}
<1>5. r \notin Bad /\ r \in SUBSET S  BY <1>2, <1>4
<1>6. SumFunctionOnSet(f, r) <= SumFunctionOnSet(g, r)  BY <1>5
<1>7. /\ SumFunctionOnSet(f, v) = f[Pick(v)] + SumFunctionOnSet(f, r)
      /\ SumFunctionOnSet(g, v) = g[Pick(v)] + SumFunctionOnSet(g, r)
  BY <1>3, SumUnfold, FS_Subset
<1>8. SumFunctionOnSet(f, r) \in Int /\ SumFunctionOnSet(g, r) \in Int
  <2>1. IsFiniteSet(r) /\ \A y \in r : f[y] \in Int /\ g[y] \in Int  BY <1>5, FS_Subset
  <2> HIDE DEF r
  <2> QED BY <2>1, SumInt
<1>9. f[Pick(v)] \in Int /\ g[Pick(v)] \in Int /\ f[Pick(v)] <= g[Pick(v)]  BY <1>4
<1>10. SumFunctionOnSet(f, v) <= SumFunctionOnSet(g, v)  
  <2> HIDE DEF r
  <2> QED BY <1>6, <1>7, <1>8, <1>9
<1> QED BY <1>10

\* Zeros add up to zero.
LEMMA SumZero ==
  ASSUME NEW f, NEW S, IsFiniteSet(S), \A y \in S : f[y] = 0
  PROVE  SumFunctionOnSet(f, S) = 0
<1> DEFINE Bad == {v \in SUBSET S : SumFunctionOnSet(f, v) # 0}
<1>1. SUFFICES ASSUME Bad # {} PROVE FALSE
  OBVIOUS
<1>2. PICK v \in Bad : \A y \in Bad : y \subseteq v => y = v
  <2>1. Bad \in SUBSET SUBSET S  OBVIOUS
  <2> HIDE DEF Bad
  <2> QED BY <1>1, <2>1, MinimalSubset
<1>3. v # {}  BY SumEmpty
<1>4. Pick(v) \in v  BY <1>3, PickIn
<1>5. v \ {Pick(v)} \notin Bad  BY <1>2, <1>4
<1>6. SumFunctionOnSet(f, v \ {Pick(v)}) = 0  BY <1>5
<1>7. SumFunctionOnSet(f, v) = f[Pick(v)] + SumFunctionOnSet(f, v \ {Pick(v)})
  BY <1>3, SumUnfold, FS_Subset
<1>8. f[Pick(v)] = 0  BY <1>4
<1> QED BY <1>6, <1>7, <1>8

\* Naturals add up to a natural.
LEMMA SumNat ==
  ASSUME NEW f, NEW S, IsFiniteSet(S), \A x \in S : f[x] \in Nat
  PROVE  SumFunctionOnSet(f, S) \in Nat
<1> DEFINE z == [x \in S |-> 0]
<1>1. SumFunctionOnSet(z, S) = 0  BY SumZero
<1>2. SumFunctionOnSet(z, S) <= SumFunctionOnSet(f, S)
  <2>1. \A x \in S : z[x] \in Int /\ f[x] \in Int /\ z[x] <= f[x]  OBVIOUS
  <2> HIDE DEF z
  <2> QED BY <2>1, SumAtMost
<1>3. SumFunctionOnSet(f, S) \in Int  BY SumInt
<1> QED BY <1>1, <1>2, <1>3

\* The sum of sums, element by element, is the sum of the sums.
LEMMA SumPlus ==
  ASSUME NEW f, NEW g, NEW h, NEW S, IsFiniteSet(S),
         \A y \in S : f[y] \in Int /\ g[y] \in Int /\ h[y] = f[y] + g[y]
  PROVE  SumFunctionOnSet(h, S) = SumFunctionOnSet(f, S) + SumFunctionOnSet(g, S)
<1> DEFINE Bad == {v \in SUBSET S :
                     SumFunctionOnSet(h, v) # SumFunctionOnSet(f, v) + SumFunctionOnSet(g, v)}
<1>1. SUFFICES ASSUME Bad # {} PROVE FALSE
  OBVIOUS
<1>2. PICK v \in Bad : \A y \in Bad : y \subseteq v => y = v
  <2>1. Bad \in SUBSET SUBSET S  OBVIOUS
  <2> HIDE DEF Bad
  <2> QED BY <1>1, <2>1, MinimalSubset
<1>3. v # {}
  <2>1. /\ SumFunctionOnSet(f, {}) = 0 /\ SumFunctionOnSet(g, {}) = 0
        /\ SumFunctionOnSet(h, {}) = 0
    BY SumEmpty
  <2>2. SumFunctionOnSet(h, {}) = SumFunctionOnSet(f, {}) + SumFunctionOnSet(g, {})
    BY <2>1
  <2> QED BY <2>2
<1>4. Pick(v) \in v  BY <1>3, PickIn
<1> DEFINE r == v \ {Pick(v)}
<1>5. r \notin Bad /\ r \in SUBSET S  BY <1>2, <1>4
<1>6. SumFunctionOnSet(h, r) = SumFunctionOnSet(f, r) + SumFunctionOnSet(g, r)  BY <1>5
<1>7. /\ SumFunctionOnSet(f, v) = f[Pick(v)] + SumFunctionOnSet(f, r)
      /\ SumFunctionOnSet(g, v) = g[Pick(v)] + SumFunctionOnSet(g, r)
      /\ SumFunctionOnSet(h, v) = h[Pick(v)] + SumFunctionOnSet(h, r)
  BY <1>3, SumUnfold, FS_Subset
<1>8. SumFunctionOnSet(f, r) \in Int /\ SumFunctionOnSet(g, r) \in Int
  <2>1. IsFiniteSet(r) /\ \A y \in r : f[y] \in Int /\ g[y] \in Int  BY <1>5, FS_Subset
  <2> HIDE DEF r
  <2> QED BY <2>1, SumInt
<1>9. /\ f[Pick(v)] \in Int /\ g[Pick(v)] \in Int
      /\ h[Pick(v)] = f[Pick(v)] + g[Pick(v)]
  BY <1>4
<1>10. SumFunctionOnSet(h, v) = SumFunctionOnSet(f, v) + SumFunctionOnSet(g, v)
  <2> HIDE DEF r
  <2> QED BY <1>6, <1>7, <1>8, <1>9
<1> QED BY <1>10

-----------------------------------------------------------------------------
(* Recursive functions: what they are up to a number, by a least counterexample. *)

\* A set of numbers has a least one.
LEMMA LeastNumber ==
  ASSUME NEW S \in SUBSET Nat, S # {}
  PROVE  \E x \in S : \A y \in S : x <= y
  <1>1. PICK n \in S : n \in Nat
    OBVIOUS
  <1> DEFINE UpToIn(k) == {y \in S : y <= k}
             T == {UpToIn(k) : k \in UpToIn(n)}
  <1>2. IsFiniteSet(0..n)
    BY <1>1, FS_Interval
  <1>3. T \in SUBSET SUBSET (0..n) /\ T # {}
    <2>1. n \in UpToIn(n)
      BY <1>1
    <2>2. ASSUME NEW k \in Nat, k <= n, NEW y \in Nat, y <= k PROVE y \in 0..n
      BY <1>1, <2>2
    <2>3. ASSUME NEW k \in UpToIn(n) PROVE UpToIn(k) \in SUBSET (0..n)
      BY <2>2
    <2> QED
      BY <2>1, <2>3, Zenon
  <1>4. PICK v \in T : \A y \in T : y \subseteq v => y = v
    <2> HIDE DEF T
    <2>1. PICK D : D = 0..n
      OBVIOUS
    <2>2. IsFiniteSet(D) /\ T \in SUBSET SUBSET D /\ T # {}
      BY <1>2, <1>3, <2>1
    <2> QED
      BY ONLY <2>2, MinimalSubset
  <1>5. PICK x \in S : x <= n /\ v = UpToIn(x)
    BY <1>4
  <1>6. ASSUME NEW y \in S, ~ (x <= y) PROVE FALSE
    <2>1. x \in Nat /\ y \in Nat /\ n \in Nat
      BY <1>1
    <2>2. y <= n /\ y <= x
      BY <1>5, <1>6, <2>1
    <2>3. UpToIn(y) \subseteq UpToIn(x)
      <3>1. ASSUME NEW z \in S, z <= y PROVE z <= x
        <4>1. z \in Nat
          OBVIOUS
        <4> QED
          BY <2>1, <2>2, <3>1, <4>1
      <3> QED
        BY <3>1
    <2>4. UpToIn(y) \in T
      BY <2>2, Zenon
    <2>5. x \in UpToIn(x) /\ x \notin UpToIn(y)
      BY <1>6, <2>1
    <2> QED
      BY <1>4, <1>5, <2>3, <2>4, <2>5, Zenon
  <1> QED
    BY <1>6

\* What holds of 0, and of a number if of the one before, holds up to n.
LEMMA UpTo ==
  ASSUME NEW n \in Nat, NEW Good, 0 \in Good, \A i \in 1..n : i - 1 \in Good => i \in Good
  PROVE  \A i \in 0..n : i \in Good
  <1> DEFINE Bad == {i \in 0..n : i \notin Good}
  <1>1. SUFFICES ASSUME Bad # {} PROVE FALSE
    OBVIOUS
  <1>2. PICK x \in Bad : \A y \in Bad : x <= y
    <2>1. Bad \in SUBSET Nat
      OBVIOUS
    <2> HIDE DEF Bad
    <2> QED
      BY <1>1, <2>1, LeastNumber
  <1>3. x \in 1..n /\ x - 1 \in 0..n /\ x - 1 \notin Bad
    BY <1>2
  <1> QED
    BY <1>2, <1>3

\* Values of S from the first one on, each made by a step from the one before.
Unrolls(f, S, n, first, step) ==
    /\ f \in [0..n -> S]
    /\ f[0] = first
    /\ \A i \in 1..n : f[i] = step[<<i, f[i - 1]>>]

\* A function may be defined by what it makes of its value before.
LEMMA RecursionExists ==
  ASSUME NEW S, NEW n \in Nat, NEW first \in S, NEW step \in [(1..n) \X S -> S]
  PROVE  \E f : Unrolls(f, S, n, first, step)
  <1> DEFINE Fits(f, m) == f[0] = first /\ \A i \in 1..m : f[i] = step[<<i, f[i - 1]>>]
             Good == {m \in 0..n : \E f \in [0..m -> S] : Fits(f, m)}
  <1>1. 0 \in Good
    <2> DEFINE c == [i \in 0..0 |-> first]
    <2>1. c \in [0..0 -> S] /\ c[0] = first /\ 0 \in 0..n
      OBVIOUS
    <2>2. 1..0 = {}
      OBVIOUS
    <2> HIDE DEF c
    <2>3. \E f \in [0..0 -> S] : Fits(f, 0)
      BY <2>1, <2>2
    <2> QED
      BY <2>1, <2>3
  <1>2. ASSUME NEW m \in 1..n, m - 1 \in Good PROVE m \in Good
    <2>1. PICK f \in [0..(m - 1) -> S] : Fits(f, m - 1)
      BY <1>2
    <2>2. m - 1 \in 0..(m - 1) /\ f[m - 1] \in S
      OBVIOUS
    <2>3. step[<<m, f[m - 1]>>] \in S
      BY <2>2
    <2> DEFINE g == [i \in 0..m |-> IF i = m THEN step[<<m, f[m - 1]>>] ELSE f[i]]
    <2>4. g \in [0..m -> S]
      BY <2>3
    <2>5. g[0] = first
      BY <2>1
    <2>6. ASSUME NEW i \in 1..m PROVE g[i] = step[<<i, g[i - 1]>>]
      <3>1. g[i - 1] = f[i - 1]
        OBVIOUS
      <3>2. CASE i = m
        <4>1. g[i] = step[<<m, f[m - 1]>>] /\ g[m - 1] = f[m - 1]
          BY <3>1, <3>2
        <4> HIDE DEF g
        <4> QED
          BY <3>2, <4>1
      <3>3. CASE i # m
        <4>1. i \in 1..(m - 1) /\ g[i] = f[i]
          BY <3>3
        <4> QED
          BY <2>1, <3>1, <4>1
      <3> QED
        BY <3>2, <3>3
    <2> HIDE DEF g
    <2> QED
      BY <2>4, <2>5, <2>6
  <1>3. \A i \in 0..n : i \in Good
    <2> HIDE DEF Good
    <2> QED
      BY <1>1, <1>2, UpTo
  <1>4. PICK f \in [0..n -> S] : Fits(f, n)
    BY <1>3
  <1> QED
    BY <1>4 DEF Unrolls

\* What a sum over n consecutive numbers above b comes to after each of them.
ComesTo(f, g, b, n) ==
    /\ DOMAIN f = (b + 1)..(b + n)
    /\ \A i \in (b + 1)..(b + n) : f[i] \in Int
    /\ g[0] = 0
    /\ \A i \in 1..n : g[i - 1] \in Int /\ g[i] = g[i - 1] + f[b + i]

LEMMA SumComesTo ==
  ASSUME NEW b \in Nat, NEW n \in Nat, NEW f, NEW g, ComesTo(f, g, b, n)
  PROVE  SumFunction(f) = g[n]
  <1>0. /\ DOMAIN f = (b + 1)..(b + n)
        /\ \A i \in (b + 1)..(b + n) : f[i] \in Int
        /\ g[0] = 0
        /\ \A i \in 1..n : g[i - 1] \in Int /\ g[i] = g[i - 1] + f[b + i]
    BY DEF ComesTo
  <1> DEFINE S(m) == (b + 1)..(b + m)
             Good == {m \in 0..n : SumFunctionOnSet(f, S(m)) = g[m]}
  <1>1. 0 \in Good
    <2>1. S(0) = {}
      OBVIOUS
    <2> QED
      BY <1>0, <2>1, SumEmpty
  <1>2. ASSUME NEW m \in 1..n, m - 1 \in Good PROVE m \in Good
    <2>1. PICK T, x : T = S(m - 1) /\ x = b + m /\ x \in Int
      OBVIOUS
    <2>2. S(m) = T \cup {x} /\ x \notin T /\ T \cup {x} \subseteq S(n)
      BY <2>1
    <2>3. IsFiniteSet(T)
      <3>1. b + 1 \in Int /\ b + (m - 1) \in Int
        OBVIOUS
      <3> QED
        BY <2>1, <3>1, FS_Interval
    <2>4. \A y \in T \cup {x} : f[y] \in Int
      BY <1>0, <2>2
    <2>5. SumFunctionOnSet(f, T \cup {x}) = SumFunctionOnSet(f, T) + f[x]
      BY <2>2, <2>3, <2>4, SumAdd
    <2>6. SumFunctionOnSet(f, T) = g[m - 1]
      BY <1>2, <2>1
    <2>7. g[m] = g[m - 1] + f[x]
      BY <1>0, <2>1
    <2>8. SumFunctionOnSet(f, S(m)) = g[m]
      BY <2>2, <2>5, <2>6, <2>7
    <2> QED
      BY <2>8
  <1>3. \A m \in 0..n : m \in Good
    <2> HIDE DEF Good
    <2> QED
      BY <1>1, <1>2, UpTo
  <1> QED
    BY <1>0, <1>3 DEF SumFunction

LEMMA SumFromOne ==
  ASSUME NEW n \in Nat, NEW f, NEW g, ComesTo(f, g, 0, n)
  PROVE  SumFunction(f) = g[n]
  <1>1. PICK b \in Nat : b = 0
    OBVIOUS
  <1>2. ComesTo(f, g, b, n)
    BY <1>1
  <1> QED
    BY <1>2, SumComesTo

================================================================================
