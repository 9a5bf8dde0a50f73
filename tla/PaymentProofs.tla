--------------------------- MODULE PaymentProofs ----------------------------
(***************************************************************************)
(* Proofs about amounts for every number of decimals.                      *)
(*                                                                         *)
(* The library's induction theorems take an operator, which the provers    *)
(* cannot instantiate.  Here the predicate is the set of the numbers it    *)
(* holds of: what is left of Nat would have a least member, and that one a *)
(* predecessor.  From that follow what a recursive function computes, the  *)
(* powers of ten, the digits of a number, and at last that parsing and     *)
(* formatting lose nothing.                                                *)
(***************************************************************************)
EXTENDS Payment, WellFoundedInduction, TLAPS

\* The naturals are well-founded, in first-order terms.
LEMMA LessThan == \A x, y \in Nat : x < y => <<x, y>> \in OpToRel(<, Nat)
BY DEF OpToRel

LEMMA Least ==
  ASSUME NEW T \in SUBSET Nat, T # {}
  PROVE  \E m \in T : \A k \in T : m <= k
<1>1. PICK m \in T : \A k \in T : ~(<<k, m>> \in OpToRel(<, Nat))
  BY WFMin, NatLessThanWellFounded
<1>2. \A k \in T : ~(k < m)
  BY <1>1, LessThan
<1>. QED
  BY <1>2

\* A set of naturals with 0 and every successor is all of them.
LEMMA Induction ==
  ASSUME NEW S \in SUBSET Nat, 0 \in S, \A n \in S : n + 1 \in S
  PROVE  S = Nat
<1>1. SUFFICES ASSUME Nat \ S # {} PROVE FALSE
  OBVIOUS
<1>2. PICK m \in Nat \ S : \A k \in Nat \ S : m <= k
  BY <1>1, Least
<1>3. m # 0 /\ m - 1 \in Nat /\ ~(m <= m - 1) /\ (m - 1) + 1 = m
  BY <1>2
<1>. QED
  BY <1>2, <1>3

\* g is what a recursion yields up to n.
Approximates(g, n, c, step) ==
  /\ g[0] = c
  /\ \A i \in Nat : i < n => g[i + 1] = step[<<i, g[i]>>]

LEMMA Approximation ==
  ASSUME NEW V, NEW c \in V, NEW step \in [Nat \X V -> V], NEW n \in Nat
  PROVE  \E g \in [0..n -> V] : Approximates(g, n, c, step)
<1> DEFINE S == {m \in Nat : \E g \in [0..m -> V] : Approximates(g, m, c, step)}
<1>1. 0 \in S
  <2>1. PICK g : g = [i \in 0..0 |-> c]
    OBVIOUS
  <2>2. g \in [0..0 -> V] /\ Approximates(g, 0, c, step)
    BY <2>1 DEF Approximates
  <2>. QED
    BY <2>2
<1>2. ASSUME NEW m \in S PROVE m + 1 \in S
  <2>1. PICK g \in [0..m -> V] : Approximates(g, m, c, step)
    OBVIOUS
  <2>2. PICK h : h = [i \in 0..m + 1 |-> IF i <= m THEN g[i] ELSE step[<<m, g[m]>>]]
    OBVIOUS
  <2>3. m \in Nat /\ m + 1 \in Nat /\ g[m] \in V /\ step[<<m, g[m]>>] \in V
    OBVIOUS
  <2>4. h \in [0..m + 1 -> V]
    BY <2>2, <2>3
  <2>5. \A i \in 0..m : h[i] = g[i]
    BY <2>2, <2>3
  <2>6. h[m + 1] = step[<<m, g[m]>>]
    BY <2>2, <2>3
  <2>7. Approximates(h, m + 1, c, step)
    <3>1. h[0] = c
      BY <2>1, <2>3, <2>5 DEF Approximates
    <3>2. ASSUME NEW i \in Nat, i < m + 1 PROVE h[i + 1] = step[<<i, h[i]>>]
      <4>1. CASE i < m
        BY <2>1, <2>3, <2>5, <4>1 DEF Approximates
      <4>2. CASE i = m
        BY <2>3, <2>5, <2>6, <4>2
      <4>. QED
        BY <2>3, <3>2, <4>1, <4>2
    <3>. QED
      BY <3>1, <3>2 DEF Approximates
  <2>. QED
    BY <2>3, <2>4, <2>7, Zenon
<1>3. S = Nat
  <2>. HIDE DEF S
  <2>1. S \in SUBSET Nat
    BY DEF S
  <2>. QED
    BY <1>1, <1>2, <2>1, Induction
<1>. QED
  BY <1>3

\* Two such functions agree as far as both go,
LEMMA SameApproximation ==
  ASSUME NEW c, NEW step, NEW n \in Nat, NEW m \in Nat, NEW g, NEW h,
         Approximates(g, n, c, step), Approximates(h, m, c, step)
  PROVE  \A i \in Nat : i <= n /\ i <= m => g[i] = h[i]
<1> DEFINE S == {i \in Nat : i <= n /\ i <= m => g[i] = h[i]}
<1>1. 0 \in S
  BY DEF Approximates
<1>2. ASSUME NEW i \in S PROVE i + 1 \in S
  <2>1. i \in Nat /\ (i + 1 <= n => i < n /\ i <= n) /\ (i + 1 <= m => i < m /\ i <= m)
    OBVIOUS
  <2>2. i + 1 <= n => g[i + 1] = step[<<i, g[i]>>]
    BY <2>1 DEF Approximates
  <2>3. i + 1 <= m => h[i + 1] = step[<<i, h[i]>>]
    BY <2>1 DEF Approximates
  <2>4. i + 1 <= n /\ i + 1 <= m => g[i] = h[i]
    BY <2>1
  <2>5. i + 1 <= n /\ i + 1 <= m => g[i + 1] = h[i + 1]
    BY <2>2, <2>3, <2>4, Zenon
  <2>. QED
    BY <2>1, <2>5
<1>3. S = Nat
  <2>. HIDE DEF S
  <2>1. S \in SUBSET Nat
    BY DEF S
  <2>. QED
    BY <1>1, <1>2, <2>1, Induction
<1>. QED
  BY <1>3

\* so that there is one that goes all the way.
Follows(f, c, step) == f[0] = c /\ \A n \in Nat : f[n + 1] = step[<<n, f[n]>>]

LEMMA Recursion ==
  ASSUME NEW V, NEW c \in V, NEW step \in [Nat \X V -> V]
  PROVE  \E f \in [Nat -> V] : Follows(f, c, step)
<1> DEFINE up(n) == CHOOSE g \in [0..n -> V] : Approximates(g, n, c, step)
<1>1. \A n \in Nat : up(n) \in [0..n -> V] /\ Approximates(up(n), n, c, step)
  BY Approximation
<1> HIDE DEF up
<1>2. PICK f : f = [n \in Nat |-> up(n)[n]]
  OBVIOUS
<1>3. \A n \in Nat : f[n] = up(n)[n] /\ f[n] \in V
  BY <1>1, <1>2
<1>4. f[0] = c
  BY <1>1, <1>3 DEF Approximates
<1>5. ASSUME NEW n \in Nat PROVE f[n + 1] = step[<<n, f[n]>>]
  <2>0. n + 1 \in Nat /\ n <= n + 1 /\ n <= n
    OBVIOUS
  <2>1. up(n + 1)[n] = up(n)[n]
    <3>1. PICK g : g = up(n)
      OBVIOUS
    <3>2. PICK h : h = up(n + 1)
      OBVIOUS
    <3>3. Approximates(g, n, c, step) /\ Approximates(h, n + 1, c, step)
      BY <1>1, <2>0, <3>1, <3>2
    <3>. QED
      BY <2>0, <3>1, <3>2, <3>3, SameApproximation
  <2>2. up(n + 1)[n + 1] = step[<<n, up(n + 1)[n]>>]
    BY <1>1 DEF Approximates
  <2>. QED
    BY <1>3, <2>1, <2>2
<1>. QED
  BY <1>2, <1>3, <1>4, <1>5 DEF Follows
-----------------------------------------------------------------------------
\* Pow10 is what its definition says.
LEMMA Pow10Equation ==
  Pow10 = [n \in Nat |-> IF n = 0 THEN 1 ELSE 10 * Pow10[n - 1]]
<1>1. PICK step : step = [p \in Nat \X Nat |-> 10 * p[2]]
  OBVIOUS
<1>2. step \in [Nat \X Nat -> Nat]
  BY <1>1
<1>3. PICK f \in [Nat -> Nat] : Follows(f, 1, step)
  BY <1>2, Recursion
<1>4. ASSUME NEW n \in Nat PROVE f[n] = IF n = 0 THEN 1 ELSE 10 * f[n - 1]
  <2>1. CASE n = 0
    BY <1>3, <2>1 DEF Follows
  <2>2. CASE n # 0
    <3>1. n - 1 \in Nat /\ (n - 1) + 1 = n
      BY <2>2
    <3>. QED
      BY <1>1, <1>3, <2>2, <3>1 DEF Follows
  <2>. QED
    BY <2>1, <2>2
<1>5. f = [n \in Nat |-> IF n = 0 THEN 1 ELSE 10 * f[n - 1]]
  BY <1>3, <1>4
<1>. QED
  BY <1>5, Zenon DEF Pow10

LEMMA Powers ==
  /\ Pow10[0] = 1
  /\ \A n \in Nat : /\ Pow10[n] \in Nat /\ Pow10[n] > 0
                    /\ Pow10[n + 1] = 10 * Pow10[n]
<1>1. Pow10[0] = 1 /\ \A n \in Nat : Pow10[n + 1] = 10 * Pow10[n]
  <2>1. \A n \in Nat : Pow10[n] = IF n = 0 THEN 1 ELSE 10 * Pow10[n - 1]
    BY Pow10Equation, Zenon
  <2>2. Pow10[0] = 1
    BY <2>1
  <2>3. ASSUME NEW n \in Nat PROVE Pow10[n + 1] = 10 * Pow10[n]
    <3>1. n + 1 \in Nat /\ n + 1 # 0 /\ (n + 1) - 1 = n
      OBVIOUS
    <3>. QED
      BY <2>1, <3>1
  <2>. QED
    BY <2>2, <2>3
<1> DEFINE S == {n \in Nat : Pow10[n] \in Nat /\ Pow10[n] > 0}
<1>2. 0 \in S /\ \A n \in S : n + 1 \in S
  BY <1>1
<1>3. S = Nat
  <2>. HIDE DEF S
  <2>1. S \in SUBSET Nat
    BY DEF S
  <2>. QED
    BY <1>2, <2>1, Induction
<1>. QED
  BY <1>1, <1>3

\* The function local to Written
LEMMA WrittenChoice ==
  ASSUME NEW d
  PROVE  Written(d) =
           (CHOOSE g : g = [n \in 0..Len(d) |-> IF n = 0 THEN 0 ELSE 10 * g[n - 1] + d[n]])[Len(d)]
BY DEF Written

\* The values of the first digits, up to each of them
Reads(upTo, d) ==
  /\ upTo \in [0..Len(d) -> Nat] /\ upTo[0] = 0
  /\ \A n \in Nat : n < Len(d) => upTo[n + 1] = 10 * upTo[n] + d[n + 1]

LEMMA WrittenIsRead ==
  ASSUME NEW d \in Seq(0..9)
  PROVE  \E upTo : Reads(upTo, d) /\ Written(d) = upTo[Len(d)]
<1>0. PICK L \in Nat : L = Len(d)
  OBVIOUS
<1>1. \A n \in 1..L : d[n] \in 0..9
  BY <1>0
<1> DEFINE Eq(g) == g = [n \in 0..L |-> IF n = 0 THEN 0 ELSE 10 * g[n - 1] + d[n]]
<1>2. \E g : Eq(g)
  <2>1. PICK step : step = [p \in Nat \X Nat |-> IF p[1] < L THEN 10 * p[2] + d[p[1] + 1] ELSE 0]
    OBVIOUS
  <2>2. step \in [Nat \X Nat -> Nat]
    <3>1. ASSUME NEW n \in Nat, NEW v \in Nat PROVE step[<<n, v>>] \in Nat
      <4>1. step[<<n, v>>] = IF n < L THEN 10 * v + d[n + 1] ELSE 0
        BY <2>1
      <4>2. n < L => d[n + 1] \in 0..9
        BY <1>1
      <4>. QED
        BY <4>1, <4>2
    <3>. QED
      BY <2>1, <3>1
  <2>3. PICK f \in [Nat -> Nat] : Follows(f, 0, step)
    BY <2>2, Recursion
  <2>4. PICK g : g = [n \in 0..L |-> f[n]]
    OBVIOUS
  <2>5. ASSUME NEW n \in 0..L PROVE g[n] = IF n = 0 THEN 0 ELSE 10 * g[n - 1] + d[n]
    <3>1. CASE n = 0
      BY <2>3, <2>4, <3>1 DEF Follows
    <3>2. CASE n # 0
      <4>1. n - 1 \in Nat /\ (n - 1) + 1 = n /\ n - 1 < L /\ n - 1 \in 0..L
        BY <3>2
      <4>2. f[n] = step[<<n - 1, f[n - 1]>>]
        BY <2>3, <4>1 DEF Follows
      <4>3. f[n] = 10 * f[n - 1] + d[n]
        BY <2>1, <2>3, <4>1, <4>2
      <4>. QED
        BY <2>4, <3>2, <4>1, <4>3
    <3>. QED
      BY <3>1, <3>2
  <2>. QED
    BY <2>4, <2>5
<1>3. PICK upTo : upTo = CHOOSE g : Eq(g)
  OBVIOUS
<1>4. Written(d) = upTo[L] /\ Eq(upTo)
  <2>1. Written(d) = upTo[L]
    BY <1>0, <1>3, WrittenChoice
  <2>. QED
    BY <1>2, <1>3, <2>1
<1>5. upTo[0] = 0 /\ \A n \in Nat : n < L => upTo[n + 1] = 10 * upTo[n] + d[n + 1]
  <2>1. upTo[0] = 0
    BY <1>4
  <2>2. ASSUME NEW n \in Nat, n < L PROVE upTo[n + 1] = 10 * upTo[n] + d[n + 1]
    <3>1. n + 1 \in 0..L /\ n + 1 # 0 /\ (n + 1) - 1 = n
      BY <2>2
    <3>. QED
      BY <1>4, <3>1
  <2>. QED
    BY <2>1, <2>2
<1>6. \A n \in 0..L : upTo[n] \in Nat
  <2> DEFINE S == {n \in Nat : n <= L => upTo[n] \in Nat}
  <2>1. 0 \in S
    BY <1>5
  <2>2. ASSUME NEW n \in S PROVE n + 1 \in S
    <3>1. n \in Nat /\ n + 1 \in Nat
      OBVIOUS
    <3>2. ASSUME n + 1 <= L PROVE upTo[n + 1] \in Nat
      <4>1. n <= L /\ n < L /\ n + 1 \in 1..L
        BY <3>1, <3>2
      <4>2. upTo[n] \in Nat /\ d[n + 1] \in Nat
        BY <1>1, <4>1
      <4>3. upTo[n + 1] = 10 * upTo[n] + d[n + 1]
        BY <1>5, <3>1, <4>1
      <4>. QED
        BY <4>2, <4>3
    <3>. QED
      BY <3>1, <3>2
  <2>3. S = Nat
    <3>. HIDE DEF S
    <3>1. S \in SUBSET Nat
      BY DEF S
    <3>. QED
      BY <2>1, <2>2, <3>1, Induction
  <2>. QED
    BY <2>3
<1>7. upTo \in [0..L -> Nat]
  BY <1>4, <1>6
<1>. QED
  BY <1>0, <1>4, <1>5, <1>7 DEF Reads

\* The first i + k digits are the first i and then k more, which stay below 10 to the k.
LEMMA ReadsFurther ==
  ASSUME NEW d \in Seq(0..9), NEW upTo, Reads(upTo, d), NEW i \in 0..Len(d), NEW k \in Nat,
         NEW n \in 0..Len(d), n = i + k
  PROVE  \E r \in Nat : r < Pow10[k] /\ upTo[n] = upTo[i] * Pow10[k] + r
<1>0. PICK L \in Nat : L = Len(d)
  OBVIOUS
<1>1. \A m \in 1..L : d[m] \in 0..9
  BY <1>0
<1>2. \A m \in 0..L : upTo[m] \in Nat
  BY <1>0 DEF Reads
<1> DEFINE S == {j \in Nat : i + j <= L =>
                   \E r \in Nat : r < Pow10[j] /\ upTo[i + j] = upTo[i] * Pow10[j] + r}
<1>3. 0 \in S
  <2>1. Pow10[0] = 1 /\ i + 0 = i
    BY Powers
  <2>2. PICK u \in Nat : u = upTo[i]
    BY <1>0, <1>2
  <2>3. 0 \in Nat /\ 0 < 1 /\ u = u * 1 + 0
    OBVIOUS
  <2>. QED
    BY <2>1, <2>2, <2>3
<1>4. ASSUME NEW j \in S PROVE j + 1 \in S
  <2>1. SUFFICES ASSUME i + (j + 1) <= L
                 PROVE  \E r \in Nat : r < Pow10[j + 1]
                                       /\ upTo[i + (j + 1)] = upTo[i] * Pow10[j + 1] + r
    OBVIOUS
  <2>2. j \in Nat /\ i + j \in Nat /\ i + j <= L /\ i + j < Len(d) /\ i + (j + 1) = (i + j) + 1
        /\ (i + j) + 1 \in 1..L
    BY <1>0, <2>1
  <2>3. PICK r \in Nat : r < Pow10[j] /\ upTo[i + j] = upTo[i] * Pow10[j] + r
    BY <2>2
  <2>4. upTo[i + (j + 1)] = 10 * upTo[i + j] + d[(i + j) + 1]
    BY <2>2, Zenon DEF Reads
  <2>5. PICK e \in 0..9 : e = d[(i + j) + 1]
    BY <1>1, <2>2
  <2>6. PICK p \in Nat : p = Pow10[j] /\ Pow10[j + 1] = 10 * p
    BY <2>2, Powers
  <2>7. PICK u \in Nat : u = upTo[i]
    BY <1>0, <1>2
  <2>8. 10 * r + e \in Nat /\ 10 * r + e < 10 * p
    BY <2>3, <2>6
  <2>9. 10 * (u * p + r) + e = u * (10 * p) + (10 * r + e)
    OBVIOUS
  <2>10. upTo[i + (j + 1)] = upTo[i] * Pow10[j + 1] + (10 * r + e)
    BY <2>3, <2>4, <2>5, <2>6, <2>7, <2>9
  <2>. QED
    BY <2>6, <2>8, <2>10
<1>5. S = Nat
  <2>. HIDE DEF S
  <2>1. S \in SUBSET Nat
    BY DEF S
  <2>. QED
    BY <1>3, <1>4, <2>1, Induction
<1>. QED
  BY <1>0, <1>5

LEMMA Division ==
  ASSUME NEW a \in Nat, NEW q \in Nat, NEW b \in Nat, NEW r \in Nat, r < b, a = q * b + r
  PROVE  a \div b = q /\ a % b = r
OBVIOUS

\* The number is below the next power, and its digits can be taken from it.
LEMMA Digits ==
  ASSUME NEW d \in Seq(0..9), NEW L \in Nat, L = Len(d)
  PROVE  /\ Written(d) \in Nat /\ Written(d) < Pow10[L]
         /\ \A i \in 1..L : (Written(d) \div Pow10[L - i]) % 10 = d[i]
<1>1. PICK upTo : Reads(upTo, d) /\ Written(d) = upTo[L]
  BY WrittenIsRead
<1>2. (\A n \in 0..L : upTo[n] \in Nat) /\ \A n \in 1..L : d[n] \in 0..9
  BY <1>1 DEF Reads
<1>3. Written(d) \in Nat /\ Written(d) < Pow10[L]
  <2>1. PICK r \in Nat : r < Pow10[L] /\ upTo[L] = upTo[0] * Pow10[L] + r
    <3>1. 0 \in 0..Len(d) /\ L \in 0..Len(d) /\ L = 0 + L
      OBVIOUS
    <3>. QED
      BY <1>1, <3>1, ReadsFurther
  <2>2. upTo[0] = 0
    BY <1>1, Zenon DEF Reads
  <2>3. Pow10[L] \in Nat
    BY Powers
  <2>. QED
    BY <1>1, <2>1, <2>2, <2>3
<1>4. ASSUME NEW i \in 1..L PROVE (Written(d) \div Pow10[L - i]) % 10 = d[i]
  <2>0. L - i \in Nat /\ L = i + (L - i)
    OBVIOUS
  <2>1. PICK k \in Nat : k = L - i /\ L = i + k
    BY <2>0
  <2>2. i \in 0..Len(d) /\ L \in 0..Len(d) /\ i - 1 \in Nat /\ i - 1 < Len(d) /\ (i - 1) + 1 = i
        /\ i - 1 \in 0..L /\ i \in 0..L
    BY <2>1
  <2>3. PICK r \in Nat : r < Pow10[k] /\ upTo[L] = upTo[i] * Pow10[k] + r
    BY <1>1, <2>1, <2>2, ReadsFurther
  <2>4. PICK b \in Nat, u \in Nat, v \in Nat, w \in Nat, e \in 0..9 :
          b = Pow10[k] /\ u = upTo[i] /\ v = upTo[i - 1] /\ w = Written(d) /\ e = d[i]
    BY <1>2, <1>3, <2>2, Powers
  <2>5. w \div b = u
    <3>1. w = u * b + r /\ r < b
      BY <1>1, <2>3, <2>4
    <3>. QED
      BY <3>1, Division
  <2>6. upTo[(i - 1) + 1] = 10 * upTo[i - 1] + d[(i - 1) + 1]
    BY <1>1, <2>2, Zenon DEF Reads
  <2>7. u = 10 * v + e
    BY <2>2, <2>4, <2>6
  <2>8. u % 10 = e
    BY <2>7
  <2>. QED
    BY <2>1, <2>4, <2>5, <2>8
<1>. QED
  BY <1>3, <1>4
-----------------------------------------------------------------------------
\* Padding appends zeros up to the last decimal.
LEMMA Padding ==
  ASSUME NEW f \in Seq(0..9), NEW l \in Nat, l = Len(f), l <= Decimals
  PROVE  /\ Padded(f) \in Seq(0..9) /\ Len(Padded(f)) = Decimals
         /\ \A i \in 1..Decimals : Padded(f)[i] = IF i <= l THEN f[i] ELSE 0
<1>1. PICK m \in Nat : m = Decimals - l
  BY PaymentAssumption
<1>2. PICK z : z = [i \in 1..m |-> 0]
  OBVIOUS
<1>3. z \in Seq(0..9) /\ Len(z) = m
  BY <1>2
<1>4. Padded(f) = f \o z
  BY <1>1, <1>2 DEF Padded
<1>5. /\ f \o z \in Seq(0..9) /\ Len(f \o z) = l + m
      /\ \A i \in 1..l + m : (f \o z)[i] = IF i <= l THEN f[i] ELSE z[i - l]
  BY <1>3
<1>6. l + m = Decimals /\ \A i \in 1..l + m : i > l => z[i - l] = 0
  BY <1>1, <1>2, PaymentAssumption
<1>. QED
  BY <1>4, <1>5, <1>6

\* Behind the last digit that is not zero there are only zeros.
LEMMA LastDigit ==
  ASSUME NEW p, NEW n \in Nat
  PROVE  \E k \in 0..n : (k > 0 => p[k] # 0) /\ \A i \in k + 1..n : p[i] = 0
<1> DEFINE T == {k \in 0..n : \A i \in k + 1..n : p[i] = 0}
<1>1. n \in T /\ T \in SUBSET Nat
  OBVIOUS
<1>2. PICK k \in T : \A j \in T : k <= j
  <2>. HIDE DEF T
  <2>. QED
    BY <1>1, Least
<1>3. ASSUME k > 0, p[k] = 0 PROVE FALSE
  <2>1. k - 1 \in 0..n /\ ~(k <= k - 1)
    BY <1>3
  <2>2. \A i \in (k - 1) + 1..n : i = k \/ i \in k + 1..n
    BY <1>3
  <2>3. k - 1 \in T
    BY <1>3, <2>1, <2>2
  <2>. QED
    BY <1>2, <2>1, <2>3
<1>. QED
  BY <1>2, <1>3

\* n is formatted as w and the first digits of p, the rest being zeros.
Formats(n, w, p, last) ==
  /\ FormatDrkAtomic(n) = Numeral(w, SubSeq(p, 1, last))
  /\ last > 0 => p[last] # 0
  /\ \A i \in last + 1..Decimals : p[i] = 0

\* Formatting takes a number apart that was put together from a whole part and as many
\* digits as there are decimals, and drops the zeros behind the last other digit.
LEMMA Formatting ==
  ASSUME NEW w \in Nat, NEW p \in Seq(0..9), Len(p) = Decimals,
         NEW n \in Nat, n = w * Unit + Written(p)
  PROVE  \E last \in 0..Decimals : Formats(n, w, p, last)
<1>1. Decimals \in Nat
  BY PaymentAssumption
<1>2. /\ Unit \in Nat /\ Written(p) \in Nat /\ Written(p) < Unit
      /\ \A i \in 1..Decimals : (Written(p) \div Pow10[Decimals - i]) % 10 = p[i]
  <2>1. Unit \in Nat
    BY <1>1, Powers DEF Unit
  <2>. QED
    BY <1>1, <2>1, Digits DEF Unit
<1>3. n \div Unit = w /\ n % Unit = Written(p)
  <2>1. PICK u \in Nat, v \in Nat : u = Unit /\ v = Written(p)
    BY <1>2
  <2>2. v < u /\ n = w * u + v
    BY <1>2, <2>1
  <2>3. n \div u = w /\ n % u = v
    BY <2>2, Division
  <2>. QED
    BY <2>1, <2>3
<1>4. PICK digits : digits = [i \in 1..Decimals |-> ((n % Unit) \div Pow10[Decimals - i]) % 10]
  OBVIOUS
<1>5. digits = p
  BY <1>1, <1>2, <1>3, <1>4
<1>6. PICK last :
        last = CHOOSE k \in 0..Decimals :
                 (k > 0 => digits[k] # 0) /\ \A i \in k + 1..Decimals : digits[i] = 0
  OBVIOUS
<1>7. last \in 0..Decimals /\ (last > 0 => p[last] # 0) /\ \A i \in last + 1..Decimals : p[i] = 0
  BY <1>1, <1>5, <1>6, LastDigit
<1>8. FormatDrkAtomic(n) = Numeral(w, SubSeq(p, 1, last))
  <2>1. FormatDrkAtomic(n) = Numeral(n \div Unit, SubSeq(digits, 1, last))
    BY <1>4, <1>6, Zenon DEF FormatDrkAtomic
  <2>. QED
    BY <1>3, <1>5, <2>1
<1>. QED
  BY <1>7, <1>8 DEF Formats

\* What is accepted is in the atomic units of its numeral.
LEMMA Parsed ==
  ASSUME NEW t \in Numerals
  PROVE  /\ Len(t.frac) > Decimals \/ t.whole > MaxWhole => ParseDrkAtomic(t) = None
         /\ Len(t.frac) <= Decimals =>
              LET n == t.whole * Unit + Written(Padded(t.frac)) IN
              /\ n \in Nat
              /\ t # None /\ t.whole <= MaxWhole =>
                   ParseDrkAtomic(t) = IF n = 0 THEN None ELSE n
<1>1. t.whole \in Nat /\ t.frac \in Seq(0..9) /\ Len(t.frac) \in Nat
  BY DEF Numerals
<1>2. Len(t.frac) > Decimals \/ t.whole > MaxWhole => ParseDrkAtomic(t) = None
  BY DEF ParseDrkAtomic
<1>3. ASSUME Len(t.frac) <= Decimals PROVE t.whole * Unit + Written(Padded(t.frac)) \in Nat
  <2>1. Written(Padded(t.frac)) \in Nat
    BY <1>1, <1>3, Padding, Digits, PaymentAssumption
  <2>2. Unit \in Nat
    BY PaymentAssumption, Powers DEF Unit
  <2>. QED
    BY <1>1, <2>1, <2>2
<1>4. ASSUME Len(t.frac) <= Decimals, t # None, t.whole <= MaxWhole
      PROVE  LET n == t.whole * Unit + Written(Padded(t.frac)) IN
             ParseDrkAtomic(t) = IF n = 0 THEN None ELSE n
  <2>1. ~(Len(t.frac) > Decimals) /\ ~(t.whole > MaxWhole)
    BY <1>1, <1>4, PaymentAssumption
  <2>. QED
    BY <1>4, <2>1, Zenon DEF ParseDrkAtomic
<1>. QED
  BY <1>2, <1>3, <1>4

\* A numeral and its formatted value have the same digits when they are padded, so that
\* formatting loses nothing, and parsing gives the same number again.  That number is less
\* than a coin above the limit.
THEOREM ParseFormat ==
  ASSUME None \notin Numerals, NEW t \in Numerals, IsValidDrkAmount(t)
  PROVE  LET n == ParseDrkAtomic(t)
             f == FormatDrkAtomic(n) IN
         /\ ParseDrkAtomic(f) = n
         /\ f.whole = t.whole /\ Len(f.frac) <= Len(t.frac)
         /\ \A i \in DOMAIN t.frac : t.frac[i] = IF i <= Len(f.frac) THEN f.frac[i] ELSE 0
         /\ n < (MaxWhole + 1) * Unit
<1>1. /\ t.whole \in Nat /\ t.frac \in Seq(0..9) /\ t # None
      /\ Len(t.frac) \in Nat /\ Len(t.frac) <= Decimals /\ t.whole <= MaxWhole
  BY Parsed, PaymentAssumption DEF Numerals, IsValidDrkAmount
<1>0. PICK l \in Nat, w \in Nat : l = Len(t.frac) /\ w = t.whole
  BY <1>1
<1>2. PICK p : l = Len(t.frac) /\ w = t.whole /\ p = Padded(t.frac)
  BY <1>0
<1>3. /\ p \in Seq(0..9) /\ Len(p) = Decimals
      /\ \A i \in 1..Decimals : p[i] = IF i <= l THEN t.frac[i] ELSE 0
  BY <1>1, <1>2, Padding
<1>4. PICK n \in Nat : n = w * Unit + Written(p)
  BY <1>1, <1>2, Parsed
<1>5. ParseDrkAtomic(t) = n /\ n # 0
  BY <1>1, <1>2, <1>4, Parsed DEF IsValidDrkAmount
<1>6. PICK last \in 0..Decimals :
        /\ FormatDrkAtomic(n) = Numeral(w, SubSeq(p, 1, last))
        /\ last > 0 => p[last] # 0
        /\ \A i \in last + 1..Decimals : p[i] = 0
  <2>1. \E last \in 0..Decimals : Formats(n, w, p, last)
    BY <1>3, <1>4, Formatting
  <2>. QED
    BY <2>1 DEF Formats
<1>7. PICK f : f = Numeral(w, SubSeq(p, 1, last))
  OBVIOUS
<1>8. /\ f.whole = w /\ f.frac = SubSeq(p, 1, last)
      /\ f.frac \in Seq(0..9) /\ Len(f.frac) = last
      /\ \A i \in 1..last : f.frac[i] = p[i]
  BY <1>3, <1>7, PaymentAssumption DEF Numeral
<1>9. f \in Numerals /\ f # None /\ f.whole <= MaxWhole /\ last \in Nat /\ last <= Decimals
  <2>1. f \in Numerals
    BY <1>2, <1>7, <1>8 DEF Numeral, Numerals
  <2>2. last \in Nat /\ last <= Decimals
    BY PaymentAssumption
  <2>. QED
    BY <1>1, <1>2, <1>8, <2>1, <2>2
<1>10. Padded(f.frac) = p
  <2>1. /\ Padded(f.frac) \in Seq(0..9) /\ Len(Padded(f.frac)) = Decimals
        /\ \A i \in 1..Decimals : Padded(f.frac)[i] = IF i <= last THEN f.frac[i] ELSE 0
    <3>1. PICK q \in Seq(0..9) : q = f.frac
      BY <1>8
    <3>. QED
      BY <1>8, <1>9, <3>1, Padding
  <2>2. \A i \in 1..Decimals : Padded(f.frac)[i] = p[i]
    BY <1>6, <1>8, <2>1, PaymentAssumption
  <2>. QED
    BY <1>3, <2>1, <2>2
<1>11. ParseDrkAtomic(f) = n
  <2>1. f.whole * Unit + Written(Padded(f.frac)) = n /\ Len(f.frac) <= Decimals
    BY <1>4, <1>8, <1>9, <1>10
  <2>2. ParseDrkAtomic(f) = IF n = 0 THEN None ELSE n
    BY <1>9, <2>1, Parsed
  <2>. QED
    BY <1>5, <2>2
<1>12. last <= l
  BY <1>2, <1>3, <1>6, PaymentAssumption
<1>13. \A i \in 1..l : t.frac[i] = IF i <= last THEN f.frac[i] ELSE 0
  <2> SUFFICES ASSUME NEW i \in 1..l PROVE t.frac[i] = IF i <= last THEN f.frac[i] ELSE 0
    OBVIOUS
  <2>1. i \in 1..Decimals /\ p[i] = t.frac[i]
    BY <1>1, <1>2, <1>3, PaymentAssumption
  <2>2. CASE i <= last
    BY <1>8, <2>1, <2>2
  <2>3. CASE ~(i <= last)
    BY <1>6, <2>1, <2>3
  <2>. QED
    BY <2>2, <2>3
<1>14. DOMAIN t.frac = 1..l /\ Len(f.frac) = last /\ f.whole = t.whole /\ FormatDrkAtomic(n) = f
  BY <1>1, <1>2, <1>6, <1>7, <1>8
<1>15. /\ ParseDrkAtomic(f) = n
       /\ f.whole = t.whole /\ Len(f.frac) <= Len(t.frac)
       /\ \A i \in DOMAIN t.frac : t.frac[i] = IF i <= Len(f.frac) THEN f.frac[i] ELSE 0
  BY <1>2, <1>11, <1>12, <1>13, <1>14
<1>16. n < (MaxWhole + 1) * Unit
  <2>1. Unit \in Nat /\ Written(p) \in Nat /\ Written(p) < Unit
    BY <1>3, Digits, Powers, PaymentAssumption DEF Unit
  <2>2. PICK u \in Nat, v \in Nat, m \in Nat :
          u = Unit /\ v = Written(p) /\ m = MaxWhole /\ v < u /\ w <= m
    BY <1>1, <1>2, <2>1, PaymentAssumption
  <2>3. w * u <= m * u /\ (m + 1) * u = m * u + u /\ w * u \in Nat /\ m * u \in Nat
    BY <2>2
  <2>4. w * u + v < (m + 1) * u
    BY <2>2, <2>3
  <2>. QED
    BY <1>4, <2>2, <2>4
<1>. QED
  BY <1>5, <1>14, <1>15, <1>16, Zenon
=============================================================================
