---------------------------- MODULE Paise_proofs ----------------------------
(***************************************************************************)
(* Facts about the loops of Paise for lists of every length.  A loop is a  *)
(* recursive function on 0..n, so each fact is an induction on n; it is    *)
(* written over subsets of Nat, from the well-foundedness of <.            *)
(***************************************************************************)
EXTENDS Paise, WellFoundedInduction, TLAPS

Below == OpToRel(<, Nat)

(* Every nonempty set of naturals has a least element. *)
LEMMA LeastElement ==
  ASSUME NEW T \in SUBSET Nat, T # {}
  PROVE  \E x \in T : \A y \in T : x <= y
<1>1. IsWellFoundedOn(Below, Nat)
  BY NatLessThanWellFounded, Zenon DEF Below
<1>2. PICK x \in T : \A y \in T : ~ (<<y, x>> \in Below)
  BY <1>1, WFMin, Zenon
<1>3. \A a, b \in Nat : (<<b, a>> \in Below) <=> b < a
  BY DEF Below, OpToRel
<1>4. ASSUME NEW y \in T PROVE x <= y
  <2>1. x \in Nat /\ y \in Nat
    OBVIOUS
  <2>2. ~ (y < x)
    BY <1>2, <1>3, <2>1, Zenon
  <2> QED
    BY <2>1, <2>2
<1> QED
  BY <1>4

(* Induction, for a set that holds 0 and the successor of its members. *)
LEMMA SetInduction ==
  ASSUME NEW S \in SUBSET Nat, 0 \in S, \A n \in Nat : n \in S => n + 1 \in S
  PROVE  S = Nat
<1> DEFINE T == Nat \ S
<1> SUFFICES ASSUME T # {} PROVE FALSE
  OBVIOUS
<1>1. PICK x \in T : \A y \in T : x <= y
  BY LeastElement
<1>2. x # 0 /\ x - 1 \in Nat
  BY <1>1
<1>3. x - 1 \in S
  BY <1>1, <1>2
<1> QED
  BY <1>1, <1>2, <1>3

(* A function defined by recursion on its argument exists, whatever the step
   is, when the step stays in a set: what CHOOSE needs to find it. *)
Steps(step, S, lo, hi) == \A k \in lo + 1..hi : \A s \in S : step[k][s] \in S

Recurses(g, S, lo, hi, b, step) ==
  /\ g \in [lo..hi -> S]
  /\ g[lo] = b
  /\ \A k \in lo + 1..hi : g[k] = step[k][g[k - 1]]

LEMMA RecursionExists ==
  ASSUME NEW S, NEW lo \in Int, NEW hi \in Int, lo <= hi, NEW b \in S, NEW step,
         Steps(step, S, lo, hi)
  PROVE  \E g : Recurses(g, S, lo, hi, b, step)
<1> DEFINE P(m) == \E g : Recurses(g, S, lo, lo + m, b, step)
           X == {m \in Nat : lo + m <= hi => P(m)}
<1>1. P(0)
  <2> DEFINE g == [k \in lo..lo + 0 |-> b]
  <2>1. g \in [lo..lo + 0 -> S] /\ g[lo] = b /\ lo + 1..lo + 0 = {}
    OBVIOUS
  <2> QED
    BY <2>1 DEF Recurses
<1>2. ASSUME NEW m \in Nat, lo + (m + 1) <= hi, P(m) PROVE P(m + 1)
  <2>1. PICK g : Recurses(g, S, lo, lo + m, b, step)
    BY <1>2
  <2> DEFINE j == lo + (m + 1)
             h == [k \in lo..j |-> IF k = j THEN step[j][g[j - 1]] ELSE g[k]]
  <2>2. j \in lo + 1..hi /\ j - 1 \in lo..lo + m
    BY <1>2
  <2>3. g[j - 1] \in S
    BY <2>1, <2>2 DEF Recurses
  <2>4. step[j][g[j - 1]] \in S
    BY <2>2, <2>3 DEF Steps
  <2>5. h \in [lo..j -> S] /\ h[lo] = b
    BY <2>1, <2>2, <2>4 DEF Recurses
  <2>6. \A k \in lo + 1..j : h[k] = step[k][h[k - 1]]
    BY <2>1 DEF Recurses
  <2> HIDE DEF h
  <2> QED
    BY <2>5, <2>6 DEF Recurses
<1> HIDE DEF P
<1>3. 0 \in X /\ \A m \in Nat : m \in X => m + 1 \in X
  BY <1>1, <1>2
<1>4. X = Nat
  BY <1>3, SetInduction
<1>5. P(hi - lo) /\ lo + (hi - lo) = hi
  BY <1>4
<1> QED
  BY <1>5 DEF P

-----------------------------------------------------------------------------
(* The running sum satisfies its recursion, and is integral. *)
LEMMA RunningTotalExists ==
  ASSUME NEW n \in Nat, NEW f \in [1..n -> Int]
  PROVE  \E g \in [0..n -> Int] :
           g = [k \in 0..n |-> IF k = 0 THEN 0 ELSE g[k - 1] + f[k]]
<1> DEFINE step == [k \in 1..n |-> [s \in Int |-> s + f[k]]]
<1>1. \A k \in 1..n : \A s \in Int : step[k][s] = s + f[k] /\ step[k][s] \in Int
  OBVIOUS
<1> HIDE DEF step
<1>2. Steps(step, Int, 0, n)
  BY <1>1 DEF Steps
<1>3. PICK g : Recurses(g, Int, 0, n, 0, step)
  <2>1. 0 \in Int /\ n \in Int /\ 0 <= n
    OBVIOUS
  <2> QED
    BY <1>2, <2>1, RecursionExists, Zenon
<1>4. g \in [0..n -> Int] /\ g[0] = 0 /\ \A k \in 1..n : g[k] = g[k - 1] + f[k]
  <2>1. g \in [0..n -> Int] /\ g[0] = 0 /\ \A k \in 0 + 1..n : g[k] = step[k][g[k - 1]]
    BY <1>3 DEF Recurses
  <2>2. ASSUME NEW k \in 1..n PROVE g[k] = g[k - 1] + f[k]
    <3>1. k \in 0 + 1..n /\ k - 1 \in 0..n
      OBVIOUS
    <3> QED
      BY <1>1, <2>1, <3>1
  <2> QED
    BY <2>1, <2>2
<1>5. g = [k \in 0..n |-> IF k = 0 THEN 0 ELSE g[k - 1] + f[k]]
  BY <1>4
<1> QED
  BY <1>4, <1>5

LEMMA RunningTotalRecursion ==
  ASSUME NEW n \in Nat, NEW f \in [1..n -> Int]
  PROVE  /\ RunningTotal(n, f) \in [0..n -> Int]
         /\ RunningTotal(n, f)[0] = 0
         /\ \A k \in 1..n : RunningTotal(n, f)[k] = RunningTotal(n, f)[k - 1] + f[k]
<1> DEFINE sum == RunningTotal(n, f)
           X == {m \in Nat : m <= n => sum[m] \in Int}
<1>1. sum = [k \in 0..n |-> IF k = 0 THEN 0 ELSE sum[k - 1] + f[k]]
  BY RunningTotalExists, ZenonT(60) DEF RunningTotal
<1> HIDE DEF sum
<1>2. sum[0] = 0 /\ \A k \in 1..n : sum[k] = sum[k - 1] + f[k]
  BY <1>1
<1>3. 0 \in X /\ \A m \in Nat : m \in X => m + 1 \in X
  BY <1>2
<1>4. X = Nat
  BY <1>3, SetInduction
<1>5. \A m \in 0..n : sum[m] \in Int
  BY <1>4
<1>6. sum \in [0..n -> Int]
  BY <1>1, <1>5
<1> QED
  BY <1>2, <1>6 DEF sum

(* The sum of a list of integers is an integer. *)
LEMMA TotalType ==
  ASSUME NEW n \in Nat, NEW f \in [1..n -> Int]
  PROVE  Total(n, f) \in Int
BY RunningTotalRecursion DEF Total

(* The sum of a list of naturals is a natural. *)
LEMMA TotalNonNegative ==
  ASSUME NEW n \in Nat, NEW f \in [1..n -> Nat]
  PROVE  Total(n, f) \in Nat
<1> DEFINE sum == RunningTotal(n, f)
           X == {m \in Nat : m <= n => sum[m] \in Nat}
<1>1. /\ sum[0] = 0
      /\ \A k \in 1..n : sum[k] = sum[k - 1] + f[k]
  <2>1. f \in [1..n -> Int]
    OBVIOUS
  <2> QED
    BY <2>1, RunningTotalRecursion
<1> HIDE DEF sum
<1>2. 0 \in X /\ \A m \in Nat : m \in X => m + 1 \in X
  BY <1>1
<1>3. X = Nat
  BY <1>2, SetInduction
<1> QED
  BY <1>3 DEF Total, sum

(* A list adds up to what a loop reaches that starts at 0 and adds its
   entries. *)
LEMMA TotalIs ==
  ASSUME NEW n \in Nat, NEW f \in [1..n -> Int], NEW s,
         s[0] = 0, \A k \in 1..n : s[k] = s[k - 1] + f[k]
  PROVE  Total(n, f) = s[n]
<1> DEFINE sum == RunningTotal(n, f)
           X == {k \in Nat : k <= n => sum[k] = s[k]}
<1>1. sum[0] = 0 /\ \A k \in 1..n : sum[k] = sum[k - 1] + f[k]
  BY RunningTotalRecursion
<1> HIDE DEF sum
<1>2. 0 \in X
  BY <1>1
<1>3. ASSUME NEW k \in Nat, k \in X PROVE k + 1 \in X
  <2> SUFFICES ASSUME k + 1 <= n PROVE sum[k + 1] = s[k + 1]
    OBVIOUS
  <2>1. k + 1 \in 1..n /\ (k + 1) - 1 = k /\ sum[k] = s[k]
    BY <1>3
  <2> QED
    BY <1>1, <2>1
<1> HIDE DEF X
<1>4. X = Nat
  BY <1>2, <1>3, SetInduction DEF X
<1> QED
  BY <1>4 DEF X, sum, Total

-----------------------------------------------------------------------------
(* Two lists that agree on a prefix have the same running sums on it. *)
LEMMA RunningTotalAgrees ==
  ASSUME NEW n \in Nat, NEW m \in Nat, n <= m,
         NEW f \in [1..n -> Int], NEW g \in [1..m -> Int],
         \A k \in 1..n : f[k] = g[k]
  PROVE  \A k \in 0..n : RunningTotal(n, f)[k] = RunningTotal(m, g)[k]
<1> DEFINE sf == RunningTotal(n, f)
           sg == RunningTotal(m, g)
           X == {j \in Nat : j <= n => sf[j] = sg[j]}
<1>1. sf[0] = 0 /\ \A k \in 1..n : sf[k] = sf[k - 1] + f[k]
  BY RunningTotalRecursion
<1>2. sg[0] = 0 /\ \A k \in 1..m : sg[k] = sg[k - 1] + g[k]
  BY RunningTotalRecursion
<1> HIDE DEF sf, sg
<1>3. 0 \in X
  BY <1>1, <1>2
<1>4. ASSUME NEW j \in Nat, j + 1 <= n, sf[j] = sg[j] PROVE sf[j + 1] = sg[j + 1]
  <2>1. j + 1 \in 1..n /\ j + 1 \in 1..m /\ (j + 1) - 1 = j
    BY <1>4
  <2> QED
    BY <1>1, <1>2, <1>4, <2>1
<1>5. \A j \in Nat : j \in X => j + 1 \in X
  BY <1>4
<1> HIDE DEF X
<1>6. X = Nat
  BY <1>3, <1>5, SetInduction DEF X
<1> QED
  BY <1>6 DEF X, sf, sg

(* A list with one more entry. *)
LEMMA TotalAppend ==
  ASSUME NEW n \in Nat, NEW f \in [1..n -> Int], NEW g \in [1..(n + 1) -> Int],
         \A k \in 1..n : f[k] = g[k]
  PROVE  Total(n + 1, g) = Total(n, f) + g[n + 1]
<1>1. RunningTotal(n, f)[n] = RunningTotal(n + 1, g)[n]
  BY RunningTotalAgrees
<1>2. RunningTotal(n + 1, g)[n + 1] = RunningTotal(n + 1, g)[n] + g[n + 1]
  <2>1. n + 1 \in Nat /\ n + 1 \in 1..(n + 1) /\ (n + 1) - 1 = n
    OBVIOUS
  <2> QED
    BY <2>1, RunningTotalRecursion
<1> QED
  BY <1>1, <1>2 DEF Total

(* A list that is zero beyond n adds up to the sum of its first n entries. *)
LEMMA TotalPadded ==
  ASSUME NEW n \in Nat, NEW m \in Nat, n <= m,
         NEW f \in [1..n -> Int], NEW g \in [1..m -> Int],
         \A k \in 1..n : f[k] = g[k],
         \A k \in (n + 1)..m : g[k] = 0
  PROVE  Total(m, g) = Total(n, f)
<1> DEFINE sg == RunningTotal(m, g)
           X == {j \in Nat : n <= j /\ j <= m => sg[j] = Total(n, f)}
<1>1. sg[0] = 0 /\ \A k \in 1..m : sg[k] = sg[k - 1] + g[k]
  BY RunningTotalRecursion
<1>2. sg[n] = Total(n, f)
  BY RunningTotalAgrees DEF Total
<1>3. Total(n, f) \in Int
  BY TotalType
<1> HIDE DEF sg
<1>4. 0 \in X
  BY <1>2
<1>5. ASSUME NEW j \in Nat, j \in X, n <= j + 1, j + 1 <= m PROVE sg[j + 1] = Total(n, f)
  <2>1. CASE j + 1 = n
    BY <2>1, <1>2
  <2>2. CASE n <= j
    <3>1. sg[j] = Total(n, f)
      BY <1>5, <2>2
    <3>2. j + 1 \in 1..m /\ (j + 1) - 1 = j /\ g[j + 1] = 0
      BY <1>5, <2>2
    <3>3. sg[j + 1] = sg[j] + g[j + 1]
      BY <1>1, <3>2
    <3> QED
      BY <1>3, <3>1, <3>2, <3>3
  <2> QED
    BY <1>5, <2>1, <2>2
<1>6. \A j \in Nat : j \in X => j + 1 \in X
  BY <1>5
<1> HIDE DEF X
<1>7. X = Nat
  BY <1>4, <1>6, SetInduction DEF X
<1> QED
  BY <1>7 DEF X, sg, Total

(* The sum of two lists, entry by entry. *)
LEMMA TotalSum ==
  ASSUME NEW n \in Nat,
         NEW f \in [1..n -> Int], NEW g \in [1..n -> Int], NEW h \in [1..n -> Int],
         \A k \in 1..n : h[k] = f[k] + g[k]
  PROVE  Total(n, h) = Total(n, f) + Total(n, g)
<1> DEFINE sf == RunningTotal(n, f)
           sg == RunningTotal(n, g)
           sh == RunningTotal(n, h)
           X == {j \in Nat : j <= n => sh[j] = sf[j] + sg[j]}
<1>1. sf \in [0..n -> Int] /\ sf[0] = 0 /\ \A k \in 1..n : sf[k] = sf[k - 1] + f[k]
  BY RunningTotalRecursion
<1>2. sg \in [0..n -> Int] /\ sg[0] = 0 /\ \A k \in 1..n : sg[k] = sg[k - 1] + g[k]
  BY RunningTotalRecursion
<1>3. sh[0] = 0 /\ \A k \in 1..n : sh[k] = sh[k - 1] + h[k]
  BY RunningTotalRecursion
<1> HIDE DEF sf, sg, sh
<1>4. 0 \in X
  <2>1. sf[0] = 0 /\ sg[0] = 0 /\ sh[0] = 0
    BY <1>1, <1>2, <1>3
  <2> QED
    BY <2>1
<1>5. ASSUME NEW j \in Nat, j + 1 <= n, sh[j] = sf[j] + sg[j]
      PROVE  sh[j + 1] = sf[j + 1] + sg[j + 1]
  <2>1. j + 1 \in 1..n /\ (j + 1) - 1 = j /\ j \in 0..n
    BY <1>5
  <2>2. /\ sf[j + 1] = sf[j] + f[j + 1]
        /\ sg[j + 1] = sg[j] + g[j + 1]
        /\ sh[j + 1] = sh[j] + (f[j + 1] + g[j + 1])
    BY <1>1, <1>2, <1>3, <2>1
  <2>3. sf[j] \in Int /\ sg[j] \in Int /\ f[j + 1] \in Int /\ g[j + 1] \in Int
    BY <1>1, <1>2, <2>1
  <2> QED
    BY <1>5, <2>2, <2>3
<1>6. \A j \in Nat : j \in X => j + 1 \in X
  BY <1>5
<1> HIDE DEF X
<1>7. X = Nat
  BY <1>4, <1>6, SetInduction DEF X
<1> QED
  BY <1>7 DEF X, sf, sg, sh, Total

(* A list and then another. *)
Joins(q, h, n, f, m, g) ==
  q = n + m /\ (\A k \in 1..n : h[k] = f[k]) /\ (\A k \in 1..m : h[n + k] = g[k])

LEMMA TotalConcat ==
  ASSUME NEW n \in Nat, NEW m \in Nat, NEW q \in Nat,
         NEW f \in [1..n -> Int], NEW g \in [1..m -> Int], NEW h \in [1..q -> Int],
         Joins(q, h, n, f, m, g)
  PROVE  Total(q, h) = Total(n, f) + Total(m, g)
<1> DEFINE sg == RunningTotal(m, g)
           sh == RunningTotal(q, h)
           X == {j \in Nat : j <= m => sh[n + j] = Total(n, f) + sg[j]}
<1>0. q = n + m /\ (\A k \in 1..n : h[k] = f[k]) /\ (\A k \in 1..m : h[n + k] = g[k])
  BY DEF Joins
<1>1. sg \in [0..m -> Int] /\ sg[0] = 0 /\ \A k \in 1..m : sg[k] = sg[k - 1] + g[k]
  BY RunningTotalRecursion
<1>2. \A k \in 1..q : sh[k] = sh[k - 1] + h[k]
  BY RunningTotalRecursion
<1>3. sh[n] = Total(n, f)
  <2>1. n <= q /\ n \in 0..n
    BY <1>0
  <2>2. RunningTotal(n, f)[n] = RunningTotal(q, h)[n]
    BY <1>0, <2>1, RunningTotalAgrees
  <2> QED
    BY <2>2 DEF Total
<1>4. Total(n, f) \in Int
  BY TotalType
<1>5. Total(m, g) = sg[m] /\ Total(q, h) = sh[q]
  BY DEF Total
<1> HIDE DEF sg, sh
<1>6. 0 \in X
  BY <1>1, <1>3, <1>4
<1>7. ASSUME NEW j \in Nat, j \in X PROVE j + 1 \in X
  <2>1. SUFFICES ASSUME j + 1 <= m PROVE sh[n + (j + 1)] = Total(n, f) + sg[j + 1]
    OBVIOUS
  <2>2. sh[n + j] = Total(n, f) + sg[j] /\ sg[j] \in Int
    BY <1>1, <1>7, <2>1
  <2>3. sg[j + 1] = sg[j] + g[j + 1]
    <3>1. j + 1 \in 1..m /\ (j + 1) - 1 = j
      BY <2>1
    <3> QED
      BY <1>1, <3>1
  <2>4. sh[n + (j + 1)] = sh[n + j] + h[n + (j + 1)]
    <3>1. n + (j + 1) \in 1..q /\ (n + (j + 1)) - 1 = n + j
      BY <1>0, <2>1
    <3> QED
      BY <1>2, <3>1
  <2>5. h[n + (j + 1)] = g[j + 1] /\ g[j + 1] \in Int
    BY <1>0, <2>1
  <2> QED
    BY <1>4, <2>2, <2>3, <2>4, <2>5
<1> HIDE DEF X
<1>8. X = Nat
  <2>1. X \in SUBSET Nat
    BY DEF X
  <2> QED
    BY <1>6, <1>7, <2>1, SetInduction
<1>9. m \in X
  BY <1>8
<1> QED
  BY <1>0, <1>5, <1>9 DEF X

(* A list of zeros. *)
LEMMA TotalZero ==
  ASSUME NEW n \in Nat, NEW f \in [1..n -> Int], \A k \in 1..n : f[k] = 0
  PROVE  Total(n, f) = 0
<1>1. Total(n, f) = Total(n, f) + Total(n, f)
  BY TotalSum
<1> QED
  BY <1>1, TotalType

(* A list with every sign turned. *)
LEMMA TotalNegated ==
  ASSUME NEW n \in Nat, NEW f \in [1..n -> Int], NEW g \in [1..n -> Int],
         \A k \in 1..n : g[k] = - f[k]
  PROVE  Total(n, g) = - Total(n, f)
<1> DEFINE zero == [k \in 1..n |-> 0]
<1>1. zero \in [1..n -> Int] /\ \A k \in 1..n : zero[k] = 0
  OBVIOUS
<1>2. \A k \in 1..n : zero[k] = f[k] + g[k]
  OBVIOUS
<1> HIDE DEF zero
<1>3. Total(n, zero) = 0 /\ Total(n, zero) = Total(n, f) + Total(n, g)
  BY <1>1, <1>2, TotalZero, TotalSum, ZenonT(60)
<1>4. Total(n, f) \in Int /\ Total(n, g) \in Int
  BY TotalType
<1> QED
  BY <1>3, <1>4

(* A list bounded by another, entry by entry. *)
LEMMA TotalMonotone ==
  ASSUME NEW n \in Nat, NEW f \in [1..n -> Int], NEW g \in [1..n -> Int],
         \A k \in 1..n : f[k] <= g[k]
  PROVE  Total(n, f) <= Total(n, g)
<1> DEFINE d == [k \in 1..n |-> g[k] - f[k]]
<1>1. d \in [1..n -> Nat] /\ d \in [1..n -> Int] /\ \A k \in 1..n : g[k] = f[k] + d[k]
  OBVIOUS
<1> HIDE DEF d
<1>2. Total(n, g) = Total(n, f) + Total(n, d)
  BY <1>1, TotalSum
<1>3. Total(n, d) \in Nat /\ Total(n, f) \in Int
  BY <1>1, TotalNonNegative, TotalType
<1> QED
  BY <1>2, <1>3

(* A list with one entry that is not zero. *)
LEMMA TotalSingle ==
  ASSUME NEW n \in Nat, NEW f \in [1..n -> Int], NEW j \in 1..n,
         \A k \in 1..n : k # j => f[k] = 0
  PROVE  Total(n, f) = f[j]
<1> DEFINE before == [k \in 1..(j - 1) |-> 0]
           upTo == [k \in 1..j |-> f[k]]
<1>1. j - 1 \in Nat /\ (j - 1) + 1 = j /\ j <= n /\ j \in Nat
  OBVIOUS
<1>2. before \in [1..(j - 1) -> Int] /\ \A k \in 1..(j - 1) : before[k] = 0
  BY <1>1
<1>3. upTo \in [1..j -> Int] /\ upTo[j] = f[j]
  BY <1>1
<1>4. \A k \in 1..(j - 1) : upTo[k] = before[k]
  BY <1>1
<1>5. \A k \in 1..j : upTo[k] = f[k]
  BY <1>1
<1> HIDE DEF before, upTo
<1>6. Total(j - 1, before) = 0
  BY <1>1, <1>2, TotalZero
<1>7. Total(j, upTo) = 0 + upTo[j]
  BY <1>1, <1>2, <1>3, <1>4, <1>6, TotalAppend
<1>8. Total(n, f) = Total(j, upTo)
  BY <1>1, <1>3, <1>5, TotalPadded
<1> QED
  BY <1>3, <1>7, <1>8

(* A list with one entry replaced. *)
LEMMA TotalChanged ==
  ASSUME NEW n \in Nat, NEW f \in [1..n -> Int], NEW g \in [1..n -> Int], NEW j \in 1..n,
         \A k \in 1..n : k # j => g[k] = f[k]
  PROVE  Total(n, g) = Total(n, f) + (g[j] - f[j])
<1> DEFINE d == [k \in 1..n |-> g[k] - f[k]]
<1>1. /\ d \in [1..n -> Int]
      /\ \A k \in 1..n : g[k] = f[k] + d[k]
      /\ \A k \in 1..n : k # j => d[k] = 0
      /\ d[j] = g[j] - f[j]
  OBVIOUS
<1> HIDE DEF d
<1>2. Total(n, g) = Total(n, f) + Total(n, d)
  BY <1>1, TotalSum
<1>3. Total(n, d) = d[j]
  BY <1>1, TotalSingle
<1> QED
  BY <1>1, <1>2, <1>3

(* A list with one entry struck out and one that adds nothing. *)
LEMMA TotalStruck ==
  ASSUME NEW n \in Nat, NEW f \in [1..n -> Int], NEW g \in [1..(n + 1) -> Int], NEW j \in 1..n,
         \A k \in 1..n : k # j => g[k] = f[k],
         g[j] = 0, g[n + 1] = 0
  PROVE  Total(n + 1, g) = Total(n, f) - f[j]
<1> DEFINE left == [k \in 1..n |-> g[k]]
<1>1. /\ left \in [1..n -> Int] /\ left[j] = 0
      /\ \A k \in 1..n : left[k] = g[k]
      /\ \A k \in 1..n : k # j => left[k] = f[k]
  OBVIOUS
<1> HIDE DEF left
<1>2. Total(n + 1, g) = Total(n, left) + g[n + 1]
  BY <1>1, TotalAppend
<1>3. Total(n, left) = Total(n, f) + (left[j] - f[j])
  BY <1>1, TotalChanged
<1>4. Total(n, f) \in Int /\ f[j] \in Int
  BY TotalType
<1> QED
  BY <1>1, <1>2, <1>3, <1>4

(* No entry of a list of naturals exceeds its sum. *)
LEMMA TotalBoundsEntries ==
  ASSUME NEW n \in Nat, NEW f \in [1..n -> Nat], NEW j \in 1..n
  PROVE  f[j] <= Total(n, f)
<1> DEFINE rest == [k \in 1..n |-> IF k = j THEN 0 ELSE f[k]]
<1>1. /\ rest \in [1..n -> Nat] /\ rest \in [1..n -> Int] /\ f \in [1..n -> Int]
      /\ rest[j] = 0
      /\ \A k \in 1..n : k # j => f[k] = rest[k]
  OBVIOUS
<1> HIDE DEF rest
<1>2. Total(n, f) = Total(n, rest) + (f[j] - rest[j])
  BY <1>1, TotalChanged
<1>3. Total(n, rest) \in Nat
  BY <1>1, TotalNonNegative
<1> QED
  BY <1>1, <1>2, <1>3

-----------------------------------------------------------------------------
(* What one demand takes is between zero and what is left, and no more than  *)
(* the demand.                                                               *)
LEMMA TakeBounds ==
  ASSUME NEW left \in Nat, NEW due \in Int
  PROVE  /\ Take(left, due) \in Nat
         /\ Take(left, due) <= AtLeastZero(due)
         /\ PassedOn(left, due) \in 0..left
BY DEF Take, PassedOn, Lesser, AtLeastZero

(* The loop of the allocation engine is well defined for a list of any       *)
(* length: it exists ...                                                     *)
LEMMA RemainingExists ==
  ASSUME NEW n \in Nat, NEW budget \in Nat, NEW due \in [1..n -> Int]
  PROVE  \E g : g = [k \in 0..n |-> IF k = 0 THEN budget ELSE PassedOn(g[k - 1], due[k])]
<1> DEFINE P(m) == \E g \in [0..m -> Nat] :
                     g[0] = budget /\ \A k \in 1..m : g[k] = PassedOn(g[k - 1], due[k])
           X == {m \in Nat : m <= n => P(m)}
<1>1. P(0)
  <2> DEFINE g == [k \in 0..0 |-> budget]
  <2>1. g \in [0..0 -> Nat] /\ g[0] = budget /\ 1..0 = {}
    OBVIOUS
  <2> QED
    BY <2>1
<1>2. ASSUME NEW m \in Nat, m + 1 <= n, P(m) PROVE P(m + 1)
  <2>1. PICK g \in [0..m -> Nat] :
          g[0] = budget /\ \A k \in 1..m : g[k] = PassedOn(g[k - 1], due[k])
    BY <1>2
  <2> DEFINE last == PassedOn(g[m], due[m + 1])
             h == [k \in 0..(m + 1) |-> IF k = m + 1 THEN last ELSE g[k]]
  <2>2. last \in Nat
    <3>1. g[m] \in Nat /\ due[m + 1] \in Int
      BY <1>2, <2>1
    <3>2. last \in 0..g[m]
      BY <3>1, TakeBounds, Zenon
    <3> QED
      BY <3>1, <3>2
  <2> HIDE DEF last
  <2>3. h \in [0..(m + 1) -> Nat] /\ h[0] = budget
    BY <2>1, <2>2
  <2>4. ASSUME NEW k \in 1..(m + 1) PROVE h[k] = PassedOn(h[k - 1], due[k])
    <3>1. CASE k = m + 1
      BY <3>1, <2>1 DEF last
    <3>2. CASE k # m + 1
      <4>1. k \in 1..m /\ k - 1 \in 0..m
        BY <3>2
      <4>2. h[k] = g[k] /\ h[k - 1] = g[k - 1]
        BY <4>1
      <4> QED
        BY <2>1, <4>1, <4>2
    <3> QED
      BY <3>1, <3>2
  <2> HIDE DEF h
  <2> QED
    BY <2>3, <2>4
<1> HIDE DEF P
<1>3. 0 \in X /\ \A m \in Nat : m \in X => m + 1 \in X
  BY <1>1, <1>2
<1>4. X = Nat
  BY <1>3, SetInduction
<1>5. P(n)
  BY <1>4
<1>6. PICK g \in [0..n -> Nat] :
        g[0] = budget /\ \A k \in 1..n : g[k] = PassedOn(g[k - 1], due[k])
  BY <1>5 DEF P
<1>7. g = [k \in 0..n |-> IF k = 0 THEN budget ELSE PassedOn(g[k - 1], due[k])]
  BY <1>6
<1> QED
  BY <1>7

(* ... and what is left never falls below zero nor rises above the budget.   *)
LEMMA RemainingRecursion ==
  ASSUME NEW n \in Nat, NEW budget \in Nat, NEW due \in [1..n -> Int]
  PROVE  /\ Remaining(budget, n, due) \in [0..n -> 0..budget]
         /\ Remaining(budget, n, due)[0] = budget
         /\ \A k \in 1..n :
              Remaining(budget, n, due)[k] = PassedOn(Remaining(budget, n, due)[k - 1], due[k])
<1> DEFINE left == Remaining(budget, n, due)
           X == {m \in Nat : m <= n => left[m] \in 0..budget}
<1>1. left = [k \in 0..n |-> IF k = 0 THEN budget ELSE PassedOn(left[k - 1], due[k])]
  <2>1. \E g : g = [k \in 0..n |-> IF k = 0 THEN budget ELSE PassedOn(g[k - 1], due[k])]
    BY RemainingExists, Zenon
  <2> QED
    BY <2>1, Zenon DEF Remaining
<1> HIDE DEF left
<1>2. left[0] = budget /\ \A k \in 1..n : left[k] = PassedOn(left[k - 1], due[k])
  BY <1>1
<1>3. 0 \in X
  BY <1>2
<1>4. ASSUME NEW m \in Nat, m + 1 <= n, left[m] \in 0..budget
      PROVE  left[m + 1] \in 0..budget
  <2>1. left[m] \in Nat /\ due[m + 1] \in Int
    BY <1>4
  <2>2. PassedOn(left[m], due[m + 1]) \in 0..left[m]
    BY <2>1, TakeBounds, Zenon
  <2>3. left[m + 1] = PassedOn(left[m], due[m + 1])
    BY <1>2, <1>4
  <2> QED
    BY <1>4, <2>1, <2>2, <2>3
<1>5. \A m \in Nat : m \in X => m + 1 \in X
  BY <1>4
<1> HIDE DEF X
<1>6. X = Nat
  BY <1>3, <1>5, SetInduction DEF X
<1>7. \A m \in 0..n : left[m] \in 0..budget
  BY <1>6 DEF X
<1>8. left \in [0..n -> 0..budget]
  BY <1>1, <1>7
<1> QED
  BY <1>2, <1>8 DEF left

LEMMA LeftoverBounds ==
  ASSUME NEW n \in Nat, NEW budget \in Nat, NEW due \in [1..n -> Int]
  PROVE  Leftover(budget, n, due) \in 0..budget
BY RemainingRecursion DEF Leftover

(* No demand is allocated more than it is due, and none a negative amount.   *)
LEMMA TakenBounds ==
  ASSUME NEW n \in Nat, NEW budget \in Nat, NEW due \in [1..n -> Int]
  PROVE  /\ Taken(budget, n, due) \in [1..n -> Nat]
         /\ \A k \in 1..n : Taken(budget, n, due)[k] <= AtLeastZero(due[k])
<1>1. ASSUME NEW k \in 1..n
      PROVE  /\ Take(Remaining(budget, n, due)[k - 1], due[k]) \in Nat
             /\ Take(Remaining(budget, n, due)[k - 1], due[k]) <= AtLeastZero(due[k])
  <2>1. Remaining(budget, n, due)[k - 1] \in Nat /\ due[k] \in Int
    BY RemainingRecursion
  <2> QED
    BY <2>1, TakeBounds, Zenon
<1> QED
  BY <1>1 DEF Taken

(* A pass spends what it does not pass on, and when something is left over   *)
(* every demand was met.                                                     *)
LEMMA PassSpends ==
  ASSUME NEW n \in Nat, NEW budget \in Nat, NEW due \in [1..n -> Nat]
  PROVE  /\ Total(n, Taken(budget, n, due)) = budget - Leftover(budget, n, due)
         /\ Leftover(budget, n, due) > 0
              => \A k \in 1..n : Taken(budget, n, due)[k] = due[k]
<1> DEFINE left == Remaining(budget, n, due)
           taken == Taken(budget, n, due)
           sum == RunningTotal(n, taken)
           X == {m \in Nat : m <= n => sum[m] = budget - left[m]}
           Y == {m \in Nat : m <= n => \A k \in 0..m : left[m] <= left[k]}
<1>1. due \in [1..n -> Int]
  OBVIOUS
<1>2. /\ left \in [0..n -> Nat] /\ left[0] = budget
      /\ \A k \in 1..n : left[k] = PassedOn(left[k - 1], due[k])
  <2>1. left \in [0..n -> 0..budget]
    BY <1>1, RemainingRecursion
  <2>2. \A k \in 0..n : left[k] \in Nat
    BY <2>1
  <2>3. left \in [0..n -> Nat]
    BY <2>1, <2>2
  <2> QED
    BY <1>1, <2>3, RemainingRecursion
<1>3. \A k \in 1..n : taken[k] = Take(left[k - 1], due[k])
  BY DEF Taken
<1>4. taken \in [1..n -> Nat] /\ taken \in [1..n -> Int]
  BY <1>1, TakenBounds
<1>5. sum \in [0..n -> Int] /\ sum[0] = 0 /\ \A k \in 1..n : sum[k] = sum[k - 1] + taken[k]
  BY <1>4, RunningTotalRecursion
<1>6. Total(n, taken) = sum[n] /\ Leftover(budget, n, due) = left[n]
  BY DEF Total, Leftover
<1> HIDE DEF left, taken, sum
<1>7. \A k \in 1..n : left[k] = left[k - 1] - taken[k]
  BY <1>2, <1>3 DEF PassedOn
<1>8. X = Nat
  <2>1. 0 \in X
    BY <1>2, <1>5
  <2>2. ASSUME NEW m \in Nat, m + 1 <= n, sum[m] = budget - left[m]
        PROVE  sum[m + 1] = budget - left[m + 1]
    <3>1. m + 1 \in 1..n /\ (m + 1) - 1 = m /\ m \in 0..n
      BY <2>2
    <3>2. sum[m + 1] = sum[m] + taken[m + 1] /\ left[m + 1] = left[m] - taken[m + 1]
      BY <1>5, <1>7, <3>1
    <3>3. left[m] \in Int /\ taken[m + 1] \in Int
      BY <1>2, <1>4, <3>1
    <3> QED
      BY <2>2, <3>2, <3>3
  <2>3. \A m \in Nat : m \in X => m + 1 \in X
    BY <2>2
  <2> HIDE DEF X
  <2> QED
    BY <2>1, <2>3, SetInduction DEF X
<1>9. Y = Nat
  <2>1. 0 \in Y
    BY <1>2
  <2>2. ASSUME NEW m \in Nat, m + 1 <= n, \A k \in 0..m : left[m] <= left[k]
        PROVE  \A k \in 0..(m + 1) : left[m + 1] <= left[k]
    <3>1. m + 1 \in 1..n /\ (m + 1) - 1 = m /\ m \in 0..n
      BY <2>2
    <3>2. /\ left[m + 1] = left[m] - taken[m + 1]
          /\ left[m] \in Nat /\ left[m + 1] \in Nat /\ taken[m + 1] \in Nat
      BY <1>2, <1>4, <1>7, <3>1
    <3>3. ASSUME NEW k \in 0..(m + 1) PROVE left[m + 1] <= left[k]
      <4>1. left[k] \in Nat
        BY <1>2, <3>1, <3>3
      <4>2. k = m + 1 \/ k \in 0..m
        BY <3>3
      <4> QED
        BY <2>2, <3>2, <4>1, <4>2
    <3> QED
      BY <3>3
  <2>3. \A m \in Nat : m \in Y => m + 1 \in Y
    BY <2>2, SMTT(60)
  <2> HIDE DEF Y
  <2> QED
    BY <2>1, <2>3, SetInduction DEF Y
<1>10. sum[n] = budget - left[n]
  BY <1>8
<1>11. ASSUME left[n] > 0, NEW k \in 1..n PROVE taken[k] = due[k]
  <2>1. left[n] <= left[k]
    <3>1. n \in Y /\ k \in 0..n
      BY <1>9
    <3> QED
      BY <3>1
  <2>2. /\ left[n] \in Nat /\ left[k] \in Nat /\ left[k - 1] \in Nat /\ due[k] \in Nat
        /\ taken[k] \in Nat
    BY <1>2, <1>4
  <2>3. left[k] > 0
    BY <1>11, <2>1, <2>2
  <2>4. left[k] = left[k - 1] - taken[k] /\ taken[k] = Take(left[k - 1], due[k])
    BY <1>3, <1>7
  <2> QED
    BY <2>2, <2>3, <2>4 DEF Take, Lesser
<1> QED
  BY <1>6, <1>10, <1>11 DEF taken, left
=============================================================================
