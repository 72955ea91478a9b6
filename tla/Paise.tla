------------------------------- MODULE Paise -------------------------------
(***************************************************************************)
(* Arithmetic on integer paise, shared by the account modules.             *)
(* The services compute with Decimal.js on integral values and round at    *)
(* named points with ROUND_HALF_UP; on integers only the division needs    *)
(* that rounding.  Loops are recursive functions (no RECURSIVE operator),  *)
(* so that the proofs may expand them.                                     *)
(***************************************************************************)
EXTENDS Integers

\* Math.min, Math.max(0, x), Math.abs
Lesser(a, b) == IF a <= b THEN a ELSE b
AtLeastZero(a) == IF a >= 0 THEN a ELSE 0
Magnitude(a) == IF a >= 0 THEN a ELSE -a

\* a / b with .toDecimalPlaces(0, ROUND_HALF_UP), for a >= 0 and b > 0
HalfUp(a, b) == (2 * a + b) \div (2 * b)

\* The running sum of f[1], ..., f[n]: what the services' reduce() loops do.
RunningTotal(n, f) ==
  LET sum[k \in 0..n] == IF k = 0 THEN 0 ELSE sum[k - 1] + f[k]
  IN  sum

Total(n, f) == RunningTotal(n, f)[n]

(***************************************************************************)
(* One pass of the allocation engine over a list of n demands: demand k    *)
(* takes Decimal.min(remaining, outstanding), a demand that is not         *)
(* positive is skipped, and what is left passes to the next one.           *)
(***************************************************************************)
\* Slip: the first open demand takes everything.
TakeEverything(left, due) == IF due <= 0 THEN 0 ELSE left

Take(left, due) == IF due <= 0 THEN 0 ELSE Lesser(left, due)

PassedOn(left, due) == left - Take(left, due)

Remaining(budget, n, due) ==
  LET left[k \in 0..n] == IF k = 0 THEN budget ELSE PassedOn(left[k - 1], due[k])
  IN  left

Leftover(budget, n, due) == Remaining(budget, n, due)[n]

Taken(budget, n, due) ==
  [k \in 1..n |-> Take(Remaining(budget, n, due)[k - 1], due[k])]
=============================================================================
