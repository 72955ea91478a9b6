------------------------------ MODULE Schedule ------------------------------
(***************************************************************************)
(* The repayment schedule of a loan: how many installments, how much       *)
(* principal and interest in each, and on which day each falls due.        *)
(*                                                                         *)
(* Days are integers; a calendar is the lengths of its months in order.    *)
(* The service computes with Decimal.js; here the rates are exact          *)
(* fractions, and only the named roundings round.  The due day of an       *)
(* installment does not depend on its amounts.                             *)
(***************************************************************************)
EXTENDS Paise, Sequences, FiniteSets

CONSTANTS
  MonthLengths,     \* days in each month of the calendar, which begins on day 0
  HolidayCalendar,  \* days of the setting "holiday_calendar"
  RateBase          \* what an annual rate of 100 % is: 10000 basis points

Frequencies == {"monthly", "weekly", "daily"}

ASSUME CalendarAssumption ==
  /\ MonthLengths \in Seq(Nat \ {0})
  /\ HolidayCalendar \subseteq Int /\ IsFiniteSet(HolidayCalendar)
  /\ RateBase \in Nat \ {0}

-----------------------------------------------------------------------------
(* Dates. *)

MonthStart ==
  LET start[m \in 1..Len(MonthLengths) + 1] ==
        IF m = 1 THEN 0 ELSE start[m - 1] + MonthLengths[m - 1]
  IN  start

MonthOf(d) ==
  CHOOSE m \in DOMAIN MonthLengths : MonthStart[m] <= d /\ d < MonthStart[m + 1]

\* Day d is in the calendar, and so are "back" months before its month and
\* "ahead" months after it.
InCalendar(d, back, ahead) ==
  \E m \in DOMAIN MonthLengths :
    /\ MonthStart[m] <= d /\ d < MonthStart[m + 1]
    /\ back < m /\ m + ahead <= Len(MonthLengths)

\* The day of the month is kept, or is the last day of a shorter month.
AddMonthsClamped(d, k) ==
  LET from == MonthOf(d)
      to == from + k
  IN  MonthStart[to] + Lesser(d - MonthStart[from], MonthLengths[to] - 1)

\* The due day of installment i of a schedule that starts on day "start".
DueDate(start, i, frequency) ==
  CASE frequency = "monthly" -> AddMonthsClamped(start, i)
    [] frequency = "weekly" -> start + 7 * i
    [] frequency = "daily" -> start + i

\* One period back from the first due day asked for.
StartFor(first, frequency) == DueDate(first, -1, frequency)

\* The days the generator takes for holidays.  A day of the calendar becomes
\* midnight in India, which a server in UTC reads as the day before, while due
\* days are midnight in UTC.
Holidays == {h - 1 : h \in HolidayCalendar}

NextWorkingDay(d) ==
  CHOOSE w \in d..d + Cardinality(Holidays) :
    w \notin Holidays /\ d..w - 1 \subseteq Holidays

\* Slip: a due day is moved off a holiday, and may meet the next due day.
ShiftedAlone(due) == [i \in DOMAIN due |-> NextWorkingDay(due[i])]

\* A due day moves off a holiday, and on until it is after the one before it.
AdjustForHolidays(due) ==
  LET adjusted[i \in DOMAIN due] ==
        LET own == NextWorkingDay(due[i])
            before == IF i = 1 THEN own - 1 ELSE adjusted[i - 1]
        IN  IF own > before THEN own ELSE NextWorkingDay(before + 1)
  IN  adjusted

-----------------------------------------------------------------------------
(* Amounts. *)

CeilDiv(a, b) == (a + b - 1) \div b

InstallmentCount(tenure, frequency) ==
  CASE frequency = "monthly" -> tenure
    [] frequency = "weekly" -> CeilDiv(52 * tenure, 12)
    [] frequency = "daily" -> CeilDiv(1461 * tenure, 48)

PeriodsPerYear(frequency) ==
  CASE frequency = "monthly" -> 12
    [] frequency = "weekly" -> 52
    [] frequency = "daily" -> 365

\* The remainder goes, a paisa each, to the first installments.
ShareOf(amount, n, i) ==
  (amount \div n) + (IF i - 1 < amount % n THEN 1 ELSE 0)

FlatInterest(principal, rate, tenure) == HalfUp(principal * rate * tenure, RateBase * 12)

FlatAmounts(principal, rate, tenure, frequency) ==
  LET n == InstallmentCount(tenure, frequency)
  IN  [i \in 1..n |->
         [principal |-> ShareOf(principal, n, i),
          interest |-> ShareOf(FlatInterest(principal, rate, tenure), n, i)]]

Power(b, n) ==
  LET power[k \in 0..n] == IF k = 0 THEN 1 ELSE b * power[k - 1]
  IN  power[n]

\* P r (1+r)^n / ((1+r)^n - 1), with r = rate / base.
Emi(principal, rate, base, n) ==
  HalfUp(principal * rate * Power(base + rate, n),
         base * (Power(base + rate, n) - Power(base, n)))

PrincipalPart(emi, interest, left) == AtLeastZero(Lesser(emi - interest, left))

\* Principal left after each installment of a reducing-balance loan; the last
\* installment takes all of it.
BalanceAfter(principal, rate, base, n) ==
  LET emi == Emi(principal, rate, base, n)
      left[i \in 0..n] ==
        CASE i = 0 -> principal
          [] i = n -> 0
          [] OTHER ->
               LET before == left[i - 1]
               IN  before - PrincipalPart(emi, HalfUp(before * rate, base), before)
  IN  left

ReducingAmounts(principal, rate, tenure, frequency) ==
  LET n == InstallmentCount(tenure, frequency)
      base == RateBase * PeriodsPerYear(frequency)
      left == BalanceAfter(principal, rate, base, n)
      floor == principal \div n
  IN  [i \in 1..n |->
         IF rate = 0
         THEN [principal |-> IF i < n THEN floor ELSE principal - floor * (n - 1),
               interest |-> 0]
         ELSE [principal |-> left[i - 1] - left[i],
               interest |-> HalfUp(left[i - 1] * rate, base)]]

\* The rows of loan_schedules for the terms of a product version.
GenerateSchedule(principal, tenure, terms, start) ==
  LET amounts ==
        IF terms.interestType = "flat"
        THEN FlatAmounts(principal, terms.rate, tenure, terms.frequency)
        ELSE ReducingAmounts(principal, terms.rate, tenure, terms.frequency)
      due == AdjustForHolidays(
               [i \in DOMAIN amounts |-> DueDate(start, i, terms.frequency)])
  IN  [i \in DOMAIN amounts |->
         [due |-> due[i], principal |-> amounts[i].principal,
          interest |-> amounts[i].interest]]

TotalInterest(rows) == Total(Len(rows), [i \in DOMAIN rows |-> rows[i].interest])
TotalPrincipal(rows) == Total(Len(rows), [i \in DOMAIN rows |-> rows[i].principal])
=============================================================================
