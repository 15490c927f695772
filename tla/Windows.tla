------------------------------ MODULE Windows ------------------------------
(***************************************************************************)
(* app/tools/windows.py: a time expression becomes [since, until) against  *)
(* the session's date.  A moment is the number of its day, at midnight.    *)
(* An expression is a record: what the regular expressions captured.       *)
(***************************************************************************)
EXTENDS Integers, FiniteSets, FiniteSetsExt

CONSTANTS MinYear, MaxYear  \* datetime's, 1 and 9999

ASSUME YearsAssumption == {MinYear, MaxYear} \subseteq Nat \ {0} /\ MinYear <= MaxYear

IsLeap(y) == y % 4 = 0 /\ (y % 100 # 0 \/ y % 400 = 0)

MonthLength(y, m) ==
  CASE m \in {4, 6, 9, 11} -> 30
    [] m = 2 -> IF IsLeap(y) THEN 29 ELSE 28
    [] OTHER -> 31

IsDate(y, m, d) ==
  y \in MinYear..MaxYear /\ m \in 1..12 /\ d \in 1..MonthLength(y, m)

\* What the regular expressions let through.
IsCapture(date) == \A i \in 1..3 : date[i] \in Nat

IsExpression(e) ==
  \/ e.form = "last" /\ e.count \in Nat /\ e.unit \in {"day", "week", "month", "year"}
  \/ e.form = "since" /\ IsCapture(e.from)
  \/ e.form = "range" /\ IsCapture(e.from) /\ IsCapture(e.to)
  \/ e.form = "year" /\ e.year \in Nat
  \/ e.form = "month" /\ {e.year, e.month} \subseteq Nat
  \/ e.form = "quarter" /\ e.year \in Nat /\ e.quarter \in 1..4
  \/ e.form = "half" /\ e.year \in Nat /\ e.half \in 1..2
  \/ e.form \in {"release", "other"}

\* The number of a date's day.
At(y, m, d) ==
  365 * y + (y - 1) \div 4 - (y - 1) \div 100 + (y - 1) \div 400
  + <<0, 31, 59, 90, 120, 151, 181, 212, 243, 273, 304, 334>>[m]
  + (IF m > 2 /\ IsLeap(y) THEN 1 ELSE 0) + d

IsMoment(n) ==
  \E y \in MinYear..MaxYear, m \in 1..12 : \E d \in 1..MonthLength(y, m) : n = At(y, m, d)

Year(n) == Max({y \in MinYear..MaxYear : At(y, 1, 1) <= n})
Month(n) == Max({m \in 1..12 : At(Year(n), m, 1) <= n})
Day(n) == n - At(Year(n), Month(n), 1) + 1

Window(since, until) == [kind |-> "window", since |-> since, until |-> until]
Failure == [kind |-> "error"]    \* UnresolvableWindow or another ValueError
Raised == [kind |-> "raised"]    \* OverflowError, which is neither

Capped(since, until, as_of) == Window(since, IF until < as_of THEN until ELSE as_of)

\* timedelta
MinusDays(as_of, days) ==
  IF as_of - days < At(MinYear, 1, 1) THEN Raised ELSE Window(as_of - days, as_of)

\* Calendar months; the day is the last of a shorter month.
MinusMonths(as_of, months) ==
  LET total == Month(as_of) - 1 - months
      year == Year(as_of) + total \div 12
      month == (total % 12) + 1
      day == Min({Day(as_of), MonthLength(year, month)})
  IN IF year < MinYear THEN Failure ELSE Window(At(year, month, day), as_of)

\* From the first of a month, for so many months; _at raises past the last year.
Months(year, month, count, as_of) ==
  LET y == year + (month + count - 1) \div 12
      m == ((month + count - 1) % 12) + 1
  IN IF IsDate(year, month, 1) /\ IsDate(y, m, 1)
     THEN Capped(At(year, month, 1), At(y, m, 1), as_of)
     ELSE Failure

Past(e, as_of) ==
  IF e.count < 1 THEN Failure
  ELSE CASE e.unit = "day" -> MinusDays(as_of, e.count)
         [] e.unit = "week" -> MinusDays(as_of, 7 * e.count)
         [] e.unit = "month" -> MinusMonths(as_of, e.count)
         [] e.unit = "year" -> MinusMonths(as_of, 12 * e.count)

Between(e, as_of) ==
  IF ~IsDate(e.from[1], e.from[2], e.from[3]) \/ ~IsDate(e.to[1], e.to[2], e.to[3])
  THEN Failure
  ELSE LET since == At(e.from[1], e.from[2], e.from[3])
           until == At(e.to[1], e.to[2], e.to[3])
       IN IF until <= since THEN Failure ELSE Capped(since, until, as_of)

\* `since release' is not resolved here, and nothing else is guessed.
Resolve(e, as_of) ==
  CASE e.form = "last" -> Past(e, as_of)
    [] e.form = "since" -> IF IsDate(e.from[1], e.from[2], e.from[3])
                           THEN Window(At(e.from[1], e.from[2], e.from[3]), as_of)
                           ELSE Failure
    [] e.form = "range" -> Between(e, as_of)
    [] e.form = "year" -> Months(e.year, 1, 12, as_of)
    [] e.form = "month" -> Months(e.year, e.month, 1, as_of)
    [] e.form = "quarter" -> Months(e.year, 3 * (e.quarter - 1) + 1, 3, as_of)
    [] e.form = "half" -> Months(e.year, 6 * (e.half - 1) + 1, 6, as_of)
    [] OTHER -> Failure

-----------------------------------------------------------------------------
(* What the expressions mean, said of the fields of a date.                *)

\* Day n is no earlier than `count' months before as_of: a later month than that
\* one, or the same month and the same day of it, or its last.
WithinMonths(n, as_of, count) ==
  LET month(x) == 12 * Year(x) + Month(x)
  IN \/ month(n) > month(as_of) - count
     \/ /\ month(n) = month(as_of) - count
        /\ Day(n) >= Day(as_of) \/ Day(n) = MonthLength(Year(n), Month(n))

NoLater(a, b) == 10000 * a[1] + 100 * a[2] + a[3] <= 10000 * b[1] + 100 * b[2] + b[3]

InPeriod(e, as_of, n) ==
  LET date == <<Year(n), Month(n), Day(n)>>
  IN CASE e.form = "last" ->
            \/ e.unit = "day" /\ as_of - n <= e.count
            \/ e.unit = "week" /\ as_of - n <= 7 * e.count
            \/ e.unit = "month" /\ WithinMonths(n, as_of, e.count)
            \/ e.unit = "year" /\ WithinMonths(n, as_of, 12 * e.count)
       [] e.form = "since" -> NoLater(e.from, date)
       [] e.form = "range" -> NoLater(e.from, date) /\ ~NoLater(e.to, date)
       [] e.form = "year" -> date[1] = e.year
       [] e.form = "month" -> date[1] = e.year /\ date[2] = e.month
       [] e.form = "quarter" -> date[1] = e.year /\ (date[2] + 2) \div 3 = e.quarter
       [] e.form = "half" -> date[1] = e.year /\ (date[2] + 5) \div 6 = e.half
=============================================================================
