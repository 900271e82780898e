------------------------------ MODULE Periods -------------------------------
(***************************************************************************)
(* The period of a calculation: the presets and the check of a custom      *)
(* period (bot/utils/dates.py, on_preset_chosen and on_period_entered of   *)
(* bot/handlers/flow.py), on every day of some years.  The presets are     *)
(* computed from the UTC date and are never passed to validate_period.     *)
(***************************************************************************)
EXTENDS Integers

CONSTANTS
  Years,     \* years of the calendar the bot is watched in
  Begins,    \* custom periods begin that many days after today
  Spans      \* and end that many days after they begin

\* The years of Python's datetime, but for the first: in its January
\* smart_month would ask for a month of the year 0.
ASSUME CalendarAssumption == Years \subseteq 2..9999
ASSUME CustomAssumption == Begins \subseteq Int /\ Spans \subseteq Int

VARIABLES
  today,     \* the UTC date
  period     \* period of the day's last calculation: [first, last] or None

vars == <<today, period>>

None == [first |-> 0, last |-> 0]

-----------------------------------------------------------------------------
(* The calendar (Python's datetime and calendar).                          *)

Leap(y) == y % 4 = 0 /\ (y % 100 # 0 \/ y % 400 = 0)

MonthLength(y, m) ==
  IF m = 2 THEN (IF Leap(y) THEN 29 ELSE 28) ELSE IF m \in {4, 6, 9, 11} THEN 30 ELSE 31

Date(y, m, d) == [year |-> y, month |-> m, day |-> d]

MonthAfter(y, m) == IF m = 12 THEN <<y + 1, 1>> ELSE <<y, m + 1>>

DayAfter(d) ==
  IF d.day < MonthLength(d.year, d.month) THEN [d EXCEPT !.day = @ + 1]
  ELSE LET next == MonthAfter(d.year, d.month) IN Date(next[1], next[2], 1)

\* date.toordinal: 1 January of year 1 is day 1.
Ordinal(d) ==
  LET y == d.year - 1
      before == <<0, 31, 59, 90, 120, 151, 181, 212, 243, 273, 304, 334>>[d.month]
  IN  365 * y + y \div 4 - y \div 100 + y \div 400 + before
      + (IF d.month > 2 /\ Leap(d.year) THEN 1 ELSE 0) + d.day

-----------------------------------------------------------------------------
(* The code.                                                               *)

\* Faulty versions of the two definitions that follow: January looks for the
\* December of its own year; every month has thirty days.
TargetMonthSameYear(d) ==
  IF d.day >= 28 THEN <<d.year, d.month>>
  ELSE IF d.month = 1 THEN <<d.year, 12>> ELSE <<d.year, d.month - 1>>

SmartMonthThirty(d) ==
  [from |-> Date(d.year, d.month, 1), to |-> Date(d.year, d.month, 30)]

\* From the 28th on the month meant is the current one, before it the last.
TargetMonth(d) ==
  IF d.day >= 28 THEN <<d.year, d.month>>
  ELSE IF d.month = 1 THEN <<d.year - 1, 12>> ELSE <<d.year, d.month - 1>>

SmartMonth(d) ==
  LET y == TargetMonth(d)[1]
      m == TargetMonth(d)[2]
  IN  [from |-> Date(y, m, 1), to |-> Date(y, m, MonthLength(y, m))]

Range(p) == [first |-> Ordinal(p.from), last |-> Ordinal(p.to)]

Last30(d) == [first |-> Ordinal(d) - 29, last |-> Ordinal(d)]

MaxPeriodDays == 365

\* The span is taken for the number of days (a faulty version of Valid).
ValidSpan(p, d) ==
  /\ p.first <= p.last
  /\ p.first <= Ordinal(d)
  /\ p.last - p.first <= MaxPeriodDays

\* validate_period lets p pass on day d.
Valid(p, d) ==
  /\ p.first <= p.last
  /\ p.first <= Ordinal(d)
  /\ p.last - p.first + 1 <= MaxPeriodDays

\* max_window_days of mexc.py.
MexcWindowDays == 365

Distance(a, b) == IF a < b THEN b - a ELSE a - b

\* Only a period of up to thirty days is taken for a month (a faulty version
\* of the next definition).
BybitDaysAtMost(p) == IF p.last - p.first + 1 <= 30 THEN 30 ELSE 365

\* Bybit has two figures, for the last 30 and for the last 365 days: the one
\* whose length is closer to that of the period.
BybitDays(p) ==
  LET days == p.last - p.first + 1 IN
  IF Distance(days, 30) <= Distance(days, 365) THEN 30 ELSE 365

\* The period a Bybit result names in place of the one asked for.
BybitPeriod(p, d) == [first |-> Ordinal(d) - BybitDays(p), last |-> Ordinal(d)]

Init ==
  /\ \E y \in Years : y - 1 \notin Years /\ today = Date(y, 1, 1)
  /\ period = None

Preset ==
  /\ period' \in {Range(SmartMonth(today)), Last30(today)}
  /\ UNCHANGED today

Custom ==
  /\ \E b \in Begins, s \in Spans :
       LET p == [first |-> Ordinal(today) + b, last |-> Ordinal(today) + b + s] IN
         /\ Valid(p, today)
         /\ period' = p
  /\ UNCHANGED today

Midnight ==
  /\ DayAfter(today).year \in Years
  /\ today' = DayAfter(today)
  /\ period' = None

Next == Preset \/ Custom \/ Midnight

Spec == Init /\ [][Next]_vars

-----------------------------------------------------------------------------
(* Properties.                                                             *)

\* No calculation is for a period validate_period would reject today, though
\* the presets never go through it, nor, MEXC's totals not being additive
\* (mexc.py), for one that MEXC would have to be asked about in two parts.
CalculationsAllowed ==
  period # None => Valid(period, today) /\ period.last - period.first < MexcWindowDays

\* "The month" is one calendar month, all of it, in every year: by toordinal,
\* the day after its last is the first of the month that follows it.  And it is
\* the one the help text means, the last month or, near its end, the current
\* one: it ended at most 27 days ago or ends in at most three days.
WholeMonth ==
  LET m == SmartMonth(today)
      next == MonthAfter(m.from.year, m.from.month)
  IN  /\ m.from.day = 1
      /\ Range(m).last + 1 = Ordinal(Date(next[1], next[2], 1))
      /\ Ordinal(today) - Range(m).last \in (-3)..27

\* A Bybit result for a preset is the 30-day figure, for months of 31 days
\* too, and the days it covers meet the month asked for even on the 27th,
\* when that month ended longest ago: smart_month's limit of the 28th and
\* bybit.py's 30 days fit together.
BybitMeetsMonth ==
  \A p \in {Range(SmartMonth(today)), Last30(today)} :
    /\ BybitDays(p) = 30
    /\ BybitPeriod(p, today).first <= p.last
    /\ p.first <= BybitPeriod(p, today).last

\* From one day to the next "the month" stays or moves on by one month: none
\* is skipped and none comes back, at the ends of short months and of years.
MonthsInOrder ==
  [][TargetMonth(today') \in {TargetMonth(today),
                              MonthAfter(TargetMonth(today)[1], TargetMonth(today)[2])}]_vars

=============================================================================
