--------------------------- MODULE PeriodsProofs ----------------------------
(***************************************************************************)
(* What is promised of the periods, on every day of every year, for custom *)
(* periods of any length.  All of it rests on one fact of the calendar:    *)
(* from the first of a month it is as many days to the first of the next   *)
(* month as the month is long.                                             *)
(***************************************************************************)
EXTENDS Periods, TLAPS

\* A date there is.
IsDate(d) ==
  /\ d = Date(d.year, d.month, d.day)
  /\ d.year \in Int /\ d.month \in 1..12
  /\ d.day \in 1..MonthLength(d.year, d.month)

\* The day is one of the calendar's.
TodayIsDate == IsDate(today) /\ today.year \in Years

-----------------------------------------------------------------------------
(* The calendar.                                                           *)

\* A month has from 28 to 31 days.
LEMMA MonthLengths ==
  ASSUME NEW y, NEW m
  PROVE  MonthLength(y, m) \in 28..31
BY DEF MonthLength

\* A quotient grows by one exactly at the multiples.
LEMMA Multiples ==
  ASSUME NEW y \in Int
  PROVE  /\ y \div 4 = (y - 1) \div 4 + (IF y % 4 = 0 THEN 1 ELSE 0)
         /\ y \div 100 = (y - 1) \div 100 + (IF y % 100 = 0 THEN 1 ELSE 0)
         /\ y \div 400 = (y - 1) \div 400 + (IF y % 400 = 0 THEN 1 ELSE 0)
         /\ y % 400 = 0 => y % 100 = 0
         /\ y % 100 = 0 => y % 4 = 0
BY SMT

\* Days before the first of January of year y.
DaysBefore(y) == 365 * (y - 1) + (y - 1) \div 4 - (y - 1) \div 100 + (y - 1) \div 400

\* A year has 365 days, a leap year 366.
LEMMA YearLengths ==
  ASSUME NEW y \in Int
  PROVE  /\ DaysBefore(y) \in Int
         /\ DaysBefore(y + 1) = DaysBefore(y) + 365 + (IF Leap(y) THEN 1 ELSE 0)
<1>1. /\ (y - 1) \div 4 \in Int /\ (y - 1) \div 100 \in Int /\ (y - 1) \div 400 \in Int
      /\ y \div 4 \in Int /\ y \div 100 \in Int /\ y \div 400 \in Int
  OBVIOUS
<1>2. DaysBefore(y + 1) = 365 * y + y \div 4 - y \div 100 + y \div 400
  BY DEF DaysBefore
<1> QED BY <1>1, <1>2, Multiples DEF DaysBefore, Leap

\* Days of the year before its month m.
MonthsBefore(m) == <<0, 31, 59, 90, 120, 151, 181, 212, 243, 273, 304, 334>>[m]

\* The leap day, if it is before month m.
LeapDay(y, m) == IF m > 2 /\ Leap(y) THEN 1 ELSE 0

\* Days are counted on from the first of the month.
LEMMA OrdinalOf ==
  ASSUME NEW y \in Int, NEW m \in 1..12, NEW d \in Int
  PROVE  /\ Ordinal(Date(y, m, d)) = DaysBefore(y) + MonthsBefore(m) + LeapDay(y, m) + d
         /\ MonthsBefore(m) \in Int /\ LeapDay(y, m) \in Int
         /\ Ordinal(Date(y, m, d)) \in Int
<1>1. MonthsBefore(m) \in Int /\ LeapDay(y, m) \in Int BY DEF MonthsBefore, LeapDay
<1>2. Ordinal(Date(y, m, d)) = DaysBefore(y) + MonthsBefore(m) + LeapDay(y, m) + d
  BY DEF Ordinal, Date, DaysBefore, MonthsBefore, LeapDay
<1> QED BY <1>1, <1>2, YearLengths

\* It is the length of the month to the first of the next month.
LEMMA NextMonthFollows ==
  ASSUME NEW y \in Int, NEW m \in 1..12
  PROVE  LET next == MonthAfter(y, m) IN
           /\ next[1] \in Int /\ next[2] \in 1..12
           /\ Ordinal(Date(next[1], next[2], 1)) = Ordinal(Date(y, m, 1)) + MonthLength(y, m)
<1>1. DaysBefore(y) \in Int /\ DaysBefore(y + 1) \in Int /\ MonthLength(y, m) \in Int
  BY YearLengths, MonthLengths
<1>2. Ordinal(Date(y, m, 1)) = DaysBefore(y) + MonthsBefore(m) + LeapDay(y, m) + 1
      /\ MonthsBefore(m) \in Int /\ LeapDay(y, m) \in Int
  <2>1. y \in Int /\ m \in 1..12 /\ 1 \in Int OBVIOUS
  <2> QED BY <2>1, OrdinalOf, Zenon
<1>3. CASE m = 12
  <2>1. MonthAfter(y, m) = <<y + 1, 1>> BY <1>3 DEF MonthAfter
  <2>2. Ordinal(Date(y + 1, 1, 1)) = DaysBefore(y + 1) + MonthsBefore(1) + LeapDay(y + 1, 1) + 1
    <3>1. y + 1 \in Int /\ 1 \in 1..12 OBVIOUS
    <3> QED BY <3>1, OrdinalOf
  <2>3. MonthsBefore(1) = 0 /\ MonthsBefore(m) = 334 /\ MonthLength(y, m) = 31
    BY <1>3 DEF MonthsBefore, MonthLength
  <2>4. LeapDay(y + 1, 1) = 0 /\ DaysBefore(y + 1) = DaysBefore(y) + 365 + LeapDay(y, m)
    BY <1>3, YearLengths DEF LeapDay
  <2> QED BY <1>1, <1>2, <2>1, <2>2, <2>3, <2>4
<1>4. CASE m # 12
  <2>1. MonthAfter(y, m) = <<y, m + 1>> /\ m + 1 \in 1..12 BY <1>4 DEF MonthAfter
  <2>2. MonthsBefore(m + 1) + LeapDay(y, m + 1) =
          MonthsBefore(m) + LeapDay(y, m) + MonthLength(y, m)
    BY <1>4 DEF MonthsBefore, MonthLength, LeapDay
  <2>3. Ordinal(Date(y, m + 1, 1)) = DaysBefore(y) + MonthsBefore(m + 1) + LeapDay(y, m + 1) + 1
        /\ MonthsBefore(m + 1) \in Int /\ LeapDay(y, m + 1) \in Int
    <3>1. y \in Int /\ 1 \in Int OBVIOUS
    <3> QED BY <2>1, <3>1, OrdinalOf, Zenon
  <2> QED BY <1>1, <1>2, <2>1, <2>2, <2>3
<1> QED BY <1>3, <1>4

\* The day after a date is a date.
LEMMA DayAfterIsDate ==
  ASSUME NEW d, IsDate(d)
  PROVE  IsDate(DayAfter(d))
<1>1. CASE d.day < MonthLength(d.year, d.month)
  <2>1. DayAfter(d) = [d EXCEPT !.day = d.day + 1] BY <1>1 DEF DayAfter
  <2>2. DayAfter(d) = Date(d.year, d.month, d.day + 1) BY <2>1 DEF IsDate, Date
  <2> QED BY <1>1, <2>2, MonthLengths DEF IsDate, Date
<1>2. CASE ~(d.day < MonthLength(d.year, d.month))
  <2> DEFINE next == MonthAfter(d.year, d.month)
  <2>1. DayAfter(d) = Date(next[1], next[2], 1) BY <1>2 DEF DayAfter
  <2>2. next[1] \in Int /\ next[2] \in 1..12 BY NextMonthFollows DEF IsDate
  <2>3. 1 \in 1..MonthLength(next[1], next[2]) BY MonthLengths
  <2> QED BY <2>1, <2>2, <2>3 DEF IsDate, Date
<1> QED BY <1>1, <1>2

\* The n-th day of a month is n - 1 days after its first.
LEMMA DaysOfMonth ==
  ASSUME NEW y \in Int, NEW m \in 1..12, NEW n \in Int
  PROVE  /\ Ordinal(Date(y, m, 1)) \in Int
         /\ Ordinal(Date(y, m, n)) = Ordinal(Date(y, m, 1)) + n - 1
<1>1. m \in 1..12 /\ y \in Int /\ n \in Int /\ 1 \in Int OBVIOUS
<1>2. /\ Ordinal(Date(y, m, 1)) = DaysBefore(y) + MonthsBefore(m) + LeapDay(y, m) + 1
      /\ MonthsBefore(m) \in Int /\ LeapDay(y, m) \in Int
  BY <1>1, OrdinalOf, Zenon
<1>3. Ordinal(Date(y, m, n)) = DaysBefore(y) + MonthsBefore(m) + LeapDay(y, m) + n
  BY <1>1, OrdinalOf, Zenon
<1> QED BY <1>2, <1>3, YearLengths

\* Today is a day of the current month.
LEMMA OrdinalToday ==
  ASSUME NEW d, IsDate(d)
  PROVE  /\ Ordinal(Date(d.year, d.month, 1)) \in Int /\ Ordinal(d) \in Int
         /\ Ordinal(d) = Ordinal(Date(d.year, d.month, 1)) + d.day - 1
<1>1. d.year \in Int /\ d.month \in 1..12 /\ d.day \in Int
  BY MonthLengths DEF IsDate
<1>2. Ordinal(d) = Ordinal(Date(d.year, d.month, d.day)) BY DEF IsDate
<1>3. /\ Ordinal(Date(d.year, d.month, 1)) \in Int
      /\ Ordinal(Date(d.year, d.month, d.day)) = Ordinal(Date(d.year, d.month, 1)) + d.day - 1
  BY <1>1, DaysOfMonth, Zenon
<1> QED BY <1>1, <1>2, <1>3

-----------------------------------------------------------------------------
(* The month that is meant.                                                *)

\* It is a month, the current one from the 28th on and the one the current
\* one follows before.
LEMMA TargetIsMonth ==
  ASSUME NEW d, IsDate(d)
  PROVE  LET y == TargetMonth(d)[1]
             m == TargetMonth(d)[2]
         IN  /\ TargetMonth(d) = <<y, m>> /\ y \in Int /\ m \in 1..12
             /\ d.day >= 28 => y = d.year /\ m = d.month
             /\ d.day < 28 => MonthAfter(y, m) = <<d.year, d.month>>
<1>1. d.year \in Int /\ d.month \in 1..12 /\ d.day \in Int
  BY MonthLengths DEF IsDate
<1>2. CASE d.day >= 28
  <2>1. TargetMonth(d) = <<d.year, d.month>> BY <1>2 DEF TargetMonth
  <2> QED BY <1>1, <1>2, <2>1
<1>3. CASE ~(d.day >= 28) /\ d.month = 1
  <2>1. TargetMonth(d) = <<d.year - 1, 12>> BY <1>3 DEF TargetMonth
  <2> QED BY <1>1, <1>3, <2>1 DEF MonthAfter
<1>4. CASE ~(d.day >= 28) /\ d.month # 1
  <2>1. TargetMonth(d) = <<d.year, d.month - 1>> BY <1>4 DEF TargetMonth
  <2> QED BY <1>1, <1>4, <2>1 DEF MonthAfter
<1> QED BY <1>2, <1>3, <1>4

\* The month runs from its first day, which has come, to the day before the
\* next month's first, at most 27 days ago and at most three from now.
LEMMA MonthInOrdinals ==
  ASSUME NEW d, IsDate(d)
  PROVE  LET p == Range(SmartMonth(d)) IN
           /\ p.first \in Int /\ p.last \in Int /\ Ordinal(d) \in Int
           /\ p.last - p.first + 1 \in 28..31
           /\ p.first <= Ordinal(d)
           /\ Ordinal(d) - p.last \in (-3)..27
           /\ LET next == MonthAfter(TargetMonth(d)[1], TargetMonth(d)[2]) IN
                p.last + 1 = Ordinal(Date(next[1], next[2], 1))
<1> DEFINE y == TargetMonth(d)[1]
           m == TargetMonth(d)[2]
           start == Ordinal(Date(y, m, 1))
           length == MonthLength(y, m)
           next == MonthAfter(y, m)
           p == Range(SmartMonth(d))
<1> SUFFICES /\ p.first \in Int /\ p.last \in Int /\ Ordinal(d) \in Int
             /\ p.last - p.first + 1 \in 28..31
             /\ p.first <= Ordinal(d)
             /\ Ordinal(d) - p.last \in (-3)..27
             /\ p.last + 1 = Ordinal(Date(next[1], next[2], 1))
  OBVIOUS
<1>1. y \in Int /\ m \in 1..12 /\ length \in 28..31 BY TargetIsMonth, MonthLengths
<1>2. p = [first |-> start, last |-> Ordinal(Date(y, m, length))]
  BY DEF Range, SmartMonth
<1>3. start \in Int /\ Ordinal(Date(y, m, length)) = start + length - 1
  <2>1. length \in Int BY <1>1
  <2> QED BY <1>1, <2>1, DaysOfMonth, Zenon
<1>4. p.first = start /\ p.last = start + length - 1 BY <1>2, <1>3
<1>5. p.last + 1 = Ordinal(Date(next[1], next[2], 1))
  <2>1. Ordinal(Date(next[1], next[2], 1)) = start + length
    BY <1>1, NextMonthFollows, Zenon
  <2>2. length \in Int BY <1>1
  <2> HIDE DEF start, length, p, next
  <2> QED BY <1>3, <1>4, <2>1, <2>2
<1>6. /\ Ordinal(Date(d.year, d.month, 1)) \in Int /\ Ordinal(d) \in Int
      /\ Ordinal(d) = Ordinal(Date(d.year, d.month, 1)) + d.day - 1
      /\ d.day \in 1..MonthLength(d.year, d.month)
  BY OrdinalToday DEF IsDate
<1>7. CASE d.day >= 28
  <2>1. y = d.year /\ m = d.month BY <1>7, TargetIsMonth
  <2>2. d.day \in Int /\ 1 <= d.day /\ d.day <= length BY <1>1, <1>6, <2>1
  <2>3. Ordinal(d) = start + d.day - 1 BY <1>6, <2>1
  <2> HIDE DEF start, length, p, next
  <2> QED BY <1>1, <1>3, <1>4, <1>5, <1>6, <1>7, <2>2, <2>3
<1>8. CASE ~(d.day >= 28)
  <2>1. MonthLength(d.year, d.month) \in Int BY MonthLengths
  <2>2. d.day \in Int /\ 1 <= d.day /\ d.day < 28 BY <1>6, <1>8, <2>1
  <2>3. MonthAfter(y, m) = <<d.year, d.month>> BY <2>2, TargetIsMonth
  <2>4. Ordinal(Date(d.year, d.month, 1)) = start + length
    <3>1. /\ MonthAfter(y, m)[1] = d.year /\ MonthAfter(y, m)[2] = d.month BY <2>3
    <3>2. Ordinal(Date(MonthAfter(y, m)[1], MonthAfter(y, m)[2], 1)) = start + length
      BY <1>1, NextMonthFollows, Zenon
    <3> QED BY <3>1, <3>2
  <2> HIDE DEF start, length, p, next
  <2> QED BY <1>1, <1>3, <1>4, <1>5, <1>6, <2>2, <2>4
<1> QED BY <1>7, <1>8

\* A day later it is the same month or the next one.
LEMMA MonthMovesOn ==
  ASSUME NEW d, IsDate(d)
  PROVE  TargetMonth(DayAfter(d)) \in
           {TargetMonth(d), MonthAfter(TargetMonth(d)[1], TargetMonth(d)[2])}
<1> DEFINE y == TargetMonth(d)[1]
           m == TargetMonth(d)[2]
           e == DayAfter(d)
<1>1. d.year \in Int /\ d.month \in 1..12 /\ d.day \in 1..MonthLength(d.year, d.month)
      /\ MonthLength(d.year, d.month) \in 28..31
  BY MonthLengths DEF IsDate
<1>2. CASE d.day < MonthLength(d.year, d.month)
  <2>1. e.year = d.year /\ e.month = d.month /\ e.day = d.day + 1
    <3>1. e = [d EXCEPT !.day = d.day + 1] BY <1>2 DEF DayAfter
    <3> QED BY <3>1 DEF IsDate, Date
  <2>2. CASE d.day = 27
    <3>1. TargetMonth(e) = <<d.year, d.month>> BY <2>1, <2>2 DEF TargetMonth
    <3> QED BY <2>2, <3>1, TargetIsMonth
  <2>3. CASE d.day # 27
    <3>1. d.day >= 28 <=> e.day >= 28 BY <1>1, <2>1, <2>3
    <3>2. TargetMonth(e) = TargetMonth(d) BY <2>1, <3>1 DEF TargetMonth
    <3> QED BY <3>2
  <2> QED BY <2>2, <2>3
<1>3. CASE ~(d.day < MonthLength(d.year, d.month))
  <2> DEFINE next == MonthAfter(d.year, d.month)
  <2>1. e = Date(next[1], next[2], 1) BY <1>3 DEF DayAfter
  <2>2. e.year = next[1] /\ e.month = next[2] /\ e.day = 1 BY <2>1 DEF Date
  <2>3. d.day >= 28 BY <1>1, <1>3
  <2>4. TargetMonth(d) = <<d.year, d.month>> BY <2>3 DEF TargetMonth
  <2>5. TargetMonth(e) = <<d.year, d.month>>
    BY <1>1, <2>2 DEF TargetMonth, MonthAfter
  <2> QED BY <2>4, <2>5
<1> QED BY <1>2, <1>3

-----------------------------------------------------------------------------
(* The bot.                                                                *)

\* What the presets and a custom period that passes ask for is allowed.
LEMMA PresetsAllowed ==
  ASSUME NEW d, IsDate(d), NEW p \in {Range(SmartMonth(d)), Last30(d)}
  PROVE  Valid(p, d) /\ p.last - p.first < MexcWindowDays
<1>1. Ordinal(d) \in Int BY OrdinalToday
<1>2. CASE p = Range(SmartMonth(d))
  <2>1. /\ p.first \in Int /\ p.last \in Int
        /\ p.last - p.first + 1 \in 28..31 /\ p.first <= Ordinal(d)
    BY <1>2, MonthInOrdinals
  <2> QED BY <1>1, <2>1 DEF Valid, MaxPeriodDays, MexcWindowDays
<1>3. CASE p = Last30(d)
  <2>1. p.first = Ordinal(d) - 29 /\ p.last = Ordinal(d) BY <1>3 DEF Last30
  <2> QED BY <1>1, <2>1 DEF Valid, MaxPeriodDays, MexcWindowDays
<1> QED BY <1>2, <1>3

\* Bybit's window for the presets.
LEMMA BybitMeets ==
  ASSUME NEW d, IsDate(d), NEW p \in {Range(SmartMonth(d)), Last30(d)}
  PROVE  /\ BybitDays(p) = 30
         /\ BybitPeriod(p, d).first <= p.last
         /\ p.first <= BybitPeriod(p, d).last
<1>1. /\ p.first \in Int /\ p.last \in Int /\ Ordinal(d) \in Int
      /\ p.last - p.first + 1 \in 28..31
      /\ p.first <= Ordinal(d) /\ Ordinal(d) - 29 <= p.last
  <2>1. CASE p = Range(SmartMonth(d)) BY <2>1, MonthInOrdinals
  <2>2. CASE p = Last30(d)
    <3>1. p.first = Ordinal(d) - 29 /\ p.last = Ordinal(d) BY <2>2 DEF Last30
    <3> QED BY <3>1, OrdinalToday
  <2> QED BY <2>1, <2>2
<1>2. BybitDays(p) = 30 BY <1>1 DEF BybitDays, Distance
<1>3. BybitPeriod(p, d).first = Ordinal(d) - 30 /\ BybitPeriod(p, d).last = Ordinal(d)
  BY <1>2 DEF BybitPeriod
<1> QED BY <1>1, <1>2, <1>3

\* The calendar begins with a date and goes on from date to date.
LEMMA InitIsDate == Init => TodayIsDate
<1> SUFFICES ASSUME Init PROVE TodayIsDate OBVIOUS
<1>1. PICK y \in Years : today = Date(y, 1, 1) BY DEF Init
<1>2. y \in Int BY CalendarAssumption
<1>3. today.year = y /\ today.month = 1 /\ today.day = 1 BY <1>1 DEF Date
<1>4. 1 \in 1..MonthLength(y, 1) BY MonthLengths
<1> QED BY <1>1, <1>2, <1>3, <1>4 DEF TodayIsDate, IsDate

\* The day after a date is a date.
LEMMA StepIsDate == TodayIsDate /\ [Next]_vars => TodayIsDate'
<1> SUFFICES ASSUME TodayIsDate, [Next]_vars PROVE TodayIsDate' OBVIOUS
<1>1. CASE UNCHANGED today BY <1>1 DEF TodayIsDate, IsDate
<1>2. CASE Midnight
  <2>1. today' = DayAfter(today) /\ DayAfter(today).year \in Years BY <1>2 DEF Midnight
  <2>2. IsDate(DayAfter(today)) BY DayAfterIsDate DEF TodayIsDate
  <2> QED BY <2>1, <2>2 DEF TodayIsDate
<1> QED BY <1>1, <1>2 DEF Next, Preset, Custom, vars

\* Every day of the run is a date.
LEMMA InvariantIsDate == Spec => []TodayIsDate
BY InitIsDate, StepIsDate, PTL DEF Spec

\* No calculation is for a period validate_period would reject, whatever day it
\* is, nor for one MEXC would have to be asked about in two parts.
THEOREM PeriodsCalculationsAllowed == Spec => []CalculationsAllowed
<1>1. Init => CalculationsAllowed BY DEF Init, CalculationsAllowed
<1>2. TodayIsDate /\ CalculationsAllowed /\ [Next]_vars => CalculationsAllowed'
  <2> SUFFICES ASSUME TodayIsDate, CalculationsAllowed, [Next]_vars
               PROVE  CalculationsAllowed'
    OBVIOUS
  <2>1. CASE Preset
    <3>1. today' = today /\ period' \in {Range(SmartMonth(today)), Last30(today)}
      BY <2>1 DEF Preset
    <3>2. Valid(period', today) /\ period'.last - period'.first < MexcWindowDays
      BY <3>1, PresetsAllowed DEF TodayIsDate
    <3> QED BY <3>1, <3>2 DEF CalculationsAllowed
  <2>2. CASE Custom
    <3>1. PICK b \in Begins, s \in Spans :
            LET p == [first |-> Ordinal(today) + b, last |-> Ordinal(today) + b + s] IN
              Valid(p, today) /\ period' = p
      BY <2>2 DEF Custom
    <3>2. Valid(period', today) /\ today' = today BY <2>2, <3>1 DEF Custom
    <3>3. period'.first \in Int /\ period'.last \in Int
      <4>1. Ordinal(today) \in Int /\ b \in Int /\ s \in Int
        BY OrdinalToday, CustomAssumption DEF TodayIsDate
      <4>2. period'.first = Ordinal(today) + b /\ period'.last = Ordinal(today) + b + s
        BY <3>1
      <4> QED BY <4>1, <4>2
    <3>4. period'.last - period'.first < MexcWindowDays
      BY <3>2, <3>3 DEF Valid, MaxPeriodDays, MexcWindowDays
    <3> QED BY <3>2, <3>4 DEF CalculationsAllowed
  <2>3. CASE Midnight BY <2>3 DEF Midnight, CalculationsAllowed
  <2>4. CASE UNCHANGED vars BY <2>4 DEF vars, CalculationsAllowed
  <2> QED BY <2>1, <2>2, <2>3, <2>4 DEF Next
<1> QED BY <1>1, <1>2, InvariantIsDate, PTL DEF Spec

\* "The month" is one calendar month, all of it, on every day, and one that
\* ended at most 27 days ago or ends in at most three.
THEOREM PeriodsWholeMonth == Spec => []WholeMonth
<1>1. TodayIsDate => WholeMonth
  <2> SUFFICES ASSUME TodayIsDate PROVE WholeMonth OBVIOUS
  <2> DEFINE y == TargetMonth(today)[1]
             m == TargetMonth(today)[2]
             next == MonthAfter(y, m)
             p == Range(SmartMonth(today))
  <2>1. SmartMonth(today).from = Date(y, m, 1) BY DEF SmartMonth
  <2>2. p.last + 1 = Ordinal(Date(next[1], next[2], 1)) /\ Ordinal(today) - p.last \in (-3)..27
    BY MonthInOrdinals DEF TodayIsDate
  <2>3. /\ SmartMonth(today).from.year = y /\ SmartMonth(today).from.month = m
        /\ SmartMonth(today).from.day = 1
    BY <2>1 DEF Date
  <2> HIDE DEF y, m, p
  <2> QED BY <2>2, <2>3 DEF WholeMonth, p
<1> QED BY <1>1, InvariantIsDate, PTL

\* On every day Bybit's 30 days meet the period of the preset.
THEOREM PeriodsBybitMeetsMonth == Spec => []BybitMeetsMonth
<1>1. TodayIsDate => BybitMeetsMonth BY BybitMeets DEF TodayIsDate, BybitMeetsMonth
<1> QED BY <1>1, InvariantIsDate, PTL

\* "The month" never skips one and never goes back.
THEOREM PeriodsMonthsInOrder == Spec => MonthsInOrder
<1>1. TodayIsDate /\ [Next]_vars =>
        [TargetMonth(today') \in
           {TargetMonth(today), MonthAfter(TargetMonth(today)[1], TargetMonth(today)[2])}]_vars
  <2> SUFFICES ASSUME TodayIsDate, Next
               PROVE  TargetMonth(today') \in
                        {TargetMonth(today),
                         MonthAfter(TargetMonth(today)[1], TargetMonth(today)[2])}
    BY DEF vars
  <2>1. CASE today' = today BY <2>1
  <2>2. CASE today' = DayAfter(today) BY <2>2, MonthMovesOn DEF TodayIsDate
  <2> QED BY <2>1, <2>2 DEF Next, Preset, Custom, Midnight
<1> QED BY <1>1, InvariantIsDate, PTL DEF Spec, MonthsInOrder

=============================================================================
