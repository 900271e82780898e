------------------------------ MODULE Windows -------------------------------
(***************************************************************************)
(* iter_windows of bot/utils/dates.py: a period of whole UTC days is cut   *)
(* into consecutive windows of at most width days.  Days are numbered; the *)
(* window <<a, b>> stands for the instants day_start(a) .. day_end(b),     *)
(* which in seconds or milliseconds leave no gap before day_start(b + 1).  *)
(* It is a generator: one step yields one window.                          *)
(***************************************************************************)
EXTENDS Integers, Sequences

CONSTANTS
  Days,     \* days a period may begin or end on
  Widths    \* max_window_days of the exchanges

ASSUME DaysAssumption == Days \subseteq Int
ASSUME WidthsAssumption == Widths \subseteq Nat \ {0}   \* else ValueError

VARIABLES
  from, to,   \* the period
  width,      \* max_window_days
  cursor,     \* first day not yet in a window
  windows     \* observation: the windows yielded so far

wvars == <<from, to, width, cursor, windows>>

Window == [first : Int, last : Int]

WTypeOK ==
  /\ from \in Days /\ to \in Days
  /\ width \in Widths
  /\ cursor \in Int
  /\ windows \in Seq(Window)

\* validate_period and the presets let no empty period through; the generator
\* copes with one all the same.
WInit ==
  /\ from \in Days /\ to \in Days
  /\ width \in Widths
  /\ cursor = from
  /\ windows = <<>>

\* Windows one day too long, or too short (faulty versions of WindowEnd).
WindowEndInclusive(first, w, end) == IF first + w < end THEN first + w ELSE end

WindowEndShort(first, w, end) == IF first + w - 2 < end THEN first + w - 2 ELSE end

WindowEnd(first, w, end) == IF first + w - 1 < end THEN first + w - 1 ELSE end

\* The next window repeats the last day of this one (faulty).
YieldOverlapping ==
  /\ cursor <= to
  /\ LET last == WindowEnd(cursor, width, to) IN
       /\ windows' = Append(windows, [first |-> cursor, last |-> last])
       /\ cursor' = IF last = to THEN to + 1 ELSE last
  /\ UNCHANGED <<from, to, width>>

Yield ==
  /\ cursor <= to
  /\ LET last == WindowEnd(cursor, width, to) IN
       /\ windows' = Append(windows, [first |-> cursor, last |-> last])
       /\ cursor' = last + 1
  /\ UNCHANGED <<from, to, width>>

WSpec == WInit /\ [][Yield]_wvars /\ WF_wvars(Yield)

-----------------------------------------------------------------------------
(* Properties.                                                             *)

Indices == 1..Len(windows)
Covered(i) == windows[i].first..windows[i].last

\* No window is longer than the exchange accepts, none is empty.
WithinCap ==
  \A i \in Indices :
    /\ windows[i].first <= windows[i].last
    /\ windows[i].last - windows[i].first < width

\* Each day of the period belongs to exactly one window, and no other day to
\* any: additive records are neither counted twice nor missed at a boundary.
\* At the end the cursor is past the period, so the windows make up all of it.
Partition ==
  /\ \A d \in Days : (from <= d /\ d < cursor) <=> \E i \in Indices : d \in Covered(i)
  /\ \A i, j \in Indices : i # j => Covered(i) \cap Covered(j) = {}
  /\ cursor <= to \/ from > to \/ cursor = to + 1

\* A period that fits is never cut.  MEXC's totals do not add up across
\* windows, so mexc.py depends on it for every period validate_period accepts.
FittingIsWhole == to - from < width => Len(windows) <= 1

=============================================================================
