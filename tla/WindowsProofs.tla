--------------------------- MODULE WindowsProofs ----------------------------
(***************************************************************************)
(* iter_windows cuts every period into windows the exchange accepts, and   *)
(* the windows partition it, for any days and any widths.                  *)
(***************************************************************************)
EXTENDS Windows, TLAPS

\* Each window lies between the period's first day and the cursor, apart from
\* the others, and the days up to the cursor are all in some window.
Tiled ==
  /\ \A i \in Indices : from <= windows[i].first /\ windows[i].last < cursor
  /\ \A i, j \in Indices : i < j => windows[i].last < windows[j].first
  /\ \A d \in Int : from <= d /\ d < cursor => \E i \in Indices : d \in Covered(i)
  /\ from <= cursor

IInv == WTypeOK /\ WithinCap /\ Tiled /\ FittingIsWhole
        /\ (cursor <= to \/ from > to \/ cursor = to + 1)
        /\ (Len(windows) # 0 /\ cursor <= to => to - from >= width)

\* Days are numbers.
LEMMA WindowsTyped ==
  ASSUME WTypeOK
  PROVE  /\ from \in Int /\ to \in Int /\ cursor \in Int /\ width \in Nat /\ width >= 1
         /\ Len(windows) \in Nat
         /\ \A i \in Indices : /\ i \in Nat /\ i <= Len(windows)
                              /\ windows[i].first \in Int /\ windows[i].last \in Int
<1>1. windows \in Seq(Window) BY DEF WTypeOK
<1>2. \A i \in Indices : windows[i] \in Window /\ i \in Nat /\ i <= Len(windows)
  BY <1>1 DEF Indices
<1>3. from \in Int /\ to \in Int /\ cursor \in Int /\ width \in Nat /\ width >= 1
  BY DaysAssumption, WidthsAssumption DEF WTypeOK
<1> QED BY <1>1, <1>2, <1>3 DEF Window

\* The window a step yields, and what it adds to the observation.
LEMMA YieldAppends ==
  ASSUME IInv, Yield, NEW last, last = WindowEnd(cursor, width, to)
  PROVE  /\ last \in Int /\ cursor <= last /\ last <= to /\ last - cursor < width
         /\ last = to \/ last = cursor + width - 1
         /\ cursor' = last + 1
         /\ UNCHANGED <<from, to, width>>
         /\ Len(windows) \in Nat
         /\ windows' \in Seq(Window)
         /\ Len(windows') = Len(windows) + 1
         /\ Indices' = Indices \cup {Len(windows) + 1}
         /\ \A i \in Indices : i < Len(windows) + 1 /\ i \in Nat /\ windows'[i] = windows[i]
         /\ windows'[Len(windows) + 1] = [first |-> cursor, last |-> last]
<1> USE DaysAssumption, WidthsAssumption
<1>1. /\ from \in Int /\ to \in Int /\ cursor \in Int /\ width \in Nat /\ width >= 1
      /\ windows \in Seq(Window)
  BY DEF IInv, WTypeOK
<1>2. last \in Int /\ cursor <= last /\ last <= to /\ last - cursor < width
      /\ (last = to \/ last = cursor + width - 1)
  BY <1>1 DEF Yield, WindowEnd
<1>3. [first |-> cursor, last |-> last] \in Window BY <1>1, <1>2 DEF Window
<1>4. /\ windows' = Append(windows, [first |-> cursor, last |-> last])
      /\ cursor' = last + 1 /\ UNCHANGED <<from, to, width>>
  BY DEF Yield
<1> QED BY <1>1, <1>2, <1>3, <1>4 DEF Indices

\* Nothing has been yielded.
LEMMA InitIInv == WInit => IInv
<1> USE DaysAssumption, WidthsAssumption
<1> SUFFICES ASSUME WInit PROVE IInv OBVIOUS
<1>1. Indices = {} /\ Len(windows) = 0 BY DEF WInit, Indices
<1>2. WTypeOK BY DEF WInit, WTypeOK
<1>3. Tiled BY <1>1, <1>2 DEF WInit, Tiled, WTypeOK
<1> QED BY <1>1, <1>2, <1>3 DEF WInit, IInv, WithinCap, FittingIsWhole

\* A yielded window continues the tiling.
LEMMA StepIInv == IInv /\ [Yield]_wvars => IInv'
<1> SUFFICES ASSUME IInv, [Yield]_wvars PROVE IInv' OBVIOUS
<1>1. CASE UNCHANGED wvars
  <2>1. Indices' = Indices /\ \A i \in Indices : Covered(i)' = Covered(i)
    BY <1>1 DEF wvars, Indices, Covered
  <2> QED BY <1>1, <2>1 DEF wvars, IInv, WTypeOK, WithinCap, Tiled, FittingIsWhole
<1>2. CASE Yield
  <2> DEFINE n == Len(windows) + 1
             last == WindowEnd(cursor, width, to)
  <2> HIDE DEF last
  <2>1. /\ last \in Int /\ cursor <= last /\ last <= to /\ last - cursor < width
        /\ last = to \/ last = cursor + width - 1
        /\ cursor' = last + 1
        /\ UNCHANGED <<from, to, width>>
        /\ windows' \in Seq(Window)
        /\ Len(windows') = n
        /\ Indices' = Indices \cup {n}
        /\ \A i \in Indices : i < n /\ i \in Nat /\ windows'[i] = windows[i]
        /\ windows'[n] = [first |-> cursor, last |-> last]
    BY <1>2, YieldAppends DEF last
  <2>2. /\ from \in Int /\ to \in Int /\ cursor \in Int /\ width \in Nat /\ n \in Nat
        /\ Len(windows) \in Nat
        /\ \A i \in Indices : windows[i].first \in Int /\ windows[i].last \in Int
    BY WindowsTyped DEF IInv
  <2>0. windows'[n].first = cursor /\ windows'[n].last = last BY <2>1
  <2>3. WTypeOK' BY <2>1, <2>2 DEF IInv, WTypeOK
  <2>4. WithinCap' BY <2>0, <2>1, <2>2 DEF IInv, WithinCap
  <2>5. Tiled'
    <3>1. \A i \in Indices' : from' <= windows'[i].first /\ windows'[i].last < cursor'
      BY <2>0, <2>1, <2>2 DEF IInv, Tiled
    <3>2. \A i, j \in Indices' : i < j => windows'[i].last < windows'[j].first
      BY <2>0, <2>1, <2>2 DEF IInv, Tiled
    <3>3. ASSUME NEW d \in Int, from' <= d, d < cursor'
          PROVE  \E i \in Indices' : d \in Covered(i)'
      <4>1. CASE d < cursor
        <5>1. PICK i \in Indices : d \in Covered(i) BY <2>1, <3>3, <4>1 DEF IInv, Tiled
        <5> QED BY <2>1, <5>1 DEF Covered
      <4>2. CASE ~(d < cursor)
        <5>1. cursor <= d /\ d <= last BY <2>1, <2>2, <3>3, <4>2
        <5>2. d \in windows'[n].first..windows'[n].last BY <2>0, <2>1, <2>2, <5>1
        <5>3. n \in Indices' BY <2>1
        <5> HIDE DEF n
        <5> QED BY <5>2, <5>3 DEF Covered
      <4> QED BY <4>1, <4>2
    <3>4. from' <= cursor' BY <2>1, <2>2 DEF IInv, Tiled
    <3> QED BY <3>1, <3>2, <3>3, <3>4 DEF Tiled
  <2>6. cursor <= to BY <1>2 DEF Yield
  <2>7. cursor' <= to' => to' - from' >= width'
    BY <2>1, <2>2, <2>6 DEF IInv, Tiled
  <2>8. FittingIsWhole'
    BY <2>1, <2>2, <2>6 DEF IInv, FittingIsWhole
  <2> QED BY <2>1, <2>2, <2>3, <2>4, <2>5, <2>7, <2>8 DEF IInv
<1> QED BY <1>1, <1>2

\* The invariant holds all the way.
LEMMA Inductive == WSpec => []IInv
BY InitIInv, StepIInv, PTL DEF WSpec

\* No exchange is ever asked for more days than it accepts.
THEOREM WindowsWithinCap == WSpec => []WithinCap
<1>1. IInv => WithinCap BY DEF IInv
<1> QED BY <1>1, Inductive, PTL

\* A tiling is a partition.
LEMMA TilingPartitions == ASSUME IInv PROVE Partition
<1>1. /\ from \in Int /\ cursor \in Int
      /\ \A i \in Indices : i \in Nat /\ windows[i].first \in Int /\ windows[i].last \in Int
  BY WindowsTyped DEF IInv
<1>2. \A d \in Days : (from <= d /\ d < cursor) <=> \E i \in Indices : d \in Covered(i)
  BY <1>1, DaysAssumption DEF IInv, Tiled, Covered
<1>3. \A i, j \in Indices : i # j => Covered(i) \cap Covered(j) = {}
  <2> SUFFICES ASSUME NEW i \in Indices, NEW j \in Indices, i < j
               PROVE  Covered(i) \cap Covered(j) = {}
    BY <1>1
  <2>1. windows[i].last < windows[j].first BY DEF IInv, Tiled
  <2> QED BY <1>1, <2>1 DEF Covered
<1> QED BY <1>2, <1>3 DEF Partition, IInv

\* Every day of every period is in exactly one window.
THEOREM WindowsPartition == WSpec => []Partition
<1>1. IInv => Partition BY TilingPartitions
<1> QED BY <1>1, Inductive, PTL

\* A period no longer than the window is asked for in one piece: with mexc.py's
\* 365-day window, every period validate_period accepts.
THEOREM WindowsFittingIsWhole == WSpec => []FittingIsWhole
<1>1. IInv => FittingIsWhole BY DEF IInv
<1> QED BY <1>1, Inductive, PTL

=============================================================================
