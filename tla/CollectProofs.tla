--------------------------- MODULE CollectProofs ----------------------------
(***************************************************************************)
(* Collect's promises for any exchanges, pages and windows of any size and *)
(* any number of records: no amount is added twice but what a late record  *)
(* pushed on, a result is complete, and the pages run out.                 *)
(*                                                                         *)
(* The windows are those of iter_windows (WindowsProofs).  Within them the *)
(* invariants say where a record may be: one that has been counted, in a   *)
(* window or slice already left or on a page already read (OnceRead); one  *)
(* that is owed and has not been counted, on a page to come, or after a    *)
(* full one that was taken for the last (Owing); one that came late, where *)
(* it pays for a repetition (Paid).                                        *)
(***************************************************************************)
EXTENDS Collect, WindowsProofs, FiniteSetTheorems, WellFoundedInduction

Current == windows[Len(windows)]

\* Position of record i among those booked in the slice being read.
Rank(i) == Cardinality(Before(Booked, i))

\* Record i is in a part of the period that has been read.
Behind(i) ==
  \/ ledger[i].day < Current.first
  \/ ledger[i].slice < slice
  \/ /\ ledger[i].slice = slice
     /\ IF exchange = "bitget" THEN i >= idLess ELSE Rank(i) <= page * PageSize

Types ==
  /\ ledger \in Seq(Bookings) /\ Len(ledger) <= MaxRecords
  /\ slice \in Nat /\ page \in Nat /\ idLess \in Int
  /\ counted \in [Ids -> Nat]
  /\ newest \in BOOLEAN
  /\ from <= to
  /\ newest => details
  /\ slice # 0 => Len(windows) # 0

\* Whatever is in the result was booked, on a day in a window yielded, ...
Asked ==
  \A i \in Ids : counted[i] > 0 =>
    i \in 1..Len(ledger) /\ from <= ledger[i].day /\ ledger[i].day < cursor

\* ... and, as long as a page once read stays what it is, once.
OnceRead ==
  ~newest => \A i \in Ids : counted[i] > 0 => counted[i] = 1 /\ (slice # 0 => Behind(i))

Reading == IInv /\ Types /\ Asked /\ OnceRead

-----------------------------------------------------------------------------
(* The windows.                                                            *)

\* Collect yields windows as iter_windows does, one at a time.
LEMMA StepOfWindows == ASSUME [Next]_vars PROVE [Yield]_wvars
BY DEF Next, Adapter, NextWindow, ReadPage, ReadLastPage, Fail, Finalize, Book, vars, wvars

\* The current window lies in the part of the period the cursor has passed.
LEMMA CurrentWindow ==
  ASSUME IInv, Len(windows) # 0
  PROVE  /\ Current.first \in Int /\ Current.last \in Int
         /\ from <= Current.first /\ Current.last < cursor
<1>1. Len(windows) \in Nat /\ \A i \in Indices : windows[i].first \in Int /\ windows[i].last \in Int
  BY WindowsTyped DEF IInv
<1>2. Len(windows) \in Indices BY <1>1 DEF Indices
<1> QED BY <1>1, <1>2 DEF IInv, Tiled, Current

\* A window to come begins where the last one ended.
LEMMA NewWindow ==
  ASSUME IInv, Yield
  PROVE  /\ Len(windows') # 0 /\ Current'.first = cursor /\ cursor' > cursor
         /\ UNCHANGED <<from, to>> /\ from \in Int /\ cursor \in Int /\ cursor' \in Int
<1> DEFINE last == WindowEnd(cursor, width, to)
<1> HIDE DEF last
<1>1. /\ last \in Int /\ cursor <= last
      /\ cursor' = last + 1 /\ UNCHANGED <<from, to, width>>
      /\ Len(windows) \in Nat /\ Len(windows') = Len(windows) + 1
      /\ windows'[Len(windows) + 1] = [first |-> cursor, last |-> last]
  BY YieldAppends DEF last
<1>2. from \in Int /\ cursor \in Int BY WindowsTyped DEF IInv
<1> QED BY <1>1, <1>2 DEF Current

-----------------------------------------------------------------------------
(* Pages.                                                                  *)

\* A record has a day and a slice, both numbers.
LEMMA LedgerTyped ==
  ASSUME Types
  PROVE  /\ Len(ledger) \in Nat
         /\ \A i \in 1..Len(ledger) : ledger[i] \in Bookings /\ ledger[i].day \in Int
                                      /\ ledger[i].slice \in Nat
<1>1. Len(ledger) \in Nat /\ \A i \in 1..Len(ledger) : ledger[i] \in Bookings
  BY DEF Types
<1>2. ASSUME NEW r \in Bookings PROVE r.day \in Int /\ r.slice \in Nat
  <2>1. r \in [day : Days, slice : 1..3] BY CollectAssumption
  <2>2. r.day \in Days /\ r.slice \in 1..3 BY <2>1
  <2>3. r.day \in Int BY <2>2, DaysAssumption
  <2>4. \A n \in 1..3 : n \in Nat OBVIOUS
  <2> QED BY <2>2, <2>3, <2>4
<1> QED BY <1>1, <1>2

\* Records that are booked, where they are listed, and what a page holds.
LEMMA BookedTyped ==
  ASSUME IInv, Types, Len(windows) # 0, NEW i \in Booked
  PROVE  /\ i \in Nat /\ i >= 1 /\ i \in 1..Len(ledger) /\ ledger[i].day \in Int
         /\ ledger[i].slice = slice
         /\ Current.first <= ledger[i].day /\ ledger[i].day <= Current.last
<1>1. ledger \in Seq(Bookings) /\ Len(ledger) \in Nat BY DEF Types
<1>2. i \in 1..Len(ledger) BY DEF Booked, Matching
<1>3. ledger[i] \in Bookings BY <1>1, <1>2
<1>4. ledger[i].day \in Int BY <1>3, CollectAssumption, DaysAssumption
<1> QED BY <1>1, <1>2, <1>4 DEF Booked, Matching, Current

\* No record booked so far has no rank: the first is 1.
LEMMA RankPositive ==
  ASSUME Types, NEW i \in Booked
  PROVE  Rank(i) \in Nat /\ Rank(i) >= 1
<1>1. Len(ledger) \in Nat BY DEF Types
<1>2. IsFiniteSet(1..Len(ledger)) BY <1>1, FS_Interval
<1>3. i \in Before(Booked, i) /\ Before(Booked, i) \subseteq 1..Len(ledger)
  BY <1>1 DEF Before, Booked, Matching
<1>4. IsFiniteSet(Before(Booked, i)) BY <1>2, <1>3, FS_Subset
<1> QED BY <1>3, <1>4, FS_CardinalityType, FS_EmptySet DEF Rank

\* Every record has a rank, booked in this slice or not.
LEMMA RankTyped == ASSUME Types, NEW i PROVE Rank(i) \in Nat
<1>1. Len(ledger) \in Nat BY DEF Types
<1>2. IsFiniteSet(1..Len(ledger)) BY <1>1, FS_Interval
<1>3. Before(Booked, i) \subseteq 1..Len(ledger) BY DEF Before, Booked, Matching
<1> QED BY <1>2, <1>3, FS_Subset, FS_CardinalityType DEF Rank

\* A record booked in the slice being read was asked for.
LEMMA BookedAsked ==
  ASSUME Reading, slice # 0, NEW i \in Booked
  PROVE  i \in Ids /\ i \in 1..Len(ledger) /\ from <= ledger[i].day /\ ledger[i].day < cursor
<1>1. IInv /\ Types /\ Len(windows) # 0 BY DEF Reading, Types
<1>2. /\ i \in Nat /\ i >= 1 /\ i \in 1..Len(ledger) /\ ledger[i].day \in Int
      /\ Current.first <= ledger[i].day /\ ledger[i].day <= Current.last
  BY <1>1, BookedTyped
<1>3. /\ Current.first \in Int /\ Current.last \in Int
      /\ from <= Current.first /\ Current.last < cursor
      /\ from \in Int /\ cursor \in Int
  BY <1>1, CurrentWindow, WindowsTyped DEF IInv
<1>4. Len(ledger) \in Nat /\ Len(ledger) <= MaxRecords /\ MaxRecords \in Nat
  BY <1>1, CollectAssumption DEF Types
<1> QED BY <1>2, <1>3, <1>4 DEF Ids

\* A page holds listed records only.
LEMMA AnswerListed == ASSUME NEW i \in Answer PROVE details /\ i \in Booked
BY DEF Answer, CursorPage, NumberedPage, Listed

\* ... none of which an earlier page of the slice held; reading it puts them
\* behind.
LEMMA AnswerFresh ==
  ASSUME Reading, slice # 0, ~newest, NEW i \in Answer
  PROVE  /\ counted[i] = 0
         /\ exchange = "bitget" => i < idLess
         /\ exchange # "bitget" => Rank(i) <= (page + 1) * PageSize
<1>1. IInv /\ Types /\ OnceRead /\ Len(windows) # 0 BY DEF Reading, Types
<1>2. details /\ i \in Booked /\ Listed = Booked BY AnswerListed DEF Listed
<1>3. exchange = "bitget" => i < idLess BY DEF Answer, CursorPage
<1>4. exchange # "bitget" => Rank(i) \in (page * PageSize + 1)..((page + 1) * PageSize)
  BY <1>2 DEF Answer, NumberedPage, Rank
<1>5. PageSize \in Nat /\ page \in Nat /\ page * PageSize \in Int /\ (page + 1) * PageSize \in Int
  BY <1>1, CollectAssumption DEF Types
<1>6. exchange # "bitget" =>
        Rank(i) \in Int /\ Rank(i) > page * PageSize /\ Rank(i) <= (page + 1) * PageSize
  BY <1>4, <1>5
<1>7. ~Behind(i)
  <2>1. /\ i \in Nat /\ ledger[i].day \in Int /\ ledger[i].slice = slice
        /\ Current.first <= ledger[i].day
    BY <1>1, <1>2, BookedTyped
  <2>2. Current.first \in Int BY <1>1, CurrentWindow
  <2>3. slice \in Nat /\ idLess \in Int BY <1>1 DEF Types
  <2>4. ~(ledger[i].day < Current.first) BY <2>1, <2>2
  <2>5. ~(ledger[i].slice < slice) BY <2>1, <2>3
  <2>6. exchange = "bitget" => ~(i >= idLess) BY <1>3, <2>1, <2>3
  <2>7. exchange # "bitget" => ~(Rank(i) <= page * PageSize) BY <1>5, <1>6
  <2> QED BY <2>4, <2>5, <2>6, <2>7 DEF Behind
<1>8. i \in Ids /\ counted[i] \in Nat BY <1>1, <1>2, BookedAsked DEF Types
<1>9. counted[i] = 0 BY <1>1, <1>7, <1>8 DEF OnceRead
<1> QED BY <1>3, <1>6, <1>9

\* BitMart's sum is added only if no record of the slice has been.
LEMMA FallbackFresh ==
  ASSUME Reading, slice # 0, NEW i \in Fallback(Answer)
  PROVE  i \in Booked /\ i \notin Answer /\ (~newest => counted[i] = 0)
<1>1. IInv /\ Types /\ OnceRead /\ Len(windows) # 0 BY DEF Reading, Types
<1>2. exchange = "bitmart" /\ page = 0 /\ Answer = {} /\ i \in Booked BY DEF Fallback
<1>3. ~Behind(i)
  <2>1. ledger[i].day \in Int /\ ledger[i].slice = slice /\ Current.first <= ledger[i].day
    BY <1>1, <1>2, BookedTyped
  <2>2. Current.first \in Int BY <1>1, CurrentWindow
  <2>3. Rank(i) \in Nat /\ Rank(i) >= 1 BY <1>1, <1>2, RankPositive
  <2>4. slice \in Nat /\ page * PageSize = 0 BY <1>1, <1>2, CollectAssumption DEF Types
  <2>5. ~(ledger[i].day < Current.first) BY <2>1, <2>2
  <2>6. ~(ledger[i].slice < slice) BY <2>1, <2>4
  <2>7. ~(Rank(i) <= page * PageSize) BY <2>3, <2>4
  <2> QED BY <1>2, <2>5, <2>6, <2>7 DEF Behind
<1>4. i \in Ids /\ counted[i] \in Nat BY <1>1, <1>2, BookedAsked DEF Types
<1> QED BY <1>1, <1>2, <1>3, <1>4 DEF OnceRead

\* A set of numbers has a least one: Bitget's next cursor.
LEMMA LeastExists ==
  ASSUME NEW S \in SUBSET Nat, S # {}
  PROVE  \E i \in S : \A j \in S : i <= j
<1>1. PICK i \in S : \A j \in S : <<j, i>> \notin OpToRel(<, Nat)
  BY NatLessThanWellFounded, WFMin
<1>2. \A j \in S : ~(j < i) BY <1>1 DEF OpToRel
<1> QED BY <1>2

\* ... and, if it has a bound, a greatest one.
LEMMA GreatestExists ==
  ASSUME NEW n \in Nat, NEW S \in SUBSET (1..n), S # {}
  PROVE  \E i \in S : \A j \in S : i >= j
<1> DEFINE T == {n - j : j \in S}
<1>1. T \in SUBSET Nat /\ T # {}
  <2>1. \A j \in S : n - j \in Nat OBVIOUS
  <2>2. T # {} OBVIOUS
  <2> QED BY <2>1, <2>2
<1> HIDE DEF T
<1>2. PICK t \in T : \A u \in T : t <= u BY <1>1, LeastExists
<1>3. PICK i \in S : t = n - i BY DEF T
<1>4. \A j \in S : n - i <= n - j BY <1>2, <1>3 DEF T
<1>5. \A j \in S : j \in Int OBVIOUS
<1> QED BY <1>4, <1>5

\* The order of a listing: each part of it has a first and a last record, and
\* what comes earlier has a lower rank.
LEMMA ListingOrdered ==
  ASSUME Types, NEW T \in SUBSET Booked, T # {}
  PROVE  /\ \E c \in T : \A j \in T : j \in Before(Booked, c) => j = c
         /\ \E a \in T : \A j \in T : j \in Before(Booked, a)
<1>1. Len(ledger) \in Nat /\ T \in SUBSET (1..Len(ledger)) BY LedgerTyped DEF Booked, Matching
<1>2. \A j \in T : j \in Nat BY <1>1
<1>3. PICK low \in T : \A j \in T : low <= j BY <1>2, LeastExists
<1>4. PICK high \in T : \A j \in T : high >= j BY <1>1, GreatestExists
<1> QED BY <1>2, <1>3, <1>4 DEF Before

\* What is listed up to a record is no more than its rank.
LEMMA RankMonotonic ==
  ASSUME Types, NEW k \in Booked, NEW S \in SUBSET Before(Booked, k)
  PROVE  IsFiniteSet(S) /\ Cardinality(S) \in Nat /\ Cardinality(S) <= Rank(k)
<1>1. Len(ledger) \in Nat BY LedgerTyped
<1>2. IsFiniteSet(1..Len(ledger)) BY <1>1, FS_Interval
<1>3. Before(Booked, k) \subseteq 1..Len(ledger) BY DEF Before, Booked, Matching
<1>4. IsFiniteSet(Before(Booked, k)) BY <1>2, <1>3, FS_Subset
<1> QED BY <1>4, FS_Subset, FS_CardinalityType DEF Rank

\* Two finite sets and one more element.
LEMMA CoveredByThree ==
  ASSUME NEW S, NEW A, NEW B, NEW c, S \subseteq A \cup B \cup {c},
         IsFiniteSet(A), IsFiniteSet(B)
  PROVE  /\ Cardinality(A) \in Nat /\ Cardinality(B) \in Nat /\ Cardinality(S) \in Nat
         /\ Cardinality(S) <= Cardinality(A) + Cardinality(B) + 1
<1>1. IsFiniteSet(A \cup B) /\ Cardinality(A) \in Nat /\ Cardinality(B) \in Nat
      /\ Cardinality(A \cup B) \in Nat
  BY FS_Union, FS_CardinalityType
<1>2. Cardinality(A \cup B) = Cardinality(A) + Cardinality(B) - Cardinality(A \cap B)
      /\ Cardinality(A \cap B) \in Nat
  <2>1. IsFiniteSet(A \cap B) BY FS_Intersection
  <2> QED BY <2>1, FS_Union, FS_CardinalityType
<1>3. IsFiniteSet((A \cup B) \cup {c})
      /\ Cardinality((A \cup B) \cup {c}) \in {Cardinality(A \cup B), Cardinality(A \cup B) + 1}
  BY <1>1, FS_AddElement
<1>4. Cardinality(S) <= Cardinality((A \cup B) \cup {c}) /\ Cardinality(S) \in Nat
  BY <1>3, FS_Subset, FS_CardinalityType
<1> QED BY <1>1, <1>2, <1>3, <1>4

\* A page is full if a record comes after it.
LEMMA PageFull ==
  ASSUME Types, details, exchange # "bitget", NEW i \in Booked, Rank(i) > (page + 1) * PageSize
  PROVE  Cardinality(Answer) \in Nat /\ Cardinality(Answer) >= PageSize
<1> DEFINE low == page * PageSize
           high == (page + 1) * PageSize
           A == {j \in Booked : Rank(j) <= low}
           B == {j \in Booked : Rank(j) \in (low + 1)..high}
           C == {j \in Booked : Rank(j) > high}
<1>1. Answer = B BY DEF Answer, NumberedPage, Listed, Rank
<1>2. low \in Nat /\ high \in Nat /\ high = low + PageSize /\ PageSize \in Nat
  BY CollectAssumption DEF Types
<1>3. \A j : Rank(j) \in Nat BY RankTyped
<1>4. PICK c \in C : \A j \in C : j \in Before(Booked, c) => j = c
  <2>1. C \in SUBSET Booked /\ C # {} OBVIOUS
  <2> HIDE DEF C
  <2> QED BY <2>1, ListingOrdered
<1>5. IsFiniteSet(Booked)
  <2>1. IsFiniteSet(1..Len(ledger)) BY LedgerTyped, FS_Interval
  <2> QED BY <2>1, FS_Subset DEF Booked, Matching
<1>6. IsFiniteSet(A) /\ IsFiniteSet(B) BY <1>5, FS_Subset
<1>7. Cardinality(A) \in Nat /\ Cardinality(A) <= low
  <2>1. CASE A = {} BY <1>2, <2>1, FS_EmptySet
  <2>2. CASE A # {}
    <3>1. PICK a \in A : \A j \in A : j \in Before(Booked, a)
      <4>1. A \in SUBSET Booked OBVIOUS
      <4> HIDE DEF A
      <4> QED BY <2>2, <4>1, ListingOrdered
    <3>2. a \in Booked /\ Rank(a) <= low OBVIOUS
    <3>3. A \in SUBSET Before(Booked, a) BY <3>1
    <3>4. Cardinality(A) \in Nat /\ Cardinality(A) <= Rank(a)
      <4> HIDE DEF A
      <4> QED BY <3>2, <3>3, RankMonotonic
    <3> QED BY <1>2, <1>3, <3>2, <3>4
  <2> QED BY <2>1, <2>2
<1>8. Before(Booked, c) \subseteq A \cup B \cup {c}
  <2> SUFFICES ASSUME NEW j \in Before(Booked, c), j # c PROVE j \in A \cup B OBVIOUS
  <2>1. j \in Booked /\ j \notin C BY <1>4 DEF Before
  <2>2. ~(Rank(j) > high) BY <2>1
  <2> QED BY <1>2, <1>3, <2>1, <2>2
<1>9. Rank(c) > high OBVIOUS
<1> HIDE DEF A, B, C
<1>10. /\ Cardinality(B) \in Nat
       /\ Rank(c) <= Cardinality(A) + Cardinality(B) + 1
  BY <1>6, <1>8, CoveredByThree DEF Rank
<1> HIDE DEF low, high
<1>11. Cardinality(B) >= PageSize BY <1>2, <1>3, <1>7, <1>9, <1>10
<1> QED BY <1>1, <1>10, <1>11

\* Bitget: a page is full if a record comes below it.
LEMMA CursorPageFull ==
  ASSUME Types, details, exchange = "bitget", NEW i \in Booked, i < idLess, i \notin Answer
  PROVE  Cardinality(Answer) \in Nat /\ Cardinality(Answer) >= PageSize
<1> DEFINE below == {j \in Booked : j < idLess}
           From(k) == {j \in below : j >= k}
           C == below \ Answer
<1>1. Answer = {k \in below : Cardinality(From(k)) <= PageSize}
  BY DEF Answer, CursorPage, Listed
<1>2. Len(ledger) \in Nat /\ Booked \subseteq 1..Len(ledger) BY LedgerTyped DEF Booked, Matching
<1>3. IsFiniteSet(1..Len(ledger)) BY <1>2, FS_Interval
<1>4. IsFiniteSet(below) /\ IsFiniteSet(Answer) /\ \A k : IsFiniteSet(From(k))
  BY <1>1, <1>2, <1>3, FS_Subset
<1>5. PICK c \in C : \A j \in C : c >= j
  <2>1. C \in SUBSET (1..Len(ledger)) /\ C # {} BY <1>2
  <2> HIDE DEF C
  <2> QED BY <1>2, <2>1, GreatestExists
<1>6. From(c) \subseteq {} \cup Answer \cup {c}
  <2> SUFFICES ASSUME NEW j \in From(c), j # c PROVE j \in Answer OBVIOUS
  <2>1. j \in Nat /\ c \in Nat /\ j >= c BY <1>2
  <2>2. j \notin C BY <1>5, <2>1
  <2> QED BY <2>2
<1>7. Cardinality(From(c)) \in Nat /\ ~(Cardinality(From(c)) <= PageSize)
  <2>1. c \in below /\ c \notin Answer OBVIOUS
  <2> QED BY <1>1, <1>4, <2>1, FS_CardinalityType
<1> HIDE DEF From, C
<1>8. Cardinality({}) = 0 /\ IsFiniteSet({}) BY FS_EmptySet
<1>9. Cardinality(Answer) \in Nat /\ Cardinality(From(c)) <= 0 + Cardinality(Answer) + 1
  BY <1>4, <1>6, <1>8, CoveredByThree
<1> QED BY <1>7, <1>9, CollectAssumption

\* Enough pages hold all records.
LEMMA PagesEnough ==
  ASSUME NEW n \in Nat, NEW k \in Nat, NEW size \in Nat \ {0}, k >= (n + size - 1) \div size
  PROVE  k * size >= n
<1> DEFINE x == n + size - 1
           q == x \div size
<1>1. x \in Nat /\ q \in Nat OBVIOUS
<1>2. x < (q + 1) * size /\ (q + 1) * size = q * size + size OBVIOUS
<1>3. q * size \in Nat /\ k * size \in Nat /\ k * size >= q * size
  <2>1. PICK d \in Nat : k = q + d BY <1>1
  <2> QED BY <1>1, <2>1
<1> HIDE DEF q
<1> QED BY <1>2, <1>3

-----------------------------------------------------------------------------
(* The steps.                                                              *)

\* Whatever Collect does, its windows tile the period.
LEMMA WindowsKeep == ASSUME Reading, [Next]_vars PROVE IInv'
BY StepOfWindows, StepIInv DEF Reading

\* Nothing is booked and nothing counted.
LEMMA InitReading == Init => Reading
<1> SUFFICES ASSUME Init PROVE Reading OBVIOUS
<1>1. IInv BY InitIInv DEF Init
<1>2. Len(ledger) = 0 /\ ledger \in Seq(Bookings) BY DEF Init
<1>3. Types
  <2>1. counted \in [Ids -> Nat] BY DEF Init
  <2>2. newest \in BOOLEAN BY DEF Init
  <2>3. /\ slice = 0 /\ slice \in Nat /\ page \in Nat /\ idLess \in Int /\ Len(ledger) <= MaxRecords
    BY <1>2, CollectAssumption DEF Init
  <2>4. from <= to /\ (newest => details) BY DEF Init
  <2> QED BY <1>2, <2>1, <2>2, <2>3, <2>4 DEF Types
<1>4. \A i \in Ids : ~(counted[i] > 0) BY DEF Init
<1>5. Asked /\ OnceRead BY <1>4 DEF Asked, OnceRead
<1> QED BY <1>1, <1>3, <1>5 DEF Reading

\* A window is begun: what has been counted is on earlier days.
LEMMA StepNextWindow == ASSUME Reading, NextWindow PROVE Reading'
<1>1. IInv /\ Types /\ Asked /\ OnceRead BY DEF Reading
<1>2. IInv' BY WindowsKeep DEF Next, Adapter
<1>3. /\ slice = 0 /\ slice' = 1 /\ page' = 0 /\ idLess' = MaxRecords + 1
      /\ Yield /\ UNCHANGED <<server, ledger, counted>>
  BY DEF NextWindow, BeginSlice
<1>4. /\ Len(windows') # 0 /\ Current'.first = cursor /\ cursor' > cursor
      /\ UNCHANGED <<from, to>> /\ from \in Int /\ cursor \in Int /\ cursor' \in Int
  BY <1>1, <1>3, NewWindow
<1>5. Types' BY <1>1, <1>3, <1>4, CollectAssumption DEF Types, server
<1>6. \A i \in 1..Len(ledger) : ledger[i].day \in Int BY <1>1, LedgerTyped
<1>7. Asked' BY <1>1, <1>3, <1>4, <1>6 DEF Asked
<1>8. OnceRead' BY <1>1, <1>3, <1>4 DEF OnceRead, Asked, Behind, server
<1> QED BY <1>2, <1>5, <1>7, <1>8 DEF Reading

\* Bitget's next cursor is the lowest record of the page.
LEMMA NextCursor ==
  ASSUME Reading, ReadPage, exchange = "bitget"
  PROVE  idLess' \in Answer /\ \A j \in Answer : idLess' <= j
<1>1. /\ ~LastPage(Answer)
      /\ idLess' = CHOOSE i \in BitgetEndId(Answer) : BitgetEndsWith(Answer, i)
  BY DEF ReadPage
<1>2. BitgetEndId(Answer) # {} BY <1>1 DEF LastPage, BitgetIsDone
<1>3. BitgetEndId(Answer) = Answer /\ Answer # {} BY <1>2 DEF BitgetEndId
<1>4. \A i \in Answer : i \in Nat BY AnswerListed DEF Booked, Matching
<1>5. \E i \in Answer : \A j \in Answer : i <= j
  <2> HIDE DEF Answer
  <2> QED BY <1>3, <1>4, LeastExists
<1>6. \E i \in BitgetEndId(Answer) : BitgetEndsWith(Answer, i) BY <1>3, <1>5 DEF BitgetEndsWith
<1>7. BitgetEndsWith(Answer, idLess') BY <1>1, <1>6
<1> QED BY <1>3, <1>7 DEF BitgetEndsWith

\* A page that is not the last: the records on it go behind.
LEMMA StepReadPage == ASSUME Reading, ReadPage PROVE Reading'
<1>1. IInv /\ Types /\ Asked /\ OnceRead BY DEF Reading
<1>2. IInv' BY WindowsKeep DEF Next, Adapter
<1>3. /\ slice # 0 /\ ~LastPage(Answer)
      /\ counted' = [i \in Ids |-> counted[i] + Times(i, Answer)]
      /\ page' = page + 1
      /\ idLess' = IF exchange = "bitget"
                   THEN CHOOSE i \in BitgetEndId(Answer) : BitgetEndsWith(Answer, i)
                   ELSE idLess
      /\ UNCHANGED <<wvars, server, ledger, slice>>
  BY DEF ReadPage, PageAfter
<1>4. \A i \in Answer : details /\ i \in Booked BY AnswerListed
<1>5. \A i \in Booked : i \in Ids /\ i \in 1..Len(ledger) /\ from <= ledger[i].day
                        /\ ledger[i].day < cursor
  BY <1>3, BookedAsked
<1>6. exchange = "bitget" => idLess' \in Answer /\ \A j \in Answer : idLess' <= j
  BY NextCursor
<1>7. \A i \in Answer : i \in Int BY <1>4, <1>5
<1>8. Types'
  <2>1. counted' \in [Ids -> Nat] BY <1>1, <1>3 DEF Types, Times
  <2>2. page' \in Nat /\ idLess' \in Int BY <1>1, <1>3, <1>6, <1>7 DEF Types
  <2> QED BY <1>1, <1>3, <2>1, <2>2 DEF Types, server, wvars
<1>9. \A i \in Ids : counted[i] \in Nat
                     /\ counted'[i] = IF i \in Answer THEN counted[i] + 1 ELSE counted[i]
  BY <1>1, <1>3 DEF Types, Times
<1>10. Asked' BY <1>1, <1>3, <1>4, <1>5, <1>9 DEF Asked, wvars
<1>11. OnceRead'
  <2> SUFFICES ASSUME ~newest, NEW i \in Ids, counted'[i] > 0
               PROVE  counted'[i] = 1 /\ Behind(i)'
    BY <1>3 DEF OnceRead, server
  <2>1. Rank(i)' = Rank(i) /\ Current' = Current
    BY <1>3 DEF Rank, Before, Booked, Matching, Current, wvars, server
  <2>2. PageSize \in Nat /\ page \in Nat /\ page * PageSize \in Int
        /\ page' * PageSize = page * PageSize + PageSize
    BY <1>1, <1>3, CollectAssumption DEF Types
  <2>3. CASE i \in Answer
    <3>1. counted[i] = 0 /\ (exchange # "bitget" => Rank(i) <= (page + 1) * PageSize)
      BY <1>3, <2>3, AnswerFresh
    <3>2. ledger[i].slice = slice BY <1>4, <2>3 DEF Booked, Matching
    <3>3. exchange = "bitget" => i >= idLess' BY <1>6, <1>7, <2>3
    <3>4. exchange # "bitget" => Rank(i)' <= page' * PageSize BY <1>3, <2>1, <3>1
    <3> QED BY <1>3, <1>9, <2>3, <3>1, <3>2, <3>3, <3>4 DEF Behind, server
  <2>4. CASE i \notin Answer
    <3>1. counted[i] > 0 BY <1>9, <2>4
    <3>2. counted[i] = 1 /\ Behind(i) BY <1>1, <1>3, <3>1 DEF OnceRead
    <3>3. exchange = "bitget" /\ i >= idLess => i >= idLess'
      <4> SUFFICES ASSUME exchange = "bitget", i >= idLess PROVE i >= idLess' OBVIOUS
      <4>1. idLess' < idLess BY <1>3, <1>6 DEF Answer, CursorPage
      <4>2. i \in Int /\ idLess \in Int /\ idLess' \in Int
        BY <1>1, <1>6, <1>7, CollectAssumption DEF Types, Ids
      <4> QED BY <4>1, <4>2
    <3>4. ledger[i].slice = slice /\ exchange # "bitget" /\ Rank(i) <= page * PageSize
            => Rank(i)' <= page' * PageSize
      <4> SUFFICES ASSUME ledger[i].slice = slice, Rank(i) <= page * PageSize
                   PROVE  Rank(i) <= page' * PageSize
        BY <2>1
      <4>1. Rank(i) \in Int BY RankTyped, <1>1
      <4> QED BY <2>2, <4>1
    <3> QED BY <1>3, <1>9, <2>1, <2>4, <3>2, <3>3, <3>4 DEF Behind, server
  <2> QED BY <2>3, <2>4
<1> QED BY <1>2, <1>8, <1>10, <1>11 DEF Reading

\* The slice is left: all that was counted in it is behind.
LEMMA StepReadLastPage == ASSUME Reading, ReadLastPage PROVE Reading'
<1>1. IInv /\ Types /\ Asked /\ OnceRead BY DEF Reading
<1>2. IInv' BY WindowsKeep DEF Next, Adapter
<1> DEFINE filled == Fallback(Answer)
<1>3. /\ slice # 0
      /\ counted' = [i \in Ids |-> counted[i] + Times(i, Answer) + Times(i, filled)]
      /\ slice' = slice + 1 \/ slice' = 0
      /\ page' = 0 /\ idLess' = MaxRecords + 1
      /\ UNCHANGED <<wvars, server, ledger>>
  BY DEF ReadLastPage, BeginSlice
<1>4. \A i \in Answer : i \in Booked BY AnswerListed
<1>5. \A i \in filled : i \in Booked /\ i \notin Answer /\ (~newest => counted[i] = 0)
  BY <1>3, FallbackFresh
<1>6. \A i \in Answer : ~newest => counted[i] = 0 BY <1>3, AnswerFresh
<1>7. \A i \in Booked : i \in Ids /\ i \in 1..Len(ledger) /\ from <= ledger[i].day
                        /\ ledger[i].day < cursor
  BY <1>3, BookedAsked
<1> HIDE DEF filled
<1>8. \A i \in Ids : /\ counted[i] \in Nat
                     /\ counted'[i] = IF i \in Answer \cup filled THEN counted[i] + 1 ELSE counted[i]
  BY <1>1, <1>3, <1>5 DEF Types, Times
<1>9. Types'
  <2>1. counted' \in [Ids -> Nat] BY <1>1, <1>3 DEF Types, Times
  <2>2. slice' \in Nat /\ page' \in Nat /\ idLess' \in Int
    BY <1>1, <1>3, CollectAssumption DEF Types
  <2> QED BY <1>1, <1>3, <2>1, <2>2 DEF Types, server, wvars
<1>10. Asked' BY <1>1, <1>3, <1>4, <1>5, <1>7, <1>8 DEF Asked, wvars
<1>11. OnceRead'
  <2> SUFFICES ASSUME ~newest, NEW i \in Ids, counted'[i] > 0
               PROVE  counted'[i] = 1 /\ (slice' # 0 => Behind(i)')
    BY <1>3 DEF OnceRead, server
  <2>1. Current' = Current BY <1>3 DEF Current, wvars
  <2>2. CASE i \in Answer \cup filled
    <3>1. counted'[i] = 1 BY <1>5, <1>6, <1>8, <2>2
    <3>2. ledger[i].slice = slice BY <1>4, <1>5, <2>2 DEF Booked, Matching
    <3>3. slice' # 0 => ledger'[i].slice < slice' BY <1>1, <1>3, <3>2 DEF Types
    <3> QED BY <3>1, <3>3 DEF Behind
  <2>3. CASE i \notin Answer \cup filled
    <3>1. counted[i] > 0 /\ counted'[i] = counted[i] BY <1>8, <2>3
    <3>2. counted[i] = 1 /\ Behind(i) BY <1>1, <1>3, <3>1 DEF OnceRead
    <3>3. ledger[i].slice \in Nat BY <1>1, <3>1, LedgerTyped DEF Asked
    <3>4. slice \in Nat BY <1>1 DEF Types
    <3>5. ledger[i].day < Current.first \/ ledger[i].slice <= slice
      BY <3>2, <3>3, <3>4 DEF Behind
    <3>6. slice' # 0 => ledger'[i].day < Current'.first \/ ledger'[i].slice < slice'
      BY <1>3, <2>1, <3>3, <3>4, <3>5
    <3> QED BY <3>1, <3>2, <3>6 DEF Behind
  <2> QED BY <2>2, <2>3
<1> QED BY <1>2, <1>9, <1>10, <1>11 DEF Reading

\* What leaves the result and the place in it alone.
LEMMA StepElsewhere ==
  ASSUME Reading, [Next]_vars, UNCHANGED <<wvars, server, ledger, slice, page, idLess, counted>>
  PROVE  Reading'
<1>1. IInv' BY WindowsKeep
<1> QED BY <1>1 DEF Reading, Types, Asked, OnceRead, Behind, Current, Rank, Before, Booked,
                    Matching, wvars, server

\* A record booked meanwhile is listed after those that are there.
LEMMA StepBook == ASSUME Reading, Book PROVE Reading'
<1>1. IInv /\ Types /\ Asked /\ OnceRead BY DEF Reading
<1>2. IInv' BY WindowsKeep DEF Next
<1>3. PICK r \in Bookings : ledger' = Append(ledger, r) BY DEF Book, Record
<1>4. Len(ledger) < MaxRecords /\ UNCHANGED <<wvars, server, slice, page, idLess, counted>>
  BY DEF Book
<1>5. ledger \in Seq(Bookings) /\ Len(ledger) \in Nat /\ MaxRecords \in Nat
  BY <1>1, CollectAssumption DEF Types
<1>6. /\ ledger' \in Seq(Bookings) /\ Len(ledger') = Len(ledger) + 1 /\ Len(ledger') <= MaxRecords
      /\ \A i \in 1..Len(ledger) : i \in 1..Len(ledger') /\ ledger'[i] = ledger[i]
  BY <1>3, <1>4, <1>5
<1>7. Types' BY <1>1, <1>4, <1>6 DEF Types, wvars, server
<1>8. Asked' BY <1>1, <1>4, <1>6 DEF Asked, wvars
<1>9. OnceRead'
  <2> SUFFICES ASSUME ~newest, NEW i \in Ids, counted[i] > 0
               PROVE  counted[i] = 1 /\ (slice # 0 => Behind(i)')
    BY <1>4 DEF OnceRead, server
  <2>1. counted[i] = 1 /\ (slice # 0 => Behind(i)) BY <1>1 DEF OnceRead
  <2>2. i \in 1..Len(ledger) /\ ledger'[i] = ledger[i] BY <1>1, <1>6 DEF Asked
  <2>3. \A j \in 1..Len(ledger') : j <= i => j \in 1..Len(ledger) /\ ledger'[j] = ledger[j]
    BY <1>5, <1>6, <2>2
  <2>4. \A j : j \in Before(Booked, i)' <=> j \in Before(Booked, i)
    <3>1. \A j : j \in Before(Booked, i) <=>
                   /\ j \in 1..Len(ledger) /\ j <= i /\ ledger[j].slice = slice
                   /\ Current.first <= ledger[j].day /\ ledger[j].day <= Current.last
      BY DEF Before, Booked, Matching, Current
    <3>2. \A j : j \in Before(Booked, i)' <=>
                   /\ j \in 1..Len(ledger') /\ j <= i /\ ledger'[j].slice = slice
                   /\ Current.first <= ledger'[j].day /\ ledger'[j].day <= Current.last
      BY <1>4 DEF Before, Booked, Matching, Current, wvars, server
    <3> QED BY <1>6, <2>3, <3>1, <3>2
  <2>5. Before(Booked, i)' = Before(Booked, i)
    <3>1. Before(Booked, i)' \subseteq Before(Booked, i) BY <2>4
    <3>2. Before(Booked, i) \subseteq Before(Booked, i)' BY <2>4
    <3> QED BY <3>1, <3>2
  <2>6. Rank(i)' = Rank(i) BY <2>5 DEF Rank
  <2> QED BY <1>4, <2>1, <2>2, <2>6 DEF Behind, Current, wvars, server
<1> QED BY <1>2, <1>7, <1>8, <1>9 DEF Reading

-----------------------------------------------------------------------------
(* Completeness.                                                           *)

\* Record i is still to come in the slice being read.
Ahead(i) ==
  /\ i \in Booked
  /\ IF exchange = "bitget" THEN i < idLess ELSE Rank(i) > page * PageSize

\* The adapter has taken a full page before record i for the last.
Excused(i) == ~CanTellLast /\ BehindFullPage(i)

\* What is owed has been counted, is still to come, or comes after a full page
\* that was taken for the last.
Owing ==
  /\ owed \subseteq 1..Len(ledger)
  /\ exchange \in {"gate", "kucoin", "weex", "mexc", "bitmart", "bitget"}
  /\ details \in BOOLEAN
  /\ ~details => exchange = "bitmart" /\ page = 0
  /\ outcome = "result" => slice = 0
  /\ \A i \in owed : counted[i] >= 1 \/ (slice # 0 /\ Ahead(i)) \/ Excused(i)

\* Windows, records and what is counted of them only grow.
LEMMA Growing ==
  ASSUME Reading, [Next]_vars
  PROVE  /\ Len(windows) \in Nat /\ Len(ledger) \in Nat /\ Len(ledger') \in Nat
         /\ \A n \in Indices : n \in Indices' /\ windows'[n] = windows[n]
         /\ \A k \in 1..Len(ledger) : k \in 1..Len(ledger') /\ ledger'[k] = ledger[k]
         /\ \A k \in Ids : counted[k] >= 1 => counted'[k] >= 1
         /\ UNCHANGED server
<1>1. IInv /\ Types BY DEF Reading
<1>2. Len(windows) \in Nat BY <1>1, WindowsTyped DEF IInv
<1>3. Len(ledger) \in Nat BY <1>1, LedgerTyped
<1>4. \A k \in Ids : counted[k] \in Nat BY <1>1 DEF Types
<1>5. /\ \A n \in Indices : n \in Indices' /\ windows'[n] = windows[n]
  <2>1. CASE Yield
    <3> DEFINE last == WindowEnd(cursor, width, to)
    <3> HIDE DEF last
    <3>1. windows \in Seq(Window) /\ windows' = Append(windows, [first |-> cursor, last |-> last])
      BY <1>1, <2>1, WindowsTyped DEF Yield, last, IInv, WTypeOK
    <3> QED BY <1>2, <3>1 DEF Indices
  <2>2. CASE UNCHANGED wvars BY <2>2 DEF Indices, wvars
  <2> QED BY <2>1, <2>2, StepOfWindows
<1>6. CASE Book
  <2>1. PICK r \in Bookings : ledger' = Append(ledger, r) BY <1>6 DEF Book, Record
  <2>2. ledger \in Seq(Bookings) BY <1>1 DEF Types
  <2>3. UNCHANGED <<server, counted>> BY <1>6 DEF Book
  <2> QED BY <1>2, <1>3, <1>5, <2>1, <2>2, <2>3
<1>7. CASE ReadPage \/ ReadLastPage
  <2>1. UNCHANGED <<server, ledger>> BY <1>7 DEF ReadPage, ReadLastPage
  <2>2. \A k, S : Times(k, S) \in {0, 1} BY DEF Times
  <2>3. \A k \in Ids : counted'[k] >= counted[k]
    BY <1>4, <1>7, <2>2 DEF ReadPage, ReadLastPage
  <2>4. \A k \in Ids : counted[k] >= 1 => counted'[k] >= 1
    <3>1. counted' \in [Ids -> Nat] BY <1>7, StepReadPage, StepReadLastPage DEF Reading, Types
    <3> QED BY <1>4, <2>3, <3>1
  <2> QED BY <1>2, <1>3, <1>5, <2>1, <2>4
<1>8. CASE NextWindow \/ Fail \/ Finalize \/ UNCHANGED vars
  <2>1. UNCHANGED <<server, ledger, counted>> BY <1>8 DEF NextWindow, Fail, Finalize, vars
  <2> QED BY <1>2, <1>3, <1>5, <2>1
<1> QED BY <1>6, <1>7, <1>8 DEF Next, Adapter

\* A full page that was taken for the last stays one.
LEMMA ExcusedKept == ASSUME Reading, [Next]_vars, NEW i, Excused(i) PROVE Excused(i)'
<1>1. /\ Len(windows) \in Nat /\ Len(ledger) \in Nat /\ Len(ledger') \in Nat
      /\ \A n \in Indices : n \in Indices' /\ windows'[n] = windows[n]
      /\ \A k \in 1..Len(ledger) : k \in 1..Len(ledger') /\ ledger'[k] = ledger[k]
      /\ \A k \in Ids : counted[k] >= 1 => counted'[k] >= 1
      /\ UNCHANGED server
  BY Growing
<1>2. Len(ledger) <= MaxRecords /\ MaxRecords \in Nat BY CollectAssumption DEF Reading, Types
<1>3. \A k \in 1..Len(ledger) : k \in Ids BY <1>1, <1>2 DEF Ids
<1>4. PICK n \in Indices :
        /\ i \in Matching(windows[n], ledger[i].slice)
        /\ Cardinality({j \in Matching(windows[n], ledger[i].slice) : counted[j] >= 1}) >= PageSize
  BY DEF Excused, BehindFullPage
<1> DEFINE s == ledger[i].slice
           w == windows[n]
           S == Matching(w, s)
           T == {k \in 1..Len(ledger') : /\ ledger'[k].slice = s
                                         /\ w.first <= ledger'[k].day /\ ledger'[k].day <= w.last}
           A == {j \in S : counted[j] >= 1}
           B == {j \in T : counted'[j] >= 1}
<1>5. i \in 1..Len(ledger) /\ i \in S /\ Cardinality(A) >= PageSize BY <1>4 DEF Matching
<1>6. S \subseteq T /\ S \subseteq 1..Len(ledger) BY <1>1 DEF Matching
<1>7. A \subseteq B BY <1>1, <1>3, <1>6
<1>8. IsFiniteSet(B)
  <2>1. Len(ledger') \in Nat /\ 1 \in Int BY <1>1
  <2>2. IsFiniteSet(1..Len(ledger')) BY <2>1, FS_Interval
  <2> QED BY <2>2, FS_Subset
<1>9. Cardinality(B) \in Nat /\ Cardinality(A) \in Nat /\ Cardinality(A) <= Cardinality(B)
  <2> HIDE DEF A, B
  <2> QED BY <1>7, <1>8, FS_Subset, FS_CardinalityType
<1>10. Cardinality(B) >= PageSize
  <2> HIDE DEF A, B
  <2> QED BY <1>5, <1>9, CollectAssumption
<1>11. n \in Indices' /\ windows'[n] = w /\ ledger'[i].slice = s /\ i \in T
  BY <1>1, <1>5, <1>6
<1>12. Matching(windows[n], ledger[i].slice)' = T BY <1>11 DEF Matching
<1>13. BehindFullPage(i)'
  <2> SUFFICES /\ i \in Matching(windows[n], ledger[i].slice)'
               /\ Cardinality({j \in Matching(windows[n], ledger[i].slice)' : counted'[j] >= 1})
                    >= PageSize
    BY <1>11 DEF BehindFullPage
  <2> QED BY <1>10, <1>11, <1>12
<1>14. CanTellLast' = CanTellLast BY <1>1 DEF CanTellLast, server
<1> QED BY <1>13, <1>14 DEF Excused

\* All records of a slice are ahead of its first page.
LEMMA AheadAtFirst ==
  Types /\ idLess = MaxRecords + 1 /\ page = 0 => \A i \in Booked : Ahead(i)
<1> SUFFICES ASSUME Types, idLess = MaxRecords + 1, page = 0, NEW i \in Booked
             PROVE  Ahead(i)
  OBVIOUS
<1>1. Rank(i) \in Nat /\ Rank(i) >= 1 BY RankPositive
<1>2. i \in 1..Len(ledger) /\ Len(ledger) \in Nat /\ Len(ledger) <= MaxRecords
      /\ MaxRecords \in Nat /\ page * PageSize = 0
  BY LedgerTyped, CollectAssumption DEF Booked, Matching, Types
<1>3. i < idLess BY <1>2
<1> QED BY <1>1, <1>2, <1>3 DEF Ahead

\* No record comes after the last page.
LEMMA LastPageHasRest ==
  ASSUME Types, Owing, CanTellLast, details, LastPage(Answer), NEW i, Ahead(i)
  PROVE  i \in Answer
<1>1. i \in Booked /\ Listed = Booked /\ Len(ledger) \in Nat
  BY LedgerTyped DEF Ahead, Listed
<1>2. IsFiniteSet(Booked)
  <2>1. IsFiniteSet(1..Len(ledger)) BY <1>1, FS_Interval
  <2> QED BY <2>1, FS_Subset DEF Booked, Matching
<1>3. PageSize \in Nat \ {0} /\ page \in Nat /\ (page + 1) * PageSize \in Nat
  BY CollectAssumption DEF Types
<1>4. CASE exchange = "bitget"
  <2>1. CASE i \in Answer BY <2>1
  <2>2. CASE i \notin Answer
    <3>1. Cardinality(Answer) \in Nat /\ Cardinality(Answer) >= PageSize
      BY <1>1, <1>4, <2>2, CursorPageFull DEF Ahead
    <3>2. \A j \in Answer : j < idLess /\ j \in Nat
      BY <1>1, <1>4 DEF Answer, CursorPage, Booked, Matching
    <3>3. idLess \in Int BY DEF Types
    <3>4. ~BitgetEndsWith(Answer, idLess) BY <3>2, <3>3 DEF BitgetEndsWith, BitgetEndId
    <3>5. ~Short(Answer) BY <1>3, <3>1 DEF Short
    <3>6. BitgetEndId(Answer) = {} BY <1>4, <3>4, <3>5 DEF LastPage, BitgetIsDone
    <3>7. Answer = {} BY <1>4, <3>6 DEF BitgetEndId, CanTellLast
    <3> QED BY <1>3, <3>1, <3>7, FS_EmptySet
  <2> QED BY <2>1, <2>2
<1>5. CASE exchange # "bitget"
  <2>1. Rank(i) \in Nat /\ Rank(i) > page * PageSize BY <1>5, RankTyped DEF Ahead
  <2>2. Cardinality(Booked) \in Nat /\ Rank(i) <= Cardinality(Booked)
    <3>1. Before(Booked, i) \subseteq Booked BY DEF Before
    <3> QED BY <1>2, <3>1, FS_Subset, FS_CardinalityType DEF Rank
  <2>3. Rank(i) <= (page + 1) * PageSize
    <3> SUFFICES ASSUME Rank(i) > (page + 1) * PageSize PROVE FALSE BY <1>3, <2>1
    <3>1. Cardinality(Answer) \in Nat /\ Cardinality(Answer) >= PageSize
      BY <1>1, <1>5, PageFull
    <3>2. ~Short(Answer) /\ Answer # {} BY <1>3, <3>1, FS_EmptySet DEF Short
    <3>3. Cardinality(Listed) > (page + 1) * PageSize BY <1>1, <1>3, <2>1, <2>2
    <3>4. ~(page + 1 >= Pages)
      <4> SUFFICES ASSUME page + 1 >= Pages PROVE FALSE OBVIOUS
      <4>1. page + 1 \in Nat /\ Cardinality(Listed) \in Nat BY <1>1, <1>3, <2>2
      <4>2. (page + 1) * PageSize >= Cardinality(Listed)
        BY <1>3, <4>1, PagesEnough DEF Pages
      <4> QED BY <1>3, <3>3, <4>1, <4>2
    <3>5. exchange \in {"weex", "mexc", "bitmart"} BY <1>5, <3>2 DEF Owing, LastPage, GateIsDone, KucoinIsDone
    <3>6. counts BY <3>5 DEF CanTellLast
    <3>7. CASE exchange = "weex" BY <3>2, <3>4, <3>6, <3>7 DEF LastPage, WeexIsDone, WeexPages
    <3>8. CASE exchange = "mexc" BY <3>2, <3>4, <3>6, <3>8 DEF LastPage, MexcIsDone, MexcTotalPage
    <3>9. CASE exchange = "bitmart"
      <4>1. (page + 1) * PageSize >= Cardinality(Listed)
        BY <3>2, <3>6, <3>9 DEF LastPage, BitmartIsDone, BitmartTotal
      <4> QED BY <1>1, <1>3, <2>2, <3>3, <4>1
    <3> QED BY <3>5, <3>7, <3>8, <3>9
  <2>4. Rank(i) \in (page * PageSize + 1)..((page + 1) * PageSize)
    <3>1. page * PageSize \in Nat BY <1>3
    <3> QED BY <1>3, <2>1, <2>3, <3>1
  <2> QED BY <1>1, <1>5, <2>4 DEF Answer, NumberedPage, Rank
<1> QED BY <1>4, <1>5

\* A page that is not the last leaves the records after it ahead.
LEMMA OwingReadPage == ASSUME Reading, Owing, ReadPage PROVE Owing'
<1>1. IInv /\ Types BY DEF Reading
<1>2. /\ slice # 0 /\ ~LastPage(Answer) /\ outcome = "running"
      /\ counted' = [i \in Ids |-> counted[i] + Times(i, Answer)]
      /\ page' = page + 1
      /\ idLess' = IF exchange = "bitget"
                   THEN CHOOSE i \in BitgetEndId(Answer) : BitgetEndsWith(Answer, i)
                   ELSE idLess
      /\ UNCHANGED <<wvars, server, ledger, slice, owed, outcome>>
  BY DEF ReadPage, PageAfter
<1>3. details
  <2> SUFFICES ASSUME ~details PROVE FALSE OBVIOUS
  <2>1. exchange = "bitmart" /\ Listed = {} BY DEF Owing, Listed
  <2>2. Answer = {} BY <2>1 DEF Answer, NumberedPage
  <2>3. Short(Answer) BY <2>2, FS_EmptySet, CollectAssumption DEF Short
  <2> QED BY <1>2, <2>1, <2>3 DEF LastPage, BitmartIsDone
<1>4. \A i \in owed : i \in Ids
  BY <1>1, LedgerTyped, CollectAssumption DEF Owing, Types, Ids
<1>5. \A i \in Ids : counted[i] \in Nat
                     /\ counted'[i] = IF i \in Answer THEN counted[i] + 1 ELSE counted[i]
  BY <1>1, <1>2 DEF Types, Times
<1>6. Booked' = Booked /\ \A i : Rank(i)' = Rank(i)
  BY <1>2 DEF Rank, Before, Booked, Matching, wvars, server
<1>7. ASSUME NEW i \in owed, ~(counted'[i] >= 1), ~Excused(i) PROVE Ahead(i)'
  <2>1. i \notin Answer /\ ~(counted[i] >= 1) BY <1>4, <1>5, <1>7
  <2>2. Ahead(i) BY <1>7, <2>1 DEF Owing
  <2>3. i \in Booked BY <2>2 DEF Ahead
  <2>4. CASE exchange = "bitget"
    <3>1. i < idLess /\ Listed = Booked BY <1>3, <2>2, <2>4 DEF Ahead, Listed
    <3>2. i \in Nat BY <1>4 DEF Ids
    <3>3. idLess' \in Answer /\ \A j \in Answer : idLess' <= j
      BY <2>4, NextCursor
    <3> DEFINE From(k) == {j \in Booked : j < idLess /\ j >= k}
    <3>4. \A k : k \in Answer <=> k \in Booked /\ k < idLess /\ Cardinality(From(k)) <= PageSize
      BY <2>4, <3>1 DEF Answer, CursorPage
    <3>5. \A k \in Booked : k \in Nat BY DEF Booked, Matching
    <3>0. idLess' \in Nat BY <3>3, <3>4, <3>5
    <3>6. i < idLess'
      <4> SUFFICES ASSUME i >= idLess' PROVE FALSE
        <5> HIDE DEF From
        <5> QED BY <3>0, <3>2
      <4>1. From(i) \subseteq From(idLess')
        <5> SUFFICES ASSUME NEW j \in From(i) PROVE j \in From(idLess') OBVIOUS
        <5>1. j \in Booked /\ j \in Nat /\ j < idLess /\ j >= i BY <3>5
        <5>2. j >= idLess' BY <3>0, <3>2, <5>1
        <5> QED BY <5>1, <5>2
      <4>2. IsFiniteSet(From(idLess'))
        <5>1. IsFiniteSet(1..Len(ledger)) BY <1>1, LedgerTyped, FS_Interval
        <5>2. From(idLess') \subseteq 1..Len(ledger) BY DEF Booked, Matching
        <5> QED BY <5>1, <5>2, FS_Subset
      <4>3. Cardinality(From(idLess')) \in Nat /\ Cardinality(From(i)) \in Nat
            /\ Cardinality(From(i)) <= Cardinality(From(idLess'))
        <5> HIDE DEF From
        <5> QED BY <4>1, <4>2, FS_Subset, FS_CardinalityType
      <4>4. Cardinality(From(idLess')) <= PageSize /\ ~(Cardinality(From(i)) <= PageSize)
        BY <2>1, <2>3, <3>1, <3>3, <3>4
      <4> HIDE DEF From
      <4> QED BY <4>3, <4>4, CollectAssumption
    <3> QED BY <1>2, <1>6, <2>3, <2>4, <3>6 DEF Ahead, server
  <2>5. CASE exchange # "bitget"
    <3>1. Rank(i) \in Nat /\ Rank(i) > page * PageSize BY <1>1, <2>2, <2>5, RankTyped DEF Ahead
    <3>2. Rank(i) \notin (page * PageSize + 1)..((page + 1) * PageSize)
      BY <1>3, <2>1, <2>3, <2>5 DEF Answer, NumberedPage, Listed, Rank
    <3>3. page * PageSize \in Nat /\ (page + 1) * PageSize \in Nat
      BY <1>1, CollectAssumption DEF Types
    <3>4. Rank(i) > page' * PageSize BY <1>2, <3>1, <3>2, <3>3
    <3> QED BY <1>2, <1>6, <2>3, <2>5, <3>4 DEF Ahead, server
  <2> QED BY <2>4, <2>5
<1>8. \A i : Excused(i) => Excused(i)' BY ExcusedKept DEF Next, Adapter
<1> QED BY <1>2, <1>3, <1>7, <1>8 DEF Owing, server

\* A record that comes after a page taken for the last comes after a full one.
LEMMA PageTakenForLast ==
  ASSUME Reading, ReadLastPage, details, ~CanTellLast, NEW i, Ahead(i), i \notin Answer
  PROVE  Excused(i)'
<1>1. IInv /\ Types /\ slice # 0 /\ Len(windows) # 0 BY DEF Reading, ReadLastPage, Types
<1>2. /\ counted' = [k \in Ids |-> counted[k] + Times(k, Answer) + Times(k, Fallback(Answer))]
      /\ UNCHANGED <<wvars, server, ledger>>
  BY DEF ReadLastPage
<1>3. i \in Booked /\ Listed = Booked BY DEF Ahead, Listed
<1>4. Cardinality(Answer) >= PageSize
  <2>1. CASE exchange = "bitget" BY <1>1, <1>3, <2>1, CursorPageFull DEF Ahead
  <2>2. CASE exchange # "bitget"
    <3>1. Rank(i) \in Nat /\ Rank(i) > page * PageSize BY <1>1, <2>2, RankTyped DEF Ahead
    <3>2. page * PageSize \in Nat /\ (page + 1) * PageSize \in Nat
      BY <1>1, CollectAssumption DEF Types
    <3>3. Rank(i) \notin (page * PageSize + 1)..((page + 1) * PageSize)
      BY <1>3, <2>2 DEF Answer, NumberedPage, Rank
    <3>4. Rank(i) > (page + 1) * PageSize BY <3>1, <3>2, <3>3
    <3> QED BY <1>1, <1>3, <2>2, <3>4, PageFull
  <2> QED BY <2>1, <2>2
<1>5. \A j \in Booked : j \in Ids /\ j \in 1..Len(ledger) BY <1>1, BookedAsked
<1>6. \A j \in Answer : j \in Booked /\ counted'[j] >= 1
  <2> SUFFICES ASSUME NEW j \in Answer PROVE j \in Booked /\ counted'[j] >= 1 OBVIOUS
  <2>1. j \in Booked /\ j \in Ids BY <1>5, AnswerListed
  <2>2. counted[j] \in Nat /\ Times(j, Answer) = 1 /\ Times(j, Fallback(Answer)) \in {0, 1}
    BY <1>1, <2>1 DEF Types, Times
  <2> QED BY <1>2, <2>1, <2>2
<1> DEFINE B == {j \in Booked : counted'[j] >= 1}
<1>7. Cardinality(B) \in Nat /\ Cardinality(B) >= PageSize
  <2>1. Answer \subseteq B BY <1>6
  <2>2. IsFiniteSet(B)
    <3>1. IsFiniteSet(1..Len(ledger)) BY <1>1, LedgerTyped, FS_Interval
    <3>2. B \subseteq 1..Len(ledger) BY <1>5
    <3> QED BY <3>1, <3>2, FS_Subset
  <2> HIDE DEF B
  <2>3. Cardinality(Answer) \in Nat /\ Cardinality(B) \in Nat
        /\ Cardinality(Answer) <= Cardinality(B)
    BY <2>1, <2>2, FS_Subset, FS_CardinalityType
  <2> QED BY <1>4, <2>3, CollectAssumption
<1>8. PICK n \in Indices' : n = Len(windows)
  <2>1. Len(windows) \in Nat BY <1>1, WindowsTyped DEF IInv
  <2> QED BY <1>1, <1>2, <2>1 DEF Indices, wvars
<1>9. windows' = windows /\ ledger' = ledger /\ ledger[i].slice = slice
  BY <1>2, <1>3 DEF Booked, Matching, wvars
<1>10. Matching(windows[n], ledger[i].slice)' = Booked BY <1>8, <1>9 DEF Matching, Booked
<1>11. BehindFullPage(i)'
  <2> SUFFICES /\ i \in Matching(windows[n], ledger[i].slice)'
               /\ Cardinality({j \in Matching(windows[n], ledger[i].slice)' : counted'[j] >= 1})
                    >= PageSize
    BY <1>8 DEF BehindFullPage
  <2> QED BY <1>3, <1>7, <1>10
<1>12. CanTellLast' = CanTellLast BY <1>2 DEF CanTellLast, server
<1> QED BY <1>11, <1>12 DEF Excused

\* After the last page all that is owed is counted, and the next slice begins.
LEMMA OwingReadLastPage == ASSUME Reading, Owing, ReadLastPage PROVE Owing'
<1>1. IInv /\ Types /\ Len(windows) # 0 BY DEF Reading, ReadLastPage, Types
<1>2. /\ slice # 0 /\ LastPage(Answer) /\ outcome = "running"
      /\ counted' = [i \in Ids |-> counted[i] + Times(i, Answer) + Times(i, Fallback(Answer))]
      /\ page' = 0 /\ idLess' = MaxRecords + 1
      /\ UNCHANGED <<wvars, server, ledger, outcome>>
      /\ \/ slice' = slice + 1 /\ owed' = owed \cup Matching(windows[Len(windows)], slice + 1)
         \/ slice' = 0 /\ owed' = owed
  BY DEF ReadLastPage, BeginSlice
<1>3. \A i \in owed : i \in Ids
  BY <1>1, LedgerTyped, CollectAssumption DEF Owing, Types, Ids
<1>4. ASSUME NEW i \in owed, ~Excused(i)' PROVE counted'[i] >= 1
  <2>1. counted[i] \in Nat /\ i \in Ids BY <1>1, <1>3 DEF Types
  <2>2. counted'[i] = counted[i] + Times(i, Answer) + Times(i, Fallback(Answer))
    BY <1>2, <2>1
  <2>3. counted[i] >= 1 \/ i \in Answer \/ i \in Fallback(Answer)
    <3> SUFFICES ASSUME ~(counted[i] >= 1) PROVE i \in Answer \/ i \in Fallback(Answer)
      OBVIOUS
    <3>1. ~Excused(i) BY <1>4, ExcusedKept DEF Next, Adapter
    <3>2. Ahead(i) BY <3>1 DEF Owing
    <3>3. CASE details /\ CanTellLast BY <1>1, <1>2, <3>2, <3>3, LastPageHasRest
    <3>4. CASE details /\ ~CanTellLast BY <1>4, <3>2, <3>4, PageTakenForLast
    <3>5. CASE ~details
      <4>1. exchange = "bitmart" /\ page = 0 /\ Listed = {} BY <3>5 DEF Owing, Listed
      <4>2. Answer = {} BY <4>1 DEF Answer, NumberedPage
      <4> QED BY <3>2, <4>1, <4>2 DEF Fallback, Ahead
    <3> QED BY <3>3, <3>4, <3>5 DEF Owing
  <2> QED BY <2>1, <2>2, <2>3 DEF Times
<1>6. Types' BY StepReadLastPage DEF Reading
<1>7. \A i \in Booked' : Ahead(i)'
  <2>1. (Types /\ idLess = MaxRecords + 1 /\ page = 0 => \A i \in Booked : Ahead(i))'
    BY AheadAtFirst, PTL
  <2> QED BY <1>2, <1>6, <2>1
<1>8. slice' = slice + 1 => owed' = owed \cup Booked' /\ slice' # 0
  BY <1>1, <1>2 DEF Booked, Matching, wvars, Types
<1>9. owed' \subseteq 1..Len(ledger') BY <1>2 DEF Owing, Matching
<1> QED BY <1>2, <1>4, <1>7, <1>8, <1>9 DEF Owing, server

\* A window is begun with nothing outstanding.
LEMMA OwingNextWindow == ASSUME Reading, Owing, NextWindow PROVE Owing'
<1>1. /\ slice = 0 /\ slice' = 1 /\ page' = 0 /\ idLess' = MaxRecords + 1 /\ outcome = "running"
      /\ owed' = owed \cup Matching(windows'[Len(windows')], 1)
      /\ UNCHANGED <<server, ledger, counted, outcome>>
  BY DEF NextWindow, BeginSlice
<1>2. owed' = owed \cup Booked' BY <1>1 DEF Booked, Matching
<1>3. Types' BY StepNextWindow DEF Reading
<1>4. \A i \in Booked' : Ahead(i)'
  <2>1. (Types /\ idLess = MaxRecords + 1 /\ page = 0 => \A i \in Booked : Ahead(i))'
    BY AheadAtFirst, PTL
  <2> QED BY <1>1, <1>3, <2>1
<1>5. \A i : Excused(i) => Excused(i)' BY ExcusedKept DEF Next, Adapter
<1>6. owed' \subseteq 1..Len(ledger') BY <1>1 DEF Owing, Matching
<1> QED BY <1>1, <1>2, <1>4, <1>5, <1>6 DEF Owing, server

\* What one more record does to the listing: no record loses its place to an
\* earlier one.
LEMMA BookGrows ==
  ASSUME Types, Book
  PROVE  /\ Len(ledger) \in Nat /\ Len(ledger') = Len(ledger) + 1
         /\ \A i \in 1..Len(ledger) : i \in 1..Len(ledger') /\ ledger'[i] = ledger[i]
         /\ \A i \in 1..Len(ledger) : i \in Booked' <=> i \in Booked
         /\ Booked \subseteq Booked'
         /\ \A i \in Booked : Rank(i) \in Nat /\ Rank(i)' \in Nat /\ Rank(i) <= Rank(i)'
<1>2. PICK r \in Bookings : ledger' = Append(ledger, r) BY DEF Book, Record
<1>3. UNCHANGED <<wvars, server, slice, page, idLess, counted, owed, outcome>> BY DEF Book
<1>4. ledger \in Seq(Bookings) /\ Len(ledger) \in Nat BY DEF Types
<1>5. /\ Len(ledger') = Len(ledger) + 1
      /\ \A i \in 1..Len(ledger) : i \in 1..Len(ledger') /\ ledger'[i] = ledger[i]
  BY <1>2, <1>4
<1>6. \A i \in 1..Len(ledger) : i \in Booked' <=> i \in Booked
  <2>1. \A i : i \in Booked <=>
          /\ i \in 1..Len(ledger) /\ ledger[i].slice = slice
          /\ Current.first <= ledger[i].day /\ ledger[i].day <= Current.last
    BY DEF Booked, Matching, Current
  <2>2. \A i : i \in Booked' <=>
          /\ i \in 1..Len(ledger') /\ ledger'[i].slice = slice
          /\ Current.first <= ledger'[i].day /\ ledger'[i].day <= Current.last
    BY <1>3 DEF Booked, Matching, Current, wvars
  <2> QED BY <1>5, <2>1, <2>2
<1>7. Booked \subseteq Booked' BY <1>6 DEF Booked, Matching
<1>8. ASSUME NEW i \in Booked PROVE Rank(i) \in Nat /\ Rank(i)' \in Nat /\ Rank(i) <= Rank(i)'
  <2>1. Before(Booked, i) \subseteq Before(Booked, i)' BY <1>3, <1>7 DEF Before, server
  <2>2. IsFiniteSet(1..Len(ledger')) BY <1>4, <1>5, FS_Interval
  <2>3. Before(Booked, i)' \subseteq 1..Len(ledger') BY DEF Before, Booked, Matching
  <2>4. IsFiniteSet(Before(Booked, i)') BY <2>2, <2>3, FS_Subset
  <2>5. IsFiniteSet(Before(Booked, i))
        /\ Cardinality(Before(Booked, i)) <= Cardinality(Before(Booked, i)')
    BY <2>1, <2>4, FS_Subset
  <2>6. Cardinality(Before(Booked, i)) \in Nat /\ Cardinality(Before(Booked, i)') \in Nat
    BY <2>4, <2>5, FS_CardinalityType
  <2>7. Rank(i)' = Cardinality(Before(Booked, i)') BY DEF Rank
  <2> QED BY <2>5, <2>6, <2>7 DEF Rank
<1> QED BY <1>4, <1>5, <1>6, <1>7, <1>8

\* A booking puts no record behind: ranks do not fall.
LEMMA OwingBook == ASSUME Reading, Owing, Book PROVE Owing'
<1>1. IInv /\ Types BY DEF Reading
<1>2. UNCHANGED <<wvars, server, slice, page, idLess, counted, owed, outcome>> BY DEF Book
<1>3. ASSUME NEW i, Ahead(i) PROVE Ahead(i)'
  <2>1. i \in Booked /\ i \in Booked' BY <1>1, <1>3, BookGrows DEF Ahead
  <2>2. exchange = "bitget" => i < idLess' BY <1>2, <1>3 DEF Ahead
  <2>3. exchange # "bitget" => Rank(i)' > page' * PageSize
    <3>1. page * PageSize \in Nat BY <1>1, CollectAssumption DEF Types
    <3>2. exchange # "bitget" => Rank(i) > page * PageSize BY <1>3 DEF Ahead
    <3>3. Rank(i) \in Nat /\ Rank(i)' \in Nat /\ Rank(i) <= Rank(i)' BY <1>1, <2>1, BookGrows
    <3>4. page' = page BY <1>2
    <3> QED BY <3>1, <3>2, <3>3, <3>4
  <2> QED BY <1>2, <2>1, <2>2, <2>3 DEF Ahead, server
<1>4. \A i : Excused(i) => Excused(i)' BY ExcusedKept DEF Next
<1>5. owed' \subseteq 1..Len(ledger') BY <1>1, <1>2, BookGrows DEF Owing
<1> QED BY <1>2, <1>3, <1>4, <1>5 DEF Owing, server

\* The end, with a result or an error.
LEMMA OwingElsewhere ==
  ASSUME Owing, Fail \/ Finalize \/ UNCHANGED vars
  PROVE  Owing'
<1>1. /\ UNCHANGED <<wvars, server, ledger, slice, page, idLess, counted, owed>>
      /\ outcome' = "result" => slice = 0
  BY DEF Owing, Fail, Finalize, vars
<1>2. \A i : Ahead(i)' <=> Ahead(i)
  BY <1>1 DEF Ahead, Rank, Before, Booked, Matching, wvars, server
<1>3. \A i : Excused(i)' <=> Excused(i)
  BY <1>1 DEF Excused, CanTellLast, BehindFullPage, Indices, Matching, wvars, server
<1> QED BY <1>1, <1>2, <1>3 DEF Owing, server

-----------------------------------------------------------------------------
(* Types and bounds.                                                       *)

\* No slice has more pages than the exchange has records: each page read but
\* the last holds a record, and Bitget's cursor falls with every page.
Bounded ==
  /\ exchange \in Exchanges /\ counts \in PageCounts
  /\ ledger \in Seq(Record)
  /\ slice \in 0..Slices
  /\ page <= MaxRecords
  /\ IF exchange = "bitget"
     THEN idLess >= 1 /\ idLess + page <= MaxRecords + 1
     ELSE idLess = MaxRecords + 1
  /\ outcome \in {"running", "result", "error"}

\* A slice is one of at most three.
LEMMA SlicesTyped == Slices \in Nat /\ Slices >= 1
<1>1. CASE exchange = "bitmart" BY <1>1 DEF Slices, Currencies
<1>2. CASE exchange = "weex" BY <1>2 DEF Slices, ProductTypes
<1>3. CASE exchange \notin {"bitmart", "weex"} BY <1>3 DEF Slices
<1> QED BY <1>1, <1>2, <1>3

\* A page that is not the last holds a record.
LEMMA MiddlePageHolds == ASSUME Owing, ~LastPage(Answer) PROVE Answer # {}
<1> SUFFICES ASSUME Answer = {} PROVE FALSE OBVIOUS
<1>1. Short(Answer) /\ BitgetEndId(Answer) = {}
  BY FS_EmptySet, CollectAssumption DEF Short, BitgetEndId
<1>2. exchange \in {"gate", "kucoin", "weex", "mexc", "bitmart", "bitget"} BY DEF Owing
<1> QED BY <1>1, <1>2 DEF LastPage, GateIsDone, KucoinIsDone, WeexIsDone, MexcIsDone, BitmartIsDone,
                          BitgetIsDone

\* No page lies beyond the records.
LEMMA PageWithin ==
  ASSUME Types, NEW i \in Answer, exchange # "bitget"
  PROVE  page + 1 <= MaxRecords
<1>1. i \in Booked /\ Listed = Booked BY AnswerListed DEF Listed
<1>2. Rank(i) \in (page * PageSize + 1)..((page + 1) * PageSize)
  BY <1>1 DEF Answer, NumberedPage, Rank
<1>3. Len(ledger) \in Nat /\ Len(ledger) <= MaxRecords /\ MaxRecords \in Nat
  BY LedgerTyped, CollectAssumption DEF Types
<1>4. Rank(i) \in Nat /\ Rank(i) <= Len(ledger)
  <2>1. Before(Booked, i) \subseteq 1..Len(ledger) BY DEF Before, Booked, Matching
  <2>2. IsFiniteSet(1..Len(ledger)) /\ Cardinality(1..Len(ledger)) = Len(ledger)
    <3>1. 1 \in Int /\ Len(ledger) \in Int BY <1>3
    <3>2. IsFiniteSet(1..Len(ledger))
          /\ Cardinality(1..Len(ledger)) = IF 1 > Len(ledger) THEN 0 ELSE Len(ledger) - 1 + 1
      BY <3>1, FS_Interval, Zenon
    <3> QED BY <1>3, <3>2
  <2>3. IsFiniteSet(Before(Booked, i)) /\ Cardinality(Before(Booked, i)) <= Cardinality(1..Len(ledger))
    BY <2>1, <2>2, FS_Subset
  <2> QED BY <2>2, <2>3, FS_CardinalityType DEF Rank
<1>5. page \in Nat /\ PageSize \in Nat /\ PageSize >= 1 BY CollectAssumption DEF Types
<1>6. page * PageSize \in Nat /\ page * PageSize >= page
  <2>1. PICK d \in Nat : PageSize = d + 1 BY <1>5
  <2>2. page * (d + 1) = page * d + page /\ page * d \in Nat BY <1>5, <2>1
  <2> QED BY <1>5, <2>1, <2>2
<1> QED BY <1>2, <1>3, <1>4, <1>5, <1>6

\* No page has been read.
LEMMA BoundedInit == Init => Bounded
<1> SUFFICES ASSUME Init PROVE Bounded OBVIOUS
<1>1. ledger \in Seq(Record) BY DEF Init
<1>2. slice \in 0..Slices BY SlicesTyped DEF Init
<1>3. MaxRecords \in Nat BY CollectAssumption
<1>4. page <= MaxRecords /\ idLess >= 1 /\ idLess = MaxRecords + 1 /\ page = 0 BY <1>3 DEF Init
<1>5. exchange \in Exchanges /\ counts \in PageCounts /\ outcome = "running" BY DEF Init
<1> QED BY <1>1, <1>2, <1>3, <1>4, <1>5 DEF Bounded

\* A page that is not the last.
LEMMA BoundedReadPage == ASSUME Reading, Owing, Bounded, ReadPage PROVE Bounded'
<1>1. Types /\ MaxRecords \in Nat BY CollectAssumption DEF Reading
<1>2. ~LastPage(Answer) /\ page' = page + 1 /\ UNCHANGED <<wvars, server, ledger, slice, outcome>>
      /\ (exchange # "bitget" => idLess' = idLess)
  BY DEF ReadPage, PageAfter
<1>3. PICK i \in Answer : TRUE BY <1>2, MiddlePageHolds
<1>4. page \in Nat /\ idLess \in Int BY <1>1 DEF Types
<1>5. page' <= MaxRecords /\ (IF exchange = "bitget"
                              THEN idLess' >= 1 /\ idLess' + page' <= MaxRecords + 1
                              ELSE idLess' = MaxRecords + 1)
  <2>1. CASE exchange = "bitget"
    <3>1. idLess' \in Answer BY <2>1, NextCursor
    <3>2. idLess' < idLess BY <2>1, <3>1 DEF Answer, CursorPage
    <3>3. idLess' \in Nat /\ idLess' >= 1
      <4>1. idLess' \in 1..Len(ledger) BY <3>1, AnswerListed DEF Booked, Matching
      <4> QED BY <4>1
    <3>4. idLess + page <= MaxRecords + 1 BY <2>1 DEF Bounded
    <3>0. page' = page + 1 /\ page' \in Nat BY <1>2, <1>4
    <3> DEFINE next == idLess'
               p == page'
    <3>5. next \in Nat /\ next >= 1 /\ next < idLess /\ p = page + 1 BY <3>0, <3>2, <3>3
    <3> HIDE DEF next, p
    <3>6. next + p <= MaxRecords + 1 /\ p <= MaxRecords BY <1>1, <1>4, <3>4, <3>5
    <3> USE DEF next, p
    <3> QED BY <2>1, <3>3, <3>6
  <2>2. CASE exchange # "bitget"
    <3>1. page + 1 <= MaxRecords BY <1>1, <1>3, <2>2, PageWithin
    <3> QED BY <1>2, <2>2, <3>1 DEF Bounded
  <2> QED BY <2>1, <2>2
<1>6. Slices' = Slices /\ Record' = Record BY <1>2 DEF Slices, Record, server
<1> QED BY <1>2, <1>5, <1>6 DEF Bounded, server

\* Each step keeps the bounds.
LEMMA BoundedStep == Reading /\ Owing /\ Bounded /\ [Next]_vars => Bounded'
<1> SUFFICES ASSUME Reading, Owing, Bounded, [Next]_vars PROVE Bounded' OBVIOUS
<1>1. MaxRecords \in Nat /\ Slices \in Nat /\ Slices >= 1 BY CollectAssumption, SlicesTyped
<1>2. UNCHANGED server => Slices' = Slices /\ Record' = Record BY DEF Slices, Record, server
<1>3. ASSUME UNCHANGED <<server, ledger>>, page' = 0, idLess' = MaxRecords + 1,
             slice' \in 0..Slices, outcome' \in {"running", "result", "error"}
      PROVE  Bounded'
  <2>1. /\ page' <= MaxRecords /\ idLess' >= 1 /\ idLess' + page' <= MaxRecords + 1
    BY <1>1, <1>3
  <2> QED BY <1>2, <1>3, <2>1 DEF Bounded, server
<1>4. CASE NextWindow
  <2>1. 1 \in 0..Slices BY <1>1
  <2> QED BY <1>3, <1>4, <2>1 DEF NextWindow, BeginSlice, Bounded
<1>5. CASE ReadPage BY <1>5, BoundedReadPage
<1>6. CASE ReadLastPage
  <2>1. slice \in Nat BY DEF Reading, Types
  <2>2. 0 \in 0..Slices /\ (slice < Slices => slice + 1 \in 0..Slices) BY <1>1, <2>1
  <2> QED BY <1>3, <1>6, <2>2 DEF ReadLastPage, BeginSlice, Bounded
<1>7. CASE Fail \/ Finalize \/ UNCHANGED vars
  BY <1>2, <1>7 DEF Fail, Finalize, vars, Bounded, server
<1>8. CASE Book
  <2>1. PICK r \in Record : ledger' = Append(ledger, r) BY <1>8 DEF Book
  <2>2. ledger' \in Seq(Record) BY <2>1 DEF Bounded
  <2> QED BY <1>2, <1>8, <2>2 DEF Book, Bounded, server
<1> QED BY <1>4, <1>5, <1>6, <1>7, <1>8 DEF Next, Adapter

-----------------------------------------------------------------------------
(* Repetitions.                                                            *)

\* The repetitions of the records in S when c says how often each is counted.
RepetitionsOf(c, S) == UNION {{i} \X (2..c[i]) : i \in S}

\* Record i is in a part of the period that has been begun.
Begun(i) ==
  /\ ledger[i].day < cursor
  /\ slice # 0 /\ ledger[i].day >= Current.first => ledger[i].slice <= slice

\* The records of the slices and windows that have been left.
Past == {i \in 1..Len(ledger) : Begun(i) /\ i \notin Booked}

\* Of the slice being read: late records not read yet, and what has been read.
Fresh(c) == {i \in Booked \ owed : c[i] = 0}
Read(c) == {i \in Booked : c[i] > 0}

\* n places of the listing have been read.  A late record pushes those before
\* it one place on, so whatever was read twice made room for a late record
\* that is before all that is to come, and will not be read itself.
SlicePaid(c, n) ==
  /\ Cardinality(RepetitionsOf(c, Booked)) <= Cardinality(Fresh(c))
  /\ Cardinality(RepetitionsOf(c, Booked)) + Cardinality(Read(c)) <= n
  /\ \A i \in Booked \cap owed : c[i] = 0 => Rank(i) > n

\* Each repetition is paid for by a late record of its own slice.
Paid ==
  newest =>
    /\ exchange # "bitget"
    /\ \A i \in Ids : counted[i] > 0 => Begun(i)
    /\ Cardinality(RepetitionsOf(counted, Past)) <= Cardinality(Past \ owed)
    /\ SlicePaid(counted, page * PageSize)

\* A set covered by two finite ones.
LEMMA CoveredByTwo ==
  ASSUME NEW S, NEW A, NEW B, S \subseteq A \cup B, IsFiniteSet(A), IsFiniteSet(B)
  PROVE  /\ Cardinality(A) \in Nat /\ Cardinality(B) \in Nat /\ Cardinality(S) \in Nat
         /\ Cardinality(S) <= Cardinality(A) + Cardinality(B)
<1>1. Cardinality(A) \in Nat /\ Cardinality(B) \in Nat BY FS_CardinalityType
<1>2. IsFiniteSet(A \cap B) BY FS_Intersection
<1>3. Cardinality(A \cap B) \in Nat BY <1>2, FS_CardinalityType
<1>4. /\ IsFiniteSet(A \cup B)
      /\ Cardinality(A \cup B) = Cardinality(A) + Cardinality(B) - Cardinality(A \cap B)
  BY FS_Union
<1>5. IsFiniteSet(S) /\ Cardinality(S) <= Cardinality(A \cup B) BY <1>4, FS_Subset
<1>6. Cardinality(S) \in Nat BY <1>5, FS_CardinalityType
<1> QED BY <1>1, <1>3, <1>4, <1>5, <1>6

\* What is in the set of repetitions; it is finite.
LEMMA RepetitionsTyped ==
  ASSUME NEW c \in [Ids -> Nat], NEW S \in SUBSET Ids
  PROVE  /\ \A x : x \in RepetitionsOf(c, S) <=> \E i \in S : \E n \in 2..c[i] : x = <<i, n>>
         /\ IsFiniteSet(RepetitionsOf(c, S)) /\ Cardinality(RepetitionsOf(c, S)) \in Nat
<1>1. \A x : x \in RepetitionsOf(c, S) <=> \E i \in S : \E n \in 2..c[i] : x = <<i, n>>
  BY DEF RepetitionsOf
<1> DEFINE Pairs(i) == {i} \X (2..c[i])
           T == {Pairs(i) : i \in S}
           f == [i \in S |-> Pairs(i)]
<1>2. \A i \in S : IsFiniteSet(Pairs(i))
  <2> SUFFICES ASSUME NEW i \in S PROVE IsFiniteSet({i} \X (2..c[i])) OBVIOUS
  <2>1. c[i] \in Int /\ 2 \in Int OBVIOUS
  <2>2. IsFiniteSet(2..c[i]) BY <2>1, FS_Interval
  <2>3. IsFiniteSet({i}) BY FS_Singleton
  <2> QED BY <2>2, <2>3, FS_Product
<1> HIDE DEF Pairs
<1>3. f \in Surjection(S, T) BY DEF Surjection
<1>4. IsFiniteSet(S)
  <2>1. MaxRecords \in Int /\ 1 \in Int BY CollectAssumption
  <2>2. IsFiniteSet(Ids) BY <2>1, FS_Interval DEF Ids
  <2> QED BY <2>2, FS_Subset
<1>5. \A P \in T : IsFiniteSet(P) BY <1>2
<1> HIDE DEF T, f
<1>6. IsFiniteSet(T) BY <1>3, <1>4, FS_Surjection
<1>7. IsFiniteSet(UNION T) BY <1>5, <1>6, FS_UNION
<1>8. RepetitionsOf(c, S) = UNION T BY DEF RepetitionsOf, T, Pairs
<1> QED BY <1>1, <1>7, <1>8, FS_CardinalityType

\* Only records counted more than once have any.
LEMMA RepetitionsCovered ==
  ASSUME NEW c \in [Ids -> Nat], NEW S \in SUBSET Ids, NEW A \in SUBSET Ids, NEW B \in SUBSET Ids,
         \A i \in S : c[i] > 1 => i \in A \cup B
  PROVE  Cardinality(RepetitionsOf(c, S))
           <= Cardinality(RepetitionsOf(c, A)) + Cardinality(RepetitionsOf(c, B))
<1>1. \A x : x \in RepetitionsOf(c, S) <=> \E i \in S : \E n \in 2..c[i] : x = <<i, n>>
  BY RepetitionsTyped
<1>2. \A x : x \in RepetitionsOf(c, A) <=> \E i \in A : \E n \in 2..c[i] : x = <<i, n>>
  BY RepetitionsTyped
<1>3. \A x : x \in RepetitionsOf(c, B) <=> \E i \in B : \E n \in 2..c[i] : x = <<i, n>>
  BY RepetitionsTyped
<1>4. RepetitionsOf(c, S) \subseteq RepetitionsOf(c, A) \cup RepetitionsOf(c, B)
  <2> SUFFICES ASSUME NEW i \in S, NEW n \in 2..c[i]
               PROVE  <<i, n>> \in RepetitionsOf(c, A) \/ <<i, n>> \in RepetitionsOf(c, B)
    BY <1>1
  <2>1. i \in Ids /\ c[i] \in Nat OBVIOUS
  <2>2. c[i] > 1 BY <2>1
  <2>3. i \in A \/ i \in B BY <2>2
  <2> QED BY <1>2, <1>3, <2>3
<1>5. IsFiniteSet(RepetitionsOf(c, A)) /\ IsFiniteSet(RepetitionsOf(c, B)) BY RepetitionsTyped
<1> QED BY <1>4, <1>5, CoveredByTwo

\* Adding the amounts of G repeats those of G that were in the result.
LEMMA RepetitionsAdded ==
  ASSUME NEW c \in [Ids -> Nat], NEW d \in [Ids -> Nat], NEW S \in SUBSET Ids, NEW G,
         \A i \in Ids : d[i] = IF i \in G THEN c[i] + 1 ELSE c[i],
         NEW M, M = {i \in S \cap G : c[i] > 0}
  PROVE  /\ IsFiniteSet(M)
         /\ Cardinality(RepetitionsOf(d, S)) <= Cardinality(RepetitionsOf(c, S)) + Cardinality(M)
<1> DEFINE T == {<<i, c[i] + 1>> : i \in M}
           f == [i \in M |-> <<i, c[i] + 1>>]
<1>1. IsFiniteSet(M)
  <2>1. MaxRecords \in Int /\ 1 \in Int BY CollectAssumption
  <2>2. IsFiniteSet(Ids) BY <2>1, FS_Interval DEF Ids
  <2>3. M \subseteq Ids OBVIOUS
  <2> QED BY <2>2, <2>3, FS_Subset
<1>2. f \in Surjection(M, T) BY DEF Surjection
<1>3. \A i \in M : <<i, c[i] + 1>> \in T OBVIOUS
<1> HIDE DEF f, T
<1>4. IsFiniteSet(T) /\ Cardinality(T) <= Cardinality(M) BY <1>1, <1>2, FS_Surjection
<1>5. \A x : x \in RepetitionsOf(c, S) <=> \E i \in S : \E n \in 2..c[i] : x = <<i, n>>
  BY RepetitionsTyped
<1>6. \A x : x \in RepetitionsOf(d, S) <=> \E i \in S : \E n \in 2..d[i] : x = <<i, n>>
  BY RepetitionsTyped
<1>7. RepetitionsOf(d, S) \subseteq RepetitionsOf(c, S) \cup T
  <2> SUFFICES ASSUME NEW i \in S, NEW n \in 2..d[i]
               PROVE  <<i, n>> \in RepetitionsOf(c, S) \/ <<i, n>> \in T
    BY <1>6
  <2>1. i \in Ids /\ c[i] \in Nat /\ d[i] \in Nat /\ n \in Nat /\ n >= 2 /\ n <= d[i]
    OBVIOUS
  <2>2. CASE n <= c[i]
    <3>1. n \in 2..c[i] BY <2>1, <2>2
    <3> QED BY <1>5, <3>1
  <2>3. CASE ~(n <= c[i])
    <3>1. i \in G /\ n = c[i] + 1 /\ c[i] > 0 BY <2>1, <2>3
    <3>2. i \in M BY <3>1
    <3> QED BY <1>3, <3>1, <3>2
  <2> QED BY <2>2, <2>3
<1>8. IsFiniteSet(RepetitionsOf(c, S)) BY RepetitionsTyped
<1>9. /\ Cardinality(RepetitionsOf(c, S)) \in Nat /\ Cardinality(T) \in Nat
      /\ Cardinality(RepetitionsOf(d, S)) \in Nat
      /\ Cardinality(RepetitionsOf(d, S)) <= Cardinality(RepetitionsOf(c, S)) + Cardinality(T)
  BY <1>4, <1>7, <1>8, CoveredByTwo
<1>10. Cardinality(M) \in Nat BY <1>1, FS_CardinalityType
<1> QED BY <1>1, <1>4, <1>9, <1>10

\* The records booked in the slice being read are finitely many.
LEMMA BookedFinite ==
  ASSUME Types
  PROVE  IsFiniteSet(Booked) /\ Booked \subseteq Ids /\ Booked \subseteq 1..Len(ledger)
<1>1. Len(ledger) \in Nat /\ Len(ledger) <= MaxRecords /\ MaxRecords \in Nat
  BY LedgerTyped, CollectAssumption DEF Types
<1>2. Booked \subseteq 1..Len(ledger) BY DEF Booked, Matching
<1>3. 1..Len(ledger) \subseteq Ids BY <1>1 DEF Ids
<1>4. IsFiniteSet(1..Len(ledger)) BY <1>1, FS_Interval
<1> QED BY <1>2, <1>3, <1>4, FS_Subset

\* The places of a listing up to the n-th are taken if a later one is.
LEMMA PlacesTaken ==
  ASSUME Types, NEW n \in Nat, NEW k \in Booked, Rank(k) > n,
         NEW A, A = {i \in Booked : Rank(i) <= n}
  PROVE  IsFiniteSet(A) /\ Cardinality(A) \in Nat /\ Cardinality(A) >= n
<1> DEFINE C == {i \in Booked : Rank(i) > n}
<1>1. PICK c \in C : \A j \in C : j \in Before(Booked, c) => j = c
  <2>1. C \in SUBSET Booked /\ C # {} OBVIOUS
  <2> HIDE DEF C
  <2> QED BY <2>1, ListingOrdered
<1>2. \A i : Rank(i) \in Nat BY RankTyped
<1>3. Before(Booked, c) \subseteq A \cup {} \cup {c}
  <2> SUFFICES ASSUME NEW j \in Before(Booked, c), j # c PROVE j \in A OBVIOUS
  <2>1. j \in Booked /\ j \notin C BY <1>1 DEF Before
  <2> QED BY <1>2, <2>1
<1>4. Rank(c) > n OBVIOUS
<1> HIDE DEF C
<1>5. IsFiniteSet(A)
  <2>1. A \subseteq Booked OBVIOUS
  <2> QED BY <2>1, BookedFinite, FS_Subset
<1>6. IsFiniteSet({}) /\ Cardinality({}) = 0 BY FS_EmptySet
<1>7. Cardinality(A) \in Nat /\ Rank(c) <= Cardinality(A) + 0 + 1
  BY <1>3, <1>5, <1>6, CoveredByThree DEF Rank
<1> QED BY <1>2, <1>4, <1>5, <1>7

\* A numbered page is not longer than PageSize.
LEMMA PageSmall ==
  ASSUME Types, exchange # "bitget"
  PROVE  IsFiniteSet(Answer) /\ Cardinality(Answer) \in Nat /\ Cardinality(Answer) <= PageSize
<1> DEFINE low == page * PageSize
           high == (page + 1) * PageSize
<1>1. low \in Nat /\ high \in Nat /\ high = low + PageSize /\ PageSize \in Nat
  BY CollectAssumption DEF Types
<1>2. \A i \in Answer : i \in Booked /\ Rank(i) \in (low + 1)..high
  BY AnswerListed DEF Answer, NumberedPage, Listed, Rank
<1> HIDE DEF low, high
<1>3. IsFiniteSet(Answer) BY <1>2, BookedFinite, FS_Subset
<1>4. Cardinality(Answer) \in Nat BY <1>3, FS_CardinalityType
<1>5. CASE Answer = {} BY <1>1, <1>3, <1>4, <1>5, FS_EmptySet
<1>6. CASE Answer # {}
  <2>1. Answer \in SUBSET Booked BY <1>2
  <2>2. /\ \E i \in Answer : \A j \in Answer : j \in Before(Booked, i) => j = i
        /\ \E i \in Answer : \A j \in Answer : j \in Before(Booked, i)
    <3> DEFINE T == Answer
    <3>1. T \in SUBSET Booked /\ T # {} BY <1>6, <2>1
    <3> HIDE DEF T
    <3>2. /\ \E i \in T : \A j \in T : j \in Before(Booked, i) => j = i
          /\ \E i \in T : \A j \in T : j \in Before(Booked, i)
      BY <3>1, ListingOrdered
    <3> QED BY <3>2 DEF T
  <2>3. PICK b \in Answer : \A j \in Answer : j \in Before(Booked, b) => j = b BY <2>2
  <2>4. PICK e \in Answer : \A j \in Answer : j \in Before(Booked, e) BY <2>2
  <2>5. b \in Booked /\ e \in Booked /\ b \in Before(Booked, e) BY <2>1, <2>4
  <2>6. Before(Booked, b) \subseteq Before(Booked, e)
    <3>1. \A i \in Booked : i \in Nat BY DEF Booked, Matching
    <3> QED BY <2>5, <3>1 DEF Before
  <2>7. IsFiniteSet(Before(Booked, b)) /\ Cardinality(Before(Booked, b)) = Rank(b)
    BY <2>5, RankMonotonic DEF Rank
  <2>8. Answer \cap Before(Booked, b) = {b}
    <3>1. b \in Before(Booked, b)
      <4>1. b \in Nat BY <2>5 DEF Booked, Matching
      <4> QED BY <2>5, <4>1 DEF Before
    <3> QED BY <2>3, <3>1
  <2>9. Cardinality({b}) = 1 BY FS_Singleton
  <2>10. Cardinality(Answer \cup Before(Booked, b)) = Cardinality(Answer) + Rank(b) - 1
    BY <1>3, <2>7, <2>8, <2>9, FS_Union
  <2>11. Cardinality(Answer \cup Before(Booked, b)) <= Rank(e)
    <3>1. Answer \cup Before(Booked, b) \in SUBSET Before(Booked, e) BY <2>4, <2>6
    <3> QED BY <2>5, <3>1, RankMonotonic
  <2>12. Rank(b) \in Nat /\ Rank(e) \in Nat /\ Rank(b) >= low + 1 /\ Rank(e) <= high
    BY <1>1, <1>2, RankTyped
  <2> QED BY <1>1, <1>3, <1>4, <2>10, <2>11, <2>12
<1> QED BY <1>5, <1>6

\* Reading a page keeps what has been repeated paid for.
LEMMA PagePaid ==
  ASSUME Types, exchange # "bitget", details, SlicePaid(counted, page * PageSize),
         NEW after \in [Ids -> Nat],
         \A i \in Ids : after[i] = IF i \in Answer THEN counted[i] + 1 ELSE counted[i]
  PROVE  SlicePaid(after, (page + 1) * PageSize)
<1> DEFINE low == page * PageSize
           high == (page + 1) * PageSize
           R == Read(counted)
           U == Fresh(counted)
           G == Answer
           M == {i \in Booked \cap G : counted[i] > 0}
           rc == Cardinality(RepetitionsOf(counted, Booked))
           ra == Cardinality(RepetitionsOf(after, Booked))
<1>1. low \in Nat /\ high \in Nat /\ high = low + PageSize /\ PageSize \in Nat
  BY CollectAssumption DEF Types
<1>2. counted \in [Ids -> Nat] /\ Booked \in SUBSET Ids /\ IsFiniteSet(Booked)
  BY BookedFinite DEF Types
<1>3. \A i \in Booked : counted[i] \in Nat BY <1>2
<1>4. \A i : i \in G <=> i \in Booked /\ Rank(i) \in (low + 1)..high
  BY DEF Answer, NumberedPage, Listed, Rank
<1>5. \A i : Rank(i) \in Nat BY RankTyped
<1>6. /\ rc \in Nat /\ ra \in Nat
      /\ rc <= Cardinality(U) /\ rc + Cardinality(R) <= low
      /\ \A i \in Booked \cap owed : counted[i] = 0 => Rank(i) > low
  BY <1>2, RepetitionsTyped DEF SlicePaid
<1>7. IsFiniteSet(G) /\ Cardinality(G) \in Nat /\ Cardinality(G) <= PageSize BY PageSmall
<1>8. ra <= rc + Cardinality(M) BY <1>2, RepetitionsAdded
<1>9. \A i \in Booked : after[i] = IF i \in G THEN counted[i] + 1 ELSE counted[i] BY <1>2
<1>10. M = R \cap G BY DEF Read
<1>11. Read(after) = R \cup G /\ Fresh(after) = U \ G
  <2>1. \A i : i \in Read(after) <=> i \in R \/ i \in G BY <1>3, <1>4, <1>9 DEF Read
  <2>2. \A i : i \in Fresh(after) <=> i \in U /\ i \notin G BY <1>3, <1>9 DEF Fresh
  <2> QED BY <2>1, <2>2
<1>12. IsFiniteSet(R) /\ IsFiniteSet(U)
  <2>1. R \subseteq Booked /\ U \subseteq Booked BY DEF Read, Fresh
  <2> QED BY <1>2, <2>1, FS_Subset
<1>13. IsFiniteSet(R \cap G) /\ IsFiniteSet(R \ G) /\ IsFiniteSet(U \ G)
  <2>1. R \cap G \subseteq R /\ R \ G \subseteq R /\ U \ G \subseteq U OBVIOUS
  <2> HIDE DEF R, G, U
  <2> QED BY <1>12, <2>1, FS_Subset
<1>14. \A i \in Booked : Rank(i) <= low => i \in (R \ G) \cup (U \ G)
  <2> SUFFICES ASSUME NEW i \in Booked, Rank(i) <= low PROVE i \notin G /\ (i \in R \/ i \in U)
    OBVIOUS
  <2>1. i \notin G BY <1>1, <1>4, <1>5
  <2>2. ~(Rank(i) > low) BY <1>1, <1>5
  <2>3. counted[i] > 0 \/ i \notin owed BY <1>3, <1>6, <2>2
  <2> QED BY <1>3, <2>1, <2>3 DEF Read, Fresh
<1>15. \A i \in Booked \cap owed : after[i] = 0 => Rank(i) > high
  <2> SUFFICES ASSUME NEW i \in Booked \cap owed, after[i] = 0 PROVE Rank(i) > high OBVIOUS
  <2>1. counted[i] = 0 /\ i \notin G BY <1>3, <1>9
  <2>2. Rank(i) > low /\ Rank(i) \notin (low + 1)..high BY <1>4, <1>6, <2>1
  <2> QED BY <1>1, <1>5, <2>2
<1> HIDE DEF low, high, R, U, G, M, rc, ra
<1>16. /\ Cardinality(R) \in Nat /\ Cardinality(U) \in Nat /\ Cardinality(M) \in Nat
       /\ Cardinality(U \ G) \in Nat /\ Cardinality(R \ G) \in Nat
  BY <1>10, <1>12, <1>13, FS_CardinalityType
<1>17. Cardinality(R \ G) = Cardinality(R) - Cardinality(M) BY <1>10, <1>12, FS_Difference
<1>18. Cardinality(R \cup G) = Cardinality(R) + Cardinality(G) - Cardinality(M)
  BY <1>7, <1>10, <1>12, FS_Union
<1>19. ra + Cardinality(R \cup G) <= high BY <1>1, <1>6, <1>7, <1>8, <1>16, <1>18
<1>20. ra <= Cardinality(U \ G)
  <2>1. CASE G = {}
    <3>1. M = {} /\ U \ G = U BY <1>10, <2>1
    <3>2. Cardinality(M) = 0 BY <3>1, FS_EmptySet
    <3>3. Cardinality(U \ G) = Cardinality(U) BY <3>1
    <3> QED BY <1>6, <1>8, <1>16, <3>2, <3>3
  <2>2. CASE G # {}
    <3>1. PICK k \in G : TRUE BY <2>2
    <3>2. k \in Booked /\ Rank(k) > low BY <1>1, <1>4, <1>5, <3>1
    <3> DEFINE A == {i \in Booked : Rank(i) <= low}
    <3>3. A \subseteq (R \ G) \cup (U \ G) BY <1>14
    <3>4. Cardinality(A) >= low BY <1>1, <3>2, PlacesTaken
    <3> HIDE DEF A
    <3>5. /\ Cardinality(A) \in Nat
          /\ Cardinality(A) <= Cardinality(R \ G) + Cardinality(U \ G)
      BY <1>13, <3>3, CoveredByTwo
    <3> QED BY <1>1, <1>6, <1>8, <1>16, <1>17, <3>4, <3>5
  <2> QED BY <2>1, <2>2
<1> QED BY <1>11, <1>15, <1>19, <1>20 DEF SlicePaid, ra, high

\* Late records go on paying for what they paid for.
LEMMA PaidKept ==
  ASSUME NEW c \in [Ids -> Nat], NEW P \in SUBSET Ids, NEW L,
         Cardinality(RepetitionsOf(c, P)) <= Cardinality(L),
         NEW d \in [Ids -> Nat], NEW Q \in SUBSET Ids, NEW M, L \subseteq M, IsFiniteSet(M),
         \A i \in Q : d[i] > 1 => i \in P /\ d[i] = c[i]
  PROVE  Cardinality(RepetitionsOf(d, Q)) <= Cardinality(M)
<1>1. \A x : x \in RepetitionsOf(d, Q) <=> \E i \in Q : \E n \in 2..d[i] : x = <<i, n>>
  BY RepetitionsTyped
<1>2. \A x : x \in RepetitionsOf(c, P) <=> \E i \in P : \E n \in 2..c[i] : x = <<i, n>>
  BY RepetitionsTyped
<1>3. IsFiniteSet(RepetitionsOf(c, P)) /\ Cardinality(RepetitionsOf(c, P)) \in Nat
  BY RepetitionsTyped
<1>4. RepetitionsOf(d, Q) \subseteq RepetitionsOf(c, P)
  <2> SUFFICES ASSUME NEW i \in Q, NEW n \in 2..d[i] PROVE <<i, n>> \in RepetitionsOf(c, P)
    BY <1>1
  <2>1. i \in Ids /\ d[i] \in Nat /\ d[i] > 1 OBVIOUS
  <2>2. i \in P /\ d[i] = c[i] BY <2>1
  <2> QED BY <1>2, <2>2
<1>5. /\ Cardinality(RepetitionsOf(d, Q)) <= Cardinality(RepetitionsOf(c, P))
      /\ IsFiniteSet(RepetitionsOf(d, Q))
  BY <1>3, <1>4, FS_Subset
<1>6. IsFiniteSet(L) /\ Cardinality(L) <= Cardinality(M) BY FS_Subset
<1>7. Cardinality(L) \in Nat /\ Cardinality(M) \in Nat /\ Cardinality(RepetitionsOf(d, Q)) \in Nat
  BY <1>5, <1>6, FS_CardinalityType
<1> QED BY <1>3, <1>5, <1>6, <1>7

\* Two parts that are paid for by different records are together.
LEMMA PaidTogether ==
  ASSUME NEW c \in [Ids -> Nat], NEW A \in SUBSET Ids, NEW B \in SUBSET Ids, NEW L, NEW M,
         Cardinality(RepetitionsOf(c, A)) <= Cardinality(L),
         Cardinality(RepetitionsOf(c, B)) <= Cardinality(M),
         L \cap M = {}, NEW N, IsFiniteSet(N), L \subseteq N, M \subseteq N,
         NEW S \in SUBSET Ids, \A i \in S : c[i] > 1 => i \in A \cup B
  PROVE  Cardinality(RepetitionsOf(c, S)) <= Cardinality(N)
<1>1. Cardinality(RepetitionsOf(c, S))
        <= Cardinality(RepetitionsOf(c, A)) + Cardinality(RepetitionsOf(c, B))
  BY RepetitionsCovered
<1>2. /\ Cardinality(RepetitionsOf(c, S)) \in Nat /\ Cardinality(RepetitionsOf(c, A)) \in Nat
      /\ Cardinality(RepetitionsOf(c, B)) \in Nat
  BY RepetitionsTyped
<1>3. IsFiniteSet(L) /\ IsFiniteSet(M) BY FS_Subset
<1>4. Cardinality({}) = 0 BY FS_EmptySet
<1>5. Cardinality(L \cup M) = Cardinality(L) + Cardinality(M) - 0 BY <1>3, <1>4, FS_Union
<1>6. L \cup M \subseteq N OBVIOUS
<1>7. Cardinality(L \cup M) <= Cardinality(N) BY <1>6, FS_Subset
<1>8. Cardinality(L) \in Nat /\ Cardinality(M) \in Nat /\ Cardinality(N) \in Nat
  BY <1>3, FS_CardinalityType
<1> QED BY <1>1, <1>2, <1>5, <1>7, <1>8

\* Between two windows no slice is read.
LEMMA NoSlice == Types /\ slice = 0 => Booked = {}
<1> SUFFICES ASSUME Types, slice = 0, NEW i \in Booked PROVE FALSE OBVIOUS
<1>1. i \in 1..Len(ledger) /\ ledger[i].slice = 0 BY DEF Booked, Matching
<1>2. ledger[i] \in [day : Days, slice : 1..3] BY <1>1, LedgerTyped, CollectAssumption
<1>3. ledger[i].slice \in 1..3 BY <1>2
<1> QED BY <1>1, <1>3

\* A slice begins with nothing read and nothing late.
LEMMA SliceBegins ==
  Types /\ page = 0 /\ (\A i \in Booked : i \in owed /\ counted[i] = 0)
    => SlicePaid(counted, page * PageSize)
<1> SUFFICES ASSUME Types, page = 0, \A i \in Booked : i \in owed /\ counted[i] = 0
             PROVE  SlicePaid(counted, page * PageSize)
  OBVIOUS
<1>1. page * PageSize = 0 BY CollectAssumption
<1>2. Booked \in SUBSET Ids /\ counted \in [Ids -> Nat] BY BookedFinite DEF Types
<1>3. RepetitionsOf(counted, Booked) = {}
  <2>1. \A x : x \in RepetitionsOf(counted, Booked)
                 <=> \E i \in Booked : \E n \in 2..counted[i] : x = <<i, n>>
    BY <1>2, RepetitionsTyped
  <2>2. \A i \in Booked : 2..counted[i] = {} OBVIOUS
  <2> QED BY <2>1, <2>2
<1>4. Fresh(counted) = {} /\ Read(counted) = {} BY DEF Fresh, Read
<1>5. Cardinality({}) = 0 BY FS_EmptySet
<1>6. \A i \in Booked : Rank(i) > 0 BY RankPositive
<1> QED BY <1>1, <1>3, <1>4, <1>5, <1>6 DEF SlicePaid

\* What has been left are records, finitely many.
LEMMA PastFinite == Types => IsFiniteSet(Past) /\ Past \subseteq Ids
<1> SUFFICES ASSUME Types PROVE IsFiniteSet(Past) /\ Past \subseteq Ids OBVIOUS
<1>1. Len(ledger) \in Nat /\ Len(ledger) <= MaxRecords /\ MaxRecords \in Nat
  BY LedgerTyped, CollectAssumption DEF Types
<1>2. Past \subseteq 1..Len(ledger) BY DEF Past
<1>3. 1..Len(ledger) \subseteq Ids BY <1>1 DEF Ids
<1>4. IsFiniteSet(1..Len(ledger)) BY <1>1, FS_Interval
<1> QED BY <1>2, <1>3, <1>4, FS_Subset

\* Nothing has been repeated.
LEMMA PaidInit == Init => Paid
<1> SUFFICES ASSUME Init, newest PROVE Paid BY DEF Paid
<1>1. exchange # "bitget" BY CollectAssumption DEF Init
<1>2. Types BY InitReading DEF Reading
<1>3. Len(ledger) = 0 /\ page = 0 /\ \A i \in Ids : counted[i] = 0 BY DEF Init
<1>4. 1..0 = {} OBVIOUS
<1>5. Booked = {} /\ Past = {} /\ Past \ owed = {} BY <1>3, <1>4 DEF Booked, Matching, Past
<1>6. SlicePaid(counted, page * PageSize) BY <1>2, <1>3, <1>5, SliceBegins
<1>7. RepetitionsOf(counted, {}) = {} BY DEF RepetitionsOf
<1>8. Cardinality({}) = 0 BY FS_EmptySet
<1>9. Cardinality(RepetitionsOf(counted, Past)) <= Cardinality(Past \ owed) BY <1>5, <1>7, <1>8
<1>10. \A i \in Ids : counted[i] > 0 => Begun(i) BY <1>3
<1> QED BY <1>1, <1>6, <1>9, <1>10 DEF Paid

\* A new window leaves the past as it was.
LEMMA PaidNextWindow == ASSUME Reading, Owing, Paid, NextWindow PROVE Paid'
<1>1. IInv /\ Types /\ Asked BY DEF Reading
<1>2. /\ slice = 0 /\ slice' = 1 /\ page' = 0
      /\ owed' = owed \cup Matching(windows'[Len(windows')], 1)
      /\ Yield /\ UNCHANGED <<server, ledger, counted>>
  BY DEF NextWindow, BeginSlice
<1>3. /\ Len(windows') # 0 /\ Current'.first = cursor /\ cursor' > cursor
      /\ from \in Int /\ cursor \in Int /\ cursor' \in Int
  BY <1>1, <1>2, NewWindow
<1>4. Types' BY StepNextWindow DEF Reading
<1>5. owed' = owed \cup Booked' BY <1>2 DEF Booked, Matching
<1> SUFFICES ASSUME newest PROVE Paid' BY <1>2 DEF Paid, server
<1>6. /\ exchange # "bitget" /\ \A i \in Ids : counted[i] > 0 => Begun(i)
      /\ Cardinality(RepetitionsOf(counted, Past)) <= Cardinality(Past \ owed)
  BY DEF Paid
<1>7. Booked = {} BY <1>1, <1>2, NoSlice
<1>8. \A i \in 1..Len(ledger) : ledger[i].day \in Int BY <1>1, LedgerTyped
<1>9. \A i \in Booked' : i \in 1..Len(ledger) /\ ~(ledger[i].day < cursor)
  <2> SUFFICES ASSUME NEW i \in Booked' PROVE i \in 1..Len(ledger) /\ ~(ledger[i].day < cursor)
    OBVIOUS
  <2>1. i \in 1..Len(ledger) /\ cursor <= ledger[i].day
    BY <1>2, <1>3 DEF Booked, Matching, Current
  <2> QED BY <1>3, <1>8, <2>1
<1>10. \A i \in 1..Len(ledger) : ledger[i].day < cursor => Begun(i)' /\ i \notin Booked'
  BY <1>2, <1>3, <1>8, <1>9 DEF Begun
<1>11. \A i \in Ids : counted'[i] > 0 => Begun(i)' BY <1>1, <1>2, <1>10 DEF Asked
<1>12. Past \subseteq Past'
  BY <1>2, <1>10 DEF Past, Begun
<1>13. Past \ owed \subseteq Past' \ owed' BY <1>2, <1>5, <1>10, <1>12 DEF Past, Begun
<1>14. counted \in [Ids -> Nat] /\ Past \in SUBSET Ids BY <1>1, PastFinite DEF Types
<1>15. Past' \in SUBSET Ids /\ IsFiniteSet(Past')
  <2>1. (Types => IsFiniteSet(Past) /\ Past \subseteq Ids)' BY PastFinite, PTL
  <2> QED BY <1>4, <2>1
<1>16. IsFiniteSet(Past' \ owed') BY <1>15, FS_Difference
<1>17. \A i \in Past' : counted[i] > 1 => i \in Past /\ counted[i] = counted[i]
  <2> SUFFICES ASSUME NEW i \in Past', counted[i] > 1 PROVE i \in Past OBVIOUS
  <2>1. i \in Ids /\ counted[i] > 0 BY <1>14, <1>15
  <2> QED BY <1>1, <1>6, <1>7, <2>1 DEF Past, Asked
<1>18. Cardinality(RepetitionsOf(counted, Past')) <= Cardinality(Past' \ owed')
  BY <1>6, <1>13, <1>14, <1>15, <1>16, <1>17, PaidKept
<1>19. \A i \in Booked' : i \in owed' /\ counted'[i] = 0
  <2> SUFFICES ASSUME NEW i \in Booked' PROVE counted[i] = 0 BY <1>2, <1>5
  <2>1. i \in Ids
    <3>1. i \in 1..Len(ledger) /\ Len(ledger) \in Nat /\ Len(ledger) <= MaxRecords /\ MaxRecords \in Nat
      BY <1>1, <1>9, LedgerTyped, CollectAssumption DEF Types
    <3> QED BY <3>1 DEF Ids
  <2>2. ~(counted[i] > 0) BY <1>1, <1>9, <2>1 DEF Asked
  <2> QED BY <1>14, <2>1, <2>2
<1>20. SlicePaid(counted, page * PageSize)'
  <2>1. (Types /\ page = 0 /\ (\A i \in Booked : i \in owed /\ counted[i] = 0)
           => SlicePaid(counted, page * PageSize))'
    BY SliceBegins, PTL
  <2> QED BY <1>2, <1>4, <1>19, <2>1
<1>21. Cardinality(RepetitionsOf(counted, Past))' <= Cardinality(Past \ owed)'
  BY <1>2, <1>18 DEF RepetitionsOf
<1> QED BY <1>2, <1>6, <1>11, <1>20, <1>21 DEF Paid, server

\* A page that is not the last.
LEMMA PaidReadPage == ASSUME Reading, Owing, Paid, ReadPage PROVE Paid'
<1>1. IInv /\ Types BY DEF Reading
<1>2. /\ slice # 0 /\ page' = page + 1
      /\ counted' = [i \in Ids |-> counted[i] + Times(i, Answer)]
      /\ UNCHANGED <<wvars, server, ledger, slice, owed>>
  BY DEF ReadPage, PageAfter
<1> SUFFICES ASSUME newest PROVE Paid' BY <1>2 DEF Paid, server
<1>3. /\ exchange # "bitget" /\ \A i \in Ids : counted[i] > 0 => Begun(i)
      /\ Cardinality(RepetitionsOf(counted, Past)) <= Cardinality(Past \ owed)
      /\ SlicePaid(counted, page * PageSize)
  BY DEF Paid
<1>4. details /\ counted \in [Ids -> Nat] BY <1>1 DEF Types
<1>5. /\ counted' \in [Ids -> Nat]
      /\ \A i \in Ids : counted'[i] = IF i \in Answer THEN counted[i] + 1 ELSE counted[i]
  BY <1>2, <1>4 DEF Times
<1>6. Booked' = Booked /\ \A i : Rank(i)' = Rank(i)
  BY <1>2 DEF Rank, Before, Booked, Matching, wvars, server
<1>7. Past' = Past /\ \A i : Begun(i)' <=> Begun(i)
  BY <1>2, <1>6 DEF Past, Begun, Current, wvars
<1>8. \A i \in Answer : Begun(i)
  <2> SUFFICES ASSUME NEW i \in Answer PROVE Begun(i) OBVIOUS
  <2>1. i \in Booked BY AnswerListed
  <2>2. ledger[i].day < cursor BY <1>2, <2>1, BookedAsked
  <2>3. ledger[i].slice = slice /\ slice \in Nat BY <1>1, <2>1 DEF Booked, Matching, Types
  <2> QED BY <2>2, <2>3 DEF Begun
<1>9. \A i \in Ids : counted'[i] > 0 => Begun(i)' BY <1>3, <1>5, <1>7, <1>8
<1>10. Past \in SUBSET Ids /\ IsFiniteSet(Past \ owed) BY <1>1, PastFinite, FS_Difference
<1>11. \A i \in Past : counted'[i] > 1 => i \in Past /\ counted'[i] = counted[i]
  BY <1>5, <1>10, AnswerListed DEF Past
<1>12. Cardinality(RepetitionsOf(counted', Past)) <= Cardinality(Past \ owed)
  BY <1>3, <1>4, <1>5, <1>10, <1>11, PaidKept
<1>13. SlicePaid(counted', (page + 1) * PageSize) BY <1>1, <1>3, <1>4, <1>5, PagePaid
<1>14. SlicePaid(counted, page * PageSize)'
  BY <1>2, <1>6, <1>13 DEF SlicePaid, Fresh, Read, RepetitionsOf
<1>15. Cardinality(RepetitionsOf(counted, Past))' <= Cardinality(Past \ owed)'
  BY <1>2, <1>7, <1>12 DEF RepetitionsOf
<1> QED BY <1>2, <1>3, <1>9, <1>14, <1>15 DEF Paid, server

\* BitMart's sum is not added to a listing.
LEMMA NoFallback ==
  ASSUME Types, details
  PROVE  Fallback(Answer) = {}
<1> SUFFICES ASSUME NEW k \in Fallback(Answer) PROVE FALSE OBVIOUS
<1>1. exchange = "bitmart" /\ page = 0 /\ Answer = {} /\ k \in Booked BY DEF Fallback
<1>2. PageSize \in Nat /\ PageSize >= 1 /\ page * PageSize = 0 /\ (page + 1) * PageSize = PageSize
  BY <1>1, CollectAssumption
<1>3. Rank(k) \in Nat /\ Rank(k) >= 1 BY <1>1, RankPositive
<1>4. Rank(k) \notin (page * PageSize + 1)..((page + 1) * PageSize)
  BY <1>1 DEF Answer, NumberedPage, Listed, Rank
<1>5. Rank(k) > (page + 1) * PageSize BY <1>2, <1>3, <1>4
<1>6. Cardinality(Answer) >= PageSize BY <1>1, <1>5, PageFull
<1> QED BY <1>1, <1>2, <1>6, FS_EmptySet

\* The slice is left: its late records that were not read pay for what was
\* read twice, and go on doing so.
LEMMA PaidReadLastPage == ASSUME Reading, Owing, Paid, ReadLastPage PROVE Paid'
<1>1. IInv /\ Types BY DEF Reading
<1> SUFFICES ASSUME newest PROVE Paid' BY DEF Paid, ReadLastPage, server
<1>2. /\ exchange # "bitget" /\ \A i \in Ids : counted[i] > 0 => Begun(i)
      /\ Cardinality(RepetitionsOf(counted, Past)) <= Cardinality(Past \ owed)
      /\ SlicePaid(counted, page * PageSize)
  BY DEF Paid
<1>3. details /\ counted \in [Ids -> Nat] /\ slice \in Nat BY <1>1 DEF Types
<1>4. /\ slice # 0 /\ page' = 0
      /\ counted' = [i \in Ids |-> counted[i] + Times(i, Answer) + Times(i, Fallback(Answer))]
      /\ UNCHANGED <<wvars, server, ledger>>
      /\ \/ slice' = slice + 1 /\ owed' = owed \cup Matching(windows[Len(windows)], slice + 1)
         \/ slice' = 0 /\ owed' = owed
  BY DEF ReadLastPage, BeginSlice
<1>5. /\ counted' \in [Ids -> Nat]
      /\ \A i \in Ids : counted'[i] = IF i \in Answer THEN counted[i] + 1 ELSE counted[i]
  <2>1. Fallback(Answer) = {} BY <1>1, <1>3, NoFallback
  <2> QED BY <1>3, <1>4, <2>1 DEF Times
<1>6. Types' BY StepReadLastPage DEF Reading
<1>7. SlicePaid(counted', (page + 1) * PageSize) BY <1>1, <1>2, <1>3, <1>5, PagePaid
<1>8. Current' = Current /\ cursor' = cursor /\ ledger' = ledger BY <1>4 DEF Current, wvars
<1>9. \A i \in Booked : Begun(i)
  <2> SUFFICES ASSUME NEW i \in Booked PROVE Begun(i) OBVIOUS
  <2>1. ledger[i].day < cursor BY <1>4, BookedAsked
  <2>2. ledger[i].slice = slice BY DEF Booked, Matching
  <2> QED BY <1>3, <2>1, <2>2 DEF Begun
<1>10. \A i \in 1..Len(ledger) : Begun(i) => Begun(i)' /\ i \notin Booked'
  <2> SUFFICES ASSUME NEW i \in 1..Len(ledger), Begun(i) PROVE Begun(i)' /\ i \notin Booked'
    OBVIOUS
  <2>1. ledger[i].day \in Int /\ ledger[i].slice \in Nat BY <1>1, LedgerTyped
  <2>2. Current.first \in Int BY <1>1, <1>4, CurrentWindow DEF Types
  <2>3. ledger[i].day < cursor /\ (ledger[i].day >= Current.first => ledger[i].slice <= slice)
    BY <1>4 DEF Begun
  <2>4. CASE slice' = slice + 1
    <3>1. Begun(i)' BY <1>3, <1>8, <2>1, <2>3, <2>4 DEF Begun
    <3>2. i \in Booked' => ledger[i].slice = slice + 1 /\ Current.first <= ledger[i].day
      BY <1>8, <2>4 DEF Booked, Matching, Current
    <3>3. i \notin Booked' BY <1>3, <2>1, <2>2, <2>3, <3>2
    <3> QED BY <3>1, <3>3
  <2>5. CASE slice' = 0
    <3>1. (Types /\ slice = 0 => Booked = {})' BY NoSlice, PTL
    <3>2. Booked' = {} BY <1>6, <2>5, <3>1
    <3> QED BY <1>8, <2>3, <2>5, <3>2 DEF Begun
  <2> QED BY <1>4, <2>4, <2>5
<1>11. \A i \in Ids : counted'[i] > 0 => Begun(i) /\ i \in 1..Len(ledger)
  <2> SUFFICES ASSUME NEW i \in Ids, counted'[i] > 0 PROVE Begun(i) /\ i \in 1..Len(ledger)
    OBVIOUS
  <2>1. CASE i \in Answer
    <3>1. i \in Booked BY <2>1, AnswerListed
    <3> QED BY <1>9, <3>1 DEF Booked, Matching
  <2>2. CASE i \notin Answer BY <1>2, <1>5, <2>2 DEF Reading, Asked
  <2> QED BY <2>1, <2>2
<1>12. /\ Booked \in SUBSET Ids /\ Past \in SUBSET Ids /\ IsFiniteSet(Past \ owed)
       /\ Past \subseteq 1..Len(ledger) /\ Booked \subseteq 1..Len(ledger)
  BY <1>1, BookedFinite, PastFinite, FS_Difference DEF Past
<1>13. Past' \in SUBSET Ids /\ IsFiniteSet(Past' \ owed')
  <2>1. (Types => IsFiniteSet(Past) /\ Past \subseteq Ids)' BY PastFinite, PTL
  <2> QED BY <1>6, <2>1, FS_Difference
<1>14. owed' \subseteq owed \cup Booked'
  <2>1. slice' = slice + 1 => owed' = owed \cup Booked' BY <1>3, <1>4 DEF Booked, Matching, wvars
  <2> QED BY <1>4, <2>1
<1>15. \A i \in 1..Len(ledger) : Begun(i) /\ i \notin owed => i \in Past' \ owed'
  BY <1>8, <1>10, <1>14 DEF Past
<1>16. Past \ owed \subseteq Past' \ owed' BY <1>12, <1>15 DEF Past
<1>17. Fresh(counted') \subseteq Past' \ owed' BY <1>9, <1>12, <1>15 DEF Fresh
<1>18. (Past \ owed) \cap Fresh(counted') = {} BY DEF Past, Fresh
<1>19. \A i \in Past : counted'[i] > 1 => i \in Past /\ counted'[i] = counted[i]
  BY <1>5, <1>12, AnswerListed DEF Past
<1>20. Cardinality(RepetitionsOf(counted', Past)) <= Cardinality(Past \ owed)
  BY <1>2, <1>3, <1>5, <1>12, <1>19, PaidKept
<1>21. Cardinality(RepetitionsOf(counted', Booked)) <= Cardinality(Fresh(counted'))
  BY <1>7 DEF SlicePaid
<1>22. \A i \in Past' : counted'[i] > 1 => i \in Past \cup Booked
  <2> SUFFICES ASSUME NEW i \in Past', counted'[i] > 1 PROVE i \in Past \cup Booked OBVIOUS
  <2>1. i \in Ids /\ counted'[i] > 0 BY <1>5, <1>13
  <2> QED BY <1>11, <2>1 DEF Past
<1>23. Cardinality(RepetitionsOf(counted', Past')) <= Cardinality(Past' \ owed')
  BY <1>5, <1>12, <1>13, <1>16, <1>17, <1>18, <1>20, <1>21, <1>22, PaidTogether
<1>24. Cardinality(RepetitionsOf(counted, Past))' <= Cardinality(Past \ owed)'
  BY <1>23 DEF RepetitionsOf
<1>25. \A i \in Booked' : i \in owed' /\ counted'[i] = 0
  <2> SUFFICES ASSUME NEW i \in Booked' PROVE i \in owed' /\ counted'[i] = 0 OBVIOUS
  <2>1. (Types => Booked \subseteq Ids /\ Booked \subseteq 1..Len(ledger))' BY BookedFinite, PTL
  <2>2. i \in Ids /\ i \in 1..Len(ledger) BY <1>6, <1>8, <2>1
  <2>3. ~(counted'[i] > 0) BY <1>10, <1>11, <2>2
  <2>4. (Types /\ slice = 0 => Booked = {})' BY NoSlice, PTL
  <2>5. slice' # 0 BY <1>6, <2>4
  <2>6. i \in owed' BY <1>4, <2>5 DEF Booked, Matching, wvars
  <2> QED BY <1>5, <2>2, <2>3, <2>6
<1>26. SlicePaid(counted, page * PageSize)'
  <2>1. (Types /\ page = 0 /\ (\A i \in Booked : i \in owed /\ counted[i] = 0)
           => SlicePaid(counted, page * PageSize))'
    BY SliceBegins, PTL
  <2> QED BY <1>4, <1>6, <1>25, <2>1
<1>27. \A i \in Ids : counted'[i] > 0 => Begun(i)' BY <1>10, <1>11
<1> QED BY <1>2, <1>4, <1>24, <1>26, <1>27 DEF Paid, server

\* A record booked meanwhile: one more late record, and no more repetitions.
LEMMA PaidBook == ASSUME Reading, Owing, Paid, Book PROVE Paid'
<1>1. Types /\ Types' /\ Asked BY StepBook DEF Reading
<1>2. UNCHANGED <<wvars, server, slice, page, counted, owed>> BY DEF Book
<1> SUFFICES ASSUME newest PROVE Paid' BY <1>2 DEF Paid, server
<1>3. /\ exchange # "bitget" /\ \A i \in Ids : counted[i] > 0 => Begun(i)
      /\ Cardinality(RepetitionsOf(counted, Past)) <= Cardinality(Past \ owed)
      /\ SlicePaid(counted, page * PageSize)
  BY DEF Paid
<1>4. counted \in [Ids -> Nat] BY <1>1 DEF Types
<1>5. /\ \A i \in 1..Len(ledger) : i \in 1..Len(ledger') /\ ledger'[i] = ledger[i]
      /\ \A i \in 1..Len(ledger) : i \in Booked' <=> i \in Booked
      /\ Booked \subseteq Booked'
      /\ \A i \in Booked : Rank(i) \in Nat /\ Rank(i)' \in Nat /\ Rank(i) <= Rank(i)'
  BY <1>1, BookGrows
<1>6. \A i \in 1..Len(ledger) : Begun(i)' <=> Begun(i)
  BY <1>2, <1>5 DEF Begun, Current, wvars
<1>7. \A i \in 1..Len(ledger) : i \in Past' <=> i \in Past BY <1>5, <1>6 DEF Past
<1>8. \A i \in Ids : counted[i] > 0 => i \in 1..Len(ledger) BY <1>1 DEF Asked
<1>9. \A i \in Ids : counted'[i] > 0 => Begun(i)' BY <1>2, <1>3, <1>6, <1>8
<1>10. Booked \in SUBSET Ids /\ Past \in SUBSET Ids /\ IsFiniteSet(Booked)
       /\ Booked \subseteq 1..Len(ledger) /\ Past \subseteq 1..Len(ledger)
  BY <1>1, BookedFinite, PastFinite DEF Past
<1>11. Booked' \in SUBSET Ids /\ Past' \in SUBSET Ids /\ IsFiniteSet(Booked') /\ IsFiniteSet(Past')
  <2>1. (Types => IsFiniteSet(Past) /\ Past \subseteq Ids)' BY PastFinite, PTL
  <2>2. (Types => IsFiniteSet(Booked) /\ Booked \subseteq Ids)' BY BookedFinite, PTL
  <2> QED BY <1>1, <2>1, <2>2
<1>12. Cardinality(RepetitionsOf(counted, Past')) <= Cardinality(Past' \ owed)
  <2>1. Past \ owed \subseteq Past' \ owed BY <1>7, <1>10
  <2>2. IsFiniteSet(Past' \ owed) BY <1>11, FS_Difference
  <2>3. \A i \in Past' : counted[i] > 1 => i \in Past /\ counted[i] = counted[i]
    <3> SUFFICES ASSUME NEW i \in Past', counted[i] > 1 PROVE i \in Past OBVIOUS
    <3>1. i \in Ids /\ counted[i] > 0 BY <1>4, <1>11
    <3> QED BY <1>7, <1>8, <3>1
  <2> QED BY <1>3, <1>4, <1>10, <1>11, <2>1, <2>2, <2>3, PaidKept
<1>13. \A i \in Booked' : counted[i] > 0 => i \in Booked BY <1>5, <1>8, <1>11
<1>14. /\ Fresh(counted) \subseteq Fresh(counted)' /\ IsFiniteSet(Fresh(counted)')
       /\ Read(counted)' = Read(counted)
  <2>1. Fresh(counted) \subseteq Fresh(counted)' BY <1>2, <1>5 DEF Fresh
  <2>2. Fresh(counted)' \subseteq Booked' BY DEF Fresh
  <2>3. IsFiniteSet(Fresh(counted)') BY <1>11, <2>2, FS_Subset
  <2>4. Read(counted)' = Read(counted) BY <1>2, <1>5, <1>13 DEF Read
  <2> QED BY <2>1, <2>3, <2>4
<1>15. Cardinality(RepetitionsOf(counted, Booked')) <= Cardinality(Fresh(counted)')
  <2>1. \A i \in Booked' : counted[i] > 1 => i \in Booked /\ counted[i] = counted[i]
    BY <1>4, <1>11, <1>13
  <2>2. Cardinality(RepetitionsOf(counted, Booked)) <= Cardinality(Fresh(counted))
    BY <1>3 DEF SlicePaid
  <2> QED BY <1>4, <1>10, <1>11, <1>14, <2>1, <2>2, PaidKept
<1>16. RepetitionsOf(counted, Booked') = RepetitionsOf(counted, Booked)
  <2>1. \A x : x \in RepetitionsOf(counted, Booked)
                 <=> \E i \in Booked : \E n \in 2..counted[i] : x = <<i, n>>
    BY <1>4, <1>10, RepetitionsTyped
  <2>2. \A x : x \in RepetitionsOf(counted, Booked')
                 <=> \E i \in Booked' : \E n \in 2..counted[i] : x = <<i, n>>
    BY <1>4, <1>11, RepetitionsTyped
  <2>3. \A i \in Booked' : \A n \in 2..counted[i] : i \in Booked BY <1>4, <1>11, <1>13
  <2>4. \A x : x \in RepetitionsOf(counted, Booked') <=> x \in RepetitionsOf(counted, Booked)
    BY <1>5, <2>1, <2>2, <2>3
  <2> QED BY <2>4 DEF RepetitionsOf
<1>17. \A i \in Booked' \cap owed : counted[i] = 0 => Rank(i)' > page * PageSize
  <2> SUFFICES ASSUME NEW i \in Booked' \cap owed, counted[i] = 0
               PROVE  Rank(i)' > page * PageSize
    OBVIOUS
  <2>1. i \in Booked BY <1>5 DEF Owing
  <2>2. Rank(i) > page * PageSize BY <1>3, <2>1 DEF SlicePaid
  <2>3. page * PageSize \in Nat BY <1>1, CollectAssumption DEF Types
  <2> QED BY <1>5, <2>1, <2>2, <2>3
<1>18. SlicePaid(counted, page * PageSize)'
  <2>1. Cardinality(RepetitionsOf(counted, Booked)) + Cardinality(Read(counted)) <= page * PageSize
    BY <1>3 DEF SlicePaid
  <2> QED BY <1>2, <1>14, <1>15, <1>16, <1>17, <2>1 DEF SlicePaid, RepetitionsOf
<1>19. Cardinality(RepetitionsOf(counted, Past))' <= Cardinality(Past \ owed)'
  BY <1>2, <1>12 DEF RepetitionsOf
<1> QED BY <1>2, <1>3, <1>9, <1>18, <1>19 DEF Paid, server

\* The end, with a result or an error, repeats nothing.
LEMMA PaidElsewhere ==
  ASSUME Paid, Fail \/ Finalize \/ UNCHANGED vars
  PROVE  Paid'
<1>1. UNCHANGED <<wvars, server, ledger, slice, page, counted, owed>>
  BY DEF Fail, Finalize, vars
<1>2. Booked' = Booked /\ Past' = Past
  BY <1>1 DEF Booked, Past, Begun, Current, Matching, wvars
<1>3. \A i : (Begun(i)' <=> Begun(i)) /\ Rank(i)' = Rank(i)
  BY <1>1, <1>2 DEF Begun, Current, Rank, Before, wvars, server
<1>4. SlicePaid(counted, page * PageSize)' <=> SlicePaid(counted, page * PageSize)
  BY <1>1, <1>2, <1>3 DEF SlicePaid, Fresh, Read, RepetitionsOf
<1> QED BY <1>1, <1>2, <1>3, <1>4 DEF Paid, RepetitionsOf, server

-----------------------------------------------------------------------------
(* The end comes nearer.                                                   *)

\* Numbers of two digits: the first decides.
LEMMA FirstDigit ==
  ASSUME NEW n \in Nat, NEW a \in Nat, NEW b \in Nat, a < b, NEW x \in 0..n, NEW y \in 0..n,
         NEW u, u = a * (n + 1) + x, NEW v, v = b * (n + 1) + y
  PROVE  u \in Nat /\ v \in Nat /\ u < v /\ u \in 0..(v - 1)
<1>1. PICK d \in Nat : b = a + 1 + d
  <2>1. b - a - 1 \in Nat /\ b = a + 1 + (b - a - 1) OBVIOUS
  <2> QED BY <2>1
<1> DEFINE p == a * (n + 1)
           q == d * (n + 1)
           r == b * (n + 1)
<1>2. p \in Nat /\ q \in Nat /\ r \in Nat OBVIOUS
<1>3. r = p + (n + 1) + q BY <1>1
<1>4. x \in Nat /\ y \in Nat /\ x <= n /\ u = p + x /\ v = r + y OBVIOUS
<1> HIDE DEF p, q, r
<1> QED BY <1>2, <1>3, <1>4

\* The digits.
LEMMA RemainingTyped ==
  Reading /\ Bounded =>
    /\ MaxRecords \in Nat /\ Slices \in Nat /\ DaysLeft \in Nat
    /\ SlicesLeft \in 0..Slices /\ PartsLeft \in Nat /\ MaxRecords - page \in 0..MaxRecords
<1> SUFFICES ASSUME Reading, Bounded
             PROVE  /\ MaxRecords \in Nat /\ Slices \in Nat /\ DaysLeft \in Nat
                    /\ SlicesLeft \in 0..Slices /\ PartsLeft \in Nat
                    /\ MaxRecords - page \in 0..MaxRecords
  OBVIOUS
<1>1. IInv /\ Types BY DEF Reading
<1>2. MaxRecords \in Nat /\ Slices \in Nat BY CollectAssumption, SlicesTyped
<1>3. page \in Nat /\ page <= MaxRecords /\ slice \in 0..Slices BY <1>1 DEF Types, Bounded
<1>4. DaysLeft \in Nat
  <2>1. from \in Int /\ to \in Int /\ cursor \in Int BY <1>1, WindowsTyped DEF IInv
  <2>2. cursor <= to + 1 BY <1>1, <2>1 DEF IInv, Types
  <2> QED BY <2>1, <2>2 DEF DaysLeft
<1>5. SlicesLeft \in 0..Slices BY <1>2, <1>3 DEF SlicesLeft
<1>6. PartsLeft \in Nat
  <2>1. DaysLeft * (Slices + 1) \in Nat BY <1>2, <1>4
  <2>2. SlicesLeft \in Nat BY <1>2, <1>5
  <2> QED BY <2>1, <2>2 DEF PartsLeft
<1>7. MaxRecords - page \in 0..MaxRecords BY <1>2, <1>3
<1> QED BY <1>2, <1>4, <1>5, <1>6, <1>7

\* One window, slice or page less is left.
LEMMA AdapterAdvances ==
  ASSUME Reading, Bounded, Reading', Bounded', Adapter, outcome' = "running"
  PROVE  Remaining' \in 0..(Remaining - 1)
<1>1. /\ MaxRecords \in Nat /\ Slices \in Nat /\ DaysLeft \in Nat
      /\ SlicesLeft \in 0..Slices /\ PartsLeft \in Nat /\ MaxRecords - page \in 0..MaxRecords
  BY RemainingTyped
<1>2. /\ Slices' \in Nat /\ DaysLeft' \in Nat
      /\ SlicesLeft' \in 0..Slices' /\ PartsLeft' \in Nat /\ MaxRecords - page' \in 0..MaxRecords
  <2>1. (Reading /\ Bounded =>
           /\ MaxRecords \in Nat /\ Slices \in Nat /\ DaysLeft \in Nat
           /\ SlicesLeft \in 0..Slices /\ PartsLeft \in Nat
           /\ MaxRecords - page \in 0..MaxRecords)'
    BY RemainingTyped, PTL
  <2> QED BY <2>1
<1>3. Slices' = Slices
  BY DEF Adapter, NextWindow, ReadPage, ReadLastPage, Fail, Finalize, Slices, server
<1>4. ASSUME PartsLeft' < PartsLeft PROVE Remaining' \in 0..(Remaining - 1)
  <2> DEFINE a == PartsLeft'
             x == MaxRecords - page'
             u == Remaining'
  <2>1. a \in Nat /\ a < PartsLeft /\ x \in 0..MaxRecords BY <1>2, <1>4
  <2>2. u = a * (MaxRecords + 1) + x BY DEF Remaining
  <2>3. Remaining = PartsLeft * (MaxRecords + 1) + (MaxRecords - page) BY DEF Remaining
  <2> HIDE DEF a, x, u
  <2>4. u \in 0..(Remaining - 1) BY <1>1, <2>1, <2>2, <2>3, FirstDigit, Zenon
  <2> QED BY <2>4 DEF u
<1>5. IInv /\ Types BY DEF Reading
<1>6. CASE NextWindow
  <2>1. cursor' > cursor /\ to' = to /\ cursor \in Int /\ cursor' \in Int
    BY <1>5, <1>6, NewWindow DEF NextWindow
  <2>2. to \in Int BY <1>5, WindowsTyped DEF IInv
  <2>3. DaysLeft' < DaysLeft
    <3> DEFINE c == cursor'
    <3>1. c \in Int /\ c > cursor /\ DaysLeft' = to + 1 - c /\ DaysLeft = to + 1 - cursor
      BY <2>1 DEF DaysLeft
    <3> HIDE DEF c
    <3> QED BY <2>1, <2>2, <3>1
  <2> DEFINE a == DaysLeft'
             x == SlicesLeft'
             u == PartsLeft'
  <2>4. a \in Nat /\ a < DaysLeft /\ x \in 0..Slices BY <1>2, <1>3, <2>3
  <2>5. u = a * (Slices + 1) + x BY <1>3 DEF PartsLeft
  <2>6. PartsLeft = DaysLeft * (Slices + 1) + SlicesLeft BY DEF PartsLeft
  <2> HIDE DEF a, x, u
  <2>7. u < PartsLeft BY <1>1, <2>4, <2>5, <2>6, FirstDigit, Zenon
  <2> QED BY <1>4, <2>7 DEF u
<1>7. CASE ReadPage
  <2>1. page' = page + 1 /\ UNCHANGED <<from, to, cursor, exchange, slice>>
    BY <1>7 DEF ReadPage, PageAfter, wvars, server
  <2>2. PartsLeft' = PartsLeft BY <1>3, <2>1 DEF PartsLeft, DaysLeft, SlicesLeft
  <2>3. page \in Nat BY <1>5 DEF Types
  <2> DEFINE b == PartsLeft * (MaxRecords + 1)
  <2>4. b \in Nat BY <1>1
  <2>5. Remaining' = b + (MaxRecords - (page + 1)) /\ Remaining = b + (MaxRecords - page)
    BY <2>1, <2>2 DEF Remaining
  <2>6. MaxRecords - (page + 1) \in 0..MaxRecords BY <1>2, <2>1
  <2> HIDE DEF b
  <2> QED BY <1>1, <2>3, <2>4, <2>5, <2>6
<1>8. CASE ReadLastPage
  <2>1. /\ slice # 0 /\ UNCHANGED <<from, to, cursor, exchange>>
        /\ (slice < Slices /\ slice' = slice + 1) \/ slice' = 0
    BY <1>8 DEF ReadLastPage, BeginSlice, wvars, server
  <2>2. slice \in 0..Slices BY DEF Bounded
  <2>3. SlicesLeft' < SlicesLeft BY <1>1, <1>3, <2>1, <2>2 DEF SlicesLeft
  <2>4. DaysLeft' = DaysLeft BY <2>1 DEF DaysLeft
  <2> DEFINE b == DaysLeft * (Slices + 1)
  <2>5. b \in Nat BY <1>1
  <2>6. PartsLeft' = b + SlicesLeft' /\ PartsLeft = b + SlicesLeft BY <1>3, <2>4 DEF PartsLeft
  <2> DEFINE x == SlicesLeft'
  <2>7. SlicesLeft \in Nat /\ x \in Nat /\ x < SlicesLeft /\ PartsLeft' = b + x
    BY <1>1, <1>2, <1>3, <2>3, <2>6
  <2> HIDE DEF b, x
  <2>8. PartsLeft' < PartsLeft
    <3>1. b + x < b + SlicesLeft BY <2>5, <2>7
    <3> QED BY <2>6, <2>7, <3>1
  <2> QED BY <1>4, <2>8
<1>9. ~Fail /\ ~Finalize BY DEF Fail, Finalize
<1> QED BY <1>6, <1>7, <1>8, <1>9 DEF Adapter

-----------------------------------------------------------------------------
(* The invariant and the theorems.                                         *)

\* Each step keeps what is true of the records read.
LEMMA StepReading == Reading /\ [Next]_vars => Reading'
<1> SUFFICES ASSUME Reading, [Next]_vars PROVE Reading' OBVIOUS
<1>1. CASE Fail \/ Finalize \/ UNCHANGED vars
  BY <1>1, StepElsewhere DEF Fail, Finalize, vars
<1> QED BY <1>1, StepNextWindow, StepReadPage, StepReadLastPage, StepBook DEF Next, Adapter

\* It is true all the way.
LEMMA InvariantReading == Spec => []Reading
BY InitReading, StepReading, PTL DEF Spec

\* What is owed is counted or ahead, all the way.
LEMMA InvariantOwing == Spec => []Owing
<1>1. Init => Owing
  <2> SUFFICES ASSUME Init PROVE Owing OBVIOUS
  <2>1. exchange \in {"gate", "kucoin", "weex", "mexc", "bitmart", "bitget"}
    BY CollectAssumption DEF Init
  <2>2. details \in BOOLEAN /\ (~details => exchange = "bitmart" /\ page = 0) BY DEF Init
  <2>3. owed = {} /\ outcome = "running" BY DEF Init
  <2> QED BY <2>1, <2>2, <2>3 DEF Owing
<1>2. Reading /\ Owing /\ [Next]_vars => Owing'
  BY OwingNextWindow, OwingReadPage, OwingReadLastPage, OwingBook, OwingElsewhere
     DEF Next, Adapter
<1> QED BY <1>1, <1>2, InvariantReading, PTL DEF Spec

\* The bounds hold all the way.
LEMMA InvariantBounded == Spec => []Bounded
BY BoundedInit, BoundedStep, InvariantReading, InvariantOwing, PTL DEF Spec

\* The types and the bounds: for any number of records no slice takes more
\* pages than there are records, and none beyond an exchange's slices is
\* asked for.
THEOREM CollectTypeOK == Spec => []TypeOK
<1>1. ASSUME Reading, Owing, Bounded PROVE TypeOK
  <2>1. IInv /\ Types BY <1>1 DEF Reading
  <2>2. MaxRecords \in Nat /\ page \in Nat /\ idLess \in Int BY <2>1, CollectAssumption DEF Types
  <2>3. page \in 0..MaxRecords BY <1>1, <2>2 DEF Bounded
  <2>4. idLess \in 1..(MaxRecords + 1)
    <3>1. CASE exchange = "bitget"
      <4>1. idLess >= 1 /\ idLess + page <= MaxRecords + 1 BY <1>1, <3>1 DEF Bounded
      <4> QED BY <2>2, <4>1
    <3>2. CASE exchange # "bitget" BY <1>1, <2>2, <3>2 DEF Bounded
    <3> QED BY <3>1, <3>2
  <2>5. owed \subseteq Ids
    <3>1. Len(ledger) \in Nat /\ Len(ledger) <= MaxRecords BY <2>1, LedgerTyped DEF Types
    <3>2. 1..Len(ledger) \subseteq 1..MaxRecords BY <2>2, <3>1
    <3> QED BY <1>1, <3>2 DEF Owing, Ids
  <2>6. counted \in [Ids -> Nat] /\ newest \in BOOLEAN /\ Len(ledger) <= MaxRecords BY <2>1 DEF Types
  <2>7. WTypeOK BY <2>1 DEF IInv
  <2>8. details \in BOOLEAN BY <1>1 DEF Owing
  <2> QED BY <1>1, <2>3, <2>4, <2>5, <2>6, <2>7, <2>8 DEF TypeOK, Bounded
<1> QED BY <1>1, InvariantReading, InvariantOwing, InvariantBounded, PTL

\* No amount is added twice unless the exchange lists the newest record
\* first, and none is added that was not asked for: whatever the sizes of
\* pages and windows and whatever is booked meanwhile.
THEOREM CollectCountedOnce == Spec => []CountedOnce
<1>1. ASSUME Reading PROVE CountedOnce
  <2>1. IInv /\ Types /\ Asked /\ OnceRead BY <1>1 DEF Reading
  <2>2. \A i \in 1..Len(ledger) : ledger[i].day \in Int BY <2>1, LedgerTyped
  <2>3. /\ from \in Int /\ to \in Int /\ cursor \in Int /\ cursor <= to + 1
    BY <2>1, WindowsTyped DEF IInv, Types
  <2>4. \A i \in Ids : counted[i] \in Nat BY <2>1 DEF Types
  <2> QED BY <2>1, <2>2, <2>3, <2>4 DEF CountedOnce, Asked, OnceRead
<1> QED BY <1>1, InvariantReading, PTL

\* Repetitions are paid for all the way.
LEMMA InvariantPaid == Spec => []Paid
<1>1. Reading /\ Owing /\ Paid /\ [Next]_vars => Paid'
  BY PaidNextWindow, PaidReadPage, PaidReadLastPage, PaidBook, PaidElsewhere DEF Next, Adapter
<1> QED BY <1>1, PaidInit, InvariantReading, InvariantOwing, PTL DEF Spec

\* Where the newest record is listed first, an amount may be added again, but
\* not more often than records were booked after their slice had been begun.
THEOREM CollectRepetitionsExplained == Spec => []RepetitionsExplained
<1>1. ASSUME Reading, Owing, Paid PROVE RepetitionsExplained
  <2>1. Types /\ OnceRead BY <1>1 DEF Reading
  <2>2. counted \in [Ids -> Nat] /\ Ids \in SUBSET Ids BY <2>1 DEF Types
  <2>3. Repetitions = RepetitionsOf(counted, Ids) BY DEF Repetitions, RepetitionsOf
  <2>4. IsFiniteSet(Late) /\ Cardinality(Late) \in Nat
    <3>1. IsFiniteSet(1..Len(ledger)) BY <2>1, LedgerTyped, FS_Interval
    <3>2. IsFiniteSet(Late) BY <3>1, FS_Difference DEF Late
    <3> QED BY <3>2, FS_CardinalityType
  <2>5. CASE newest
    <3>1. /\ \A i \in Ids : counted[i] > 0 => Begun(i) /\ i \in 1..Len(ledger)
          /\ Cardinality(RepetitionsOf(counted, Past)) <= Cardinality(Past \ owed)
          /\ Cardinality(RepetitionsOf(counted, Booked)) <= Cardinality(Fresh(counted))
      BY <1>1, <2>5 DEF Paid, SlicePaid, Reading, Asked
    <3>2. Past \in SUBSET Ids /\ Booked \in SUBSET Ids BY <2>1, PastFinite, BookedFinite
    <3>3. /\ (Past \ owed) \cap Fresh(counted) = {}
          /\ Past \ owed \subseteq Late /\ Fresh(counted) \subseteq Late
      BY <2>1, BookedFinite DEF Past, Fresh, Late
    <3>4. \A i \in Ids : counted[i] > 1 => i \in Past \cup Booked BY <2>2, <3>1 DEF Past
    <3>5. Cardinality(RepetitionsOf(counted, Ids)) <= Cardinality(Late)
      BY <2>2, <2>4, <3>1, <3>2, <3>3, <3>4, PaidTogether
    <3> QED BY <2>3, <3>5 DEF RepetitionsExplained
  <2>6. CASE ~newest
    <3>1. \A i \in Ids : ~(counted[i] > 1) BY <2>1, <2>2, <2>6 DEF OnceRead
    <3>2. \A x : x \in RepetitionsOf(counted, Ids)
                   <=> \E i \in Ids : \E n \in 2..counted[i] : x = <<i, n>>
      BY <2>2, RepetitionsTyped
    <3>3. \A i \in Ids : 2..counted[i] = {} BY <2>2, <3>1
    <3>4. Repetitions = {} BY <2>3, <3>2, <3>3
    <3> QED BY <2>4, <3>4, FS_EmptySet DEF RepetitionsExplained
  <2> QED BY <2>5, <2>6
<1> QED BY <1>1, InvariantReading, InvariantOwing, InvariantPaid, PTL

\* A result holds every record that existed when its part of the period was
\* asked for: whatever is booked meanwhile, whichever way pages are listed.
THEOREM CollectResultIsComplete == Spec => []ResultIsComplete
<1>1. Owing => ResultIsComplete BY DEF Owing, ResultIsComplete, Excused
<1> QED BY <1>1, InvariantOwing, PTL

\* Every request brings the end nearer, by a measure that only depends on the
\* period, the slices and the number of records: pages run out.
THEOREM CollectAdvances == Spec => Advances
<1>1. ASSUME Reading, Bounded, Reading', Bounded', [Next]_vars, ~UNCHANGED vars,
             outcome' = "running", ledger' = ledger
      PROVE  Remaining' \in 0..(Remaining - 1)
  <2>1. ~Book
    <3> SUFFICES ASSUME Book PROVE FALSE OBVIOUS
    <3>1. Types BY <1>1 DEF Reading
    <3>2. Len(ledger) \in Nat /\ Len(ledger') = Len(ledger) + 1 BY <3>1, BookGrows
    <3> QED BY <1>1, <3>2
  <2>2. Adapter BY <1>1, <2>1 DEF Next
  <2> QED BY <1>1, <2>2, AdapterAdvances
<1>2. Reading /\ Bounded /\ Reading' /\ Bounded' /\ [Next]_vars
        => [outcome' = "running" /\ ledger' = ledger => Remaining' \in 0..(Remaining - 1)]_vars
  BY <1>1
<1> QED BY <1>2, InvariantReading, InvariantBounded, PTL DEF Advances, Spec

\* No window an adapter asks for is longer than its exchange accepts, and a
\* period that fits is asked for in one: MEXC's totals are never cut.
THEOREM CollectWindowsFit == Spec => [](WithinCap /\ FittingIsWhole)
<1>1. Reading => WithinCap /\ FittingIsWhole BY DEF Reading, IInv
<1> QED BY <1>1, InvariantReading, PTL

\* The windows an adapter asks for partition its period.
THEOREM CollectPartition == Spec => []Partition
<1>1. Reading => Partition BY TilingPartitions DEF Reading
<1> QED BY <1>1, InvariantReading, PTL

=============================================================================
