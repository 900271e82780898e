------------------------------ MODULE Collect -------------------------------
(***************************************************************************)
(* get_commission of the exchanges that answer with a list of records:     *)
(* the period is cut into windows, each window into slices (BitMart asks   *)
(* per currency, WEEX per product type), each slice is read page by page,  *)
(* and every record's amount is added to the result.  Each exchange has    *)
(* its own rule for the last page:                                         *)
(*                                                                         *)
(*   gate, kucoin  a page that is not full                                 *)
(*   weex          a page that is not full, or the last of "pages"         *)
(*   mexc          an empty page, or the last of "totalPage"               *)
(*   bitmart       a page that is not full, or "total" records read        *)
(*   bitget        a page that is not full, or no new cursor               *)
(*                                                                         *)
(* While the pages are read the exchange goes on booking records.  It is   *)
(* external: numbered pages may list the oldest or the newest record       *)
(* first, which no document in the repository says; Bitget's pages list    *)
(* the newest below the cursor.                                            *)
(***************************************************************************)
EXTENDS Windows, FiniteSets

CONSTANTS
  Exchanges,   \* those of the table that are modelled
  PageSize,    \* records per full page (50 or 100 in the code)
  MaxRecords,  \* bound: records the exchange ever books
  Bookings,    \* bound: the days and slices they are booked for
  PageCounts,  \* does the exchange report pages / totalPage / total / endId?
  NewestFirst  \* exchanges whose numbered pages may begin with the newest

ASSUME CollectAssumption ==
  /\ Exchanges \subseteq {"gate", "kucoin", "weex", "mexc", "bitmart", "bitget"}
  /\ PageSize \in Nat \ {0}
  /\ MaxRecords \in Nat
  /\ Bookings \subseteq [day : Days, slice : 1..3]
  /\ PageCounts \subseteq BOOLEAN
  /\ NewestFirst \subseteq Exchanges \ {"bitget"}

VARIABLES
  exchange,   \* whose adapter runs
  counts,     \* the exchange reports page counts
  newest,     \* numbered pages begin with the newest record
  details,    \* the exchange lists records, not only BitMart's sums
  ledger,     \* records booked so far, in order: [day, slice]
  slice,      \* the slice of the window being read, 0 between windows
  page,       \* pages of the slice read so far
  idLess,     \* Bitget's cursor: the next page is below this record
  counted,    \* how often each record's amount is in the result
  owed,       \* observation: records that existed when their slice was begun
  outcome     \* "running", "result" or "error"

server == <<exchange, counts, newest, details>>
vars == <<wvars, server, ledger, slice, page, idLess, counted, owed, outcome>>

Ids == 1..MaxRecords
Currencies == 3      \* BitMart asks for each of BTC, USDT and ETH
ProductTypes == 2    \* WEEX for spot and for futures
Slices ==
  CASE exchange = "bitmart" -> Currencies [] exchange = "weex" -> ProductTypes [] OTHER -> 1
Record == {r \in Bookings : r.slice <= Slices}

TypeOK ==
  /\ WTypeOK
  /\ exchange \in Exchanges /\ counts \in PageCounts /\ newest \in BOOLEAN /\ details \in BOOLEAN
  /\ ledger \in Seq(Record) /\ Len(ledger) <= MaxRecords
  /\ slice \in 0..Slices
  /\ page \in 0..MaxRecords
  /\ idLess \in 1..(MaxRecords + 1)
  /\ owed \subseteq Ids
  /\ counted \in [Ids -> Nat]
  /\ outcome \in {"running", "result", "error"}

Init ==
  /\ WInit /\ from <= to
  /\ exchange \in Exchanges
  /\ counts \in PageCounts /\ (counts \/ exchange \notin {"gate", "kucoin"})
  /\ newest \in (IF exchange \in NewestFirst THEN BOOLEAN ELSE {FALSE})
  /\ details \in (IF exchange = "bitmart" THEN BOOLEAN ELSE {TRUE})
  /\ newest => details     \* a sum has no order
  /\ ledger = <<>>
  /\ slice = 0 /\ page = 0 /\ idLess = MaxRecords + 1
  /\ counted = [i \in Ids |-> 0] /\ owed = {}
  /\ outcome = "running"

-----------------------------------------------------------------------------
(* The exchange.                                                           *)

\* Records booked so far for slice s of window w.
Matching(w, s) ==
  {i \in 1..Len(ledger) : ledger[i].slice = s /\ w.first <= ledger[i].day
                                              /\ ledger[i].day <= w.last}

\* Those of the slice being read, and those of them the exchange lists.
Booked == Matching(windows[Len(windows)], slice)
Listed == IF details THEN Booked ELSE {}

\* Page number p, from 0, of the records in S.
Before(S, i) == {j \in S : IF newest THEN j >= i ELSE j <= i}
NumberedPage(S, p) ==
  {i \in S : Cardinality(Before(S, i)) \in (p * PageSize + 1)..((p + 1) * PageSize)}

\* The newest records in S below the cursor.
CursorPage(S) ==
  LET below == {i \in S : i < idLess}
  IN  {i \in below : Cardinality({j \in below : j >= i}) <= PageSize}

\* The page the next request answers.
Answer == IF exchange = "bitget" THEN CursorPage(Listed) ELSE NumberedPage(Listed, page)

Pages == (Cardinality(Listed) + PageSize - 1) \div PageSize

-----------------------------------------------------------------------------
(* The adapter.                                                            *)

\* Was this the last page?  Each exchange's break condition; a count the
\* exchange does not report defaults to 1 page, or to the records on the page.
Short(got) == Cardinality(got) < PageSize

GateIsDone(got) == Short(got)
KucoinIsDone(got) == Short(got)

WeexPages == IF counts THEN Pages ELSE 1
WeexIsDone(got) == Short(got) \/ page + 1 >= WeexPages

MexcTotalPage == IF counts THEN Pages ELSE 1
MexcIsDone(got) == got = {} \/ page + 1 >= MexcTotalPage

BitmartTotal(got) == IF counts THEN Cardinality(Listed) ELSE Cardinality(got)
BitmartIsDone(got) ==
  Short(got) \/ (BitmartTotal(got) > 0 /\ (page + 1) * PageSize >= BitmartTotal(got))

BitgetEndId(got) == IF counts THEN got ELSE {}     \* {}: no cursor

\* i is the cursor the answer ends with: the lowest record of the page.
BitgetEndsWith(got, i) == i \in BitgetEndId(got) /\ \A j \in got : i <= j

BitgetIsDone(got) ==
  Short(got) \/ BitgetEndId(got) = {} \/ BitgetEndsWith(got, idLess)

LastPage(got) ==
  CASE exchange = "gate" -> GateIsDone(got)
    [] exchange = "kucoin" -> KucoinIsDone(got)
    [] exchange = "weex" -> WeexIsDone(got)
    [] exchange = "mexc" -> MexcIsDone(got)
    [] exchange = "bitmart" -> BitmartIsDone(got)
    [] exchange = "bitget" -> BitgetIsDone(got)

\* add_amount for each record of S.
Times(i, S) == IF i \in S THEN 1 ELSE 0

\* BitMart's sum is added although records were listed (faulty).
FallbackAlways(got) == IF exchange = "bitmart" THEN Booked ELSE {}

\* What BitMart's top-level sum adds once a slice is read: nothing when a
\* record was listed, that is, when page 1 had one.
Fallback(got) == IF exchange = "bitmart" /\ page = 0 /\ got = {} THEN Booked ELSE {}

\* The slices are counted from one too many (faulty).
BeginSliceAfter(s) ==
  /\ slice' = s + 1
  /\ page' = 0 /\ idLess' = MaxRecords + 1

\* Slice s of the current window is asked for from its first page.
BeginSlice(s) ==
  /\ slice' = s
  /\ page' = 0 /\ idLess' = MaxRecords + 1

\* The same page is asked for again (faulty).
PageRepeated(p) == p

\* The page number or the offset of the next request.
PageAfter(p) == p + 1

NextWindow ==
  /\ outcome = "running" /\ slice = 0
  /\ Yield
  /\ BeginSlice(1)
  /\ owed' = owed \cup Matching(windows'[Len(windows')], 1)
  /\ UNCHANGED <<server, ledger, counted, outcome>>

\* A page that is not the last is added and the next one asked for.
ReadPage ==
  /\ outcome = "running" /\ slice # 0
  /\ LET got == Answer IN
       /\ ~LastPage(got)
       /\ counted' = [i \in Ids |-> counted[i] + Times(i, got)]
       /\ page' = PageAfter(page)
       /\ idLess' = IF exchange = "bitget"
                    THEN CHOOSE i \in BitgetEndId(got) : BitgetEndsWith(got, i)
                    ELSE idLess
  /\ UNCHANGED <<wvars, server, ledger, slice, owed, outcome>>

\* The last page of a slice: on to the next slice or out of the window.
ReadLastPage ==
  /\ outcome = "running" /\ slice # 0
  /\ LET got == Answer IN
       /\ LastPage(got)
       /\ counted' = [i \in Ids |-> counted[i] + Times(i, got) + Times(i, Fallback(got))]
  /\ IF slice < Slices
       THEN BeginSlice(slice + 1) /\ owed' = owed \cup Matching(windows[Len(windows)], slice + 1)
       ELSE BeginSlice(0) /\ UNCHANGED owed
  /\ UNCHANGED <<wvars, server, ledger, outcome>>

\* A failing window is skipped (faulty).
FailQuietly ==
  /\ outcome = "running" /\ slice # 0
  /\ BeginSlice(0)
  /\ UNCHANGED <<wvars, server, ledger, counted, owed, outcome>>

\* A request or a record's amount fails: the exception ends get_commission
\* and what was added so far is lost with it.
Fail ==
  /\ outcome = "running" /\ slice # 0
  /\ outcome' = "error"
  /\ UNCHANGED <<wvars, server, ledger, slice, page, idLess, counted, owed>>

\* The loop over the windows is left at their last day (faulty).
FinalizeOnLastDay ==
  /\ outcome = "running" /\ slice = 0 /\ cursor = to
  /\ outcome' = "result"
  /\ UNCHANGED <<wvars, server, ledger, slice, page, idLess, counted, owed>>

\* finalize: all windows are read.
Finalize ==
  /\ outcome = "running" /\ slice = 0 /\ cursor > to
  /\ outcome' = "result"
  /\ UNCHANGED <<wvars, server, ledger, slice, page, idLess, counted, owed>>

\* The exchange books a record, for any day and slice.
Book ==
  /\ outcome = "running" /\ Len(ledger) < MaxRecords
  /\ \E r \in Record : ledger' = Append(ledger, r)
  /\ UNCHANGED <<wvars, server, slice, page, idLess, counted, owed, outcome>>

Adapter == NextWindow \/ ReadPage \/ ReadLastPage \/ Fail \/ Finalize

Next == Adapter \/ Book

Spec == Init /\ [][Next]_vars
FairSpec == Spec /\ WF_vars(Adapter)

-----------------------------------------------------------------------------
(* Properties.                                                             *)

\* No amount is added twice, and none that was not asked for: not at a window
\* boundary, not at a page boundary, not through BitMart's sum, and, as long
\* as a page once read does not change, not because records are booked
\* between two pages.
CountedOnce ==
  \A i \in Ids :
    /\ counted[i] > 0 => i \in 1..Len(ledger) /\ from <= ledger[i].day /\ ledger[i].day <= to
    /\ counted[i] > 1 => newest

\* Where numbered pages list the newest record first, a booking shifts every
\* later page by one record, and the code, which keeps no record of what it
\* has read, adds the amount at the boundary a second time.  Nothing else is:
\* each repetition is paid for by a record that was booked after its slice
\* had been begun.
Repetitions == UNION {{i} \X (2..counted[i]) : i \in Ids}
Late == (1..Len(ledger)) \ owed
RepetitionsExplained == Cardinality(Repetitions) <= Cardinality(Late)

\* The adapter can tell the last page: it stops at no count or cursor, or the
\* exchange reports it.
CanTellLast == counts \/ exchange \in {"gate", "kucoin"}

\* A full page of the record's window and slice has been read.
BehindFullPage(i) ==
  \E n \in Indices :
    LET listing == Matching(windows[n], ledger[i].slice)
    IN  i \in listing /\ Cardinality({j \in listing : counted[j] >= 1}) >= PageSize

\* A result is complete: every record that existed when its part of the
\* period was asked for is in it.  A calculation that fails half-way shows
\* an error, never the part it has.  Without the count or the cursor the
\* adapter stops at, a full page is taken for the last: what is missing then,
\* and only then, comes after a full page of the same window and slice.
ResultIsComplete ==
  outcome = "result" =>
    \A i \in owed : counted[i] >= 1 \/ (~CanTellLast /\ BehindFullPage(i))

\* Days, slices and pages still to be read, as one number: an upper bound of
\* the requests to come.
DaysLeft == to + 1 - cursor
SlicesLeft == IF slice = 0 THEN 0 ELSE Slices + 1 - slice
PartsLeft == DaysLeft * (Slices + 1) + SlicesLeft
Remaining == PartsLeft * (MaxRecords + 1) + (MaxRecords - page)

\* Every step but a booking ends the calculation or brings its end nearer,
\* whatever the exchange books meanwhile: no loop over windows, slices or pages
\* goes round on the spot or is kept going by new records.
Advances ==
  [][outcome' = "running" /\ ledger' = ledger => Remaining' \in 0..(Remaining - 1)]_vars

\* Pages run out: a calculation ends in a result or an error.
Ends == <>(outcome # "running")

=============================================================================
