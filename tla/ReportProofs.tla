---------------------------- MODULE ReportProofs ----------------------------
(***************************************************************************)
(* Report's promises for any adapters, any amounts and any number of rows. *)
(*                                                                         *)
(* What is shown is read off the result after the last row.  IInv ties the *)
(* result's notes, its period, Bybit's flag and MEXC's total to the rows   *)
(* that have passed, Adds the result's sums to the amounts they state.     *)
(* The lemmas on folds stand in for an induction: a smallest part of the   *)
(* set summed over that breaks the law in question cannot exist.           *)
(***************************************************************************)
EXTENDS Report, TLAPS, FiniteSetTheorems, NaturalsInduction, WellFoundedInduction

\* The notes and the period that an adapter's finish leaves.
Annotated ==
  /\ exchange = "okx" => "cumulative" \in notes
  /\ exchange = "demo" => "demo" \in notes
  /\ exchange = "bybit" <=> "rolling" \in notes
  /\ exchange = "bybit" <=> period = "rolling"
  /\ "usdt only" \in notes <=> exchange = "bybit" /\ others

\* A row with an amount in another coin than USDT.
OtherCoin(r) == ~IsUsdt(r.coin) /\ Nonzero(r.amount)

\* others says whether one of Bybit's rows had another coin.
OthersListed ==
  exchange = "bybit" => (others <=> \E i \in 1..Len(rows) : OtherCoin(rows[i]))

\* The row a lost calculation is lost for.
Unreadable(r) ==
  /\ Mine(r) /\ (exchange = "bybit" => IsUsdt(r.coin))
  /\ \/ r.amount.is # "number"
     \/ r.coin = None /\ exchange \in {"gate", "kucoin"}

SomeUnreadable == \E i \in 1..Len(rows) : Unreadable(rows[i])

RaisedForRow == phase = "raised" => SomeUnreadable

\* A total of MEXC that is no number came of a row that has none.
TotalFromRows ==
  exchange = "mexc" /\ total.is # "number" => SomeUnreadable

IInv ==
  /\ TypeOK
  /\ phase = "reading" => notes = {} /\ period = "asked"
  /\ phase \in {"finalized", "shown", "unrendered"} => Annotated
  /\ phase = "shown" => message.notes = notes /\ message.period = period
  /\ OthersListed /\ RaisedForRow /\ TotalFromRows

-----------------------------------------------------------------------------
(* Decimals.                                                               *)

\* A number is a decimal.
LEMMA NumberTyped == ASSUME NEW n \in Int PROVE Number(n) \in Decimal /\ Number(n).is = "number"
BY DEF Number, Decimal

\* What an amount or a decimal is.
LEMMA DecimalKinds ==
  ASSUME NEW a \in Decimal
  PROVE  (a.is = "number" /\ a.n \in Int) \/ a = NaN \/ a = Infinite
BY DEF Decimal, Number

\* What parse_decimal accepts is a decimal.
LEMMA ParsedTyped == ASSUME NEW a \in Amounts, Parses(a) PROVE a \in Decimal
BY ReportAssumption
   DEF Amounts, Parses, Decimal, Number, NaN, Infinite, Garbage, Empty, Missing

\* Sums stay decimals; a sum of numbers is a number.
LEMMA PlusTyped ==
  ASSUME NEW a \in Decimal, NEW b \in Decimal
  PROVE  /\ Plus(a, b) \in Decimal
         /\ Plus(a, b).is # "number" => a.is # "number" \/ b.is # "number"
<1>1. CASE NaN \in {a, b}
  <2>1. NaN \in Decimal BY DEF Decimal
  <2> QED BY <1>1, <2>1 DEF Plus
<1>2. CASE NaN \notin {a, b} /\ ~(a.is = "number" /\ b.is = "number") BY <1>2 DEF Plus
<1>3. CASE NaN \notin {a, b} /\ a.is = "number" /\ b.is = "number"
  <2>1. a.n + b.n \in Int BY <1>3, DecimalKinds DEF Infinite
  <2> QED BY <1>3, <2>1, NumberTyped DEF Plus
<1> QED BY <1>1, <1>2, <1>3

\* Decimals are added in any order,
LEMMA PlusCommutes ==
  ASSUME NEW a \in Decimal, NEW b \in Decimal
  PROVE  Plus(a, b) = Plus(b, a)
BY DEF Plus, Decimal, Number, NaN, Infinite

\* ... three of them too.
LEMMA PlusReorders ==
  ASSUME NEW a \in Decimal, NEW b \in Decimal, NEW c \in Decimal
  PROVE  /\ Plus(a, Plus(b, c)) = Plus(b, Plus(a, c))
         /\ Plus(Plus(a, b), c) = Plus(Plus(a, c), b)
BY DEF Plus, Decimal, Number, NaN, Infinite

\* Zero adds nothing.
LEMMA PlusZero ==
  ASSUME NEW a \in Decimal
  PROVE  Plus(Number(0), a) = a /\ Plus(a, Number(0)) = a
BY DEF Plus, Decimal, Number, NaN, Infinite

\* A sum is infinite only for an infinite term.
LEMMA PlusInfinite ==
  ASSUME NEW a \in Decimal, NEW b \in Decimal, Plus(a, b) = Infinite
  PROVE  a = Infinite \/ b = Infinite
BY DEF Plus, Decimal, Number, NaN, Infinite

\* add_amount keeps the table of totals well typed.
LEMMA AddAmountTyped ==
  ASSUME TypeOK, NEW coin \in Coins, NEW source \in {"spot", None}, NEW a \in Decimal
  PROVE  /\ DOMAIN AddAmount(coin, source, a) \subseteq Keys
         /\ \A k \in DOMAIN AddAmount(coin, source, a) :
              AddAmount(coin, source, a)[k] \in Decimal
<1> DEFINE key == <<coin, source>>
           old == IF key \in DOMAIN totals THEN totals[key] ELSE Number(0)
           new == AddAmount(coin, source, a)
<1>1. key \in Keys BY DEF Keys
<1>2. old \in Decimal BY NumberTyped DEF TypeOK
<1>3. Plus(old, a) \in Decimal BY <1>2, PlusTyped
<1>4. new = [k \in DOMAIN totals \cup {key} |-> IF k = key THEN Plus(old, a) ELSE totals[k]]
  BY DEF AddAmount
<1> HIDE DEF key, old
<1>5. DOMAIN new \subseteq Keys BY <1>1, <1>4 DEF TypeOK
<1>6. \A k \in DOMAIN new : new[k] \in Decimal BY <1>3, <1>4 DEF TypeOK
<1> QED BY <1>5, <1>6

-----------------------------------------------------------------------------
(* A turn of the loop over the rows.                                       *)

\* What a row adds to the observation.
LEMMA ListedAppends ==
  ASSUME TypeOK, NEW r \in Row, Listed(r)
  PROVE  /\ rows' \in Seq(Row) /\ Len(rows') <= MaxRows
         /\ Len(rows) \in Nat /\ Len(rows') = Len(rows) + 1
         /\ \A i \in 1..Len(rows) : rows'[i] = rows[i]
         /\ rows'[Len(rows) + 1] = r
<1>1. /\ rows \in Seq(Row) /\ Len(rows) < MaxRows
      /\ rows' = Append(rows, r)
  BY DEF TypeOK, Listed
<1> QED BY <1>1, ReportAssumption

\* What happened to the rows before the last one still holds of all rows.
LEMMA RowsGrow ==
  ASSUME TypeOK, NEW r \in Row, Listed(r)
  PROVE  /\ SomeUnreadable \/ Unreadable(r) => SomeUnreadable'
         /\ (\E i \in 1..Len(rows') : OtherCoin(rows'[i])) <=>
              (\E i \in 1..Len(rows) : OtherCoin(rows[i])) \/ OtherCoin(r)
<1>1. exchange' = exchange BY DEF Listed
<1>2. \A q : Unreadable(q)' <=> Unreadable(q) BY <1>1 DEF Unreadable, Mine
<1>3. /\ Len(rows) \in Nat /\ Len(rows') = Len(rows) + 1
      /\ \A i \in 1..Len(rows) : rows'[i] = rows[i]
      /\ rows'[Len(rows) + 1] = r
  BY ListedAppends
<1>4. 1..Len(rows') = 1..Len(rows) \cup {Len(rows) + 1} BY <1>3
<1>5. SomeUnreadable \/ Unreadable(r) => SomeUnreadable' BY <1>2, <1>3, <1>4 DEF SomeUnreadable
<1>6. (\E i \in 1..Len(rows') : OtherCoin(rows'[i])) <=>
        (\E i \in 1..Len(rows) : OtherCoin(rows[i])) \/ OtherCoin(r)
  BY <1>3, <1>4
<1> QED BY <1>5, <1>6

\* A turn adds the amount, passes the row over, or raises for a reason.
LEMMA TurnTyped ==
  ASSUME TypeOK, NEW r \in Row, AdapterRow(r)
  PROVE  /\ Listed(r)
         /\ DOMAIN totals' \subseteq Keys /\ \A k \in DOMAIN totals' : totals'[k] \in Decimal
         /\ total' \in Decimal
         /\ exchange = "mexc" =>
              (total'.is # "number" => total.is # "number" \/ Unreadable(r))
         /\ phase' # "reading" => phase' = "raised" /\ Unreadable(r)
         /\ exchange = "bybit" => (others' <=> others \/ OtherCoin(r))
         /\ others' \in BOOLEAN
<1>1. /\ r.coin \in Coins \cup {None} /\ r.source \in {"spot", None}
      /\ r.uid \in {"own", "other", None} /\ r.amount \in Amounts
      /\ r.asked \in {"USDT", "BTC"}
  BY DEF Row
<1>2. phase = "reading" /\ Listable(r) /\ Listed(r)
  BY DEF AdapterRow, GateRow, KucoinRow, BitgetRow, WeexRow, BitmartRow, MexcRow, OkxRow,
         BybitRow, Listed
<1>3. r.uid # "own" => exchange \in {"mexc", "bitmart"} BY <1>2 DEF Listable
<1>4. /\ total \in Decimal /\ others \in BOOLEAN
      /\ DOMAIN totals \subseteq Keys /\ \A k \in DOMAIN totals : totals[k] \in Decimal
  BY DEF TypeOK
<1> DEFINE Typed == /\ DOMAIN totals' \subseteq Keys
                    /\ \A k \in DOMAIN totals' : totals'[k] \in Decimal
<1>5. ASSUME NEW coin \in Coins, NEW source \in {"spot", None}, NEW a \in Decimal,
             Add(coin, source, a)
      PROVE  Typed /\ UNCHANGED <<total, others, phase>>
  BY <1>5, AddAmountTyped DEF Add
<1>6. Parses(r.amount) => r.amount \in Decimal BY <1>1, ParsedTyped
<1>7. ~Parses(r.amount) => r.amount.is # "number" BY DEF Parses
<1>8. CASE GateRow(r)
  BY <1>1, <1>2, <1>3, <1>4, <1>5, <1>6, <1>7, <1>8
     DEF GateRow, Raise, Unreadable, Mine, None, Coins
<1>9. CASE KucoinRow(r)
  BY <1>1, <1>2, <1>3, <1>4, <1>5, <1>6, <1>7, <1>9
     DEF KucoinRow, Raise, Unreadable, Mine, None, Coins
<1>10. CASE BitgetRow(r) \/ WeexRow(r)
  BY <1>1, <1>2, <1>3, <1>4, <1>5, <1>6, <1>10
     DEF BitgetRow, WeexRow, CoinRow, Skip, Raise, Unreadable, Mine, None, Coins, Garbage
<1>11. CASE BitmartRow(r)
  <2>1. BitmartCoin(r) \in Coins BY <1>1 DEF BitmartCoin, Coins, None, Upper
  <2> QED BY <1>1, <1>2, <1>4, <1>5, <1>6, <1>11, <2>1
          DEF BitmartRow, BitmartOwn, Skip, Raise, Unreadable, Mine, None, Garbage
<1>12. CASE MexcRow(r)
  <2> DEFINE a == MexcAmount(r)
  <2>1. Parses(a) => a \in Decimal BY <1>6, NumberTyped DEF MexcAmount
  <2>2. a.is # "number" => r.amount.is # "number"
    BY NumberTyped DEF MexcAmount, Missing, Number
  <2>3. Parses(a) => Plus(total, a) \in Decimal
                     /\ (Plus(total, a).is # "number" =>
                           total.is # "number" \/ r.amount.is # "number")
    BY <1>4, <2>1, <2>2, PlusTyped
  <2>4. ~Parses(a) => r.amount.is # "number" BY <2>2 DEF Parses
  <2>5. MexcOwn(r) => Mine(r) BY DEF MexcOwn, Mine
  <2>6. exchange = "mexc" BY <1>12 DEF MexcRow
  <2> HIDE DEF a
  <2> QED BY <1>2, <1>4, <1>12, <2>3, <2>4, <2>5, <2>6
          DEF MexcRow, Skip, Raise, Unreadable, a
<1>13. CASE OkxRow(r)
  BY <1>1, <1>2, <1>3, <1>4, <1>5, <1>6, <1>13
     DEF OkxRow, Skip, Raise, Unreadable, Mine, None, Coins, Garbage
<1>14. CASE BybitRow(r)
  <2>1. Parses(r.amount) => Plus(total, r.amount) \in Decimal BY <1>4, <1>6, PlusTyped
  <2>2. exchange = "bybit" /\ Mine(r) BY <1>3, <1>14 DEF BybitRow, Mine
  <2>3. CASE IsUsdt(r.coin)
    BY <1>2, <1>4, <1>14, <2>1, <2>2, <2>3
       DEF BybitRow, Skip, Raise, Unreadable, OtherCoin, Garbage
  <2>4. CASE ~IsUsdt(r.coin)
    BY <1>2, <1>4, <1>14, <2>2, <2>4 DEF BybitRow, OthersAfter, OtherCoin
  <2> QED BY <2>3, <2>4
<1> QED BY <1>2, <1>8, <1>9, <1>10, <1>11, <1>12, <1>13, <1>14 DEF AdapterRow

\* Whatever a row holds, it changes what the invariant says it may.
LEMMA RowKeepsIInv == ASSUME IInv, NEW r \in Row, AdapterRow(r) PROVE IInv'
<1>1. TypeOK BY DEF IInv
<1>2. /\ Listed(r)
      /\ DOMAIN totals' \subseteq Keys /\ \A k \in DOMAIN totals' : totals'[k] \in Decimal
      /\ total' \in Decimal
      /\ exchange = "mexc" =>
           (total'.is # "number" => total.is # "number" \/ Unreadable(r))
      /\ phase' # "reading" => phase' = "raised" /\ Unreadable(r)
      /\ exchange = "bybit" => (others' <=> others \/ OtherCoin(r))
      /\ others' \in BOOLEAN
  BY <1>1, TurnTyped
<1>3. phase = "reading" /\ UNCHANGED <<exchange, notes, period, message>>
  BY <1>2 DEF Listed
<1>4. rows' \in Seq(Row) /\ Len(rows') <= MaxRows BY <1>1, <1>2, ListedAppends
<1>5. phase' \in {"reading", "raised"} BY <1>2
<1>6. TypeOK' BY <1>1, <1>2, <1>3, <1>4, <1>5 DEF TypeOK, Phases
<1>7. OthersListed' BY <1>1, <1>2, <1>3, RowsGrow DEF IInv, OthersListed
<1>8. RaisedForRow' BY <1>1, <1>2, <1>3, RowsGrow DEF RaisedForRow
<1>9. TotalFromRows' BY <1>1, <1>2, <1>3, RowsGrow DEF IInv, TotalFromRows
<1> QED BY <1>3, <1>5, <1>6, <1>7, <1>8, <1>9 DEF IInv

-----------------------------------------------------------------------------
(* The end of a calculation.                                               *)

\* A calculation's notes and totals once the adapter is done.
LEMMA FinishTyped ==
  ASSUME IInv, Finish
  PROVE  /\ UNCHANGED <<exchange, rows, total, others, message>>
         /\ DOMAIN totals' \subseteq Keys /\ \A k \in DOMAIN totals' : totals'[k] \in Decimal
         /\ notes' \subseteq Notes /\ period' \in {"asked", "rolling"}
         /\ \/ phase' = "finalized" /\ Annotated'
            \/ phase' = "raised" /\ SomeUnreadable
<1>1. TypeOK /\ TotalFromRows BY DEF IInv
<1>2. /\ total \in Decimal /\ others \in BOOLEAN
      /\ DOMAIN totals \subseteq Keys /\ \A k \in DOMAIN totals : totals[k] \in Decimal
  BY <1>1 DEF TypeOK
<1>3. notes = {} /\ period = "asked"
  BY DEF IInv, Finish, PlainFinish, MexcFinish, OkxFinish, BybitFinish, DemoFinish
<1>4. LET new == AddAmount("USDT", None, total) IN
        DOMAIN new \subseteq Keys /\ \A k \in DOMAIN new : new[k] \in Decimal
  BY <1>1, <1>2, AddAmountTyped DEF Coins
<1>5. CASE PlainFinish
  BY <1>2, <1>3, <1>5 DEF PlainFinish, Finalize, Annotated, Notes
<1>6. CASE MexcFinish
  <2>1. CASE total # NaN
    BY <1>2, <1>3, <1>4, <1>6, <2>1 DEF MexcFinish, Finalize, Annotated, Notes, Raise
  <2>2. CASE total = NaN
    BY <1>1, <1>2, <1>3, <1>6, <2>2 DEF MexcFinish, Raise, TotalFromRows, NaN, Notes
  <2> QED BY <2>1, <2>2
<1>7. CASE OkxFinish
  BY <1>2, <1>3, <1>7 DEF OkxFinish, Finalize, Annotated, Notes
<1>8. CASE BybitFinish
  BY <1>2, <1>3, <1>4, <1>8 DEF BybitFinish, Finalize, Annotated, Notes
<1>9. CASE DemoFinish
  <2>1. PICK n \in Numbers :
          totals' = [k \in {"USDT", "BTC"} \X {None} |-> Number(IF k[1] = "USDT" THEN 10 * n ELSE n)]
    BY <1>9 DEF DemoFinish
  <2>2. n \in Int /\ 10 * n \in Int BY ReportAssumption
  <2>3. DOMAIN totals' \subseteq Keys BY <2>1 DEF Keys, Coins
  <2>4. \A k \in DOMAIN totals' : totals'[k] \in Decimal BY <2>1, <2>2, NumberTyped
  <2> QED BY <1>3, <1>9, <2>3, <2>4 DEF DemoFinish, Finalize, Annotated, Notes
<1> QED BY <1>5, <1>6, <1>7, <1>8, <1>9 DEF Finish

\* An adapter's finish sets the notes and the period of its exchange.
LEMMA FinishKeepsIInv == ASSUME IInv, Finish PROVE IInv'
<1>1. /\ UNCHANGED <<exchange, rows, total, others, message>>
      /\ DOMAIN totals' \subseteq Keys /\ \A k \in DOMAIN totals' : totals'[k] \in Decimal
      /\ notes' \subseteq Notes /\ period' \in {"asked", "rolling"}
      /\ \/ phase' = "finalized" /\ Annotated'
         \/ phase' = "raised" /\ SomeUnreadable
  BY FinishTyped
<1>2. phase = "reading"
  BY DEF Finish, PlainFinish, MexcFinish, OkxFinish, BybitFinish, DemoFinish
<1>3. TypeOK' BY <1>1, <1>2 DEF IInv, TypeOK, Phases
<1>4. SomeUnreadable' = SomeUnreadable BY <1>1 DEF SomeUnreadable, Unreadable, Mine
<1>5. OthersListed' BY <1>1 DEF IInv, OthersListed
<1>6. RaisedForRow' BY <1>1, <1>4 DEF RaisedForRow
<1>7. TotalFromRows' BY <1>1, <1>4 DEF IInv, TotalFromRows
<1> QED BY <1>1, <1>3, <1>5, <1>6, <1>7 DEF IInv

\* Rendering leaves the result alone.
LEMMA RenderKeepsIInv == ASSUME IInv, Render PROVE IInv'
<1>1. /\ phase = "finalized" /\ message = NoMessage
      /\ UNCHANGED <<exchange, rows, totals, total, others, notes, period>>
      /\ \/ phase' = "unrendered" /\ message' = message
         \/ phase' = "shown" /\ message'.notes = notes /\ message'.period = period
  BY DEF IInv, TypeOK, Render
<1>2. message'.period = period => message' # NoMessage BY DEF IInv, TypeOK, NoMessage
<1>3. TypeOK' BY <1>1, <1>2 DEF IInv, TypeOK, Phases
<1>4. Annotated' BY <1>1 DEF IInv, Annotated
<1>5. OthersListed' BY <1>1 DEF IInv, OthersListed
<1>6. RaisedForRow' BY <1>1 DEF RaisedForRow
<1>7. TotalFromRows' BY <1>1 DEF IInv, TotalFromRows, SomeUnreadable, Unreadable, Mine
<1> QED BY <1>1, <1>3, <1>4, <1>5, <1>6, <1>7 DEF IInv

-----------------------------------------------------------------------------
(* The invariant and the theorems.                                         *)

\* No row has been read.
LEMMA InitIInv == Init => IInv
<1> SUFFICES ASSUME Init PROVE IInv OBVIOUS
<1>1. rows \in Seq(Row) /\ Len(rows) = 0 /\ DOMAIN totals = {} BY DEF Init
<1>2. total \in Decimal /\ total.is = "number" BY NumberTyped DEF Init
<1>3. Len(rows) <= MaxRows BY <1>1, ReportAssumption
<1>4. phase = "shown" <=> message # NoMessage BY DEF Init
<1>5. TypeOK BY <1>1, <1>2, <1>3, <1>4 DEF Init, TypeOK, Phases
<1> QED BY <1>1, <1>2, <1>5
       DEF Init, IInv, OthersListed, RaisedForRow, TotalFromRows

\* Each step keeps the invariant.
LEMMA StepIInv == IInv /\ [Next]_vars => IInv'
<1> SUFFICES ASSUME IInv, [Next]_vars PROVE IInv' OBVIOUS
<1>1. CASE Refuse
  BY <1>1 DEF Refuse, IInv, TypeOK, Phases, OthersListed, RaisedForRow, TotalFromRows,
              SomeUnreadable, Unreadable, Mine
<1>2. CASE UNCHANGED vars
  BY <1>2 DEF vars, IInv, TypeOK, Annotated, OthersListed, RaisedForRow, TotalFromRows,
              SomeUnreadable, Unreadable, Mine
<1> QED BY <1>1, <1>2, RowKeepsIInv, FinishKeepsIInv, RenderKeepsIInv DEF Next

\* The invariant holds all the way.
LEMMA InvariantIInv == Spec => []IInv
BY InitIInv, StepIInv, PTL DEF Spec

\* For any adapters, amounts and number of rows the result keeps its types:
\* every total is a decimal, and a message is there exactly if one was shown.
THEOREM ReportTypeOK == Spec => []TypeOK
<1>1. IInv => TypeOK BY DEF IInv
<1> QED BY <1>1, InvariantIInv, PTL

\* No figure that is not the sum for the period is shown without its caveat,
\* and Bybit's remark on other coins is there exactly if a row had one.
THEOREM ReportCaveatsShown == Spec => []CaveatsShown
<1>1. ASSUME IInv PROVE CaveatsShown
  <2>1. \A i \in 1..Len(rows) : OtherCoin(rows[i]) <=> ~IsUsdt(rows[i].coin) /\ Nonzero(rows[i].amount)
    BY DEF OtherCoin
  <2> QED BY <1>1, <2>1 DEF IInv, Annotated, OthersListed, CaveatsShown
<1> QED BY <1>1, InvariantIInv, PTL

-----------------------------------------------------------------------------
(* Folds.  A fold of f over the parts of D takes the terms out one by one, *)
(* in the order of AnyOf.                                                  *)

FoldsTo(g, f, D) ==
  g = [s \in SUBSET D |-> IF s = {} THEN Number(0)
                          ELSE Plus(f[AnyOf(s)], g[s \ {AnyOf(s)}])]

\* A set of numbers has a least one.
LEMMA LeastExists ==
  ASSUME NEW S \in SUBSET Nat, S # {}
  PROVE  \E i \in S : \A j \in S : i <= j
<1>1. PICK i \in S : \A j \in S : <<j, i>> \notin OpToRel(<, Nat)
  BY NatLessThanWellFounded, WFMin
<1>2. \A j \in S : ~(j < i) BY <1>1 DEF OpToRel
<1> QED BY <1>2

\* SumOf reads the fold of all its terms.
LEMMA SumUnfolds ==
  ASSUME NEW f
  PROVE SumOf(f) = (CHOOSE g : FoldsTo(g, f, DOMAIN f))[DOMAIN f]
BY DEF SumOf, MapThenFoldSet, FoldsTo

\* Parts of a finite set.
LEMMA Parts ==
  ASSUME NEW D, IsFiniteSet(D), NEW s \in SUBSET D
  PROVE  /\ IsFiniteSet(s) /\ Cardinality(s) \in Nat
         /\ Cardinality(s) = 0 <=> s = {}
         /\ Cardinality(s) <= Cardinality(D)
         /\ s # {} => AnyOf(s) \in s
         /\ \A x \in s : Cardinality(s \ {x}) = Cardinality(s) - 1
<1>1. IsFiniteSet(s) /\ Cardinality(s) <= Cardinality(D) BY FS_Subset
<1>2. Cardinality(s) \in Nat BY <1>1, FS_CardinalityType
<1>3. Cardinality(s) = 0 <=> s = {} BY <1>1, FS_EmptySet
<1>4. s # {} => AnyOf(s) \in s BY DEF AnyOf
<1>5. \A x \in s : Cardinality(s \ {x}) = Cardinality(s) - 1 BY <1>1, FS_RemoveElement
<1> QED BY <1>1, <1>2, <1>3, <1>4, <1>5

\* There is such a fold: it is defined for parts of one term more, and more.
LEMMA FoldExists ==
  ASSUME NEW D, IsFiniteSet(D), NEW f
  PROVE  \E g : FoldsTo(g, f, D)
<1> DEFINE Small(n) == {s \in SUBSET D : Cardinality(s) <= n}
           Turn(g, s) == IF s = {} THEN Number(0) ELSE Plus(f[AnyOf(s)], g[s \ {AnyOf(s)}])
           Defined(n) == \E g : g = [s \in Small(n) |-> Turn(g, s)]
           Bad == {n \in Nat : ~Defined(n)}
<1>1. ASSUME NEW n \in Nat, n = 0 \/ Defined(n - 1) PROVE Defined(n)
  <2>1. PICK g : n = 0 \/ g = [s \in Small(n - 1) |-> Turn(g, s)] BY <1>1
  <2> DEFINE h == [s \in Small(n) |-> Turn(g, s)]
  <2>2. ASSUME NEW s \in Small(n) PROVE Turn(h, s) = Turn(g, s)
    <3>1. CASE s = {} BY <3>1
    <3>2. CASE s # {}
      <4> DEFINE rest == s \ {AnyOf(s)}
      <4>1. /\ Cardinality(s) \in Nat /\ Cardinality(s) # 0 /\ Cardinality(s) <= n
            /\ Cardinality(rest) = Cardinality(s) - 1
        BY <3>2, Parts
      <4>2. n # 0 /\ rest \in Small(n - 1) /\ rest \in Small(n) BY <4>1
      <4>3. h[rest] = Turn(g, rest) BY <4>2
      <4>4. g[rest] = Turn(g, rest) BY <2>1, <4>2
      <4> QED BY <3>2, <4>3, <4>4
    <3> QED BY <3>1, <3>2
  <2>3. h = [s \in Small(n) |-> Turn(h, s)] BY <2>2
  <2> QED BY <2>3
<1> HIDE DEF Defined
<1>2. Bad = {}
  <2> SUFFICES ASSUME Bad # {} PROVE FALSE OBVIOUS
  <2>1. PICK n \in Bad : \A m \in Bad : n <= m BY LeastExists
  <2>2. n = 0 \/ Defined(n - 1)
    <3>1. CASE n # 0
      <4>1. n - 1 \in Nat /\ ~(n <= n - 1) BY <3>1
      <4> QED BY <2>1, <4>1
    <3> QED BY <3>1
  <2> QED BY <1>1, <2>1, <2>2
<1>3. Cardinality(D) \in Nat /\ Small(Cardinality(D)) = SUBSET D
  <2>1. D \in SUBSET D OBVIOUS
  <2> QED BY <2>1, Parts
<1>4. Defined(Cardinality(D)) BY <1>2, <1>3
<1> QED BY <1>3, <1>4 DEF FoldsTo, Defined

\* Among parts of a finite set there is a smallest one.
LEMMA SmallestPart ==
  ASSUME NEW D, IsFiniteSet(D), NEW B \in SUBSET SUBSET D, B # {}
  PROVE  \E s \in B : \A t \in B : Cardinality(s) <= Cardinality(t)
<1> DEFINE Sizes == {Cardinality(s) : s \in B}
<1>1. Sizes \in SUBSET Nat /\ Sizes # {} BY Parts
<1>2. PICK n \in Sizes : \A m \in Sizes : n <= m BY <1>1, LeastExists
<1>3. PICK s \in B : Cardinality(s) = n OBVIOUS
<1> QED BY <1>2, <1>3

\* The steps of a fold.
LEMMA FoldSteps ==
  ASSUME NEW D, NEW f, NEW g, FoldsTo(g, f, D)
  PROVE  /\ g[{}] = Number(0)
         /\ \A s \in SUBSET D : s # {} => g[s] = Plus(f[AnyOf(s)], g[s \ {AnyOf(s)}])
<1>1. {} \in SUBSET D OBVIOUS
<1> QED BY <1>1 DEF FoldsTo

\* A sum of decimals is one, and any term may be taken out of it first.
LEMMA FoldTakesOut ==
  ASSUME NEW D, IsFiniteSet(D), NEW f, NEW g, FoldsTo(g, f, D),
         \A x \in D : f[x] \in Decimal
  PROVE  \A s \in SUBSET D :
           g[s] \in Decimal /\ \A x \in s : g[s] = Plus(f[x], g[s \ {x}])
<1> DEFINE Good(s) == g[s] \in Decimal /\ \A x \in s : g[s] = Plus(f[x], g[s \ {x}])
           Bad == {s \in SUBSET D : ~Good(s)}
<1> SUFFICES ASSUME Bad # {} PROVE FALSE OBVIOUS
<1>1. PICK s \in Bad : \A t \in Bad : Cardinality(s) <= Cardinality(t) BY SmallestPart
<1>2. s # {}
  <2> SUFFICES ASSUME s = {} PROVE FALSE OBVIOUS
  <2>1. g[s] = Number(0) BY FoldSteps
  <2>2. Good(s) BY <2>1 DEF Decimal, Number
  <2> QED BY <1>1, <2>2
<1> DEFINE y == AnyOf(s)
<1>3. s \in SUBSET D /\ y \in s /\ g[s] = Plus(f[y], g[s \ {y}]) BY <1>2, Parts, FoldSteps
<1> HIDE DEF y
<1>4. ASSUME NEW x \in s PROVE Good(s \ {x})
  <2>1. Cardinality(s) \in Nat /\ Cardinality(s \ {x}) = Cardinality(s) - 1 BY <1>3, Parts
  <2>2. ~(Cardinality(s) <= Cardinality(s \ {x})) BY <2>1
  <2>3. s \ {x} \in SUBSET D BY <1>3
  <2> QED BY <1>1, <2>2, <2>3
<1>5. g[s] \in Decimal
  <2>1. g[s \ {y}] \in Decimal /\ f[y] \in Decimal BY <1>3, <1>4
  <2> QED BY <1>3, <2>1, PlusTyped
<1>6. ASSUME NEW x \in s, x # y PROVE g[s] = Plus(f[x], g[s \ {x}])
  <2> DEFINE rest == g[(s \ {x}) \ {y}]
  <2>1. (s \ {y}) \ {x} = (s \ {x}) \ {y} OBVIOUS
  <2>2. x \in s \ {y} /\ y \in s \ {x} BY <1>3, <1>6
  <2>3. g[s \ {y}] = Plus(f[x], rest) BY <1>3, <1>4, <2>1, <2>2
  <2>4. g[s \ {x}] = Plus(f[y], rest) BY <1>4, <2>2
  <2>5. rest \in Decimal
    <3>1. Cardinality(s \ {x}) = Cardinality(s) - 1
          /\ Cardinality((s \ {x}) \ {y}) = Cardinality(s \ {x}) - 1
          /\ Cardinality(s) \in Nat
      <4>1. s \ {x} \in SUBSET D BY <1>3
      <4> QED BY <1>3, <2>2, <4>1, Parts
    <3>2. ~(Cardinality(s) <= Cardinality((s \ {x}) \ {y})) BY <3>1
    <3>3. (s \ {x}) \ {y} \in SUBSET D BY <1>3
    <3>4. Good((s \ {x}) \ {y}) BY <1>1, <3>2, <3>3
    <3> QED BY <3>4
  <2>6. f[x] \in Decimal /\ f[y] \in Decimal BY <1>3
  <2> HIDE DEF rest
  <2>7. Plus(f[y], Plus(f[x], rest)) = Plus(f[x], Plus(f[y], rest))
    BY <2>5, <2>6, PlusReorders, Zenon
  <2> QED BY <1>3, <2>3, <2>4, <2>7
<1>7. Good(s) BY <1>3, <1>5, <1>6
<1> QED BY <1>1, <1>7

\* Two folds agree where their terms do.
LEMMA FoldsAgree ==
  ASSUME NEW D, IsFiniteSet(D), NEW f, NEW g, FoldsTo(g, f, D),
         NEW E, NEW e, NEW h, FoldsTo(h, e, E), D \subseteq E,
         \A x \in D : e[x] = f[x]
  PROVE  \A s \in SUBSET D : h[s] = g[s]
<1> DEFINE Bad == {s \in SUBSET D : h[s] # g[s]}
<1> SUFFICES ASSUME Bad # {} PROVE FALSE OBVIOUS
<1>1. PICK s \in Bad : \A t \in Bad : Cardinality(s) <= Cardinality(t) BY SmallestPart
<1>2. s # {} BY <1>1, FoldSteps
<1> DEFINE y == AnyOf(s)
<1>3. /\ s \in SUBSET D /\ s \in SUBSET E /\ y \in s
      /\ g[s] = Plus(f[y], g[s \ {y}]) /\ h[s] = Plus(e[y], h[s \ {y}])
  <2>1. s \in SUBSET D /\ s \in SUBSET E OBVIOUS
  <2> QED BY <1>2, <2>1, Parts, FoldSteps
<1> HIDE DEF y
<1>4. Cardinality(s) \in Nat /\ Cardinality(s \ {y}) = Cardinality(s) - 1 BY <1>3, Parts
<1>5. ~(Cardinality(s) <= Cardinality(s \ {y})) BY <1>4
<1>6. h[s \ {y}] = g[s \ {y}] BY <1>1, <1>3, <1>5
<1> QED BY <1>1, <1>3, <1>6

-----------------------------------------------------------------------------
(* Sums.                                                                   *)

\* SumOf is a fold.
LEMMA SumFolds ==
  ASSUME NEW f, IsFiniteSet(DOMAIN f)
  PROVE  \E g : FoldsTo(g, f, DOMAIN f) /\ SumOf(f) = g[DOMAIN f]
BY SumUnfolds, FoldExists

\* Nothing sums up to zero.
LEMMA SumOfNothing ==
  ASSUME NEW f, DOMAIN f = {} PROVE SumOf(f) = Number(0)
<1>1. IsFiniteSet(DOMAIN f) BY FS_EmptySet
<1> QED BY <1>1, SumFolds, FoldSteps

\* A sum of decimals is a decimal.
LEMMA SumTyped ==
  ASSUME NEW f, IsFiniteSet(DOMAIN f), \A x \in DOMAIN f : f[x] \in Decimal
  PROVE  SumOf(f) \in Decimal
BY SumFolds, FoldTakesOut

\* A term more.
LEMMA SumWithMore ==
  ASSUME NEW f, IsFiniteSet(DOMAIN f), \A x \in DOMAIN f : f[x] \in Decimal,
         NEW h, NEW x, x \notin DOMAIN f, DOMAIN h = DOMAIN f \cup {x},
         \A y \in DOMAIN f : h[y] = f[y], h[x] \in Decimal
  PROVE  SumOf(h) = Plus(SumOf(f), h[x])
<1>1. IsFiniteSet(DOMAIN h) BY FS_AddElement
<1>2. PICK g : FoldsTo(g, f, DOMAIN f) /\ SumOf(f) = g[DOMAIN f] BY SumFolds
<1>3. PICK k : FoldsTo(k, h, DOMAIN h) /\ SumOf(h) = k[DOMAIN h] BY <1>1, SumFolds
<1>4. DOMAIN f \in SUBSET DOMAIN h /\ DOMAIN h \in SUBSET DOMAIN h
      /\ DOMAIN h \ {x} = DOMAIN f /\ DOMAIN f \in SUBSET DOMAIN f
  OBVIOUS
<1>5. k[DOMAIN f] = g[DOMAIN f] BY <1>2, <1>3, <1>4, FoldsAgree
<1>6. k[DOMAIN h] = Plus(h[x], k[DOMAIN f])
  <2>1. \A y \in DOMAIN h : h[y] \in Decimal OBVIOUS
  <2> QED BY <1>1, <1>3, <1>4, <2>1, FoldTakesOut
<1>7. SumOf(f) \in Decimal BY SumTyped
<1> QED BY <1>2, <1>3, <1>5, <1>6, <1>7, PlusCommutes

\* A term that has grown.
LEMMA SumWithGrown ==
  ASSUME NEW f, IsFiniteSet(DOMAIN f), \A x \in DOMAIN f : f[x] \in Decimal,
         NEW h, NEW x \in DOMAIN f, DOMAIN h = DOMAIN f, NEW a \in Decimal,
         \A y \in DOMAIN f : y # x => h[y] = f[y],
         h[x] = Plus(f[x], a)
  PROVE  SumOf(h) = Plus(SumOf(f), a)
<1>1. PICK g : FoldsTo(g, f, DOMAIN f) /\ SumOf(f) = g[DOMAIN f] BY SumFolds
<1>2. PICK k : FoldsTo(k, h, DOMAIN h) /\ SumOf(h) = k[DOMAIN h] BY SumFolds
<1> DEFINE R == DOMAIN f \ {x}
           fr == [y \in R |-> f[y]]
<1>3. \A y \in DOMAIN h : h[y] \in Decimal BY PlusTyped
<1>4. g[DOMAIN f] = Plus(f[x], g[R]) /\ g[R] \in Decimal BY <1>1, FoldTakesOut
<1>5. k[DOMAIN f] = Plus(h[x], k[R]) BY <1>2, <1>3, FoldTakesOut
<1>6. k[R] = g[R]
  <2>1. IsFiniteSet(R) /\ DOMAIN fr = R /\ R \in SUBSET R BY FS_Subset
  <2>2. PICK r : FoldsTo(r, fr, R) BY <2>1, FoldExists
  <2>3. g[R] = r[R] BY <1>1, <2>1, <2>2, FoldsAgree
  <2>4. k[R] = r[R] BY <1>2, <2>1, <2>2, FoldsAgree
  <2> QED BY <2>3, <2>4
<1> HIDE DEF R
<1>7. Plus(Plus(f[x], a), g[R]) = Plus(Plus(f[x], g[R]), a)
  <2>1. f[x] \in Decimal OBVIOUS
  <2> QED BY <1>4, <2>1, PlusReorders, Zenon
<1> QED BY <1>1, <1>2, <1>4, <1>5, <1>6, <1>7

\* An infinite sum has an infinite term.
LEMMA SumInfinite ==
  ASSUME NEW f, IsFiniteSet(DOMAIN f), \A x \in DOMAIN f : f[x] \in Decimal,
         SumOf(f) = Infinite
  PROVE  \E x \in DOMAIN f : f[x] = Infinite
<1> DEFINE D == DOMAIN f
<1> SUFFICES ASSUME \A x \in D : f[x] # Infinite PROVE FALSE OBVIOUS
<1>1. PICK g : FoldsTo(g, f, D) /\ SumOf(f) = g[D] BY SumFolds
<1> DEFINE Bad == {s \in SUBSET D : g[s] = Infinite}
<1>2. D \in Bad BY <1>1
<1>3. PICK s \in Bad : \A t \in Bad : Cardinality(s) <= Cardinality(t)
  BY <1>2, SmallestPart
<1>4. g[{}] = Number(0) /\ Number(0) # Infinite BY <1>1, FoldSteps DEF Number, Infinite
<1>5. PICK x \in s : TRUE BY <1>3, <1>4
<1>6. s \in SUBSET D /\ s \ {x} \in SUBSET D OBVIOUS
<1>7. g[s] = Plus(f[x], g[s \ {x}]) /\ g[s \ {x}] \in Decimal /\ f[x] \in Decimal
  BY <1>1, <1>5, <1>6, FoldTakesOut
<1>8. g[s \ {x}] = Infinite BY <1>3, <1>5, <1>6, <1>7, PlusInfinite
<1>9. Cardinality(s) \in Nat /\ Cardinality(s \ {x}) = Cardinality(s) - 1
  BY <1>5, <1>6, Parts
<1>10. Cardinality(s) <= Cardinality(s \ {x}) BY <1>3, <1>6, <1>8
<1> QED BY <1>9, <1>10

-----------------------------------------------------------------------------
(* What is shown adds up.                                                  *)

\* The sum of the amounts stated in a coin, and of the result's lines for it.
SumStated(c) == SumOf([i \in Stated(c) |-> rows[i].amount])

Lines(c) == {k \in DOMAIN totals : Upper(k[1]) = c}
SumLines(c) == SumOf([k \in Lines(c) |-> totals[k]])

ShownCoins == {"USDT", "BTC"}

\* The amounts in c are to be summed up.
Counts(c) == exchange # "demo" /\ (exchange = "bybit" => c = "USDT")

\* The adapters that keep one total until all rows are read.
KeepsOneTotal == exchange \in {"mexc", "bybit"}

\* Every amount stated is a decimal.
Readable(c) == \A i \in Stated(c) : rows[i].amount \in Decimal

\* While rows are read, what was added is what was stated.
AddsUpSoFar ==
  phase = "reading" =>
    /\ KeepsOneTotal => totals = <<>> /\ total = SumStated("USDT")
    /\ exchange = "mexc" => Stated("BTC") = {}
    /\ ~KeepsOneTotal => \A c \in ShownCoins : Counts(c) => SumLines(c) = SumStated(c)

\* The result's lines add up to what was stated; a coin without a line had
\* nothing to show or, at MEXC, a negative sum.
LinesAddUp ==
  \A c \in ShownCoins : Counts(c) =>
    IF Lines(c) # {} THEN SumLines(c) = SumStated(c)
    ELSE \/ SumStated(c) = Number(0)
         \/ exchange = "mexc" /\ SumStated(c).is = "number" /\ SumStated(c).n < 0

Adds ==
  /\ phase \in {"reading", "finalized", "shown", "unrendered"} =>
       \A c \in ShownCoins : Counts(c) => Readable(c)
  /\ AddsUpSoFar
  /\ phase \in {"finalized", "shown", "unrendered"} =>
       LinesAddUp /\ (exchange = "demo" => \A k \in DOMAIN totals : totals[k] # Infinite)
  /\ phase = "shown" =>
       /\ message.amounts = [c \in DOMAIN AssetTotals |-> Text(c, AssetTotals[c])]
       /\ Lines("USDT") # {} => SumLines("USDT") # Infinite
  /\ phase = "unrendered" => Lines("USDT") # {} /\ SumLines("USDT") = Infinite

\* asset_totals gives the sum of each coin's lines.
LEMMA AssetTotalsOf ==
  \A c : /\ c \in DOMAIN AssetTotals <=> Lines(c) # {}
         /\ Lines(c) # {} => AssetTotals[c] = SumLines(c)
<1> DEFINE D == {Upper(k[1]) : k \in DOMAIN totals}
<1>1. AssetTotals = [c \in D |-> SumLines(c)] BY DEF AssetTotals, SumLines, Lines
<1>2. \A c : c \in D <=> Lines(c) # {} BY DEF Lines
<1> HIDE DEF D
<1> QED BY <1>1, <1>2

\* The lines of a result and the rows are finitely many.
LEMMA LinesTyped ==
  ASSUME TypeOK, NEW c
  PROVE  /\ IsFiniteSet(Lines(c))
         /\ SumLines(c) \in Decimal
         /\ Lines(c) = {} => SumLines(c) = Number(0)
<1>1. IsFiniteSet(Coins) /\ IsFiniteSet({"spot", None})
  <2>1. Coins = ({"USDT"} \cup {"usdt"}) \cup {"BTC"} /\ {"spot", None} = {"spot"} \cup {None}
    BY DEF Coins
  <2>2. IsFiniteSet({"USDT"}) /\ IsFiniteSet({"spot"}) BY FS_Singleton
  <2>3. IsFiniteSet({"USDT"} \cup {"usdt"}) /\ IsFiniteSet({"spot"} \cup {None})
    BY <2>2, FS_AddElement
  <2>4. IsFiniteSet(({"USDT"} \cup {"usdt"}) \cup {"BTC"}) BY <2>3, FS_AddElement
  <2> QED BY <2>1, <2>3, <2>4
<1>2. IsFiniteSet(Keys) BY <1>1, FS_Product DEF Keys
<1>3. IsFiniteSet(Lines(c)) BY <1>2, FS_Subset DEF Lines, TypeOK
<1> DEFINE f == [k \in Lines(c) |-> totals[k]]
<1>4. DOMAIN f = Lines(c) /\ \A k \in DOMAIN f : f[k] \in Decimal BY DEF Lines, TypeOK
<1>5. SumLines(c) = SumOf(f) BY DEF SumLines
<1> HIDE DEF f
<1> QED BY <1>3, <1>4, <1>5, SumTyped, SumOfNothing

\* So are the amounts stated.
LEMMA StatedTyped ==
  ASSUME TypeOK, NEW c
  PROVE  /\ Stated(c) \subseteq 1..Len(rows) /\ IsFiniteSet(Stated(c))
         /\ Stated(c) = {} => SumStated(c) = Number(0)
         /\ Readable(c) => SumStated(c) \in Decimal
<1>1. Len(rows) \in Nat BY DEF TypeOK
<1>2. Stated(c) \subseteq 1..Len(rows) /\ IsFiniteSet(Stated(c))
  <2>1. IsFiniteSet(1..Len(rows)) BY <1>1, FS_Interval
  <2>2. Stated(c) \subseteq 1..Len(rows) BY DEF Stated
  <2> QED BY <2>1, <2>2, FS_Subset
<1> DEFINE f == [i \in Stated(c) |-> rows[i].amount]
<1>3. DOMAIN f = Stated(c) /\ (Readable(c) => \A i \in DOMAIN f : f[i] \in Decimal)
  BY DEF Readable
<1>4. SumStated(c) = SumOf(f) BY DEF SumStated
<1> HIDE DEF f
<1> QED BY <1>2, <1>3, <1>4, SumTyped, SumOfNothing

\* add_amount adds to the lines of one coin and leaves the others alone.
LEMMA LinesGrow ==
  ASSUME TypeOK, NEW coin \in Coins, NEW source \in {"spot", None}, NEW a \in Decimal,
         totals' = AddAmount(coin, source, a), NEW c
  PROVE  /\ Upper(coin) = c => Lines(c)' # {} /\ SumLines(c)' = Plus(SumLines(c), a)
         /\ Upper(coin) # c => Lines(c)' = Lines(c) /\ SumLines(c)' = SumLines(c)
<1> DEFINE key == <<coin, source>>
           old == IF key \in DOMAIN totals THEN totals[key] ELSE Number(0)
           f == [k \in Lines(c) |-> totals[k]]
           h == [k \in Lines(c)' |-> totals'[k]]
<1>1. totals' = [k \in DOMAIN totals \cup {key} |-> IF k = key THEN Plus(old, a) ELSE totals[k]]
  BY DEF AddAmount
<1>2. key[1] = coin OBVIOUS
<1> HIDE DEF key
<1>3. /\ DOMAIN totals' = DOMAIN totals \cup {key}
      /\ totals'[key] = Plus(old, a)
      /\ \A k \in DOMAIN totals : k # key => totals'[k] = totals[k]
  BY <1>1
<1> HIDE DEF old
<1>4. Lines(c)' = IF Upper(coin) = c THEN Lines(c) \cup {key} ELSE Lines(c)
  BY <1>2, <1>3 DEF Lines
<1>5. key \in Lines(c) <=> Upper(coin) = c /\ key \in DOMAIN totals BY <1>2 DEF Lines
<1>6. /\ IsFiniteSet(DOMAIN f) /\ DOMAIN f = Lines(c) /\ DOMAIN h = Lines(c)'
      /\ \A k \in DOMAIN f : f[k] \in Decimal /\ f[k] = totals[k]
      /\ \A k \in DOMAIN h : h[k] = totals'[k]
      /\ SumLines(c) = SumOf(f) /\ SumLines(c)' = SumOf(h)
  <2>1. SumLines(c) = SumOf(f) /\ SumLines(c)' = SumOf(h) BY DEF SumLines
  <2> QED BY <2>1, LinesTyped DEF Lines, TypeOK
<1>7. \A k \in DOMAIN f : k # key => k \in DOMAIN h /\ h[k] = f[k]
  <2>1. \A k \in DOMAIN f : k \in DOMAIN totals BY <1>6 DEF Lines
  <2> QED BY <1>3, <1>4, <1>6, <2>1
<1>8. CASE Upper(coin) # c
  <2>1. h = f
    <3>1. \A k \in Lines(c) : totals'[k] = totals[k] BY <1>5, <1>6, <1>7, <1>8, <1>4
    <3> QED BY <1>4, <1>8, <3>1
  <2> QED BY <1>4, <1>6, <1>8, <2>1
<1>9. CASE Upper(coin) = c /\ key \in DOMAIN totals
  <2>1. DOMAIN h = DOMAIN f /\ key \in DOMAIN f /\ h[key] = Plus(f[key], a)
    BY <1>3, <1>4, <1>5, <1>6, <1>9 DEF old
  <2> HIDE DEF f, h
  <2>2. SumOf(h) = Plus(SumOf(f), a) BY <1>6, <1>7, <2>1, SumWithGrown
  <2> QED BY <1>4, <1>6, <1>9, <2>2
<1>10. CASE Upper(coin) = c /\ key \notin DOMAIN totals
  <2>1. h[key] = a
    <3>1. old = Number(0) BY <1>10 DEF old
    <3> QED BY <1>3, <1>4, <1>6, <1>10, <3>1, PlusZero
  <2>2. DOMAIN h = DOMAIN f \cup {key} /\ key \notin DOMAIN f
    BY <1>4, <1>5, <1>6, <1>10
  <2> HIDE DEF f, h
  <2>3. SumOf(h) = Plus(SumOf(f), a) BY <1>6, <1>7, <2>1, <2>2, SumWithMore
  <2> QED BY <1>4, <1>6, <1>10, <2>3
<1> QED BY <1>8, <1>9, <1>10

\* A row states an amount in c.
States(r, c) == Mine(r) /\ ~Unrecognised(r) /\ CoinOf(r) = c /\ ~Blank(r.amount)

\* A row adds what it states to the sum of its coin.
LEMMA StatedGrows ==
  ASSUME TypeOK, NEW r \in Row, Listed(r), NEW c, Readable(c),
         States(r, c) => r.amount \in Decimal
  PROVE  /\ Readable(c)'
         /\ States(r, c) => SumStated(c)' = Plus(SumStated(c), r.amount)
         /\ ~States(r, c) => SumStated(c)' = SumStated(c) /\ Stated(c)' = Stated(c)
<1> DEFINE n == Len(rows) + 1
           f == [i \in Stated(c) |-> rows[i].amount]
           h == [i \in Stated(c)' |-> rows'[i].amount]
<1>1. /\ Len(rows) \in Nat /\ Len(rows') = n
      /\ \A i \in 1..Len(rows) : rows'[i] = rows[i]
      /\ rows'[n] = r
      /\ exchange' = exchange
  BY ListedAppends DEF Listed
<1>2. \A q, d : States(q, d)' <=> States(q, d)
  BY <1>1 DEF States, Mine, Unrecognised, CoinOf
<1>3. Stated(c) = {i \in 1..Len(rows) : States(rows[i], c)} BY DEF Stated, States
<1>4. Stated(c)' = {i \in 1..n : States(rows'[i], c)}
  BY <1>1 DEF Stated, States, Mine, Unrecognised, CoinOf
<1>5. Stated(c)' = IF States(r, c) THEN Stated(c) \cup {n} ELSE Stated(c)
  <2>1. 1..n = 1..Len(rows) \cup {n} /\ n \notin 1..Len(rows) BY <1>1
  <2> HIDE DEF n
  <2> QED BY <1>1, <1>3, <1>4, <2>1
<1>6. /\ IsFiniteSet(DOMAIN f) /\ DOMAIN f = Stated(c) /\ DOMAIN h = Stated(c)'
      /\ n \notin Stated(c)
      /\ \A i \in DOMAIN f : f[i] \in Decimal /\ f[i] = rows[i].amount
      /\ \A i \in DOMAIN h : h[i] = rows'[i].amount
      /\ \A i \in DOMAIN f : rows'[i] = rows[i]
      /\ SumStated(c) = SumOf(f) /\ SumStated(c)' = SumOf(h)
  <2>1. SumStated(c) = SumOf(f) /\ SumStated(c)' = SumOf(h) BY DEF SumStated
  <2>2. n \notin Stated(c) BY <1>1, <1>3
  <2>3. \A i \in DOMAIN f : rows'[i] = rows[i] BY <1>1, <1>3
  <2> QED BY <2>1, <2>2, <2>3, StatedTyped DEF Readable
<1> HIDE DEF n
<1>7. CASE States(r, c)
  <2>1. DOMAIN h = DOMAIN f \cup {n} /\ n \notin DOMAIN f /\ h[n] = r.amount
        /\ \A i \in DOMAIN f : h[i] = f[i]
    BY <1>1, <1>5, <1>6, <1>7
  <2>2. Readable(c)' BY <1>1, <1>5, <1>6, <1>7 DEF Readable
  <2> HIDE DEF f, h
  <2>3. SumOf(h) = Plus(SumOf(f), r.amount) BY <1>6, <1>7, <2>1, SumWithMore
  <2> QED BY <1>6, <1>7, <2>2, <2>3
<1>8. CASE ~States(r, c)
  <2>1. Stated(c)' = Stated(c) BY <1>5, <1>8
  <2>2. h = f BY <1>6, <2>1
  <2>3. Readable(c)' BY <1>6, <2>1 DEF Readable
  <2> QED BY <1>6, <1>8, <2>1, <2>2, <2>3
<1> QED BY <1>7, <1>8

\* A turn adds what the row states, to the lines of its coin or to the one
\* total, and nothing else.
LEMMA TurnAdds ==
  ASSUME TypeOK, NEW r \in Row, AdapterRow(r), phase' # "raised"
  PROVE  /\ \A c \in ShownCoins : Counts(c) /\ States(r, c) => r.amount \in Decimal
         /\ ~KeepsOneTotal => \A c \in ShownCoins :
              SumLines(c)' = IF States(r, c) THEN Plus(SumLines(c), r.amount) ELSE SumLines(c)
         /\ KeepsOneTotal =>
              /\ totals' = totals
              /\ total' = IF States(r, "USDT") THEN Plus(total, r.amount) ELSE total
         /\ exchange = "mexc" => ~States(r, "BTC")
<1>1. /\ r.coin \in Coins \cup {None} /\ r.source \in {"spot", None}
      /\ r.uid \in {"own", "other", None} /\ r.amount \in Amounts
      /\ r.asked \in {"USDT", "BTC"}
  BY DEF Row
<1>2. phase = "reading" /\ Listable(r)
  BY DEF AdapterRow, GateRow, KucoinRow, BitgetRow, WeexRow, BitmartRow, MexcRow, OkxRow,
         BybitRow, Listed
<1>3. Parses(r.amount) => r.amount \in Decimal BY <1>1, ParsedTyped
<1>4. r.amount = Garbage \/ Blank(r.amount) \/ Parses(r.amount)
  BY <1>1 DEF Amounts, Number, NaN, Infinite, Garbage, Empty, Missing, Blank, Parses
<1>5. Parses(r.amount) => ~Blank(r.amount) BY DEF Parses, Blank
<1>6. ASSUME NEW coin \in Coins, NEW source \in {"spot", None}, Parses(r.amount),
             Add(coin, source, r.amount), NEW c
      PROVE  SumLines(c)' = IF Upper(coin) = c THEN Plus(SumLines(c), r.amount)
                                               ELSE SumLines(c)
  BY <1>3, <1>6, LinesGrow DEF Add
<1>7. ASSUME totals' = totals, NEW c PROVE SumLines(c)' = SumLines(c)
  BY <1>7 DEF SumLines, Lines
<1>8. CASE GateRow(r)
  <2>1. exchange = "gate" /\ Mine(r) /\ ~Unrecognised(r) /\ CoinOf(r) = Upper(r.coin)
    BY <1>2, <1>8 DEF GateRow, Listable, Mine, Unrecognised, CoinOf
  <2>2. Parses(r.amount) /\ r.coin # None /\ Add(r.coin, r.source, r.amount)
    BY <1>8 DEF GateRow, Raise
  <2> QED BY <1>1, <1>3, <1>5, <1>6, <2>1, <2>2 DEF KeepsOneTotal, States
<1>9. CASE KucoinRow(r)
  <2>1. exchange = "kucoin" /\ Mine(r) /\ ~Unrecognised(r) /\ CoinOf(r) = Upper(r.coin)
    BY <1>2, <1>9 DEF KucoinRow, Listable, Mine, Unrecognised, CoinOf
  <2>2. Parses(r.amount) /\ r.coin # None /\ Add(r.coin, None, r.amount)
    BY <1>9 DEF KucoinRow, Raise
  <2> QED BY <1>1, <1>3, <1>5, <1>6, <2>1, <2>2 DEF KeepsOneTotal, States
<1>10. CASE BitgetRow(r) \/ WeexRow(r)
  <2>1. exchange \in {"bitget", "weex"} /\ Mine(r) /\ CoinOf(r) = Upper(r.coin)
        /\ (Unrecognised(r) <=> r.coin = None) /\ CoinRow(r)
    BY <1>2, <1>10 DEF BitgetRow, WeexRow, Listable, Mine, Unrecognised, CoinOf
  <2>2. CASE r.coin = None \/ Blank(r.amount)
    <3>1. totals' = totals BY <1>5, <2>1, <2>2 DEF CoinRow, Skip, Garbage, Blank, Raise
    <3>2. \A c : ~States(r, c) BY <2>1, <2>2 DEF States
    <3> QED BY <1>7, <2>1, <3>1, <3>2 DEF KeepsOneTotal
  <2>3. CASE r.coin # None /\ ~Blank(r.amount)
    <3>1. Parses(r.amount) /\ Add(r.coin, None, r.amount)
      BY <2>1, <2>3 DEF CoinRow, Raise
    <3> QED BY <1>1, <1>3, <1>5, <1>6, <2>1, <2>3, <3>1 DEF KeepsOneTotal, States
  <2> QED BY <2>2, <2>3
<1>11. CASE BitmartRow(r)
  <2>1. exchange = "bitmart" /\ (BitmartOwn(r) <=> Mine(r)) /\ ~Unrecognised(r)
    BY <1>1, <1>11 DEF BitmartRow, BitmartOwn, Mine, Unrecognised, None
  <2>2. BitmartCoin(r) \in Coins /\ Upper(BitmartCoin(r)) = CoinOf(r)
    BY <1>1, <2>1 DEF BitmartCoin, Coins, None, Upper, CoinOf
  <2>3. CASE ~Mine(r) \/ Blank(r.amount)
    <3>1. totals' = totals
      BY <1>5, <1>11, <2>1, <2>3 DEF BitmartRow, Skip, Garbage, Blank, Raise
    <3>2. \A c : ~States(r, c) BY <2>3 DEF States
    <3> QED BY <1>7, <2>1, <3>1, <3>2 DEF KeepsOneTotal
  <2>4. CASE Mine(r) /\ ~Blank(r.amount)
    <3>1. Parses(r.amount) /\ Add(BitmartCoin(r), None, r.amount)
      BY <1>11, <2>1, <2>4 DEF BitmartRow, Raise
    <3> QED BY <1>1, <1>3, <1>5, <1>6, <2>1, <2>2, <2>4, <3>1 DEF KeepsOneTotal, States
  <2> QED BY <2>3, <2>4
<1>12. CASE MexcRow(r)
  <2>1. exchange = "mexc" /\ CoinOf(r) = "USDT"
    BY <1>1, <1>2, <1>12 DEF MexcRow, Listable, CoinOf
  <2>2. KeepsOneTotal /\ ~States(r, "BTC") BY <2>1 DEF KeepsOneTotal, States
  <2>3. MexcOwn(r) <=> Mine(r) /\ ~Unrecognised(r)
    BY <1>1, <2>1 DEF MexcOwn, Mine, Unrecognised, None
  <2>4. States(r, "USDT") <=> MexcOwn(r) /\ ~Blank(r.amount) BY <2>1, <2>3 DEF States
  <2>5. CASE ~MexcOwn(r)
    <3>1. total' = total /\ totals' = totals BY <1>12, <2>5 DEF MexcRow, Skip
    <3> QED BY <2>1, <2>2, <2>4, <2>5, <3>1 DEF ShownCoins
  <2>6. CASE MexcOwn(r)
    <3>1. /\ Parses(MexcAmount(r)) /\ totals' = totals
          /\ total' = Plus(total, MexcAmount(r))
      BY <1>12, <2>6 DEF MexcRow, Raise
    <3>2. CASE r.amount = Missing
      <4>1. total \in Decimal BY DEF TypeOK
      <4>2. total' = total BY <3>1, <3>2, <4>1, PlusZero DEF MexcAmount
      <4>3. ~States(r, "USDT") BY <2>4, <3>2 DEF Blank, Missing
      <4> QED BY <2>1, <2>2, <3>1, <4>2, <4>3 DEF ShownCoins
    <3>3. CASE r.amount # Missing
      <4>1. MexcAmount(r) = r.amount BY <3>3 DEF MexcAmount
      <4>2. Parses(r.amount) /\ States(r, "USDT") BY <1>5, <2>4, <2>6, <3>1, <4>1
      <4> QED BY <1>3, <2>1, <2>2, <3>1, <4>1, <4>2 DEF ShownCoins
    <3> QED BY <3>2, <3>3
  <2> QED BY <2>5, <2>6
<1>13. CASE OkxRow(r)
  <2>1. exchange = "okx" /\ Mine(r) /\ ~Unrecognised(r) /\ CoinOf(r) = "USDT"
    BY <1>1, <1>2, <1>13 DEF OkxRow, Listable, Mine, Unrecognised, CoinOf
  <2>2. CASE Blank(r.amount)
    <3>1. totals' = totals BY <1>5, <1>13, <2>2 DEF OkxRow, Skip, Garbage, Blank, Raise
    <3>2. \A c : ~States(r, c) BY <2>2 DEF States
    <3> QED BY <1>7, <2>1, <3>1, <3>2 DEF KeepsOneTotal
  <2>3. CASE ~Blank(r.amount)
    <3>1. Parses(r.amount) /\ Add("USDT", None, r.amount)
      BY <1>13, <2>3 DEF OkxRow, Raise
    <3>2. "USDT" \in Coins /\ Upper("USDT") = "USDT" BY DEF Coins, Upper
    <3> QED BY <1>3, <1>6, <2>1, <2>3, <3>1, <3>2 DEF KeepsOneTotal, States
  <2> QED BY <2>2, <2>3
<1>14. CASE BybitRow(r)
  <2>1. exchange = "bybit" /\ Mine(r) /\ ~Unrecognised(r) /\ CoinOf(r) = Upper(r.coin)
    BY <1>2, <1>14 DEF BybitRow, Listable, Mine, Unrecognised, CoinOf
  <2>2. KeepsOneTotal BY <2>1 DEF KeepsOneTotal
  <2>3. States(r, "USDT") <=> IsUsdt(r.coin) /\ ~Blank(r.amount)
    BY <2>1 DEF States, IsUsdt
  <2>4. CASE ~States(r, "USDT")
    <3>1. total' = total /\ totals' = totals
      BY <1>5, <1>14, <2>3, <2>4 DEF BybitRow, Skip, Garbage, Blank, Raise
    <3> QED BY <2>1, <2>2, <2>4, <3>1 DEF Counts
  <2>5. CASE States(r, "USDT")
    <3>1. Parses(r.amount) /\ totals' = totals /\ total' = Plus(total, r.amount)
      BY <1>14, <2>3, <2>5 DEF BybitRow, Raise
    <3> QED BY <1>3, <2>1, <2>2, <2>5, <3>1 DEF Counts
  <2> QED BY <2>4, <2>5
<1> QED BY <1>8, <1>9, <1>10, <1>11, <1>12, <1>13, <1>14 DEF AdapterRow

\* Row by row, what was added stays what was stated.
LEMMA RowKeepsAdds == ASSUME TypeOK, Adds, NEW r \in Row, AdapterRow(r) PROVE Adds'
<1>1. Listed(r) /\ phase = "reading" /\ exchange' = exchange /\ phase' \in {"reading", "raised"}
  <2>1. Listed(r) /\ (phase' # "reading" => phase' = "raised") BY TurnTyped
  <2> QED BY <2>1 DEF Listed
<1>2. CASE phase' = "raised" BY <1>2 DEF Adds, AddsUpSoFar
<1>3. CASE phase' = "reading"
  <2> USE <1>3
  <2>1. /\ \A c \in ShownCoins : Counts(c) => Readable(c)
        /\ AddsUpSoFar
    BY <1>1 DEF Adds
  <2>2. \A c \in ShownCoins : Counts(c) /\ States(r, c) => r.amount \in Decimal
    BY TurnAdds
  <2>3. \A c : Counts(c)' <=> Counts(c) BY <1>1 DEF Counts
  <2>4. KeepsOneTotal' <=> KeepsOneTotal BY <1>1 DEF KeepsOneTotal
  <2>5. ASSUME NEW c \in ShownCoins, Counts(c)
        PROVE  /\ Readable(c)'
               /\ States(r, c) => SumStated(c)' = Plus(SumStated(c), r.amount)
               /\ ~States(r, c) => SumStated(c)' = SumStated(c) /\ Stated(c)' = Stated(c)
    BY <1>1, <2>1, <2>2, <2>5, StatedGrows
  <2>6. \A c \in ShownCoins : Counts(c)' => Readable(c)' BY <2>3, <2>5
  <2>7. CASE KeepsOneTotal
    <3>1. "USDT" \in ShownCoins /\ "BTC" \in ShownCoins BY DEF ShownCoins
    <3>2. Counts("USDT") /\ (exchange = "mexc" => Counts("BTC"))
      BY <2>7 DEF Counts, KeepsOneTotal
    <3>3. totals' = <<>> /\ total' = SumStated("USDT")'
      BY <1>1, <2>1, <2>5, <2>7, <3>1, <3>2, TurnAdds DEF AddsUpSoFar
    <3>4. exchange = "mexc" => Stated("BTC")' = {}
      BY <1>1, <2>1, <2>5, <3>1, <3>2, TurnAdds DEF AddsUpSoFar
    <3> QED BY <1>1, <2>4, <2>6, <2>7, <3>3, <3>4 DEF Adds, AddsUpSoFar
  <2>8. CASE ~KeepsOneTotal
    <3>1. \A c \in ShownCoins : Counts(c) => SumLines(c)' = SumStated(c)'
      BY <1>1, <2>1, <2>5, <2>8, TurnAdds DEF AddsUpSoFar
    <3>2. exchange # "mexc" BY <2>8 DEF KeepsOneTotal
    <3> QED BY <1>1, <2>3, <2>4, <2>6, <2>8, <3>1, <3>2 DEF Adds, AddsUpSoFar
  <2> QED BY <2>7, <2>8
<1> QED BY <1>1, <1>2, <1>3

\* With its one total added, a result has one line, in USDT.
LEMMA TotalAdded ==
  ASSUME TypeOK, totals = <<>>, totals' = AddAmount("USDT", None, total)
  PROVE  /\ Lines("USDT")' # {} /\ SumLines("USDT")' = total
         /\ Lines("BTC")' = {}
<1>1. total \in Decimal BY DEF TypeOK
<1>2. \A c : Lines(c) = {} BY DEF Lines
<1>3. SumLines("USDT") = Number(0) BY <1>2, LinesTyped
<1>4. "USDT" \in Coins /\ Upper("USDT") = "USDT" BY DEF Coins, Upper
<1>5. /\ Lines("USDT")' # {} /\ SumLines("USDT")' = Plus(SumLines("USDT"), total)
      /\ Lines("BTC")' = Lines("BTC")
  BY <1>1, <1>4, LinesGrow
<1> QED BY <1>1, <1>2, <1>3, <1>5, PlusZero

\* The same rows state the same sums.
LEMMA SameStated ==
  ASSUME UNCHANGED <<exchange, rows>>
  PROVE  \A c : /\ Stated(c)' = Stated(c) /\ SumStated(c)' = SumStated(c)
                /\ Readable(c)' <=> Readable(c)
                /\ Counts(c)' <=> Counts(c)
BY DEF Stated, SumStated, Readable, Counts, Mine, Unrecognised, CoinOf

\* finalize leaves lines that add up.
LEMMA FinishKeepsAdds == ASSUME IInv, Adds, Finish PROVE Adds'
<1>1. TypeOK /\ total \in Decimal BY DEF IInv, TypeOK
<1>2. /\ UNCHANGED <<exchange, rows>> /\ phase = "reading" /\ phase' \in {"finalized", "raised"}
  <2>1. phase = "reading"
    BY DEF Finish, PlainFinish, MexcFinish, OkxFinish, BybitFinish, DemoFinish
  <2> QED BY <2>1, FinishTyped
<1>3. CASE phase' = "raised" BY <1>3 DEF Adds, AddsUpSoFar
<1>4. CASE phase' = "finalized"
  <2> USE <1>4
  <2>1. (\A c \in ShownCoins : Counts(c) => Readable(c)) /\ AddsUpSoFar BY <1>2 DEF Adds
  <2>2. \A c \in ShownCoins : Counts(c)' => Readable(c)' BY <1>2, <2>1, SameStated
  <2>3. LinesAddUp'
    <3>1. CASE exchange = "demo" BY <1>2, <3>1 DEF LinesAddUp, Counts
    <3>2. CASE ~KeepsOneTotal /\ exchange # "demo"
      <4>1. totals' = totals
        BY <3>2 DEF Finish, PlainFinish, MexcFinish, OkxFinish, BybitFinish, DemoFinish,
                    KeepsOneTotal
      <4>2. \A c : Lines(c)' = Lines(c) /\ SumLines(c)' = SumLines(c)
        BY <4>1 DEF Lines, SumLines
      <4>3. \A c \in ShownCoins : Counts(c) => SumLines(c) = SumStated(c)
        BY <1>2, <2>1, <3>2 DEF AddsUpSoFar
      <4>4. ASSUME NEW c \in ShownCoins, Counts(c)'
            PROVE  /\ SumLines(c)' = SumStated(c)'
                   /\ Lines(c)' = {} => SumStated(c)' = Number(0)
        BY <1>1, <1>2, <4>2, <4>3, <4>4, SameStated, LinesTyped
      <4> QED BY <4>4 DEF LinesAddUp
    <3>3. CASE KeepsOneTotal
      <4>1. totals = <<>> /\ total = SumStated("USDT") /\ (exchange = "mexc" => Stated("BTC") = {})
        BY <1>2, <2>1, <3>3 DEF AddsUpSoFar
      <4>2. exchange = "mexc" => SumStated("BTC")' = Number(0)
        BY <1>1, <1>2, <4>1, StatedTyped, SameStated
      <4>3. SumStated("USDT")' = total BY <1>2, <4>1, SameStated
      <4>4. \A c \in ShownCoins : Counts(c)' => c = "USDT" \/ (c = "BTC" /\ exchange = "mexc")
        BY <1>2, <3>3 DEF ShownCoins, Counts, KeepsOneTotal
      <4>5. CASE totals' = AddAmount("USDT", None, total)
        <5>1. /\ Lines("USDT")' # {} /\ SumLines("USDT")' = total /\ Lines("BTC")' = {}
          BY <1>1, <4>1, <4>5, TotalAdded
        <5> QED BY <4>2, <4>3, <4>4, <5>1 DEF LinesAddUp
      <4>6. CASE totals' = totals /\ (\/ total = Number(0)
                                   \/ /\ exchange = "mexc" /\ total # NaN
                                      /\ ~(total.is = "inf" \/ total.n > 0))
        <5>1. \A c : Lines(c)' = {} BY <4>1, <4>6 DEF Lines
        <5>2. total = Number(0) \/ (exchange = "mexc" /\ total.is = "number" /\ total.n < 0)
          <6>1. CASE total.is = "number" /\ total.n = 0
            BY <1>1, <6>1 DEF Number, Decimal, NaN, Infinite
          <6>2. CASE total.is = "number" /\ total.n # 0
            <7>1. total.n \in Int BY <1>1, <6>2, DecimalKinds DEF NaN, Infinite
            <7> QED BY <4>6, <6>2, <7>1 DEF Number
          <6>3. CASE total.is # "number"
            BY <1>1, <4>6, <6>3, DecimalKinds DEF Number, Infinite
          <6> QED BY <6>1, <6>2, <6>3
        <5>3. exchange' = exchange BY <1>2
        <5> QED BY <4>2, <4>3, <4>4, <5>1, <5>2, <5>3 DEF LinesAddUp
      <4>7. \/ totals' = AddAmount("USDT", None, total)
            \/ totals' = totals /\ (\/ total = Number(0)
                                   \/ /\ exchange = "mexc" /\ total # NaN
                                      /\ ~(total.is = "inf" \/ total.n > 0))
        <5>1. CASE MexcFinish BY <5>1 DEF MexcFinish, Raise
        <5>2. CASE BybitFinish BY <5>2 DEF BybitFinish
        <5> QED BY <3>3, <5>1, <5>2
                DEF Finish, PlainFinish, OkxFinish, DemoFinish, KeepsOneTotal
      <4> QED BY <4>5, <4>6, <4>7
    <3> QED BY <3>1, <3>2, <3>3
  <2>4. exchange' = "demo" => \A k \in DOMAIN totals' : totals'[k] # Infinite
    <3> SUFFICES ASSUME exchange = "demo"
                 PROVE  \A k \in DOMAIN totals' : totals'[k] # Infinite
      BY <1>2
    <3>1. DemoFinish
      BY DEF Finish, PlainFinish, MexcFinish, OkxFinish, BybitFinish
    <3>2. PICK n \in Numbers :
            totals' = [k \in {"USDT", "BTC"} \X {None} |->
                         Number(IF k[1] = "USDT" THEN 10 * n ELSE n)]
      BY <3>1 DEF DemoFinish
    <3>3. \A m : Number(m) # Infinite BY DEF Number, Infinite
    <3> QED BY <3>2, <3>3
  <2> QED BY <2>2, <2>3, <2>4 DEF Adds, AddsUpSoFar
<1> QED BY <1>2, <1>3, <1>4

\* The message repeats them.
LEMMA RenderKeepsAdds == ASSUME IInv, Adds, Render PROVE Adds'
<1>1. /\ phase = "finalized" /\ phase' \in {"unrendered", "shown"}
      /\ UNCHANGED <<exchange, rows, totals, total, others, notes, period>>
  BY DEF Render
<1>2. /\ \A c \in ShownCoins : Counts(c) => Readable(c)
      /\ LinesAddUp /\ (exchange = "demo" => \A k \in DOMAIN totals : totals[k] # Infinite)
  BY <1>1 DEF Adds
<1>3. \A c : Lines(c)' = Lines(c) /\ SumLines(c)' = SumLines(c) BY <1>1 DEF Lines, SumLines
<1>4. \A c \in ShownCoins : Counts(c)' => Readable(c)' BY <1>1, <1>2, SameStated
<1>5. LinesAddUp' BY <1>1, <1>2, <1>3, SameStated DEF LinesAddUp
<1>6. AssetTotals' = AssetTotals BY <1>1 DEF AssetTotals
<1>7. "USDT" \in DOMAIN AssetTotals <=> Lines("USDT") # {} BY AssetTotalsOf
<1>8. Lines("USDT") # {} => AssetTotals["USDT"] = SumLines("USDT") BY AssetTotalsOf
<1>9. CASE "USDT" \in DOMAIN AssetTotals /\ AssetTotals["USDT"] = Infinite
  <2>1. phase' = "unrendered" BY <1>9 DEF Render
  <2> QED BY <1>1, <1>2, <1>3, <1>4, <1>5, <1>7, <1>8, <1>9, <2>1 DEF Adds, AddsUpSoFar
<1>10. CASE ~("USDT" \in DOMAIN AssetTotals /\ AssetTotals["USDT"] = Infinite)
  <2>1. /\ phase' = "shown"
        /\ message'.amounts = [c \in DOMAIN AssetTotals |-> Text(c, AssetTotals[c])]
    BY <1>10 DEF Render
  <2>2. message'.amounts = [c \in DOMAIN AssetTotals' |-> Text(c, AssetTotals'[c])]
    BY <1>6, <2>1
  <2>3. Lines("USDT") # {} => SumLines("USDT") # Infinite BY <1>7, <1>8, <1>10
  <2> QED BY <1>1, <1>2, <1>3, <1>4, <1>5, <2>1, <2>2, <2>3 DEF Adds, AddsUpSoFar
<1> QED BY <1>9, <1>10

\* The three facts that make Adds an invariant.
LEMMA InitAdds == Init => Adds
<1> SUFFICES ASSUME Init PROVE Adds OBVIOUS
<1>1. phase = "reading" /\ Len(rows) = 0 /\ totals = <<>> /\ total = Number(0) BY DEF Init
<1>2. TypeOK BY InitIInv DEF IInv
<1>3. \A c : Stated(c) = {} BY <1>1, <1>2, StatedTyped
<1>4. \A c : SumStated(c) = Number(0) BY <1>2, <1>3, StatedTyped
<1>5. \A c : Readable(c) BY <1>3 DEF Readable
<1>6. \A c : Lines(c) = {} BY <1>1 DEF Lines
<1>7. \A c : SumLines(c) = Number(0) BY <1>2, <1>6, LinesTyped
<1> QED BY <1>1, <1>3, <1>4, <1>5, <1>7 DEF Adds, AddsUpSoFar

\* Each step keeps the sums.
LEMMA StepAdds == IInv /\ Adds /\ [Next]_vars => Adds'
<1> SUFFICES ASSUME IInv, Adds, [Next]_vars PROVE Adds' OBVIOUS
<1>1. CASE \E r \in Row : AdapterRow(r) BY <1>1, RowKeepsAdds DEF IInv
<1>2. CASE Refuse BY <1>2 DEF Refuse, Adds, AddsUpSoFar
<1>3. CASE UNCHANGED vars
  <2>1. UNCHANGED <<exchange, rows, totals, total, phase, message>> BY <1>3 DEF vars
  <2>2. \A c : Lines(c)' = Lines(c) /\ SumLines(c)' = SumLines(c) BY <2>1 DEF Lines, SumLines
  <2>3. AssetTotals' = AssetTotals BY <2>1 DEF AssetTotals
  <2>4. LinesAddUp' <=> LinesAddUp BY <2>1, <2>2, SameStated DEF LinesAddUp
  <2>5. KeepsOneTotal' <=> KeepsOneTotal BY <2>1 DEF KeepsOneTotal
  <2>6. AddsUpSoFar' <=> AddsUpSoFar BY <2>1, <2>2, <2>5, SameStated DEF AddsUpSoFar
  <2> QED BY <2>1, <2>2, <2>3, <2>4, <2>6, SameStated DEF Adds
<1> QED BY <1>1, <1>2, <1>3, FinishKeepsAdds, RenderKeepsAdds DEF Next

\* The lines are the sums of the rows all the way.
LEMMA InvariantAdds == Spec => []Adds
BY InitAdds, StepAdds, InvariantIInv, PTL DEF Spec

\* What is shown beside each coin is the exact sum of the amounts stated in it,
\* for any adapters, amounts and number of rows.
THEOREM ReportShownAddsUp == Spec => []ShownAddsUp
<1>1. ASSUME TypeOK, Adds PROVE ShownAddsUp
  <2> SUFFICES ASSUME phase = "shown", exchange # "demo", NEW c \in {"USDT", "BTC"},
                      exchange = "bybit" => c = "USDT"
               PROVE  /\ Garbage \notin {rows[i].amount : i \in Stated(c)}
                      /\ IF c \in DOMAIN message.amounts
                           THEN /\ message.amounts[c] = Text(c, SumStated(c))
                                /\ c = "USDT" => SumStated(c) # Infinite
                           ELSE \/ SumStated(c) = Number(0)
                                \/ exchange = "mexc" /\ SumStated(c).is = "number"
                                   /\ SumStated(c).n < 0
    BY DEF ShownAddsUp, SumStated
  <2>1. Counts(c) /\ c \in ShownCoins BY DEF Counts, ShownCoins
  <2>2. Readable(c) /\ LinesAddUp
        /\ message.amounts = [d \in DOMAIN AssetTotals |-> Text(d, AssetTotals[d])]
        /\ (Lines("USDT") # {} => SumLines("USDT") # Infinite)
    BY <1>1, <2>1 DEF Adds
  <2>3. Garbage \notin Decimal BY DEF Garbage, Decimal, NaN, Infinite
  <2>4. Garbage \notin {rows[i].amount : i \in Stated(c)} BY <2>2, <2>3 DEF Readable
  <2>5. c \in DOMAIN message.amounts <=> Lines(c) # {} BY <2>2, AssetTotalsOf
  <2>6. CASE Lines(c) # {}
    <3>1. AssetTotals[c] = SumLines(c) /\ c \in DOMAIN AssetTotals BY <2>6, AssetTotalsOf
    <3>2. SumLines(c) = SumStated(c) BY <2>1, <2>2, <2>6 DEF LinesAddUp
    <3>3. message.amounts[c] = Text(c, SumStated(c)) BY <2>2, <3>1, <3>2
    <3> QED BY <2>2, <2>4, <2>5, <2>6, <3>2, <3>3
  <2>7. CASE Lines(c) = {}
    BY <2>1, <2>2, <2>4, <2>5, <2>7 DEF LinesAddUp
  <2> QED BY <2>6, <2>7
<1> QED BY <1>1, InvariantAdds, ReportTypeOK, PTL

\* A calculation is lost with an exception no handler words only for an amount
\* of this referral, in a coin that would be shown, that is no number or lacks
\* its field.
THEOREM ReportStopsWithCause == Spec => []StopsWithCause
<1>1. ASSUME IInv, Adds PROVE StopsWithCause
  <2>1. phase = "raised" => SomeUnreadable BY <1>1 DEF IInv, RaisedForRow
  <2>2. SomeUnreadable =>
          \E i \in 1..Len(rows) :
            /\ Mine(rows[i]) /\ (exchange = "bybit" => IsUsdt(rows[i].coin))
            /\ \/ rows[i].amount.is # "number"
               \/ rows[i].coin = None /\ exchange \in {"gate", "kucoin"}
    BY DEF SomeUnreadable, Unreadable
  <2>3. ASSUME phase = "unrendered" PROVE \E i \in Stated("USDT") : rows[i].amount = Infinite
    <3>1. TypeOK BY <1>1 DEF IInv
    <3>2. Lines("USDT") # {} /\ SumLines("USDT") = Infinite /\ LinesAddUp
      BY <1>1, <2>3 DEF Adds
    <3>3. exchange # "demo"
      <4> SUFFICES ASSUME exchange = "demo" PROVE FALSE OBVIOUS
      <4> DEFINE f == [k \in Lines("USDT") |-> totals[k]]
      <4>1. \A k \in DOMAIN totals : totals[k] # Infinite BY <1>1, <2>3 DEF Adds
      <4>2. /\ DOMAIN f = Lines("USDT") /\ IsFiniteSet(DOMAIN f)
            /\ \A k \in DOMAIN f : f[k] \in Decimal /\ f[k] # Infinite
        BY <3>1, <4>1, LinesTyped DEF Lines, TypeOK
      <4>3. SumOf(f) = Infinite BY <3>2 DEF SumLines
      <4> HIDE DEF f
      <4> QED BY <4>2, <4>3, SumInfinite
    <3>4. Counts("USDT") /\ "USDT" \in ShownCoins BY <3>3 DEF Counts, ShownCoins
    <3>5. SumStated("USDT") = Infinite BY <3>2, <3>4 DEF LinesAddUp
    <3> DEFINE f == [i \in Stated("USDT") |-> rows[i].amount]
    <3>6. Readable("USDT") BY <1>1, <2>3, <3>4 DEF Adds
    <3>7. /\ DOMAIN f = Stated("USDT") /\ IsFiniteSet(DOMAIN f)
          /\ \A i \in DOMAIN f : f[i] \in Decimal /\ f[i] = rows[i].amount
      BY <3>1, <3>6, StatedTyped DEF Readable
    <3>8. SumOf(f) = Infinite BY <3>5 DEF SumStated
    <3> HIDE DEF f
    <3> QED BY <3>7, <3>8, SumInfinite
  <2> QED BY <2>1, <2>2, <2>3 DEF StopsWithCause
<1> QED BY <1>1, InvariantIInv, InvariantAdds, PTL

=============================================================================
