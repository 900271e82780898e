------------------------------- MODULE Report --------------------------------
(***************************************************************************)
(* From the rows an exchange lists to the message the user reads: what     *)
(* each adapter does with a row (bot/exchanges/*.py), CommissionResult     *)
(* (base.py), render_result (bot/rendering.py) and the decimals            *)
(* (bot/utils/money.py).                                                   *)
(*                                                                         *)
(* Amounts are in thousandths, so that rounding to two places is seen.     *)
(* What Decimal and the adapters tell apart is kept: a number, NaN and     *)
(* Infinity (both of which Decimal accepts), a text that is none of them,  *)
(* an empty field and a field that is not there.                           *)
(***************************************************************************)
EXTENDS Integers, Sequences, FiniteSets, Folds

CONSTANTS
  Exchanges,  \* adapters, "demo" for the stub
  Numbers,    \* thousandths an amount may have
  MaxRows     \* bound: rows of one calculation

ASSUME ReportAssumption ==
  /\ Exchanges \subseteq {"gate", "kucoin", "bitget", "weex", "bitmart", "mexc", "okx",
                          "bybit", "demo"}
  /\ Numbers \subseteq Int
  /\ MaxRows \in Nat

VARIABLES
  exchange,  \* whose adapter runs
  rows,      \* observation: the rows listed so far
  totals,    \* _totals of the result: amount of each asset and source
  total,     \* MEXC's total, Bybit's usdt
  others,    \* Bybit's other_coins_present
  notes,     \* notes of the result
  period,    \* dates of the result: as asked for, or Bybit's window
  phase,     \* see Phases
  message    \* what the user reads

vars == <<exchange, rows, totals, total, others, notes, period, phase, message>>

\* "refused" ends in _fail, "raised" in the global error handler with the
\* session still fetching, "unrendered" there with the session reset.
Phases == {"reading", "finalized", "shown", "refused", "raised", "unrendered"}

-----------------------------------------------------------------------------
(* Decimals.                                                               *)

Number(n) == [is |-> "number", n |-> n]
NaN == [is |-> "nan", n |-> 0]
Infinite == [is |-> "inf", n |-> 0]
Garbage == [is |-> "garbage", n |-> 0]
Empty == [is |-> "empty", n |-> 0]
Missing == [is |-> "missing", n |-> 0]

Amounts == {Number(n) : n \in Numbers} \cup {NaN, Infinite, Garbage, Empty, Missing}

Decimal == [is : {"number"}, n : Int] \cup {NaN, Infinite}

\* A field _first passes over.
Blank(a) == a.is \in {"empty", "missing"}

\* Any text that is there is taken for an amount (a faulty version of the next
\* definition).
ParsesAny(a) == ~Blank(a)

\* parse_decimal accepts it.
Parses(a) == a.is \in {"number", "nan", "inf"}

Plus(a, b) ==
  IF NaN \in {a, b} THEN NaN
  ELSE IF a.is # "number" THEN a     \* Infinity
  ELSE IF b.is # "number" THEN b
  ELSE Number(a.n + b.n)

AnyOf(S) == CHOOSE x \in S : TRUE

SumOf(amounts) ==     \* of all values of a function
  MapThenFoldSet(Plus, Number(0), LAMBDA x : amounts[x], AnyOf, DOMAIN amounts)

\* quantize to 0.01, half away from zero.
Rounded(n) == IF n >= 0 THEN (n + 5) \div 10 ELSE -((5 - n) \div 10)

\* format_2dp for USDT, all digits for another coin.
Text(coin, a) == IF coin = "USDT" /\ a.is = "number" THEN Number(Rounded(a.n)) ELSE a

-----------------------------------------------------------------------------
(* Rows.                                                                   *)

Coins == {"USDT", "usdt", "BTC"}
None == "none"

Upper(coin) == IF coin = "usdt" THEN "USDT" ELSE coin

\* asked is the currency the request was for; MEXC and OKX rows name none.
Row == [coin : Coins \cup {None}, source : {"spot", None}, uid : {"own", "other", None},
        asked : {"USDT", "BTC"}, amount : Amounts]

\* The rows an exchange may list: Gate names sources, MEXC and BitMart may
\* list another referral's, the others filter by uid.
Listable(r) ==
  /\ r.coin = None \/ exchange \notin {"mexc", "okx"}
  /\ r.source = None \/ exchange = "gate"
  /\ r.uid = "own" \/ exchange \in {"mexc", "bitmart"}
  /\ r.asked = "USDT" \/ exchange = "bitmart"

Keys == Coins \X {"spot", None}

Notes == {"cumulative", "rolling", "usdt only", "demo"}

NoMessage == [amounts |-> <<>>, notes |-> {}, period |-> "none"]

TypeOK ==
  /\ exchange \in Exchanges
  /\ rows \in Seq(Row) /\ Len(rows) <= MaxRows
  /\ DOMAIN totals \subseteq Keys /\ \A k \in DOMAIN totals : totals[k] \in Decimal
  /\ total \in Decimal
  /\ others \in BOOLEAN
  /\ notes \subseteq Notes
  /\ period \in {"asked", "rolling"}
  /\ phase \in Phases
  /\ phase = "shown" <=> message # NoMessage

Init ==
  /\ exchange \in Exchanges
  /\ rows = <<>>
  /\ totals = <<>> /\ total = Number(0) /\ others = FALSE
  /\ notes = {} /\ period = "asked"
  /\ phase = "reading"
  /\ message = NoMessage

-----------------------------------------------------------------------------
(* One turn of an adapter's loop over the rows.                            *)

\* add_amount: a key seen for the first time starts from zero.
AddAmount(coin, source, a) ==
  LET key == <<coin, source>>
      old == IF key \in DOMAIN totals THEN totals[key] ELSE Number(0)
  IN  [k \in DOMAIN totals \cup {key} |-> IF k = key THEN Plus(old, a) ELSE totals[k]]

Add(coin, source, a) ==
  totals' = AddAmount(coin, source, a) /\ UNCHANGED <<total, others, phase>>

Skip == UNCHANGED <<totals, total, others, phase>>

\* KeyError, MoneyError or InvalidOperation: no class flow.py catches.
Raise == phase' = "raised" /\ UNCHANGED <<totals, total, others>>

Listed(r) ==
  /\ phase = "reading" /\ Len(rows) < MaxRows
  /\ Listable(r)
  /\ rows' = Append(rows, r)
  /\ UNCHANGED <<exchange, notes, period, message>>

\* record["commission_amount"], record["commission_asset"].
GateRow(r) ==
  /\ exchange = "gate" /\ Listed(r)
  /\ \/ Parses(r.amount) /\ r.coin # None /\ Add(r.coin, r.source, r.amount)
     \/ ~(Parses(r.amount) /\ r.coin # None) /\ Raise

\* item["commission"], item["currency"].
KucoinRow(r) ==
  /\ exchange = "kucoin" /\ Listed(r)
  /\ \/ Parses(r.amount) /\ r.coin # None /\ Add(r.coin, None, r.amount)
     \/ ~(Parses(r.amount) /\ r.coin # None) /\ Raise

\* A row without a known coin or amount field is passed over in silence.
CoinRow(r) ==
  \/ (r.coin = None \/ Blank(r.amount)) /\ Skip
  \/ r.coin # None /\ Parses(r.amount) /\ Add(r.coin, None, r.amount)
  \/ r.coin # None /\ r.amount = Garbage /\ Raise

BitgetRow(r) == exchange = "bitget" /\ Listed(r) /\ CoinRow(r)
WeexRow(r) == exchange = "weex" /\ Listed(r) /\ CoinRow(r)

\* _record_matches_uid: a row that names no uid is the referral's.
BitmartOwn(r) == r.uid \in {"own", None}

BitmartCoin(r) == IF r.coin = None THEN r.asked ELSE Upper(r.coin)

\* The amount is parsed before the uid is looked at (a faulty version of
\* BitmartRow).
BitmartRowParsedFirst(r) ==
  /\ exchange = "bitmart" /\ Listed(r)
  /\ \/ r.amount # Garbage /\ (~BitmartOwn(r) \/ Blank(r.amount)) /\ Skip
     \/ BitmartOwn(r) /\ Parses(r.amount) /\ Add(BitmartCoin(r), None, r.amount)
     \/ r.amount = Garbage /\ Raise

BitmartRow(r) ==
  /\ exchange = "bitmart" /\ Listed(r)
  /\ \/ (~BitmartOwn(r) \/ Blank(r.amount)) /\ Skip
     \/ BitmartOwn(r) /\ Parses(r.amount) /\ Add(BitmartCoin(r), None, r.amount)
     \/ BitmartOwn(r) /\ r.amount = Garbage /\ Raise

\* _row_matches_uid: a row that names no uid is nobody's.
MexcOwn(r) == r.uid = "own"

\* row.get("total", "0"): only a missing field is zero.
MexcAmount(r) == IF r.amount = Missing THEN Number(0) ELSE r.amount

MexcRow(r) ==
  /\ exchange = "mexc" /\ Listed(r)
  /\ \/ ~MexcOwn(r) /\ Skip
     \/ /\ MexcOwn(r) /\ Parses(MexcAmount(r))
        /\ total' = Plus(total, MexcAmount(r)) /\ UNCHANGED <<totals, others, phase>>
     \/ MexcOwn(r) /\ ~Parses(MexcAmount(r)) /\ Raise

OkxRow(r) ==
  /\ exchange = "okx" /\ Listed(r)
  /\ \/ Blank(r.amount) /\ Skip
     \/ Parses(r.amount) /\ Add("USDT", None, r.amount)
     \/ r.amount = Garbage /\ Raise

\* _is_usdt and _nonzero, which takes what it cannot parse for zero.
IsUsdt(coin) == Upper(coin) = "USDT"
Nonzero(a) == Parses(a) /\ a # Number(0)

\* The last coin decides (a faulty version of OthersAfter).
OthersLast(r) == Nonzero(r.amount)

OthersAfter(r) == others \/ Nonzero(r.amount)

\* _add_usdt_commission: an empty amount counts as zero, other coins are
\* only noticed.
BybitRow(r) ==
  /\ exchange = "bybit" /\ Listed(r)
  /\ \/ /\ IsUsdt(r.coin) /\ Parses(r.amount)
        /\ total' = Plus(total, r.amount) /\ UNCHANGED <<totals, others, phase>>
     \/ IsUsdt(r.coin) /\ Blank(r.amount) /\ Skip
     \/ IsUsdt(r.coin) /\ r.amount = Garbage /\ Raise
     \/ ~IsUsdt(r.coin) /\ others' = OthersAfter(r) /\ UNCHANGED <<totals, total, phase>>

AdapterRow(r) ==
  \/ GateRow(r) \/ KucoinRow(r) \/ BitgetRow(r) \/ WeexRow(r)
  \/ BitmartRow(r) \/ MexcRow(r) \/ OkxRow(r) \/ BybitRow(r)

-----------------------------------------------------------------------------
(* The end of get_commission and the message.                              *)

\* An error envelope or a request that fails: an ExchangeApiError.
Refuse ==
  /\ phase = "reading" /\ exchange # "demo"
  /\ phase' = "refused"
  /\ UNCHANGED <<exchange, rows, totals, total, others, notes, period, message>>

Finalize == phase' = "finalized" /\ UNCHANGED <<exchange, rows, total, others, message>>

PlainFinish ==
  /\ phase = "reading" /\ exchange \in {"gate", "kucoin", "bitget", "weex", "bitmart"}
  /\ Finalize
  /\ UNCHANGED <<totals, notes, period>>

\* A total that is not positive is not added; NaN cannot be compared.
MexcFinish ==
  /\ phase = "reading" /\ exchange = "mexc"
  /\ \/ /\ total # NaN /\ Finalize
        /\ totals' = IF total.is = "inf" \/ total.n > 0 THEN AddAmount("USDT", None, total)
                                                        ELSE totals
        /\ UNCHANGED <<notes, period>>
     \/ total = NaN /\ Raise /\ UNCHANGED <<exchange, rows, notes, period, message>>

OkxFinish ==
  /\ phase = "reading" /\ exchange = "okx"
  /\ Finalize
  /\ notes' = {"cumulative"}
  /\ UNCHANGED <<totals, period>>

BybitFinish ==
  /\ phase = "reading" /\ exchange = "bybit"
  /\ Finalize
  /\ totals' = IF total # Number(0) THEN AddAmount("USDT", None, total) ELSE totals
  /\ notes' = {"rolling"} \cup (IF others THEN {"usdt only"} ELSE {})
  /\ period' = "rolling"

\* The stub asks nobody; its amounts are positive, the USDT in whole cents.
DemoFinish ==
  /\ phase = "reading" /\ exchange = "demo"
  /\ \E n \in Numbers :
       /\ n > 0
       /\ totals' = [k \in {"USDT", "BTC"} \X {None} |->
                       Number(IF k[1] = "USDT" THEN 10 * n ELSE n)]
  /\ notes' = {"demo"}
  /\ Finalize
  /\ UNCHANGED period

Finish == PlainFinish \/ MexcFinish \/ OkxFinish \/ BybitFinish \/ DemoFinish

\* One line of a coin stands for all of them (a faulty version of the next
\* definition).
AssetTotalsOneLine ==
  [c \in {Upper(k[1]) : k \in DOMAIN totals} |->
     totals[CHOOSE k \in DOMAIN totals : Upper(k[1]) = c]]

\* asset_totals: lines of a coin are merged, whatever their source or case.
AssetTotals ==
  [c \in {Upper(k[1]) : k \in DOMAIN totals} |->
     SumOf([k \in {k \in DOMAIN totals : Upper(k[1]) = c} |-> totals[k]])]

\* render_result: an infinite USDT amount cannot be quantized.
Render ==
  /\ phase = "finalized"
  /\ LET amounts == AssetTotals IN
       IF "USDT" \in DOMAIN amounts /\ amounts["USDT"] = Infinite
         THEN phase' = "unrendered" /\ UNCHANGED message
         ELSE /\ phase' = "shown"
              /\ message' = [amounts |-> [c \in DOMAIN amounts |-> Text(c, amounts[c])],
                             notes |-> notes, period |-> period]
  /\ UNCHANGED <<exchange, rows, totals, total, others, notes, period>>

Next ==
  \/ \E r \in Row : AdapterRow(r)
  \/ Refuse \/ Finish \/ Render

Spec == Init /\ [][Next]_vars

-----------------------------------------------------------------------------
(* Properties.                                                             *)

\* What an exchange said the referral brought in, without regard to how an
\* adapter reads it: every amount in a row that is not another referral's.
Mine(r) == r.uid # "other"
CoinOf(r) ==
  IF exchange = "okx" \/ exchange = "mexc" \/ (exchange = "bitmart" /\ r.coin = None)
    THEN r.asked ELSE Upper(r.coin)

\* The rows whose amount is dropped although they are the referral's: a row
\* without a known coin field (Bitget, WEEX), without a known uid field (MEXC).
Unrecognised(r) ==
  \/ exchange \in {"bitget", "weex"} /\ r.coin = None
  \/ exchange = "mexc" /\ r.uid = None

Stated(c) ==
  {i \in 1..Len(rows) : Mine(rows[i]) /\ ~Unrecognised(rows[i]) /\ CoinOf(rows[i]) = c
                        /\ ~Blank(rows[i].amount)}

\* What is shown adds up: the amount beside each coin is the exact sum of all
\* amounts stated in it, over all pages, sources, spellings of the coin and
\* products, rounded once and only for USDT; NaN stays visible; no sum with an
\* unreadable or an infinite USDT amount is shown.  A coin that is not shown
\* had nothing to show or, at MEXC, a negative sum.  Bybit's other coins are
\* left out by intent.  Rows with renamed fields vanish: Unrecognised.
ShownAddsUp ==
  phase = "shown" /\ exchange # "demo" =>
    \A c \in {"USDT", "BTC"} :
      (exchange = "bybit" => c = "USDT") =>
        LET stated == {rows[i].amount : i \in Stated(c)}
            sum == SumOf([i \in Stated(c) |-> rows[i].amount])
        IN  /\ Garbage \notin stated
            /\ IF c \in DOMAIN message.amounts
                 THEN message.amounts[c] = Text(c, sum) /\ (c = "USDT" => sum # Infinite)
                 ELSE sum = Number(0) \/ (exchange = "mexc" /\ sum.is = "number" /\ sum.n < 0)

\* A calculation that is lost, with an exception no handler words, is lost for
\* an amount of this referral, in a coin that would be shown, that is not a
\* number or lacks its field: never for somebody else's row, an empty Bybit
\* coin or a fully readable answer.
StopsWithCause ==
  /\ phase = "raised" =>
       \E i \in 1..Len(rows) :
         /\ Mine(rows[i]) /\ (exchange = "bybit" => IsUsdt(rows[i].coin))
         /\ \/ rows[i].amount.is # "number"
            \/ rows[i].coin = None /\ exchange \in {"gate", "kucoin"}
  /\ phase = "unrendered" => \E i \in Stated("USDT") : rows[i].amount = Infinite

\* A figure that is not the sum for the period is never shown without saying
\* so: OKX's is cumulative, the stub's is invented, Bybit's is for its own
\* window, which is then the period the message names, and it mentions other
\* coins exactly if the exchange reported an amount in one.
CaveatsShown ==
  phase = "shown" =>
    /\ exchange = "okx" => "cumulative" \in message.notes
    /\ exchange = "demo" => "demo" \in message.notes
    /\ exchange = "bybit" <=> "rolling" \in message.notes
    /\ exchange = "bybit" <=> message.period = "rolling"
    /\ "usdt only" \in message.notes <=>
         /\ exchange = "bybit"
         /\ \E i \in 1..Len(rows) : ~IsUsdt(rows[i].coin) /\ Nonzero(rows[i].amount)

=============================================================================
