# Verification of the commission rebate bot

A Telegram bot (aiogram, asyncio) with which a few whitelisted owners look up
the affiliate commission that one referral (a UID) brought in on one of eight
exchanges over a period. This directory holds TLA+ models of it, TLC runs that
check them on small instances and TLAPS proofs of their most important
properties for every instance.

## 1. Inventory

| Component | State | Operations | Talks to |
|---|---|---|---|
| Conversation (`handlers/flow.py`, `handlers/start.py`) | FSM state and FSM data of a user and chat, in memory | one handler per command, button or text; `_fetch_and_render` | Telegram, adapters, alerter |
| Error handler (`handlers/errors.py`) | none | alert, neutral reply | Telegram, alerter |
| Whitelist, rate limiter (`security/access.py`, `security/ratelimit.py`) | `_last_seen` per user | one middleware call per update | the handlers behind them |
| Wiring, life of the process (`main.py`, `exchanges/registry.py`) | adapters | build, poll, close | everything |
| Settings, credentials (`config.py`, `security/secrets.py`) | cached settings | reveal, decrypt, require | environment |
| HTTP client (`exchanges/base_http.py`) | one connection pool per adapter | `_send` with retries | exchange |
| Windows, presets, validation (`utils/dates.py`) | none (a generator's cursor) | `iter_windows`, `smart_month`, `validate_period` | flow, adapters |
| Paged adapters (Gate, KuCoin, MEXC, Bitget, BitMart, WEEX) | the result being added up | `get_commission` | HTTP client |
| Single-request adapters (OKX, Bybit) | the result | `get_commission` | HTTP client |
| Result, money, rendering | sums by asset and source | `add_amount`, `finalize`, `render_result` | flow |
| Alerts, keyboards, validation of UIDs, logging, signing, stubs, scripts | none | | |

**What is hard.** aiogram starts a task per update and does not serialise the
updates of one user: two button presses, or a press and /cancel, interleave at
every `await` on the network, and the state a handler was chosen for may be gone
when its body runs. Every Telegram call may raise. A fetch takes seconds to
minutes while the user goes on pressing. A restart drops all sessions but not
the keyboards in the chat. Requests are retried; pages are read while the
exchange goes on booking; windows and pages have boundaries. A request is signed
once and repeated with a signature that ages. An amount is whatever text the
exchange sends, and `Decimal` also accepts NaN and Infinity. Each of these is
listed with its line under `hazards` in `PROJECT.json`.

**What makes the components correct.** Conversation: a state that waits for an
input has what came before it, only configured exchanges are queried, nobody is
stuck in "fetching", inputs are lost only in races, and a user who sends one
update at a time gets the commission of exactly what was picked. Limiter:
accepted updates are spaced, nobody is throttled without cause. HTTP client:
bounded attempts, only passing failures repeated, and no signature that the
pauses alone make too old. Windows: a partition of the period within the cap.
Adapters: every record once, or an error. Message: the exact sum of what was
listed, with the caveats a figure needs, or an error with a cause. Presets: valid whole months in
order. Start: the menu is what is configured, bad credentials stop the process.

## 2. Modules

| Module | Models | Correspondence |
|---|---|---|
| `Flow` | handlers of `flow.py` and `start.py`, error handler, restart | `tasks[t]` is the task of one update, `pc` where it waits; `state`, `data` are the FSM state and data. One action is the code from one network `await` to the next; FSM operations on memory storage do not suspend. `Dispatch` is aiogram's choice of a handler, made on the state read *before* the body runs |
| `Conversation` | abstract specification | what the prompts and the README promise a user, without tasks and without Telegram |
| `FlowRaces` | `Flow` with two observations | `overtaken`: the updates in progress during which another one changed the session; `raced`: the prompt for a period now shown was set by such an update |
| `FlowSerial` | `Flow` with one update at a time | maps `state`, `data` and the running query to `Conversation` |
| `MCFlowCancel` | `Flow` with a ghost | remembers the fetches in flight at a reset |
| `Gatekeeper` | both middlewares | `pending` counts updates of a user between whitelist and limiter, where filters run; `Throttle` and `Accept` are the two ways through the limiter |
| `HttpSend` | `_send` | one action per way an attempt ends; `Backoff` is the sleep. `ClientErrors` is what the exchange's `_raise_client_error` may raise; `Age` is the least age of the signature when an attempt is sent, in half-seconds |
| `Windows` | `iter_windows` | `Yield` is one turn of the generator, days are numbers |
| `Collect` | `get_commission` of the paged adapters, extends `Windows` | window, slice (BitMart's currencies, WEEX's product types) and page loops; `...IsDone` are the break conditions; `Book` is the exchange, which lists the oldest or (`newest`) the newest record first |
| `Report` | a row in each adapter, `CommissionResult`, `money.py`, `rendering.py` | one action per adapter and row, one per adapter's finish, `Render`; amounts in thousandths, or NaN, infinite, unreadable, empty, missing |
| `Periods` | presets, validation, Bybit's window | every day of some years; dates as in Python's `datetime`; `BybitPeriod` is the choice between the 30-day and the 365-day figure |
| `Startup` | credentials, adapters, shutdown | `Consider` is one turn of `available_exchanges`, `Close` one of the closing loop |
| `...Proofs` | | theorems of the module in front of the suffix |
| `MC...` | | instances for TLC |

`orphaned` in `Flow`, `overtaken` and `raced` in `FlowRaces`, `verdicts` in `Gatekeeper`, `answers` and `slept` in
`HttpSend`, `windows` in `Windows`, `counted` and `owed` in `Collect`, `closed`
in `Startup`, `rows` in `Report` are observations: the code has no such variable, no action reads
them, properties do (`Windows` and `Collect` read the last window yielded, which
is the loop variable of the code; the guards of `Report` read the number of rows,
which is its bound).

Definitions marked "faulty" are not part of any next-state relation. Each stands
for a plausible mistake in the definition of the like name; `PROJECT.json`
pairs it with the property that fails when it takes that definition's place.

How they compose: `Gatekeeper` delivers the updates `Flow` dispatches (an
update it drops is no step of `Flow`); a fetch of `Flow` (`query`) is a behaviour
of `Collect`, whose outcome is one of `QuerySucceeds`, `QueryFails`,
`QueryRefused`, `QueryRaises`; each page of `Collect` is a behaviour of
`HttpSend`, and the records `Collect` counts are the rows `Report` adds up. The
phases of `Report` are the ways a fetch of `Flow` goes on: "refused" is
`QueryFails`, "raised" is `QueryRaises` (the session stays in "fetching"),
"shown" is `QuerySucceeds`, and "unrendered" an exception after the session was
reset. `Collect` extends `Windows`; the period comes from `Periods`; the
`adapters` of `Flow` are those `Startup` ends with.

## 3. Runs

| Run | Instance | Shows |
|---|---|---|
| `flow_concurrent` | 3 updates in flight, 2 exchanges of which restarts configure 0, 1 or 2, a UID, a period, a text that is neither; symmetric in updates | `WaitingHasInputs`, `OnlyConfiguredExchanges`, `FetchingHasOwner` under every interleaving; `InputsLostOnlyInRaces`: exchange or UID is missing only where an update was overtaken |
| `flow_liveness` | 2 updates, fairness, no symmetry | `FetchingEnds` |
| `flow_serial` | 1 update, 2 UIDs | `KeepsPromise`: refinement of `Conversation`; `NoMissingKey` |
| `flow_cancel` (violation) | 2 updates | a cancelled calculation comes back |
| `gatekeeper` | 2 owners, a stranger, 5 ticks, interval 2, 2 pending updates per user, 4 verdicts | `Spacing`, `ThrottledWithCause`, `StrangersLeaveNoTrace` |
| `http_send` | settings -1, 0, 1, 3, 7 | bounds, no retry of definitive answers, honest giving up, `SignatureOutlastsPauses`, termination |
| `http_bitmart` (violation) | the same with BitMart's errors | throttled without a retry |
| `collect` | 6 exchanges, 3 days, windows of 1 or 2, pages of 2, 4 records for three (day, slice) pairs, either order, page counts reported or not | `CountedOnce`, `RepetitionsExplained`, `ResultIsComplete`, `Advances`, `Ends`, and of the windows `WithinCap`, `Partition`, `FittingIsWhole` |
| `report` | 8 exchanges and the stub, any two rows, amounts -5, 0, 4 thousandths and what is no number | `ShownAddsUp`, `StopsWithCause`, `CaveatsShown` |
| `periods` | each day of 2023-2025 and 2099-2101 | `CalculationsAllowed`, `WholeMonth`, `BybitMeetsMonth`, `MonthsInOrder` |
| `startup` | KuCoin (key, secret, passphrase) and BitMart (key), every environment | `MenuIsWhatIsConfigured`, `OnlyDecrypted`, `StoppedAllClosed` |
| `startup_blank` (violation) | the same | a blank exchange is registered |

**Bounds.** Three updates are the fewest with which a reset and a newer
conversation run beside an older fetch; two suffice for each pairwise race.
Two exchanges are a configured one and one that a restart takes away. Four
verdicts hold an accepted update, two throttled ones and the next accepted one.
Seven retries is the first setting at which pauses without the cap would
break the bound. Four records
on pages of two give empty, partial, exactly full and two full pages, and a
booking between any two pages. The three pairs of `Bookings` are two days, in one
window or in two, and two slices; longer periods and wider windows are left to
the proofs, which hold for all. Two rows are the fewest with which amounts add up
in one line, in two lines of one coin, or a bad row follows or precedes a good
one; -5 thousandths round away from zero, 4 and 4 make a cent together that
neither makes alone, 0 is the amount several adapters test for. 2024 is a leap year, 2100 a century that is not.
The bounds in guards are `TaskIds` (updates in flight), `MaxTime`, `MaxPending`,
`MaxVerdicts`, `MaxRecords`, `MaxRows`; `Bookings`, `Numbers` and `Years` bound
what is enumerated.

**Deadlock** is checked in the conversation and limiter runs. The other modules
describe computations that end, or a calendar that does.

**Fairness.** `Flow!FairSpec`: asyncio runs every ready task, and every awaited
call ends: aiogram puts a timeout on Telegram calls, an exchange request ends by
httpx's timeouts and the bounded retries (`HttpSend!Terminates`) and page loops
(`Collect!Ends`). httpx's read timeout is per chunk, so an exchange that drips
bytes for ever is outside the assumption. Restarts and new updates are not fair:
nothing obliges a user to press a button. `HttpSend` and `Collect` assume only
that a started step of the adapter ends; bookings are not fair.

## 4. Disagreements between code and documents

1. `/cancel` is documented as resetting the current calculation; the fetch in
   flight goes on, and its result replaces the session (`flow_cancel`).
2. A rate-limit error is documented as raised after the retries are exhausted;
   BitMart's HTTP 418 raises it at once (`http_bitmart`).
3. A blank exchange is documented as skipped; a blank variable is not `None`, so
   it is registered with empty credentials (`startup_blank`).

More limits are visible in the models, of which no document says otherwise:

* Refinement of `Conversation` needs one update at a time: with two, the result
  of an older fetch may replace the data of a newer conversation.
* Such a result also drops the UID of the newer conversation, whose next prompt
  is then for a period without one: the preset's handler raises `KeyError`. Only
  an update that another one overtook leaves such a prompt
  (`InputsLostOnlyInRaces`), so a single chain of updates never meets it.
* Without the page count the adapter stops at, a result may be incomplete: BitMart
  without `total`, WEEX without `pages`, MEXC without `totalPage` and Bitget
  without `endId` stop after a full first page. `ResultIsComplete` says that what
  is missing then comes after a full page of the same window and slice.
* An exchange that lists the newest record first shifts every later page when it
  books one: the record at the page boundary is added again, at most once per
  late booking (`RepetitionsExplained`). Only Bitget reads by cursor.
* A signature is made once per request. With up to three retries the pauses alone
  never make it too old for Bybit's five seconds; one timeout always does, and
  then every later attempt can only be refused (`SignatureOutlastsPauses`). From
  four retries on the pauses alone (7.5 s) do. A slow failure of another kind
  ages it as well: `Age` is a lower bound.
* A NaN or unreadable amount raises an exception `flow.py` does not catch, and
  the session stays in "fetching"; an infinite USDT amount fails in rendering,
  after the session was reset.
* A row whose coin field (Bitget, WEEX) or uid field (MEXC) has another name
  vanishes without a trace (`Unrecognised`); a MEXC total that is not positive is
  shown as nothing found.
* Asked for on the 27th, the preset month and Bybit's 30 days have about four
  days in common (`BybitMeetsMonth` shows they always have some).

## 5. Proofs

All theorems hold for every value of the constants under the modules' named
assumptions. Each is proved by an inductive invariant, one step per action.

* `FlowProofs`: `FlowTypeOK` first; `WaitingHasInputs`, `OnlyConfiguredExchanges`
  and `FetchingHasOwner` are then each inductive relative to `TypeOK`. They hold
  because each handler writes data and state with no await between, and because
  a task's own copy of the code (`tasks[t].code`) is checked against `adapters`,
  which only a restart changes, together with every task.
  With one task, `Linked` ties each label of the task to the session (the body
  of a handler finds the state it was chosen for, a fetch queries what the
  session holds, an exchange is chosen on an empty session). `SerialNoMissingKey`
  is part of it; `SerialKeepsPromise` maps every step to a step of `Conversation`
  or a stutter, on `Linked` before and after the step and the invariants above.
  These theorems have the hypothesis `OneAtATime`, which `MCFlowSerial` assumes
  of its instance.
  `RacesInputsLostOnlyInRaces` has no such hypothesis. `WaitingHasInputs` says
  nothing of "entering_period", the prompt for a custom period, because a late
  result may leave it without inputs. `Watched` adds that an update nobody
  overtook finds the session in the state it was matched on (`Undisturbed`). Only
  the handlers of the UID and of the custom preset set a prompt for a period
  (`ResumeMoves`); undisturbed they do so over a session that has the inputs.
* `GatekeeperProofs`: the limiter's table has to be tied to history: `Remembers`
  says `lastSeen[u]` is the time of the last accepted update of `u` among
  `verdicts`, and that no verdict is later than `now`. `Spacing` and
  `ThrottledWithCause` follow step by step from it.
* `HttpSendProofs`: `Counted` ties the number of answers to `attempt` and `pc`,
  `PastTransient` says all answers before the last are passing failures.
  `SendGivesUpExhausted` assumes that no client error is called a rate limit,
  which BitMart's adapter breaks (finding 2). `SendSignatureOutlastsPauses` adds
  `Slept`, the pauses taken after each number of attempts, and that the set of
  timed-out attempts is finite: the pauses of three retries stay within Bybit's
  window, one timeout does not.
* `WindowsProofs`: `Tiled` says the windows so far are in order, adjacent, and
  tile the days from `from` up to `cursor`; the three properties follow.
* `PeriodsProofs`: one fact of the calendar carries all four properties: the
  ordinal of the first of a month plus the length of the month is the ordinal of
  the first of the next (`NextMonthFollows` and `MonthInOrdinals`, from how the quotients by 4, 100 and
  400 grow). So the days of the calendar are dates, and the preset months follow
  each other. `Years` lies in 2..9999 because Python's dates have no year 0.
* `CollectProofs`: every step of `Collect` is a step of `Windows` or leaves the
  windows alone, so they tile its period too. Five invariants follow each other:
  * `Behind` says where a record may be that has been counted: in a window or
    slice already left, or on a page of this slice already read (its rank is at
    most `page * PageSize`, or it is not below Bitget's cursor). Since a booking
    changes no rank where the oldest is listed first, a page holds nothing that
    is behind: `CollectCountedOnce`.
  * `Owing` is the other half: what is owed has been counted, is `Ahead`, or is `Excused` by a full page that stood for the last
    where the exchange reports no count (`PageTakenForLast`). Ranks
    never fall, whichever end is listed first, and a page after which a record
    comes is full (`PageFull`, by counting the records before the first one left
    over), so none of the six stop conditions, told the count, leaves a record ahead:
    `CollectResultIsComplete`.
  * `Bounded` says every page but the last held a record, and Bitget's cursor
    fell with each, so there are at most as many pages as records:
    `CollectTypeOK`.
  * `Paid` charges every repetition to a late record of its slice, and no record
    twice. Up to any record n, the places already read are taken by records read
    or late, since what is owed is still ahead (`Owing`); a page that repeats
    records therefore has as many late ones before it (`PagePaid`, by counting
    both): `CollectRepetitionsExplained`.
  * `Remaining` counts days, slices and pages still to be read as the digits of
    one number. `CollectAdvances` says that every step of the adapter takes
    something off it and that it never falls below zero: the half of `Ends` that
    is not fairness.

  `CollectAssumption` excludes Bitget from `NewestFirst`: it reads by cursor and
  has no numbered pages that a booking could shift.
* `StartupProofs`: both loops walk `Specs` with `index`; `LoopsDone` says what is
  true of the exchanges passed so far, also when the second is cut short.
* `ReportProofs`: `IInv` ties notes, period, Bybit's flag and MEXC's total to the
  rows that passed. `Adds` ties the result's sums to the amounts those rows
  state: what is added up under a coin, or not at all, is what is listed.
  `ShownAddsUp` and `StopsWithCause` follow. Sums over a set are folds, and the
  library's induction theorems are out of the provers' reach; what is needed of
  a fold (its value depends neither on the order nor on how it is split:
  `FoldTakesOut`, `SumWithMore`) is proved by contradiction, on a smallest part
  of the set that breaks it (`SmallestPart`, `LeastExists`).

Only model-checked: the liveness properties `FetchingEnds`, `Terminates` and
`Ends`, because fairness and ENABLED are beyond the prover. Every
invariant and every action property of a passing run, and the refinement of
`Conversation`, is stated by a theorem.

## 6. Not modelled

Texts, labels, keyboards' layout, the order of lines in the message, logging and
redaction, signing (pure functions), the parsing of dates and UIDs (valid or
not), the UTC+8 shift of three adapters (it moves both ends of every window
alike), the truncation of long alerts, the encryption CLI, the smoke script, CI
and deployment, and the payout draft, which has no code.

`Collect` leaves out other envelope shapes the adapters tolerate. `Report` leaves
out a scalar in place of Bybit's map of coins, amounts that are no scalar,
precision beyond Decimal's 28 digits, and the value of BitMart's top-level sum
(`Collect` says when it is added). The time an attempt
takes in `HttpSend` is a lower bound: ten seconds for a timeout, else nothing.

## 7. Plan

Done, in the order of importance: `Flow` with `Conversation` and `FlowSerial`;
`Gatekeeper`; `HttpSend` with the signature's age; `Windows` and `Collect` in
either order of listing; `Periods` with Bybit's windows; `Startup`; `Report`;
proofs of everything that is no liveness property.

Next: a composition of `Gatekeeper` and `Flow`, where the limiter's spacing
narrows the races of `Flow`, with the invariants of both carried over to it by
refinement.
