-------------------------------- MODULE Flow --------------------------------
(***************************************************************************)
(* The conversation of bot/handlers/flow.py with one user, driven by       *)
(* aiogram: every update the bot receives runs in an asyncio task of its   *)
(* own, the tasks of one user are not serialised, and they share one       *)
(* session (FSM state and FSM data) kept in memory.                        *)
(*                                                                         *)
(* A task is interrupted only where it awaits the network: a Telegram      *)
(* call, a request to an exchange, or, before its first line, the filters  *)
(* aiogram runs in a thread.  One action below is what a task does from    *)
(* one such point to the next.  The session operations (get_data,          *)
(* update_data, set_state, set_data, clear) touch a dict and do not        *)
(* suspend.                                                                *)
(*                                                                         *)
(* Sessions are keyed by user and chat and never touch one another, so one *)
(* session is modelled.  An update the rate limiter drops reaches no       *)
(* handler and changes nothing here; Gatekeeper.tla models the limiter.    *)
(***************************************************************************)
EXTENDS Naturals, FiniteSets

CONSTANTS
  Codes,      \* exchange codes a button may carry
  Configs,    \* sets of exchanges the bot may be (re)started with
  Uids,       \* texts validate_uid accepts, up to surrounding blanks
  Periods,    \* texts parse_period and validate_period accept
  Junk,       \* texts neither accepts
  TaskIds,    \* updates of this user in progress at once: bounds the model
  None        \* an absent key of the session data

ASSUME ConfigsAssumption == Configs \subseteq SUBSET Codes /\ Configs # {}
ASSUME DisjointAssumption ==
  /\ Uids \cap (Periods \cup Junk) = {}    \* a UID has no '.' and no '-'
  /\ None \notin Codes \cup Uids

VARIABLES
  adapters,   \* codes of the registered exchanges, fixed while the bot runs
  state,      \* FSM state of the session
  data,       \* FSM data: exchange_code (its label moves with it) and uid
  tasks,      \* what each running update is about to do
  orphaned    \* observation: a fetch has raised since state became "fetching"

session == <<state, data, orphaned>>
vars == <<adapters, state, data, tasks, orphaned>>

States == {"idle", "choosing_exchange", "entering_uid", "choosing_period",
           "entering_period", "fetching"}
Kinds == {"smart_month", "last30", "custom", "other"}
Texts == Uids \cup Periods \cup Junk

SessionData == [code : Codes \cup {None}, uid : Uids \cup {None}]
NoData == [code |-> None, uid |-> None]
Free == [pc |-> "free", arg |-> None, code |-> None, uid |-> None]

\* Where a task may be.  First line: matched to a handler whose body has not
\* begun.  Second line: awaiting a Telegram call with more to do after it.
\* Third line: inside _fetch_and_render.  Last line: awaiting its last reply,
\* or handed to the global error handler.
Bodies == {"reset", "start_calc", "exchange", "same_exchange", "uid", "preset", "period"}
Midway == {"menu", "picked", "last_words"}
Fetch == {"status", "query", "auth"}
Labels == Bodies \cup Midway \cup Fetch \cup {"reply", "error", "free"}

\* Awaiting a Telegram call, which may raise.
AwaitsTelegram == Midway \cup {"status", "reply"}

Task == [pc   : Labels,
         arg  : Codes \cup Texts \cup Kinds \cup {None},   \* button or text
         code : Codes \cup {None},                         \* what a fetch queries
         uid  : Uids \cup {None}]

TypeOK ==
  /\ adapters \in Configs
  /\ state \in States
  /\ data \in SessionData
  /\ tasks \in [TaskIds -> Task]
  /\ orphaned \in BOOLEAN

Init ==
  /\ adapters \in Configs
  /\ state = "idle"
  /\ data = NoData
  /\ tasks = [t \in TaskIds |-> Free]
  /\ orphaned = FALSE

-----------------------------------------------------------------------------
(* Steps of a task and writes to the session.                              *)

At(t, label) == tasks[t].pc = label
Goto(t, label) == tasks' = [tasks EXCEPT ![t].pc = label]
Finish(t) == tasks' = [tasks EXCEPT ![t] = Free]

SetState(s) == state' = s /\ orphaned' = FALSE
Clear == SetState("idle") /\ data' = NoData

\* An exception leaves the handler: the session stays as it is.
Raise(t) ==
  /\ Goto(t, "error")
  /\ orphaned' = (orphaned \/ (state = "fetching" /\ tasks[t].pc \in Fetch))
  /\ UNCHANGED <<adapters, state, data>>

-----------------------------------------------------------------------------
(* Faulty versions of some of the steps below.  None of them is part of     *)
(* Next: each stands for a plausible mistake in the handler of the like     *)
(* name, and some property must fail when it takes that handler's place.    *)

\* A Cancel that leaves the session data behind.
ResetStateOnly(t) ==
  /\ At(t, "reset")
  /\ SetState("idle")
  /\ Goto(t, "reply")
  /\ UNCHANGED <<adapters, data>>

\* The button is trusted.
ExchangeUnchecked(t) ==
  /\ At(t, "exchange")
  /\ data' = [data EXCEPT !.code = tasks[t].arg]
  /\ SetState("entering_uid")
  /\ Goto(t, "reply")
  /\ UNCHANGED adapters

\* An expired session is resumed like any other.
SameExchangeUnchecked(t) ==
  /\ At(t, "same_exchange")
  /\ data' = [data EXCEPT !.uid = None]
  /\ SetState("entering_uid")
  /\ Goto(t, "reply")
  /\ UNCHANGED adapters

\* The text is stored as it came.
UidUnchecked(t) ==
  /\ At(t, "uid")
  /\ data' = [data EXCEPT !.uid = tasks[t].arg]
  /\ SetState("choosing_period")
  /\ Goto(t, "reply")
  /\ UNCHANGED adapters

\* The data are replaced where they should be updated: the exchange is lost.
UidReplacesData(t) ==
  /\ At(t, "uid")
  /\ \/ /\ tasks[t].arg \in Uids
        /\ data' = [NoData EXCEPT !.uid = tasks[t].arg]
        /\ SetState("choosing_period")
     \/ tasks[t].arg \notin Uids /\ UNCHANGED session
  /\ Goto(t, "reply")
  /\ UNCHANGED adapters

\* _fail that forgets set_state(None).
QueryFailsSilently(t) ==
  /\ At(t, "query")
  /\ Goto(t, "reply")
  /\ UNCHANGED <<adapters, session>>

\* A storage that survives the restart.
RestartKeepingSession ==
  /\ adapters' \in Configs
  /\ tasks' = [t \in TaskIds |-> Free]
  /\ UNCHANGED session

-----------------------------------------------------------------------------
(* Dispatch.  The raw state is read and the filters choose the handler now; *)
(* the body runs in a later step, whatever the state is by then.            *)

\* The (first label, argument) pairs of the handlers that match in state s.
\* /start, /cancel and the Cancel button reset the session; /help and, while
\* a button press is awaited, any other message only get a reply.
Routes(s) ==
  {<<"reset", None>>, <<"start_calc", None>>, <<"same_exchange", None>>, <<"reply", None>>}
  \cup {<<"exchange", c>> : c \in IF s = "choosing_exchange" THEN Codes ELSE {}}
  \cup {<<"uid", x>>      : x \in IF s = "entering_uid" THEN Texts ELSE {}}
  \cup {<<"preset", k>>   : k \in IF s = "choosing_period" THEN Kinds ELSE {}}
  \cup {<<"period", x>>   : x \in IF s = "entering_period" THEN Texts ELSE {}}

Dispatch(t) ==
  /\ At(t, "free")
  /\ \E r \in Routes(state) :
       tasks' = [tasks EXCEPT ![t] = [Free EXCEPT !.pc = r[1], !.arg = r[2]]]
  /\ UNCHANGED <<adapters, state, data, orphaned>>

-----------------------------------------------------------------------------
(* Entry points.                                                           *)

\* handle_start, on_cancel_cmd, on_cancel_cb.
Reset(t) ==
  /\ At(t, "reset")
  /\ Clear
  /\ Goto(t, "reply")
  /\ UNCHANGED adapters

StartCalc(t) ==
  /\ At(t, "start_calc")
  /\ Clear
  /\ Goto(t, "menu")
  /\ UNCHANGED adapters

\* callback.answer has returned.  The message the button hangs on may be too
\* old to be edited; without a configured exchange there is no menu.
ShowExchanges(t) ==
  /\ At(t, "menu")
  /\ UNCHANGED <<adapters, data>>
  /\ \/ Finish(t) /\ UNCHANGED <<state, orphaned>>
     \/ adapters = {} /\ Goto(t, "last_words") /\ UNCHANGED <<state, orphaned>>
     \/ adapters # {} /\ SetState("choosing_exchange") /\ Goto(t, "reply")

\* The message before the final state.clear() has been sent.
LastWordsSent(t) ==
  /\ At(t, "last_words")
  /\ Clear
  /\ Finish(t)
  /\ UNCHANGED adapters

-----------------------------------------------------------------------------
(* Exchange and UID.                                                       *)

\* The button of an exchange that is not configured any more only alerts.
ExchangeChosen(t) ==
  /\ At(t, "exchange")
  /\ \/ /\ tasks[t].arg \in adapters
        /\ data' = [data EXCEPT !.code = tasks[t].arg]
        /\ SetState("entering_uid")
     \/ tasks[t].arg \notin adapters /\ UNCHANGED session
  /\ Goto(t, "reply")
  /\ UNCHANGED adapters

SameExchange(t) ==
  /\ At(t, "same_exchange")
  /\ \/ /\ data.code # None
        /\ data' = [data EXCEPT !.uid = None]
        /\ SetState("entering_uid")
     \/ data.code = None /\ UNCHANGED session
  /\ Goto(t, "reply")
  /\ UNCHANGED adapters

UidEntered(t) ==
  /\ At(t, "uid")
  /\ \/ /\ tasks[t].arg \in Uids
        /\ data' = [data EXCEPT !.uid = tasks[t].arg]
        /\ SetState("choosing_period")
     \/ tasks[t].arg \notin Uids /\ UNCHANGED session
  /\ Goto(t, "reply")
  /\ UNCHANGED adapters

-----------------------------------------------------------------------------
(* The fetch.                                                              *)

\* _fetch_and_render up to its first await: a missing key raises; the branch
\* for an exchange that has disappeared replies and clears.
BeginFetch(t) ==
  \/ None \in {data.code, data.uid} /\ Raise(t)
  \/ /\ None \notin {data.code, data.uid}
     /\ IF data.code \in adapters
          THEN /\ SetState("fetching")
               /\ tasks' = [tasks EXCEPT ![t] =
                    [@ EXCEPT !.pc = "status", !.code = data.code, !.uid = data.uid]]
          ELSE Goto(t, "last_words") /\ UNCHANGED <<state, orphaned>>
     /\ UNCHANGED <<adapters, data>>

\* on_preset_chosen answers the callback before it looks at anything.
PresetChosen(t) ==
  /\ At(t, "preset")
  /\ Goto(t, "picked")
  /\ UNCHANGED <<adapters, session>>

PresetAnswered(t) ==
  /\ At(t, "picked")
  /\ \/ Finish(t) /\ UNCHANGED <<adapters, session>>
     \/ /\ tasks[t].arg = "custom"
        /\ SetState("entering_period")
        /\ Goto(t, "reply")
        /\ UNCHANGED <<adapters, data>>
     \/ tasks[t].arg \in {"smart_month", "last30"} /\ BeginFetch(t)
     \/ tasks[t].arg = "other" /\ Goto(t, "last_words") /\ UNCHANGED <<adapters, session>>

PeriodEntered(t) ==
  /\ At(t, "period")
  /\ \/ tasks[t].arg \in Periods /\ BeginFetch(t)
     \/ tasks[t].arg \notin Periods /\ Goto(t, "reply") /\ UNCHANGED <<adapters, session>>

\* The status message is sent; the adapter is called.
StatusSent(t) ==
  /\ At(t, "status")
  /\ Goto(t, "query")
  /\ UNCHANGED <<adapters, session>>

\* The result arrives: the exchange is kept for same_exchange, the rest of
\* the session, whatever it holds by now, is replaced.
QuerySucceeds(t) ==
  /\ At(t, "query")
  /\ SetState("idle")
  /\ data' = [NoData EXCEPT !.code = tasks[t].code]
  /\ Goto(t, "reply")
  /\ UNCHANGED adapters

\* A rate-limit, unavailable or API error: _fail.
QueryFails(t) ==
  /\ At(t, "query")
  /\ SetState("idle")
  /\ Goto(t, "reply")
  /\ UNCHANGED <<adapters, data>>

\* An authentication error: the developer is alerted first.
QueryRefused(t) ==
  /\ At(t, "query")
  /\ Goto(t, "auth")
  /\ UNCHANGED <<adapters, session>>

\* The alerter never raises; then _fail.
DeveloperAlerted(t) ==
  /\ At(t, "auth")
  /\ SetState("idle")
  /\ Goto(t, "reply")
  /\ UNCHANGED <<adapters, data>>

\* Any other exception of the adapter is not caught in flow.py.
QueryRaises(t) == At(t, "query") /\ Raise(t)

-----------------------------------------------------------------------------
(* Replies, Telegram failures, the global error handler, restarts.         *)

Replied(t) ==
  /\ At(t, "reply")
  /\ Finish(t)
  /\ UNCHANGED <<adapters, session>>

TelegramFails(t) == tasks[t].pc \in AwaitsTelegram /\ Raise(t)

\* handle_error alerts and replies on a best-effort basis; it never re-raises
\* and leaves the session alone.
HandleError(t) ==
  /\ At(t, "error")
  /\ Finish(t)
  /\ UNCHANGED <<adapters, session>>

\* The process stops and starts again: MemoryStorage and the running tasks
\* are gone, the updates of the meantime are dropped.
Restart ==
  /\ adapters' \in Configs
  /\ Clear
  /\ tasks' = [t \in TaskIds |-> Free]

\* Task t runs from where it waits to where it waits next.
Resume(t) ==
  \/ Reset(t) \/ StartCalc(t) \/ ShowExchanges(t) \/ LastWordsSent(t)
  \/ ExchangeChosen(t) \/ SameExchange(t) \/ UidEntered(t)
  \/ PresetChosen(t) \/ PresetAnswered(t) \/ PeriodEntered(t)
  \/ StatusSent(t)
  \/ QuerySucceeds(t) \/ QueryFails(t) \/ QueryRefused(t) \/ QueryRaises(t)
  \/ DeveloperAlerted(t)
  \/ Replied(t) \/ TelegramFails(t) \/ HandleError(t)

Next ==
  \/ \E t \in TaskIds : Dispatch(t) \/ Resume(t)
  \/ Restart

Spec == Init /\ [][Next]_vars

\* The event loop is fair to its tasks, and every awaited call ends: Telegram
\* calls by aiogram's request timeout, an exchange request by the timeout and
\* the bounded retries of base_http.py.
FairSpec == Spec /\ \A t \in TaskIds : WF_vars(Resume(t))

-----------------------------------------------------------------------------
(* Properties.  They hold however the tasks of one user interleave.        *)

\* The UID prompt has an exchange, the preset keyboard a UID, a calculation
\* both.  Each of their handlers moves state and data with no await between
\* the two writes; with one, a concurrent clear or result would slip in.  The
\* prompt for a custom period is not among them, and the preset keyboard may
\* lack its exchange: see FlowRaces.
WaitingHasInputs ==
  /\ state = "entering_uid" => data.code # None
  /\ state = "choosing_period" => data.uid # None
  /\ state = "fetching" => None \notin {data.code, data.uid}

\* No exchange the bot was not started with is ever remembered or queried,
\* whichever old button is pressed and across restarts: _fetch_and_render's
\* branch for an exchange that has disappeared is never taken.
OnlyConfiguredExchanges ==
  /\ data.code \in adapters \cup {None}
  /\ \A t \in TaskIds : tasks[t].pc \in Fetch => tasks[t].code \in adapters

\* State "fetching" locks the user out of every text and preset handler, so
\* it must have an owner that will leave it: a fetch in flight.  Only an
\* exception flow.py does not catch can strand a user in it.
FetchingHasOwner ==
  state = "fetching" => orphaned \/ \E t \in TaskIds : tasks[t].pc \in Fetch

\* A calculation is not shown as running for ever: "fetching" is left unless
\* its fetch raised.  Needs every way out of the fetch to reset the state.
FetchingEnds == state = "fetching" ~> state # "fetching" \/ orphaned

=============================================================================
