----------------------------- MODULE FlowSerial -----------------------------
(***************************************************************************)
(* Flow for a user who waits for the end of each update before sending the *)
(* next one, and what it implements then: the Conversation the bot         *)
(* promises.  Serial picks the one task there is; with two tasks the       *)
(* refinement fails (README.md, hazards).                                  *)
(***************************************************************************)
EXTENDS Flow

\* The user waits: there is never a second task.
OneAtATime == \E t \in TaskIds : TaskIds = {t}

\* The one update at a time.
Serial == CHOOSE t \in TaskIds : TRUE

\* The code has two states for the period, one per way of giving it.
Phase ==
  CASE state = "idle"              -> "idle"
    [] state = "choosing_exchange" -> "exchange"
    [] state = "entering_uid"      -> "uid"
    [] state \in {"choosing_period", "entering_period"} -> "period"
    [] state = "fetching"          -> "running"

\* While a fetch runs, what counts is what is being queried, not what the
\* session holds.
Querying == tasks[Serial].pc \in Fetch
Exchange == IF Querying THEN tasks[Serial].code ELSE data.code
Uid == IF Querying THEN tasks[Serial].uid ELSE data.uid

Promise == INSTANCE Conversation WITH phase <- Phase, exchange <- Exchange, uid <- Uid

\* One update at a time, the bot keeps the promise: the steps come in order,
\* and the calculation is for the exchange and the UID picked since the last
\* start, whatever old buttons are pressed and whatever fails on the way.
KeepsPromise == Promise!Spec

\* One update at a time, no handler finds a key of the session missing: a
\* period is never asked for, nor a fetch begun, without exchange and UID.
NoMissingKey ==
  state \in {"choosing_period", "entering_period", "fetching"} =>
    None \notin {data.code, data.uid}

=============================================================================
