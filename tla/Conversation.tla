---------------------------- MODULE Conversation ----------------------------
(***************************************************************************)
(* What the bot promises a user whose updates it handles one at a time     *)
(* (README.md, TZ and the prompts of bot/handlers/flow.py): exchange, then *)
(* UID, then period, then the calculation, for exactly the exchange and    *)
(* the UID that were picked; at any moment the user may start over; after  *)
(* a calculation the exchange, and only it, may be reused.                 *)
(***************************************************************************)
EXTENDS Naturals

CONSTANTS Codes, Uids, None

VARIABLES
  phase,      \* what the bot waits for
  exchange,   \* the exchange picked, or the one being queried
  uid         \* the UID picked, or the one being queried

vars == <<phase, exchange, uid>>

Phases == {"idle", "exchange", "uid", "period", "running"}

Init == phase = "idle" /\ exchange = None /\ uid = None

\* /start, /cancel, Cancel, "new calculation": everything is forgotten.
StartOver == phase' = "idle" /\ exchange' = None /\ uid' = None

OfferExchanges ==
  /\ phase = "idle" /\ exchange = None /\ uid = None
  /\ phase' = "exchange"
  /\ UNCHANGED <<exchange, uid>>

PickExchange ==
  /\ phase = "exchange"
  /\ exchange' \in Codes
  /\ uid' = None
  /\ phase' = "uid"

\* "Same exchange": keeps the exchange, drops the rest.
ReuseExchange ==
  /\ exchange # None
  /\ phase' = "uid"
  /\ uid' = None
  /\ UNCHANGED exchange

PickUid ==
  /\ phase = "uid"
  /\ uid' \in Uids
  /\ phase' = "period"
  /\ UNCHANGED exchange

\* The period is picked: the query is for what was picked before.
Run ==
  /\ phase = "period"
  /\ exchange # None /\ uid # None
  /\ phase' = "running"
  /\ UNCHANGED <<exchange, uid>>

\* A result drops the UID, an error message keeps it.
Finish ==
  /\ phase = "running"
  /\ phase' = "idle"
  /\ uid' \in {uid, None}
  /\ UNCHANGED exchange

Next ==
  \/ StartOver \/ OfferExchanges \/ PickExchange \/ ReuseExchange
  \/ PickUid \/ Run \/ Finish

Spec == Init /\ [][Next]_vars

=============================================================================
