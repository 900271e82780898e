------------------------------ MODULE HttpSend ------------------------------
(***************************************************************************)
(* BaseHttpAdapter._send (bot/exchanges/base_http.py): one signed request  *)
(* to an exchange, repeated after a growing pause while the failure looks  *)
(* passing, and turned into a parsed answer or into one of the errors the  *)
(* handlers know.                                                          *)
(***************************************************************************)
EXTENDS Integers, Sequences, FiniteSets

CONSTANTS
  Settings,     \* values HTTP_MAX_RETRIES may have
  ClientErrors  \* errors _raise_client_error may raise for this exchange:
                \* {"api"} by default, Bitget adds "auth", BitMart "ratelimit"

ASSUME SettingsAssumption == Settings \subseteq Int
ASSUME ClientErrorsAssumption ==
  ClientErrors # {} /\ ClientErrors \subseteq {"api", "auth", "ratelimit"}

VARIABLES
  maxRetries,  \* _max_retries, fixed when the adapter is built
  pc,          \* "sending", "backoff" or "done"
  attempt,     \* the loop variable
  answers,     \* observation: how each attempt so far went
  slept,       \* observation: half-seconds spent in _backoff
  outcome      \* what _send returned or raised

vars == <<maxRetries, pc, attempt, answers, slept, outcome>>

\* Ways an attempt can go that are worth repeating: a timeout, another
\* transport error, HTTP 429, HTTP 5xx.
Transient == {"timeout", "network", "throttled", "server"}

\* Ways that end the matter: a credential that is not ASCII, HTTP 401/403,
\* another 4xx, a body that is JSON or is not (a redirect's among them), an
\* httpx error outside the caught classes (undecodable body).
Definitive == {"non_ascii", "refused", "client", "json", "not_json", "undecodable"}

Outcomes == {"none", "value", "auth", "api", "ratelimit", "unavailable", "uncaught"}

TypeOK ==
  /\ maxRetries \in Nat
  /\ pc \in {"sending", "backoff", "done"}
  /\ attempt \in 0..maxRetries
  /\ answers \in Seq(Transient \cup Definitive)
  /\ slept \in Nat
  /\ outcome \in Outcomes

\* The setting as it is (a faulty version of the next definition).
NotClamped(n) == n

\* A negative setting counts as zero.
AtLeastZero(n) == IF n < 0 THEN 0 ELSE n

Init ==
  /\ maxRetries \in {AtLeastZero(n) : n \in Settings}
  /\ pc = "sending"
  /\ attempt = 0
  /\ answers = <<>>
  /\ slept = 0
  /\ outcome = "none"

-----------------------------------------------------------------------------

\* A pause that doubles for ever (a faulty version of the next definition).
DelayUncapped(n) == 2^n

\* Pauses from one second on (a faulty version of the next definition).
DelayFromOneSecond(n) == IF n < 3 THEN <<2, 4, 8>>[n + 1] ELSE 16

\* min(0.5 * 2^attempt, 8) seconds, in half-seconds: 2^attempt up to 16.
Delay(n) == IF n < 4 THEN <<1, 2, 4, 8>>[n + 1] ELSE 16

\* The error when the retries are exhausted.
Exhausted(kind) == IF kind = "throttled" THEN "ratelimit" ELSE "unavailable"

\* What a definitive answer may become.
Verdicts(kind) ==
  CASE kind \in {"non_ascii", "refused"} -> {"auth"}
    [] kind = "client" -> ClientErrors
    [] kind = "json" -> {"value"}
    [] kind = "not_json" -> {"api"}
    [] kind = "undecodable" -> {"uncaught"}

Record(kind) == answers' = Append(answers, kind)

\* The error is logged and not raised (a faulty version of the next definition).
EndSilently(result) == pc' = "done" /\ UNCHANGED outcome

End(result) == pc' = "done" /\ outcome' = result

\* Faulty versions, not part of Next: retries off by one, giving up without
\* retrying, and a refusal that is retried.
RetryOneMore(kind) ==
  /\ pc = "sending" /\ Len(answers) <= maxRetries + 1
  /\ Record(kind)
  /\ pc' = "backoff"
  /\ UNCHANGED <<maxRetries, attempt, slept, outcome>>

GiveUpEarly(kind) ==
  /\ pc = "sending"
  /\ Record(kind)
  /\ End(Exhausted(kind))
  /\ UNCHANGED <<maxRetries, attempt, slept>>

EndOrRetry(kind) ==
  /\ pc = "sending"
  /\ Record(kind)
  /\ \/ \E result \in Verdicts(kind) : End(result)
     \/ attempt < maxRetries /\ pc' = "backoff" /\ UNCHANGED outcome
  /\ UNCHANGED <<maxRetries, attempt, slept>>

-----------------------------------------------------------------------------

Retry(kind) ==
  /\ pc = "sending" /\ attempt < maxRetries
  /\ Record(kind)
  /\ pc' = "backoff"
  /\ UNCHANGED <<maxRetries, attempt, slept, outcome>>

GiveUp(kind) ==
  /\ pc = "sending" /\ attempt = maxRetries
  /\ Record(kind)
  /\ End(Exhausted(kind))
  /\ UNCHANGED <<maxRetries, attempt, slept>>

Settle(kind) ==
  /\ pc = "sending"
  /\ Record(kind)
  /\ \E result \in Verdicts(kind) : End(result)
  /\ UNCHANGED <<maxRetries, attempt, slept>>

\* _backoff, then the next turn of the loop.
Backoff ==
  /\ pc = "backoff"
  /\ pc' = "sending"
  /\ slept' = slept + Delay(attempt)
  /\ attempt' = attempt + 1
  /\ UNCHANGED <<maxRetries, answers, outcome>>

Next ==
  \/ \E kind \in Transient : Retry(kind) \/ GiveUp(kind)
  \/ \E kind \in Definitive : Settle(kind)
  \/ Backoff

Spec == Init /\ [][Next]_vars

\* Every attempt ends (httpx timeouts) and every sleep does.
FairSpec == Spec /\ WF_vars(Next)

-----------------------------------------------------------------------------
(* The signature.  Its timestamp is taken once, before _send, and every    *)
(* attempt sends the same headers.  Bybit states for how long it may be    *)
(* used; times are in half-seconds.                                        *)

DefaultRetries == 3
ConnectTimeout == 20   \* the shortest of the timeouts: 10 s
RecvWindow == 10       \* Bybit's 5000 ms

Timeouts == {i \in 1..Len(answers) : answers[i] = "timeout"}

\* The least age of the signature: the pauses, and what timeouts take.
Age == slept + ConnectTimeout * Cardinality(Timeouts)

-----------------------------------------------------------------------------
(* Properties.                                                             *)

\* One request costs the exchange at most _max_retries + 1 requests, also
\* when the setting is zero or negative.
AttemptsBounded == Len(answers) <= maxRetries + 1

\* Only passing failures are repeated: after a refusal, another client error
\* or any answer nothing more is sent.
OnlyTransientRepeated ==
  \A i \in 1..Len(answers) : i < Len(answers) \/ pc = "backoff" => answers[i] \in Transient

\* "Unavailable" and "rate limited" are said to the user only once every
\* retry has been spent: what base.py promises of these two errors.
GivesUpExhausted ==
  outcome \in {"unavailable", "ratelimit"} => Len(answers) = maxRetries + 1

\* The pauses add up to at least half a second and at most eight per retry:
\* a user waits no longer than the retries account for.
PausesBounded == slept >= attempt /\ slept <= 16 * attempt

\* With the retries of the default configuration the pauses alone never make
\* the signature too old for Bybit, and a timeout always does: a retry after
\* one can only be refused, any other may be accepted, if the failures before
\* it were quick.  Constants of three files (config.py, base_http.py, bybit.py)
\* decide it; a fourth retry, or pauses twice as long, would make every last
\* attempt a lost one.
SignatureOutlastsPauses ==
  pc = "sending" /\ maxRetries <= DefaultRetries =>
    /\ slept <= RecvWindow
    /\ Timeouts # {} => Age > RecvWindow

\* _send returns or raises in the end, whatever the exchange answers: the
\* retry loop cannot keep a calculation, and its user, waiting for ever.
Terminates == <>(pc = "done" /\ outcome # "none")

=============================================================================
