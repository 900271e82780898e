----------------------------- MODULE Gatekeeper -----------------------------
(***************************************************************************)
(* What stands between Telegram and the handlers: the whitelist            *)
(* (bot/security/access.py, an outer middleware on every update) and the   *)
(* rate limiter (bot/security/ratelimit.py, one instance that is the inner *)
(* middleware of messages and callbacks), wired by build_dispatcher.       *)
(*                                                                         *)
(* Between the two run the filters that look for a handler: they suspend   *)
(* the update's task, so updates of all users pile up there, reach the     *)
(* limiter in any order and at any later time, or, matched by no handler,  *)
(* never reach it.  The limiter itself reads and sets last_seen with no    *)
(* await in between: one step.                                             *)
(***************************************************************************)
EXTENDS Integers, Sequences

CONSTANTS
  Users,        \* who writes to the bot
  Allowed,      \* allowed_telegram_ids
  MinInterval,  \* RATE_LIMIT_SECONDS, in clock ticks
  Never,        \* no entry in last_seen
  MaxTime,      \* bound: the clock stops here
  MaxPending,   \* bound: updates of one user between whitelist and limiter
  MaxVerdicts   \* bound: updates the limiter has judged

ASSUME AllowedAssumption == Allowed \subseteq Users
ASSUME TimeAssumption == MinInterval \in Nat /\ MaxTime \in Nat /\ Never \notin Int
ASSUME BoundAssumption == MaxPending \in Nat /\ MaxVerdicts \in Nat

VARIABLES
  now,        \* time.monotonic()
  pending,    \* per user: updates past the whitelist, not yet at the limiter
  lastSeen,   \* the limiter's _last_seen
  verdicts    \* observation: [user, at, accepted] of every update judged, in order

vars == <<now, pending, lastSeen, verdicts>>

Verdict == [user : Users, at : Nat, accepted : BOOLEAN]

TypeOK ==
  /\ now \in Nat
  /\ pending \in [Users -> Nat]
  /\ lastSeen \in [Users -> Nat \cup {Never}]
  /\ verdicts \in Seq(Verdict)

Init ==
  /\ now = 0
  /\ pending = [u \in Users |-> 0]
  /\ lastSeen = [u \in Users |-> Never]
  /\ verdicts = <<>>

-----------------------------------------------------------------------------

Judge(u, accepted) ==
  /\ pending' = [pending EXCEPT ![u] = @ - 1]
  /\ verdicts' = Append(verdicts, [user |-> u, at |-> now, accepted |-> accepted])

TooSoon(u) == lastSeen[u] # Never /\ now - lastSeen[u] < MinInterval

\* Faulty versions, not part of Next: a whitelist that lets everybody in, a
\* limiter that restarts the wait on a throttled update, one that does not
\* mark an accepted update at once, and one that marks its interval's start.
AdmitAnyone(u) ==
  /\ pending[u] < MaxPending
  /\ pending' = [pending EXCEPT ![u] = @ + 1]
  /\ UNCHANGED <<now, lastSeen, verdicts>>

ThrottleAndRestart(u) ==
  /\ pending[u] > 0 /\ Len(verdicts) < MaxVerdicts
  /\ TooSoon(u)
  /\ Judge(u, FALSE)
  /\ lastSeen' = [lastSeen EXCEPT ![u] = now]
  /\ UNCHANGED now

AcceptUnmarked(u) ==
  /\ pending[u] > 0 /\ Len(verdicts) < MaxVerdicts
  /\ ~TooSoon(u)
  /\ Judge(u, TRUE)
  /\ UNCHANGED <<now, lastSeen>>

AcceptBackdated(u) ==
  /\ pending[u] > 0 /\ Len(verdicts) < MaxVerdicts
  /\ ~TooSoon(u)
  /\ Judge(u, TRUE)
  /\ lastSeen' = [lastSeen EXCEPT ![u] = now - MinInterval]
  /\ UNCHANGED now

-----------------------------------------------------------------------------

\* WhitelistMiddleware: the update of a stranger is dropped.
Admit(u) ==
  /\ u \in Allowed
  /\ pending[u] < MaxPending
  /\ pending' = [pending EXCEPT ![u] = @ + 1]
  /\ UNCHANGED <<now, lastSeen, verdicts>>

\* No handler matches: the limiter never hears of the update.
Discard(u) ==
  /\ pending[u] > 0
  /\ pending' = [pending EXCEPT ![u] = @ - 1]
  /\ UNCHANGED <<now, lastSeen, verdicts>>

\* RateLimitMiddleware: a notice instead of the handler; last_seen stays.
Throttle(u) ==
  /\ pending[u] > 0 /\ Len(verdicts) < MaxVerdicts
  /\ TooSoon(u)
  /\ Judge(u, FALSE)
  /\ UNCHANGED <<now, lastSeen>>

\* RateLimitMiddleware: on to the handler.
Accept(u) ==
  /\ pending[u] > 0 /\ Len(verdicts) < MaxVerdicts
  /\ ~TooSoon(u)
  /\ Judge(u, TRUE)
  /\ lastSeen' = [lastSeen EXCEPT ![u] = now]
  /\ UNCHANGED now

Tick ==
  /\ now < MaxTime
  /\ now' = now + 1
  /\ UNCHANGED <<pending, lastSeen, verdicts>>

Next ==
  \/ \E u \in Users : Admit(u) \/ Discard(u) \/ Throttle(u) \/ Accept(u)
  \/ Tick

Spec == Init /\ [][Next]_vars

-----------------------------------------------------------------------------
(* Properties.                                                             *)

Judged == 1..Len(verdicts)

\* Whatever the delay between an update's arrival and its turn, two accepted
\* updates of a user, message or callback, are MinInterval apart: the
\* promise of RateLimitMiddleware's docstring, on which the protection of the
\* exchanges' own limits rests.
Spacing ==
  \A i, j \in Judged :
    /\ i < j
    /\ verdicts[i].user = verdicts[j].user
    /\ verdicts[i].accepted /\ verdicts[j].accepted
    => verdicts[j].at - verdicts[i].at >= MinInterval

\* Nobody is throttled without cause: an update is turned away only when one
\* of the same user was accepted less than MinInterval before.  A user who
\* keeps pressing is not locked out by the presses that were dropped, and
\* never pays for another user.
ThrottledWithCause ==
  \A j \in Judged : ~verdicts[j].accepted =>
    \E i \in Judged :
      /\ i < j
      /\ verdicts[i].user = verdicts[j].user
      /\ verdicts[i].accepted
      /\ verdicts[j].at - verdicts[i].at < MinInterval

\* Strangers leave no trace: no update of theirs waits for a handler or
\* reaches one, and the limiter's table, which is never pruned, holds
\* whitelisted users only.
StrangersLeaveNoTrace ==
  \A u \in Users \ Allowed :
    /\ pending[u] = 0
    /\ lastSeen[u] = Never
    /\ \A i \in Judged : verdicts[i].user # u

=============================================================================
