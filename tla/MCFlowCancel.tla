---------------------------- MODULE MCFlowCancel ----------------------------
(* Flow watched for what becomes of a calculation the user has reset.      *)
EXTENDS Flow

CONSTANTS bybit, gate

VARIABLE cancelled    \* fetches in flight when the user last reset the session

MCConfigs == {{bybit, gate}}

Fetching == {t \in TaskIds : tasks[t].pc \in Fetch}

WatchedInit == Init /\ cancelled = {}

WatchedNext ==
  /\ Next
  /\ LET reset == IF \E t \in TaskIds : Reset(t) THEN cancelled \cup Fetching ELSE cancelled
     IN  cancelled' = reset \cap {t \in TaskIds : tasks'[t].pc \in Fetch}

WatchedSpec == WatchedInit /\ [][WatchedNext]_<<vars, cancelled>>

\* The help text of start.py says of /cancel that it resets the current
\* calculation: a calculation that was reset should not come back with a
\* result and a session of its own.
ResetDiscardsCalculation ==
  [][\A t \in cancelled : ~QuerySucceeds(t)]_<<vars, cancelled>>

=============================================================================
