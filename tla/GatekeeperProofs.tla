-------------------------- MODULE GatekeeperProofs --------------------------
(***************************************************************************)
(* Gatekeeper's promises for any users, any interval and any bound.        *)
(*                                                                         *)
(* Spacing and ThrottledWithCause speak of the past, the limiter decides   *)
(* by last_seen: Remembers is the link between the two.                    *)
(***************************************************************************)
EXTENDS Gatekeeper, TLAPS

\* last_seen is the time of the user's latest accepted update, none is later
\* than the clock, and a user without an entry has had none accepted.
Remembers ==
  /\ \A i \in Judged : verdicts[i].at <= now
  /\ \A u \in Users :
       lastSeen[u] = Never =>
         \A i \in Judged : ~(verdicts[i].accepted /\ verdicts[i].user = u)
  /\ \A u \in Users :
       lastSeen[u] # Never =>
         /\ \E i \in Judged : verdicts[i].accepted /\ verdicts[i].user = u
                              /\ verdicts[i].at = lastSeen[u]
         /\ \A i \in Judged :
              verdicts[i].accepted /\ verdicts[i].user = u => verdicts[i].at <= lastSeen[u]

IInv == TypeOK /\ Remembers /\ Spacing /\ ThrottledWithCause /\ StrangersLeaveNoTrace

\* The verdicts on record are well typed.
LEMMA VerdictsTyped ==
  ASSUME TypeOK
  PROVE  /\ Len(verdicts) \in Nat
         /\ \A i \in Judged : i \in Nat /\ i <= Len(verdicts) /\ verdicts[i] \in Verdict
         /\ \A i \in Judged : verdicts[i].at \in Nat
<1>1. verdicts \in Seq(Verdict) BY DEF TypeOK
<1>2. /\ Len(verdicts) \in Nat
      /\ \A i \in Judged : i \in Nat /\ i <= Len(verdicts) /\ verdicts[i] \in Verdict
  BY <1>1 DEF Judged
<1> QED BY <1>2 DEF Verdict

\* What judging an update adds to the record.
LEMMA JudgeAppends ==
  ASSUME TypeOK, NEW u \in Users, NEW accepted \in BOOLEAN, Judge(u, accepted)
  PROVE  /\ verdicts' \in Seq(Verdict)
         /\ Len(verdicts') = Len(verdicts) + 1
         /\ Judged' = Judged \cup {Len(verdicts) + 1}
         /\ \A i \in Judged : verdicts'[i] = verdicts[i]
         /\ verdicts'[Len(verdicts) + 1] = [user |-> u, at |-> now, accepted |-> accepted]
<1>1. [user |-> u, at |-> now, accepted |-> accepted] \in Verdict BY DEF TypeOK, Verdict
<1>2. verdicts \in Seq(Verdict) BY DEF TypeOK
<1> QED BY <1>1, <1>2 DEF Judge, Judged

\* Nothing has been judged yet.
LEMMA InitIInv == Init => IInv
<1> USE AllowedAssumption, TimeAssumption
<1> SUFFICES ASSUME Init PROVE IInv OBVIOUS
<1>1. TypeOK BY DEF Init, TypeOK
<1>2. Judged = {} BY DEF Init, Judged
<1>3. Remembers BY <1>2 DEF Init, Remembers
<1>4. StrangersLeaveNoTrace BY <1>2 DEF Init, StrangersLeaveNoTrace
<1> QED BY <1>1, <1>2, <1>3, <1>4 DEF IInv, Spacing, ThrottledWithCause

\* Types: Discard is guarded by pending[u] > 0.
LEMMA StepTypeOK == ASSUME IInv, [Next]_vars PROVE TypeOK'
<1> USE DEF IInv
<1>1. ASSUME NEW u \in Users, Throttle(u) \/ Accept(u) PROVE TypeOK'
  <2>1. verdicts' \in Seq(Verdict) BY <1>1, JudgeAppends DEF Throttle, Accept
  <2>2. pending' \in [Users -> Nat]
    <3>1. pending[u] \in Nat /\ pending[u] > 0 BY <1>1 DEF Throttle, Accept, TypeOK
    <3>2. pending' = [pending EXCEPT ![u] = pending[u] - 1]
      BY <1>1 DEF Throttle, Accept, Judge
    <3> QED BY <3>1, <3>2 DEF TypeOK
  <2> QED BY <1>1, <2>1, <2>2 DEF Throttle, Accept, TypeOK
<1>2. ASSUME NEW u \in Users, Admit(u) \/ Discard(u) PROVE TypeOK'
  BY <1>2 DEF Admit, Discard, TypeOK
<1>3. CASE Tick \/ UNCHANGED vars BY <1>3 DEF Tick, vars, TypeOK
<1> QED BY <1>1, <1>2, <1>3 DEF Next

\* A step that judges nothing only lets time pass.
LEMMA StepWithoutVerdict ==
  ASSUME IInv, UNCHANGED <<lastSeen, verdicts>>, now' \in Nat, now' >= now
  PROVE  Remembers' /\ Spacing' /\ ThrottledWithCause'
<1>1. Judged' = Judged BY DEF Judged
<1>2. Remembers'
  <2>1. \A i \in Judged : verdicts[i].at \in Nat
    BY VerdictsTyped DEF IInv
  <2> QED BY <1>1, <2>1 DEF IInv, Remembers, TypeOK
<1> QED BY <1>1, <1>2 DEF IInv, Spacing, ThrottledWithCause

\* A throttled update adds a verdict whose cause is the entry last_seen.
LEMMA StepThrottle ==
  ASSUME IInv, NEW u \in Users, Throttle(u)
  PROVE  Remembers' /\ Spacing' /\ ThrottledWithCause'
<1> DEFINE n == Len(verdicts) + 1
<1>1. /\ Judged' = Judged \cup {n}
      /\ \A i \in Judged : verdicts'[i] = verdicts[i] /\ i < n /\ i \in Nat
      /\ verdicts'[n] = [user |-> u, at |-> now, accepted |-> FALSE]
      /\ n \in Nat
  <2>1. TypeOK BY DEF IInv
  <2>2. Judge(u, FALSE) BY DEF Throttle
  <2>3. Judged' = Judged \cup {n} /\ \A i \in Judged : verdicts'[i] = verdicts[i]
    BY <2>1, <2>2, JudgeAppends
  <2>4. verdicts'[n] = [user |-> u, at |-> now, accepted |-> FALSE]
    BY <2>1, <2>2, JudgeAppends
  <2> QED BY <2>1, <2>3, <2>4, VerdictsTyped
<1>2. UNCHANGED <<now, lastSeen>> /\ now \in Nat BY DEF Throttle, IInv, TypeOK
<1>3. Remembers' BY <1>1, <1>2 DEF IInv, Remembers
<1>4. Spacing' BY <1>1, <1>2 DEF IInv, Spacing
<1>5. PICK c \in Judged : verdicts[c].accepted /\ verdicts[c].user = u
                          /\ now - verdicts[c].at < MinInterval
  BY DEF Throttle, TooSoon, IInv, Remembers
<1>6. ThrottledWithCause' BY <1>1, <1>2, <1>5 DEF IInv, ThrottledWithCause
<1> QED BY <1>3, <1>4, <1>6

\* An accepted update is MinInterval away from last_seen, hence from every
\* accepted update of the user.
LEMMA StepAccept ==
  ASSUME IInv, NEW u \in Users, Accept(u)
  PROVE  Remembers' /\ Spacing' /\ ThrottledWithCause'
<1> DEFINE n == Len(verdicts) + 1
<1>1. /\ Judged' = Judged \cup {n}
      /\ \A i \in Judged : verdicts'[i] = verdicts[i] /\ i < n /\ i \in Nat
                           /\ verdicts[i].at \in Nat
      /\ verdicts'[n] = [user |-> u, at |-> now, accepted |-> TRUE]
      /\ n \in Nat
  <2>1. TypeOK BY DEF IInv
  <2>2. Judge(u, TRUE) BY DEF Accept
  <2>3. Judged' = Judged \cup {n} /\ \A i \in Judged : verdicts'[i] = verdicts[i]
    BY <2>1, <2>2, JudgeAppends
  <2>4. verdicts'[n] = [user |-> u, at |-> now, accepted |-> TRUE]
    BY <2>1, <2>2, JudgeAppends
  <2> QED BY <2>1, <2>3, <2>4, VerdictsTyped
<1>2. now' = now /\ now \in Nat /\ lastSeen \in [Users -> Nat \cup {Never}]
  BY DEF Accept, IInv, TypeOK
<1>3. lastSeen' = [lastSeen EXCEPT ![u] = now] BY DEF Accept
<1>4. Remembers'
  <2>1. \A i \in Judged' : verdicts'[i].at <= now' BY <1>1, <1>2 DEF IInv, Remembers
  <2>2. ASSUME NEW v \in Users, v # u
        PROVE  /\ lastSeen'[v] = lastSeen[v]
               /\ \A i \in Judged' : verdicts'[i].user = v => i \in Judged
    BY <1>1, <1>2, <1>3, <2>2
  <2>3. lastSeen'[u] = now /\ now # Never BY <1>2, <1>3, TimeAssumption
  <2>4. \A v \in Users : lastSeen'[v] = Never =>
          \A i \in Judged' : ~(verdicts'[i].accepted /\ verdicts'[i].user = v)
    BY <1>1, <2>2, <2>3 DEF IInv, Remembers
  <2>5. ASSUME NEW v \in Users, lastSeen'[v] # Never
        PROVE  /\ \E i \in Judged' : verdicts'[i].accepted /\ verdicts'[i].user = v
                                     /\ verdicts'[i].at = lastSeen'[v]
               /\ \A i \in Judged' :
                    verdicts'[i].accepted /\ verdicts'[i].user = v
                      => verdicts'[i].at <= lastSeen'[v]
    <3>1. CASE v = u BY <1>1, <1>2, <2>1, <2>3, <3>1
    <3>2. CASE v # u BY <1>1, <2>2, <2>5, <3>2 DEF IInv, Remembers
    <3> QED BY <3>1, <3>2
  <2> QED BY <2>1, <2>4, <2>5 DEF Remembers
<1>5. \A i \in Judged : verdicts[i].accepted /\ verdicts[i].user = u
                          => now - verdicts[i].at >= MinInterval
  <2> SUFFICES ASSUME NEW i \in Judged, verdicts[i].accepted, verdicts[i].user = u
               PROVE  now - verdicts[i].at >= MinInterval
    OBVIOUS
  <2>1. lastSeen[u] \in Nat /\ verdicts[i].at <= lastSeen[u]
    BY <1>2 DEF IInv, Remembers
  <2>2. now - lastSeen[u] >= MinInterval
    BY <1>2, <2>1, TimeAssumption DEF Accept, TooSoon
  <2> QED BY <1>1, <1>2, <2>1, <2>2, TimeAssumption
<1>6. Spacing' BY <1>1, <1>2, <1>5 DEF IInv, Spacing
<1>7. ThrottledWithCause' BY <1>1 DEF IInv, ThrottledWithCause
<1> QED BY <1>4, <1>6, <1>7

\* Only whitelisted users have anything pending, hence anything judged.
LEMMA StepStrangers == ASSUME IInv, [Next]_vars PROVE StrangersLeaveNoTrace'
<1> USE DEF IInv, StrangersLeaveNoTrace
<1>1. ASSUME NEW u \in Users, Throttle(u) \/ Accept(u) PROVE StrangersLeaveNoTrace'
  <2>1. u \in Allowed
    <3>1. pending[u] > 0 BY <1>1 DEF Throttle, Accept
    <3>2. u \notin Allowed => pending[u] = 0 OBVIOUS
    <3> QED BY <3>1, <3>2
  <2>2. \A v \in Users \ Allowed : pending'[v] = pending[v] /\ lastSeen'[v] = lastSeen[v]
    BY <1>1, <2>1 DEF Throttle, Accept, Judge, TypeOK
  <2>3. \A v \in Users \ Allowed, i \in Judged' : verdicts'[i].user # v
    <3>1. PICK accepted \in BOOLEAN : Judge(u, accepted) BY <1>1 DEF Throttle, Accept
    <3>2. /\ Judged' = Judged \cup {Len(verdicts) + 1}
          /\ \A i \in Judged : verdicts'[i] = verdicts[i]
          /\ verdicts'[Len(verdicts) + 1].user = u
      <4>1. verdicts'[Len(verdicts) + 1] = [user |-> u, at |-> now, accepted |-> accepted]
        BY <3>1, JudgeAppends
      <4> QED BY <3>1, <4>1, JudgeAppends
    <3> QED BY <2>1, <3>2
  <2> QED BY <2>2, <2>3
<1>2. ASSUME NEW u \in Users, Admit(u) \/ Discard(u) PROVE StrangersLeaveNoTrace'
  <2>1. u \in Allowed BY <1>2 DEF Admit, Discard
  <2> QED BY <1>2, <2>1 DEF Admit, Discard, TypeOK, Judged
<1>3. CASE Tick \/ UNCHANGED vars BY <1>3 DEF Tick, vars, Judged
<1> QED BY <1>1, <1>2, <1>3 DEF Next

\* The whole invariant is inductive.
LEMMA StepIInv == IInv /\ [Next]_vars => IInv'
<1> SUFFICES ASSUME IInv, [Next]_vars PROVE IInv' OBVIOUS
<1>1. TypeOK' BY StepTypeOK
<1>2. StrangersLeaveNoTrace' BY StepStrangers
<1>3. Remembers' /\ Spacing' /\ ThrottledWithCause'
  <2>1. CASE \E u \in Users : Throttle(u) BY <2>1, StepThrottle
  <2>2. CASE \E u \in Users : Accept(u) BY <2>2, StepAccept
  <2>3. CASE Tick \/ (\E u \in Users : Admit(u) \/ Discard(u)) \/ UNCHANGED vars
    <3>1. UNCHANGED <<lastSeen, verdicts>> /\ now' \in Nat /\ now' >= now
      BY <2>3 DEF Tick, Admit, Discard, vars, IInv, TypeOK
    <3> QED BY <3>1, StepWithoutVerdict
  <2> QED BY <2>1, <2>2, <2>3 DEF Next
<1> QED BY <1>1, <1>2, <1>3 DEF IInv

\* The limiter's table, the updates before it and the record keep their types.
THEOREM GatekeeperTypeOK == Spec => []TypeOK
<1>1. IInv => TypeOK BY DEF IInv
<1> QED BY <1>1, InitIInv, StepIInv, PTL DEF Spec

\* The limiter keeps its docstring's promise for any interval, any number of
\* users and updates, and any delay in reaching it.
THEOREM GatekeeperSpacing == Spec => []Spacing
<1>1. IInv => Spacing BY DEF IInv
<1> QED BY <1>1, InitIInv, StepIInv, PTL DEF Spec

\* A throttled update always has an accepted one of the same user to blame.
THEOREM GatekeeperThrottledWithCause == Spec => []ThrottledWithCause
<1>1. IInv => ThrottledWithCause BY DEF IInv
<1> QED BY <1>1, InitIInv, StepIInv, PTL DEF Spec

\* Strangers never reach a handler nor grow the limiter's table.
THEOREM GatekeeperStrangers == Spec => []StrangersLeaveNoTrace
<1>1. IInv => StrangersLeaveNoTrace BY DEF IInv
<1> QED BY <1>1, InitIInv, StepIInv, PTL DEF Spec

=============================================================================
