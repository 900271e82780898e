--------------------------- MODULE HttpSendProofs ---------------------------
(***************************************************************************)
(* The retry loop of _send for any setting and any exchange.  Its promises *)
(* follow from the link between the loop variable and the attempts made:   *)
(* Counted.                                                                *)
(***************************************************************************)
EXTENDS HttpSend, FiniteSetTheorems, TLAPS

\* Attempts made, the loop variable and the place in the loop agree; nothing
\* is decided before the loop ends.
Counted ==
  /\ pc = "sending" => Len(answers) = attempt
  /\ pc # "sending" => Len(answers) = attempt + 1
  /\ pc = "backoff" => attempt < maxRetries
  /\ pc # "done" => outcome = "none"

\* Every attempt before the current or last one failed in passing.
PastTransient ==
  /\ \A i \in 1..Len(answers) : i <= attempt => answers[i] \in Transient
  /\ pc = "backoff" => answers[Len(answers)] \in Transient

IInv == TypeOK /\ Counted /\ PastTransient

\* What recording an answer adds.
LEMMA RecordAppends ==
  ASSUME TypeOK, NEW kind \in Transient \cup Definitive, Record(kind)
  PROVE  /\ answers' \in Seq(Transient \cup Definitive)
         /\ Len(answers) \in Nat
         /\ Len(answers') = Len(answers) + 1
         /\ \A i \in 1..Len(answers) : answers'[i] = answers[i]
         /\ answers'[Len(answers')] = kind
<1>1. answers \in Seq(Transient \cup Definitive) BY DEF TypeOK
<1> QED BY <1>1 DEF Record

\* A pause is between half a second and eight seconds.
LEMMA DelayBounded ==
  ASSUME NEW n \in Nat PROVE Delay(n) \in Nat /\ 1 <= Delay(n) /\ Delay(n) <= 16
<1>1. n = 0 \/ n = 1 \/ n = 2 \/ n = 3 \/ ~(n < 4) OBVIOUS
<1> QED BY <1>1 DEF Delay

\* The adapter is built, nothing has been sent.
LEMMA InitIInv == Init => IInv
<1> SUFFICES ASSUME Init PROVE IInv OBVIOUS
<1>1. PICK n \in Settings : maxRetries = AtLeastZero(n) BY DEF Init
<1>2. maxRetries \in Nat BY <1>1, SettingsAssumption DEF AtLeastZero
<1>3. Len(answers) = 0 BY DEF Init
<1> QED BY <1>2, <1>3 DEF Init, IInv, TypeOK, Counted, PastTransient, Outcomes

\* One step of the loop keeps count and record.
LEMMA StepIInv == IInv /\ [Next]_vars => IInv'
<1> SUFFICES ASSUME IInv, [Next]_vars PROVE IInv' OBVIOUS
<1> USE DEF IInv
<1>1. CASE UNCHANGED vars BY <1>1 DEF vars, TypeOK, Counted, PastTransient
<1>2. ASSUME NEW kind \in Transient, Retry(kind) PROVE IInv'
  <2>1. Record(kind) BY <1>2 DEF Retry
  <2>2. TypeOK' BY <1>2, <2>1, RecordAppends DEF Retry, TypeOK
  <2>3. Counted' BY <1>2, <2>1, RecordAppends DEF Retry, TypeOK, Counted
  <2>4. PastTransient' BY <1>2, <2>1, RecordAppends DEF Retry, TypeOK, Counted, PastTransient
  <2> QED BY <2>2, <2>3, <2>4
<1>3. ASSUME NEW kind \in Transient \cup Definitive, NEW result \in Outcomes,
             pc = "sending", Record(kind), End(result), UNCHANGED <<maxRetries, attempt, slept>>
      PROVE  IInv'
  <2>1. TypeOK' BY <1>3, RecordAppends DEF End, TypeOK
  <2>2. Counted' BY <1>3, RecordAppends DEF End, TypeOK, Counted
  <2>3. PastTransient' BY <1>3, RecordAppends DEF End, TypeOK, Counted, PastTransient
  <2> QED BY <2>1, <2>2, <2>3
<1>4. ASSUME NEW kind \in Transient, GiveUp(kind) PROVE IInv'
  BY <1>3, <1>4 DEF GiveUp, Exhausted, Outcomes
<1>5. ASSUME NEW kind \in Definitive, Settle(kind) PROVE IInv'
  <2>1. PICK result \in Verdicts(kind) : End(result) BY <1>5 DEF Settle
  <2>2. result \in Outcomes
    BY <2>1, ClientErrorsAssumption DEF Verdicts, Definitive, Outcomes
  <2> QED BY <1>3, <1>5, <2>1, <2>2 DEF Settle
<1>6. CASE Backoff
  <2>1. Delay(attempt) \in Nat BY DelayBounded DEF TypeOK
  <2>2. TypeOK' BY <1>6, <2>1 DEF Backoff, TypeOK, Counted
  <2>3. Counted' BY <1>6 DEF Backoff, TypeOK, Counted
  <2>4. PastTransient'
    <3>1. Len(answers) = attempt + 1 /\ attempt \in Nat BY <1>6 DEF Backoff, Counted, TypeOK
    <3> QED BY <1>6, <3>1 DEF Backoff, PastTransient
  <2> QED BY <2>2, <2>3, <2>4
<1> QED BY <1>1, <1>2, <1>4, <1>5, <1>6 DEF Next

\* The loop counts right, for every setting.
LEMMA Inductive == Spec => []IInv
BY InitIInv, StepIInv, PTL DEF Spec

\* The loop's variables keep their types.
THEOREM SendTypeOK == Spec => []TypeOK
<1>1. IInv => TypeOK BY DEF IInv
<1> QED BY <1>1, Inductive, PTL

\* However the exchange answers, one request is at most max_retries + 1
\* attempts.
THEOREM SendAttemptsBounded == Spec => []AttemptsBounded
<1>1. IInv => AttemptsBounded BY DEF IInv, TypeOK, Counted, AttemptsBounded
<1> QED BY <1>1, Inductive, PTL

\* Nothing but a passing failure is ever repeated.
THEOREM SendOnlyTransientRepeated == Spec => []OnlyTransientRepeated
<1>1. IInv => OnlyTransientRepeated
  <2> SUFFICES ASSUME IInv, NEW i \in 1..Len(answers), i < Len(answers) \/ pc = "backoff"
               PROVE  answers[i] \in Transient
    BY DEF OnlyTransientRepeated
  <2>1. Len(answers) \in Nat BY DEF IInv, TypeOK
  <2>2. CASE i <= attempt BY <2>2 DEF IInv, PastTransient
  <2>3. CASE ~(i <= attempt)
    <3>1. i = Len(answers) /\ pc = "backoff" BY <2>1, <2>3 DEF IInv, TypeOK, Counted
    <3> QED BY <3>1 DEF IInv, PastTransient
  <2> QED BY <2>2, <2>3
<1> QED BY <1>1, Inductive, PTL

\* The pauses of a request are bounded by its retries.
THEOREM SendPausesBounded == Spec => []PausesBounded
<1>1. Init => PausesBounded BY DEF Init, PausesBounded
<1>2. IInv /\ PausesBounded /\ [Next]_vars => PausesBounded'
  <2> SUFFICES ASSUME IInv, PausesBounded, [Next]_vars PROVE PausesBounded' OBVIOUS
  <2>1. CASE Backoff
    <3>1. attempt \in Nat /\ slept \in Nat BY DEF IInv, TypeOK
    <3>2. /\ Delay(attempt) \in Nat
          /\ 1 <= Delay(attempt) /\ Delay(attempt) <= 16
      BY <3>1, DelayBounded
    <3>3. slept' = slept + Delay(attempt) /\ attempt' = attempt + 1 BY <2>1 DEF Backoff
    <3> QED BY <3>1, <3>2, <3>3 DEF PausesBounded
  <2>2. CASE UNCHANGED <<attempt, slept>> BY <2>2 DEF PausesBounded
  <2> QED BY <2>1, <2>2 DEF Next, Retry, GiveUp, Settle, vars
<1> QED BY <1>1, <1>2, Inductive, PTL DEF Spec

\* The two "try later" errors mean what base.py says of them for every
\* exchange that has no rate-limit code of its own among the client errors.
THEOREM SendGivesUpExhausted ==
  ASSUME "ratelimit" \notin ClientErrors PROVE Spec => []GivesUpExhausted
<1>1. Init => GivesUpExhausted BY DEF Init, GivesUpExhausted
<1>2. IInv /\ GivesUpExhausted /\ [Next]_vars => GivesUpExhausted'
  <2> SUFFICES ASSUME IInv, GivesUpExhausted, [Next]_vars PROVE GivesUpExhausted' OBVIOUS
  <2> USE DEF GivesUpExhausted, IInv
  <2>1. ASSUME NEW kind \in Transient, Retry(kind) PROVE GivesUpExhausted'
    BY <2>1 DEF Retry, Counted
  <2>2. ASSUME NEW kind \in Transient, GiveUp(kind) PROVE GivesUpExhausted'
    <3>1. Record(kind) /\ Len(answers) = maxRetries BY <2>2 DEF GiveUp, Counted
    <3>2. Len(answers') = maxRetries + 1 BY <3>1, RecordAppends
    <3> QED BY <2>2, <3>2 DEF GiveUp
  <2>3. ASSUME NEW kind \in Definitive, Settle(kind) PROVE GivesUpExhausted'
    <3>1. PICK result \in Verdicts(kind) : outcome' = result BY <2>3 DEF Settle, End
    <3>2. result \notin {"unavailable", "ratelimit"}
      BY <3>1, ClientErrorsAssumption DEF Verdicts, Definitive
    <3> QED BY <3>1, <3>2
  <2>4. CASE Backoff \/ UNCHANGED vars BY <2>4 DEF Backoff, vars
  <2> QED BY <2>1, <2>2, <2>3, <2>4 DEF Next
<1> QED BY <1>1, <1>2, Inductive, PTL DEF Spec

\* The sum of the first pauses: 0, 0.5, 1.5 and 3.5 s.
Slept ==
  /\ attempt = 0 => slept = 0
  /\ attempt = 1 => slept = 1
  /\ attempt = 2 => slept = 3
  /\ attempt = 3 => slept = 7

\* With up to three retries the signature outlasts the pauses and no timeout,
\* whatever the exchange's errors.
THEOREM SendSignatureOutlastsPauses == Spec => []SignatureOutlastsPauses
<1>1. Init => Slept BY DEF Init, Slept
<1>2. IInv /\ Slept /\ [Next]_vars => Slept'
  <2> SUFFICES ASSUME IInv, Slept, [Next]_vars PROVE Slept' OBVIOUS
  <2>1. CASE Backoff
    <3>1. attempt \in Nat BY DEF IInv, TypeOK
    <3>2. slept' = slept + Delay(attempt) /\ attempt' = attempt + 1 BY <2>1 DEF Backoff
    <3>3. Delay(0) = 1 /\ Delay(1) = 2 /\ Delay(2) = 4 BY DEF Delay
    <3>4. attempt' \in {1, 2, 3} => attempt \in {0, 1, 2} BY <3>1, <3>2
    <3>5. attempt' # 0 BY <3>1, <3>2
    <3> QED BY <3>1, <3>2, <3>3, <3>4, <3>5 DEF Slept
  <2>2. CASE UNCHANGED <<attempt, slept>> BY <2>2 DEF Slept
  <2> QED BY <2>1, <2>2 DEF Next, Retry, GiveUp, Settle, vars
<1>3. IInv /\ Slept => SignatureOutlastsPauses
  <2> SUFFICES ASSUME IInv, Slept, pc = "sending", maxRetries <= DefaultRetries
               PROVE  slept <= RecvWindow /\ (Timeouts # {} => Age > RecvWindow)
    BY DEF SignatureOutlastsPauses
  <2>1. attempt \in {0, 1, 2, 3} BY DEF IInv, TypeOK, DefaultRetries
  <2>2. slept \in 0..7 BY <2>1 DEF Slept
  <2>3. Len(answers) \in Nat BY DEF IInv, TypeOK
  <2>4. IsFiniteSet(Timeouts)
    <3>1. Timeouts \subseteq 1..Len(answers) BY DEF Timeouts
    <3>2. IsFiniteSet(1..Len(answers)) BY <2>3, FS_Interval
    <3> QED BY <3>1, <3>2, FS_Subset
  <2>5. Cardinality(Timeouts) \in Nat /\ (Cardinality(Timeouts) = 0 <=> Timeouts = {})
    BY <2>4, FS_CardinalityType, FS_EmptySet
  <2> QED BY <2>2, <2>5 DEF Age, ConnectTimeout, RecvWindow
<1> QED BY <1>1, <1>2, <1>3, Inductive, PTL DEF Spec

=============================================================================
