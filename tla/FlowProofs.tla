----------------------------- MODULE FlowProofs -----------------------------
(***************************************************************************)
(* Flow's invariants, for every set of exchanges, inputs and concurrent    *)
(* updates.  The four invariants are inductive together: one pass over the *)
(* actions per invariant, each relying on TypeOK.  Then come the races,    *)
(* and last what holds of one update at a time: OneAtATime is a hypothesis *)
(* there.                                                                  *)
(***************************************************************************)
EXTENDS FlowSerial, FlowRaces, TLAPS

\* An unused task slot is a task.
LEMMA FreeIsTask == Free \in Task
BY DEF Free, Task, Labels

\* The empty session is well typed, and so is one with a key replaced.
LEMMA SessionUpdates ==
  /\ NoData \in SessionData
  /\ \A d \in SessionData :
       /\ \A c \in Codes \cup {None} : [d EXCEPT !.code = c] \in SessionData
       /\ \A u \in Uids \cup {None} : [d EXCEPT !.uid = u] \in SessionData
BY DEF NoData, SessionData

\* The initial session is empty and nobody is at work.
LEMMA InitialInvariants ==
  Init => TypeOK /\ WaitingHasInputs /\ OnlyConfiguredExchanges /\ FetchingHasOwner
<1> SUFFICES ASSUME Init
             PROVE  TypeOK /\ WaitingHasInputs /\ OnlyConfiguredExchanges /\ FetchingHasOwner
  OBVIOUS
<1> USE DEF Init
<1>1. TypeOK BY FreeIsTask, SessionUpdates DEF TypeOK, States
<1>2. WaitingHasInputs BY DEF WaitingHasInputs
<1>3. OnlyConfiguredExchanges BY DEF OnlyConfiguredExchanges, NoData, Free, Fetch
<1>4. FetchingHasOwner BY DEF FetchingHasOwner
<1> QED BY <1>1, <1>2, <1>3, <1>4

\* The routes of a state lead to handlers, with an argument of their kind.
LEMMA RoutesTyped ==
  ASSUME NEW s, NEW r \in Routes(s)
  PROVE  r[1] \in Bodies \cup {"reply"} /\ r[2] \in Codes \cup Texts \cup Kinds \cup {None}
BY DEF Routes, Bodies

\* Every step keeps the types: what is stored as UID was validated, and what
\* is stored as exchange was configured.
LEMMA StepTypeOK ==
  ASSUME TypeOK, [Next]_vars PROVE TypeOK'
<1> USE ConfigsAssumption
<1>1. CASE UNCHANGED vars
  BY <1>1 DEF vars, TypeOK
<1>2. CASE Restart
  BY <1>2, FreeIsTask, SessionUpdates DEF Restart, Clear, SetState, TypeOK, States
<1>3. ASSUME NEW t \in TaskIds, Dispatch(t) PROVE TypeOK'
  <2>1. PICK r \in Routes(state) :
          tasks' = [tasks EXCEPT ![t] = [Free EXCEPT !.pc = r[1], !.arg = r[2]]]
    BY <1>3 DEF Dispatch
  <2>2. r[1] \in Labels /\ r[2] \in Codes \cup Texts \cup Kinds \cup {None}
    BY RoutesTyped DEF Labels
  <2> QED BY <1>3, <2>1, <2>2 DEF Dispatch, TypeOK, Free, Task
<1>4. ASSUME NEW t \in TaskIds, NEW label \in Labels, Goto(t, label)
      PROVE  tasks' \in [TaskIds -> Task]
  BY <1>4 DEF Goto, TypeOK, Task
<1>5. ASSUME NEW t \in TaskIds, Finish(t)
      PROVE  tasks' \in [TaskIds -> Task]
  BY <1>5, FreeIsTask DEF Finish, TypeOK
<1>6. ASSUME NEW t \in TaskIds, Raise(t) PROVE TypeOK'
  BY <1>4, <1>6 DEF Raise, TypeOK, Labels
<1>7. ASSUME NEW t \in TaskIds, BeginFetch(t) PROVE TypeOK'
  <2>1. CASE Raise(t) BY <2>1, <1>6
  <2>2. CASE Goto(t, "last_words") /\ UNCHANGED <<adapters, session>>
    BY <2>2, <1>4 DEF session, TypeOK, Labels, Midway
  <2>3. CASE /\ SetState("fetching") /\ UNCHANGED <<adapters, data>>
             /\ tasks' = [tasks EXCEPT ![t] =
                  [@ EXCEPT !.pc = "status", !.code = data.code, !.uid = data.uid]]
    <3>1. [tasks[t] EXCEPT !.pc = "status", !.code = data.code, !.uid = data.uid] \in Task
      <4>1. tasks[t] \in Task /\ data \in SessionData BY DEF TypeOK
      <4> QED BY <4>1 DEF Task, SessionData, Labels, Fetch
    <3> QED BY <2>3, <3>1 DEF SetState, TypeOK, States
  <2> QED BY <1>7, <2>1, <2>2, <2>3 DEF BeginFetch, session
<1>8. ASSUME NEW t \in TaskIds, Resume(t) PROVE TypeOK'
  <2> USE DEF Labels, Midway, Fetch, session
  <2>1. CASE Reset(t) \/ StartCalc(t)
    BY <2>1, <1>4, SessionUpdates DEF Reset, StartCalc, Clear, SetState, TypeOK, States, Bodies
  <2>2. CASE ShowExchanges(t)
    BY <2>2, <1>4, <1>5 DEF ShowExchanges, SetState, TypeOK, States
  <2>3. CASE LastWordsSent(t)
    BY <2>3, <1>5, SessionUpdates DEF LastWordsSent, Clear, SetState, TypeOK, States
  <2>4. CASE ExchangeChosen(t)
    BY <2>4, <1>4, SessionUpdates DEF ExchangeChosen, SetState, TypeOK, States
  <2>5. CASE SameExchange(t)
    BY <2>5, <1>4, SessionUpdates DEF SameExchange, SetState, TypeOK, States
  <2>6. CASE UidEntered(t)
    BY <2>6, <1>4, SessionUpdates DEF UidEntered, SetState, TypeOK, States
  <2>7. CASE PresetChosen(t)
    BY <2>7, <1>4 DEF PresetChosen, TypeOK
  <2>8. CASE PresetAnswered(t)
    BY <2>8, <1>4, <1>5, <1>7 DEF PresetAnswered, SetState, TypeOK, States
  <2>9. CASE PeriodEntered(t)
    BY <2>9, <1>4, <1>7 DEF PeriodEntered, TypeOK
  <2>10. CASE StatusSent(t) \/ QueryRefused(t)
    BY <2>10, <1>4 DEF StatusSent, QueryRefused, TypeOK
  <2>11. CASE QuerySucceeds(t)
    <3>1. tasks[t].code \in Codes \cup {None} BY DEF TypeOK, Task
    <3> QED BY <2>11, <3>1, <1>4, SessionUpdates DEF QuerySucceeds, SetState, TypeOK, States
  <2>12. CASE QueryFails(t) \/ DeveloperAlerted(t)
    BY <2>12, <1>4 DEF QueryFails, DeveloperAlerted, SetState, TypeOK, States
  <2>13. CASE QueryRaises(t) \/ TelegramFails(t)
    BY <2>13, <1>6 DEF QueryRaises, TelegramFails
  <2>14. CASE Replied(t) \/ HandleError(t)
    BY <2>14, <1>5 DEF Replied, HandleError, TypeOK
  <2> QED BY <1>8, <2>1, <2>2, <2>3, <2>4, <2>5, <2>6, <2>7, <2>8, <2>9,
             <2>10, <2>11, <2>12, <2>13, <2>14 DEF Resume
<1> QED BY <1>1, <1>2, <1>3, <1>8 DEF Next

\* Flow is type-correct: in particular the session never holds a UID that
\* validate_uid has not accepted.
THEOREM FlowTypeOK == Spec => []TypeOK
BY InitialInvariants, StepTypeOK, PTL DEF Spec

\* What a task changes about itself: its label and, when a fetch begins, what
\* it queries.
LEMMA Moves ==
  ASSUME TypeOK, NEW t \in TaskIds
  PROVE  /\ \A label : Goto(t, label) =>
              /\ tasks'[t].pc = label
              /\ tasks'[t].code = tasks[t].code
              /\ \A u \in TaskIds \ {t} : tasks'[u] = tasks[u]
         /\ Finish(t) =>
              /\ tasks'[t] = Free
              /\ \A u \in TaskIds \ {t} : tasks'[u] = tasks[u]
BY DEF TypeOK, Task, Goto, Finish

-----------------------------------------------------------------------------

\* UID prompt, preset keyboard and calculation have their inputs after every
\* step: their handlers write both halves of the session in the same step.
LEMMA StepWaitingHasInputs ==
  ASSUME TypeOK, WaitingHasInputs, [Next]_vars PROVE WaitingHasInputs'
<1> USE DEF WaitingHasInputs, SetState
<1>1. CASE UNCHANGED vars BY <1>1 DEF vars
<1>2. CASE Restart BY <1>2 DEF Restart, Clear
<1>3. ASSUME NEW t \in TaskIds, Dispatch(t) PROVE WaitingHasInputs'
  BY <1>3 DEF Dispatch
<1>4. ASSUME NEW t \in TaskIds, BeginFetch(t) PROVE WaitingHasInputs'
  BY <1>4 DEF BeginFetch, Raise
<1>5. ASSUME NEW t \in TaskIds, Resume(t) PROVE WaitingHasInputs'
  <2> USE DEF session
  <2>1. CASE Reset(t) \/ StartCalc(t) \/ LastWordsSent(t)
    BY <2>1 DEF Reset, StartCalc, LastWordsSent, Clear
  <2>2. CASE ShowExchanges(t) BY <2>2 DEF ShowExchanges
  <2>3. CASE ExchangeChosen(t)
    <3>1. adapters \subseteq Codes BY ConfigsAssumption DEF TypeOK
    <3> QED BY <2>3, <3>1, DisjointAssumption DEF ExchangeChosen, TypeOK, SessionData
  <2>4. CASE SameExchange(t) BY <2>4 DEF SameExchange, TypeOK, SessionData
  <2>5. CASE UidEntered(t)
    BY <2>5, DisjointAssumption DEF UidEntered, TypeOK, SessionData
  <2>6. CASE PresetAnswered(t) BY <2>6, <1>4 DEF PresetAnswered
  <2>7. CASE PeriodEntered(t) BY <2>7, <1>4 DEF PeriodEntered
  <2>8. CASE QuerySucceeds(t) \/ QueryFails(t) \/ DeveloperAlerted(t)
    BY <2>8 DEF QuerySucceeds, QueryFails, DeveloperAlerted
  <2>9. CASE QueryRaises(t) \/ TelegramFails(t)
    BY <2>9 DEF QueryRaises, TelegramFails, Raise
  <2>10. CASE PresetChosen(t) \/ StatusSent(t) \/ QueryRefused(t) \/ Replied(t) \/ HandleError(t)
    BY <2>10 DEF PresetChosen, StatusSent, QueryRefused, Replied, HandleError
  <2> QED BY <1>5, <2>1, <2>2, <2>3, <2>4, <2>5, <2>6, <2>7, <2>8, <2>9, <2>10 DEF Resume
<1> QED BY <1>1, <1>2, <1>3, <1>5 DEF Next

\* For any number of concurrent updates: the UID prompt has an exchange, the
\* preset keyboard a UID, a calculation both.
THEOREM FlowWaitingHasInputs == Spec => []WaitingHasInputs
<1>1. TypeOK /\ WaitingHasInputs /\ [Next]_vars => (TypeOK /\ WaitingHasInputs)'
  BY StepTypeOK, StepWaitingHasInputs
<1> QED BY <1>1, InitialInvariants, PTL DEF Spec

-----------------------------------------------------------------------------

\* The remembered exchange and the queried ones stay configured: only a
\* restart changes the configuration, and it forgets them.
LEMMA StepOnlyConfiguredExchanges ==
  ASSUME TypeOK, OnlyConfiguredExchanges, [Next]_vars PROVE OnlyConfiguredExchanges'
<1> USE DEF OnlyConfiguredExchanges
<1>1. CASE UNCHANGED vars BY <1>1 DEF vars
<1>2. CASE Restart
  BY <1>2 DEF Restart, Clear, SetState, NoData, Free, Fetch
<1>3. ASSUME NEW t \in TaskIds, Dispatch(t) PROVE OnlyConfiguredExchanges'
  <2>1. PICK r \in Routes(state) :
          tasks' = [tasks EXCEPT ![t] = [Free EXCEPT !.pc = r[1], !.arg = r[2]]]
    BY <1>3 DEF Dispatch
  <2>2. r[1] \notin Fetch BY RoutesTyped DEF Bodies, Fetch
  <2>3. tasks'[t].pc \notin Fetch /\ \A u \in TaskIds \ {t} : tasks'[u] = tasks[u]
    BY <2>1, <2>2 DEF TypeOK, Free
  <2> QED BY <1>3, <2>3 DEF Dispatch
<1>4. ASSUME NEW t \in TaskIds, UNCHANGED adapters, data'.code \in adapters \cup {None},
             \/ Finish(t)
             \/ \E label \in Labels :
                  Goto(t, label) /\ (label \in Fetch => tasks[t].pc \in Fetch)
      PROVE  OnlyConfiguredExchanges'
  BY <1>4, Moves DEF Free, Fetch
<1>5. ASSUME NEW t \in TaskIds, Raise(t) PROVE OnlyConfiguredExchanges'
  BY <1>4, <1>5 DEF Raise, Labels, Fetch
<1>6. ASSUME NEW t \in TaskIds, BeginFetch(t) PROVE OnlyConfiguredExchanges'
  <2>1. CASE Raise(t) BY <2>1, <1>5
  <2>2. CASE Goto(t, "last_words") /\ UNCHANGED <<adapters, session>>
    BY <2>2, <1>4 DEF session, Labels, Midway, Fetch
  <2>3. CASE /\ data.code \in adapters /\ UNCHANGED <<adapters, data>>
             /\ tasks' = [tasks EXCEPT ![t] =
                  [@ EXCEPT !.pc = "status", !.code = data.code, !.uid = data.uid]]
    <3>1. tasks'[t].code = data.code /\ \A u \in TaskIds \ {t} : tasks'[u] = tasks[u]
      BY <2>3 DEF TypeOK, Task
    <3> QED BY <2>3, <3>1
  <2> QED BY <1>6, <2>1, <2>2, <2>3 DEF BeginFetch, session
<1>7. ASSUME NEW t \in TaskIds, Resume(t) PROVE OnlyConfiguredExchanges'
  <2> USE DEF session, Labels, Bodies, Midway, Fetch, At, SetState
  <2>1. CASE Reset(t) \/ StartCalc(t) \/ LastWordsSent(t)
    BY <2>1, <1>4 DEF Reset, StartCalc, LastWordsSent, Clear, NoData
  <2>2. CASE ShowExchanges(t) BY <2>2, <1>4 DEF ShowExchanges
  <2>3. CASE ExchangeChosen(t)
    <3>1. data'.code \in adapters \cup {None} BY <2>3 DEF ExchangeChosen, TypeOK, SessionData
    <3> QED BY <2>3, <3>1, <1>4 DEF ExchangeChosen
  <2>4. CASE SameExchange(t) \/ UidEntered(t)
    <3>1. data'.code = data.code BY <2>4 DEF SameExchange, UidEntered, TypeOK, SessionData
    <3> QED BY <2>4, <3>1, <1>4 DEF SameExchange, UidEntered
  <2>5. CASE PresetAnswered(t) BY <2>5, <1>4, <1>6 DEF PresetAnswered
  <2>6. CASE PeriodEntered(t) BY <2>6, <1>4, <1>6 DEF PeriodEntered
  <2>7. CASE QuerySucceeds(t)
    <3>1. data'.code = tasks[t].code BY <2>7 DEF QuerySucceeds, NoData
    <3> QED BY <2>7, <3>1, <1>4 DEF QuerySucceeds
  <2>8. CASE QueryFails(t) \/ DeveloperAlerted(t)
    BY <2>8, <1>4 DEF QueryFails, DeveloperAlerted
  <2>9. CASE QueryRaises(t) \/ TelegramFails(t)
    BY <2>9, <1>5 DEF QueryRaises, TelegramFails
  <2>10. CASE PresetChosen(t) \/ StatusSent(t) \/ QueryRefused(t) \/ Replied(t) \/ HandleError(t)
    BY <2>10, <1>4 DEF PresetChosen, StatusSent, QueryRefused, Replied, HandleError
  <2> QED BY <1>7, <2>1, <2>2, <2>3, <2>4, <2>5, <2>6, <2>7, <2>8, <2>9, <2>10 DEF Resume
<1> QED BY <1>1, <1>2, <1>3, <1>7 DEF Next

\* For any configuration and any restarts: an exchange that is not configured
\* is never remembered and never queried.
THEOREM FlowOnlyConfiguredExchanges == Spec => []OnlyConfiguredExchanges
<1>1. /\ TypeOK /\ OnlyConfiguredExchanges /\ [Next]_vars
      => (TypeOK /\ OnlyConfiguredExchanges)'
  BY StepTypeOK, StepOnlyConfiguredExchanges
<1> QED BY <1>1, InitialInvariants, PTL DEF Spec

-----------------------------------------------------------------------------

\* "fetching" keeps an owner: a fetch leaves its labels only by resetting the
\* state or by raising, and whoever is not in a fetch is not the owner.
LEMMA StepFetchingHasOwner ==
  ASSUME TypeOK, FetchingHasOwner, [Next]_vars PROVE FetchingHasOwner'
<1> USE DEF FetchingHasOwner
<1>1. CASE UNCHANGED vars BY <1>1 DEF vars
<1>2. CASE Restart BY <1>2 DEF Restart, Clear, SetState
<1>3. ASSUME NEW t \in TaskIds, NEW s, SetState(s), s # "fetching"
      PROVE  FetchingHasOwner'
  BY <1>3 DEF SetState
<1>4. ASSUME NEW t \in TaskIds, UNCHANGED <<state, orphaned>>,
             \/ Finish(t) /\ tasks[t].pc \notin Fetch
             \/ \E label \in Labels :
                  Goto(t, label) /\ (tasks[t].pc \in Fetch => label \in Fetch)
      PROVE  FetchingHasOwner'
  <2> SUFFICES ASSUME state = "fetching", ~orphaned
               PROVE  \E u \in TaskIds : tasks'[u].pc \in Fetch
    BY <1>4
  <2>1. PICK u \in TaskIds : tasks[u].pc \in Fetch OBVIOUS
  <2>2. CASE u = t BY <1>4, <2>1, <2>2, Moves
  <2>3. CASE u # t
    <3>1. tasks'[u] = tasks[u] BY <1>4, <2>3, Moves
    <3> QED BY <2>1, <3>1
  <2> QED BY <2>2, <2>3
<1>5. ASSUME NEW t \in TaskIds, Raise(t) PROVE FetchingHasOwner'
  <2> SUFFICES ASSUME state = "fetching", ~orphaned, tasks[t].pc \notin Fetch
               PROVE  \E u \in TaskIds : tasks'[u].pc \in Fetch
    BY <1>5 DEF Raise
  <2>1. PICK u \in TaskIds : tasks[u].pc \in Fetch OBVIOUS
  <2>2. tasks'[u] = tasks[u] BY <1>5, <2>1, Moves DEF Raise
  <2> QED BY <2>1, <2>2
<1>6. ASSUME NEW t \in TaskIds, BeginFetch(t), tasks[t].pc \notin Fetch
      PROVE  FetchingHasOwner'
  <2>1. CASE Raise(t) BY <2>1, <1>5
  <2>2. CASE Goto(t, "last_words") /\ UNCHANGED <<adapters, session>>
    BY <2>2, <1>4, <1>6 DEF session, Labels, Midway
  <2>3. CASE tasks' = [tasks EXCEPT ![t] =
                 [@ EXCEPT !.pc = "status", !.code = data.code, !.uid = data.uid]]
    <3>1. tasks'[t].pc = "status" BY <2>3 DEF TypeOK, Task
    <3> QED BY <3>1 DEF Fetch
  <2> QED BY <1>6, <2>1, <2>2, <2>3 DEF BeginFetch, session
<1>7. ASSUME NEW t \in TaskIds, Dispatch(t) PROVE FetchingHasOwner'
  <2>1. \A u \in TaskIds : tasks[u].pc \in Fetch => tasks'[u] = tasks[u]
    BY <1>7 DEF Dispatch, At, Fetch, TypeOK
  <2> QED BY <1>7, <2>1 DEF Dispatch
<1>8. ASSUME NEW t \in TaskIds, Resume(t) PROVE FetchingHasOwner'
  <2> USE DEF session, Labels, Bodies, Midway, Fetch, At
  <2>1. CASE Reset(t) \/ StartCalc(t) \/ LastWordsSent(t)
    BY <2>1, <1>3 DEF Reset, StartCalc, LastWordsSent, Clear
  <2>2. CASE ShowExchanges(t) BY <2>2, <1>3, <1>4 DEF ShowExchanges
  <2>3. CASE ExchangeChosen(t) BY <2>3, <1>3, <1>4 DEF ExchangeChosen
  <2>4. CASE SameExchange(t) BY <2>4, <1>3, <1>4 DEF SameExchange
  <2>5. CASE UidEntered(t) BY <2>5, <1>3, <1>4 DEF UidEntered
  <2>6. CASE PresetAnswered(t) BY <2>6, <1>3, <1>4, <1>6 DEF PresetAnswered
  <2>7. CASE PeriodEntered(t) BY <2>7, <1>4, <1>6 DEF PeriodEntered
  <2>8. CASE QuerySucceeds(t) \/ QueryFails(t) \/ DeveloperAlerted(t)
    BY <2>8, <1>3 DEF QuerySucceeds, QueryFails, DeveloperAlerted
  <2>9. CASE QueryRaises(t) \/ TelegramFails(t)
    BY <2>9, <1>5 DEF QueryRaises, TelegramFails
  <2>10. CASE PresetChosen(t) \/ StatusSent(t) \/ QueryRefused(t) \/ Replied(t) \/ HandleError(t)
    BY <2>10, <1>4 DEF PresetChosen, StatusSent, QueryRefused, Replied, HandleError
  <2> QED BY <1>8, <2>1, <2>2, <2>3, <2>4, <2>5, <2>6, <2>7, <2>8, <2>9, <2>10 DEF Resume
<1> QED BY <1>1, <1>2, <1>7, <1>8 DEF Next

\* For any number of concurrent updates: a user found in "fetching" has a
\* fetch in flight, or a fetch raised an exception flow.py does not catch.
THEOREM FlowFetchingHasOwner == Spec => []FetchingHasOwner
<1>1. TypeOK /\ FetchingHasOwner /\ [Next]_vars => (TypeOK /\ FetchingHasOwner)'
  BY StepTypeOK, StepFetchingHasOwner
<1> QED BY <1>1, InitialInvariants, PTL DEF Spec

-----------------------------------------------------------------------------
(* Races.  An update that was not overtaken finds the state its handler    *)
(* was chosen for, so it may rely on what that state promises.             *)

ChosenByState == {"uid", "preset", "picked", "period"}

Undisturbed ==
  \A t \in TaskIds \ overtaken :
    /\ tasks[t].pc = "uid" => state = "entering_uid"
    /\ tasks[t].pc \in {"preset", "picked"} => state = "choosing_period"
    /\ tasks[t].pc = "period" => state = "entering_period"

PromptsHaveInputs ==
  state \in PeriodPrompts /\ None \in {data.code, data.uid} => raced

Watched == TypeOK /\ WaitingHasInputs /\ raced \in BOOLEAN /\ Undisturbed /\ PromptsHaveInputs

\* What a step of t does to the session and to its own label: only the handlers
\* of the UID and of the custom preset set a prompt for a period.
SetsNoPrompt == Conversing' = Conversing \/ state' \notin PeriodPrompts

SetsPrompt(t) ==
  \/ /\ tasks[t].pc = "uid" /\ tasks[t].arg \in Uids
     /\ data' = [data EXCEPT !.uid = tasks[t].arg]
  \/ tasks[t].pc = "picked" /\ data' = data

MovesOn(t) ==
  \/ tasks'[t].pc \notin ChosenByState
  \/ tasks[t].pc = "preset" /\ tasks'[t].pc = "picked" /\ Conversing' = Conversing

LEMMA ResumeMoves ==
  ASSUME TypeOK, NEW t \in TaskIds, Resume(t)
  PROVE  /\ SetsNoPrompt \/ SetsPrompt(t)
         /\ MovesOn(t)
         /\ \A u \in TaskIds \ {t} : tasks'[u] = tasks[u]
<1> DEFINE P == /\ SetsNoPrompt \/ SetsPrompt(t)
                /\ MovesOn(t)
                /\ \A u \in TaskIds \ {t} : tasks'[u] = tasks[u]
<1>1. ASSUME NEW label, label \notin ChosenByState, Goto(t, label), SetsNoPrompt \/ SetsPrompt(t)
      PROVE  P
  BY <1>1, Moves DEF MovesOn
<1>2. ASSUME Finish(t), SetsNoPrompt \/ SetsPrompt(t) PROVE P
  BY <1>2, Moves DEF MovesOn, Free, ChosenByState
<1> USE DEF SetsNoPrompt, SetsPrompt, PeriodPrompts, Conversing, ChosenByState, session, SetState
<1>3. ASSUME Raise(t) PROVE P BY <1>1, <1>3 DEF Raise
<1>4. ASSUME BeginFetch(t) PROVE P
  <2>1. CASE Raise(t) BY <2>1, <1>3
  <2>2. CASE Goto(t, "last_words") /\ UNCHANGED <<adapters, session>> BY <2>2, <1>1
  <2>3. CASE /\ SetState("fetching") /\ UNCHANGED <<adapters, data>>
             /\ tasks' = [tasks EXCEPT ![t] =
                  [@ EXCEPT !.pc = "status", !.code = data.code, !.uid = data.uid]]
    <3>1. tasks'[t].pc = "status" /\ \A u \in TaskIds \ {t} : tasks'[u] = tasks[u]
      BY <2>3 DEF TypeOK, Task
    <3> QED BY <2>3, <3>1 DEF MovesOn
  <2> QED BY <1>4, <2>1, <2>2, <2>3 DEF BeginFetch
<1>5. CASE Reset(t) \/ StartCalc(t) \/ LastWordsSent(t)
  BY <1>1, <1>2, <1>5 DEF Reset, StartCalc, LastWordsSent, Clear
<1>6. CASE ShowExchanges(t) BY <1>1, <1>2, <1>6 DEF ShowExchanges
<1>7. CASE ExchangeChosen(t) \/ SameExchange(t)
  BY <1>1, <1>7 DEF ExchangeChosen, SameExchange
<1>8. CASE UidEntered(t) BY <1>1, <1>8 DEF UidEntered, At
<1>9. CASE PresetChosen(t) BY <1>9, Moves DEF PresetChosen, At, MovesOn
<1>10. CASE PresetAnswered(t) BY <1>1, <1>2, <1>4, <1>10 DEF PresetAnswered, At
<1>11. CASE PeriodEntered(t) BY <1>1, <1>4, <1>11 DEF PeriodEntered
<1>12. CASE QuerySucceeds(t) \/ QueryFails(t) \/ DeveloperAlerted(t)
  BY <1>1, <1>12 DEF QuerySucceeds, QueryFails, DeveloperAlerted
<1>13. CASE QueryRaises(t) \/ TelegramFails(t) BY <1>3, <1>13 DEF QueryRaises, TelegramFails
<1>14. CASE StatusSent(t) \/ QueryRefused(t) \/ Replied(t) \/ HandleError(t)
  BY <1>1, <1>2, <1>14 DEF StatusSent, QueryRefused, Replied, HandleError
<1> QED BY <1>5, <1>6, <1>7, <1>8, <1>9, <1>10, <1>11, <1>12, <1>13, <1>14 DEF Resume

\* Matching an update to a handler leaves the session alone, and the handler
\* is one of the state's.
LEMMA DispatchMoves ==
  ASSUME TypeOK, NEW t \in TaskIds, Dispatch(t)
  PROVE  /\ Conversing' = Conversing
         /\ \A u \in TaskIds \ {t} : tasks'[u] = tasks[u]
         /\ tasks'[t].pc = "uid" => state = "entering_uid"
         /\ tasks'[t].pc \in {"preset", "picked"} => state = "choosing_period"
         /\ tasks'[t].pc = "period" => state = "entering_period"
<1>1. PICK r \in Routes(state) :
        tasks' = [tasks EXCEPT ![t] = [Free EXCEPT !.pc = r[1], !.arg = r[2]]]
  BY DEF Dispatch
<1>2. tasks'[t].pc = r[1] /\ \A u \in TaskIds \ {t} : tasks'[u] = tasks[u]
  BY <1>1 DEF TypeOK, Free
<1>3. /\ r[1] = "uid" => state = "entering_uid"
      /\ r[1] # "picked" /\ (r[1] = "preset" => state = "choosing_period")
      /\ r[1] = "period" => state = "entering_period"
  BY DEF Routes
<1> QED BY <1>2, <1>3 DEF Dispatch, Conversing

\* A prompt for a period that an update sets without having been overtaken
\* has its inputs: the state it was chosen for had them.
LEMMA StepPrompts ==
  ASSUME Watched, NEW t \in TaskIds, Watch(t), SetsNoPrompt \/ SetsPrompt(t)
  PROVE  PromptsHaveInputs'
<1> SUFFICES ASSUME state' \in PeriodPrompts, None \in {data.code, data.uid}'
             PROVE  raced'
  BY DEF PromptsHaveInputs
<1>1. raced' = (raced \/ (t \in overtaken /\ Conversing' # Conversing)) BY DEF Watch, Watched
<1>2. CASE Conversing' = Conversing
  BY <1>1, <1>2 DEF Conversing, Watched, PromptsHaveInputs
<1>3. CASE Conversing' # Conversing /\ t \notin overtaken
  <2>1. SetsPrompt(t) BY <1>3 DEF SetsNoPrompt
  <2>2. CASE tasks[t].pc = "uid"
    <3>1. state = "entering_uid" BY <1>3, <2>2 DEF Watched, Undisturbed
    <3>2. data.code # None BY <3>1 DEF Watched, WaitingHasInputs
    <3>3. tasks[t].arg \in Uids /\ data' = [data EXCEPT !.uid = tasks[t].arg]
      BY <2>1, <2>2 DEF SetsPrompt
    <3>4. data'.code # None /\ data'.uid # None
      BY <3>2, <3>3, DisjointAssumption DEF Watched, TypeOK, SessionData
    <3> QED BY <3>4
  <2>3. CASE tasks[t].pc = "picked"
    <3>1. state = "choosing_period" BY <1>3, <2>3 DEF Watched, Undisturbed
    <3>2. data' = data BY <2>1, <2>3 DEF SetsPrompt
    <3> QED BY <1>1, <3>1, <3>2 DEF Watched, PromptsHaveInputs, PeriodPrompts
  <2> QED BY <2>1, <2>2, <2>3 DEF SetsPrompt
<1>4. CASE Conversing' # Conversing /\ t \in overtaken BY <1>1, <1>4
<1> QED BY <1>2, <1>3, <1>4

LEMMA StepUndisturbed ==
  ASSUME Watched, NEW t \in TaskIds, Watch(t),
         Dispatch(t) \/ (Resume(t) /\ MovesOn(t)),
         \A u \in TaskIds \ {t} : tasks'[u] = tasks[u]
  PROVE  Undisturbed'
<1> SUFFICES ASSUME NEW u \in TaskIds, u \notin overtaken', tasks'[u].pc \in ChosenByState
             PROVE  /\ tasks'[u].pc = "uid" => state' = "entering_uid"
                    /\ tasks'[u].pc \in {"preset", "picked"} => state' = "choosing_period"
                    /\ tasks'[u].pc = "period" => state' = "entering_period"
  BY DEF Undisturbed, ChosenByState
<1>1. u \notin overtaken /\ (u # t => Conversing' = Conversing)
  BY DEF Watch, ChosenByState
<1>2. CASE u # t
  BY <1>1, <1>2 DEF Watched, Undisturbed, Conversing
<1>3. CASE u = t /\ Dispatch(t)
  BY <1>3, DispatchMoves DEF Watched, Conversing
<1>4. CASE u = t /\ MovesOn(t)
  BY <1>1, <1>4 DEF Watched, Undisturbed, Conversing, MovesOn
<1> QED BY <1>2, <1>3, <1>4

LEMMA InitWatched == RInit => Watched
<1> SUFFICES ASSUME RInit PROVE Watched OBVIOUS
<1>1. Init /\ raced = FALSE BY DEF RInit
<1>2. state = "idle" /\ \A t \in TaskIds : tasks[t].pc = "free" BY <1>1 DEF Init, Free
<1>3. Undisturbed /\ PromptsHaveInputs
  BY <1>2 DEF Undisturbed, PromptsHaveInputs, PeriodPrompts
<1> QED BY <1>1, <1>3, InitialInvariants DEF Watched

LEMMA StepWatched == Watched /\ [RNext]_rvars => Watched'
<1> SUFFICES ASSUME Watched, [RNext]_rvars PROVE Watched' OBVIOUS
<1>1. [Next]_vars BY DEF RNext, RStep, RRestart, Next, rvars, vars
<1>2. (TypeOK /\ WaitingHasInputs)'
  BY <1>1, StepTypeOK, StepWaitingHasInputs DEF Watched
<1>3. CASE UNCHANGED rvars
  BY <1>2, <1>3 DEF rvars, vars, Watched, Undisturbed, PromptsHaveInputs
<1>4. CASE RRestart
  <2>1. state' = "idle" /\ raced' = FALSE /\ \A t \in TaskIds : tasks'[t].pc = "free"
    BY <1>4 DEF RRestart, Restart, Clear, SetState, Free
  <2> QED BY <1>2, <2>1 DEF Watched, Undisturbed, PromptsHaveInputs, PeriodPrompts
<1>5. ASSUME NEW t \in TaskIds, RStep(t) PROVE Watched'
  <2>1. Watch(t) /\ raced' \in BOOLEAN BY <1>5 DEF RStep, Watch
  <2>2. CASE Dispatch(t)
    <3>1. SetsNoPrompt /\ \A u \in TaskIds \ {t} : tasks'[u] = tasks[u]
      BY <2>2, DispatchMoves DEF Watched, SetsNoPrompt
    <3> QED BY <1>2, <2>1, <2>2, <3>1, StepPrompts, StepUndisturbed DEF Watched
  <2>3. CASE Resume(t)
    <3>1. /\ SetsNoPrompt \/ SetsPrompt(t)
          /\ MovesOn(t)
          /\ \A u \in TaskIds \ {t} : tasks'[u] = tasks[u]
      BY <2>3, ResumeMoves DEF Watched
    <3> QED BY <1>2, <2>1, <2>3, <3>1, StepPrompts, StepUndisturbed DEF Watched
  <2> QED BY <1>5, <2>2, <2>3 DEF RStep
<1> QED BY <1>3, <1>4, <1>5 DEF RNext

\* For any number of concurrent updates: a prompt for a period lacks an input
\* only if the update that set it was overtaken, and a handler finds one
\* missing only if it was itself overtaken or answers such a prompt.
THEOREM RacesInputsLostOnlyInRaces == RSpec => []InputsLostOnlyInRaces
<1>1. RInit => Watched BY InitWatched
<1>2. Watched /\ [RNext]_rvars => Watched' BY StepWatched
<1>3. Watched => InputsLostOnlyInRaces
  BY DEF Watched, Undisturbed, PromptsHaveInputs, WaitingHasInputs, PeriodPrompts,
         InputsLostOnlyInRaces
<1> QED BY <1>1, <1>2, <1>3, PTL DEF RSpec

-----------------------------------------------------------------------------
(* With one update at a time the handlers implement the Conversation.  The *)
(* invariant ties each label of the one task to the session: nothing moves *)
(* the session between the choice of a handler and its body.               *)

Task1 == tasks[Serial]

\* The session has not moved since the task got where it is.
InPlace ==
  /\ Task1.pc = "exchange" => state = "choosing_exchange"
  /\ Task1.pc = "uid" => state = "entering_uid"
  /\ Task1.pc \in {"preset", "picked"} => state = "choosing_period"
  /\ Task1.pc = "period" => state = "entering_period"
  /\ Task1.pc = "menu" => state = "idle" /\ data = NoData

\* A fetch queries what the session holds.
QueriesSession ==
  Querying => state = "fetching" /\ Task1.code = data.code /\ Task1.uid = data.uid

\* The session is empty while the exchange is being chosen.
FreshChoice == state = "choosing_exchange" => data = NoData

Linked == InPlace /\ QueriesSession /\ FreshChoice /\ NoMissingKey

\* The hypothesis and the invariants of Flow the argument rests on.
Base == OneAtATime /\ TypeOK /\ WaitingHasInputs /\ OnlyConfiguredExchanges

-----------------------------------------------------------------------------

\* There is one task.
LEMMA SerialTask == ASSUME OneAtATime PROVE TaskIds = {Serial}
<1>1. PICK t \in TaskIds : TaskIds = {t} BY DEF OneAtATime
<1>2. Serial \in TaskIds BY <1>1 DEF Serial
<1> QED BY <1>1, <1>2

\* What a step may assume of the task and the session.
LEMMA SerialTypes ==
  ASSUME OneAtATime, TypeOK
  PROVE  /\ tasks = [t \in {Serial} |-> Task1]
         /\ Task1 \in Task
         /\ data \in SessionData
BY SerialTask DEF TypeOK, Task1

\* How the steps of the one task change it.
LEMMA SerialSteps ==
  ASSUME OneAtATime, TypeOK
  PROVE  /\ \A label : Goto(Serial, label) => Task1' = [Task1 EXCEPT !.pc = label]
         /\ Finish(Serial) => Task1' = Free
BY SerialTask DEF TypeOK, Goto, Finish, Task1

\* The task moves on with its copy of the exchange and the UID.
LEMMA SerialGoto ==
  ASSUME OneAtATime, TypeOK, NEW label, Goto(Serial, label)
  PROVE  Task1'.pc = label /\ Task1'.code = Task1.code /\ Task1'.uid = Task1.uid
BY SerialSteps, SerialTypes DEF Task

\* The refinement mapping at an idle task and at a querying one.
LEMMA Mapped ==
  /\ Task1.pc \notin Fetch => Exchange = data.code /\ Uid = data.uid
  /\ Task1.pc \in Fetch => Exchange = Task1.code /\ Uid = Task1.uid
BY DEF Exchange, Uid, Querying, Task1

\* At first nobody is at work on an empty session.
LEMMA InitLinked == ASSUME OneAtATime PROVE Init => Linked
<1> SUFFICES ASSUME Init PROVE Linked OBVIOUS
<1>1. Task1 = Free /\ state = "idle" BY SerialTask DEF Init, Task1
<1> QED BY <1>1 DEF Linked, InPlace, QueriesSession, Querying, FreshChoice, NoMissingKey,
                    Free, Fetch, Task1

\* The initial session is the initial conversation.
LEMMA InitRefines == ASSUME OneAtATime PROVE Init => Promise!Init
<1> SUFFICES ASSUME Init PROVE Promise!Init OBVIOUS
<1>1. Task1 = Free /\ state = "idle" /\ data = NoData BY SerialTask DEF Init, Task1
<1>2. Task1.pc \notin Fetch BY <1>1 DEF Free, Fetch
<1> QED BY <1>1, <1>2, Mapped DEF Promise!Init, Phase, NoData

-----------------------------------------------------------------------------
(* The invariant.                                                          *)

\* A step of the task that empties the session or leaves it alone, and does
\* not begin a handler.
LEMMA PlainStepLinked ==
  ASSUME OneAtATime, TypeOK, Linked,
         Task1'.pc \in {"free", "reply", "error", "last_words"},
         \/ state' = "idle"
         \/ UNCHANGED <<state, data>>
  PROVE  Linked'
BY DEF Linked, InPlace, QueriesSession, Querying, FreshChoice, NoMissingKey, Fetch, Task1

\* Dispatch chooses the handler by the state it finds.
LEMMA DispatchLinked ==
  ASSUME OneAtATime, TypeOK, Linked, Dispatch(Serial) PROVE Linked'
<1>1. PICK r \in Routes(state) :
        tasks' = [tasks EXCEPT ![Serial] = [Free EXCEPT !.pc = r[1], !.arg = r[2]]]
  BY DEF Dispatch
<1>2. Task1'.pc = r[1]
  BY <1>1, SerialTask DEF TypeOK, Task1, Free
<1>3. /\ r[1] \in Bodies \cup {"reply"}
      /\ r[1] = "exchange" => state = "choosing_exchange"
      /\ r[1] = "uid" => state = "entering_uid"
      /\ r[1] = "preset" => state = "choosing_period"
      /\ r[1] = "period" => state = "entering_period"
  BY DEF Routes, Bodies
<1>4. UNCHANGED <<state, data>> BY DEF Dispatch
<1> QED
  BY <1>2, <1>3, <1>4
  DEF Linked, InPlace, QueriesSession, Querying, FreshChoice, NoMissingKey, Fetch, Task1, Bodies

\* An exception leaves the session as it is.
LEMMA RaiseLinked ==
  ASSUME OneAtATime, TypeOK, Linked, Raise(Serial) PROVE Linked'
BY PlainStepLinked, SerialGoto DEF Raise

\* A fetch begins with what the session holds, or the task only has its last
\* words to say.
LEMMA BeginFetchLinked ==
  ASSUME OneAtATime, TypeOK, Linked, BeginFetch(Serial) PROVE Linked'
<1>1. CASE Raise(Serial) BY <1>1, RaiseLinked
<1>2. CASE Goto(Serial, "last_words") /\ UNCHANGED <<state, data>>
  BY <1>2, PlainStepLinked, SerialGoto
<1>3. CASE /\ None \notin {data.code, data.uid}
           /\ SetState("fetching") /\ UNCHANGED data
           /\ tasks' = [tasks EXCEPT ![Serial] =
                [@ EXCEPT !.pc = "status", !.code = data.code, !.uid = data.uid]]
  <2>1. Task1' = [Task1 EXCEPT !.pc = "status", !.code = data.code, !.uid = data.uid]
    BY <1>3, SerialTask DEF TypeOK, Task1
  <2>2. Task1'.pc = "status" /\ Task1'.code = data.code /\ Task1'.uid = data.uid
    BY <2>1, SerialTypes DEF Task
  <2> QED
    BY <1>3, <2>2
    DEF SetState, Linked, InPlace, QueriesSession, Querying, FreshChoice, NoMissingKey, Fetch, Task1
<1> QED BY <1>1, <1>2, <1>3 DEF BeginFetch

\* Every step keeps the task and the session linked.
LEMMA StepLinked ==
  ASSUME Base, Linked, [Next]_vars PROVE Linked'
<1> USE DEF Base
<1>1. CASE UNCHANGED vars
  BY <1>1 DEF vars, Linked, InPlace, QueriesSession, Querying, FreshChoice, NoMissingKey, Task1
<1>2. CASE Restart
  <2>1. Task1' = Free /\ state' = "idle" BY <1>2, SerialTask DEF Restart, Clear, SetState, Task1
  <2> QED BY <2>1, PlainStepLinked DEF Free
<1>3. CASE Dispatch(Serial) BY <1>3, DispatchLinked
<1>4. ASSUME Resume(Serial) PROVE Linked'
  <2>1. ASSUME NEW label \in {"reply", "last_words"}, Goto(Serial, label),
               state' = "idle" \/ UNCHANGED <<state, data>>
        PROVE  Linked'
    BY <2>1, PlainStepLinked, SerialGoto
  <2>2. ASSUME Finish(Serial), state' = "idle" \/ UNCHANGED <<state, data>>
        PROVE  Linked'
    BY <2>2, PlainStepLinked, SerialSteps DEF Free
  <2> USE DEF session
  <2>3. CASE Reset(Serial) BY <2>3, <2>1 DEF Reset, Clear, SetState
  <2>4. CASE StartCalc(Serial)
    <3>1. Task1'.pc = "menu" /\ state' = "idle" /\ data' = NoData
      BY <2>4, SerialGoto DEF StartCalc, Clear, SetState
    <3> QED
      BY <3>1
      DEF Linked, InPlace, QueriesSession, Querying, FreshChoice, NoMissingKey, Fetch, Task1
  <2>5. CASE ShowExchanges(Serial)
    <3>1. CASE SetState("choosing_exchange") /\ Goto(Serial, "reply") /\ UNCHANGED data
      <4>1. Task1'.pc = "reply" /\ state' = "choosing_exchange"
        BY <3>1, SerialGoto DEF SetState
      <4>2. data' = NoData BY <2>5, <3>1 DEF ShowExchanges, At, Linked, InPlace, Task1
      <4> QED
        BY <4>1, <4>2
        DEF Linked, InPlace, QueriesSession, Querying, FreshChoice, NoMissingKey, Fetch, Task1
    <3> QED BY <2>5, <2>1, <2>2, <3>1 DEF ShowExchanges
  <2>6. CASE LastWordsSent(Serial) BY <2>6, <2>2 DEF LastWordsSent, Clear, SetState
  <2>7. CASE ExchangeChosen(Serial) \/ SameExchange(Serial)
    <3>1. CASE SetState("entering_uid") /\ Goto(Serial, "reply")
      <4>1. Task1'.pc = "reply" /\ state' = "entering_uid"
        BY <3>1, SerialGoto DEF SetState
      <4> QED
        BY <4>1
        DEF Linked, InPlace, QueriesSession, Querying, FreshChoice, NoMissingKey, Fetch, Task1
    <3> QED BY <2>7, <2>1, <3>1 DEF ExchangeChosen, SameExchange
  <2>8. CASE UidEntered(Serial)
    <3>1. CASE /\ Task1.arg \in Uids /\ data' = [data EXCEPT !.uid = Task1.arg]
               /\ SetState("choosing_period") /\ Goto(Serial, "reply")
      <4>1. Task1'.pc = "reply" /\ state' = "choosing_period"
        BY <3>1, SerialGoto DEF SetState
      <4>2. data.code # None
        BY <2>8 DEF UidEntered, At, Linked, InPlace, WaitingHasInputs, Task1
      <4>3. data'.code # None /\ data'.uid # None
        BY <3>1, <4>2, SerialTypes, DisjointAssumption DEF SessionData
      <4> QED
        BY <4>1, <4>3
        DEF Linked, InPlace, QueriesSession, Querying, FreshChoice, NoMissingKey, Fetch, Task1
    <3> QED BY <2>8, <2>1, <3>1 DEF UidEntered, Task1
  <2>9. CASE PresetChosen(Serial)
    <3>1. Task1'.pc = "picked" BY <2>9, SerialGoto DEF PresetChosen
    <3>2. UNCHANGED <<state, data>> /\ Task1.pc = "preset"
      BY <2>9 DEF PresetChosen, At, Task1
    <3> QED
      BY <3>1, <3>2
      DEF Linked, InPlace, QueriesSession, Querying, FreshChoice, NoMissingKey, Fetch, Task1
  <2>10. CASE PresetAnswered(Serial)
    <3>1. CASE SetState("entering_period") /\ Goto(Serial, "reply") /\ UNCHANGED data
      <4>1. Task1'.pc = "reply" /\ state' = "entering_period"
        BY <3>1, SerialGoto DEF SetState
      <4>2. state = "choosing_period"
        BY <2>10 DEF PresetAnswered, At, Linked, InPlace, Task1
      <4> QED
        BY <3>1, <4>1, <4>2
        DEF Linked, InPlace, QueriesSession, Querying, FreshChoice, NoMissingKey, Fetch, Task1
    <3> QED BY <2>10, <2>1, <2>2, <3>1, BeginFetchLinked DEF PresetAnswered
  <2>11. CASE PeriodEntered(Serial) BY <2>11, <2>1, BeginFetchLinked DEF PeriodEntered
  <2>12. CASE StatusSent(Serial) \/ QueryRefused(Serial)
    <3>1. /\ Task1'.pc \in {"query", "auth"}
          /\ Task1'.code = Task1.code /\ Task1'.uid = Task1.uid
      BY <2>12, SerialGoto DEF StatusSent, QueryRefused
    <3>2. Task1.pc \in Fetch /\ UNCHANGED <<state, data>>
      BY <2>12 DEF StatusSent, QueryRefused, At, Task1, Fetch
    <3> QED
      BY <3>1, <3>2
      DEF Linked, InPlace, QueriesSession, Querying, FreshChoice, NoMissingKey, Fetch, Task1
  <2>13. CASE QuerySucceeds(Serial) \/ QueryFails(Serial) \/ DeveloperAlerted(Serial)
    BY <2>13, <2>1 DEF QuerySucceeds, QueryFails, DeveloperAlerted, SetState
  <2>14. CASE QueryRaises(Serial) \/ TelegramFails(Serial)
    BY <2>14, RaiseLinked DEF QueryRaises, TelegramFails
  <2>15. CASE Replied(Serial) \/ HandleError(Serial) BY <2>15, <2>2 DEF Replied, HandleError
  <2> QED BY <1>4, <2>3, <2>4, <2>5, <2>6, <2>7, <2>8, <2>9, <2>10, <2>11, <2>12, <2>13,
             <2>14, <2>15 DEF Resume
<1> QED BY <1>1, <1>2, <1>3, <1>4, SerialTask DEF Next

-----------------------------------------------------------------------------
(* The refinement.                                                         *)

\* The phase of each state.
LEMMA PhaseOf ==
  /\ state = "idle" => Phase = "idle"
  /\ state = "choosing_exchange" => Phase = "exchange"
  /\ state = "entering_uid" => Phase = "uid"
  /\ state \in {"choosing_period", "entering_period"} => Phase = "period"
  /\ state = "fetching" => Phase = "running"
BY DEF Phase

\* While they are linked, session and mapping agree.
LEMMA LinkedMapped ==
  ASSUME QueriesSession PROVE Exchange = data.code /\ Uid = data.uid
BY DEF QueriesSession, Exchange, Uid, Querying, Task1

\* The same after a step, whose mapping reads the state it leads to.
LEMMA NextMapped ==
  ASSUME QueriesSession'
  PROVE  Exchange' = data'.code /\ Uid' = data'.uid
BY DEF QueriesSession, Exchange, Uid, Querying, Task1

\* The phase of the state a step leads to.
LEMMA NextPhaseOf ==
  /\ state' = "idle" => Phase' = "idle"
  /\ state' = "choosing_exchange" => Phase' = "exchange"
  /\ state' = "entering_uid" => Phase' = "uid"
  /\ state' \in {"choosing_period", "entering_period"} => Phase' = "period"
  /\ state' = "fetching" => Phase' = "running"
BY DEF Phase

\* A step that leaves the session alone is none of the conversation.
LEMMA SameSessionStutters ==
  ASSUME Linked, Linked', UNCHANGED <<state, data>>
  PROVE  UNCHANGED Promise!vars
BY LinkedMapped, NextMapped DEF Linked, Promise!vars, Phase

\* Emptying the session starts the conversation over.
LEMMA ClearStartsOver ==
  ASSUME Linked', Clear PROVE Promise!StartOver
BY NextMapped, NextPhaseOf DEF Linked, Clear, SetState, NoData, Promise!StartOver

\* A fetch begins for what was picked.
LEMMA BeginFetchRefines ==
  ASSUME Base, Linked, Linked', state \in {"choosing_period", "entering_period"},
         BeginFetch(Serial)
  PROVE  Promise!Next \/ UNCHANGED Promise!vars
<1>1. CASE UNCHANGED <<state, data>> BY <1>1, SameSessionStutters
<1>2. CASE SetState("fetching") /\ UNCHANGED data
  <2>1. Phase = "period" /\ Phase' = "running" BY <1>2, PhaseOf, NextPhaseOf DEF SetState
  <2>2. data.code # None /\ data.uid # None BY DEF Linked, NoMissingKey
  <2>3. Promise!Run
    BY <1>2, <2>1, <2>2, LinkedMapped, NextMapped DEF Linked, Promise!Run
  <2> QED BY <2>3 DEF Promise!Next
<1> QED BY <1>1, <1>2 DEF BeginFetch, Raise

\* Every step of the bot is a step of the conversation or none.
LEMMA StepRefines ==
  ASSUME Base, Linked, Linked', [Next]_vars
  PROVE  Promise!Next \/ UNCHANGED Promise!vars
<1> USE DEF Base, session
<1>1. CASE UNCHANGED <<state, data>> BY <1>1, SameSessionStutters
<1>2. CASE Clear BY <1>2, ClearStartsOver DEF Promise!Next
<1>3. ASSUME Resume(Serial) PROVE Promise!Next \/ UNCHANGED Promise!vars
  <2>1. CASE ShowExchanges(Serial)
    <3>1. CASE SetState("choosing_exchange") /\ UNCHANGED data
      <4>1. state = "idle" /\ data = NoData
        BY <2>1 DEF ShowExchanges, At, Linked, InPlace, Task1
      <4>2. Phase = "idle" /\ Phase' = "exchange"
        BY <3>1, <4>1, PhaseOf, NextPhaseOf DEF SetState
      <4>3. Promise!OfferExchanges
        BY <3>1, <4>1, <4>2, LinkedMapped, NextMapped
        DEF Linked, NoData, Promise!OfferExchanges
      <4> QED BY <4>3 DEF Promise!Next
    <3> QED BY <2>1, <1>1, <3>1 DEF ShowExchanges
  <2>2. CASE ExchangeChosen(Serial)
    <3>1. CASE /\ Task1.arg \in adapters /\ data' = [data EXCEPT !.code = Task1.arg]
               /\ SetState("entering_uid")
      <4>1. state = "choosing_exchange" /\ data = NoData
        BY <2>2 DEF ExchangeChosen, At, Linked, InPlace, FreshChoice, Task1
      <4>2. Task1.arg \in Codes BY <3>1, ConfigsAssumption DEF TypeOK
      <4>3. data'.code = Task1.arg /\ data'.uid = None BY <3>1, <4>1 DEF NoData
      <4>4. Phase = "exchange" /\ Phase' = "uid"
        BY <3>1, <4>1, PhaseOf, NextPhaseOf DEF SetState
      <4>5. Promise!PickExchange
        BY <4>2, <4>3, <4>4, NextMapped DEF Linked, Promise!PickExchange
      <4> QED BY <4>5 DEF Promise!Next
    <3> QED BY <2>2, <1>1, <3>1 DEF ExchangeChosen, Task1
  <2>3. CASE SameExchange(Serial)
    <3>1. CASE /\ data.code # None /\ data' = [data EXCEPT !.uid = None]
               /\ SetState("entering_uid")
      <4>1. data'.code = data.code /\ data'.uid = None
        BY <3>1, SerialTypes DEF SessionData
      <4>2. Phase' = "uid" BY <3>1, NextPhaseOf DEF SetState
      <4>3. Promise!ReuseExchange
        BY <3>1, <4>1, <4>2, LinkedMapped, NextMapped DEF Linked, Promise!ReuseExchange
      <4> QED BY <4>3 DEF Promise!Next
    <3> QED BY <2>3, <1>1, <3>1 DEF SameExchange
  <2>4. CASE UidEntered(Serial)
    <3>1. CASE /\ Task1.arg \in Uids /\ data' = [data EXCEPT !.uid = Task1.arg]
               /\ SetState("choosing_period")
      <4>1. state = "entering_uid" BY <2>4 DEF UidEntered, At, Linked, InPlace, Task1
      <4>2. data'.code = data.code /\ data'.uid = Task1.arg
        BY <3>1, SerialTypes DEF SessionData
      <4>3. Phase = "uid" /\ Phase' = "period"
        BY <3>1, <4>1, PhaseOf, NextPhaseOf DEF SetState
      <4>4. Promise!PickUid
        BY <3>1, <4>2, <4>3, LinkedMapped, NextMapped DEF Linked, Promise!PickUid
      <4> QED BY <4>4 DEF Promise!Next
    <3> QED BY <2>4, <1>1, <3>1 DEF UidEntered, Task1
  <2>5. CASE PresetAnswered(Serial)
    <3>1. state = "choosing_period"
      BY <2>5 DEF PresetAnswered, At, Linked, InPlace, Task1
    <3>2. CASE BeginFetch(Serial) BY <3>1, <3>2, BeginFetchRefines
    <3>3. CASE SetState("entering_period") /\ UNCHANGED data
      <4>1. Phase = "period" /\ Phase' = "period"
        BY <3>1, <3>3, PhaseOf, NextPhaseOf DEF SetState
      <4> QED BY <3>3, <4>1, LinkedMapped, NextMapped DEF Linked, Promise!vars
    <3> QED BY <2>5, <1>1, <3>2, <3>3 DEF PresetAnswered
  <2>6. CASE PeriodEntered(Serial)
    <3>1. state = "entering_period"
      BY <2>6 DEF PeriodEntered, At, Linked, InPlace, Task1
    <3> QED BY <2>6, <3>1, <1>1, BeginFetchRefines DEF PeriodEntered
  <2>7. CASE QuerySucceeds(Serial) \/ QueryFails(Serial) \/ DeveloperAlerted(Serial)
    <3>1. state = "fetching" /\ Task1.code = data.code
      BY <2>7 DEF QuerySucceeds, QueryFails, DeveloperAlerted, At, Linked, QueriesSession,
                  Querying, Fetch, Task1
    <3>2. state' = "idle"
      BY <2>7 DEF QuerySucceeds, QueryFails, DeveloperAlerted, SetState
    <3>3. data'.code = data.code /\ data'.uid \in {data.uid, None}
      BY <2>7, <3>1 DEF QuerySucceeds, QueryFails, DeveloperAlerted, NoData, Task1
    <3>4. Phase = "running" /\ Phase' = "idle" BY <3>1, <3>2, PhaseOf, NextPhaseOf
    <3>5. Promise!Finish
      BY <3>3, <3>4, LinkedMapped, NextMapped DEF Linked, Promise!Finish
    <3> QED BY <3>5 DEF Promise!Next
  <2>8. CASE Reset(Serial) \/ StartCalc(Serial) \/ LastWordsSent(Serial)
    BY <2>8, <1>2 DEF Reset, StartCalc, LastWordsSent
  <2>9. CASE \/ PresetChosen(Serial) \/ StatusSent(Serial) \/ QueryRefused(Serial)
             \/ Replied(Serial) \/ HandleError(Serial)
    BY <2>9, <1>1 DEF PresetChosen, StatusSent, QueryRefused, Replied, HandleError
  <2>10. CASE QueryRaises(Serial) \/ TelegramFails(Serial)
    BY <2>10, <1>1 DEF QueryRaises, TelegramFails, Raise
  <2> QED BY <1>3, <2>1, <2>2, <2>3, <2>4, <2>5, <2>6, <2>7, <2>8, <2>9, <2>10 DEF Resume
<1>4. CASE Dispatch(Serial) BY <1>4, <1>1 DEF Dispatch
<1>5. CASE Restart BY <1>5, <1>2 DEF Restart
<1>6. CASE UNCHANGED vars BY <1>6, <1>1 DEF vars
<1> QED BY <1>3, <1>4, <1>5, <1>6, SerialTask DEF Next

-----------------------------------------------------------------------------

\* One update at a time, no handler runs on a session that has moved since it
\* was chosen, and a fetch queries what the session holds.
THEOREM SerialLinked == ASSUME OneAtATime PROVE Spec => []Linked
<1>1. Spec => []Base
  BY FlowTypeOK, FlowWaitingHasInputs, FlowOnlyConfiguredExchanges, PTL DEF Base
<1>2. Base /\ Linked /\ [Next]_vars => Linked' BY StepLinked
<1> QED BY <1>1, <1>2, InitLinked, PTL DEF Spec

\* No handler finds a key of the session missing.
THEOREM SerialNoMissingKey == ASSUME OneAtATime PROVE Spec => []NoMissingKey
<1>1. Linked => NoMissingKey BY DEF Linked
<1> QED BY <1>1, SerialLinked, PTL

\* The handlers implement the conversation the bot promises.
THEOREM SerialKeepsPromise == ASSUME OneAtATime PROVE Spec => KeepsPromise
<1>1. Spec => []Base
  BY FlowTypeOK, FlowWaitingHasInputs, FlowOnlyConfiguredExchanges, PTL DEF Base
<1>2. Base /\ Linked /\ Linked' /\ [Next]_vars => [Promise!Next]_Promise!vars
  BY StepRefines
<1> QED BY <1>1, <1>2, InitRefines, SerialLinked, PTL DEF Spec, KeepsPromise, Promise!Spec

=============================================================================
