----------------------------- MODULE FlowRaces ------------------------------
(***************************************************************************)
(* Flow watched for races: which updates were overtaken, that is, had the  *)
(* session changed by another one after they were matched to their         *)
(* handler, and whether the prompt now shown was set by one of those.  Two *)
(* handlers write on the word of what they were matched on: on_uid_entered *)
(* and, after an await, on_preset_chosen.                                  *)
(***************************************************************************)
EXTENDS Flow

VARIABLES
  overtaken,   \* observation: updates in progress that were overtaken
  raced        \* observation: an overtaken update set the prompt for a period

rvars == <<vars, overtaken, raced>>

Conversing == <<state, data>>
PeriodPrompts == {"choosing_period", "entering_period"}

RInit == Init /\ overtaken = {} /\ raced = FALSE

\* A step of update t is watched.
Watch(t) ==
  /\ overtaken' = {u \in TaskIds : /\ tasks'[u].pc # "free"
                                   /\ u \in overtaken \/ (u # t /\ Conversing' # Conversing)}
  /\ raced' = (/\ state' \in PeriodPrompts
               /\ raced \/ (t \in overtaken /\ Conversing' # Conversing))

RStep(t) == (Dispatch(t) \/ Resume(t)) /\ Watch(t)

RRestart == Restart /\ overtaken' = {} /\ raced' = FALSE

RNext == (\E t \in TaskIds : RStep(t)) \/ RRestart

RSpec == RInit /\ [][RNext]_rvars

-----------------------------------------------------------------------------
(* Properties.                                                             *)

\* Only a race asks for a period without exchange or UID, or lets a handler
\* find one of them missing, which is the KeyError of _fetch_and_render.  An
\* update nobody overtook finds what its predecessors stored, whatever other
\* fetches, resets and old buttons came in between, unless the prompt it
\* answers was itself set by an update that was overtaken.
InputsLostOnlyInRaces ==
  /\ state \in PeriodPrompts /\ None \in {data.code, data.uid} => raced
  /\ \A t \in TaskIds \ overtaken :
       /\ tasks[t].pc = "uid" => data.code # None
       /\ tasks[t].pc \in {"preset", "picked", "period"} /\ None \in {data.code, data.uid}
          => raced

=============================================================================
