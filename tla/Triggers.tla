------------------------------ MODULE Triggers ------------------------------
(***************************************************************************)
(* What a world event asks of the missions                                 *)
(* (src/mc_ai_bt/trigger_manager.py).  An event has a type and a payload;  *)
(* of the payload the decisions read a mission id, a plan version and the  *)
(* remark that no replan is recommended.  A payload that is not a JSON     *)
(* object names nothing.                                                   *)
(***************************************************************************)
EXTENDS Integers

SafetyEventTypes == {"SAFETY_STOP_OCCURRED", "SAFETY_STOP_ACTIVE", "E_STOP", "EMERGENCY_STOP"}

ReplanEventTypes ==
  {"MISSION_RELEVANT_FACT_CHANGED", "GOAL_EVIDENCE_CHANGED", "ACTIVE_PARTICIPANT_LEFT"}

NewMissionEventTypes == {"PERSON_APPROACHED", "PERSON_HAND_OFFERED"}

ClarificationEventTypes ==
  {"AMBIGUOUS_USER_INTENT", "MISSING_REQUIRED_ENTITY", "MISSING_REQUIRED_PLACE",
   "MISSING_REQUIRED_TARGET", "LOW_CONFIDENCE_TASK_CONTEXT"}

\* Versions a payload may give beside a number.
Unnamed == -1
Garbled == -2

\* handle_world_event; of an active mission it knows only whether there is one.
Decide(event, busy) ==
  CASE event.type \in SafetyEventTypes -> "BLOCKED"
    [] event.type = "GOAL_EVIDENCE_CHANGED" /\ event.discouraged -> "LOCAL_HANDLED"
    [] event.type \in ReplanEventTypes /\ ~(event.type = "GOAL_EVIDENCE_CHANGED" /\ event.discouraged)
         -> "REPLAN"
    [] event.type \in NewMissionEventTypes -> IF busy THEN "LOCAL_HANDLED" ELSE "PLAN_NEW_MISSION"
    [] event.type \in ClarificationEventTypes -> "ASK_CLARIFICATION"
    [] OTHER -> "NO_ACTION"

\* trigger_decision_matches_mission
Matches(event, m, pv) == event.mission \subseteq {m} /\ event.version \in {Unnamed, pv}

=============================================================================
