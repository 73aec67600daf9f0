------------------------------ MODULE Evidence ------------------------------
(***************************************************************************)
(* What the node takes for evidence of a predicate: GoalChecker            *)
(* (src/mc_ai_bt/goal_check.py, entity_facts.py), the visual fallback of   *)
(* MissionCheckExecutor (visual_client.py) and the fresh looks of          *)
(* DecisionBroker (decision_broker.py).                                    *)
(*                                                                         *)
(* A fact is one of a few kinds of entry, by what the checks tell apart:   *)
(*   "missing"     there is none, or it has no usable shape                *)
(*   "yes", "no"   it says so                                              *)
(*   "unverified"  it says yes with semantic_verified = False              *)
(*   "partial"     it says yes without the detail the predicate needs      *)
(*   "other"       it is about another place, entity, clip, request, ...   *)
(*   "weak"        its score or count is below the wanted minimum          *)
(***************************************************************************)
EXTENDS Sequences, SequencesExt

Entry == {"missing", "yes", "no", "unverified", "partial", "other", "weak"}

Tri == {"TRUE", "FALSE", "UNKNOWN"}

\* Entries in "yes" answer TRUE, entries in "no" FALSE, all others nothing.
Verdict(entry, yes, no) ==
  IF entry \in yes THEN "TRUE" ELSE IF entry \in no THEN "FALSE" ELSE "UNKNOWN"

-----------------------------------------------------------------------------
(* GoalChecker: one reading of a fact per kind of predicate *)

\* A name the robot recorded itself: the place, the animation, the saved place.
NamedResult(entry) == Verdict(entry, {"yes", "unverified", "partial", "weak"}, {"other"})

NearOwnerResult(entry) == Verdict(entry, {"yes"}, {})
NearOwnerInWorld(entry) == Verdict(entry, {"yes"}, {"no"})

RelativeMotionResult(entry) == Verdict(entry, {"yes", "no", "unverified", "partial"}, {"other", "weak"})

FollowingResult(entry) == Verdict(entry, {"yes", "partial", "weak"}, {"no", "other"})

AliasResult(entry) == Verdict(entry, {"yes", "no", "unverified", "weak"}, {"other"})

\* object_visibility_evidence: a missing score counts only against a wanted one.
ObjectVisibilityResult(entry) == Verdict(entry, {"yes", "unverified"}, {"no", "other", "weak"})

\* people_visibility_evidence: with a wanted person, or counting.
PeopleVisibilityResult(entry) == Verdict(entry, {"yes", "unverified"}, {"no", "other", "weak"})

VisualCheckCompleted(entry) == Verdict(entry, {"yes"}, {})

HumanConfirmationResult(entry) == Verdict(entry, {"yes", "unverified", "weak"}, {"no", "other"})

\* The reading every other predicate of the registry shares: evidence a skill
\* marks as unverified decides nothing, and two predicates ask for more.
DirectResult(predicate, entry) ==
  LET detailed == predicate \in {"contact_detected", "target_state_changed"} IN
  Verdict(entry, IF detailed THEN {"yes"} ELSE {"yes", "weak", "partial"},
          IF detailed THEN {"other"} ELSE {"no", "other"})

Named == {"robot_at_place", "animation_played", "place_remembered"}

\* Predicates GoalChecker has a registry entry for, of each kind that differs.
Registered ==
  {"robot_at_place", "robot_near_interaction_owner", "relative_motion_completed", "animation_played",
   "object_visible", "person_visible", "person_at_place", "entity_following", "contact_detected",
   "target_state_changed", "entity_located", "entity_approached", "entity_alias_bound",
   "visual_check_completed"}

\* The parts common to the two sources.
PredicateResult(predicate, entry) ==
  CASE predicate \in Named -> NamedResult(entry)
    [] predicate = "relative_motion_completed" -> RelativeMotionResult(entry)
    [] predicate = "object_visible" -> ObjectVisibilityResult(entry)
    [] predicate = "person_visible" -> PeopleVisibilityResult(entry)
    [] predicate = "entity_following" -> FollowingResult(entry)
    [] predicate = "entity_alias_bound" -> AliasResult(entry)
    [] predicate \in Registered \ (Named \cup {"relative_motion_completed", "object_visible",
         "person_visible", "entity_following", "entity_alias_bound"}) -> DirectResult(predicate, entry)
    [] OTHER -> "UNKNOWN"

CheckExecutionFacts(predicate, entry) ==
  CASE predicate = "robot_near_interaction_owner" -> NearOwnerResult(entry)
    [] predicate = "visual_check_completed" -> VisualCheckCompleted(entry)
    [] OTHER -> PredicateResult(predicate, entry)

\* A saved place is nowhere in the world state.
CheckSnapshot(predicate, entry) ==
  CASE predicate = "robot_near_interaction_owner" -> NearOwnerInWorld(entry)
    [] predicate = "place_remembered" -> "UNKNOWN"
    [] OTHER -> PredicateResult(predicate, entry)

-----------------------------------------------------------------------------
(* Goal specs: [type, predicate, read, mode].  Only a structured one must   *)
(* name a predicate; the others may.  "read" is the predicate that the free *)
(* text of a visual one is read as, or "".                                  *)

Implicit == {"implicit_conversation", ""}
Explicit == {"confirmation", "human_confirmation", "operator_confirmation", "explicit"}

Checked(goal) == IF goal.type = "visual" THEN goal.read ELSE goal.predicate

\* check() on the facts of the run, then on a snapshot.
CheckFacts(goal, entry) ==
  CASE goal.type = "human" -> (CASE goal.mode \in Implicit -> "TRUE"
                                 [] goal.mode \in Explicit -> HumanConfirmationResult(entry)
                                 [] OTHER -> "UNKNOWN")
    [] OTHER -> CheckExecutionFacts(Checked(goal), entry)

CheckWorld(goal, entry) ==
  CASE goal.type = "human" ->
         IF goal.mode \in Explicit THEN HumanConfirmationResult(entry) ELSE "UNKNOWN"
    [] OTHER -> CheckSnapshot(Checked(goal), entry)

\* Fault: the mode of a structured goal is believed.
AllowsFallbackByMode(goal) == goal.type = "visual" \/ goal.mode = "world_state_or_visual_check"

\* The vision model may answer a free question, never a structured predicate.
AllowsVisualFallback(goal) ==
  \/ goal.type = "visual"
  \/ goal.type # "structured" /\ goal.mode = "world_state_or_visual_check"

-----------------------------------------------------------------------------
(* DecisionBroker *)

PhysicalPredicates == {"entity_approached", "object_visible", "person_visible"}
SemanticPredicates == {"_d_v1_semantic_smoke_test"}

\* A look for one class: "absent" is a completed look that found none.
Look == {"inconclusive", "absent", "several", "near", "far", "weak"}

\* locate(): a probe names what is visible, then every class that may be the
\* target is asked for, until one is found or a call fails.
Locate(ready, probe, looks) ==
  LET found == SelectInSeq(looks, LAMBDA look : look # "absent") IN
  CASE ~ready \/ probe = "inconclusive" -> "inconclusive"
    [] OTHER -> IF found = 0 THEN "absent" ELSE looks[found]

\* A missed look is no proof of a failed approach, and among several instances
\* there is no telling which one was approached.  An entity named by its id can
\* be identified but not measured.
EntityApproached(byId, look) ==
  CASE ~byId /\ look \in {"near", "weak"} -> "TRUE"
    [] ~byId /\ look = "far" -> "FALSE"
    [] OTHER -> "UNKNOWN"

ObjectVisible(look) ==
  CASE look = "inconclusive" -> "UNKNOWN"
    [] look \in {"absent", "weak"} -> "FALSE"
    [] OTHER -> "TRUE"

=============================================================================
