--------------------------- MODULE SkillRegistry ---------------------------
(***************************************************************************)
(* The skill table of src/mc_ai_bt/skill_registry.py: which resources each *)
(* skill uses, which goal predicates its success produces, how it is       *)
(* dispatched and whether it may be planned, with the skill sets derived   *)
(* from it by policy_guard.py and skill_adapters.py.  Descriptions and     *)
(* argument schemas are prompt text and left out.                          *)
(***************************************************************************)
EXTENDS Naturals, FiniteSets, TLC

\* One entry; the defaults of SkillSpec are given by the operators below it.
Spec4(resources, predicates, dispatch, status) ==
  [resources |-> resources, predicates |-> predicates,
   dispatch |-> dispatch, status |-> status]

Embodied(resources, predicate) == Spec4(resources, {predicate}, "embodied", "available")
Unbuilt(resources, predicate) == Spec4(resources, {predicate}, "embodied", "blocked")
Dedicated(resources, predicates) == Spec4(resources, predicates, "dedicated", "available")

ArmSkills ==
     "reach_to"         :> Embodied({"right_arm"}, "reach_completed")
  @@ "track_entity_arm" :> Embodied({"right_arm"}, "track_entity_arm_completed")
  @@ "align_axis"       :> Unbuilt({"right_arm"}, "axis_aligned")
  @@ "move_along_axis"  :> Unbuilt({"right_arm"}, "axis_motion_completed")
  @@ "maintain_distance" :> Unbuilt({"base"}, "distance_maintained")
  @@ "hold_pose"        :> Embodied({"right_arm"}, "pose_held")
  @@ "wait_for_contact" :> Unbuilt({"right_arm"}, "contact_detected")
  @@ "detect_contact"   :> Unbuilt({"right_arm"}, "contact_detected")
  @@ "oscillate"        :> Embodied({"right_arm"}, "oscillation_completed")
  @@ "retract"          :> Embodied({"right_arm"}, "retracted")
  @@ "touch_entity"     :> Embodied({"right_arm"}, "touch_completed")

SeekingSkills ==
     "locate_entity"     :> Embodied({"base"}, "entity_located")
  @@ "track_entity"      :> Embodied({"gaze"}, "track_entity_completed")
  @@ "track_frame"       :> Embodied({"gaze"}, "track_completed")
  @@ "get_pose"          :> Embodied({"base"}, "pose_available")
  @@ "check_relation"    :> Embodied({}, "relation_checked")
  @@ "search_for_entity" :> Embodied({"base", "gaze"}, "search_for_entity_completed")
  @@ "look_at_static"    :> Embodied({"gaze"}, "look_at_static_completed")
  @@ "track_with_gaze"   :> Embodied({"gaze"}, "track_with_gaze_completed")

MobileSkills ==
     "go_to_place"     :> Dedicated({"base"}, {"robot_at_place"})
  @@ "approach_entity" :> Embodied({"base"}, "entity_approached")
  @@ "face_entity"     :> Embodied({"base"}, "entity_faced")
  @@ "follow_entity"   :> Embodied({"base"}, "entity_following")
  @@ "remember_place"  :> Dedicated({}, {"place_remembered"})
  @@ "remember_person" :> Embodied({"base", "gaze"}, "person_named")
  @@ "remember_entity" :> Embodied({"base", "gaze"}, "entity_alias_bound")

SocialSkills ==
     "scan_room"             :> Embodied({"base", "gaze"}, "room_scanned")
  @@ "guide_entity_to_place" :> Embodied({"base"}, "entity_at_place")
  @@ "wait_for_participant"  :> Embodied({}, "participant_ready")
  @@ "say" :> Spec4({"voice", "face"}, {"say_submitted"}, "voice", "available")
  @@ "request_human_confirmation" :> Dedicated({}, {"human_confirmation"})
  @@ "simple_move"    :> Dedicated({"base"}, {"relative_motion_completed"})
  @@ "play_animation" :> Dedicated({"body"}, {"animation_played"})
  @@ "look_at"  :> Dedicated({"body"}, {"look_at_static_completed", "animation_played"})
  @@ "point_at" :> Dedicated({"body"}, {"animation_played"})
  @@ "come_to_me" :> Dedicated({"base"}, {"robot_near_interaction_owner"})

DefaultSkills == SeekingSkills @@ ArmSkills @@ MobileSkills @@ SocialSkills

Skills == DOMAIN DefaultSkills

Resources(skill) == DefaultSkills[skill].resources

-----------------------------------------------------------------------------
(* Sets the other modules derive from the table *)

BaseSkills == {s \in Skills : "base" \in Resources(s)}

BodySkills == {s \in Skills : Resources(s) \cap {"gaze", "left_arm", "right_arm", "body"} # {}}

PhysicalSkills == BaseSkills \cup BodySkills

EmbodiedSkills == {s \in Skills : DefaultSkills[s].dispatch = "embodied"}

\* The skills whose success produces a goal predicate.
PredicateToSkills(predicate) == {s \in Skills : predicate \in DefaultSkills[s].predicates}

\* The resources a resource excludes: the whole body excludes each of its parts.
BodyParts == {"left_arm", "right_arm", "gaze", "head", "torso"}

ConflictFamily(resource) ==
  IF resource = "body" THEN {"body"} \cup BodyParts
  ELSE {resource} \cup (IF resource \in BodyParts THEN {"body"} ELSE {})

ResourcesConflict(left, right) ==
  \/ left = right
  \/ right \in ConflictFamily(left)
  \/ left \in ConflictFamily(right)

=============================================================================
