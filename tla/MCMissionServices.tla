-------------------------- MODULE MCMissionServices --------------------------
(***************************************************************************)
(* Pairs of calls that meet in MissionServices.                            *)
(***************************************************************************)
EXTENDS MissionServices, TLC

CONSTANTS a, b, m1, m2, i1, i2, padded, blank

\* One id with blanks around it beside the same id without, and one of blanks only.
MCStripped == i1 :> i1 @@ i2 :> i2 @@ padded :> i1 @@ blank :> None

Question(type, predicate, mode) ==
  [type |-> type, predicate |-> predicate, read |-> "", mode |-> mode, byId |-> FALSE, inline |-> TRUE]

Structured(predicate) == Question("structured", predicate, "world_state_or_visual_check")

MCQuestions ==
  {Structured(p) : p \in {"object_visible", "person_visible", "entity_approached", "entity_located",
                          "contact_detected", "robot_near_interaction_owner", "place_remembered",
                          "_d_v1_semantic_smoke_test"}}
  \cup {[Structured("entity_approached") EXCEPT !.byId = TRUE],
        [Structured("object_visible") EXCEPT !.inline = FALSE],
        Question("hybrid", "object_visible", "world_state_or_visual_check"),
        Question("visual", "", ""), [Question("visual", "", "") EXCEPT !.read = "object_visible"],
        Question("human", "", "implicit_conversation"), Question("human", "", "confirmation"),
        Question("human", "object_visible", "confirmation")}

Mix(k, l, asked, i, j, m0, m, interrupted) ==
  [timed |-> interrupted, kind |-> a :> k @@ b :> l, question |-> [c \in IF k = "check" THEN {a} ELSE {} |-> asked],
   request |-> a :> i @@ b :> j, mission |-> a :> m0 @@ b :> m]

Unasked == Question("", "", "")

\* Branches of one mission or two missions; a plan may use a request id twice, and
\* write it with or without blanks.
MCMixes ==
  {Mix("move", "remember", Unasked, i1, i2, m1, m1, {a}),
   Mix("animate", "remember", Unasked, i1, i2, m1, m1, {}),
   Mix("say", "remember", Unasked, i1, i2, m1, m1, {}),
   Mix("embodied", "embodied", Unasked, i1, i2, m1, m1, {a}),
   Mix("embodied", "embodied", Unasked, i1, i2, m1, m2, {}),
   Mix("confirm", "remember", Unasked, i1, i2, m1, m1, {a}),
   Mix("confirm", "confirm", Unasked, i1, i1, m2, m2, {}),
   Mix("confirm", "confirm", Unasked, padded, padded, m2, m2, {}),
   Mix("confirm", "confirm", Unasked, i1, padded, m2, m2, {}),
   Mix("confirm", "confirm", Unasked, i1, blank, m2, m2, {})}
  \cup {Mix("check", "remember", q, i1, i2, m1, m1, {a}) : q \in MCQuestions}

=============================================================================
