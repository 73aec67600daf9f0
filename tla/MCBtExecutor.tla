---------------------------- MODULE MCBtExecutor ----------------------------
(***************************************************************************)
(* Plans to run BtExecutor on: every tree of a branch over one or two      *)
(* subtrees of the kinds below, with budgets small enough to matter.       *)
(***************************************************************************)
EXTENDS BtExecutor

Node(type) ==
  [type |-> type, kids |-> <<>>, skill |-> "", predicate |-> "", attempts |-> 1,
   cancels |-> TRUE, observe |-> FALSE]

Do(skill) == <<[Node("Action") EXCEPT !.skill = skill]>>
Ask(predicate) == <<[Node("Condition") EXCEPT !.predicate = predicate]>>
Look(observe) == <<[Node("VisualCheck") EXCEPT !.observe = observe]>>

\* The tree t as part of a larger one, d positions further on.
Shift(t, d) == [n \in DOMAIN t |-> [t[n] EXCEPT !.kids = [i \in DOMAIN @ |-> @[i] + d]]]

Over1(root, t) == <<[root EXCEPT !.kids = <<2>>]>> \o Shift(t, 1)
Over2(root, t, u) ==
  <<[root EXCEPT !.kids = <<2, 2 + Len(t)>>]>> \o Shift(t, 1) \o Shift(u, 1 + Len(t))

Twice == [Node("Retry") EXCEPT !.attempts = 2]
Within == Node("Timeout")
Both == Node("Parallel")
BothAnyway == [Node("Parallel") EXCEPT !.cancels = FALSE]
Seq2 == Node("Sequence")
Either == Node("Fallback")

Acts == {Do("approach_entity"), Do("play_animation"), Do("track_entity")}
Checks == {Ask("entity_approached"), Ask("visual_check_completed")}
Others == {<<Node("Wait")>>, <<Node("WaitForEvent")>>, <<Node("NoAction")>>, Look(TRUE), Look(FALSE),
           <<Node("GoalCheck")>>}

Wrapped(trees) == {Over1(root, t) : root \in {Twice, Within}, t \in trees}

Pairs(roots, left, right) == {Over2(root, t, u) : root \in roots, t \in left, u \in right}

MCTrees ==
       Pairs({Seq2, Either, Both, BothAnyway}, Acts \cup Checks \cup Wrapped({Do("approach_entity"), Ask("entity_approached")}),
             {Do("approach_entity"), Do("play_animation"), Ask("entity_approached")})
  \cup Pairs({Seq2, Both}, Others, {Do("remember_place")})
  \cup Wrapped(Pairs({Seq2, Either, Both}, {Do("approach_entity")}, {Do("say"), Ask("entity_approached")}))
  \cup Pairs({Seq2, Either}, {Over1(Within, Over2(Both, Do("approach_entity"), Do("say")))},
             {Do("go_to_place"), Ask("entity_approached"), Over1(Within, Do("approach_entity"))})
  \cup Pairs({Seq2}, {Look(TRUE)},
             {Look(TRUE), Over1(Within, Look(TRUE)), Over2(Both, Look(TRUE), Ask("entity_approached")),
              Over2(Both, Ask("entity_approached"), Look(TRUE))})
  \cup Pairs({Seq2, Either, Both}, {Do("approach_entity")}, {Do("approach_entity"), Over1(Twice, Look(TRUE))})

Goal(predicate) == [type |-> "structured", mode |-> "world_state", predicate |-> predicate]
Spoken == [type |-> "human", mode |-> "implicit_conversation", predicate |-> ""]

MCPlans == {[tree |-> t, goal |-> g] : t \in MCTrees, g \in {Goal("entity_approached"), Goal("animation_played"), Spoken}}

MCLimits ==
  [nodes |-> 12, actions |-> 4, physical |-> 2, base |-> 2, body |-> 2, visual |-> 2,
   conditions |-> 2, wait |-> 2, retry |-> 2]

=============================================================================
