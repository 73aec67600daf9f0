------------------------------ MODULE PlanGate ------------------------------
(***************************************************************************)
(* What a plan must pass before the node runs it: the resource check of    *)
(* PlanValidator (src/mc_ai_bt/validator.py) and the budgets, gates and    *)
(* goal alignment of PolicyGuard (src/mc_ai_bt/policy_guard.py).           *)
(*                                                                         *)
(* A tree is the sequence of its nodes, the root first and every node      *)
(* before its kids.  A node is a record of its type, the sequence of its   *)
(* kids' positions, and the fields the modules read: skill (Action),       *)
(* predicate (Condition, GoalCheck, WaitForEvent), attempts (Retry),       *)
(* cancels (Parallel: cancel_on_failure) and observe (VisualCheck).        *)
(* Trees are well formed: what _validate_node says of the types of the     *)
(* fields, and the wording of errors, is left out.                         *)
(***************************************************************************)
EXTENDS SkillRegistry, Sequences, FiniteSetsExt, SequencesExt

CONSTANT Limits     \* the budgets of PolicyLimits, by name

ASSUME LimitsAssumption ==
  Limits \in [nodes : Nat, actions : Nat, physical : Nat, base : Nat, body : Nat, visual : Nat,
              conditions : Nat, wait : Nat, retry : Nat]

LeafTypes == {"Action", "Wait", "Condition", "GoalCheck", "VisualCheck", "NoAction",
              "WaitForEvent"}

BranchTypes == {"Sequence", "Fallback", "Parallel", "Retry", "Timeout"}

\* The predicates registered as TRUE or UNKNOWN and never FALSE.
NeverFalse == {"visual_check_completed"}

-----------------------------------------------------------------------------
(* The shape of a tree *)

Kids(t, n) == ToSet(t[n].kids)

\* What any nesting of objects and lists of kids is: every node but the root is a
\* kid of one node, once, and comes after it; leaves have no kids.
WellFormed(t) ==
  /\ 1 \in DOMAIN t
  /\ \A n \in DOMAIN t : /\ t[n].kids \in Seq({k \in DOMAIN t : n < k}) /\ IsInjective(t[n].kids)
                         /\ t[n].type \in LeafTypes => t[n].kids = <<>>
  /\ \A n, m \in DOMAIN t : Kids(t, n) \cap Kids(t, m) # {} => n = m
  /\ \A k \in DOMAIN t \ {1} : \E n \in DOMAIN t : k \in Kids(t, n)

Parent(t, n) == CHOOSE p \in DOMAIN t : n \in Kids(t, p)

\* The nodes strictly above n, and those of the subtree of n.
Above(t, n) ==
  LET above[m \in DOMAIN t] ==
        IF m = 1 THEN {} ELSE {Parent(t, m)} \cup above[Parent(t, m)]
  IN above[n]

Below(t, n) == {n} \cup {m \in DOMAIN t : n \in Above(t, m)}

OfType(t, types) == {n \in DOMAIN t : t[n].type \in types}

-----------------------------------------------------------------------------
(* PlanValidator *)

\* Every resource an action of the subtree may use.
CollectActionResources(t, n) ==
  UNION {Resources(t[m].skill) : m \in Below(t, n) \cap OfType(t, {"Action"})}

BranchesConflict(t, a, b) ==
  \E left \in CollectActionResources(t, a), right \in CollectActionResources(t, b) :
    ResourcesConflict(left, right)

\* Fault: only equal resources conflict.
ParallelSharesNothing(t) ==
  \A n \in OfType(t, {"Parallel"}) : \A a, b \in Kids(t, n) :
    a # b => CollectActionResources(t, a) \cap CollectActionResources(t, b) = {}

\* No two branches of one Parallel may use conflicting resources.
ParallelConflictFree(t) ==
  \A n \in OfType(t, {"Parallel"}) : \A a, b \in Kids(t, n) :
    a # b => ~BranchesConflict(t, a, b)

\* A known skill in every Action, a kid for every branch, 1 to 5 attempts.
NodeValid(node) ==
  /\ node.type \in LeafTypes \cup BranchTypes
  /\ node.type \in BranchTypes => node.kids # <<>>
  /\ node.type \in {"Retry", "Timeout"} => Len(node.kids) = 1
  /\ node.type = "Retry" => node.attempts \in 1 .. 5
  /\ node.type = "Action" => node.skill \in Skills

Valid(t) == (\A n \in DOMAIN t : NodeValid(t[n])) /\ ParallelConflictFree(t)

-----------------------------------------------------------------------------
(* PolicyGuard *)

\* How often a node may run: the product of the attempts of the Retries above it.
RetryMultiplier(t, n) ==
  MapThenFoldSet(LAMBDA x, y : x * y, 1, LAMBDA r : t[r].attempts,
                 LAMBDA S : CHOOSE r \in S : TRUE, Above(t, n) \cap OfType(t, {"Retry"}))

\* Fault: the attempts of the Retries above are ignored.
CountOnce(t, nodes) == Cardinality(nodes)

Count(t, nodes) == MapThenSumSet(LAMBDA n : RetryMultiplier(t, n), nodes)

ActionsOf(t, skills) == {n \in OfType(t, {"Action"}) : t[n].skill \in skills}

\* The product over all Retries of the plan, nested or not.
RetryProduct(t) ==
  MapThenFoldSet(LAMBDA x, y : x * y, 1, LAMBDA r : t[r].attempts,
                 LAMBDA S : CHOOSE r \in S : TRUE, OfType(t, {"Retry"}))

PolicyTotals(t) ==
  [nodes |-> Count(t, DOMAIN t),
   actions |-> Count(t, OfType(t, {"Action"})),
   physical |-> Count(t, ActionsOf(t, PhysicalSkills)),
   base |-> Count(t, ActionsOf(t, BaseSkills)),
   body |-> Count(t, ActionsOf(t, BodySkills)),
   visual |-> Count(t, OfType(t, {"VisualCheck"})),
   conditions |-> Count(t, OfType(t, {"Condition", "WaitForEvent"})),
   wait |-> Count(t, OfType(t, {"Wait"})),
   retry |-> RetryProduct(t)]

TotalsOK(t) == \A budget \in DOMAIN Limits : PolicyTotals(t)[budget] <= Limits[budget]

\* Skills that are registered but not built are refused.
ActionAvailable(node) ==
  node.type = "Action" => DefaultSkills[node.skill].status = "available"

\* A Fallback branch gated by a Condition that can never be FALSE would always win.
FallbackGatesOK(t) ==
  \A f \in OfType(t, {"Fallback"}) : \A c \in Below(t, f) \cap OfType(t, {"Condition"}) :
    t[c].predicate \notin NeverFalse

PhysicalSkillsIn(t) == {t[n].skill : n \in ActionsOf(t, PhysicalSkills)}

\* A goal is [type, mode, predicate].  A plan that moves the robot needs a
\* checkable goal, and one a skill of the plan produces when any physical
\* skill produces it.
GoalAligned(t, goal) ==
  PhysicalSkillsIn(t) # {} =>
    /\ goal.type # "human" /\ goal.mode # "implicit_conversation"
    /\ LET expected == PredicateToSkills(goal.predicate) \cap PhysicalSkills
       IN expected # {} => expected \cap PhysicalSkillsIn(t) # {}

PolicyOK(t, goal) ==
  /\ \A n \in DOMAIN t : ActionAvailable(t[n])
  /\ FallbackGatesOK(t)
  /\ TotalsOK(t)
  /\ GoalAligned(t, goal)

Accepted(t, goal) == Valid(t) /\ PolicyOK(t, goal)

=============================================================================
