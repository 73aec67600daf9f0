----------------------------- MODULE BtExecutor -----------------------------
(***************************************************************************)
(* One run of BtExecutor (src/mc_ai_bt/executor.py) over the tree of one   *)
(* mission, and the outcome _run_mission (src/mc_ai_bt/node.py) makes of   *)
(* it.  Every node of the tree is one activation of execute(): called,     *)
(* then running (a leaf) or waiting for its kids (a branch), then done.    *)
(* The kids of a Parallel and of a Timeout run in threads of their own, so *)
(* the steps of different branches interleave, and a Timeout that fires    *)
(* leaves its child running as an orphan.                                  *)
(*                                                                         *)
(* What a skill or a check answers is nondeterministic here; how they come *)
(* to an answer is the subject of MissionServices.  Facts are a dict, here *)
(* the set of the leaves whose entry stands in it: at most one per name    *)
(* (FactKey), since an update replaces what had the name before.  What a   *)
(* skill reports is one entry with the skill's name, and two executions of *)
(* one leaf write the same entry.                                          *)
(***************************************************************************)
EXTENDS PlanGate

CONSTANTS Plans,        \* the plans a planner may propose, each a tree and a goal
          MaxNodes      \* bound on the nodes of a tree

\* A plan is parsed from nested objects, so its tree is one.
ASSUME PlansAssumption ==
  /\ MaxNodes \in Nat
  /\ \A p \in Plans : WellFormed(p.tree) /\ DOMAIN p.tree \subseteq 1 .. MaxNodes

VARIABLES
  tree,         \* the tree of the mission
  goal,         \* its goal
  pc,           \* where the activation of each node is
  step,         \* the kid a Sequence or Fallback waits for, the attempt of a Retry
  board,        \* the facts each activation has
  result,       \* the result of the last activation of each node
  events,       \* the cancel events that are set: 0 the mission's, n that of node n
  completed,    \* _ProgressState.completed
  starts,       \* how often each Action has started its skill
  unresolved,   \* the Actions whose effect happened and could not be verified
  outcome       \* what _run_mission settles on; RAISED: its goal check raised, it settles nothing

vars == <<tree, goal, pc, step, board, result, events, completed, starts, unresolved, outcome>>

plan == <<tree, goal>>
ghosts == <<starts, unresolved, outcome>>

Tri == {"TRUE", "FALSE", "UNKNOWN"}

-----------------------------------------------------------------------------
(* ExecutionResult *)

Result(success, blocked, needs, facts) ==
  [success |-> success, blocked |-> blocked, needs_decision |-> needs, facts |-> facts]

Ok(facts) == Result(TRUE, FALSE, FALSE, facts)
Fail(facts) == Result(FALSE, FALSE, FALSE, facts)
Blocked(facts) == Result(FALSE, TRUE, FALSE, facts)     \* a mechanical dead end
Undecided(facts) == Result(FALSE, TRUE, TRUE, facts)    \* an answer is missing

\* The name a leaf writes its facts under: every observation has the same.
FactKey(n) == IF tree[n].type = "VisualCheck" THEN "visual_check_result" ELSE tree[n].skill

\* What a dict updated with each of the given ones in turn holds: of the entries
\* with one name, that of the last.
Updated(dicts) ==
  UNION {{n \in dicts[i] : \A j \in (i + 1) .. Len(dicts) : \A m \in dicts[j] : FactKey(m) # FactKey(n)} :
         i \in 1 .. Len(dicts)}

\* What a check answers becomes a result that carries the facts it was given.
CheckResult(state, facts) ==
  CASE state = "TRUE" -> Ok(facts)
    [] state = "FALSE" -> Fail(facts)
    [] state = "UNKNOWN" -> Undecided(facts)

\* A VisualCheck that only observes succeeds with either answer and records it.
VisualResult(n, state, facts) ==
  IF tree[n].observe /\ state # "UNKNOWN" THEN Ok(Updated(<<facts, {n}>>)) ELSE CheckResult(state, facts)

\* A skill whose effect is to be verified, by the predicates it may be asked about.
ActionPostconditionPolicy == [approach_entity |-> {"entity_approached"}]

Verifiable(n) == tree[n].skill \in DOMAIN ActionPostconditionPolicy

-----------------------------------------------------------------------------
(* The threads of a run *)

Nodes == DOMAIN tree
Leaf(n) == tree[n].type \in LeafTypes
Kid(n) == IF tree[n].type = "Retry" THEN tree[n].kids[1] ELSE tree[n].kids[step[n]]

\* Fault: the event of a Parallel or Timeout is not linked to the ones above it.
IsSetUnlinked(n) ==
  LET linked == {m \in Above(tree, n) : tree[m].type \in {"Parallel", "Timeout"}}
  IN events \cap (IF linked = {} THEN {0} ELSE linked) # {}

\* The cancel event a node is given: the mission's, linked by every Parallel and
\* Timeout above it.
IsSet(n) == events \cap (Above(tree, n) \cup {0}) # {}

\* Fault: a Parallel passes on the permission it was given.
InlineInParallel(n) == \A m \in Above(tree, n) : tree[m].type \notin {"Retry", "Timeout"}

\* Inline resolution is allowed on the thread of the mission and outside a Retry.
Inline(n) == \A m \in Above(tree, n) : tree[m].type \in {"Sequence", "Fallback"}

\* Fault: the attempts of a Retry are not counted.
CountLeavesOnce == Cardinality(OfType(tree, LeafTypes))

\* The leaves the count of a plan's progress expects, a Retry's once per attempt.
CountProgressLeaves == Count(tree, OfType(tree, LeafTypes))

Return(n, r) ==
  /\ pc' = [pc EXCEPT ![n] = "done"]
  /\ result' = [result EXCEPT ![n] = r]

Call(waiting, kids, facts) ==
  /\ pc' = [m \in Nodes |-> IF m \in kids THEN "called" ELSE IF m = waiting THEN "waiting" ELSE pc[m]]
  /\ board' = [m \in Nodes |-> IF m \in kids \cup {waiting} THEN facts ELSE board[m]]

\* A branch whose current kid is done, with the facts it has then.
KidIsDone(n, type) == tree[n].type = type /\ pc[n] = "waiting" /\ pc[Kid(n)] = "done"

\* Fault: the facts before the last kid are dropped.
LastFacts(n) == result[Kid(n)].facts

\* Fault: what was known before wins over what the kid reports.
KeepOld(n) == Updated(<<result[Kid(n)].facts, board[n]>>)

Merged(n) == Updated(<<board[n], result[Kid(n)].facts>>)

-----------------------------------------------------------------------------
(* execute(): entering a node *)

\* A node called after the cancel runs nothing and has no facts.
Refuse(n) ==
  /\ pc[n] = "called" /\ IsSet(n)
  /\ Return(n, Fail({}))
  /\ UNCHANGED <<plan, step, board, events, completed, ghosts>>

StartLeaf(n) ==
  /\ pc[n] = "called" /\ ~IsSet(n) /\ Leaf(n)
  /\ pc' = [pc EXCEPT ![n] = "run"]
  /\ starts' = IF tree[n].type = "Action" THEN [starts EXCEPT ![n] = @ + 1] ELSE starts
  /\ UNCHANGED <<plan, step, board, result, events, completed, unresolved, outcome>>

\* A Parallel starts a thread per kid; it and a Timeout have a cancel event of
\* their own, new for each activation.
StartBranch(n) ==
  /\ pc[n] = "called" /\ ~IsSet(n) /\ ~Leaf(n)
  /\ Call(n, IF tree[n].type = "Parallel" THEN Kids(tree, n) ELSE {tree[n].kids[1]}, board[n])
  /\ step' = [step EXCEPT ![n] = 1]
  /\ events' = events \ {n}
  /\ UNCHANGED <<plan, result, completed, ghosts>>

-----------------------------------------------------------------------------
(* Branches that run their kids one after the other *)

\* The branch goes on with its next kid, or a Retry with its next attempt.
Proceed(n) ==
  /\ step' = [step EXCEPT ![n] = @ + 1]
  /\ Call(n, {IF tree[n].type = "Retry" THEN tree[n].kids[1] ELSE tree[n].kids[step[n] + 1]},
          Merged(n))
  /\ UNCHANGED result

Conclude(n, r) == Return(n, r) /\ UNCHANGED <<step, board>>

SequenceSteps(n) ==
  /\ KidIsDone(n, "Sequence")
  /\ LET r == result[Kid(n)] IN
       \/ ~r.success /\ Conclude(n, [r EXCEPT !.facts = Merged(n)])
       \/ r.success /\ step[n] = Len(tree[n].kids) /\ Conclude(n, Ok(Merged(n)))
       \/ r.success /\ step[n] < Len(tree[n].kids) /\ Proceed(n)
  /\ UNCHANGED <<plan, events, completed, ghosts>>

\* Fault: a blocked kid is passed over like a failed one.
FallbackSkipsBlocked(n) ==
  /\ KidIsDone(n, "Fallback")
  /\ LET r == result[Kid(n)] IN
       \/ r.success /\ Conclude(n, Ok(Merged(n)))
       \/ ~r.success /\ step[n] = Len(tree[n].kids) /\ Conclude(n, [r EXCEPT !.facts = Merged(n)])
       \/ ~r.success /\ step[n] < Len(tree[n].kids) /\ Proceed(n)
  /\ UNCHANGED <<plan, events, completed, ghosts>>

FallbackSteps(n) ==
  /\ KidIsDone(n, "Fallback")
  /\ LET r == result[Kid(n)] IN
       \/ (r.blocked \/ r.success) /\ Conclude(n, [r EXCEPT !.facts = Merged(n)])
       \/ ~r.blocked /\ ~r.success /\ step[n] = Len(tree[n].kids) /\ Conclude(n, Fail(Merged(n)))
       \/ ~r.blocked /\ ~r.success /\ step[n] < Len(tree[n].kids) /\ Proceed(n)
  /\ UNCHANGED <<plan, events, completed, ghosts>>

\* Fault: whatever did not succeed is tried again.
RetryBlocked(n) ==
  /\ KidIsDone(n, "Retry")
  /\ LET r == result[Kid(n)] IN
       \/ /\ r.success \/ step[n] = tree[n].attempts \/ IsSet(n)
          /\ Conclude(n, [r EXCEPT !.facts = Merged(n)])
       \/ ~r.success /\ step[n] < tree[n].attempts /\ ~IsSet(n) /\ Proceed(n)
  /\ UNCHANGED <<plan, events, completed, ghosts>>

\* Only a plain failure is tried again, and no more after the cancel.
RetrySteps(n) ==
  /\ KidIsDone(n, "Retry")
  /\ LET r == result[Kid(n)]
         again == ~r.blocked /\ ~r.success /\ step[n] < tree[n].attempts
     IN \/ (r.blocked \/ r.success) /\ Conclude(n, [r EXCEPT !.facts = Merged(n)])
        \/ ~r.blocked /\ ~r.success /\ step[n] = tree[n].attempts /\ Conclude(n, Fail(Merged(n)))
        \/ again /\ IsSet(n) /\ Conclude(n, Fail(Merged(n)))
        \/ again /\ ~IsSet(n) /\ Proceed(n)
  /\ UNCHANGED <<plan, events, completed, ghosts>>

-----------------------------------------------------------------------------
(* Branches with threads *)

\* A thread of a Parallel ends and, if it failed, cancels its siblings.
ThreadEnds(n) ==
  \E p \in OfType(tree, {"Parallel"}) :
    /\ n \in Kids(tree, p) /\ pc[p] = "waiting" /\ pc[n] = "done"
    /\ pc' = [pc EXCEPT ![n] = "joined"]
    /\ events' = IF tree[p].cancels /\ ~result[n].success THEN events \cup {p} ELSE events
    /\ UNCHANGED <<plan, step, board, result, completed, ghosts>>

\* Fault: one success is enough.
JoinAny(n) ==
  /\ tree[n].type = "Parallel" /\ pc[n] = "waiting"
  /\ \A k \in Kids(tree, n) : pc[k] \in {"joined", "raised"}
  /\ LET results == {IF pc[k] = "raised" THEN Blocked({}) ELSE result[k] : k \in Kids(tree, n)}
     IN Return(n, Result(\E r \in results : r.success, \E r \in results : r.blocked,
                         \E r \in results : r.needs_decision, board[n]))
  /\ UNCHANGED <<plan, step, board, events, completed, ghosts>>

\* A kid whose thread died of an exception has left no result, and is blocked.  The
\* facts of the kids follow on those of the branch in the order of the kids.
Join(n) ==
  /\ tree[n].type = "Parallel" /\ pc[n] = "waiting"
  /\ \A k \in Kids(tree, n) : pc[k] \in {"joined", "raised"}
  /\ LET Of(k) == IF pc[k] = "raised" THEN Blocked({}) ELSE result[k]
         failures == {r \in {Of(k) : k \in Kids(tree, n)} : ~r.success}
         dicts == <<board[n]>> \o [i \in DOMAIN tree[n].kids |-> Of(tree[n].kids[i]).facts]
     IN Return(n, Result(failures = {},
                         \E r \in failures : r.blocked,
                         \E r \in failures : r.needs_decision,
                         Updated(dicts)))
  /\ UNCHANGED <<plan, step, board, events, completed, ghosts>>

TimeoutJoins(n) ==
  /\ tree[n].type = "Timeout" /\ pc[n] = "waiting"
  /\ \/ pc[Kid(n)] = "done" /\ Return(n, result[Kid(n)])
     \/ pc[Kid(n)] = "raised" /\ Return(n, Blocked(board[n]))
  /\ UNCHANGED <<plan, step, board, events, completed, ghosts>>

\* Fault: the child that is left behind is not canceled.
TimeoutAbandons(n) ==
  /\ tree[n].type = "Timeout" /\ pc[n] = "waiting"
  /\ Return(n, Blocked(board[n]))
  /\ UNCHANGED <<plan, step, board, events, completed, ghosts>>

\* Fault: the child is canceled, and joined all the same.
TimeoutWaits(n) ==
  /\ KidIsDone(n, "Timeout")
  /\ Return(n, Blocked(board[n]))
  /\ UNCHANGED <<plan, step, board, events, completed, ghosts>>

\* The child's thread is still alive at the deadline, be it only about to end.
TimeoutFires(n) ==
  /\ tree[n].type = "Timeout" /\ pc[n] = "waiting"
  /\ events' = events \cup {n}
  /\ Return(n, Blocked(board[n]))
  /\ UNCHANGED <<plan, step, board, completed, ghosts>>

-----------------------------------------------------------------------------
(* Leaves *)

\* A leaf that ran counts for the progress, whatever its result.
Running(n, type) == tree[n].type = type /\ pc[n] = "run"

LeafReturns(n, r) ==
  /\ Return(n, r)
  /\ completed' = completed + 1
  /\ UNCHANGED <<plan, step, board, events>>

\* A success or a dead end comes with facts or without, a plain failure without.
SkillReturns(n) ==
  /\ Running(n, "Action")
  /\ \E r \in {Ok({n}), Ok({}), Fail({}), Blocked({n}), Blocked({})} : LeafReturns(n, r)
  /\ UNCHANGED ghosts

\* The skill acted and asks for its postcondition to be verified.  That is tried
\* only inline; elsewhere the Action is blocked at once.
SkillUnverified(n) ==
  /\ Running(n, "Action") /\ Verifiable(n)
  /\ \/ /\ Inline(n)
        /\ pc' = [pc EXCEPT ![n] = "resolving"]
        /\ UNCHANGED <<plan, step, board, result, events, completed, unresolved>>
     \/ /\ ~Inline(n)
        /\ LeafReturns(n, Blocked({n}))
        /\ unresolved' = unresolved \cup {n}
  /\ UNCHANGED <<starts, outcome>>

ResolveActionPostcondition(n) ==
  /\ pc[n] = "resolving" /\ tree[n].type = "Action"
  /\ \E state \in Tri :
       /\ LeafReturns(n, IF state = "UNKNOWN" THEN Blocked({n}) ELSE CheckResult(state, {n}))
       /\ unresolved' = IF state = "UNKNOWN" THEN unresolved \cup {n} ELSE unresolved
  /\ UNCHANGED <<starts, outcome>>

\* What a check can answer before it is resolved.
Answers(n) == IF tree[n].predicate \in NeverFalse THEN {"TRUE", "UNKNOWN"} ELSE Tri

\* A Condition or GoalCheck.  An UNKNOWN one is resolved inline where that is allowed.
CheckReturns(n) ==
  /\ Running(n, "Condition") \/ Running(n, "GoalCheck")
  /\ \E state \in Answers(n) :
       IF state = "UNKNOWN" /\ Inline(n)
       THEN pc' = [pc EXCEPT ![n] = "resolving"] /\ UNCHANGED <<plan, step, board, result, events, completed>>
       ELSE LeafReturns(n, CheckResult(state, board[n]))
  /\ UNCHANGED ghosts

ResolveCheck(n) ==
  /\ pc[n] = "resolving" /\ tree[n].type \in {"Condition", "GoalCheck"}
  /\ \E state \in Tri : LeafReturns(n, CheckResult(state, board[n]))
  /\ UNCHANGED ghosts

WaitReturns(n) ==
  /\ Running(n, "Wait")
  /\ \/ LeafReturns(n, Ok({}))
     \/ IsSet(n) /\ LeafReturns(n, Fail({}))
  /\ UNCHANGED ghosts

\* The poll answers TRUE, the deadline passes, or the cancel ends the sleep.
WaitForEventReturns(n) ==
  /\ Running(n, "WaitForEvent")
  /\ \/ LeafReturns(n, Ok(board[n]))
     \/ LeafReturns(n, Undecided(board[n]))
     \/ IsSet(n) /\ LeafReturns(n, Fail({}))
  /\ UNCHANGED ghosts

VisualReturns(n) ==
  /\ Running(n, "VisualCheck")
  /\ \E state \in Tri : LeafReturns(n, VisualResult(n, state, board[n]))
  /\ UNCHANGED ghosts

NoActionReturns(n) ==
  /\ Running(n, "NoAction")
  /\ LeafReturns(n, Ok(board[n]))
  /\ UNCHANGED ghosts

\* The activations on the thread of n, from n up to the kid of a Parallel or
\* Timeout, or to the root.
Frames(n) ==
  {n} \cup {m \in Above(tree, n) :
            \A p \in Above(tree, n) \cap Below(tree, m) : tree[p].type \notin {"Parallel", "Timeout"}}

\* A skill or a check may raise; nothing on the thread catches it.
LeafRaises(n) ==
  /\ pc[n] \in {"run", "resolving"} /\ tree[n].type \notin {"Wait", "NoAction"}
  /\ pc' = [m \in Nodes |-> IF m \in Frames(n) THEN "raised" ELSE pc[m]]
  /\ UNCHANGED <<plan, step, board, result, events, completed, ghosts>>

-----------------------------------------------------------------------------
(* The mission *)

\* CancelMission, a safety stop or a replan sets the event of the runner.
Cancel ==
  /\ outcome = "" /\ 0 \notin events
  /\ events' = events \cup {0}
  /\ UNCHANGED <<plan, pc, step, board, result, completed, ghosts>>

\* The final goal check, asked only of a success; UNKNOWN is resolved or pauses.
GoalOutcome(state) ==
  CASE state = "TRUE" -> "SUCCEEDED"
    [] state = "FALSE" -> "FAILED"
    [] state = "UNKNOWN" -> "PAUSED"

\* The end of the runner.  The goal check, or its resolution, may raise as those of
\* the tree may; nothing catches that, and the mission gets no outcome.
Settle ==
  /\ outcome = "" /\ pc[1] = "done"
  /\ LET r == result[1] IN
       \/ r.blocked /\ outcome' = (IF r.needs_decision THEN "PAUSED" ELSE "BLOCKED")
       \/ r.success /\ \E state \in Tri : outcome' = GoalOutcome(state)
       \/ r.success /\ outcome' = "RAISED"
       \/ ~r.blocked /\ ~r.success /\ outcome' = "FAILED"
  /\ UNCHANGED <<plan, pc, step, board, result, events, completed, starts, unresolved>>

Init ==
  /\ \E p \in Plans : Accepted(p.tree, p.goal) /\ tree = p.tree /\ goal = p.goal
  /\ pc = [n \in Nodes |-> IF n = 1 THEN "called" ELSE "idle"]
  /\ step = [n \in Nodes |-> 1]
  /\ board = [n \in Nodes |-> {}]
  /\ result = [n \in Nodes |-> Fail({})]
  /\ events = {}
  /\ completed = 0
  /\ starts = [n \in Nodes |-> 0]
  /\ unresolved = {}
  /\ outcome = ""

\* What the executor does by itself.
Machine(n) ==
  \/ Refuse(n) \/ StartLeaf(n) \/ StartBranch(n)
  \/ SequenceSteps(n) \/ FallbackSteps(n) \/ RetrySteps(n)
  \/ ThreadEnds(n) \/ Join(n) \/ TimeoutJoins(n) \/ TimeoutFires(n)

\* What a leaf does once its service, skill or timer answers.
LeafStep(n) ==
  \/ SkillReturns(n) \/ SkillUnverified(n) \/ ResolveActionPostcondition(n)
  \/ CheckReturns(n) \/ ResolveCheck(n)
  \/ WaitReturns(n) \/ WaitForEventReturns(n) \/ VisualReturns(n) \/ NoActionReturns(n)
  \/ LeafRaises(n)

\* Nothing moves once the mission has settled, or an exception has ended its
\* runner, and no orphan is left.
Ended == (outcome # "" \/ pc[1] = "raised") /\ (\A n \in Nodes : pc[n] \notin {"called", "run", "waiting", "resolving"})

Next ==
  \/ \E n \in Nodes : Machine(n) \/ LeafStep(n)
  \/ Cancel
  \/ Settle
  \/ Ended /\ UNCHANGED vars

\* The executor's threads go on and deadlines pass.  A leaf is known to return
\* only once it is canceled; until then a skill may take as long as it likes.
Fairness ==
  /\ \A n \in 1 .. MaxNodes : WF_vars(n \in Nodes /\ Machine(n))
  /\ \A n \in 1 .. MaxNodes : WF_vars(n \in Nodes /\ IsSet(n) /\ LeafStep(n))
  /\ WF_vars(Settle)

Spec == Init /\ [][Next]_vars /\ Fairness

-----------------------------------------------------------------------------
(* Properties *)

Results == [success : BOOLEAN, blocked : BOOLEAN, needs_decision : BOOLEAN, facts : SUBSET Nodes]

\* How many kids a branch goes through, or attempts a Retry has.
Rounds(n) == IF tree[n].type = "Retry" THEN tree[n].attempts ELSE Len(tree[n].kids)

\* Types of the run's state; no branch is past its last kid or attempt, and no
\* result is both a success and blocked.
ExecutorTypeOK ==
  /\ pc \in [Nodes -> {"idle", "called", "run", "waiting", "resolving", "done", "joined",
                   "raised"}]
  /\ step \in [Nodes -> Nat \ {0}]
  /\ \A n \in Nodes : pc[n] = "waiting" => step[n] <= Rounds(n)
  /\ board \in [Nodes -> SUBSET Nodes]
  /\ result \in [Nodes -> Results]
  /\ \A n \in Nodes : ~(result[n].success /\ result[n].blocked)
  /\ events \subseteq Nodes \cup {0}
  /\ completed \in Nat /\ starts \in [Nodes -> Nat]
  /\ unresolved \subseteq Nodes
  /\ outcome \in {"", "SUCCEEDED", "FAILED", "PAUSED", "BLOCKED", "RAISED"}

IsDone(n) == pc[n] \in {"done", "joined"}
Working(n) == Leaf(n) /\ pc[n] \in {"run", "resolving"}

\* A tree reports success only if its leaves earned it: every kid of a Sequence
\* and of a Parallel, some kid of a Fallback, the last attempt of a Retry and the
\* child of a Timeout succeeded, down to the leaves.
EarnedSuccess ==
  LET earned[n \in Nodes] ==
        CASE Leaf(n) -> IsDone(n) /\ result[n].success
          [] tree[n].type = "Fallback" -> \E k \in Kids(tree, n) : earned[k]
          [] OTHER -> \A k \in Kids(tree, n) : earned[k]
  IN IsDone(1) /\ result[1].success => earned[1]

\* A leaf that ended blocked (nobody could answer its check, or its effect could
\* not be verified) is never papered over by a later branch or attempt: the whole
\* run is blocked.
BlockedSurfaces ==
  \A n \in Nodes : IsDone(n) /\ result[n].blocked /\ IsDone(1) => result[1].blocked

\* Whatever still works below a node that has returned has been told to stop: a
\* Timeout cancels the child it leaves behind, through every level of linked events.
OrphansCanceled ==
  \A n \in Nodes : Working(n) /\ (\E m \in Above(tree, n) : IsDone(m)) => IsSet(n)

\* While a decision is awaited inline nothing else of the plan is at work, not even
\* an orphan of an earlier Timeout (the promise of DecisionResolver's docstring).
ResolvingAlone ==
  \A n, m \in Nodes : pc[n] = "resolving" /\ Working(m) => m = n

RunSucceeded == IsDone(1) /\ result[1].success

\* Whatever fact a leaf of a successful run returned, one of that name reaches the
\* final goal check, those of failed branches and attempts included: no thread,
\* attempt or kid drops a name.  Whose fact it is NewestFactStands says.
FactsReachGoalCheck ==
  RunSucceeded =>
    \A n \in Nodes : Leaf(n) /\ IsDone(n) =>
      \A m \in result[n].facts : \E k \in result[1].facts : FactKey(k) = FactKey(m)

\* The nodes n comes after: those below an earlier kid of a Sequence or Fallback
\* above n that no Retry runs again, where no Parallel is between it and n.
RunBefore(n) ==
  UNION {{m \in Nodes : \E i, j \in DOMAIN tree[p].kids :
            i < j /\ m \in Below(tree, tree[p].kids[i]) /\ n \in Below(tree, tree[p].kids[j])} :
         p \in {q \in Above(tree, n) \cap OfType(tree, {"Sequence", "Fallback"}) :
                 /\ \A r \in Above(tree, q) : tree[r].type # "Retry"
                 /\ \A r \in Above(tree, n) \cap Below(tree, q) : tree[r].type # "Parallel"}}

Replaces(n, m) == n \in result[n].facts /\ m \in result[m].facts /\ FactKey(n) = FactKey(m)

\* A fact that a later leaf replaced does not come back: the goal check of a success
\* is never given the older of the two.  Excepted is what the code does not keep: a
\* Parallel's kids work on copies, and one that only checks brings the older back
\* over what its sibling found (line 533 of executor.py).
NewestFactStands ==
  RunSucceeded => \A n \in Nodes : \A m \in RunBefore(n) : Replaces(n, m) => m \notin result[1].facts

\* The progress never passes the total it was announced with.
ProgressWithinTotal == completed <= CountProgressLeaves

\* Two actions at work at the same time use no conflicting resources: the check of
\* the plan's Parallel branches is enough, although Timeouts leave orphans behind.
NoConflictAtWork ==
  \A n, m \in OfType(tree, {"Action"}) :
    n # m /\ Working(n) /\ Working(m) => ~BranchesConflict(tree, n, m)

StartsOf(nodes) == MapThenSumSet(LAMBDA n : starts[n], nodes)

\* A run starts no more actions, and no more of each kind, than the policy counted.
StartsWithinBudget ==
  /\ StartsOf(OfType(tree, {"Action"})) <= Limits.actions
  /\ StartsOf(ActionsOf(tree, PhysicalSkills)) <= Limits.physical
  /\ StartsOf(ActionsOf(tree, BaseSkills)) <= Limits.base
  /\ StartsOf(ActionsOf(tree, BodySkills)) <= Limits.body

\* An action whose effect happened but could not be verified is not run again by
\* the same run, however many Retries are around it.
UnresolvedNotRepeated ==
  [][\A n \in Nodes : n \in unresolved => starts'[n] = starts[n]]_vars

\* A canceled mission settles, although a skill may never answer unless canceled,
\* or an exception has ended its runner.
CancelSettles == (0 \in events) ~> (outcome # "" \/ pc[1] = "raised")

\* A plan with a Timeout above each of its leaves comes to its end, whatever its
\* leaves do: they may hang, or raise.  It settles, unless the final goal check of
\* a success raises, which nothing catches.
TimeoutsBoundPlan ==
  (\A n \in Nodes : Leaf(n) => \E m \in Above(tree, n) : tree[m].type = "Timeout")
    ~> (outcome \notin {"", "RAISED"} \/ (outcome = "RAISED" /\ result[1].success))

\* A mission whose action could not be verified ends as BLOCKED: pausing it would
\* let resume() run the action again (comment of _resolve_action_postcondition).
UnresolvedNeverPaused == unresolved # {} => outcome # "PAUSED"

=============================================================================
