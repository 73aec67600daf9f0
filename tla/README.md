# mc_ai_bt: specifications, model checking and proofs

`mc_ai_bt` is a ROS 2 node that turns spoken or typed intents into missions:
it plans each mission as a behaviour tree with an LLM, runs the tree through
robot skills, checks the goal, and talks to an operator or to another agent
when evidence is missing. This directory holds TLA+ modules that model the
code under `src/mc_ai_bt/`, TLC configurations that check them, and proofs for
TLAPS.

## 1. The system

### Components, their state and their operations

| Component (source) | State | Operations | Hard because |
| --- | --- | --- | --- |
| Mission table (`mission.py`, `identity.py`) | `_missions`, `_active_id`, `_resumed_from_reason` | submit, set_plan, request_replan, pause, resume, reprioritize, cancel, mark_terminal, update_status | long sequences of legal calls; one slot with hand-overs; late results told apart only by the identity |
| Mission control (`node.py`) | `_cancel_events`, `_mission_cancel_keys`, planning threads, runner threads | eight services, world events, `_plan_and_start`, `_run_mission`, `_start_next_ready` | callbacks, planning threads and runner threads interleave between the sections under `_mission_lock` |
| Trigger manager (`trigger_manager.py`) | none | world event -> decision | decision made on a copy of the state |
| Mission journal (`mission_journal.py`) | a JSONL file | append, load_latest_missions, recovery | appended outside the lock; a line written in part; crash and restart |
| BT executor (`executor.py`) | per run: blackboard, child threads, linked cancel events | sequence, fallback, retry, parallel, timeout, action, checks | orphaned children, cancel against completion |
| Skill execution (`skill_adapters.py`) | `_current_goal_handle`, thread-local identity, renewal thread | execute_skill, cancel_current, lease renewal | goal accepted after the cancel; one handle shared by all threads |
| Resource leases (`resource_client.py`) | lease ids at the authority | acquire, renew, release | timeout after the grant; release never confirmed |
| Confirmation server (`confirmation_server.py`) | `_pending`, a decision per request | goal, response, cancel, deadline | four writers of one decision |
| Decision broker (`decision_broker.py`) | per call | poll, ask | tri-state, deadline, cancel |
| Goal and visual checks (`goal_check.py`, `visual_check.py`, `visual_client.py`) | none | check | UNKNOWN must never become TRUE |
| Task projection (`task_projection.py`) | facts of the world state | projection of all missions | order of updates, which mission is current |
| Planning (`planning_pipeline.py`, `planner.py`, `validator.py`, `policy_guard.py`, ...) | none that lasts | plan | an LLM; bounded only by the hard timeout |
| The rest (queries, registries, fact readers, doctor and smoke tools) | none | read-only | - |

### How they interact

ROS callbacks call the mission table under `_mission_lock`, then, without the
lock, set a cancel event, publish and journal the change, and start a planning
thread or a runner thread. A planning thread ends by calling `set_plan` or
`mark_terminal` with the identity it was started for, and starts a runner or
the next waiting mission. A runner thread executes the tree, asks the table
whether its result still counts (`accepts_async_result`), applies it, and
starts the next waiting mission. World events reach the same table through the
trigger manager.

The services and the world-event subscription of `node.py` are created without
a callback group: rclpy puts them into the node's one mutually exclusive group,
so one callback runs at a time although `main` uses a `MultiThreadedExecutor`.
Planning and runner threads are plain Python threads and run beside it.

### What makes each part correct

- *Mission table*: the slot is held by a mission that can use it; waiting
  missions get it as soon as it is free, best first; ended missions are left
  alone; identities never come back.
- *Mission control*: only the slot holder is planned or run; every mission
  waiting for a plan is seen to; results of superseded executions are dropped;
  cancels reach the execution they were meant for and no other.
- *Journal*: after a restart no mission is lost, replayed, or alive again.
- *Executor and skills*: nothing moves after a cancel, a timeout or the end of
  a lease; a tree succeeds only when its nodes did.
- *Confirmation and broker*: one decision per request; without evidence never
  TRUE.

## 2. The modules

| Module | Models |
| --- | --- |
| `MissionManager` | the mission table: one action per method of `MissionManager` |
| `Triggers` | what a world event asks of the missions (operators) |
| `AiBtNode` | mission control around the table: callbacks, planning threads, runner threads (EXTENDS `MissionManager`, `Triggers`) |
| `MissionJournal` | the table with its journal file, its projection in the world state, crashes and restarts (EXTENDS `MissionManager`) |
| `SkillRegistry` | the table of skills: resources, dispatch, availability, evidence (operators) |
| `PlanGate` | the trees that validator and policy guard let through (operators, EXTENDS `SkillRegistry`) |
| `BtExecutor` | one run of an accepted tree and the outcome of the mission (EXTENDS `PlanGate`) |
| `DecisionRegister` | abstract: what a confirmation is to the people on both of its ends |
| `ConfirmationServer` | the confirmation action server; implements `DecisionRegister` |
| `SkillCalls` | the skill adapters, leases and calls of checks against their servers (EXTENDS `ConfirmationServer`) |
| `Evidence` | the three-valued reading of facts, snapshots and looks (operators) |
| `MissionServices` | the calls together with the course of a check from source to source (EXTENDS `SkillCalls`, `Evidence`) |
| `MCMissionManager`, `MCAiBtNode`, `MCMissionJournal`, `MCBtExecutor`, `MCMissionServices` | instances for TLC |
| `MissionManager_proofs`, `AiBtNode_proofs`, `MissionJournal_proofs`, `BtExecutor_proofs`, `MissionServices_proofs` | theorems about the modules they are named after |
| `PlanGate_proofs` | lemmas about trees: nodes above, below and beside each other, induction up and down; what the policy's counts are |
| `FoldLemmas` | lemmas about sums and products over finite sets, as the community modules fold them |

There are three compositions, cut where the parts exchange the least: the
table with its threads (`AiBtNode`), the table with what outlives the process
(`MissionJournal`), and the calls of one mission's threads with the servers
they wait for (`MissionServices`). `BtExecutor` stands between the first and the
last: a runner of `AiBtNode` returns any result, `BtExecutor` says which a tree
can return; a leaf of `BtExecutor` gets any answer, `MissionServices` says which
a skill or a check can give.

### MissionManager

`missions` is `_missions` as a function from ids to records; an id not in the
dict has the record `Absent`. A record keeps the state, the plan version and
execution id of the identity, the priority, whether there is a plan (`bt`), and
the status text as far as a decision reads it. `active` is `_active_id`,
`resumedFrom` is `_resumed_from_reason`, and `execs` counts the execution ids
drawn, so that `uuid4().hex` is a fresh number.

- A method that raises `KeyError` changes nothing: its checks are the guards of
  its action. `expected_identity` is `CanUpdate`, which the node adds.
- `_promote_next_queued` and `_release_slot_for_pause` are part of the actions
  that call them (`Promoted`, `SlotAfter`).
- Mission ids are natural numbers: the code compares uuid strings with `<` to
  break ties, in an order that has nothing to do with the time of submission.
- The status text is kept while a mission is PAUSED only. `resume()` reads it
  then, as the reason of the pause; in other states nothing reads it.
- The control ids `""`, `"active"` and `"current"` stand for `active`: calling
  a method for any mission covers them.
- A rejected submission does not enter the table, so it is no step.

### AiBtNode

One callback at a time: `svc` holds what is left of it after its section under
the lock: an event to set (`signal`), then one last step (`then`): plan this
mission, run this mission, or look for waiting missions. Between these steps
planning and runner threads take theirs.

| Code | Model |
| --- | --- |
| `_handle_*`, `_block_active_from_trigger`, `_replan_active_from_trigger`, `_plan_new_mission_from_trigger`, section under the lock | `HandleSubmit` ... `OnSocialEvent` |
| `cancel_event.set()` | `SetCancelEvent` |
| `_plan_and_start_async`, `_start_runner`, `_start_next_ready` at the end of a callback | `CallbackPlans`, `CallbackStartsRunner`, `CallbackStartsNext` |
| `_plan_and_start`: plan, failure (hard timeout included), stale | `PlanLands`, `PlanFails`, `PlanIsStale`, then `PlannerStartsRunner`, `PlannerStartsNext` |
| `_run_mission`: progress, result applied, result refused, exception | `ReportProgress`, `RunnerSettles`, `RunnerIsStale`, `RunnerRaises` |
| `_start_next_ready` and the `finally` block of `_run_mission` | `RunnerStartsNext`, `RunnerLeaves` |
| `_cancel_events`, `_mission_cancel_keys` | `cancelEvents`, `cancelKey` |

What a runner does between start and result is left to any result at any time,
whether or not its event is set: the tree looks at the event only between its
nodes. An event has a type and a payload that names missions and a version or
does not; what is done about it is `Decide` and `Matches` of `Triggers`. The two
reads of the active mission that precede a new social mission are one step,
because between them no other callback can run and both must find none. Runner
keys are execution ids: `_start_runner` is only called for missions that have
one.

### MissionJournal

Every method of the table is followed by a publication (`_publish_event`), which
runs in the thread that called it, without the lock: `pub[p]` is what thread `p`
has still to do.

| Code | Model |
| --- | --- |
| a method of the table, then `_publish_event` | `Change`, `Accept`, `Refuse` (`Publishes`) |
| `MissionJournal.append`: the record and its newline, at once or one after the other | `AppendLine`, `AppendRecord`, `AppendNewline` |
| an `OSError` in its write, flush or close, which `_append_journal` logs | `AppendFails`: nothing, part of the line, or all of it but the newline is in the file, and the node goes on |
| `_publish_task_projection`: copy under the lock, two writes that may fail | `TakeSnapshot`, `WriteFacts` |
| the startup timer | `StartupSnapshot` |
| the process ends anywhere, a line half written | `Crash` |
| `_load_journal_missions`: `load_latest_missions`, recovery, an empty table if the file cannot be read; `MissionManager(recovered)` | `Restart` (`LoadResults`, `Loaded`, `Recover`) |

Of the file the model keeps what a reader finds: per mission the state in its
last readable line (`latest`), and what follows the last newline (`tail`).
Anything appended to a line without an end makes both unreadable; a record that
lacks only its newline is read. So a failed append may cost the record of another
mission, the next one to be appended or the one whose newline is missing:
`behind` is the missions whose last change the file does not have, and `LostWith`
who joins them. A mission recovered while open is BLOCKED. The
two writes of the projection are one step: no property looks at one fact without
the other, and each may be lost.

### BtExecutor, PlanGate, SkillRegistry

A plan is a tree (a sequence of nodes with the positions of their kids) and a
goal; `Init` picks one that `Accepted` lets through, which is what validator
(`Valid`: shapes, resources of Parallel branches) and policy guard (`PolicyOK`:
budgets multiplied by Retries, availability, gates of Fallback branches,
alignment of goal and skills) decide. Each node is one activation of
`execute()`:

| Code | Model |
| --- | --- |
| `execute`: cancel looked at, dispatch by type | `Refuse`, `StartLeaf`, `StartBranch` |
| `execute` for Sequence and Fallback, `_execute_retry` | `SequenceSteps`, `FallbackSteps`, `RetrySteps` |
| `_execute_parallel`: threads, join, linked cancel | `ThreadEnds`, `Join` |
| `_execute_timeout`: one `join` with the timeout | `TimeoutJoins`, `TimeoutFires` |
| `_execute_action` and the verification of its effect | `SkillReturns`, `SkillUnverified`, `ResolveActionPostcondition` |
| checks and their inline resolution | `CheckReturns`, `ResolveCheck`, `VisualReturns` |
| `Wait`, `WaitForEvent`, `NoAction` | `WaitReturns`, `WaitForEventReturns`, `NoActionReturns` |
| an exception of a skill or a check | `LeafRaises`: the frames of its thread (`Frames`) are gone |
| `_run_mission` after the tree: final goal check and its resolution, pause, block, fail | `Settle`; `RAISED` is the exception of the check or of its resolution, which leaves the mission without an outcome |

`IsSet` is `_LinkedCancelEvent`: an event is set if the mission's or that of any
Parallel or Timeout above is.

Facts are a dict, and are updated by one another: of two entries with one name
the later stands. An entry is the leaf that wrote it and its name (`FactKey`:
`visual_check_result` for every observation, the skill for the facts of an
action, which it writes together). A dict is the set of the entries in it,
`Updated` is `dict.update` in turn, `Merged` what a branch has after a kid, and
`Join` updates in the order of the kids, each of which has a whole copy. Two
activations of one leaf by a Retry are not told apart.

### ConfirmationServer and DecisionRegister

`goal` and `cancel` are the states ROS keeps of every action goal. The goal
callback, the thread that waits for each goal and the service calls of operators
interleave at their lock sections: `GoalCallback`, `CancelCallback`, `Register`,
`EndWait`, `ReturnResult`, and `FindRequest`, `ResolveRequest` for
`respond_human_confirmation`. `DecisionRegister` has three actions: an answer is
acknowledged, a request is withdrawn, an outcome is settled. The refinement
mapping is the identity on `answer` and `outcome`, and `withdrawn` is the set of
goals whose cancel the server has accepted; the lookup of a request and the
passage through the table are stutters.

Request ids are looked up without the blanks around them and entered as they are
written: `Stripped` says what is left of an id, `Found` is a lookup. A padded id
is entered where no lookup finds it; an answer meant for it reaches the request
that has the id without the blanks, if there is one, and its duplicate is
accepted. An id of blanks only is refused. Of the identity in an operator's call
the model compares the mission; the plan version and the execution id only refuse
more calls.

### SkillCalls, Evidence, MissionServices

Each call is a thread (`pc`), and sends at most one goal, which has its name.

| Code | Model |
| --- | --- |
| `ResourceLeaseClient.acquire`, `renew`, `release`, `_start_lease_renewal` | `Acquire`, `AcquireEnds`, `AcquireTimesOut`, `Renew`, `Release` |
| `execute_skill` and the dispatch of kinds | `Begin`, `Say`, `RememberPlace` |
| `_send_and_wait`: send, acceptance, result, cancel, deadline | `Send`, `Sent`, `GivesUpSending`, `Waited`, `CancelsGoal`, `CancelWaited`, `Leave` |
| `cancel_current` | `LookForCurrent`, `CancelCurrent` |
| what a result is taken for | `Answers` |
| `MissionCheckExecutor.check` | `ReadFacts`, `ReadWorld`, `LookIfAllowed`, `Looked` |
| `DecisionBroker.resolve` | `Resolve`, `Poll`, `Decided` |
| the readings of `goal_check.py` | `CheckFacts`, `CheckWorld`, `EntityApproached`, ... of `Evidence` |
| lease authority, other action servers, a mission's cancel, a Timeout above a call | `Authority`, `OtherServer`, `CancelMission`, `BranchTimesOut` (external) |

Predicates that are read alike are represented by one of them (`Registered`); an
entry of the evidence is one of seven kinds, as fine as any reading tells apart.
Time passes in whole seconds (`Tick`). A renewal that is due is sent within that
second, and its answer, if there is one, comes within it too; one that fails is
in `missed`. A lease shorter than two seconds would make the renewal interval
zero (`lease_timing.py`); `LeaseAssumption` leaves that out.

A visual question is a free text that is `read` as a predicate, and is checked
under that one (`Checked`), while a decision is resolved under the predicate that
the question itself names. The executor resolves by predicate alone
(`executor.py:759`, `node.py:551`), so a question to a human that names a
predicate is decided by the recorded answer or, the predicate being physical, by
a fresh look; `EvidenceDecides` says so, and asks of every other verdict that the
question's own kind admits its source.

Definitions marked *Fault* in the modules are wrong versions of the definition
after them. No specification uses them; with one of them in place of the right
one the named property fails, which shows that the property looks at the code
it is about.

## 3. The runs

Bounds are constants or guards: `MaxPlanVersion` and `MaxExecution` cap plan
versions and execution ids (guards of `SetPlan`, `RequestReplan`, `Resume`,
`Reprioritize`), `Planner` caps the planning threads alive at once, `Service`
selects the callbacks used, and the set `Mission` caps submissions. `MaxChanges`
caps the changes that are published and `MaxLives` the starts of the node,
`MaxNodes` the nodes of a tree. `TTL` is the length of a lease.

| Run | Instance | Checks |
| --- | --- | --- |
| `manager` | 3 missions, 1 plan version, 2 executions, priorities 10 and 300, reasons "" and "paused" | all properties of the table |
| `node_slot` | 3 missions, 2 executions, cancel, resume, safety stop | `OnlySlotHolderWorks`, `WaitingHasPlanner` |
| `node_registry` | 2 missions, 2 executions, pause, resume, reprioritize, social, replan | `NodeTypeOK`, `RegistryTracksThreads`, `CancelHitsOnlySuperseded` |
| `node_live` | 2 missions, 2 plan versions, cancel and replan, fairness | `PlannedEventually`, `ResultOfCurrentRun` |
| `plans` | the 184 accepted plans among 145 trees of up to 7 nodes, each with 3 goals; 95,000 states | results, blocked leaves, orphans, resources, budgets, facts, progress; a canceled plan and one under Timeouts settle |
| `services` | 26 mixes of calls, 4 request ids, one operator, lease of 4 seconds; 172,000 states | the handle, forgotten goals, leases, confirmations, evidence; the refinement of `DecisionRegister` |
| `journal` | 2 missions, 2 publishing threads, 3 published changes, one restart; 283,000 states | `JournalKeepsUp`, `RecoveredStayClosed`, `ProjectionCurrent` |
| `resumed_plan_kept` | 2 missions, 2 plan versions | finds a violation of section 5 in the table |
| `late_plan_unpauses`, `missed_cancel`, `promoted_not_planned` | 2 or 3 missions | find three violations of section 5 in the node |
| `unresolved_paused` | the plans of `plans` | finds the violation of section 5 in the executor |

*Table and node.* Three missions are what a hand-over needs: one that leaves,
one that gets the slot and one that must not. Two executions let a mission be
resumed, or a second mission start, while the first execution's thread is still
alive, and two plan versions let a plan be superseded while it is made. One
reason beside the empty one is enough for a pause to repeat the reason it was
resumed from; 300 lies above the range of priorities. `Outcome` is one end in
the runs: the three ends differ in no decision, and blocking and failing have
steps of their own in the node.

*Plans.* The trees put each branch type over each kind of leaf, and a Retry or a
Timeout over or under it, which gives every pair of nested branches whose flags,
facts or events meet. Skills are taken so that they conflict by the same resource
(`approach_entity`, `go_to_place`: the base), by a part of the body
(`play_animation`, `track_entity`) or not at all (`say`), and one is verified
after it has ended (`approach_entity`). The budgets of `MCLimits` are small enough
to turn plans away: a miscounted Retry lets one of them pass. Two observations in
a row, the second one alone, under a Timeout, and in a Parallel beside a check on
either side, are where facts of one name meet: `NewestFactStands` holds of the
ones in a row; in the Parallel the code does not keep the newest (section 5).

*Services.* Two calls are what shares a handle, an id or a mission; a third adds
no kind of meeting, and the theorems of section 4 hold for any number. A check
runs beside a call that sends nothing, because what it asks for is a call by
itself. The pair with one request id for both confirmations runs without
cancels: cancels are in the pair with a single confirmation. One embodied pair
shares a mission, the other is of two missions of which one can be canceled. Two
confirmations meet under one id, under one id with blanks around it, under an id
with and without blanks, and beside an id of blanks only.

*Journal.* Either the file or the world state is at fault in one behaviour
(`faulty`), not both: no action reads one to write the other. Three changes are
what a torn line needs to reach another mission's record: the one whose append
fails, the one appended to its rest, and one that may mend it. With one restart
they also give a change before a crash and one after it. The threads do the same
and are exchanged by symmetry; the run checks no liveness, for which that would
not be sound.

Deadlock is not checked for the table and the node: an instance may stop once
its missions have ended or its bounds are used up, and the node is then idle. In
the other runs it is: the only states without a step are those where everything
is over, which stutter explicitly (`Ended`, `Finished`, `Quiet`).

### Fairness

`AiBtNode`: `FairSpec` assumes weak fairness of the rest of a callback that has
begun (`CallbackContinues`), of every planning thread and of every runner
thread. A callback that has begun is straight-line code; a planning thread is
bounded by `_plan_with_hard_timeout`; a runner either returns, raises or is
stopped by the timeouts of its actions, and `PlannedEventually` does not depend
on whether the mission succeeds. Nothing is assumed of the services or world
events: nobody has to call them. Progress reports are not fair either.

`BtExecutor`: fair are the executor's own steps (`Machine`, which includes the
deadline of a Timeout: its `join` has one), `Settle`, and a leaf whose cancel
event is set. A skill, a Wait, a WaitForEvent and a resolution look at their event
in bounded waits; a Condition, a GoalCheck and a VisualCheck are not handed it,
but everything they wait for has a timeout of its own (`snapshot` and `check` of
the clients), so they end as well. A leaf that is not canceled may take for ever,
so `CancelSettles` and `TimeoutsBoundPlan` owe nothing to a skill that happens to
return. Both say what is left of "settles" when something raises: a plan under
Timeouts has an outcome, for a thread that dies counts as blocked, unless its tree
succeeded and the final goal check raises.

`MissionServices`: fair are the node's own threads and the clock. A step of a
thread that waits is its timeout, which the code has for every wait, so an answer
is never assumed. Nothing is assumed of operators, of servers or of the lease
authority; `EveryLeaseEnds` holds because a lease that nobody renews runs out.

## 4. The proofs

`MissionManager_proofs` proves, for every set of missions, every argument and
every bound that satisfies the named assumptions of `MissionManager` (ids are
naturals, `None` is no id, reasons include the empty one, priorities are
integers, bounds are naturals):

- `NextQueuedIsBest`: a queue that is not empty has a first mission, and
  `_next_queued_id` returns it. Two applications of the least-number principle
  (`MinExists`): the highest priority, then the least id among its holders. The
  set of missions may be infinite; that priorities are clamped to 0..255 is
  what makes the first application possible.
- `TypeCorrect`: the type invariant. One lemma per method.
- `SlotCorrect`: `ActiveIsOpen` and `IdleSlotHasNoQueue`. Neither is inductive
  alone: `submit` queues a mission behind the holder only because the holder is
  open, and a hand-over may clear the slot only because the queue is then
  empty. The inductive invariant is `ManagerTypeOK /\ SlotInv`; `HandOverSlot`
  is the common step of cancel, mark_terminal and pause, and `TakenSlot` that of
  the methods that put the slot on the mission they are called for.
- `TerminalCorrect`: `TerminalIsFinal`. A hand-over changes queued missions
  only (`HandOverKeeps`), every other change is to a mission that is open.
- `IdentityCorrect` and `GuardCorrect`: `RunningIsExecutable`, and
  `GuardOnlyForOpen`, which no run checks: ended missions keep no guard. The
  inductive invariant is `ManagerTypeOK /\ IdentityInv`, which adds
  `UnknownIsAbsent`: an id never submitted has the empty record. One lemma per method (`...Records`)
  says what it does to identities, plans and guards; the invariants are proved
  from those lemmas alone.
- `IdentityAdvancesCorrect`: `IdentityAdvances`, from the same lemmas.
  `UnknownIsAbsent` is needed again: a submission must not lower a version.
- `PromotionCorrect`: `PromotesBestQueued`. The queue a hand-over chooses from is
  the one the step started from because the holder that leaves is never in it,
  which is `ActiveIsOpen`; so the theorem rests on `SlotCorrect`.

With these every property that run `manager` checks is proved. All of it is
proved of any call of the table (`Calls`), whoever makes it: `TableSpec` is the
table with every caller, and the modules that put the table among its callers
take its invariants over by the same lemmas.

`AiBtNode_proofs`, for every number of missions, planning threads, executions
and versions:

- `NodeImplementsTable`: every step of the node is a call of the table or leaves
  the table alone, `AiBtNode!Spec => TableSpec`. `NodeKeepsTable` carries the
  table's invariants over.
- `NodeTypesCorrect`: the type invariant.
- `RegistryCorrect`: `RegistryTracksThreads`. Inductive with `StartInv` (the
  runner of an execution does not exist before its id is drawn nor while somebody
  is about to start it, and only one is), `OwnerInv` (an execution is worked for
  under one mission) and `KnownInv` (nobody holds an identity from the future).
- `CancelCorrect`: `CancelHitsOnlySuperseded`, from `RegistryCorrect` and
  `SignalInv`: the window between reading an event under the lock and setting it.
- `SlotHolderCorrect`, `WaitingCorrect`, `ResultCorrect`: `OnlySlotHolderWorks`,
  `WaitingHasPlanner`, `ResultOfCurrentRun`, under the hypothesis that `"pause"`
  is no service: with pause calls they are false (section 5). The invariant
  `WorkInv` says for each mission who will see to it: a planning thread, a runner,
  what is left of the callback, or a hand-over that some thread still owes.
  `DrawnInv`, `PastInv` and `FitsInv` relate the identity a thread carries to the
  one the mission has now.
- `OwnResultCorrect` needs no such hypothesis: with every service allowed, a
  result is only applied to the mission it is of, under the execution it still has.

`MissionJournal_proofs`, for any number of missions, publishing threads, changes
and restarts:

- `JournalTypesCorrect`, and `RestartsKeepTable`: the table that a restart loads
  satisfies the table's invariants, whatever the file held.
- `JournalCorrect`: `JournalKeepsUp`. The invariant has four parts: what is in the
  file or about to be was submitted (`BornInv`), a record appended alone is the
  state of its mission (`AloneInv`), one without its newline is found already
  (`WrittenInv`), and with nothing left to append the journal recovers a mission
  as it is (`FoundInv`), each unless the mission is `behind`.
  `behind` has the missions of every line that was torn, by a crash or by an append
  that failed while the node went on: `AppendFails` is a case of its own in each part.
- `RestartCorrect`: as an action property, a restart gives every mission that is
  not behind the end it had, or blocks it, or the file could not be read and no
  mission comes back at all. `RecoveredCorrect`:
  `RecoveredStayClosed`.
- `ProjectionCorrect`: `ProjectionCurrent`, by `ViewInv`: the snapshot under way,
  or else the one written, is that of the table unless another is still to be
  taken.

`BtExecutor_proofs` is about every plan whose tree is one (`WellFormed`: what a
parse of nested objects is) and that the gate accepts, of any size and shape,
with any answers of its leaves. A step of the executor is one of a few moves
(`StepMoves`): a node returns, a branch calls kids, a leaf turns to its service, a
thread is joined or raises, or nothing moves. The moves forget which node type
took the step, so that the invariants are shown once for all of them.

- `ExecutorTypesCorrect`: types, and no branch is past its last kid or attempt.
- `ChainInv` is what the rest stands on: a kid that is alive, or whose failure is
  final, is the one its branch is at; the branch waits for it or its failure is
  final too; and a live kid has a waiting branch or a Timeout that set its event.
  `HeldUp` carries this to the root by induction along the tree.
- `UnresolvedCorrect` (`UnresolvedNotRepeated`) and `BlockedCorrect`
  (`BlockedSurfaces`): what is final stays so, and all above it is or waits.
- `OrphansCorrect` (`OrphansCanceled`): going up from a live leaf to the first
  node that does not wait, that one is a Timeout whose event is set.
- `AloneCorrect` (`ResolvingAlone`) and `ConflictCorrect` (`NoConflictAtWork`): of
  two leaves at work the tree has a `Fork`, a node with both below different kids;
  both kids are held, so it is a Parallel, which excludes an inline resolution on
  either side and has been checked for conflicts.
- `EarnedCorrect` (`EarnedSuccess`): `EarnInv` says of each branch what its
  successes rest on; the rest is an induction from the leaves up (`KidsFirst`).
- `FactsCorrect` (`FactsReachGoalCheck`): `FactsInv` says, for each leaf that is
  done and each node above it, where the names of the leaf's facts are: in what the
  node was called with, in what it returned or its branch has, or in what it has of
  the kids it is past. `UpdatedNames` is what it rests on: the names of dicts
  updated with one another are those of all of them. Whose entry a name has is
  `NewestFactStands`, which is model-checked; through a Parallel it is false
  (section 5).
- `BudgetCorrect` (`StartsWithinBudget`) and `ProgressCorrect`
  (`ProgressWithinTotal`): `BudgetInv` says that one can count, for each node, its
  activations (`used`) and the ones that are over (`ended`), so that a kid has been
  activated no more often than its branch times the tries of the branch, less the
  tries that the branch has `Left`. Each start and each count of the progress is one
  of these. The root is activated once, so by induction down the tree no node is
  activated more often than the product of the attempts above it, which is what
  the policy multiplies (`UsedWithin`). The counts are no variables of the module:
  the invariant says that there are such counts, and a step shows the next ones. It
  is the one invariant here that TLC cannot evaluate.

`Above` and the `earned` of `EarnedSuccess` are recursive functions. What such a
definition computes cannot be shown by the library's induction theorems, so the
proofs show that there is a function that satisfies the equation, by naming one
(`PathUp`, `Earners`: the least set closed under it), and inductions over a tree
are done on sets, from the least-number principle (`TreeInduction`, `KidsFirst`).
`RetryMultiplier`, `Count` and `StartsOf` are folds that take the element `CHOOSE`
gives. `FoldLemmas` shows by induction over the subsets of a finite set that such a
fold exists and is what the definition chooses (`SumSolved`, `ProductSolved`), that
any element may come first where the order does not matter (`FoldInsert`), and that a
sum is monotone (`SumBelow`); `MultiplierStep` and `CountIs` say what this makes of
the policy's counts. The budgets are assumed to be naturals, by name
(`LimitsAssumption`).

`MissionServices_proofs` is about `MissionServices`, for any number of calls,
goals, missions, operators and request ids, and every even lease time. It
assumes that `None` is no goal and no id (`NoneAssumption`), that an id without
its blanks is an id with none, or nothing (`StrippedAssumption`), that operators
answer one of the three decisions (`DecisionsAssumption`), that a lease lasts a positive, even
number of seconds (`LeaseAssumption`), and what the calls are made with
(`MixesAssumption`): the checks are the calls with a question, and what an
operator may be asked for is a structured predicate.

- `AnswersKept`: `Spec => AnswersAreKept`, the refinement of `DecisionRegister`
  among all other calls. `RegisterInv` relates the server's two places for a
  decision: as long as there is no outcome, the pending decision is what an
  operator was acknowledged; after it, operators find it taken. `NextServes`
  splits a step into one of the server, one that at most asks for a cancel, and
  one that touches neither.
- `ServicesTypes`: the type invariant. Strengthened by what a program counter
  says of the kind of its call (only senders wait for a goal), of the question
  (only physical predicates are polled) and by a held lease having time left,
  without which the countdown would leave the naturals.
- `HandleCorrect`: `CurrentIsLastWaiting`. Not inductive: a check turns into
  another call when it asks, and must not do so while the handle is its own.
  `HandleInv` adds that a call that registers is none of a check's.
- `OperatorsApprove`: `OnlyOperatorsApprove`, from `RegisterInv` and `AskInv`,
  which follows a question to its one request: before it no verdict, after it
  nothing but the answer.
- `RegistryCorrect`: `RegistryHoldsWaiting`. `RegistryInv` adds that an entry is
  found under the id of its goal as it is written, that a goal is served only after it was
  accepted, and that no thread sends a goal twice (`Unsent`). The last is why the
  goal that took an entry away is still an accepted one.

- `AbandonedCorrect`: `AbandonedOnlyLate`. `AbandonInv` adds that a sentence that
  is being published has no goal.
- `LeaseCorrect`: `LeaseKeptAlive` for every lease of at least four seconds
  (`TTL >= 4`; the code's default is 300). `LeaseInv` relates the time left to the
  time of the next renewal. The hypothesis is needed: a lease of two seconds is
  renewed every second, and with an acquire that was answered late the renewal
  comes when the lease is over.
- `EvidenceCorrect`: `EvidenceDecides`. `EvidenceInv` adds that a question put to
  an operator is one that only an operator decides.

Model-checked only, and out of the prover's reach: liveness (`PlannedEventually`,
`CancelSettles`, `TimeoutsBoundPlan`, `EveryLeaseEnds`). Model-checked only so far:
`NewestFactStands`.

What the proofs corrected in the models: that `None` is no time
(`LeaseAssumption`); the bound on `step`, which was that of a Retry and failed for
a branch with more than five kids; trees as an assumption on plans
(`PlansAssumption`) where the instance happened to have nothing else; the
predicate a question is read as; and two cases of `EntityApproached` that
overlapped.

## 5. Where the code and its documents disagree

Each has a run that finds the shortest behaviour.

- `resumed_plan_kept`. A mission resumed into the queue keeps its plan; when it
  is promoted, `_start_next_ready` skips it because it has one and nothing runs
  it. It holds the slot until somebody cancels it.
- `late_plan_unpauses`. Pausing a mission while it is being planned does not
  stop its plan from landing: it runs, beside the mission promoted instead.
- `missed_cancel`. Between `set_plan` and `_start_runner` a mission is RUNNING
  without a cancel event; a safety stop in that window blocks the mission, and
  its tree starts all the same.
- `promoted_not_planned`. `_start_next_ready` plans the first mission in
  PLANNING, which after a resume need not be the promoted one.

- `unresolved_paused`. An action that acted and could not be verified ends the
  mission as BLOCKED, so that `resume()` cannot act again. Under a Parallel whose
  other branch waits for a decision the mission is paused all the same, because
  the flags of the failures are combined.

Found with the same model, and left out of the runs: the kids of a Parallel get
copies of its facts and return them whole (`executor.py:533`). In
Sequence[observe, Parallel[observe, Condition]] the Condition's copy has the first
observation, and joined last it replaces the second, so the goal check is told what
was seen before, although the docstring of `_record_visual_check_result` says that
the goal check sees the write. `NewestFactStands` excepts this: without the line
about Parallel in `RunBefore` TLC finds it, in a behaviour of 14 states.

Seen on the way, without a document that says otherwise: `resume()` has a test
for a free slot of its own (`mission.py:446`) and queues a mission behind a
paused holder, which `submit()` does not; `cancel_current()` looks at no mission
and may cancel the goal of the next one; a cancel can replace a decision that an
operator has already been acknowledged, which `DecisionRegister` allows for
withdrawn requests; a request id with blanks around it can be registered and
never be answered.

`OnlySlotHolderWorks`, `WaitingHasPlanner` and `ResultOfCurrentRun` are checked
without `PauseMission`, where they hold; a mission still pauses there when its
result waits for a decision. With it, `late_plan_unpauses` breaks them.

## 6. The plan

Done: every module of section 2, and proofs of every invariant and action property
that the passing runs check but `NewestFactStands`.

Left: a proof of `NewestFactStands`; and that a run of `BtExecutor` ends in one of
the results `AiBtNode` takes from a runner, once, stated as a refinement.

## 7. What is not modelled, and why

- *Planning pipeline, planner, reference extraction, context builder*: an LLM
  call and the rewriting of the JSON it returns, with no state that outlives the
  call. `AiBtNode` takes any outcome at any time, `BtExecutor` any plan the gate
  accepts; what is between is text and pattern matching.
- *World-state client, facts, places and regions*: service calls and reading of
  JSON. A refused write is in `WriteFacts`, a missing or changing snapshot in
  `ReadWorld`; the rest is geometry over floating-point numbers.
- *World queries, message copies, operator tools, smoke tests*: read-only, or
  not part of the running node.
- *Parts of modelled components*: the validator's checks of field types and
  ranges and the policy guard's checks of the arguments of single skills and of
  texts (tables, no state); the outcome envelope of a mission; how a free text is
  read as a predicate; the list of pending requests that the confirmation server
  publishes; list, query and policy services and the topics of the node; a
  `cancel_goal_async` that itself raises.
- *What the properties do not see*: `ProjectionCurrent` excuses publications that
  overlap; `OrphansCanceled` is about the event of an orphan, which a check is not
  handed; `Triggers` tells event types apart that lead to the same reaction, so that
  the table of types can be compared with the code.

`PROJECT.json` lists every component with its status and every hazard with the
property that covers it, or the reason why none does.
