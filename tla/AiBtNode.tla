------------------------------ MODULE AiBtNode ------------------------------
(***************************************************************************)
(* The mission control of the mc_ai_bt node (src/mc_ai_bt/node.py) around  *)
(* the mission table: the ROS callbacks, the planning threads and the      *)
(* runner threads, interleaved where the code releases _mission_lock.      *)
(*                                                                         *)
(* The services and the world-event subscription are created without a     *)
(* callback group, so rclpy puts them in the node's one mutually exclusive *)
(* group: one callback runs at a time (svc), whatever the executor.        *)
(* Planning threads and runner threads run beside it and beside each       *)
(* other.  A callback is a first step under the lock, then the cancel      *)
(* event it took there is set without the lock, then its last step.        *)
(*                                                                         *)
(* Left out: topics and journal (MissionJournal models the journal), and   *)
(* what a runner does between its start and its result (the tree, skills   *)
(* and checks), which is any result at any time.                           *)
(***************************************************************************)
EXTENDS MissionManager, Triggers, Sequences

CONSTANTS
  Planner,          \* bound: planning threads alive at once
  Service           \* the callbacks used: a subset of Services

Services == {"cancel", "pause", "resume", "reprioritize", "safety", "replan", "social"}

TriggerPriority == 20

ASSUME NodeAssumption ==
  /\ Planner \subseteq Nat
  /\ Service \subseteq Services
  /\ TriggerPriority \in PriorityArg

VARIABLES
  order,            \* mission ids in the insertion order of the dict
  planner,          \* the planning threads
  runner,           \* the runner threads, by execution id (their runner key)
  cancelEvents,     \* keys of _cancel_events
  cancelKey,        \* _mission_cancel_keys, 0 where there is none
  signaled,         \* executions whose cancel event is set
  svc               \* what is left of the callback in progress

threadVars == <<planner, runner, cancelEvents, cancelKey, signaled>>
vars == <<managerVars, order, threadVars, svc>>

-----------------------------------------------------------------------------
(* Values *)

Execution == 1 .. MaxExecution

Identity == [m : Mission, pv : Nat, exec : Nat]

NoIdentity == [m |-> NoMission, pv |-> 0, exec |-> 0]

PlannerRecord == [pc : {"idle", "planning", "planned", "failed"},
                  id : Identity \cup {NoIdentity}]

IdlePlanner == [pc |-> "idle", id |-> NoIdentity]

RunnerRecord == [pc : {"none", "executing", "settled", "leaving", "gone"},
                 id : Identity \cup {NoIdentity}]

\* signal: the execution to cancel, or 0; then: the last step of the callback.
CallbackRecord == [signal : Execution \cup {0},
                   then : {"done", "plan", "run", "ready"},
                   id : Identity \cup {NoIdentity}]

IdleCallback == [signal |-> 0, then |-> "done", id |-> NoIdentity]

-----------------------------------------------------------------------------
(* Pieces shared by callbacks and threads *)

Idle == svc = IdleCallback

CallbackWith(signal, then, id) == svc' = [signal |-> signal, then |-> then, id |-> id]

\* The identity the table gives m after this step.
NewIdentity(m) == [m |-> m, pv |-> missions'[m].pv, exec |-> missions'[m].exec]

\* The cancel event found for m under the lock: none before its runner registers.
EventOf(m) == IF cancelKey[m] \in cancelEvents THEN cancelKey[m] ELSE 0

HasActiveMission == active # NoMission /\ Open(active)

\* The missions _start_next_ready finds, by their places in the insertion order.
ReadyPlaces ==
  {i \in DOMAIN order : missions[order[i]].state = "PLANNING" /\ ~missions[order[i]].bt}

NextReady == order[CHOOSE i \in ReadyPlaces : \A j \in ReadyPlaces : i <= j]

\* Which idle slot a new thread takes makes no difference: the first one.
Free(p) ==
  /\ planner[p].pc = "idle"
  /\ \A q \in Planner : q < p => planner[q].pc # "idle"

PlanInThread(p, id) == planner' = [planner EXCEPT ![p] = [pc |-> "planning", id |-> id]]

\* _start_next_ready: plan the first mission that waits for a plan, whether or
\* not a thread is planning it already.  A thread that ends with this call
\* gives its slot p to the new one.
StartNextReady(p) ==
  IF ReadyPlaces = {}
  THEN planner' = [planner EXCEPT ![p] = IdlePlanner]
  ELSE PlanInThread(p, IdentityOf(NextReady))

\* _start_runner: the cancel event is registered here, some time after the
\* step that made the mission RUNNING.
StartRunner(id) ==
  /\ cancelEvents' = cancelEvents \cup {id.exec}
  /\ cancelKey' = [cancelKey EXCEPT ![id.m] = id.exec]
  /\ runner' = [runner EXCEPT ![id.exec] = [pc |-> "executing", id |-> id]]
  /\ UNCHANGED signaled

-----------------------------------------------------------------------------
(* Callbacks: the step under the lock *)

HandleSubmit(m, prio, allowQueue) ==
  /\ Idle
  /\ Submit(m, prio, allowQueue)
  /\ order' = Append(order, m)
  /\ IF SlotBusy THEN svc' = IdleCallback ELSE CallbackWith(0, "plan", NewIdentity(m))
  /\ UNCHANGED threadVars

HandleCancel(m) ==
  /\ Idle /\ "cancel" \in Service
  /\ Cancel(m)
  /\ CallbackWith(EventOf(m), "ready", NoIdentity)
  /\ UNCHANGED <<order, threadVars>>

HandlePause(m, reason) ==
  /\ Idle /\ "pause" \in Service
  /\ Pause(m, reason)
  /\ CallbackWith(EventOf(m), "ready", NoIdentity)
  /\ UNCHANGED <<order, threadVars>>

HandleResume(m) ==
  /\ Idle /\ "resume" \in Service
  /\ Resume(m)
  /\ CASE ResumedState(m) = "RUNNING"  -> CallbackWith(0, "run", NewIdentity(m))
       [] ResumedState(m) = "PLANNING" -> CallbackWith(0, "plan", NewIdentity(m))
       [] ResumedState(m) = "QUEUED"   -> svc' = IdleCallback
  /\ UNCHANGED <<order, threadVars>>

\* The callback never passes an empty reason on.  It plans the mission it was
\* called for whenever that is left in PLANNING without a plan.
HandleReprioritize(m, prio, preempt, reason) ==
  /\ Idle /\ "reprioritize" \in Service
  /\ reason # ""
  /\ Reprioritize(m, prio, preempt, reason)
  /\ LET signal == IF Preempts(m, prio, preempt) THEN EventOf(active) ELSE 0
         plan == missions'[m].state = "PLANNING" /\ ~missions'[m].bt
     IN  IF plan THEN CallbackWith(signal, "plan", NewIdentity(m))
                 ELSE CallbackWith(signal, "done", NoIdentity)
  /\ UNCHANGED <<order, threadVars>>

\* Events the world state may send: for each kind one type, with a payload that
\* names no mission or one, and no version, one, or something else than a number.
WorldEvents ==
  [type : {"E_STOP", "GOAL_EVIDENCE_CHANGED", "PERSON_APPROACHED", "AMBIGUOUS_USER_INTENT", "OTHER"},
   mission : {{}} \cup {{m} : m \in Mission},
   version : {Unnamed, Garbled} \cup 0 .. MaxPlanVersion,
   discouraged : BOOLEAN]

\* Safety stops, and world events that need the operator, block the active
\* mission, whatever mission their payload names.
OnBlockingEvent ==
  /\ Idle /\ "safety" \in Service
  /\ active # NoMission
  /\ {e \in WorldEvents : Decide(e, HasActiveMission) \in {"BLOCKED", "ASK_CLARIFICATION"}} # {}
  /\ MarkTerminal(active, "BLOCKED")
  /\ CallbackWith(EventOf(active), "ready", NoIdentity)
  /\ UNCHANGED <<order, threadVars>>

\* An event whose payload names another mission or version changes nothing.
OnReplanEvent ==
  /\ Idle /\ "replan" \in Service
  /\ active # NoMission
  /\ {e \in WorldEvents : /\ Decide(e, HasActiveMission) = "REPLAN"
                          /\ Matches(e, active, missions[active].pv)} # {}
  /\ RequestReplan(active)
  /\ CallbackWith(EventOf(active), "plan", NewIdentity(active))
  /\ UNCHANGED <<order, threadVars>>

\* has_active_mission is asked for before the decision and again with the lock
\* held; the second answer counts.
OnSocialEvent(m) ==
  /\ Idle /\ "social" \in Service
  /\ ~HasActiveMission
  /\ {e \in WorldEvents : Decide(e, FALSE) = "PLAN_NEW_MISSION"} # {}
  /\ Submit(m, TriggerPriority, FALSE)
  /\ order' = Append(order, m)
  /\ CallbackWith(0, "plan", NewIdentity(m))
  /\ UNCHANGED threadVars

(* Callbacks: what follows the lock *)

SetCancelEvent ==
  /\ svc.signal # 0
  /\ signaled' = signaled \cup {svc.signal}
  /\ svc' = IF svc.then = "done" THEN IdleCallback ELSE [svc EXCEPT !.signal = 0]
  /\ UNCHANGED <<managerVars, order, planner, runner, cancelEvents, cancelKey>>

CallbackPlans(p) ==
  /\ svc.signal = 0 /\ svc.then = "plan"
  /\ Free(p)
  /\ PlanInThread(p, svc.id)
  /\ svc' = IdleCallback
  /\ UNCHANGED <<managerVars, order, runner, cancelEvents, cancelKey, signaled>>

CallbackStartsRunner ==
  /\ svc.signal = 0 /\ svc.then = "run"
  /\ StartRunner(svc.id)
  /\ svc' = IdleCallback
  /\ UNCHANGED <<managerVars, order, planner>>

CallbackStartsNext(p) ==
  /\ svc.signal = 0 /\ svc.then = "ready"
  /\ Free(p)
  /\ StartNextReady(p)
  /\ svc' = IdleCallback
  /\ UNCHANGED <<managerVars, order, runner, cancelEvents, cancelKey, signaled>>

-----------------------------------------------------------------------------
(* Planning threads: _plan_and_start, with the hard timeout a failure *)

PlanLands(p) ==
  /\ planner[p].pc = "planning"
  /\ CanUpdate(planner[p].id)
  /\ SetPlan(planner[p].id.m)
  /\ planner' = [planner EXCEPT ![p] = [pc |-> "planned",
                                        id |-> NewIdentity(planner[p].id.m)]]
  /\ UNCHANGED <<order, runner, cancelEvents, cancelKey, signaled, svc>>

PlanFails(p) ==
  /\ planner[p].pc = "planning"
  /\ CanUpdate(planner[p].id)
  /\ MarkTerminal(planner[p].id.m, "FAILED")
  /\ planner' = [planner EXCEPT ![p].pc = "failed"]
  /\ UNCHANGED <<order, runner, cancelEvents, cancelKey, signaled, svc>>

\* The KeyError of either outcome: the thread ends and starts nothing.
PlanIsStale(p) ==
  /\ planner[p].pc = "planning"
  /\ ~CanUpdate(planner[p].id)
  /\ planner' = [planner EXCEPT ![p] = IdlePlanner]
  /\ UNCHANGED <<managerVars, order, runner, cancelEvents, cancelKey, signaled, svc>>

PlannerStartsRunner(p) ==
  /\ planner[p].pc = "planned"
  /\ StartRunner(planner[p].id)
  /\ planner' = [planner EXCEPT ![p] = IdlePlanner]
  /\ UNCHANGED <<managerVars, order, svc>>

PlannerStartsNext(p) ==
  /\ planner[p].pc = "failed"
  /\ StartNextReady(p)
  /\ UNCHANGED <<managerVars, order, runner, cancelEvents, cancelKey, signaled, svc>>

-----------------------------------------------------------------------------
(* Runner threads: _run_mission *)

ReportProgress(e) ==
  /\ runner[e].pc = "executing"
  /\ CanUpdate(runner[e].id)
  /\ UpdateStatus(runner[e].id.m)
  /\ UNCHANGED <<order, threadVars, svc>>

\* The result is applied if the table still accepts it: a pause that waits for
\* a decision, or the end of the mission.
RunnerSettles(e) ==
  /\ runner[e].pc = "executing"
  /\ AcceptsAsyncResult(runner[e].id)
  /\ \/ \E reason \in Reason \ {""} : Pause(runner[e].id.m, reason)
     \/ \E state \in Outcome : MarkTerminal(runner[e].id.m, state)
  /\ runner' = [runner EXCEPT ![e].pc = "settled"]
  /\ UNCHANGED <<order, planner, cancelEvents, cancelKey, signaled, svc>>

RunnerIsStale(e) ==
  /\ runner[e].pc = "executing"
  /\ ~AcceptsAsyncResult(runner[e].id)
  /\ runner' = [runner EXCEPT ![e].pc = "leaving"]
  /\ UNCHANGED <<managerVars, order, planner, cancelEvents, cancelKey, signaled, svc>>

\* An exception of a skill or a check: only the finally block is left to run.
RunnerRaises(e) ==
  /\ runner[e].pc = "executing"
  /\ runner' = [runner EXCEPT ![e].pc = "leaving"]
  /\ UNCHANGED <<managerVars, order, planner, cancelEvents, cancelKey, signaled, svc>>

\* Fault: a runner that settled its mission does not look for waiting missions.
RunnerStartsNothing(e, p) ==
  /\ runner[e].pc = "settled"
  /\ Free(p)
  /\ runner' = [runner EXCEPT ![e].pc = "leaving"]
  /\ UNCHANGED <<managerVars, order, planner, cancelEvents, cancelKey, signaled, svc>>

RunnerStartsNext(e, p) ==
  /\ runner[e].pc = "settled"
  /\ Free(p)
  /\ StartNextReady(p)
  /\ runner' = [runner EXCEPT ![e].pc = "leaving"]
  /\ UNCHANGED <<managerVars, order, cancelEvents, cancelKey, signaled, svc>>

\* Fault: the mission's key stays behind.
KeepKey(m, e) == UNCHANGED cancelKey

\* The finally block.  The mission's key is removed only if it is still this
\* runner's; the thread was the last to read its event.
DropKey(m, e) ==
  cancelKey' = [cancelKey EXCEPT ![m] = IF cancelKey[m] = e THEN 0 ELSE cancelKey[m]]

RunnerLeaves(e) ==
  /\ runner[e].pc = "leaving"
  /\ cancelEvents' = cancelEvents \ {e}
  /\ DropKey(runner[e].id.m, e)
  /\ runner' = [runner EXCEPT ![e] = [pc |-> "gone", id |-> NoIdentity]]
  /\ signaled' = signaled \ {e}
  /\ UNCHANGED <<managerVars, order, planner, svc>>

-----------------------------------------------------------------------------

Init ==
  /\ ManagerInit
  /\ order = <<>>
  /\ planner = [p \in Planner |-> IdlePlanner]
  /\ runner = [e \in Execution |-> [pc |-> "none", id |-> NoIdentity]]
  /\ cancelEvents = {}
  /\ cancelKey = [m \in Mission |-> 0]
  /\ signaled = {}
  /\ svc = IdleCallback

CallbackBegins ==
  \/ OnBlockingEvent
  \/ OnReplanEvent
  \/ \E m \in Mission :
       \/ \E prio \in PriorityArg, allowQueue \in BOOLEAN : HandleSubmit(m, prio, allowQueue)
       \/ HandleCancel(m)
       \/ \E reason \in Reason : HandlePause(m, reason)
       \/ HandleResume(m)
       \/ \E prio \in PriorityArg, preempt \in BOOLEAN, reason \in Reason :
            HandleReprioritize(m, prio, preempt, reason)
       \/ OnSocialEvent(m)

CallbackContinues ==
  \/ SetCancelEvent
  \/ CallbackStartsRunner
  \/ \E p \in Planner : CallbackPlans(p) \/ CallbackStartsNext(p)

PlannerStep(p) ==
  \/ PlanLands(p)
  \/ PlanFails(p)
  \/ PlanIsStale(p)
  \/ PlannerStartsRunner(p)
  \/ PlannerStartsNext(p)

RunnerStep(e) ==
  \/ RunnerSettles(e)
  \/ RunnerIsStale(e)
  \/ RunnerRaises(e)
  \/ \E p \in Planner : RunnerStartsNext(e, p)
  \/ RunnerLeaves(e)

Next ==
  \/ CallbackBegins
  \/ CallbackContinues
  \/ \E p \in Planner : PlannerStep(p)
  \/ \E e \in Execution : RunnerStep(e) \/ ReportProgress(e)

Spec == Init /\ [][Next]_vars

\* Threads and callbacks that have started go on; nobody has to call a service.
FairSpec ==
  /\ Spec
  /\ WF_vars(CallbackContinues)
  /\ \A p \in Planner : WF_vars(PlannerStep(p))
  /\ \A e \in Execution : WF_vars(RunnerStep(e))

-----------------------------------------------------------------------------
(* What the node promises *)

\* The node's own variables have their types, and the dict holds every mission
\* it ever accepted, once.
NodeTypeOK ==
  /\ planner \in [Planner -> PlannerRecord]
  /\ runner \in [Execution -> RunnerRecord]
  /\ cancelEvents \subseteq Execution
  /\ cancelKey \in [Mission -> Execution \cup {0}]
  /\ signaled \subseteq Execution
  /\ svc \in CallbackRecord
  /\ {order[i] : i \in DOMAIN order} = {m \in Mission : Stored(m)}
  /\ \A i, j \in DOMAIN order : order[i] = order[j] => i = j

\* Planning and execution are for the holder of the slot alone, whatever plans,
\* results, cancels and resumes cross each other ("the sole active slot this
\* manager enforces", mission.py, pause).  Holds while nobody calls PauseMission:
\* see OneRunning.
OnlySlotHolderWorks ==
  \A m \in Mission : missions[m].state \in {"PLANNING", "RUNNING"} => m = active

Waiting(m) == missions[m].state = "PLANNING" /\ ~missions[m].bt

\* Somebody will see to the plan of m: a thread that plans this very identity, or
\* a callback or thread about to start one or to look for waiting missions.
PlannerInSight(m) ==
  \/ \E p \in Planner : planner[p].pc = "planning" /\ planner[p].id = IdentityOf(m)
  \/ \E p \in Planner : planner[p].pc = "failed"
  \/ \E e \in Execution : runner[e].pc = "settled"
  \/ svc.then = "ready"
  \/ svc.then = "plan" /\ svc.id = IdentityOf(m)

\* No mission waits for a plan that nobody will make: _start_next_ready is called
\* wherever the slot is handed over, and no timer stands behind it.
WaitingHasPlanner == \A m \in Mission : Waiting(m) => PlannerInSight(m)

\* The registry follows the runner threads: a cancel event is found exactly as
\* long as its thread can still look at it, and the key of a mission is the key
\* of a runner of that mission, never of a thread that left.
RegistryTracksThreads ==
  /\ cancelEvents = {e \in Execution : runner[e].pc \in {"executing", "settled", "leaving"}}
  /\ \A m \in Mission : cancelKey[m] # 0 =>
       cancelKey[m] \in cancelEvents /\ runner[cancelKey[m]].id.m = m

\* A callback sets only events of executions the table has given up: a cancel,
\* pause, preemption or event that took an event under the lock never hits the
\* execution that a resume or a new plan started before the event was set.
CancelHitsOnlySuperseded ==
  \A e \in signaled \cup ({svc.signal} \ {0}), m \in Mission :
    missions[m].state = "RUNNING" => missions[m].exec # e

\* The result a runner applies is that of the execution the mission is in: the
\* result of a run that was replanned, preempted or canceled is dropped, however
\* late it comes.
ResultOfCurrentRunStep ==
  \A e \in Execution :
    runner[e].pc = "executing" /\ runner'[e].pc = "settled" =>
      missions[runner[e].id.m].state = "RUNNING" /\ missions[runner[e].id.m].exec = e
ResultOfCurrentRun == [][ResultOfCurrentRunStep]_vars

\* No mission waits for its plan forever: it gets one, fails, ends, or is sent
\* back to the queue.
PlannedEventually == \A m \in Mission : Waiting(m) ~> ~Waiting(m)

-----------------------------------------------------------------------------
(* What comments, documentation and tests say, and the code does not do *)

\* "PAUSED is inert -- accepts_async_result() already refuses execution results
\* for a paused mission" (mission.py, pause): at most one mission runs.  A plan is
\* not an execution result: set_plan takes it for a paused mission too.
OneRunning ==
  \A m, n \in Mission :
    missions[m].state = "RUNNING" /\ missions[n].state = "RUNNING" => m = n

\* "safety-stop event types block the active mission; replan-worthy event types
\* cancel the current runner" (README.md): a runner whose mission has moved on is,
\* or is about to be, told so.  A callback between set_plan and _start_runner finds
\* no event to set, and the runner starts all the same.
LiveRunnerIsCurrent ==
  \A e \in Execution :
    runner[e].pc = "executing" /\ e \notin signaled \cup {svc.signal} =>
      missions[runner[e].id.m].state = "RUNNING" /\ missions[runner[e].id.m].exec = e

\* "a queued mission must start as soon as the active one pauses, not starve"
\* (tests/test_mission_manager.py): the mission a pause promotes has a planner.
\* _start_next_ready takes the first mission without a plan, which after a resume
\* need not be the promoted one.
PromotedHasPlanner == active # NoMission /\ Waiting(active) => PlannerInSight(active)

=============================================================================
