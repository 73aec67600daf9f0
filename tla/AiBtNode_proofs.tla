-------------------------- MODULE AiBtNode_proofs --------------------------
(***************************************************************************)
(* What the node promises, for every number of missions, planning threads  *)
(* and executions.  Every step is a call of the table or leaves it alone,  *)
(* so the table's theorems carry over; what a step does to one thread and  *)
(* to the callback in progress is said once, and the invariants are shown  *)
(* from that and not action by action, where they can be.  They come in    *)
(* three layers: the table and the types, who works for which execution,   *)
(* and, without pause calls, who works for which mission.                  *)
(***************************************************************************)
EXTENDS AiBtNode, MissionManager_proofs

-----------------------------------------------------------------------------
(* What a step does to the threads and to the callback in progress *)

Live(e) == runner[e].pc \in {"executing", "settled", "leaving"}

ThreadTypes ==
  /\ planner \in [Planner -> PlannerRecord]
  /\ runner \in [Execution -> RunnerRecord]
  /\ cancelEvents \subseteq Execution
  /\ cancelKey \in [Mission -> Execution \cup {0}]
  /\ signaled \subseteq Execution
  /\ svc \in CallbackRecord

\* The identities that threads and callbacks hold are identities, and one that a
\* runner was or will be started with has an execution id.
NodeTypes ==
  /\ ThreadTypes
  /\ \A p \in Planner : planner[p].pc # "idle" => planner[p].id \in Identity
  /\ \A p \in Planner : planner[p].pc = "planned" => planner[p].id.exec \in Execution
  /\ \A e \in Execution : Live(e) => runner[e].id \in Identity /\ runner[e].id.exec = e
  /\ svc.then \in {"plan", "run"} => svc.id \in Identity
  /\ svc.then = "run" => svc.id.exec \in Execution

\* The dict holds every mission ever accepted, once.
OrderInv ==
  /\ order \in Seq(Mission)
  /\ {order[i] : i \in DOMAIN order} = {m \in Mission : Stored(m)}
  /\ \A i, j \in DOMAIN order : order[i] = order[j] => i = j

PlannerMoves(p) ==
  \/ planner'[p] = planner[p]
  \/ planner'[p].pc = "idle"
  \/ /\ planner[p].pc = "planning" /\ planner'[p].pc = "failed"
     /\ planner'[p].id = planner[p].id
  \/ /\ planner'[p].pc = "planning" /\ UNCHANGED managerVars
     /\ svc.then = "plan" /\ planner'[p].id = svc.id
  \/ /\ planner'[p].pc = "planning" /\ UNCHANGED managerVars
     /\ \E m \in Mission : Waiting(m) /\ planner'[p].id = IdentityOf(m)
  \/ /\ planner[p].pc = "planning" /\ planner'[p].pc = "planned"
     /\ \E m \in Mission : StartsRunning(m) /\ planner'[p].id = NewIdentity(m)

CallbackMoves ==
  \/ svc'.then = svc.then /\ svc'.id = svc.id
  \/ svc'.then \in {"done", "ready"}
  \/ /\ svc'.then = "plan"
     /\ \E m \in Mission : Waiting(m)' /\ svc'.id = NewIdentity(m)
  \/ /\ svc'.then = "run"
     /\ \E m \in Mission : StartsRunning(m) /\ svc'.id = NewIdentity(m)

\* A runner is started with an identity that waits for it.
Starts(e) ==
  /\ runner'[e].pc = "executing" /\ runner'[e].id.exec = e
  /\ UNCHANGED managerVars
  /\ \/ \E p \in Planner : /\ planner[p].pc = "planned" /\ planner[p].id = runner'[e].id
                           /\ planner'[p].pc = "idle"
     \/ svc.then = "run" /\ svc.id = runner'[e].id /\ svc'.then = "done"

RunnerMoves(e) ==
  \/ runner'[e] = runner[e]
  \/ /\ runner[e].pc = "executing" /\ runner'[e].pc \in {"settled", "leaving"}
     /\ runner'[e].id = runner[e].id
  \/ /\ runner[e].pc = "settled" /\ runner'[e].pc = "leaving"
     /\ runner'[e].id = runner[e].id
  \/ runner[e].pc = "leaving" /\ runner'[e].pc = "gone"
  \/ Starts(e)

\* The mission _start_next_ready picks is one that waits for a plan.
LEMMA NextReadyWaits ==
  ASSUME OrderInv, ReadyPlaces # {}
  PROVE  NextReady \in Mission /\ Waiting(NextReady)
<1>1. ReadyPlaces \in SUBSET Nat
  BY DEF ReadyPlaces, OrderInv
<1>2. \E i \in ReadyPlaces : \A j \in ReadyPlaces : i <= j
  BY <1>1, MinExists
<1>3. PICK i \in ReadyPlaces : NextReady = order[i]
  BY <1>2 DEF NextReady
<1> QED
  BY <1>3 DEF ReadyPlaces, Waiting, OrderInv

\* What the table says of a mission is an identity, before and after a step.
LEMMA IdentityType ==
  ASSUME ManagerTypeOK, NEW m \in Mission
  PROVE  IdentityOf(m) \in Identity
  BY DEF ManagerTypeOK, MissionRecord, IdentityOf, Identity

LEMMA NewIdentityType ==
  ASSUME ManagerTypeOK', NEW m \in Mission
  PROVE  NewIdentity(m) \in Identity
  BY DEF ManagerTypeOK, MissionRecord, NewIdentity, Identity

LEMMA StartNextReadyMoves ==
  ASSUME ManagerTypeOK, NodeTypes, OrderInv, UNCHANGED managerVars,
         NEW p \in Planner, StartNextReady(p)
  PROVE  /\ planner' \in [Planner -> PlannerRecord]
         /\ \A q \in Planner : PlannerMoves(q)
<1>1. CASE ReadyPlaces = {}
  BY <1>1 DEF StartNextReady, NodeTypes, ThreadTypes, PlannerMoves, IdlePlanner, PlannerRecord
<1>2. CASE ReadyPlaces # {}
  <2> DEFINE id == IdentityOf(NextReady)
  <2>1. NextReady \in Mission /\ Waiting(NextReady)
    BY <1>2, NextReadyWaits
  <2>2. id \in Identity
    BY <2>1, IdentityType
  <2>3. planner' = [planner EXCEPT ![p] = [pc |-> "planning", id |-> id]]
    BY <1>2 DEF StartNextReady, PlanInThread
  <2>4. \E m \in Mission : Waiting(m) /\ id = IdentityOf(m)
    BY <2>1
  <2> HIDE DEF id
  <2>5. planner' \in [Planner -> PlannerRecord]
    BY <2>2, <2>3 DEF NodeTypes, ThreadTypes, PlannerRecord
  <2> QED
    BY <2>3, <2>4, <2>5 DEF NodeTypes, ThreadTypes, PlannerMoves
<1> QED
  BY <1>1, <1>2

\* The event found for a mission is that of an execution, or none.
LEMMA EventType ==
  ASSUME NodeTypes, NEW m \in Mission
  PROVE  EventOf(m) \in Execution \cup {0}
  BY DEF EventOf, NodeTypes, ThreadTypes

\* What the locked step of a callback leaves for its later steps.
CallbackBegun ==
  /\ svc'.signal \in Execution \cup {0}
  /\ CallbackMoves
  /\ svc' \in CallbackRecord

LEMMA CallbackLeaves ==
  ASSUME ManagerTypeOK', NEW signal \in Execution \cup {0}, NEW then, NEW id,
         CallbackWith(signal, then, id),
         \/ then \in {"done", "ready"} /\ id = NoIdentity
         \/ /\ then = "plan"
            /\ \E m \in Mission : Waiting(m)' /\ id = NewIdentity(m)
         \/ /\ then = "run"
            /\ \E m \in Mission : StartsRunning(m) /\ id = NewIdentity(m)
  PROVE  CallbackBegun
<1>1. svc' = [signal |-> signal, then |-> then, id |-> id]
  BY DEF CallbackWith
<1>2. id \in Identity \cup {NoIdentity}
  BY NewIdentityType
<1> QED
  BY <1>1, <1>2 DEF CallbackBegun, CallbackMoves, CallbackRecord

LEMMA CallbackDone ==
  ASSUME svc' = IdleCallback
  PROVE  CallbackBegun
  BY DEF CallbackBegun, CallbackMoves, CallbackRecord, IdleCallback

\* A callback begins while no other is in progress, and with a call on the table.
LEMMA CallbackBeginsMoves ==
  ASSUME TableInv, NodeTypes, CallbackBegins
  PROVE  /\ Calls(Outcomes) /\ svc = IdleCallback /\ UNCHANGED threadVars
         /\ CallbackBegun
<1> USE DEF TableInv
<1>1. ManagerTypeOK' \/ ~Calls(Outcomes)
  BY TypeStep
<1>2. \A m \in Mission : EventOf(m) \in Execution \cup {0}
  BY EventType
<1>3. CASE OnBlockingEvent
  <2>1. active \in Mission /\ MarkTerminal(active, "BLOCKED")
    BY <1>3 DEF OnBlockingEvent, ManagerTypeOK
  <2>2. Calls(Outcomes)
    BY <2>1 DEF Calls, Outcomes
  <2>3. CallbackWith(EventOf(active), "ready", NoIdentity)
    BY <1>3 DEF OnBlockingEvent
  <2> QED
    BY <1>1, <1>2, <1>3, <2>1, <2>2, <2>3, CallbackLeaves DEF OnBlockingEvent, Idle
<1>4. CASE OnReplanEvent
  <2>1. active \in Mission /\ RequestReplan(active)
    BY <1>4 DEF OnReplanEvent, ManagerTypeOK
  <2>2. Calls(Outcomes)
    BY <2>1 DEF Calls
  <2>3. CallbackWith(EventOf(active), "plan", NewIdentity(active))
    BY <1>4 DEF OnReplanEvent
  <2>4. Waiting(active)'
    <3>1. active' = active
      BY <2>1 DEF RequestReplan
    <3> QED
      BY <2>1, <3>1, RequestReplanRecords DEF Waiting
  <2>5. active' = active
    BY <2>1 DEF RequestReplan
  <2>6. \E m \in Mission : Waiting(m)' /\ NewIdentity(active) = NewIdentity(m)
    BY <2>1, <2>4, <2>5 DEF Waiting
  <2> QED
    BY <1>1, <1>2, <1>4, <2>1, <2>2, <2>3, <2>6, CallbackLeaves DEF OnReplanEvent, Idle
<1>5. ASSUME NEW m \in Mission, NEW prio \in PriorityArg, NEW allowQueue \in BOOLEAN,
             HandleSubmit(m, prio, allowQueue)
      PROVE  /\ Calls(Outcomes) /\ svc = IdleCallback /\ UNCHANGED threadVars
             /\ CallbackBegun
  <2>1. Submit(m, prio, allowQueue)
    BY <1>5 DEF HandleSubmit
  <2>2. Calls(Outcomes)
    BY <2>1 DEF Calls
  <2>3. CASE SlotBusy
    BY <1>5, <2>2, <2>3, CallbackDone DEF HandleSubmit, Idle
  <2>4. CASE ~SlotBusy
    <3>1. CallbackWith(0, "plan", NewIdentity(m))
      BY <1>5, <2>4 DEF HandleSubmit
    <3>2. missions'[m].state = "PLANNING" /\ ~missions'[m].bt
      BY <2>1, <2>4 DEF Submit, ManagerTypeOK, Absent
    <3>3. Waiting(m)'
      BY <3>2 DEF Waiting
    <3> QED
      BY <1>1, <1>5, <2>2, <3>1, <3>3, CallbackLeaves DEF HandleSubmit, Idle
  <2> QED
    BY <2>3, <2>4
<1>6. ASSUME NEW m \in Mission, HandleCancel(m)
      PROVE  /\ Calls(Outcomes) /\ svc = IdleCallback /\ UNCHANGED threadVars
             /\ CallbackBegun
  <2>1. Calls(Outcomes)
    BY <1>6 DEF HandleCancel, Calls
  <2>2. CallbackWith(EventOf(m), "ready", NoIdentity)
    BY <1>6 DEF HandleCancel
  <2> QED
    BY <1>1, <1>2, <1>6, <2>1, <2>2, CallbackLeaves DEF HandleCancel, Idle
<1>7. ASSUME NEW m \in Mission, NEW reason \in Reason, HandlePause(m, reason)
      PROVE  /\ Calls(Outcomes) /\ svc = IdleCallback /\ UNCHANGED threadVars
             /\ CallbackBegun
  <2>1. Calls(Outcomes)
    BY <1>7 DEF HandlePause, Calls
  <2>2. CallbackWith(EventOf(m), "ready", NoIdentity)
    BY <1>7 DEF HandlePause
  <2> QED
    BY <1>1, <1>2, <1>7, <2>1, <2>2, CallbackLeaves DEF HandlePause, Idle
<1>8. ASSUME NEW m \in Mission, HandleResume(m)
      PROVE  /\ Calls(Outcomes) /\ svc = IdleCallback /\ UNCHANGED threadVars
             /\ CallbackBegun
  <2>1. Resume(m)
    BY <1>8 DEF HandleResume
  <2>2. Calls(Outcomes)
    BY <2>1 DEF Calls
  <2>3. CASE ResumedState(m) = "RUNNING"
    <3>1. CallbackWith(0, "run", NewIdentity(m))
      BY <1>8, <2>3 DEF HandleResume
    <3>2. StartsRunning(m)
      <4>1. NewExecution = execs + 1
        BY DEF NewExecution
      <4>2. Open(m) /\ missions[m].pv \in Nat
        BY <2>1 DEF Resume, Open, Stored, Ended, ManagerTypeOK, MissionRecord
      <4> QED
        BY <2>1, <2>3, <4>1, <4>2, ResumeRecords DEF StartsRunning
    <3> QED
      BY <1>1, <1>8, <2>2, <3>1, <3>2, CallbackLeaves DEF HandleResume, Idle
  <2>4. CASE ResumedState(m) = "PLANNING"
    <3>1. CallbackWith(0, "plan", NewIdentity(m))
      BY <1>8, <2>4 DEF HandleResume
    <3>2. missions'[m].state = "PLANNING" /\ ~missions'[m].bt
      BY <2>1, <2>4, ResumeRecords DEF ResumedState
    <3>3. Waiting(m)'
      BY <3>2 DEF Waiting
    <3> QED
      BY <1>1, <1>8, <2>2, <3>1, <3>3, CallbackLeaves DEF HandleResume, Idle
  <2>5. CASE ResumedState(m) = "QUEUED"
    <3>1. svc' = IdleCallback
      BY <1>8, <2>5 DEF HandleResume
    <3> QED
      BY <1>8, <2>2, <3>1, CallbackDone DEF HandleResume, Idle
  <2> QED
    BY <2>3, <2>4, <2>5 DEF ResumedState
<1>9. ASSUME NEW m \in Mission, NEW prio \in PriorityArg, NEW preempt \in BOOLEAN,
             NEW reason \in Reason, HandleReprioritize(m, prio, preempt, reason)
      PROVE  /\ Calls(Outcomes) /\ svc = IdleCallback /\ UNCHANGED threadVars
             /\ CallbackBegun
  <2> DEFINE signal == IF Preempts(m, prio, preempt) THEN EventOf(active) ELSE 0
  <2>1. Calls(Outcomes)
    BY <1>9 DEF HandleReprioritize, Calls
  <2>2. signal \in Execution \cup {0}
    BY <1>2 DEF Preempts, ManagerTypeOK
  <2>3. \/ CallbackWith(signal, "plan", NewIdentity(m)) /\ Waiting(m)'
        \/ CallbackWith(signal, "done", NoIdentity)
    BY <1>9 DEF HandleReprioritize, Waiting
  <2> HIDE DEF signal
  <2> QED
    BY <1>1, <1>9, <2>1, <2>2, <2>3, CallbackLeaves DEF HandleReprioritize, Idle
<1>10. ASSUME NEW m \in Mission, OnSocialEvent(m)
       PROVE  /\ Calls(Outcomes) /\ svc = IdleCallback /\ UNCHANGED threadVars
              /\ CallbackBegun
  <2>1. Submit(m, TriggerPriority, FALSE) /\ TriggerPriority \in PriorityArg
    BY <1>10, NodeAssumption DEF OnSocialEvent
  <2>2. Calls(Outcomes)
    BY <2>1 DEF Calls
  <2>3. CallbackWith(0, "plan", NewIdentity(m))
    BY <1>10 DEF OnSocialEvent
  <2>4. missions'[m].state = "PLANNING" /\ ~missions'[m].bt
    BY <2>1 DEF Submit, ManagerTypeOK, Absent
  <2>5. Waiting(m)'
    BY <2>4 DEF Waiting
  <2> QED
    BY <1>1, <1>10, <2>2, <2>3, <2>5, CallbackLeaves DEF OnSocialEvent, Idle
<1> QED
  BY <1>3, <1>4, <1>5, <1>6, <1>7, <1>8, <1>9, <1>10 DEF CallbackBegins

\* The shared last part: a step that leaves threads, callback and table alone
\* moves none of them.
LEMMA StillMoves ==
  /\ UNCHANGED planner => \A p \in Planner : PlannerMoves(p)
  /\ UNCHANGED runner => \A e \in Execution : RunnerMoves(e)
  /\ UNCHANGED svc => CallbackMoves
  BY DEF PlannerMoves, RunnerMoves, CallbackMoves

StepMoves ==
  /\ [Calls(Outcomes)]_managerVars
  /\ \A p \in Planner : PlannerMoves(p)
  /\ \A e \in Execution : RunnerMoves(e)
  /\ CallbackMoves
  /\ ThreadTypes'

LEMMA StartRunnerMoves ==
  ASSUME NodeTypes, UNCHANGED managerVars, NEW id \in Identity, id.exec \in Execution,
         StartRunner(id),
         \/ \E p \in Planner : /\ planner[p].pc = "planned" /\ planner[p].id = id
                               /\ planner'[p].pc = "idle"
         \/ svc.then = "run" /\ svc.id = id /\ svc'.then = "done"
  PROVE  /\ \A e \in Execution : RunnerMoves(e)
         /\ runner' \in [Execution -> RunnerRecord]
         /\ cancelEvents' \subseteq Execution
         /\ cancelKey' \in [Mission -> Execution \cup {0}]
         /\ signaled' \subseteq Execution
<1>1. runner' = [runner EXCEPT ![id.exec] = [pc |-> "executing", id |-> id]]
  BY DEF StartRunner
<1>2. runner' \in [Execution -> RunnerRecord]
  BY <1>1 DEF NodeTypes, ThreadTypes, RunnerRecord
<1>3. runner'[id.exec] = [pc |-> "executing", id |-> id]
  BY <1>1 DEF NodeTypes, ThreadTypes
<1>4. Starts(id.exec)
  BY <1>3 DEF Starts
<1>5. \A e \in Execution : RunnerMoves(e)
  BY <1>1, <1>4 DEF RunnerMoves, NodeTypes, ThreadTypes
<1>6. cancelKey' \in [Mission -> Execution \cup {0}]
  BY DEF StartRunner, NodeTypes, ThreadTypes
<1>7. cancelEvents' \subseteq Execution /\ signaled' \subseteq Execution
  BY DEF StartRunner, NodeTypes, ThreadTypes
<1> QED
  BY <1>2, <1>5, <1>6, <1>7

LEMMA CallbackContinuesMoves ==
  ASSUME TableInv, NodeTypes, OrderInv, CallbackContinues
  PROVE  StepMoves
<1> USE DEF TableInv
<1>1. CASE SetCancelEvent
  <2>1. UNCHANGED managerVars /\ UNCHANGED planner /\ UNCHANGED runner
    BY <1>1 DEF SetCancelEvent
  <2>2. CallbackMoves /\ svc' \in CallbackRecord
    BY <1>1 DEF SetCancelEvent, CallbackMoves, NodeTypes, ThreadTypes, CallbackRecord, IdleCallback
  <2>3. signaled' \subseteq Execution
    BY <1>1 DEF SetCancelEvent, NodeTypes, ThreadTypes, CallbackRecord
  <2> QED
    BY <1>1, <2>1, <2>2, <2>3, StillMoves DEF SetCancelEvent, StepMoves, NodeTypes, ThreadTypes
<1>2. CASE CallbackStartsRunner
  <2>1. UNCHANGED managerVars /\ UNCHANGED planner /\ svc' = IdleCallback
    BY <1>2 DEF CallbackStartsRunner
  <2>2. StartRunner(svc.id) /\ svc.then = "run" /\ svc.id \in Identity /\ svc.id.exec \in Execution
    BY <1>2 DEF CallbackStartsRunner, NodeTypes
  <2>3. CallbackMoves /\ svc' \in CallbackRecord /\ svc'.then = "done"
    BY <2>1, CallbackDone DEF CallbackBegun, IdleCallback
  <2> QED
    BY <2>1, <2>2, <2>3, StillMoves, StartRunnerMoves DEF StepMoves, NodeTypes, ThreadTypes
<1>3. ASSUME NEW p \in Planner, CallbackPlans(p)
      PROVE  StepMoves
  <2>1. UNCHANGED managerVars /\ UNCHANGED runner /\ svc' = IdleCallback
    BY <1>3 DEF CallbackPlans
  <2>2. /\ planner' = [planner EXCEPT ![p] = [pc |-> "planning", id |-> svc.id]]
        /\ svc.then = "plan"
    BY <1>3 DEF CallbackPlans, PlanInThread
  <2>3. svc.id \in Identity
    BY <2>2 DEF NodeTypes
  <2>4. planner' \in [Planner -> PlannerRecord]
    BY <2>2, <2>3 DEF NodeTypes, ThreadTypes, PlannerRecord
  <2>5. \A q \in Planner : PlannerMoves(q)
    BY <2>1, <2>2 DEF NodeTypes, ThreadTypes, PlannerMoves
  <2> QED
    BY <1>3, <2>1, <2>4, <2>5, StillMoves, CallbackDone
       DEF CallbackPlans, CallbackBegun, StepMoves, NodeTypes, ThreadTypes
<1>4. ASSUME NEW p \in Planner, CallbackStartsNext(p)
      PROVE  StepMoves
  <2>1. UNCHANGED managerVars /\ UNCHANGED runner /\ svc' = IdleCallback /\ StartNextReady(p)
    BY <1>4 DEF CallbackStartsNext
  <2> QED
    BY <1>4, <2>1, StillMoves, CallbackDone, StartNextReadyMoves
       DEF CallbackStartsNext, CallbackBegun, StepMoves, NodeTypes, ThreadTypes
<1> QED
  BY <1>1, <1>2, <1>3, <1>4 DEF CallbackContinues

LEMMA PlannerStepMoves ==
  ASSUME TableInv, NodeTypes, OrderInv, NEW p \in Planner, PlannerStep(p)
  PROVE  StepMoves
<1> USE DEF TableInv
<1> DEFINE id == planner[p].id
<1>1. CASE PlanLands(p)
  <2>1. id.m \in Mission /\ SetPlan(id.m) /\ planner[p].pc = "planning"
    BY <1>1 DEF PlanLands, CanUpdate
  <2>2. Calls(Outcomes)
    BY <2>1 DEF Calls
  <2>3. StartsRunning(id.m)
    BY <2>1, SetPlanRuns
  <2>4. NewIdentity(id.m) \in Identity
    BY <2>1, <2>2, TypeStep, NewIdentityType
  <2> DEFINE new == NewIdentity(id.m)
  <2>5. planner' = [planner EXCEPT ![p] = [pc |-> "planned", id |-> new]]
    BY <1>1 DEF PlanLands
  <2>6. \E m \in Mission : StartsRunning(m) /\ new = NewIdentity(m)
    BY <2>1, <2>3
  <2> HIDE DEF id, new
  <2>7. planner' \in [Planner -> PlannerRecord]
    BY <2>4, <2>5 DEF NodeTypes, ThreadTypes, PlannerRecord, id, new
  <2>8. \A q \in Planner : PlannerMoves(q)
    BY <2>1, <2>5, <2>6 DEF NodeTypes, ThreadTypes, PlannerMoves
  <2> QED
    BY <1>1, <2>2, <2>7, <2>8, StillMoves DEF PlanLands, StepMoves, NodeTypes, ThreadTypes
<1>2. CASE PlanFails(p)
  <2>1. id.m \in Mission /\ MarkTerminal(id.m, "FAILED") /\ planner[p].pc = "planning"
    BY <1>2 DEF PlanFails, CanUpdate
  <2>2. Calls(Outcomes)
    BY <2>1 DEF Calls, Outcomes
  <2>3. planner' \in [Planner -> PlannerRecord] /\ \A q \in Planner : PlannerMoves(q)
    BY <1>2 DEF PlanFails, NodeTypes, ThreadTypes, PlannerRecord, PlannerMoves
  <2> QED
    BY <1>2, <2>2, <2>3, StillMoves DEF PlanFails, StepMoves, NodeTypes, ThreadTypes
<1>3. CASE PlanIsStale(p)
  <2>1. planner' \in [Planner -> PlannerRecord] /\ \A q \in Planner : PlannerMoves(q)
    BY <1>3 DEF PlanIsStale, NodeTypes, ThreadTypes, PlannerRecord, PlannerMoves, IdlePlanner
  <2> QED
    BY <1>3, <2>1, StillMoves DEF PlanIsStale, StepMoves, NodeTypes, ThreadTypes
<1>4. CASE PlannerStartsRunner(p)
  <2>1. StartRunner(id) /\ planner[p].pc = "planned" /\ UNCHANGED managerVars
    BY <1>4 DEF PlannerStartsRunner
  <2>2. id \in Identity /\ id.exec \in Execution
    BY <2>1 DEF NodeTypes
  <2>3. /\ planner' \in [Planner -> PlannerRecord] /\ planner'[p].pc = "idle"
        /\ \A q \in Planner : PlannerMoves(q)
    BY <1>4 DEF PlannerStartsRunner, NodeTypes, ThreadTypes, PlannerRecord, PlannerMoves, IdlePlanner
  <2>4. \E q \in Planner : planner[q].pc = "planned" /\ planner[q].id = id /\ planner'[q].pc = "idle"
    BY <2>1, <2>3
  <2> HIDE DEF id
  <2> QED
    BY <1>4, <2>1, <2>2, <2>3, <2>4, StillMoves, StartRunnerMoves
       DEF PlannerStartsRunner, StepMoves, NodeTypes, ThreadTypes
<1>5. CASE PlannerStartsNext(p)
  BY <1>5, StillMoves, StartNextReadyMoves
     DEF PlannerStartsNext, StepMoves, NodeTypes, ThreadTypes
<1> QED
  BY <1>1, <1>2, <1>3, <1>4, <1>5 DEF PlannerStep

LEMMA RunnerStepMoves ==
  ASSUME TableInv, NodeTypes, OrderInv, NEW e \in Execution, RunnerStep(e)
  PROVE  StepMoves
<1> USE DEF TableInv
<1> DEFINE id == runner[e].id
<1>1. CASE RunnerSettles(e)
  <2>1. id.m \in Mission
    BY <1>1 DEF RunnerSettles, NodeTypes, Live, Identity
  <2>2. Calls(Outcomes)
    BY <1>1, <2>1, ArgumentAssumption DEF RunnerSettles, Calls
  <2>3. runner[e].pc = "executing" /\ runner' = [runner EXCEPT ![e].pc = "settled"]
    BY <1>1 DEF RunnerSettles
  <2>4. runner' \in [Execution -> RunnerRecord] /\ \A f \in Execution : RunnerMoves(f)
    BY <2>3 DEF NodeTypes, ThreadTypes, RunnerRecord, RunnerMoves
  <2> QED
    BY <1>1, <2>2, <2>4, StillMoves DEF RunnerSettles, StepMoves, NodeTypes, ThreadTypes
<1>2. CASE RunnerIsStale(e) \/ RunnerRaises(e)
  <2>1. runner' \in [Execution -> RunnerRecord] /\ \A f \in Execution : RunnerMoves(f)
    BY <1>2 DEF RunnerIsStale, RunnerRaises, NodeTypes, ThreadTypes, RunnerRecord, RunnerMoves
  <2> QED
    BY <1>2, <2>1, StillMoves DEF RunnerIsStale, RunnerRaises, StepMoves, NodeTypes, ThreadTypes
<1>3. ASSUME NEW p \in Planner, RunnerStartsNext(e, p)
      PROVE  StepMoves
  <2>1. runner' \in [Execution -> RunnerRecord] /\ \A f \in Execution : RunnerMoves(f)
    BY <1>3 DEF RunnerStartsNext, NodeTypes, ThreadTypes, RunnerRecord, RunnerMoves
  <2> QED
    BY <1>3, <2>1, StillMoves, StartNextReadyMoves
       DEF RunnerStartsNext, StepMoves, NodeTypes, ThreadTypes
<1>4. CASE RunnerLeaves(e)
  <2>1. runner' \in [Execution -> RunnerRecord] /\ \A f \in Execution : RunnerMoves(f)
    BY <1>4 DEF RunnerLeaves, NodeTypes, ThreadTypes, RunnerRecord, RunnerMoves, NoIdentity
  <2>2. cancelKey' \in [Mission -> Execution \cup {0}]
    BY <1>4 DEF RunnerLeaves, DropKey, NodeTypes, ThreadTypes
  <2>3. cancelEvents' \subseteq Execution /\ signaled' \subseteq Execution
    BY <1>4 DEF RunnerLeaves, NodeTypes, ThreadTypes
  <2> QED
    BY <1>4, <2>1, <2>2, <2>3, StillMoves DEF RunnerLeaves, StepMoves, NodeTypes, ThreadTypes
<1> QED
  BY <1>1, <1>2, <1>3, <1>4 DEF RunnerStep

\* Every step of the node calls the table as its callers may, and moves threads and
\* callback as said above.
LEMMA NextMoves ==
  ASSUME TableInv, NodeTypes, OrderInv, [Next]_vars
  PROVE  StepMoves
<1>1. CASE UNCHANGED vars
  BY <1>1, StillMoves DEF vars, threadVars, StepMoves, NodeTypes, ThreadTypes
<1>2. CASE CallbackBegins
  BY <1>2, CallbackBeginsMoves, StillMoves
     DEF threadVars, CallbackBegun, StepMoves, NodeTypes, ThreadTypes
<1>3. ASSUME NEW e \in Execution, ReportProgress(e)
      PROVE  StepMoves
  <2>1. Calls(Outcomes)
    BY <1>3 DEF ReportProgress, CanUpdate, Calls
  <2> QED
    BY <1>3, <2>1, StillMoves DEF ReportProgress, threadVars, StepMoves, NodeTypes, ThreadTypes
<1> QED
  BY <1>1, <1>2, <1>3, CallbackContinuesMoves, PlannerStepMoves, RunnerStepMoves DEF Next

-----------------------------------------------------------------------------
(* Types, and the table that the node implements *)

LEMMA NodeTypesStep ==
  ASSUME TableInv, NodeTypes, OrderInv, [Next]_vars
  PROVE  NodeTypes'
<1>1. StepMoves
  BY NextMoves
<1>2. TableInv'
  BY <1>1, TableInvStep DEF StepMoves
<1>3. \A m \in Mission : IdentityOf(m) \in Identity /\ NewIdentity(m) \in Identity
  BY <1>2, IdentityType, NewIdentityType DEF TableInv
<1>4. \A m \in Mission : StartsRunning(m) => NewIdentity(m).exec \in Execution
  <2>1. execs \in Nat /\ execs' \in 0 .. MaxExecution
    BY <1>2 DEF TableInv, ManagerTypeOK
  <2> QED
    BY <2>1, BoundAssumption DEF StartsRunning, NewIdentity, Execution
<1>5. ASSUME NEW p \in Planner, planner'[p].pc # "idle"
      PROVE  planner'[p].id \in Identity
  BY <1>1, <1>3, <1>5 DEF StepMoves, PlannerMoves, NodeTypes
<1>6. ASSUME NEW p \in Planner, planner'[p].pc = "planned"
      PROVE  planner'[p].id.exec \in Execution
  BY <1>1, <1>4, <1>6 DEF StepMoves, PlannerMoves, NodeTypes
<1>7. ASSUME NEW e \in Execution, Live(e)'
      PROVE  runner'[e].id \in Identity /\ runner'[e].id.exec = e
  <2>1. Starts(e) => runner'[e].id \in Identity /\ runner'[e].id.exec = e
    BY DEF Starts, NodeTypes
  <2> QED
    BY <1>1, <1>7, <2>1 DEF StepMoves, RunnerMoves, NodeTypes, Live
<1>8. /\ svc'.then \in {"plan", "run"} => svc'.id \in Identity
      /\ svc'.then = "run" => svc'.id.exec \in Execution
  BY <1>1, <1>3, <1>4 DEF StepMoves, CallbackMoves, NodeTypes
<1>9. ThreadTypes'
  BY <1>1 DEF StepMoves
<1>10. \A e \in Execution : Live(e)' => runner'[e].id \in Identity /\ runner'[e].id.exec = e
  BY <1>7
<1> QED
  BY <1>5, <1>6, <1>8, <1>9, <1>10 DEF NodeTypes

\* The step that accepts a mission adds it to the dict; all others leave dict and
\* stored missions alone.
LEMMA OrderCases ==
  ASSUME TableInv, NodeTypes, [Next]_vars
  PROVE  \/ order' = order /\ \A n \in Mission : Stored(n)' <=> Stored(n)
         \/ \E m \in Mission : /\ order' = Append(order, m) /\ ~Stored(m) /\ Stored(m)'
                               /\ \A n \in Mission \ {m} : missions'[n] = missions[n]
<1> USE DEF TableInv
<1>1. ASSUME order' = order, UNCHANGED managerVars \/ OtherCalls(Outcomes)
      PROVE  \A n \in Mission : Stored(n)' <=> Stored(n)
  <2>1. CASE UNCHANGED managerVars
    BY <2>1 DEF managerVars, Stored
  <2>2. CASE OtherCalls(Outcomes)
    BY <2>2, OtherCallsMove, StoredKept
  <2> QED
    BY <1>1, <2>1, <2>2
<1>2. ASSUME NEW m \in Mission, NEW reason \in Reason, Pause(m, reason)
      PROVE  \A n \in Mission : Stored(n)' <=> Stored(n)
  BY <1>2, PauseMoves, StoredKept
<1>3. ASSUME NEW m \in Mission, NEW prio \in PriorityArg, NEW allowQueue \in BOOLEAN,
             Submit(m, prio, allowQueue)
      PROVE  /\ ~Stored(m) /\ Stored(m)'
             /\ \A n \in Mission \ {m} : missions'[n] = missions[n]
  BY <1>3, SubmitMoves DEF Appears, Stored
<1>4. CASE CallbackBegins
  <2>1. ASSUME NEW m \in Mission, NEW prio \in PriorityArg, NEW allowQueue \in BOOLEAN,
               HandleSubmit(m, prio, allowQueue)
        PROVE  \E n \in Mission : /\ order' = Append(order, n) /\ ~Stored(n) /\ Stored(n)'
                                  /\ \A k \in Mission \ {n} : missions'[k] = missions[k]
    BY <1>3, <2>1 DEF HandleSubmit
  <2>2. ASSUME NEW m \in Mission, OnSocialEvent(m)
        PROVE  \E n \in Mission : /\ order' = Append(order, n) /\ ~Stored(n) /\ Stored(n)'
                                  /\ \A k \in Mission \ {n} : missions'[k] = missions[k]
    BY <1>3, <2>2, NodeAssumption DEF OnSocialEvent
  <2>3. CASE OnBlockingEvent \/ OnReplanEvent
    BY <1>1, <2>3 DEF OnBlockingEvent, OnReplanEvent, OtherCalls, Outcomes, ManagerTypeOK
  <2>4. ASSUME NEW m \in Mission, HandleCancel(m) \/ HandleResume(m)
        PROVE  order' = order /\ OtherCalls(Outcomes)
    BY <2>4 DEF HandleCancel, HandleResume, OtherCalls
  <2>5. ASSUME NEW m \in Mission, NEW prio \in PriorityArg, NEW preempt \in BOOLEAN,
               NEW reason \in Reason, HandleReprioritize(m, prio, preempt, reason)
        PROVE  order' = order /\ OtherCalls(Outcomes)
    BY <2>5 DEF HandleReprioritize, OtherCalls
  <2>6. ASSUME NEW m \in Mission, NEW reason \in Reason, HandlePause(m, reason)
        PROVE  order' = order /\ \A n \in Mission : Stored(n)' <=> Stored(n)
    BY <1>2, <2>6 DEF HandlePause
  <2> QED
    BY <1>1, <1>4, <2>1, <2>2, <2>3, <2>4, <2>5, <2>6 DEF CallbackBegins
<1>5. CASE UNCHANGED vars \/ CallbackContinues
  BY <1>1, <1>5 DEF vars, CallbackContinues, SetCancelEvent, CallbackStartsRunner, CallbackPlans,
                    CallbackStartsNext
<1>6. ASSUME NEW p \in Planner, PlannerStep(p)
      PROVE  order' = order /\ (UNCHANGED managerVars \/ OtherCalls(Outcomes))
  <2>1. CASE PlanLands(p) \/ PlanFails(p)
    BY <2>1 DEF PlanLands, PlanFails, CanUpdate, OtherCalls, Outcomes
  <2> QED
    BY <1>6, <2>1 DEF PlannerStep, PlanIsStale, PlannerStartsRunner, PlannerStartsNext
<1>7. ASSUME NEW e \in Execution, ReportProgress(e)
      PROVE  order' = order /\ OtherCalls(Outcomes)
  BY <1>7 DEF ReportProgress, CanUpdate, OtherCalls
<1>8. ASSUME NEW e \in Execution, RunnerSettles(e)
      PROVE  order' = order /\ \A n \in Mission : Stored(n)' <=> Stored(n)
  <2>1. runner[e].id.m \in Mission /\ order' = order
    BY <1>8 DEF RunnerSettles, NodeTypes, Live, Identity
  <2>2. CASE \E reason \in Reason : Pause(runner[e].id.m, reason)
    BY <1>2, <2>1, <2>2
  <2>3. CASE \E state \in Outcome : MarkTerminal(runner[e].id.m, state)
    <3>1. OtherCalls(Outcomes)
      BY <2>1, <2>3, ArgumentAssumption DEF OtherCalls
    <3> QED
      BY <1>1, <2>1, <3>1
  <2> QED
    BY <1>8, <2>1, <2>2, <2>3 DEF RunnerSettles
<1>9. ASSUME NEW e \in Execution, RunnerStep(e), ~RunnerSettles(e)
      PROVE  order' = order /\ UNCHANGED managerVars
  BY <1>9 DEF RunnerStep, RunnerIsStale, RunnerRaises, RunnerStartsNext, RunnerLeaves
<1> QED
  BY <1>1, <1>4, <1>5, <1>6, <1>7, <1>8, <1>9 DEF Next

LEMMA OrderInvStep ==
  ASSUME TableInv, NodeTypes, OrderInv, [Next]_vars
  PROVE  OrderInv'
<1>1. CASE order' = order /\ \A n \in Mission : Stored(n)' <=> Stored(n)
  BY <1>1 DEF OrderInv
<1>2. ASSUME NEW m \in Mission, order' = Append(order, m), ~Stored(m), Stored(m)',
             \A n \in Mission \ {m} : missions'[n] = missions[n]
      PROVE  OrderInv'
  <2> DEFINE k == Len(order) + 1
  <2>1. order \in Seq(Mission)
    BY DEF OrderInv
  <2>2. /\ order' \in Seq(Mission) /\ k \in Nat
        /\ DOMAIN order' = DOMAIN order \cup {k}
        /\ order'[k] = m /\ k \notin DOMAIN order
        /\ \A i \in DOMAIN order : order'[i] = order[i]
    BY <1>2, <2>1
  <2>3. \A n \in Mission \ {m} : Stored(n)' <=> Stored(n)
    BY <1>2 DEF Stored
  <2>4. \A i \in DOMAIN order : order[i] \in Mission /\ Stored(order[i]) /\ order[i] # m
    BY <1>2, <2>1 DEF OrderInv
  <2>5. \A n \in Mission : Stored(n) => \E i \in DOMAIN order : order[i] = n
    BY DEF OrderInv
  <2> HIDE DEF k
  <2>6. \A i, j \in DOMAIN order' : order'[i] = order'[j] => i = j
    BY <2>2, <2>4 DEF OrderInv
  <2> DEFINE after == {n \in Mission : missions'[n].state # "UNKNOWN"}
  <2>7. \A i \in DOMAIN order' : order'[i] \in after
    <3>1. order'[k] \in after
      BY <1>2, <2>2 DEF Stored
    <3>2. ASSUME NEW i \in DOMAIN order
          PROVE  order'[i] \in after
      BY <1>2, <2>2, <2>4 DEF Stored
    <3> QED
      BY <2>2, <3>1, <3>2
  <2>8. \A n \in after : \E i \in DOMAIN order' : order'[i] = n
    <3>1. ASSUME NEW n \in after, n # m
          PROVE  \E i \in DOMAIN order' : order'[i] = n
      <4>1. Stored(n)
        BY <1>2, <3>1 DEF Stored
      <4> QED
        BY <2>2, <2>5, <4>1
    <3> QED
      BY <2>2, <3>1
  <2>9. {order'[i] : i \in DOMAIN order'} = after
    BY <2>7, <2>8
  <2> QED
    BY <2>2, <2>6, <2>9 DEF OrderInv, Stored
<1> QED
  BY <1>1, <1>2, OrderCases

\* The first layer of the invariant: the table's own, the types and the dict.
BaseInv == TableInv /\ NodeTypes /\ OrderInv

LEMMA BaseInit == Init => BaseInv
<1> SUFFICES ASSUME Init PROVE BaseInv
  OBVIOUS
<1>1. TableInv
  BY TypeInit, SlotInit, IdentityInit DEF Init, TableInv
<1>2. NodeTypes
  BY DEF Init, NodeTypes, ThreadTypes, Live, PlannerRecord, RunnerRecord, CallbackRecord,
         IdlePlanner, IdleCallback, NoIdentity
<1>3. OrderInv
  BY DEF Init, ManagerInit, OrderInv, Stored, Absent
<1> QED
  BY <1>1, <1>2, <1>3 DEF BaseInv

LEMMA BaseStep == BaseInv /\ [Next]_vars => BaseInv' /\ StepMoves
<1> SUFFICES ASSUME BaseInv, [Next]_vars
             PROVE  BaseInv' /\ StepMoves
  OBVIOUS
<1>1. StepMoves
  BY NextMoves DEF BaseInv
<1>2. TableInv'
  BY <1>1, TableInvStep DEF BaseInv, StepMoves
<1> QED
  BY <1>1, <1>2, NodeTypesStep, OrderInvStep DEF BaseInv

LEMMA BaseHolds == Spec => []BaseInv
  BY BaseInit, BaseStep, PTL DEF Spec

\* The node's threads, registry and callback keep their types, and the dict holds
\* every mission the node ever accepted, once, whatever is interleaved.
THEOREM NodeTypesCorrect == Spec => []NodeTypeOK
<1>1. BaseInv => NodeTypeOK
  BY DEF BaseInv, NodeTypes, ThreadTypes, OrderInv, NodeTypeOK
<1> QED
  BY <1>1, BaseHolds, PTL

\* The node uses the table only through its methods, one call at a time: whatever
\* is proved of the table under any caller is true of the table inside the node.
THEOREM NodeImplementsTable == Spec => TableSpec
<1>1. Init => ManagerInit
  BY DEF Init
<1>2. BaseInv /\ [Next]_vars => [Calls(Outcomes)]_managerVars
  BY BaseStep DEF StepMoves
<1> QED
  BY <1>1, <1>2, BaseHolds, PTL DEF Spec, TableSpec

\* So the promises of the table hold in the node.
COROLLARY NodeKeepsTable == Spec => [](ActiveIsOpen /\ IdleSlotHasNoQueue /\ RunningIsExecutable)
<1>1. TableInv => ActiveIsOpen /\ IdleSlotHasNoQueue /\ RunningIsExecutable
  BY DEF TableInv, SlotInv, IdentityInv
<1> QED
  BY <1>1, NodeImplementsTable, TableInvHolds, PTL

-----------------------------------------------------------------------------
(* Identities in the hands of threads and callbacks *)

\* An identity the table had, once.
Known(id) == Stored(id.m) /\ id.pv <= missions[id.m].pv /\ id.exec <= execs

\* The same after a step.
KnownAfter(id) ==
  missions'[id.m].state # "UNKNOWN" /\ id.pv <= missions'[id.m].pv /\ id.exec <= execs'

\* Threads and callbacks hold no others.
KnownInv ==
  /\ \A p \in Planner : planner[p].pc # "idle" => Known(planner[p].id)
  /\ \A e \in Execution : Live(e) => Known(runner[e].id)
  /\ svc.then \in {"plan", "run"} => Known(svc.id)

\* Counters only grow.
LEMMA Grows ==
  ASSUME TableInv, [Calls(Outcomes)]_managerVars
  PROVE  /\ execs \in Nat /\ execs' \in Nat /\ execs' >= execs
         /\ \A n \in Mission : /\ missions[n].pv \in Nat /\ missions'[n].pv \in Nat
                               /\ Stored(n) => Stored(n)' /\ missions'[n].pv >= missions[n].pv
<1>1. TableInv'
  BY TableInvStep
<1>2. Draws /\ \A n \in Mission : Moves(n) \/ Appears(n) \/ BecomesPaused(n)
  BY CallsMove
<1>3. execs \in Nat /\ execs' \in Nat /\ execs' >= execs
  BY <1>1, <1>2 DEF TableInv, ManagerTypeOK, Draws
<1>4. ASSUME NEW n \in Mission
      PROVE  missions[n].pv \in Nat /\ missions'[n].pv \in Nat
  BY <1>1 DEF TableInv, ManagerTypeOK, MissionRecord
<1>5. ASSUME NEW n \in Mission, Stored(n)
      PROVE  Stored(n)' /\ missions'[n].pv >= missions[n].pv
  <2>1. Moves(n) \/ BecomesPaused(n)
    BY <1>2, <1>5 DEF Appears, Stored
  <2> QED
    BY <1>4, <1>5, <2>1, StoredKept
       DEF Moves, Same, Kept, GetsSlot, Ends, Requeues, LosesPlan, StartsRunning, BecomesPaused
<1> QED
  BY <1>3, <1>4, <1>5

LEMMA KnownStays ==
  ASSUME TableInv, [Calls(Outcomes)]_managerVars, NEW id \in Identity, Known(id)
  PROVE  KnownAfter(id)
<1>1. id.m \in Mission /\ id.pv \in Nat /\ id.exec \in Nat
  BY DEF Identity
<1>2. /\ execs \in Nat /\ execs' \in Nat /\ execs' >= execs
      /\ missions[id.m].pv \in Nat /\ missions'[id.m].pv \in Nat
      /\ missions'[id.m].pv >= missions[id.m].pv
      /\ missions'[id.m].state # "UNKNOWN"
  <2>1. \A n \in Mission : Stored(n) => Stored(n)' /\ missions'[n].pv >= missions[n].pv
    BY Grows
  <2>2. Stored(id.m)
    BY DEF Known
  <2>3. missions'[id.m].state # "UNKNOWN" /\ missions'[id.m].pv >= missions[id.m].pv
    BY <1>1, <2>1, <2>2 DEF Stored
  <2> QED
    BY <1>1, <2>3, Grows
<1> QED
  BY <1>1, <1>2 DEF Known, KnownAfter

\* What the table says of a stored mission is known from then on.
LEMMA NewIsKnown ==
  ASSUME TableInv', NEW m \in Mission, Stored(m)', NEW id, id = NewIdentity(m)
  PROVE  KnownAfter(id)
  BY DEF TableInv, IdentityInv, RunningIsExecutable, ManagerTypeOK, MissionRecord, KnownAfter,
         NewIdentity, Stored

LEMMA KnownInvStep ==
  ASSUME BaseInv, BaseInv', StepMoves, KnownInv
  PROVE  KnownInv'
<1>1. TableInv /\ TableInv' /\ NodeTypes /\ [Calls(Outcomes)]_managerVars
  BY DEF BaseInv, StepMoves
<1>2. \A id \in Identity : Known(id) => KnownAfter(id)
  BY <1>1, KnownStays
<1>3. ASSUME NEW m \in Mission, NEW id, id = NewIdentity(m), Waiting(m)' \/ StartsRunning(m)
      PROVE  KnownAfter(id)
  <2>1. Stored(m)'
    BY <1>3 DEF Waiting, StartsRunning, Stored
  <2> QED
    BY <1>1, <1>3, <2>1, NewIsKnown
<1>4. ASSUME NEW m \in Mission, NEW id, id = IdentityOf(m), Waiting(m), UNCHANGED managerVars
      PROVE  KnownAfter(id)
  <2>1. Waiting(m)' /\ IdentityOf(m) = NewIdentity(m)
    BY <1>4 DEF managerVars, Waiting, IdentityOf, NewIdentity
  <2> QED
    BY <1>3, <1>4, <2>1
<1>5. ASSUME NEW p \in Planner, planner'[p].pc # "idle"
      PROVE  KnownAfter(planner'[p].id)
  <2>1. PlannerMoves(p)
    BY DEF StepMoves
  <2>2. CASE planner'[p] = planner[p]
    BY <1>1, <1>2, <1>5, <2>2 DEF KnownInv, NodeTypes
  <2>3. CASE planner[p].pc = "planning" /\ planner'[p].id = planner[p].id
    BY <1>1, <1>2, <2>3 DEF KnownInv, NodeTypes
  <2>4. CASE svc.then = "plan" /\ planner'[p].id = svc.id
    BY <1>1, <1>2, <2>4 DEF KnownInv, NodeTypes
  <2> QED
    BY <1>3, <1>4, <1>5, <2>1, <2>2, <2>3, <2>4 DEF PlannerMoves
<1>6. ASSUME NEW e \in Execution, Live(e)'
      PROVE  KnownAfter(runner'[e].id)
  <2>1. RunnerMoves(e)
    BY DEF StepMoves
  <2>2. CASE Live(e) /\ runner'[e].id = runner[e].id
    BY <1>1, <1>2, <2>2 DEF KnownInv, NodeTypes
  <2>3. ASSUME NEW p \in Planner, planner[p].pc = "planned", planner[p].id = runner'[e].id
        PROVE  KnownAfter(runner'[e].id)
    BY <1>1, <1>2, <2>3 DEF KnownInv, NodeTypes
  <2>4. CASE svc.then = "run" /\ svc.id = runner'[e].id
    BY <1>1, <1>2, <2>4 DEF KnownInv, NodeTypes
  <2> QED
    BY <1>6, <2>1, <2>2, <2>3, <2>4 DEF RunnerMoves, Starts, Live
<1>7. ASSUME svc'.then \in {"plan", "run"}
      PROVE  KnownAfter(svc'.id)
  <2>1. CASE svc'.then = svc.then /\ svc'.id = svc.id
    BY <1>1, <1>2, <1>7, <2>1 DEF KnownInv, NodeTypes
  <2> QED
    BY <1>3, <1>7, <2>1 DEF StepMoves, CallbackMoves
<1> QED
  BY <1>5, <1>6, <1>7 DEF KnownInv, Known, KnownAfter, Stored

-----------------------------------------------------------------------------
(* Executions: each is started once, for the mission it was drawn for *)

\* The runner of an execution does not exist before the id is drawn, nor while a
\* thread or callback is about to start it; nobody else is about to start it.
StartInv ==
  /\ \A e \in Execution : e > execs => runner[e].pc = "none"
  /\ \A p \in Planner : planner[p].pc = "planned" => runner[planner[p].id.exec].pc = "none"
  /\ svc.then = "run" => runner[svc.id.exec].pc = "none"
  /\ \A p, q \in Planner :
       p # q /\ planner[p].pc = "planned" /\ planner[q].pc = "planned" =>
         planner[p].id.exec # planner[q].id.exec
  /\ \A p \in Planner :
       planner[p].pc = "planned" /\ svc.then = "run" => planner[p].id.exec # svc.id.exec

\* A step moves one planning thread at most, and then no callback begins.
LEMMA PlannerAlone ==
  ASSUME NodeTypes, [Next]_vars, NEW p \in Planner, planner'[p] # planner[p]
  PROVE  /\ \A q \in Planner \ {p} : planner'[q] = planner[q]
         /\ svc' = svc \/ svc'.then = "done"
<1>1. ASSUME NEW q \in Planner, StartNextReady(q)
      PROVE  \A r \in Planner \ {p} : planner'[r] = planner[r]
  BY <1>1 DEF StartNextReady, PlanInThread, NodeTypes, ThreadTypes
<1>2. CASE CallbackBegins
  BY <1>2 DEF CallbackBegins, threadVars, OnBlockingEvent, OnReplanEvent, HandleSubmit,
              HandleCancel, HandlePause, HandleResume, HandleReprioritize, OnSocialEvent
<1>3. CASE CallbackContinues
  BY <1>1, <1>3 DEF CallbackContinues, SetCancelEvent, CallbackStartsRunner, CallbackPlans,
                    CallbackStartsNext, PlanInThread, NodeTypes, ThreadTypes, IdleCallback
<1>4. ASSUME NEW q \in Planner, PlannerStep(q)
      PROVE  svc' = svc /\ \A r \in Planner \ {p} : planner'[r] = planner[r]
  BY <1>1, <1>4 DEF PlannerStep, PlanLands, PlanFails, PlanIsStale, PlannerStartsRunner,
                    PlannerStartsNext, NodeTypes, ThreadTypes
<1>5. ASSUME NEW e \in Execution, RunnerStep(e)
      PROVE  svc' = svc /\ \A r \in Planner \ {p} : planner'[r] = planner[r]
  BY <1>1, <1>5 DEF RunnerStep, RunnerSettles, RunnerIsStale, RunnerRaises, RunnerStartsNext,
                    RunnerLeaves
<1> QED
  BY <1>2, <1>3, <1>4, <1>5 DEF Next, vars, threadVars, ReportProgress

\* A step that starts running a mission draws a new id, and every identity in the
\* hands of a runner, thread or callback has an older one.
LEMMA DrawnAfterKnown ==
  ASSUME BaseInv, StepMoves, KnownInv, NEW m \in Mission, StartsRunning(m)
  PROVE  /\ NewIdentity(m).exec = execs + 1 /\ execs \in Nat
         /\ \A p \in Planner : planner[p].pc = "planned" => planner[p].id.exec \in 1 .. execs
         /\ svc.then = "run" => svc.id.exec \in 1 .. execs
         /\ \A e \in Execution : ~Starts(e)
<1>1. execs \in Nat /\ NodeTypes
  BY DEF BaseInv, TableInv, ManagerTypeOK
<1>2. NewIdentity(m).exec = execs + 1
  BY DEF NewIdentity, StartsRunning
<1>3. \A p \in Planner : planner[p].pc = "planned" => planner[p].id.exec \in 1 .. execs
  BY <1>1 DEF KnownInv, Known, NodeTypes, Execution
<1>4. svc.then = "run" => svc.id.exec \in 1 .. execs
  BY <1>1 DEF KnownInv, Known, NodeTypes, Execution
<1>5. \A e \in Execution : ~Starts(e)
  BY <1>1 DEF Starts, StartsRunning, managerVars
<1> QED
  BY <1>1, <1>2, <1>3, <1>4, <1>5

\* A runner is started in place of none, and then nobody else is about to.
LEMMA StartsOnce ==
  ASSUME BaseInv, KnownInv, StartInv, [Next]_vars, NEW e \in Execution, Starts(e)
  PROVE  /\ runner[e].pc = "none" /\ e <= execs
         /\ \A p \in Planner : planner'[p].pc = "planned" /\ planner'[p] = planner[p] =>
              planner[p].id.exec # e
         /\ svc'.then = "run" /\ svc'.then = svc.then /\ svc'.id = svc.id => svc.id.exec # e
<1>1. CASE svc.then = "run" /\ svc.id = runner'[e].id /\ svc'.then = "done"
  BY <1>1 DEF Starts, StartInv, KnownInv, Known
<1>2. ASSUME NEW p \in Planner, planner[p].pc = "planned", planner[p].id = runner'[e].id,
             planner'[p].pc = "idle"
      PROVE  /\ runner[e].pc = "none" /\ e <= execs
             /\ \A q \in Planner : planner'[q].pc = "planned" /\ planner'[q] = planner[q] =>
                  planner[q].id.exec # e
             /\ svc'.then = "run" /\ svc'.then = svc.then /\ svc'.id = svc.id => svc.id.exec # e
  BY <1>2 DEF Starts, StartInv, KnownInv, Known
<1> QED
  BY <1>1, <1>2 DEF Starts

LEMMA StartInvStep ==
  ASSUME BaseInv, BaseInv', StepMoves, [Next]_vars, KnownInv, StartInv
  PROVE  StartInv'
<1>1. execs \in Nat /\ execs' \in Nat /\ execs' >= execs /\ NodeTypes
  BY Grows DEF BaseInv, StepMoves
<1>2. \A p \in Planner : PlannerMoves(p)
  BY DEF StepMoves
<1>3. \A e \in Execution : e \in Nat /\ RunnerMoves(e)
  BY DEF StepMoves, Execution
<1>4. ASSUME NEW e \in Execution, e > execs'
      PROVE  runner'[e].pc = "none"
  <2>1. runner[e].pc = "none"
    BY <1>1, <1>3, <1>4 DEF StartInv
  <2>2. ~Starts(e)
    BY <1>1, <1>3, <1>4, StartsOnce
  <2> QED
    BY <1>3, <2>1, <2>2 DEF RunnerMoves
<1>5. ASSUME NEW e \in Execution, runner[e].pc = "none", ~Starts(e)
      PROVE  runner'[e].pc = "none"
  BY <1>3, <1>5 DEF RunnerMoves
<1>6. ASSUME NEW p \in Planner, planner'[p].pc = "planned"
      PROVE  \/ planner'[p] = planner[p]
             \/ \E m \in Mission : StartsRunning(m) /\ planner'[p].id = NewIdentity(m)
  BY <1>2, <1>6 DEF PlannerMoves
<1>7. ASSUME NEW m \in Mission, StartsRunning(m)
      PROVE  NewIdentity(m).exec \in Execution => runner'[NewIdentity(m).exec].pc = "none"
  <2>1. NewIdentity(m).exec = execs + 1 /\ \A e \in Execution : ~Starts(e)
    BY <1>7, DrawnAfterKnown
  <2> QED
    BY <1>1, <1>5, <2>1 DEF StartInv
<1>8. NodeTypes'
  BY DEF BaseInv
<1>9. ASSUME NEW p \in Planner, planner'[p].pc = "planned"
      PROVE  runner'[planner'[p].id.exec].pc = "none"
  <2>1. planner'[p].id.exec \in Execution
    BY <1>8, <1>9 DEF NodeTypes
  <2>2. CASE planner'[p] = planner[p]
    BY <1>5, <1>9, <2>1, <2>2, StartsOnce DEF StartInv
  <2>3. ASSUME NEW m \in Mission, StartsRunning(m), planner'[p].id = NewIdentity(m)
        PROVE  runner'[planner'[p].id.exec].pc = "none"
    BY <1>7, <2>1, <2>3
  <2> QED
    BY <1>6, <1>9, <2>2, <2>3
<1>10. ASSUME svc'.then = "run"
       PROVE  runner'[svc'.id.exec].pc = "none"
  <2>1. svc'.id.exec \in Execution
    BY <1>8, <1>10 DEF NodeTypes
  <2>2. CASE svc'.then = svc.then /\ svc'.id = svc.id
    BY <1>5, <1>10, <2>1, <2>2, StartsOnce DEF StartInv
  <2>3. ASSUME NEW m \in Mission, StartsRunning(m), svc'.id = NewIdentity(m)
        PROVE  runner'[svc'.id.exec].pc = "none"
    BY <1>7, <2>1, <2>3
  <2> QED
    BY <1>10, <2>2, <2>3 DEF StepMoves, CallbackMoves
<1>11. ASSUME NEW p \in Planner, NEW q \in Planner, p # q,
              planner'[p].pc = "planned", planner'[q].pc = "planned"
       PROVE  planner'[p].id.exec # planner'[q].id.exec
  <2>1. CASE planner'[p] = planner[p] /\ planner'[q] = planner[q]
    BY <1>11, <2>1 DEF StartInv
  <2>2. ASSUME NEW r \in Planner, NEW s \in Planner, planner'[r] # planner[r],
               planner'[r].pc = "planned", planner'[s].pc = "planned", r # s
        PROVE  planner'[r].id.exec # planner'[s].id.exec
    <3>1. planner'[s] = planner[s]
      BY <2>2, <1>1, PlannerAlone
    <3>2. PICK m \in Mission : StartsRunning(m) /\ planner'[r].id = NewIdentity(m)
      BY <1>6, <2>2
    <3>3. planner[s].id.exec \in 1 .. execs /\ NewIdentity(m).exec = execs + 1
      BY <2>2, <3>1, <3>2, DrawnAfterKnown
    <3> QED
      BY <1>1, <3>1, <3>2, <3>3
  <2> QED
    BY <1>11, <2>1, <2>2
<1>12. ASSUME NEW p \in Planner, planner'[p].pc = "planned", svc'.then = "run"
       PROVE  planner'[p].id.exec # svc'.id.exec
  <2>1. CASE planner'[p] # planner[p]
    <3>1. svc' = svc
      BY <1>1, <1>12, <2>1, PlannerAlone
    <3>2. PICK m \in Mission : StartsRunning(m) /\ planner'[p].id = NewIdentity(m)
      BY <1>6, <1>12, <2>1
    <3>3. svc.id.exec \in 1 .. execs /\ NewIdentity(m).exec = execs + 1
      BY <1>12, <3>1, <3>2, DrawnAfterKnown
    <3> QED
      BY <1>1, <3>1, <3>2, <3>3
  <2>2. CASE planner'[p] = planner[p] /\ svc'.then = svc.then /\ svc'.id = svc.id
    BY <1>12, <2>2 DEF StartInv
  <2>3. ASSUME planner'[p] = planner[p], NEW m \in Mission, StartsRunning(m),
               svc'.id = NewIdentity(m)
        PROVE  planner'[p].id.exec # svc'.id.exec
    <3>1. planner[p].id.exec \in 1 .. execs /\ NewIdentity(m).exec = execs + 1
      BY <1>12, <2>3, DrawnAfterKnown
    <3> QED
      BY <1>1, <2>3, <3>1
  <2> QED
    BY <1>12, <2>1, <2>2, <2>3 DEF StepMoves, CallbackMoves
<1> QED
  BY <1>4, <1>9, <1>10, <1>11, <1>12 DEF StartInv

\* The execution of a mission is worked for, or will be, under that mission only.
OwnerInv ==
  \A m \in Mission : missions[m].exec # 0 =>
    /\ \A e \in Execution : Live(e) /\ e = missions[m].exec => runner[e].id.m = m
    /\ \A p \in Planner :
         planner[p].pc = "planned" /\ planner[p].id.exec = missions[m].exec => planner[p].id.m = m
    /\ svc.then = "run" /\ svc.id.exec = missions[m].exec => svc.id.m = m

\* The execution id of a mission stays, is dropped, or is new.
LEMMA ExecutionMoves ==
  ASSUME TableInv, [Calls(Outcomes)]_managerVars, NEW m \in Mission, missions'[m].exec # 0
  PROVE  missions'[m].exec = missions[m].exec \/ StartsRunning(m)
<1>1. Moves(m) \/ Appears(m) \/ BecomesPaused(m)
  BY CallsMove
<1> QED
  BY <1>1 DEF Moves, Same, Kept, GetsSlot, Ends, Requeues, LosesPlan, Appears, BecomesPaused

LEMMA OwnerInvStep ==
  ASSUME BaseInv, BaseInv', StepMoves, KnownInv, StartInv, OwnerInv, [Next]_vars
  PROVE  OwnerInv'
<1>1. /\ TableInv /\ TableInv' /\ NodeTypes /\ [Calls(Outcomes)]_managerVars
      /\ execs \in Nat
  BY DEF BaseInv, StepMoves, TableInv, ManagerTypeOK
<1>2. ASSUME NEW m \in Mission, missions'[m].exec # 0
      PROVE  /\ \A e \in Execution : Live(e)' /\ e = missions'[m].exec => runner'[e].id.m = m
             /\ \A p \in Planner :
                  planner'[p].pc = "planned" /\ planner'[p].id.exec = missions'[m].exec =>
                    planner'[p].id.m = m
             /\ svc'.then = "run" /\ svc'.id.exec = missions'[m].exec => svc'.id.m = m
  <2>1. ASSUME NEW k \in Mission, StartsRunning(k), NewIdentity(k).exec = missions'[m].exec
        PROVE  NewIdentity(k).m = m
    <3>1. missions'[k].exec = missions'[m].exec
      BY <2>1 DEF NewIdentity
    <3>2. k = m
      BY <1>1, <1>2, <3>1 DEF TableInv, IdentityInv, RunningIsExecutable
    <3> QED
      BY <3>2 DEF NewIdentity
  <2>2. CASE missions'[m].exec = missions[m].exec
    <3>1. ASSUME NEW e \in Execution, Live(e)', e = missions[m].exec
          PROVE  runner'[e].id.m = m
      <4>1. RunnerMoves(e)
        BY DEF StepMoves
      <4>2. CASE Live(e) /\ runner'[e].id = runner[e].id
        BY <1>2, <2>2, <3>1, <4>2 DEF OwnerInv
      <4>3. CASE Starts(e)
        BY <1>2, <2>2, <3>1, <4>3 DEF OwnerInv, Starts
      <4> QED
        BY <3>1, <4>1, <4>2, <4>3 DEF RunnerMoves, Live
    <3>2. ASSUME NEW p \in Planner, planner'[p].pc = "planned",
                 planner'[p].id.exec = missions[m].exec
          PROVE  planner'[p].id.m = m
      <4>1. PlannerMoves(p)
        BY DEF StepMoves
      <4>2. CASE planner'[p] = planner[p]
        BY <1>2, <2>2, <3>2, <4>2 DEF OwnerInv
      <4> QED
        BY <2>1, <2>2, <3>2, <4>1, <4>2 DEF PlannerMoves
    <3>3. ASSUME svc'.then = "run", svc'.id.exec = missions[m].exec
          PROVE  svc'.id.m = m
      <4>1. CASE svc'.then = svc.then /\ svc'.id = svc.id
        BY <1>2, <2>2, <3>3, <4>1 DEF OwnerInv
      <4> QED
        BY <2>1, <2>2, <3>3, <4>1 DEF StepMoves, CallbackMoves
    <3> QED
      BY <2>2, <3>1, <3>2, <3>3
  <2>3. CASE StartsRunning(m)
    <3>1. /\ missions'[m].exec = execs + 1
          /\ \A p \in Planner : planner[p].pc = "planned" => planner[p].id.exec \in 1 .. execs
          /\ svc.then = "run" => svc.id.exec \in 1 .. execs
          /\ \A e \in Execution : ~Starts(e)
      BY <2>3, DrawnAfterKnown DEF StartsRunning
    <3>2. ASSUME NEW e \in Execution, Live(e)', e = execs + 1
          PROVE  FALSE
      <4>1. runner[e].pc = "none"
        BY <1>1, <3>2 DEF StartInv
      <4> QED
        BY <3>1, <3>2, <4>1 DEF StepMoves, RunnerMoves, Live
    <3>3. ASSUME NEW p \in Planner, planner'[p].pc = "planned", planner'[p].id.exec = execs + 1
          PROVE  planner'[p].id.m = m
      <4>1. PlannerMoves(p)
        BY DEF StepMoves
      <4>2. planner'[p] # planner[p]
        BY <1>1, <3>1, <3>3
      <4>3. PICK k \in Mission : StartsRunning(k) /\ planner'[p].id = NewIdentity(k)
        BY <3>3, <4>1, <4>2 DEF PlannerMoves
      <4> QED
        BY <2>1, <3>1, <3>3, <4>3
    <3>4. ASSUME svc'.then = "run", svc'.id.exec = execs + 1
          PROVE  svc'.id.m = m
      <4>1. ~(svc'.then = svc.then /\ svc'.id = svc.id)
        BY <1>1, <3>1, <3>4
      <4>2. PICK k \in Mission : StartsRunning(k) /\ svc'.id = NewIdentity(k)
        BY <3>4, <4>1 DEF StepMoves, CallbackMoves
      <4> QED
        BY <2>1, <3>1, <3>4, <4>2
    <3> QED
      BY <3>1, <3>2, <3>3, <3>4
  <2> QED
    BY <1>1, <1>2, <2>2, <2>3, ExecutionMoves
<1> QED
  BY <1>2 DEF OwnerInv

-----------------------------------------------------------------------------
(* The registry of cancel events *)

\* No runner registers or leaves: the live threads and the registry stay.
RegistryStill ==
  /\ UNCHANGED <<cancelEvents, cancelKey>>
  /\ \A e \in Execution : /\ Live(e)' <=> Live(e)
                          /\ runner'[e].id = runner[e].id

\* The three things a step can do to the registry.
LEMMA RegistryCases ==
  ASSUME NodeTypes, [Next]_vars
  PROVE  \/ RegistryStill
         \/ \E id \in Identity : id.exec \in Execution /\ Starts(id.exec) /\ StartRunner(id)
         \/ \E e \in Execution : RunnerLeaves(e)
<1>1. UNCHANGED runner /\ UNCHANGED <<cancelEvents, cancelKey>> => RegistryStill
  BY DEF RegistryStill, Live
<1>2. ASSUME NEW e \in Execution, NEW pc \in {"settled", "leaving"}, Live(e),
             runner' = [runner EXCEPT ![e].pc = pc], UNCHANGED <<cancelEvents, cancelKey>>
      PROVE  RegistryStill
  BY <1>2 DEF RegistryStill, NodeTypes, ThreadTypes, RunnerRecord, Live
<1>3. ASSUME NEW id \in Identity, id.exec \in Execution, StartRunner(id), UNCHANGED managerVars,
             \/ \E p \in Planner : /\ planner[p].pc = "planned" /\ planner[p].id = id
                                   /\ planner'[p].pc = "idle"
             \/ svc.then = "run" /\ svc.id = id /\ svc'.then = "done"
      PROVE  Starts(id.exec)
  <2>1. runner'[id.exec] = [pc |-> "executing", id |-> id]
    BY <1>3 DEF StartRunner, NodeTypes, ThreadTypes
  <2> QED
    BY <1>3, <2>1 DEF Starts
<1>4. CASE CallbackBegins
  BY <1>1, <1>4 DEF CallbackBegins, threadVars, OnBlockingEvent, OnReplanEvent, HandleSubmit,
                    HandleCancel, HandlePause, HandleResume, HandleReprioritize, OnSocialEvent
<1>5. CASE CallbackStartsRunner
  <2>1. /\ StartRunner(svc.id) /\ svc.then = "run" /\ UNCHANGED managerVars
        /\ svc'.then = "done"
    BY <1>5 DEF CallbackStartsRunner, IdleCallback
  <2>2. svc.id \in Identity /\ svc.id.exec \in Execution
    BY <2>1 DEF NodeTypes
  <2> QED
    BY <1>3, <2>1, <2>2
<1>6. CASE CallbackContinues /\ ~CallbackStartsRunner
  BY <1>1, <1>6 DEF CallbackContinues, SetCancelEvent, CallbackPlans, CallbackStartsNext
<1>7. ASSUME NEW p \in Planner, PlannerStep(p)
      PROVE  RegistryStill \/ \E id \in Identity : id.exec \in Execution /\ Starts(id.exec) /\ StartRunner(id)
  <2>1. CASE PlannerStartsRunner(p)
    <3>1. /\ StartRunner(planner[p].id) /\ planner[p].pc = "planned" /\ UNCHANGED managerVars
          /\ planner' = [planner EXCEPT ![p] = IdlePlanner]
      BY <2>1 DEF PlannerStartsRunner
    <3>2. planner[p].id \in Identity /\ planner[p].id.exec \in Execution
      BY <3>1 DEF NodeTypes
    <3>3. planner'[p].pc = "idle"
      BY <3>1 DEF NodeTypes, ThreadTypes, IdlePlanner
    <3> QED
      BY <1>3, <3>1, <3>2, <3>3
  <2> QED
    BY <1>1, <1>7, <2>1 DEF PlannerStep, PlanLands, PlanFails, PlanIsStale, PlannerStartsNext
<1>8. ASSUME NEW e \in Execution, RunnerStep(e), ~RunnerLeaves(e)
      PROVE  RegistryStill
  <2>1. \/ runner[e].pc = "executing" /\ runner' = [runner EXCEPT ![e].pc = "settled"]
        \/ /\ runner[e].pc \in {"executing", "settled"}
           /\ runner' = [runner EXCEPT ![e].pc = "leaving"]
    BY <1>8 DEF RunnerStep, RunnerSettles, RunnerIsStale, RunnerRaises, RunnerStartsNext
  <2>2. UNCHANGED <<cancelEvents, cancelKey>>
    BY <1>8 DEF RunnerStep, RunnerSettles, RunnerIsStale, RunnerRaises, RunnerStartsNext
  <2> QED
    BY <1>2, <2>1, <2>2 DEF Live
<1>9. ASSUME UNCHANGED vars \/ \E e \in Execution : ReportProgress(e)
      PROVE  RegistryStill
  BY <1>1, <1>9 DEF vars, threadVars, ReportProgress
<1> QED
  BY <1>4, <1>5, <1>6, <1>7, <1>8, <1>9 DEF Next

LEMMA RegistryStep ==
  ASSUME BaseInv, KnownInv, StartInv, RegistryTracksThreads, [Next]_vars
  PROVE  RegistryTracksThreads'
<1>1. NodeTypes
  BY DEF BaseInv
<1>2. cancelEvents = {e \in Execution : Live(e)}
  BY DEF RegistryTracksThreads, Live
<1>3. CASE RegistryStill
  BY <1>2, <1>3 DEF RegistryStill, RegistryTracksThreads, Live
<1>4. ASSUME NEW id \in Identity, id.exec \in Execution, Starts(id.exec), StartRunner(id)
      PROVE  RegistryTracksThreads'
  <2> DEFINE e == id.exec
  <2>1. runner[e].pc = "none"
    BY <1>4, StartsOnce
  <2>2. /\ cancelEvents' = cancelEvents \cup {e}
        /\ cancelKey' = [cancelKey EXCEPT ![id.m] = e]
        /\ runner' = [runner EXCEPT ![e] = [pc |-> "executing", id |-> id]]
    BY <1>4 DEF StartRunner
  <2>3. e \in Execution /\ id.m \in Mission
    BY <1>4 DEF Identity
  <2> HIDE DEF e
  <2>4. runner'[e].id = id /\ runner'[e].pc = "executing"
    BY <1>1, <2>2, <2>3 DEF NodeTypes, ThreadTypes
  <2>5. \A f \in Execution \ {e} : runner'[f] = runner[f]
    BY <1>1, <2>2 DEF NodeTypes, ThreadTypes
  <2>6. cancelEvents' = {f \in Execution : Live(f)'}
    BY <1>2, <2>2, <2>3, <2>4, <2>5 DEF Live
  <2>7. \A m \in Mission : cancelKey'[m] # 0 =>
          cancelKey'[m] \in cancelEvents' /\ runner'[cancelKey'[m]].id.m = m
    <3>1. cancelKey'[id.m] = e
      BY <1>1, <2>2, <2>3 DEF NodeTypes, ThreadTypes
    <3>2. ASSUME NEW m \in Mission \ {id.m}, cancelKey'[m] # 0
          PROVE  cancelKey'[m] \in cancelEvents' /\ runner'[cancelKey'[m]].id.m = m
      <4>1. cancelKey'[m] = cancelKey[m]
        BY <1>1, <2>2 DEF NodeTypes, ThreadTypes
      <4>2. cancelKey[m] \in cancelEvents /\ runner[cancelKey[m]].id.m = m
        BY <3>2, <4>1 DEF RegistryTracksThreads
      <4>3. cancelKey[m] \in Execution /\ cancelKey[m] # e
        BY <1>2, <2>1, <4>2 DEF Live
      <4> QED
        BY <2>2, <2>5, <4>1, <4>2, <4>3
    <3> QED
      BY <2>2, <2>4, <3>1, <3>2
  <2> QED
    BY <2>6, <2>7 DEF RegistryTracksThreads, Live
<1>5. ASSUME NEW e \in Execution, RunnerLeaves(e)
      PROVE  RegistryTracksThreads'
  <2> DEFINE k == runner[e].id.m
  <2>1. /\ runner[e].pc = "leaving" /\ cancelEvents' = cancelEvents \ {e}
        /\ cancelKey' = [cancelKey EXCEPT ![k] = IF cancelKey[k] = e THEN 0 ELSE cancelKey[k]]
        /\ runner' = [runner EXCEPT ![e] = [pc |-> "gone", id |-> NoIdentity]]
    BY <1>5 DEF RunnerLeaves, DropKey
  <2>2. runner'[e].pc = "gone" /\ \A f \in Execution \ {e} : runner'[f] = runner[f]
    BY <1>1, <2>1 DEF NodeTypes, ThreadTypes
  <2>3. cancelEvents' = {f \in Execution : Live(f)'}
    BY <1>2, <2>1, <2>2 DEF Live
  <2>4. ASSUME NEW m \in Mission, cancelKey'[m] # 0
        PROVE  cancelKey'[m] \in cancelEvents' /\ runner'[cancelKey'[m]].id.m = m
    <3>1. cancelKey'[m] = cancelKey[m] /\ cancelKey[m] # e
      <4>1. CASE m = k
        BY <1>1, <2>1, <2>4, <4>1 DEF NodeTypes, ThreadTypes
      <4>2. CASE m # k
        BY <1>1, <2>1, <2>4, <4>2 DEF NodeTypes, ThreadTypes, RegistryTracksThreads
      <4> QED
        BY <4>1, <4>2
    <3>2. cancelKey[m] \in cancelEvents /\ runner[cancelKey[m]].id.m = m
      BY <2>4, <3>1 DEF RegistryTracksThreads
    <3>3. cancelKey[m] \in Execution
      BY <1>2, <3>2
    <3> QED
      BY <2>1, <2>2, <3>1, <3>2, <3>3
  <2> QED
    BY <2>3, <2>4 DEF RegistryTracksThreads, Live
<1> QED
  BY <1>1, <1>3, <1>4, <1>5, RegistryCases

-----------------------------------------------------------------------------
(* Cancel events: a callback never cancels a current execution *)

\* The executions whose event is set, or is about to be.
Signals == signaled \cup ({svc.signal} \ {0})

\* They were all drawn before.
SignalInv ==
  /\ \A e \in Signals : e <= execs
  /\ CancelHitsOnlySuperseded

\* A mission that a step takes the execution away from.
GivesUp(k) == EventOf(k) # 0 /\ missions'[k].state # "RUNNING"

\* What the end of a mission, a pause and a preemption leave of its state.
LEMMA StopsRunning ==
  ASSUME ManagerTypeOK, NEW m \in Mission
  PROVE  /\ \A state \in Outcomes : MarkTerminal(m, state) => missions'[m].state # "RUNNING"
         /\ Cancel(m) => missions'[m].state # "RUNNING"
         /\ \A reason \in Reason : Pause(m, reason) => missions'[m].state # "RUNNING"
<1>1. ASSUME NEW state \in Ended, End(m, state)
      PROVE  missions'[m].state # "RUNNING"
  BY <1>1, EndRecords DEF Ended
<1>2. ASSUME NEW reason \in Reason, Pause(m, reason)
      PROVE  missions'[m].state # "RUNNING"
  <2>1. CASE missions[m].state = "PAUSED"
    BY <1>2, <2>1 DEF Pause, managerVars
  <2>2. CASE Open(m) /\ End(m, "BLOCKED")
    BY <1>1, <2>2 DEF Ended
  <2>3. CASE EnterPause(m, reason)
    BY <2>3, EnterPauseRecords
  <2> QED
    BY <1>2, <2>1, <2>2, <2>3 DEF Pause, MarkTerminal
<1> QED
  BY <1>1, <1>2 DEF MarkTerminal, Cancel, Outcomes, Ended

\* Whoever takes an event under the lock takes the mission out of RUNNING in the
\* same step; the later steps only hand the event on.
LEMMA SignalMoves ==
  ASSUME TableInv, NodeTypes, [Next]_vars, NEW e \in Signals'
  PROVE  e \in Signals \/ \E k \in Mission : GivesUp(k) /\ e = EventOf(k)
<1> USE DEF TableInv
<1>1. ASSUME signaled' \subseteq signaled \cup ({svc.signal} \ {0}),
             svc'.signal \in {0, svc.signal}
      PROVE  e \in Signals
  BY <1>1 DEF Signals
<1>2. ASSUME UNCHANGED threadVars, NEW k \in Mission, NEW then, NEW id,
             missions'[k].state # "RUNNING", CallbackWith(EventOf(k), then, id)
      PROVE  e \in Signals \/ \E n \in Mission : GivesUp(n) /\ e = EventOf(n)
  BY <1>2 DEF threadVars, CallbackWith, Signals, GivesUp
<1>3. ASSUME UNCHANGED threadVars, svc'.signal = 0
      PROVE  e \in Signals
  BY <1>3 DEF threadVars, Signals
<1>4. \A then, id : CallbackWith(0, then, id) => svc'.signal = 0
  BY DEF CallbackWith
<1>5. IdleCallback.signal = 0
  BY DEF IdleCallback
<1>6. CASE OnBlockingEvent \/ OnReplanEvent
  <2>1. active \in Mission
    BY <1>6 DEF OnBlockingEvent, OnReplanEvent, ManagerTypeOK
  <2>2. missions'[active].state # "RUNNING"
    BY <1>6, <2>1, StopsRunning, RequestReplanRecords
       DEF OnBlockingEvent, OnReplanEvent, Outcomes
  <2> QED
    BY <1>2, <1>6, <2>1, <2>2 DEF OnBlockingEvent, OnReplanEvent
<1>7. ASSUME NEW m \in Mission, HandleCancel(m)
      PROVE  e \in Signals \/ \E k \in Mission : GivesUp(k) /\ e = EventOf(k)
  BY <1>2, <1>7, StopsRunning DEF HandleCancel
<1>8. ASSUME NEW m \in Mission, NEW reason \in Reason, HandlePause(m, reason)
      PROVE  e \in Signals \/ \E k \in Mission : GivesUp(k) /\ e = EventOf(k)
  BY <1>2, <1>8, StopsRunning DEF HandlePause
<1>9. ASSUME NEW m \in Mission, NEW prio \in PriorityArg, NEW preempt \in BOOLEAN,
             NEW reason \in Reason, HandleReprioritize(m, prio, preempt, reason)
      PROVE  e \in Signals \/ \E k \in Mission : GivesUp(k) /\ e = EventOf(k)
  <2>1. UNCHANGED threadVars /\ Reprioritize(m, prio, preempt, reason)
    BY <1>9 DEF HandleReprioritize
  <2>2. CASE Preempts(m, prio, preempt)
    <3>1. active \in Mission /\ missions'[active].state # "RUNNING"
      BY <2>1, <2>2, ReprioritizeRecords
    <3>2. \/ CallbackWith(EventOf(active), "plan", NewIdentity(m))
          \/ CallbackWith(EventOf(active), "done", NoIdentity)
      BY <1>9, <2>2 DEF HandleReprioritize
    <3> QED
      BY <1>2, <2>1, <3>1, <3>2
  <2>3. CASE ~Preempts(m, prio, preempt)
    <3>1. \/ CallbackWith(0, "plan", NewIdentity(m))
          \/ CallbackWith(0, "done", NoIdentity)
      BY <1>9, <2>3 DEF HandleReprioritize
    <3> QED
      BY <1>3, <1>4, <2>1, <3>1
  <2> QED
    BY <2>2, <2>3
<1>10. ASSUME NEW m \in Mission, HandleResume(m)
       PROVE  e \in Signals
  BY <1>3, <1>4, <1>5, <1>10 DEF HandleResume, ResumedState
<1>11. ASSUME NEW m \in Mission, NEW prio \in PriorityArg, NEW allowQueue \in BOOLEAN,
              HandleSubmit(m, prio, allowQueue) \/ OnSocialEvent(m)
       PROVE  e \in Signals
  BY <1>3, <1>4, <1>5, <1>11 DEF HandleSubmit, OnSocialEvent
<1>12. CASE CallbackBegins
  BY <1>6, <1>7, <1>8, <1>9, <1>10, <1>11, <1>12, NodeAssumption DEF CallbackBegins
<1>13. CASE CallbackContinues
  BY <1>1, <1>5, <1>13
     DEF CallbackContinues, SetCancelEvent, CallbackStartsRunner, StartRunner, CallbackPlans,
         CallbackStartsNext, NodeTypes, ThreadTypes, CallbackRecord
<1>14. ASSUME NEW p \in Planner, PlannerStep(p)
       PROVE  e \in Signals
  BY <1>1, <1>14 DEF PlannerStep, PlanLands, PlanFails, PlanIsStale, PlannerStartsRunner,
                     PlannerStartsNext, StartRunner
<1>15. ASSUME NEW f \in Execution, RunnerStep(f)
       PROVE  e \in Signals
  BY <1>1, <1>15 DEF RunnerStep, RunnerSettles, RunnerIsStale, RunnerRaises, RunnerStartsNext,
                     RunnerLeaves
<1>16. ASSUME UNCHANGED vars \/ \E f \in Execution : ReportProgress(f)
       PROVE  e \in Signals
  BY <1>1, <1>16 DEF vars, threadVars, ReportProgress
<1> QED
  BY <1>12, <1>13, <1>14, <1>15, <1>16 DEF Next

\* A mission that runs after a step was drawn a new execution by it, or ran before.
LEMMA RunningMoves ==
  ASSUME TableInv, [Calls(Outcomes)]_managerVars, NEW m \in Mission,
         missions'[m].state = "RUNNING"
  PROVE  \/ StartsRunning(m)
         \/ missions[m].state = "RUNNING" /\ Kept(m)
<1>1. Moves(m) \/ Appears(m) \/ BecomesPaused(m)
  BY CallsMove
<1> QED
  BY <1>1 DEF Moves, Same, GetsSlot, Ends, Ended, Requeues, LosesPlan, Appears, BecomesPaused

LEMMA SignalInvStep ==
  ASSUME BaseInv, BaseInv', StepMoves, KnownInv, StartInv, OwnerInv, RegistryTracksThreads,
         SignalInv, [Next]_vars
  PROVE  SignalInv'
<1>1. /\ TableInv /\ NodeTypes /\ [Calls(Outcomes)]_managerVars
      /\ execs \in Nat /\ execs' \in Nat /\ execs' >= execs
  BY Grows DEF BaseInv, StepMoves
<1>2. ASSUME NEW k \in Mission, EventOf(k) # 0
      PROVE  /\ EventOf(k) \in Execution /\ Live(EventOf(k)) /\ EventOf(k) <= execs
             /\ runner[EventOf(k)].id.m = k
  <2>1. EventOf(k) = cancelKey[k] /\ cancelKey[k] # 0
    BY <1>2 DEF EventOf
  <2>2. cancelKey[k] \in cancelEvents /\ runner[cancelKey[k]].id.m = k
    BY <2>1 DEF RegistryTracksThreads
  <2>3. cancelKey[k] \in Execution /\ Live(cancelKey[k])
    BY <2>2 DEF RegistryTracksThreads, Live
  <2>4. cancelKey[k] <= execs
    BY <1>1, <2>3 DEF StartInv, Live, Execution
  <2> QED
    BY <2>1, <2>2, <2>3, <2>4
<1>3. \A e \in Signals : e \in Nat /\ e <= execs
  BY <1>1 DEF SignalInv, Signals, NodeTypes, ThreadTypes, CallbackRecord, Execution
<1>4. ASSUME NEW e \in Signals'
      PROVE  e \in Nat /\ e <= execs
  BY <1>1, <1>2, <1>3, SignalMoves DEF GivesUp, Execution
<1>5. ASSUME NEW e \in Signals', NEW m \in Mission, missions'[m].state = "RUNNING"
      PROVE  missions'[m].exec # e
  <2>1. CASE StartsRunning(m)
    BY <1>1, <1>4, <2>1 DEF StartsRunning
  <2>2. CASE missions[m].state = "RUNNING" /\ Kept(m) /\ e \in Signals
    BY <2>2 DEF SignalInv, CancelHitsOnlySuperseded, Signals, Kept
  <2>3. ASSUME missions[m].state = "RUNNING", Kept(m), NEW k \in Mission, GivesUp(k),
               e = EventOf(k)
        PROVE  missions'[m].exec # e
    <3>1. k # m
      BY <1>5, <2>3 DEF GivesUp
    <3>2. /\ e \in Execution /\ Live(e) /\ runner[e].id.m = k
      BY <1>2, <2>3 DEF GivesUp
    <3>3. missions[m].exec # 0
      BY <1>1, <2>3 DEF TableInv, IdentityInv, RunningIsExecutable
    <3>4. missions[m].exec # e
      BY <3>1, <3>2, <3>3 DEF OwnerInv
    <3> QED
      BY <2>3, <3>4 DEF Kept
  <2> QED
    BY <1>1, <1>5, <2>1, <2>2, <2>3, RunningMoves, SignalMoves
<1>6. \A e \in Signals' : e <= execs'
  BY <1>1, <1>4
<1>7. CancelHitsOnlySuperseded'
  BY <1>5 DEF CancelHitsOnlySuperseded, Signals
<1> QED
  BY <1>6, <1>7 DEF SignalInv

-----------------------------------------------------------------------------
(* The second layer of the invariant *)

ExecInv ==
  /\ BaseInv
  /\ KnownInv
  /\ StartInv
  /\ OwnerInv
  /\ RegistryTracksThreads
  /\ SignalInv

LEMMA ExecInit == Init => ExecInv
<1> SUFFICES ASSUME Init PROVE ExecInv
  OBVIOUS
<1>1. BaseInv
  BY BaseInit
<1>2. /\ \A p \in Planner : planner[p].pc = "idle"
      /\ \A e \in Execution : runner[e].pc = "none" /\ ~Live(e)
      /\ svc.then = "done" /\ svc.signal = 0 /\ signaled = {}
      /\ \A m \in Mission : missions[m].exec = 0 /\ missions[m].state # "RUNNING"
  BY DEF Init, ManagerInit, Absent, IdlePlanner, IdleCallback, Live
<1>3. KnownInv /\ StartInv /\ OwnerInv
  BY <1>2 DEF KnownInv, StartInv, OwnerInv
<1>4. RegistryTracksThreads
  BY <1>2 DEF Init, RegistryTracksThreads
<1>5. SignalInv
  BY <1>2 DEF SignalInv, Signals, CancelHitsOnlySuperseded
<1> QED
  BY <1>1, <1>3, <1>4, <1>5 DEF ExecInv

LEMMA ExecStep == ExecInv /\ [Next]_vars => ExecInv' /\ StepMoves
<1> SUFFICES ASSUME ExecInv, [Next]_vars
             PROVE  ExecInv' /\ StepMoves
  OBVIOUS
<1>1. BaseInv' /\ StepMoves
  BY BaseStep DEF ExecInv
<1> QED
  BY <1>1, KnownInvStep, StartInvStep, OwnerInvStep, RegistryStep, SignalInvStep DEF ExecInv

LEMMA ExecHolds == Spec => []ExecInv
  BY ExecInit, ExecStep, PTL DEF Spec

\* A cancel event is in the registry exactly as long as its thread can look at it,
\* and the key of a mission is that of a runner of this mission: _start_runner and
\* the finally block of _run_mission keep them together, in every interleaving.
THEOREM RegistryCorrect == Spec => []RegistryTracksThreads
<1>1. ExecInv => RegistryTracksThreads
  BY DEF ExecInv
<1> QED
  BY <1>1, ExecHolds, PTL

\* An event taken under the lock and set after it never hits the execution the
\* table holds by then.
THEOREM CancelCorrect == Spec => []CancelHitsOnlySuperseded
<1>1. ExecInv => CancelHitsOnlySuperseded
  BY DEF ExecInv, SignalInv
<1> QED
  BY <1>1, ExecHolds, PTL

-----------------------------------------------------------------------------
(* While nobody calls PauseMission: results, plans and the slot *)

\* An identity with the version of the table is that of a run the table has drawn.
Drawn(id) == id.pv = missions[id.m].pv => missions[id.m].exec # 0

DrawnAfter(id) == id.pv = missions'[id.m].pv => missions'[id.m].exec # 0

\* Runners have such identities, and so have those who are about to start one.
DrawnInv ==
  /\ \A p \in Planner : planner[p].pc = "planned" => Drawn(planner[p].id)
  /\ \A e \in Execution : Live(e) => Drawn(runner[e].id)
  /\ svc.then = "run" => Drawn(svc.id)

\* A mission that has stopped running keeps its execution only if the runner of
\* that stopped it.
PastInv ==
  \A m \in Mission :
    missions[m].exec # 0 /\ Waits(m) =>
      runner[missions[m].exec].pc \in {"settled", "leaving", "gone"}

\* A plan that the table would still take is for a mission that waits for one.
Fits(id) == Open(id.m) /\ IdentityOf(id.m) = id => Waiting(id.m)

FitsInv ==
  /\ \A p \in Planner : planner[p].pc = "planning" => Fits(planner[p].id)
  /\ svc.then = "plan" => Fits(svc.id)

FitsAfter(id) ==
  /\ missions'[id.m].state \notin Ended \cup {"UNKNOWN"}
  /\ NewIdentity(id.m) = id
  => /\ missions'[id.m].state = "PLANNING"
     /\ ~missions'[id.m].bt

LEMMA DrawnStays ==
  ASSUME TableInv, [Calls(Outcomes)]_managerVars, NEW id \in Identity, Known(id), Drawn(id)
  PROVE  DrawnAfter(id)
<1>1. id.m \in Mission /\ id.pv \in Nat /\ Stored(id.m) /\ id.pv <= missions[id.m].pv
  BY DEF Identity, Known
<1>2. Moves(id.m) \/ BecomesPaused(id.m)
  BY <1>1, CallsMove DEF Appears, Stored
<1>3. missions[id.m].pv \in Nat /\ execs \in Nat
  BY <1>1, Grows
<1>4. CASE LosesPlan(id.m)
  BY <1>1, <1>3, <1>4 DEF LosesPlan, DrawnAfter
<1>5. CASE StartsRunning(id.m)
  BY <1>3, <1>5 DEF StartsRunning, DrawnAfter
<1>6. CASE /\ missions'[id.m].pv = missions[id.m].pv
           /\ missions'[id.m].exec = missions[id.m].exec
  BY <1>6 DEF Drawn, DrawnAfter
<1> QED
  BY <1>2, <1>4, <1>5, <1>6 DEF Moves, Same, Kept, GetsSlot, Ends, Requeues, BecomesPaused

LEMMA DrawnInvStep ==
  ASSUME BaseInv, StepMoves, KnownInv, DrawnInv
  PROVE  DrawnInv'
<1>1. TableInv /\ NodeTypes /\ [Calls(Outcomes)]_managerVars /\ execs \in Nat
  BY DEF BaseInv, StepMoves, TableInv, ManagerTypeOK
<1>2. \A id \in Identity : Known(id) /\ Drawn(id) => DrawnAfter(id)
  BY <1>1, DrawnStays
<1>3. ASSUME NEW m \in Mission, NEW id, id = NewIdentity(m), StartsRunning(m)
      PROVE  DrawnAfter(id)
  BY <1>1, <1>3 DEF NewIdentity, StartsRunning, DrawnAfter
<1>4. ASSUME NEW p \in Planner, planner'[p].pc = "planned"
      PROVE  DrawnAfter(planner'[p].id)
  <2>1. CASE planner'[p] = planner[p]
    BY <1>1, <1>2, <1>4, <2>1 DEF KnownInv, DrawnInv, NodeTypes
  <2> QED
    BY <1>3, <1>4, <2>1 DEF StepMoves, PlannerMoves
<1>5. ASSUME NEW e \in Execution, Live(e)'
      PROVE  DrawnAfter(runner'[e].id)
  <2>1. RunnerMoves(e)
    BY DEF StepMoves
  <2>2. CASE Live(e) /\ runner'[e].id = runner[e].id
    BY <1>1, <1>2, <2>2 DEF KnownInv, DrawnInv, NodeTypes
  <2>3. ASSUME NEW p \in Planner, planner[p].pc = "planned", planner[p].id = runner'[e].id
        PROVE  DrawnAfter(runner'[e].id)
    BY <1>1, <1>2, <2>3 DEF KnownInv, DrawnInv, NodeTypes
  <2>4. CASE svc.then = "run" /\ svc.id = runner'[e].id
    BY <1>1, <1>2, <2>4 DEF KnownInv, DrawnInv, NodeTypes
  <2> QED
    BY <1>5, <2>1, <2>2, <2>3, <2>4 DEF RunnerMoves, Starts, Live
<1>6. ASSUME svc'.then = "run"
      PROVE  DrawnAfter(svc'.id)
  <2>1. CASE svc'.then = svc.then /\ svc'.id = svc.id
    BY <1>1, <1>2, <1>6, <2>1 DEF KnownInv, DrawnInv, NodeTypes
  <2> QED
    BY <1>3, <1>6, <2>1 DEF StepMoves, CallbackMoves
<1> QED
  BY <1>4, <1>5, <1>6 DEF DrawnInv, Drawn, DrawnAfter

\* The result a runner settles with is that of the execution the table holds for
\* its mission, called for a pause or not.
LEMMA SettlesOwn ==
  ASSUME ExecInv, DrawnInv, NEW e \in Execution, RunnerSettles(e)
  PROVE  /\ runner[e].id.m \in Mission
         /\ Open(runner[e].id.m) /\ missions[runner[e].id.m].state # "PAUSED"
         /\ missions[runner[e].id.m].exec = e
<1> DEFINE id == runner[e].id
           m == id.m
<1>1. /\ NodeTypes /\ ManagerTypeOK
      /\ runner[e].pc = "executing" /\ AcceptsAsyncResult(id) /\ Live(e)
  BY DEF ExecInv, BaseInv, TableInv, RunnerSettles, Live
<1>2. m \in Mission /\ id.exec = e /\ e # 0
  BY <1>1 DEF NodeTypes, Identity, Execution
<1>3. Drawn(id)
  BY <1>1 DEF DrawnInv
<1>4. missions[m].exec = e
  BY <1>1, <1>2, <1>3 DEF AcceptsAsyncResult, Drawn
<1> QED
  BY <1>1, <1>2, <1>4 DEF AcceptsAsyncResult

\* Without pauses from outside, the mission is still in that run.
LEMMA SettlesCurrent ==
  ASSUME ExecInv, DrawnInv, PastInv, NEW e \in Execution, RunnerSettles(e)
  PROVE  /\ runner[e].id.m \in Mission
         /\ missions[runner[e].id.m].state = "RUNNING"
         /\ missions[runner[e].id.m].exec = e
<1> DEFINE m == runner[e].id.m
<1>1. /\ m \in Mission /\ Open(m) /\ missions[m].state # "PAUSED"
      /\ missions[m].exec = e
  BY SettlesOwn
<1> HIDE DEF m
<1>2. ManagerTypeOK /\ runner[e].pc = "executing" /\ e # 0
  <2>1. ManagerTypeOK
    BY DEF ExecInv, BaseInv, TableInv
  <2>2. runner[e].pc = "executing"
    BY DEF RunnerSettles
  <2> QED
    BY <2>1, <2>2 DEF Execution
<1>3. missions[m].exec # 0 /\ runner[missions[m].exec].pc = "executing"
  BY <1>1, <1>2
<1>4. ~Waits(m)
  BY <1>1, <1>3 DEF PastInv
<1>5. missions[m].state = "RUNNING"
  BY <1>1, <1>2, <1>4 DEF Open, Stored, Waits, ManagerTypeOK, MissionRecord, State, Ended
<1> QED
  BY <1>1, <1>5 DEF m

\* The calls of the node but submissions, plans that land and pauses: a replan is
\* for the holder of the slot.
HolderCalls ==
  \/ active \in Mission /\ RequestReplan(active)
  \/ \E m \in Mission :
       \/ Resume(m)
       \/ \E prio \in PriorityArg, preempt \in BOOLEAN, reason \in Reason :
            Reprioritize(m, prio, preempt, reason)
       \/ Cancel(m)
       \/ \E state \in Outcomes : MarkTerminal(m, state)
       \/ UpdateStatus(m)

\* The calls a step makes when nobody pauses: a pause can only be the result of a run.
LEMMA CallsWithoutPause ==
  ASSUME "pause" \notin Service, TableInv, NodeTypes, [Next]_vars
  PROVE  \/ UNCHANGED managerVars
         \/ HolderCalls
         \/ \E p \in Planner : PlanLands(p)
         \/ \E m \in Mission, prio \in PriorityArg, allowQueue \in BOOLEAN :
              Submit(m, prio, allowQueue)
         \/ \E e \in Execution, reason \in Reason :
              RunnerSettles(e) /\ runner[e].id.m \in Mission /\ Pause(runner[e].id.m, reason)
<1> DEFINE Submits == \E m \in Mission, prio \in PriorityArg, allowQueue \in BOOLEAN :
                        Submit(m, prio, allowQueue)
<1>1. CASE CallbackBegins
  <2>1. ASSUME OnBlockingEvent \/ OnReplanEvent
        PROVE  HolderCalls
    BY <2>1 DEF OnBlockingEvent, OnReplanEvent, HolderCalls, Outcomes, TableInv, ManagerTypeOK
  <2>2. ASSUME NEW m \in Mission, HandleCancel(m) \/ HandleResume(m)
        PROVE  HolderCalls
    BY <2>2 DEF HandleCancel, HandleResume, HolderCalls
  <2>3. ASSUME NEW m \in Mission, NEW prio \in PriorityArg, NEW preempt \in BOOLEAN,
               NEW reason \in Reason, HandleReprioritize(m, prio, preempt, reason)
        PROVE  HolderCalls
    BY <2>3 DEF HandleReprioritize, HolderCalls
  <2>4. ASSUME NEW m \in Mission, NEW prio \in PriorityArg, NEW allowQueue \in BOOLEAN,
               HandleSubmit(m, prio, allowQueue)
        PROVE  Submits
    BY <2>4 DEF HandleSubmit
  <2>5. ASSUME NEW m \in Mission, OnSocialEvent(m)
        PROVE  Submits
    BY <2>5, NodeAssumption DEF OnSocialEvent
  <2>6. \A m \in Mission, reason \in Reason : ~HandlePause(m, reason)
    BY DEF HandlePause
  <2> HIDE DEF Submits
  <2>7. HolderCalls \/ Submits
    BY <1>1, <2>1, <2>2, <2>3, <2>4, <2>5, <2>6 DEF CallbackBegins
  <2> QED
    BY <2>7 DEF Submits
<1>2. CASE UNCHANGED vars \/ CallbackContinues
  BY <1>2 DEF vars, CallbackContinues, SetCancelEvent, CallbackStartsRunner, CallbackPlans,
              CallbackStartsNext
<1>3. ASSUME NEW p \in Planner, PlannerStep(p)
      PROVE  UNCHANGED managerVars \/ HolderCalls \/ PlanLands(p)
  <2>1. CASE PlanFails(p)
    BY <2>1 DEF PlanFails, CanUpdate, HolderCalls, Outcomes
  <2> QED
    BY <1>3, <2>1 DEF PlannerStep, PlanIsStale, PlannerStartsRunner, PlannerStartsNext
<1>4. ASSUME NEW e \in Execution, ReportProgress(e)
      PROVE  HolderCalls
  BY <1>4 DEF ReportProgress, CanUpdate, HolderCalls
<1>5. ASSUME NEW e \in Execution, RunnerSettles(e)
      PROVE  \/ HolderCalls
             \/ \E reason \in Reason :
                  runner[e].id.m \in Mission /\ Pause(runner[e].id.m, reason)
  <2>1. runner[e].id.m \in Mission
    BY <1>5 DEF RunnerSettles, NodeTypes, Live, Identity
  <2>2. CASE \E state \in Outcome : MarkTerminal(runner[e].id.m, state)
    BY <2>1, <2>2, ArgumentAssumption DEF HolderCalls
  <2> QED
    BY <1>5, <2>1, <2>2 DEF RunnerSettles
<1>6. ASSUME NEW e \in Execution, RunnerStep(e), ~RunnerSettles(e)
      PROVE  UNCHANGED managerVars
  BY <1>6 DEF RunnerStep, RunnerIsStale, RunnerRaises, RunnerStartsNext, RunnerLeaves
<1> HIDE DEF Submits
<1>7. \/ UNCHANGED managerVars
      \/ HolderCalls
      \/ \E p \in Planner : PlanLands(p)
      \/ Submits
      \/ \E e \in Execution, reason \in Reason :
           RunnerSettles(e) /\ runner[e].id.m \in Mission /\ Pause(runner[e].id.m, reason)
  <2>1. CASE CallbackBegins \/ CallbackContinues \/ UNCHANGED vars
    BY <1>1, <1>2, <2>1 DEF Submits
  <2> QED
    BY <1>3, <1>4, <1>5, <1>6, <2>1 DEF Next
<1> QED
  BY <1>7 DEF Submits

\* So a mission is paused only out of the run whose result it is.
LEMMA PausedByResult ==
  ASSUME "pause" \notin Service, ExecInv, DrawnInv, PastInv, [Next]_vars,
         NEW m \in Mission, BecomesPaused(m)
  PROVE  missions[m].state = "RUNNING" /\ runner'[missions[m].exec].pc = "settled"
<1>1. TableInv /\ NodeTypes
  BY DEF ExecInv, BaseInv
<1>2. ~Moves(m)
  BY DEF Moves, Same, GetsSlot, Ends, Ended, Requeues, LosesPlan, StartsRunning, BecomesPaused
<1>3. missions'[m] # missions[m] /\ Stored(m)
  BY DEF BecomesPaused, Open
<1>4. ~(\E n \in Mission, prio \in PriorityArg, allowQueue \in BOOLEAN :
          Submit(n, prio, allowQueue))
  BY <1>1, <1>3, SubmitMoves DEF TableInv, Appears, Stored
<1>5. ~HolderCalls /\ ~(\E p \in Planner : PlanLands(p))
  <2>1. ~OtherCalls(Outcomes)
    BY <1>1, <1>2, OtherCallsMove
  <2> QED
    BY <2>1 DEF HolderCalls, PlanLands, CanUpdate, OtherCalls
<1>6. PICK e \in Execution, reason \in Reason :
        RunnerSettles(e) /\ runner[e].id.m \in Mission /\ Pause(runner[e].id.m, reason)
  BY <1>1, <1>3, <1>4, <1>5, CallsWithoutPause DEF managerVars
<1>7. runner[e].id.m = m
  BY <1>1, <1>2, <1>6, PauseMoves DEF TableInv
<1>8. missions[m].state = "RUNNING" /\ missions[m].exec = e
  BY <1>6, <1>7, SettlesCurrent
<1>9. runner' = [runner EXCEPT ![e].pc = "settled"]
  BY <1>6 DEF RunnerSettles
<1>10. runner'[e].pc = "settled"
  BY <1>1, <1>9 DEF NodeTypes, ThreadTypes, RunnerRecord
<1> QED
  BY <1>8, <1>10

LEMMA PastInvStep ==
  ASSUME "pause" \notin Service, ExecInv, StepMoves, DrawnInv, PastInv, [Next]_vars
  PROVE  PastInv'
<1>1. /\ TableInv /\ BaseInv /\ KnownInv /\ StartInv
      /\ execs \in 0 .. MaxExecution /\ MaxExecution \in Nat
      /\ [Calls(Outcomes)]_managerVars
  BY BoundAssumption DEF ExecInv, BaseInv, TableInv, ManagerTypeOK, StepMoves
<1> SUFFICES ASSUME NEW m \in Mission, missions'[m].exec # 0, Waits(m)'
             PROVE  runner'[missions'[m].exec].pc \in {"settled", "leaving", "gone"}
  BY DEF PastInv
<1>2. Moves(m) \/ Appears(m) \/ BecomesPaused(m)
  BY <1>1, CallsMove
<1>3. CASE BecomesPaused(m)
  BY <1>3, PausedByResult DEF BecomesPaused, Kept
<1>4. CASE missions'[m].exec = missions[m].exec /\ Waits(m)
  <2> DEFINE e == missions[m].exec
  <2>1. runner[e].pc \in {"settled", "leaving", "gone"}
    BY <1>4 DEF PastInv
  <2>2. e \in Execution
    BY <1>1, <1>4 DEF TableInv, IdentityInv, RunningIsExecutable, ManagerTypeOK, MissionRecord,
                      Execution
  <2>3. RunnerMoves(e)
    BY <2>2 DEF StepMoves
  <2>4. ~Starts(e)
    BY <1>1, <2>1, <2>2, StartsOnce
  <2> HIDE DEF e
  <2>5. runner'[e].pc \in {"settled", "leaving", "gone"}
    BY <2>1, <2>3, <2>4 DEF RunnerMoves
  <2> QED
    BY <1>4, <2>5 DEF e
<1>5. Moves(m) => missions'[m].exec = missions[m].exec /\ Waits(m)
  BY DEF Moves, Same, Kept, GetsSlot, Ends, Ended, Requeues, LosesPlan, StartsRunning, Waits
<1>6. ~Appears(m)
  BY DEF Appears
<1> QED
  BY <1>2, <1>3, <1>4, <1>5, <1>6

\* A plan that fits keeps fitting or is given up: nothing else changes under the
\* same identity.
LEMMA FitsStays ==
  ASSUME "pause" \notin Service, ExecInv, StepMoves, DrawnInv, PastInv, [Next]_vars,
         NEW id \in Identity, Known(id), Fits(id)
  PROVE  FitsAfter(id)
<1>1. TableInv /\ [Calls(Outcomes)]_managerVars
  BY DEF ExecInv, BaseInv, StepMoves
<1>2. /\ id.m \in Mission /\ id.pv \in Nat /\ id.exec \in Nat
      /\ Stored(id.m) /\ id.pv <= missions[id.m].pv /\ id.exec <= execs
      /\ missions[id.m].pv \in Nat /\ execs \in Nat
  BY <1>1, Grows DEF Identity, Known
<1> SUFFICES ASSUME missions'[id.m].state \notin Ended \cup {"UNKNOWN"}, NewIdentity(id.m) = id
             PROVE  missions'[id.m].state = "PLANNING" /\ ~missions'[id.m].bt
  BY DEF FitsAfter
<1>3. missions'[id.m].pv = id.pv /\ missions'[id.m].exec = id.exec
  <2>1. /\ NewIdentity(id.m).pv = missions'[id.m].pv
        /\ NewIdentity(id.m).exec = missions'[id.m].exec
    BY DEF NewIdentity
  <2> QED
    BY <2>1
<1>4. Moves(id.m) \/ BecomesPaused(id.m)
  BY <1>1, <1>2, CallsMove DEF Appears, Stored
<1>5. ~LosesPlan(id.m) /\ ~StartsRunning(id.m) /\ ~Ends(id.m)
  BY <1>2, <1>3 DEF LosesPlan, StartsRunning, Ends
<1>6. missions'[id.m].pv = missions[id.m].pv /\ missions'[id.m].exec = missions[id.m].exec
  BY <1>4, <1>5 DEF Moves, Same, Kept, GetsSlot, Requeues, BecomesPaused
<1>7. IdentityOf(id.m) = id
  BY <1>6 DEF IdentityOf, NewIdentity
<1>8. Open(id.m)
  BY <1>2, <1>4, <1>5
     DEF Moves, Same, GetsSlot, Requeues, BecomesPaused, Open, Stored, Ended
<1>9. missions[id.m].state = "PLANNING" /\ ~missions[id.m].bt
  BY <1>7, <1>8 DEF Fits, Waiting
<1>10. ~BecomesPaused(id.m)
  BY <1>2, <1>9, PausedByResult
<1>11. Same(id.m)
  BY <1>4, <1>5, <1>9, <1>10 DEF Moves, GetsSlot, Requeues
<1> QED
  BY <1>9, <1>11 DEF Same, Kept

LEMMA FitsInvStep ==
  ASSUME "pause" \notin Service, ExecInv, StepMoves, DrawnInv, PastInv, FitsInv, [Next]_vars
  PROVE  FitsInv'
<1>1. NodeTypes /\ KnownInv
  BY DEF ExecInv, BaseInv
<1>2. \A id \in Identity : Known(id) /\ Fits(id) => FitsAfter(id)
  BY FitsStays
<1>3. ASSUME NEW m \in Mission, NEW id, id = NewIdentity(m), Waiting(m)'
      PROVE  FitsAfter(id)
  BY <1>3 DEF NewIdentity, Waiting, FitsAfter
<1>4. ASSUME NEW m \in Mission, NEW id, id = IdentityOf(m), Waiting(m), UNCHANGED managerVars
      PROVE  FitsAfter(id)
  BY <1>4 DEF managerVars, IdentityOf, Waiting, FitsAfter
<1>5. ASSUME NEW p \in Planner, planner'[p].pc = "planning"
      PROVE  FitsAfter(planner'[p].id)
  <2>1. PlannerMoves(p)
    BY DEF StepMoves
  <2>2. CASE planner'[p] = planner[p]
    BY <1>1, <1>2, <1>5, <2>2 DEF FitsInv, KnownInv, NodeTypes
  <2>3. CASE svc.then = "plan" /\ planner'[p].id = svc.id
    BY <1>1, <1>2, <2>3 DEF FitsInv, KnownInv, NodeTypes
  <2> QED
    BY <1>4, <1>5, <2>1, <2>2, <2>3 DEF PlannerMoves
<1>6. ASSUME svc'.then = "plan"
      PROVE  FitsAfter(svc'.id)
  <2>1. CASE svc'.then = svc.then /\ svc'.id = svc.id
    BY <1>1, <1>2, <1>6, <2>1 DEF FitsInv, KnownInv, NodeTypes
  <2> QED
    BY <1>3, <1>6, <2>1 DEF StepMoves, CallbackMoves
<1> QED
  BY <1>5, <1>6 DEF FitsInv, Fits, FitsAfter, Open, Stored, IdentityOf, NewIdentity, Waiting

-----------------------------------------------------------------------------
(* The slot: each call leaves planning and running to its holder *)

\* A hand-over, in a table where m has just stopped working.
LEMMA HandOverKeepsSlot ==
  ASSUME NEW ms \in [Mission -> MissionRecord], NEW m \in Mission, NEW idle,
         \A n \in Mission : ms[n].state \notin {"PLANNING", "RUNNING"},
         missions' = Promoted(ms), active' = SlotAfter(ms, idle)
  PROVE  OnlySlotHolderWorks'
  BY HandOver DEF OnlySlotHolderWorks, Queued

LEMMA LeaveKeepsSlot ==
  ASSUME ManagerTypeOK, OnlySlotHolderWorks, NEW m \in Mission,
         NEW s \in State \ {"PLANNING", "RUNNING"}, NEW t \in Text, NEW left, NEW idle,
         left = [missions EXCEPT ![m] = [@ EXCEPT !.state = s, !.text = t]],
         missions' = IF active = m THEN Promoted(left) ELSE left,
         active' = IF active = m THEN SlotAfter(left, idle) ELSE active
  PROVE  OnlySlotHolderWorks'
<1>1. left \in [Mission -> MissionRecord]
  BY DEF ManagerTypeOK, MissionRecord
<1>2. left[m].state = s /\ \A n \in Mission \ {m} : left[n] = missions[n]
  BY DEF ManagerTypeOK, MissionRecord
<1>3. CASE active = m
  <2>1. \A n \in Mission : left[n].state \notin {"PLANNING", "RUNNING"}
    BY <1>2, <1>3 DEF OnlySlotHolderWorks
  <2> QED
    BY <1>1, <1>3, <2>1, HandOverKeepsSlot
<1>4. CASE active # m
  BY <1>2, <1>4 DEF OnlySlotHolderWorks
<1> QED
  BY <1>3, <1>4

LEMMA EndKeepsTheSlot ==
  ASSUME ManagerTypeOK, OnlySlotHolderWorks, NEW m \in Mission, NEW state \in Ended,
         End(m, state)
  PROVE  OnlySlotHolderWorks'
<1> DEFINE left == [missions EXCEPT ![m] = [@ EXCEPT !.state = state, !.text = NoText]]
<1>1. state \in State \ {"PLANNING", "RUNNING"} /\ NoText \in Text
  BY DEF State, Ended, Text
<1>2. /\ missions' = IF active = m THEN Promoted(left) ELSE left
      /\ active' = IF active = m THEN SlotAfter(left, NoMission) ELSE active
  BY DEF End
<1> HIDE DEF left
<1> QED
  BY <1>1, <1>2, LeaveKeepsSlot DEF left

LEMMA PauseKeepsTheSlot ==
  ASSUME ManagerTypeOK, OnlySlotHolderWorks, NEW m \in Mission, NEW reason \in Reason,
         Pause(m, reason)
  PROVE  OnlySlotHolderWorks'
<1> DEFINE t == OrDefault(reason, "paused")
           left == [missions EXCEPT ![m] = [@ EXCEPT !.state = "PAUSED", !.text = t]]
<1>1. CASE UNCHANGED managerVars
  BY <1>1 DEF managerVars, OnlySlotHolderWorks
<1>2. CASE End(m, "BLOCKED")
  BY <1>2, EndKeepsTheSlot DEF Ended
<1>3. CASE EnterPause(m, reason)
  <2>1. "PAUSED" \in State \ {"PLANNING", "RUNNING"} /\ t \in Text
    BY PauseText DEF State
  <2>2. /\ missions' = IF active = m THEN Promoted(left) ELSE left
        /\ active' = IF active = m THEN SlotAfter(left, m) ELSE active
    BY <1>3 DEF EnterPause
  <2> HIDE DEF left, t
  <2> QED
    BY <2>1, <2>2, LeaveKeepsSlot DEF left
<1> QED
  BY <1>1, <1>2, <1>3, PauseCases

LEMMA PlanKeepsSlot ==
  ASSUME ManagerTypeOK, OnlySlotHolderWorks, active \in Mission,
         SetPlan(active) \/ RequestReplan(active)
  PROVE  OnlySlotHolderWorks'
<1>1. active' = active
  BY DEF SetPlan, RequestReplan
<1>2. \A n \in Mission \ {active} : missions'[n] = missions[n]
  BY SetPlanRecords, RequestReplanRecords
<1> QED
  BY <1>1, <1>2 DEF OnlySlotHolderWorks

LEMMA HolderCallsKeepSlot ==
  ASSUME ManagerTypeOK, OnlySlotHolderWorks, HolderCalls
  PROVE  OnlySlotHolderWorks'
<1>1. ASSUME NEW m \in Mission, Resume(m)
      PROVE  OnlySlotHolderWorks'
  <2>1. /\ missions'[m].state = ResumedState(m)
        /\ \A n \in Mission \ {m} : missions'[n] = missions[n]
        /\ active' = IF SlotFreeFor(m) THEN m ELSE active
    BY <1>1, ResumeRecords DEF Resume
  <2>2. CASE SlotFreeFor(m)
    BY <2>1, <2>2, MissionAssumption DEF SlotFreeFor, OnlySlotHolderWorks
  <2>3. CASE ~SlotFreeFor(m)
    BY <2>1, <2>3 DEF ResumedState, OnlySlotHolderWorks
  <2> QED
    BY <2>2, <2>3
<1>2. ASSUME NEW m \in Mission, NEW prio \in PriorityArg, NEW preempt \in BOOLEAN,
             NEW reason \in Reason, Reprioritize(m, prio, preempt, reason)
      PROVE  OnlySlotHolderWorks'
  <2>1. active' = IF Preempts(m, prio, preempt) THEN m ELSE active
    BY <1>2 DEF Reprioritize
  <2>2. CASE Preempts(m, prio, preempt)
    BY <1>2, <2>1, <2>2, ReprioritizeRecords DEF OnlySlotHolderWorks
  <2>3. CASE ~Preempts(m, prio, preempt)
    BY <1>2, <2>1, <2>3, ReprioritizeRecords DEF OnlySlotHolderWorks
  <2> QED
    BY <2>2, <2>3
<1>3. ASSUME NEW m \in Mission, NEW state \in Ended, End(m, state)
      PROVE  OnlySlotHolderWorks'
  BY <1>3, EndKeepsTheSlot
<1>4. ASSUME NEW m \in Mission, UpdateStatus(m)
      PROVE  OnlySlotHolderWorks'
  BY <1>4, UpdateStatusRecords DEF UpdateStatus, OnlySlotHolderWorks
<1> QED
  BY <1>1, <1>2, <1>3, <1>4, PlanKeepsSlot DEF HolderCalls, Cancel, MarkTerminal, Outcomes, Ended

LEMMA SubmitKeepsSlot ==
  ASSUME ManagerTypeOK, OnlySlotHolderWorks, NEW m \in Mission, NEW prio \in PriorityArg,
         NEW allowQueue \in BOOLEAN, Submit(m, prio, allowQueue)
  PROVE  OnlySlotHolderWorks'
<1>1. /\ missions'[m].state = IF SlotBusy THEN "QUEUED" ELSE "PLANNING"
      /\ active' = IF SlotBusy THEN active ELSE m
      /\ \A n \in Mission \ {m} : missions'[n] = missions[n]
  BY DEF Submit, ManagerTypeOK, Absent
<1> QED
  BY <1>1, MissionAssumption DEF SlotBusy, OnlySlotHolderWorks

\* A plan that lands is for the holder of the slot.
LEMMA PlanLandsForHolder ==
  ASSUME NodeTypes, FitsInv, OnlySlotHolderWorks, NEW p \in Planner, PlanLands(p)
  PROVE  active \in Mission /\ SetPlan(active)
<1> DEFINE id == planner[p].id
<1>1. planner[p].pc = "planning" /\ CanUpdate(id) /\ SetPlan(id.m)
  BY DEF PlanLands
<1>2. id.m \in Mission /\ Waiting(id.m)
  BY <1>1 DEF FitsInv, Fits, CanUpdate
<1>3. id.m = active
  BY <1>2 DEF OnlySlotHolderWorks, Waiting
<1> QED
  BY <1>1, <1>2, <1>3

LEMMA SlotHolderStep ==
  ASSUME "pause" \notin Service, BaseInv, FitsInv, OnlySlotHolderWorks, [Next]_vars
  PROVE  OnlySlotHolderWorks'
<1>1. TableInv /\ NodeTypes /\ ManagerTypeOK
  BY DEF BaseInv, TableInv
<1>2. CASE UNCHANGED managerVars
  BY <1>2 DEF managerVars, OnlySlotHolderWorks
<1>3. CASE HolderCalls
  BY <1>1, <1>3, HolderCallsKeepSlot
<1>4. ASSUME NEW p \in Planner, PlanLands(p)
      PROVE  OnlySlotHolderWorks'
  BY <1>1, <1>4, PlanLandsForHolder, PlanKeepsSlot
<1>5. ASSUME NEW m \in Mission, NEW prio \in PriorityArg, NEW allowQueue \in BOOLEAN,
             Submit(m, prio, allowQueue)
      PROVE  OnlySlotHolderWorks'
  BY <1>1, <1>5, SubmitKeepsSlot
<1>6. ASSUME NEW m \in Mission, NEW reason \in Reason, Pause(m, reason)
      PROVE  OnlySlotHolderWorks'
  BY <1>1, <1>6, PauseKeepsTheSlot
<1> QED
  BY <1>1, <1>2, <1>3, <1>4, <1>5, <1>6, CallsWithoutPause

-----------------------------------------------------------------------------
(* Whoever waits for a plan has somebody in sight who will see to it *)

InSightAfter(m) ==
  \/ \E p \in Planner : planner'[p].pc = "planning" /\ planner'[p].id = NewIdentity(m)
  \/ \E p \in Planner : planner'[p].pc = "failed"
  \/ \E e \in Execution : runner'[e].pc = "settled"
  \/ svc'.then = "ready"
  \/ svc'.then = "plan" /\ svc'.id = NewIdentity(m)

\* m waited before the step already, under the same identity.
KeepsWaiting(m) == Waiting(m) /\ NewIdentity(m) = IdentityOf(m)

\* _start_next_ready finds the mission that waits: there is only one.
LEMMA NextReadyFound ==
  ASSUME NodeTypes, OrderInv, OnlySlotHolderWorks, NEW m \in Mission, Waiting(m),
         NEW p \in Planner, StartNextReady(p)
  PROVE  planner'[p].pc = "planning" /\ planner'[p].id = IdentityOf(m)
<1>1. Stored(m) /\ m = active
  BY DEF Waiting, Stored, OnlySlotHolderWorks
<1>2. PICK i \in DOMAIN order : order[i] = m
  BY <1>1 DEF OrderInv
<1>3. ReadyPlaces # {}
  BY <1>2 DEF ReadyPlaces, Waiting
<1>4. NextReady = m
  BY <1>1, <1>3, NextReadyWaits DEF OnlySlotHolderWorks, Waiting
<1>5. planner' = [planner EXCEPT ![p] = [pc |-> "planning", id |-> IdentityOf(m)]]
  BY <1>3, <1>4 DEF StartNextReady, PlanInThread
<1> QED
  BY <1>5 DEF NodeTypes, ThreadTypes

\* Whoever was in sight of a mission that goes on waiting still is, or has handed
\* it on.
LEMMA SightKept ==
  ASSUME ExecInv, OnlySlotHolderWorks, [Next]_vars, NEW m \in Mission,
         Waiting(m)', KeepsWaiting(m), PlannerInSight(m)
  PROVE  InSightAfter(m)
<1> DEFINE id == IdentityOf(m)
<1>1. /\ TableInv /\ NodeTypes /\ OrderInv /\ StartInv /\ ManagerTypeOK
      /\ Waiting(m) /\ NewIdentity(m) = id
  BY DEF ExecInv, BaseInv, TableInv, KeepsWaiting
<1>2. ASSUME NEW p \in Planner, StartNextReady(p)
      PROVE  InSightAfter(m)
  BY <1>1, <1>2, NextReadyFound DEF InSightAfter
<1>3. \/ \E p \in Planner : planner[p].pc = "planning" /\ planner[p].id = id
      \/ \E p \in Planner : planner[p].pc = "failed"
      \/ \E e \in Execution : runner[e].pc = "settled"
      \/ svc.then = "ready"
      \/ svc.then = "plan" /\ svc.id = id
  BY DEF PlannerInSight
<1> HIDE DEF id
<1>4. ASSUME \A p \in Planner : \/ planner[p].pc = "planning" /\ planner[p].id = id
                                \/ planner[p].pc = "failed"
                                => planner'[p] = planner[p],
             \A e \in Execution : runner[e].pc = "settled" => runner'[e].pc = "settled",
             svc.then \in {"ready", "plan"} => svc'.then = svc.then /\ svc'.id = svc.id
      PROVE  InSightAfter(m)
  BY <1>1, <1>3, <1>4 DEF InSightAfter
<1>5. CASE CallbackBegins
  <2>1. svc = IdleCallback /\ UNCHANGED threadVars
    BY <1>1, <1>5, CallbackBeginsMoves
  <2> QED
    BY <1>4, <2>1 DEF threadVars, IdleCallback
<1>6. ASSUME NEW new \in Identity, StartRunner(new), runner[new.exec].pc = "none"
      PROVE  \A e \in Execution : runner[e].pc = "settled" => runner'[e].pc = "settled"
  BY <1>1, <1>6 DEF StartRunner, NodeTypes, ThreadTypes
<1>7. CASE CallbackContinues
  <2>1. CASE SetCancelEvent
    BY <1>4, <2>1 DEF SetCancelEvent
  <2>2. CASE CallbackStartsRunner
    <3>1. /\ svc.then = "run" /\ StartRunner(svc.id) /\ UNCHANGED planner
      BY <2>2 DEF CallbackStartsRunner
    <3>2. svc.id \in Identity /\ runner[svc.id.exec].pc = "none"
      BY <1>1, <3>1 DEF NodeTypes, StartInv
    <3> QED
      BY <1>4, <1>6, <3>1, <3>2
  <2>3. ASSUME NEW p \in Planner, CallbackPlans(p)
        PROVE  InSightAfter(m)
    <3>1. /\ svc.then = "plan" /\ planner[p].pc = "idle" /\ UNCHANGED runner
          /\ planner' = [planner EXCEPT ![p] = [pc |-> "planning", id |-> svc.id]]
      BY <2>3 DEF CallbackPlans, PlanInThread, Free
    <3>2. planner'[p].pc = "planning" /\ planner'[p].id = svc.id
      BY <1>1, <3>1 DEF NodeTypes, ThreadTypes
    <3>3. \A q \in Planner \ {p} : planner'[q] = planner[q]
      BY <1>1, <3>1 DEF NodeTypes, ThreadTypes
    <3>4. CASE svc.id = id
      BY <1>1, <3>2, <3>4 DEF InSightAfter
    <3>5. ASSUME NEW q \in Planner,
                 \/ planner[q].pc = "planning" /\ planner[q].id = id
                 \/ planner[q].pc = "failed"
          PROVE  InSightAfter(m)
      <4>1. planner'[q] = planner[q]
        BY <3>1, <3>3, <3>5
      <4> QED
        BY <1>1, <3>5, <4>1 DEF InSightAfter
    <3>6. CASE \E e \in Execution : runner[e].pc = "settled"
      BY <3>1, <3>6 DEF InSightAfter
    <3> QED
      BY <1>3, <3>1, <3>4, <3>5, <3>6
  <2>4. ASSUME NEW p \in Planner, CallbackStartsNext(p)
        PROVE  InSightAfter(m)
    BY <1>2, <2>4 DEF CallbackStartsNext
  <2> QED
    BY <1>7, <2>1, <2>2, <2>3, <2>4 DEF CallbackContinues
<1>8. ASSUME NEW p \in Planner, PlannerStep(p)
      PROVE  InSightAfter(m)
  <2>1. CASE PlanLands(p)
    <3>1. planner[p].pc = "planning" /\ SetPlan(planner[p].id.m) /\ planner[p].id.m \in Mission
      BY <2>1 DEF PlanLands, CanUpdate
    <3>2. planner[p].id.m # m
      BY <1>1, <3>1, SetPlanRecords DEF Waiting
    <3>3. planner[p].id # id
      BY <3>2 DEF id, IdentityOf
    <3>4. \A q \in Planner \ {p} : planner'[q] = planner[q]
      BY <1>1, <2>1 DEF PlanLands, NodeTypes, ThreadTypes
    <3> QED
      BY <1>4, <2>1, <3>1, <3>3, <3>4 DEF PlanLands
  <2>2. CASE PlanFails(p)
    <3>1. planner' = [planner EXCEPT ![p].pc = "failed"]
      BY <2>2 DEF PlanFails
    <3>2. planner'[p].pc = "failed"
      BY <1>1, <3>1 DEF NodeTypes, ThreadTypes, PlannerRecord
    <3> QED
      BY <3>2 DEF InSightAfter
  <2>3. CASE PlanIsStale(p)
    <3>1. CanUpdate(id)
      BY <1>1 DEF CanUpdate, id, IdentityOf, Waiting, Open, Stored, Ended
    <3>2. planner[p].pc = "planning" /\ planner[p].id # id
      BY <2>3, <3>1 DEF PlanIsStale
    <3>3. \A q \in Planner \ {p} : planner'[q] = planner[q]
      BY <1>1, <2>3 DEF PlanIsStale, NodeTypes, ThreadTypes
    <3> QED
      BY <1>4, <2>3, <3>2, <3>3 DEF PlanIsStale
  <2>4. CASE PlannerStartsRunner(p)
    <3>1. /\ planner[p].pc = "planned" /\ StartRunner(planner[p].id) /\ UNCHANGED svc
          /\ \A q \in Planner \ {p} : planner'[q] = planner[q]
      BY <1>1, <2>4 DEF PlannerStartsRunner, NodeTypes, ThreadTypes
    <3>2. planner[p].id \in Identity /\ runner[planner[p].id.exec].pc = "none"
      BY <1>1, <3>1 DEF NodeTypes, StartInv
    <3> QED
      BY <1>4, <1>6, <3>1, <3>2
  <2>5. CASE PlannerStartsNext(p)
    BY <1>2, <2>5 DEF PlannerStartsNext
  <2> QED
    BY <1>8, <2>1, <2>2, <2>3, <2>4, <2>5 DEF PlannerStep
<1>9. ASSUME NEW e \in Execution, RunnerStep(e)
      PROVE  InSightAfter(m)
  <2>1. CASE RunnerSettles(e)
    <3>1. runner' = [runner EXCEPT ![e].pc = "settled"]
      BY <2>1 DEF RunnerSettles
    <3>2. runner'[e].pc = "settled"
      BY <1>1, <3>1 DEF NodeTypes, ThreadTypes, RunnerRecord
    <3> QED
      BY <3>2 DEF InSightAfter
  <2>2. CASE RunnerIsStale(e) \/ RunnerRaises(e) \/ RunnerLeaves(e)
    <3>1. runner[e].pc # "settled" /\ \A f \in Execution \ {e} : runner'[f] = runner[f]
      BY <1>1, <2>2 DEF RunnerIsStale, RunnerRaises, RunnerLeaves, NodeTypes, ThreadTypes
    <3>2. UNCHANGED planner /\ UNCHANGED svc
      BY <2>2 DEF RunnerIsStale, RunnerRaises, RunnerLeaves
    <3> QED
      BY <1>4, <3>1, <3>2
  <2>3. ASSUME NEW p \in Planner, RunnerStartsNext(e, p)
        PROVE  InSightAfter(m)
    BY <1>2, <2>3 DEF RunnerStartsNext
  <2> QED
    BY <1>9, <2>1, <2>2, <2>3 DEF RunnerStep
<1>10. ASSUME UNCHANGED vars \/ \E e \in Execution : ReportProgress(e)
       PROVE  InSightAfter(m)
  <2>1. UNCHANGED planner /\ UNCHANGED runner /\ UNCHANGED svc
    BY <1>10 DEF vars, threadVars, ReportProgress
  <2> QED
    BY <1>4, <2>1
<1> QED
  BY <1>5, <1>7, <1>8, <1>9, <1>10 DEF Next

\* Whatever makes a mission wait for a plan brings somebody in sight: the callback
\* that is about to plan it, or a callback or thread about to look for such missions.
LEMMA NewlyWaitingIsSeen ==
  ASSUME ExecInv, [Next]_vars, NEW m \in Mission, Waiting(m)', ~KeepsWaiting(m)
  PROVE  InSightAfter(m)
<1>1. TableInv /\ NodeTypes /\ ManagerTypeOK /\ [Calls(Outcomes)]_managerVars
  BY BaseStep DEF ExecInv, BaseInv, TableInv, StepMoves
<1>2. missions'[m].state = "PLANNING" /\ ~missions'[m].bt
  BY DEF Waiting
<1>3. ~Same(m)
  BY <1>2 DEF Same, Kept, KeepsWaiting, Waiting, NewIdentity, IdentityOf
<1>4. missions'[m] # missions[m]
  BY <1>3 DEF Same, Kept
<1>5. ~UNCHANGED managerVars
  BY <1>4 DEF managerVars
<1>6. ASSUME NEW id, \E signal : CallbackWith(signal, "plan", id), id = NewIdentity(m)
      PROVE  InSightAfter(m)
  BY <1>6 DEF CallbackWith, InSightAfter
<1>7. ASSUME NEW signal, NEW id, CallbackWith(signal, "ready", id)
      PROVE  InSightAfter(m)
  BY <1>7 DEF CallbackWith, InSightAfter
<1>8. CASE OnBlockingEvent
  BY <1>7, <1>8 DEF OnBlockingEvent
<1>9. CASE OnReplanEvent
  <2>1. /\ active \in Mission /\ RequestReplan(active)
        /\ CallbackWith(EventOf(active), "plan", NewIdentity(active))
    BY <1>1, <1>9 DEF OnReplanEvent, ManagerTypeOK
  <2>2. active = m
    BY <1>1, <1>4, <2>1, RequestReplanRecords
  <2>3. \E signal : CallbackWith(signal, "plan", NewIdentity(m))
    BY <2>1, <2>2 DEF NewIdentity
  <2> QED
    BY <1>6, <2>3
<1>10. ASSUME NEW k \in Mission, HandleCancel(k) \/ \E reason \in Reason : HandlePause(k, reason)
       PROVE  InSightAfter(m)
  BY <1>7, <1>10 DEF HandleCancel, HandlePause
<1>11. ASSUME NEW k \in Mission, NEW prio \in PriorityArg, NEW allowQueue \in BOOLEAN,
              Submit(k, prio, allowQueue)
       PROVE  k = m /\ ~SlotBusy
  <2>1. k = m
    BY <1>1, <1>4, <1>11, SubmitRecords
  <2>2. missions'[k].state = IF SlotBusy THEN "QUEUED" ELSE "PLANNING"
    BY <1>1, <1>11 DEF Submit, ManagerTypeOK, Absent
  <2> QED
    BY <1>2, <2>1, <2>2
<1>12. ASSUME NEW k \in Mission, NEW prio \in PriorityArg, NEW allowQueue \in BOOLEAN,
              HandleSubmit(k, prio, allowQueue)
       PROVE  InSightAfter(m)
  BY <1>6, <1>11, <1>12 DEF HandleSubmit
<1>13. ASSUME NEW k \in Mission, OnSocialEvent(k)
       PROVE  InSightAfter(m)
  BY <1>6, <1>11, <1>13, NodeAssumption DEF OnSocialEvent
<1>14. ASSUME NEW k \in Mission, HandleResume(k)
       PROVE  InSightAfter(m)
  <2>1. Resume(k)
    BY <1>14 DEF HandleResume
  <2>2. k = m /\ ResumedState(k) = "PLANNING"
    BY <1>1, <1>2, <1>4, <2>1, ResumeRecords
  <2>3. CallbackWith(0, "plan", NewIdentity(k))
    BY <1>14, <2>2 DEF HandleResume
  <2> QED
    BY <1>6, <2>2, <2>3
<1>15. ASSUME NEW k \in Mission, NEW prio \in PriorityArg, NEW preempt \in BOOLEAN,
              NEW reason \in Reason, HandleReprioritize(k, prio, preempt, reason)
       PROVE  InSightAfter(m)
  <2>1. Reprioritize(k, prio, preempt, reason)
    BY <1>15 DEF HandleReprioritize
  <2>2. k = m
    <3>1. CASE Preempts(k, prio, preempt)
      BY <1>1, <1>2, <1>4, <2>1, <3>1, ReprioritizeRecords
    <3>2. CASE ~Preempts(k, prio, preempt)
      BY <1>1, <1>4, <2>1, <3>2, ReprioritizeRecords
    <3> QED
      BY <3>1, <3>2
  <2>3. \E signal : CallbackWith(signal, "plan", NewIdentity(k))
    BY <1>2, <1>15, <2>2 DEF HandleReprioritize
  <2> QED
    BY <1>6, <2>2, <2>3
<1>16. CASE CallbackBegins
  BY <1>8, <1>9, <1>10, <1>12, <1>13, <1>14, <1>15, <1>16 DEF CallbackBegins
<1>17. ~CallbackContinues /\ ~UNCHANGED vars
  BY <1>5 DEF vars, CallbackContinues, SetCancelEvent, CallbackStartsRunner, CallbackPlans,
              CallbackStartsNext
<1>18. ASSUME NEW p \in Planner, PlannerStep(p)
       PROVE  InSightAfter(m)
  <2>1. ~PlanLands(p)
    BY <1>1, <1>2, <1>4, SetPlanRecords DEF PlanLands, CanUpdate
  <2>2. PlanFails(p)
    BY <1>5, <1>18, <2>1 DEF PlannerStep, PlanIsStale, PlannerStartsRunner, PlannerStartsNext
  <2>3. planner' = [planner EXCEPT ![p].pc = "failed"]
    BY <2>2 DEF PlanFails
  <2>4. planner'[p].pc = "failed"
    BY <1>1, <2>3 DEF NodeTypes, ThreadTypes, PlannerRecord
  <2> QED
    BY <2>4 DEF InSightAfter
<1>19. ASSUME NEW e \in Execution, RunnerStep(e)
       PROVE  InSightAfter(m)
  <2>1. RunnerSettles(e)
    BY <1>5, <1>19 DEF RunnerStep, RunnerIsStale, RunnerRaises, RunnerStartsNext, RunnerLeaves
  <2>2. runner' = [runner EXCEPT ![e].pc = "settled"]
    BY <2>1 DEF RunnerSettles
  <2>3. runner'[e].pc = "settled"
    BY <1>1, <2>2 DEF NodeTypes, ThreadTypes, RunnerRecord
  <2> QED
    BY <2>3 DEF InSightAfter
<1>20. ~(\E e \in Execution : ReportProgress(e))
  <2>1. ASSUME NEW k \in Mission, UpdateStatus(k)
        PROVE  FALSE
    BY <1>1, <1>3, <1>4, <2>1, UpdateStatusRecords DEF Same
  <2> QED
    BY <2>1 DEF ReportProgress, CanUpdate
<1> QED
  BY <1>16, <1>17, <1>18, <1>19, <1>20 DEF Next

LEMMA WaitingStep ==
  ASSUME ExecInv, OnlySlotHolderWorks, WaitingHasPlanner, [Next]_vars
  PROVE  WaitingHasPlanner'
<1>1. ASSUME NEW m \in Mission, Waiting(m)'
      PROVE  InSightAfter(m)
  <2>1. CASE KeepsWaiting(m)
    BY <1>1, <2>1, SightKept DEF KeepsWaiting, WaitingHasPlanner
  <2>2. CASE ~KeepsWaiting(m)
    BY <1>1, <2>2, NewlyWaitingIsSeen
  <2> QED
    BY <2>1, <2>2
<1> QED
  BY <1>1 DEF WaitingHasPlanner, PlannerInSight, InSightAfter, IdentityOf, NewIdentity

-----------------------------------------------------------------------------
(* The third layer of the invariant *)

WorkInv ==
  /\ ExecInv
  /\ DrawnInv
  /\ PastInv
  /\ FitsInv
  /\ OnlySlotHolderWorks
  /\ WaitingHasPlanner

LEMMA WorkInit == Init => WorkInv
<1> SUFFICES ASSUME Init PROVE WorkInv
  OBVIOUS
<1>1. ExecInv
  BY ExecInit
<1>2. /\ \A p \in Planner : planner[p].pc = "idle"
      /\ \A e \in Execution : ~Live(e)
      /\ svc.then = "done"
      /\ \A m \in Mission : missions[m].exec = 0 /\ missions[m].state = "UNKNOWN"
  BY DEF Init, ManagerInit, Absent, IdlePlanner, IdleCallback, Live
<1>3. DrawnInv /\ PastInv /\ FitsInv /\ OnlySlotHolderWorks /\ WaitingHasPlanner
  BY <1>2 DEF DrawnInv, PastInv, FitsInv, OnlySlotHolderWorks, WaitingHasPlanner, Waiting
<1> QED
  BY <1>1, <1>3 DEF WorkInv

LEMMA WorkStep ==
  ASSUME "pause" \notin Service, WorkInv, [Next]_vars
  PROVE  WorkInv'
<1>1. BaseInv /\ KnownInv /\ ExecInv' /\ StepMoves
  BY ExecStep DEF WorkInv, ExecInv
<1> QED
  BY <1>1, DrawnInvStep, PastInvStep, FitsInvStep, SlotHolderStep, WaitingStep DEF WorkInv

LEMMA WorkHolds ==
  ASSUME "pause" \notin Service
  PROVE  Spec => []WorkInv
<1>1. WorkInv /\ [Next]_vars => WorkInv'
  BY WorkStep
<1> QED
  BY <1>1, WorkInit, PTL DEF Spec

\* As long as nobody calls PauseMission, planning and execution are for the holder of
\* the slot alone, whatever plans, results, cancels and resumes cross each other.
THEOREM SlotHolderCorrect ==
  ASSUME "pause" \notin Service
  PROVE  Spec => []OnlySlotHolderWorks
<1>1. WorkInv => OnlySlotHolderWorks
  BY DEF WorkInv
<1> QED
  BY <1>1, WorkHolds, PTL

\* And no mission waits for a plan that no thread and no callback will see to.
THEOREM WaitingCorrect ==
  ASSUME "pause" \notin Service
  PROVE  Spec => []WaitingHasPlanner
<1>1. WorkInv => WaitingHasPlanner
  BY DEF WorkInv
<1> QED
  BY <1>1, WorkHolds, PTL

\* Only its own result settles a runner.
LEMMA SettlesAlone ==
  ASSUME NodeTypes, [Next]_vars, NEW e \in Execution, runner[e].pc # "settled",
         runner'[e].pc = "settled"
  PROVE  RunnerSettles(e)
<1>1. ASSUME NEW id \in Identity, StartRunner(id)
      PROVE  FALSE
  BY <1>1 DEF StartRunner, NodeTypes, ThreadTypes
<1>2. ~CallbackBegins /\ ~UNCHANGED vars
  BY DEF vars, threadVars, CallbackBegins, OnBlockingEvent, OnReplanEvent, HandleSubmit,
         HandleCancel, HandlePause, HandleResume, HandleReprioritize, OnSocialEvent
<1>3. ~CallbackContinues
  BY <1>1 DEF CallbackContinues, SetCancelEvent, CallbackStartsRunner, CallbackPlans,
              CallbackStartsNext, NodeTypes
<1>4. ASSUME NEW p \in Planner, PlannerStep(p)
      PROVE  FALSE
  BY <1>1, <1>4 DEF PlannerStep, PlanLands, PlanFails, PlanIsStale, PlannerStartsRunner,
                    PlannerStartsNext, NodeTypes
<1>5. ASSUME NEW f \in Execution, RunnerStep(f)
      PROVE  RunnerSettles(e)
  <2>1. \/ RunnerSettles(f)
        \/ runner' = [runner EXCEPT ![f].pc = "leaving"]
        \/ runner' = [runner EXCEPT ![f] = [pc |-> "gone", id |-> NoIdentity]]
    BY <1>5 DEF RunnerStep, RunnerIsStale, RunnerRaises, RunnerStartsNext, RunnerLeaves
  <2>2. RunnerSettles(f)
    BY <2>1 DEF NodeTypes, ThreadTypes, RunnerRecord
  <2>3. runner' = [runner EXCEPT ![f].pc = "settled"]
    BY <2>2 DEF RunnerSettles
  <2>4. f = e
    BY <2>3 DEF NodeTypes, ThreadTypes
  <2> QED
    BY <2>2, <2>4
<1>6. ~(\E f \in Execution : ReportProgress(f))
  BY DEF ReportProgress, threadVars
<1> QED
  BY <1>2, <1>3, <1>4, <1>5, <1>6 DEF Next

\* And the result a runner applies is that of the execution its mission is in.
THEOREM ResultCorrect ==
  ASSUME "pause" \notin Service
  PROVE  Spec => ResultOfCurrentRun
<1>1. ASSUME WorkInv, [Next]_vars
      PROVE  ResultOfCurrentRunStep
  <2> SUFFICES ASSUME NEW e \in Execution, runner[e].pc = "executing", runner'[e].pc = "settled"
               PROVE  missions[runner[e].id.m].state = "RUNNING" /\ missions[runner[e].id.m].exec = e
    BY DEF ResultOfCurrentRunStep
  <2>1. RunnerSettles(e)
    BY <1>1, SettlesAlone DEF WorkInv, ExecInv, BaseInv
  <2> QED
    BY <1>1, <2>1, SettlesCurrent DEF WorkInv
<1>2. WorkInv /\ [Next]_vars => ResultOfCurrentRunStep
  BY <1>1
<1> QED
  BY <1>2, WorkHolds, PTL DEF Spec, ResultOfCurrentRun

\* With pauses from outside, one thing remains: a result is never applied to another
\* execution of its mission than the one it comes from, nor to a mission that is
\* paused or has ended.
ResultOfOwnExecutionStep ==
  \A e \in Execution :
    runner[e].pc = "executing" /\ runner'[e].pc = "settled" =>
      /\ Open(runner[e].id.m) /\ missions[runner[e].id.m].state # "PAUSED"
      /\ missions[runner[e].id.m].exec = e

\* It holds for every use of the services.
THEOREM OwnResultCorrect == Spec => [][ResultOfOwnExecutionStep]_vars
<1>1. ASSUME ExecInv, DrawnInv, [Next]_vars
      PROVE  ResultOfOwnExecutionStep /\ DrawnInv'
  <2>1. BaseInv /\ KnownInv /\ StepMoves
    BY <1>1, ExecStep DEF ExecInv
  <2>2. ASSUME NEW e \in Execution, runner[e].pc = "executing", runner'[e].pc = "settled"
        PROVE  RunnerSettles(e)
    BY <1>1, <2>1, <2>2, SettlesAlone DEF BaseInv
  <2>3. ResultOfOwnExecutionStep
    BY <1>1, <2>2, SettlesOwn DEF ResultOfOwnExecutionStep
  <2> QED
    BY <1>1, <2>1, <2>3, DrawnInvStep
<1>2. ExecInv /\ DrawnInv /\ [Next]_vars => ResultOfOwnExecutionStep /\ DrawnInv'
  BY <1>1
<1>3. Init => DrawnInv
  BY DEF Init, IdlePlanner, IdleCallback, DrawnInv, Live
<1> QED
  BY <1>2, <1>3, ExecHolds, PTL DEF Spec

=============================================================================
