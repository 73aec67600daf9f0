--------------------------- MODULE MissionManager ---------------------------
(***************************************************************************)
(* The mission table of mc_ai_bt (src/mc_ai_bt/mission.py): every mission  *)
(* the node has accepted, the one "active" slot they compete for, and the  *)
(* identity (plan version, execution id) that late results are compared    *)
(* with.  One action per method that changes the table.  A method that     *)
(* raises KeyError changes nothing, so its error paths are the negations   *)
(* of the guards.                                                          *)
(*                                                                         *)
(* Data that no decision reads is left out: titles, progress, active node, *)
(* envelopes.  The status text is kept only while a mission is PAUSED,     *)
(* because resume() is the only reader: it remembers that text as the      *)
(* reason of the pause.  The insertion order of the dict is kept by        *)
(* AiBtNode, whose _start_next_ready is its only reader.                   *)
(*                                                                         *)
(* A definition marked "Fault" is a wrong version of the one after it; no  *)
(* specification uses it.  It is there to show that a property would       *)
(* notice the mistake.                                                     *)
(***************************************************************************)
EXTENDS Integers

CONSTANTS
  Mission,          \* mission ids; uuid4 hex strings in the code, compared by <
  NoMission,        \* the value None of _active_id
  Reason,           \* pause and resume reasons a caller may give; "" is one
  PriorityArg,      \* priorities a caller may ask for
  Outcome,          \* the ends a caller may mark: a subset of Outcomes
  MaxPlanVersion,   \* bound: no plan version above it is reserved
  MaxExecution      \* bound: at most this many execution ids are drawn

Outcomes == {"SUCCEEDED", "FAILED", "BLOCKED"}

ASSUME MissionAssumption ==
  /\ Mission \subseteq Nat
  /\ NoMission \notin Mission

ASSUME ArgumentAssumption ==
  /\ "" \in Reason
  /\ "unset" \notin Reason
  /\ PriorityArg \subseteq Int
  /\ Outcome \subseteq Outcomes

ASSUME BoundAssumption ==
  /\ MaxPlanVersion \in Nat
  /\ MaxExecution \in Nat

VARIABLES
  missions,         \* _missions: mission id -> Mission record
  active,           \* _active_id
  resumedFrom,      \* _resumed_from_reason
  execs             \* execution ids (uuid4 hex) drawn so far; 0 is ""

managerVars == <<missions, active, resumedFrom, execs>>

-----------------------------------------------------------------------------
(* Values *)

Ended == {"SUCCEEDED", "FAILED", "CANCELED", "BLOCKED"}

State == {"UNKNOWN", "QUEUED", "PLANNING", "RUNNING", "PAUSED"} \cup Ended

NoText == "unset"

\* What status_text can hold while a mission is PAUSED.
Text == (Reason \ {""}) \cup {"paused", "running", NoText}

Priority == 0 .. 255

MissionRecord ==
  [state : State, pv : Nat, exec : Nat, prio : Priority, bt : BOOLEAN, text : Text]

\* An id the table does not hold.
Absent ==
  [state |-> "UNKNOWN", pv |-> 0, exec |-> 0, prio |-> 0, bt |-> FALSE, text |-> NoText]

\* Fault: no upper bound.
ClampFloorOnly(p) == IF p < 0 THEN 0 ELSE p

Clamp(p) == IF p < 0 THEN 0 ELSE IF p > 255 THEN 255 ELSE p

OrDefault(reason, default) == IF reason = "" THEN default ELSE reason

-----------------------------------------------------------------------------
(* Reading the table *)

Stored(m) == missions[m].state # "UNKNOWN"

Open(m) == Stored(m) /\ missions[m].state \notin Ended

\* Identity.next_plan and Identity.for_execution
NextVersion(m) == missions[m].pv + 1

NewExecution == execs + 1

IdentityOf(m) == [m |-> m, pv |-> missions[m].pv, exec |-> missions[m].exec]

\* _check_can_update with an expected identity
CanUpdate(id) == id.m \in Mission /\ Open(id.m) /\ IdentityOf(id.m) = id

\* Fault: the plan version is not compared.
AcceptsAnyPlan(id) ==
  /\ Open(id.m)
  /\ missions[id.m].state # "PAUSED"
  /\ id.exec # 0 /\ missions[id.m].exec # 0 => missions[id.m].exec = id.exec

AcceptsAsyncResult(id) ==
  /\ Open(id.m)
  /\ missions[id.m].state # "PAUSED"
  /\ missions[id.m].pv = id.pv
  /\ id.exec # 0 /\ missions[id.m].exec # 0 => missions[id.m].exec = id.exec

SlotBusy == active # NoMission /\ missions[active].state # "PAUSED"

Queued(ms) == {m \in Mission : ms[m].state = "QUEUED"}

Outranks(ms, m, n) ==
  \/ ms[m].prio > ms[n].prio
  \/ ms[m].prio = ms[n].prio /\ m < n

\* Fault: the queue is sorted by id alone.
FirstQueued(ms) ==
  CHOOSE m \in Queued(ms) : \A n \in Queued(ms) \ {m} : m < n

NextQueued(ms) ==
  CHOOSE m \in Queued(ms) : \A n \in Queued(ms) \ {m} : Outranks(ms, m, n)

\* _promote: the plan a mission may already have stays in its record.
Promoted(ms) ==
  IF Queued(ms) = {} THEN ms ELSE [ms EXCEPT ![NextQueued(ms)].state = "PLANNING"]

SlotAfter(ms, idle) == IF Queued(ms) = {} THEN idle ELSE NextQueued(ms)

-----------------------------------------------------------------------------
(* The methods *)

ManagerInit ==
  /\ missions = [m \in Mission |-> Absent]
  /\ active = NoMission
  /\ resumedFrom = [m \in Mission |-> NoText]
  /\ execs = 0

\* An accepted submission; a refused one leaves the table as it is.
Submit(m, prio, allowQueue) ==
  /\ ~Stored(m)
  /\ SlotBusy => allowQueue
  /\ missions' = [missions EXCEPT ![m] = [Absent EXCEPT
                    !.state = IF SlotBusy THEN "QUEUED" ELSE "PLANNING",
                    !.prio = Clamp(prio)]]
  /\ active' = IF SlotBusy THEN active ELSE m
  /\ UNCHANGED <<resumedFrom, execs>>

\* Fault: always the version the mission has.
StoredVersion(m) == missions[m].pv

\* The version a new plan of m gets: the reserved one if replanning left it
\* unused, a new one otherwise.
PlannedVersion(m) ==
  IF missions[m].bt \/ missions[m].exec # 0 \/ missions[m].pv = 0
  THEN NextVersion(m)
  ELSE missions[m].pv

\* Fault: no execution id is drawn (for_execution is forgotten).
SetPlanNoExecution(m) ==
  /\ Open(m)
  /\ PlannedVersion(m) <= MaxPlanVersion
  /\ missions' = [missions EXCEPT ![m] = [@ EXCEPT
                    !.state = "RUNNING", !.pv = PlannedVersion(m),
                    !.bt = TRUE, !.text = NoText]]
  /\ active' = m
  /\ UNCHANGED <<resumedFrom, execs>>

SetPlan(m) ==
  /\ Open(m)
  /\ PlannedVersion(m) <= MaxPlanVersion
  /\ execs < MaxExecution
  /\ missions' = [missions EXCEPT ![m] = [@ EXCEPT
                    !.state = "RUNNING", !.pv = PlannedVersion(m), !.exec = NewExecution,
                    !.bt = TRUE, !.text = NoText]]
  /\ active' = m
  /\ execs' = NewExecution
  /\ UNCHANGED resumedFrom

\* Fault: a replan clears the plan but reserves no version (next_plan is forgotten).
ReplanSameVersion(m) ==
  /\ Open(m)
  /\ missions' = [missions EXCEPT ![m] = [@ EXCEPT
                    !.state = "PLANNING", !.exec = 0, !.bt = FALSE, !.text = NoText]]
  /\ active' = m
  /\ UNCHANGED <<resumedFrom, execs>>

\* Fault: the test for an ended mission is dropped.
ReplanEnded(m) ==
  /\ Stored(m)
  /\ missions[m].pv < MaxPlanVersion
  /\ missions' = [missions EXCEPT ![m] = [@ EXCEPT
                    !.state = "PLANNING", !.pv = NextVersion(m), !.exec = 0,
                    !.bt = FALSE, !.text = NoText]]
  /\ active' = m
  /\ UNCHANGED <<resumedFrom, execs>>

RequestReplan(m) ==
  /\ Open(m)
  /\ missions[m].pv < MaxPlanVersion
  /\ missions' = [missions EXCEPT ![m] = [@ EXCEPT
                    !.state = "PLANNING", !.pv = NextVersion(m), !.exec = 0,
                    !.bt = FALSE, !.text = NoText]]
  /\ active' = m
  /\ UNCHANGED <<resumedFrom, execs>>

\* Fault: the slot stays with the ended mission.
EndKeepsSlot(m, state) ==
  /\ missions' = [missions EXCEPT ![m] = [@ EXCEPT !.state = state, !.text = NoText]]
  /\ resumedFrom' = [resumedFrom EXCEPT ![m] = NoText]
  /\ UNCHANGED <<active, execs>>

\* The common tail of cancel and mark_terminal: leave the slot, drop the
\* guard against identical re-pauses.
End(m, state) ==
  LET ended == [missions EXCEPT ![m] = [@ EXCEPT !.state = state, !.text = NoText]]
  IN  /\ missions' = IF active = m THEN Promoted(ended) ELSE ended
      /\ active' = IF active = m THEN SlotAfter(ended, NoMission) ELSE active
      /\ resumedFrom' = [resumedFrom EXCEPT ![m] = NoText]
      /\ UNCHANGED execs

\* Fault: the slot is cleared without looking at the queue.
CancelLeavesQueue(m) ==
  /\ Open(m)
  /\ missions' = [missions EXCEPT ![m] = [@ EXCEPT !.state = "CANCELED", !.text = NoText]]
  /\ active' = IF active = m THEN NoMission ELSE active
  /\ resumedFrom' = [resumedFrom EXCEPT ![m] = NoText]
  /\ UNCHANGED execs

Cancel(m) == Open(m) /\ End(m, "CANCELED")

MarkTerminal(m, state) ==
  /\ state \in Outcomes
  /\ Open(m)
  /\ End(m, state)

\* A pause hands the slot over only to a mission that is already waiting.
EnterPause(m, reason) ==
  LET paused == [missions EXCEPT ![m] = [@ EXCEPT
                   !.state = "PAUSED", !.text = OrDefault(reason, "paused")]]
  IN  /\ missions' = IF active = m THEN Promoted(paused) ELSE paused
      /\ active' = IF active = m THEN SlotAfter(paused, m) ELSE active
      /\ UNCHANGED <<resumedFrom, execs>>

\* Pausing a mission again on the reason it was just resumed from blocks it.
Pause(m, reason) ==
  /\ Open(m)
  /\ \/ /\ missions[m].state = "PAUSED"
        /\ UNCHANGED managerVars
     \/ /\ missions[m].state # "PAUSED"
        /\ resumedFrom[m] = reason
        /\ MarkTerminal(m, "BLOCKED")
     \/ /\ missions[m].state # "PAUSED"
        /\ resumedFrom[m] # reason
        /\ EnterPause(m, reason)

\* Fault: the resumed mission takes the slot back unconditionally.
SlotAlwaysFree(m) == missions[m].state = "PAUSED"

\* resume() has a test of its own for a free slot, not SlotBusy.
SlotFreeFor(m) == active \in {NoMission, m}

ResumedState(m) ==
  IF ~SlotFreeFor(m) THEN "QUEUED" ELSE IF missions[m].bt THEN "RUNNING" ELSE "PLANNING"

\* Fault: a resume keeps the execution id of the run that was paused.
ResumeSameExecution(m) ==
  /\ missions[m].state = "PAUSED"
  /\ missions' = [missions EXCEPT ![m] = [@ EXCEPT !.state = ResumedState(m), !.text = NoText]]
  /\ active' = IF SlotFreeFor(m) THEN m ELSE active
  /\ resumedFrom' = [resumedFrom EXCEPT ![m] =
                       IF ResumedState(m) = "RUNNING" THEN missions[m].text ELSE NoText]
  /\ UNCHANGED execs

Resume(m) ==
  /\ missions[m].state = "PAUSED"
  /\ LET runs == ResumedState(m) = "RUNNING"
     IN  /\ runs => execs < MaxExecution
         /\ missions' = [missions EXCEPT ![m] = [@ EXCEPT
                           !.state = ResumedState(m),
                           !.exec = IF runs THEN NewExecution ELSE missions[m].exec,
                           !.text = NoText]]
         /\ execs' = IF runs THEN NewExecution ELSE execs
         /\ resumedFrom' = [resumedFrom EXCEPT ![m] = IF runs THEN missions[m].text ELSE NoText]
  /\ active' = IF SlotFreeFor(m) THEN m ELSE active

\* The test of reprioritize() for taking the slot away from the active mission.
Preempts(m, prio, preempt) ==
  /\ preempt
  /\ missions[m].state = "QUEUED"
  /\ active \notin {NoMission, m}
  /\ Open(active)
  /\ Clamp(prio) > missions[active].prio

\* A reason replaces the status text, which matters for a PAUSED mission.
Reprioritized(m, prio, reason) ==
  [missions[m] EXCEPT
     !.prio = Clamp(prio),
     !.text = IF missions[m].state = "PAUSED" THEN OrDefault(reason, @) ELSE @]

Reprioritize(m, prio, preempt, reason) ==
  /\ Open(m)
  /\ \/ /\ ~Preempts(m, prio, preempt)
        /\ missions' = [missions EXCEPT ![m] = Reprioritized(m, prio, reason)]
        /\ UNCHANGED active
     \/ /\ Preempts(m, prio, preempt)
        /\ missions[active].pv < MaxPlanVersion
        /\ missions' = [missions EXCEPT
             ![active] = [@ EXCEPT !.state = "QUEUED", !.pv = NextVersion(active), !.exec = 0,
                                   !.bt = FALSE, !.text = NoText],
             ![m] = [Reprioritized(m, prio, reason) EXCEPT !.state = "PLANNING",
                                                           !.bt = FALSE]]
        /\ active' = m
  /\ UNCHANGED <<resumedFrom, execs>>

\* Progress of a running tree: the text becomes "running" in every state.
UpdateStatus(m) ==
  /\ Open(m)
  /\ missions' = [missions EXCEPT ![m].text =
                    IF missions[m].state = "PAUSED" THEN "running" ELSE @]
  /\ UNCHANGED <<active, resumedFrom, execs>>

-----------------------------------------------------------------------------
(* Every sequence of calls on the table *)

\* Any call whatever; ends: the ends that mark_terminal() is called with.
Calls(ends) ==
  \E m \in Mission :
    \/ \E prio \in PriorityArg, allowQueue \in BOOLEAN : Submit(m, prio, allowQueue)
    \/ SetPlan(m)
    \/ RequestReplan(m)
    \/ \E reason \in Reason : Pause(m, reason)
    \/ Resume(m)
    \/ \E prio \in PriorityArg, preempt \in BOOLEAN, reason \in Reason :
         Reprioritize(m, prio, preempt, reason)
    \/ Cancel(m)
    \/ \E state \in ends : MarkTerminal(m, state)
    \/ UpdateStatus(m)

ManagerNext == Calls(Outcome)

ManagerSpec == ManagerInit /\ [][ManagerNext]_managerVars

\* The table under callers that mark every end the table knows: the node does.
TableSpec == ManagerInit /\ [][Calls(Outcomes)]_managerVars

-----------------------------------------------------------------------------
(* What the table promises to its callers *)

\* Every variable has its type, and no counter passes its bound.
ManagerTypeOK ==
  /\ missions \in [Mission -> MissionRecord]
  /\ active \in Mission \cup {NoMission}
  /\ resumedFrom \in [Mission -> Text]
  /\ execs \in 0 .. MaxExecution

\* The slot is never left on a mission that cannot use it: whoever holds it is
\* planning, running or paused, after any hand-over of cancel, mark_terminal,
\* pause and reprioritize.
ActiveIsOpen ==
  active # NoMission => missions[active].state \in {"PLANNING", "RUNNING", "PAUSED"}

\* An empty slot means an empty queue: whichever way the last holder leaves,
\* a mission that waits takes its place in the same step.
IdleSlotHasNoQueue == active = NoMission => Queued(missions) = {}

\* A mission has a plan only under a reserved version, runs only a plan it has
\* under an execution id drawn for it, and no two missions share such an id:
\* otherwise accepts_async_result would take one mission's result for another's.
RunningIsExecutable ==
  /\ \A m \in Mission :
       /\ missions[m].bt => missions[m].pv > 0
       /\ missions[m].exec # 0 => missions[m].pv > 0
       /\ missions[m].state = "RUNNING" => missions[m].bt /\ missions[m].exec # 0
       /\ missions[m].exec <= execs
  /\ \A m, n \in Mission :
       m # n /\ missions[m].exec # 0 => missions[m].exec # missions[n].exec

\* An ended mission keeps no guard against identical re-pauses, and neither does
\* an id never submitted.
GuardOnlyForOpen == \A m \in Mission : resumedFrom[m] # NoText => Open(m)

\* No call ever touches the record of an ended mission: not a late plan, not a
\* promotion, not a preemption that names it.
EndedStays ==
  \A m \in Mission : missions[m].state \in Ended => missions'[m] = missions[m]
TerminalIsFinal == [][EndedStays]_managerVars

\* An identity that was left never comes back: the version only grows, and under
\* the same version the execution id is kept or freshly drawn.  This is what
\* makes comparing identities enough to recognise a late plan or result.
IdentityAdvancesStep ==
  \A m \in Mission :
    \/ missions'[m].pv > missions[m].pv
    \/ /\ missions'[m].pv = missions[m].pv
       /\ missions'[m].exec = missions[m].exec \/ missions'[m].exec > execs
IdentityAdvances == [][IdentityAdvancesStep]_managerVars

\* A queued mission gets the slot in queue order, by priority and then by id,
\* unless reprioritize() takes the slot for it from a mission it outranks.
PromotesBestQueuedStep ==
  \A m \in Queued(missions) :
    missions'[m].state = "PLANNING" =>
      \/ \A n \in Queued(missions) \ {m} : Outranks(missions, m, n)
      \/ /\ active # NoMission
         /\ missions'[active].state = "QUEUED"
         /\ missions'[m].prio > missions'[active].prio
      \/ RequestReplan(m)
PromotesBestQueued == [][PromotesBestQueuedStep]_managerVars

-----------------------------------------------------------------------------
(* What comments and tests say, and the code does not do *)

\* "A resume that goes through STATE_PLANNING instead (slot was busy, ...) gets a
\* fresh plan" (mission.py, resume): a mission in PLANNING has no plan yet.  A
\* mission resumed into the queue keeps its plan, and _start_next_ready plans only
\* missions without one.
PlanningHasNoPlan ==
  \A m \in Mission : missions[m].state = "PLANNING" => ~missions[m].bt

=============================================================================
