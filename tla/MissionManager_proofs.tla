----------------------- MODULE MissionManager_proofs -----------------------
(***************************************************************************)
(* What the mission table promises, for every set of missions, callers'    *)
(* arguments and bounds.  The argument for the slot rests on the queue     *)
(* having a first mission (NextQueuedIsBest): without it a hand-over would *)
(* give the slot to nobody.  ActiveIsOpen and IdleSlotHasNoQueue are       *)
(* inductive only together and with the types.  The invariants are shown   *)
(* of one call of the table, whoever makes it (TableInv), so that they     *)
(* hold in the modules that compose the table with its callers.            *)
(***************************************************************************)
EXTENDS MissionManager, WellFoundedInduction, TLAPS

-----------------------------------------------------------------------------
(* The queue has a first mission *)

\* A set of naturals that is not empty has a least member.
LEMMA MinExists ==
  ASSUME NEW S \in SUBSET Nat, S # {}
  PROVE  \E x \in S : \A y \in S : x <= y
<1>1. IsWellFoundedOn(OpToRel(<, Nat), Nat)
  BY NatLessThanWellFounded, Zenon
<1>2. PICK x \in S : \A y \in S : ~(<<y, x>> \in OpToRel(<, Nat))
  BY <1>1, WFMin, Zenon
<1>3. \A y \in S : ~(y < x)
  BY <1>2 DEF OpToRel
<1> QED
  BY <1>3

\* Among any missions there is one that outranks all others: sorting by
\* (-priority, id) leaves no ties.
LEMMA BestExists ==
  ASSUME NEW ms \in [Mission -> MissionRecord], NEW Q \in SUBSET Mission, Q # {}
  PROVE  \E m \in Q : \A n \in Q \ {m} : Outranks(ms, m, n)
<1> DEFINE D == {255 - ms[q].prio : q \in Q}
<1>1. \A q \in Q : q \in Nat /\ ms[q].prio \in 0 .. 255
  BY MissionAssumption DEF MissionRecord, Priority
<1>2. PICK d \in D : \A e \in D : d <= e
  <2>1. D \in SUBSET Nat /\ D # {}
    BY <1>1
  <2> QED
    BY <2>1, MinExists
<1> DEFINE T == {q \in Q : 255 - ms[q].prio = d}
<1>3. PICK best \in T : \A q \in T : best <= q
  <2>1. T \in SUBSET Nat /\ T # {}
    BY <1>1, <1>2
  <2> QED
    BY <2>1, MinExists
<1>4. ASSUME NEW n \in Q \ {best}
      PROVE  Outranks(ms, best, n)
  <2> DEFINE x == ms[best].prio
             y == ms[n].prio
  <2>1. n \in Nat /\ best \in Nat /\ x \in 0 .. 255 /\ y \in 0 .. 255
    BY <1>1
  <2>2. 255 - x <= 255 - y
    BY <1>2
  <2>3. 255 - y = 255 - x => best <= n
    BY <1>3
  <2>4. best # n
    OBVIOUS
  <2>5. x > y \/ (x = y /\ best < n)
    <3> HIDE DEF D, T, x, y
    <3> QED
      BY <2>1, <2>2, <2>3, <2>4
  <2> QED
    BY <2>5, Zenon DEF Outranks
<1> QED
  BY <1>3, <1>4

\* So the choice of _next_queued_id is a mission of the queue that outranks all others.
LEMMA NextQueuedIsBest ==
  ASSUME NEW ms \in [Mission -> MissionRecord], Queued(ms) # {}
  PROVE  /\ NextQueued(ms) \in Queued(ms)
         /\ \A n \in Queued(ms) \ {NextQueued(ms)} : Outranks(ms, NextQueued(ms), n)
<1>1. Queued(ms) \in SUBSET Mission
  BY DEF Queued
<1>2. \E m \in Queued(ms) : \A n \in Queued(ms) \ {m} : Outranks(ms, m, n)
  BY <1>1, BestExists
<1> QED
  BY <1>2 DEF NextQueued

-----------------------------------------------------------------------------
(* Types *)

\* Promoting a mission keeps the table a table, and touches queued ones only.
LEMMA PromotedType ==
  ASSUME NEW ms \in [Mission -> MissionRecord]
  PROVE  /\ Promoted(ms) \in [Mission -> MissionRecord]
         /\ \A idle \in Mission \cup {NoMission} :
              SlotAfter(ms, idle) \in Mission \cup {NoMission}
<1>1. CASE Queued(ms) = {}
  BY <1>1 DEF Promoted, SlotAfter
<1>2. CASE Queued(ms) # {}
  <2>1. NextQueued(ms) \in Mission
    BY <1>2, NextQueuedIsBest DEF Queued
  <2>2. Promoted(ms) \in [Mission -> MissionRecord]
    BY <1>2, <2>1 DEF Promoted, MissionRecord, State
  <2> QED
    BY <1>2, <2>1, <2>2 DEF SlotAfter
<1> QED
  BY <1>1, <1>2

\* submit() and reprioritize() store a priority of the range, whatever was asked.
LEMMA ClampType == \A p \in Int : Clamp(p) \in Priority
  BY DEF Clamp, Priority

\* The text of a pause is never empty and never the mark of "no text".
LEMMA PauseText ==
  \A reason \in Reason : OrDefault(reason, "paused") \in Text \ {NoText}
  BY ArgumentAssumption DEF OrDefault, Text, NoText

\* Every method keeps the types.
LEMMA SubmitType ==
  ASSUME ManagerTypeOK, NEW m \in Mission, NEW prio \in PriorityArg, NEW allowQueue \in BOOLEAN,
         Submit(m, prio, allowQueue)
  PROVE  ManagerTypeOK'
<1>1. [Absent EXCEPT !.state = IF SlotBusy THEN "QUEUED" ELSE "PLANNING",
                     !.prio = Clamp(prio)] \in MissionRecord
  BY ClampType, ArgumentAssumption DEF Absent, MissionRecord, State, Text, NoText
<1> QED
  BY <1>1 DEF ManagerTypeOK, Submit

LEMMA SetPlanType ==
  ASSUME ManagerTypeOK, NEW m \in Mission, SetPlan(m)
  PROVE  ManagerTypeOK'
<1>1. [missions[m] EXCEPT !.state = "RUNNING", !.pv = PlannedVersion(m), !.exec = NewExecution,
                          !.bt = TRUE, !.text = NoText] \in MissionRecord
  <2>1. missions[m] \in MissionRecord /\ NewExecution \in Nat
    BY BoundAssumption DEF ManagerTypeOK, NewExecution
  <2>2. PlannedVersion(m) \in Nat
    BY <2>1 DEF PlannedVersion, MissionRecord, NextVersion
  <2> QED
    BY <2>1, <2>2 DEF MissionRecord, State, Text
<1>2. NewExecution \in 0 .. MaxExecution
  BY BoundAssumption DEF ManagerTypeOK, SetPlan, NewExecution
<1> QED
  BY <1>1, <1>2 DEF ManagerTypeOK, SetPlan

LEMMA EndType ==
  ASSUME ManagerTypeOK, NEW m \in Mission, NEW state \in Ended, End(m, state)
  PROVE  ManagerTypeOK'
<1> DEFINE ended == [missions EXCEPT ![m] = [@ EXCEPT !.state = state, !.text = NoText]]
<1>1. ended \in [Mission -> MissionRecord]
  BY DEF ManagerTypeOK, MissionRecord, State, Text
<1>2. Promoted(ended) \in [Mission -> MissionRecord]
  BY <1>1, PromotedType
<1>3. SlotAfter(ended, NoMission) \in Mission \cup {NoMission}
  BY <1>1, PromotedType
<1> QED
  BY <1>1, <1>2, <1>3 DEF ManagerTypeOK, End, Text

LEMMA RequestReplanType ==
  ASSUME ManagerTypeOK, NEW m \in Mission, RequestReplan(m)
  PROVE  ManagerTypeOK'
<1>1. missions[m] \in MissionRecord /\ NextVersion(m) \in Nat
  BY DEF ManagerTypeOK, MissionRecord, NextVersion
<1>2. [missions[m] EXCEPT !.state = "PLANNING", !.pv = NextVersion(m), !.exec = 0,
                          !.bt = FALSE, !.text = NoText] \in MissionRecord
  BY <1>1 DEF MissionRecord, State, Text
<1> QED
  BY <1>2 DEF ManagerTypeOK, RequestReplan

LEMMA MarkTerminalType ==
  ASSUME ManagerTypeOK, NEW m \in Mission, NEW state, MarkTerminal(m, state)
  PROVE  ManagerTypeOK'
  BY EndType DEF MarkTerminal, Outcomes, Ended

LEMMA EnterPauseType ==
  ASSUME ManagerTypeOK, NEW m \in Mission, NEW reason \in Reason, EnterPause(m, reason)
  PROVE  ManagerTypeOK'
<1> DEFINE paused == [missions EXCEPT ![m] = [@ EXCEPT
                        !.state = "PAUSED", !.text = OrDefault(reason, "paused")]]
<1>1. paused \in [Mission -> MissionRecord]
  BY PauseText DEF ManagerTypeOK, MissionRecord, State
<1>2. Promoted(paused) \in [Mission -> MissionRecord]
  BY <1>1, PromotedType
<1>3. SlotAfter(paused, m) \in Mission \cup {NoMission}
  BY <1>1, PromotedType
<1> QED
  BY <1>1, <1>2, <1>3 DEF ManagerTypeOK, EnterPause

LEMMA PauseType ==
  ASSUME ManagerTypeOK, NEW m \in Mission, NEW reason \in Reason, Pause(m, reason)
  PROVE  ManagerTypeOK'
<1>1. CASE UNCHANGED managerVars
  BY <1>1 DEF ManagerTypeOK, managerVars
<1>2. CASE MarkTerminal(m, "BLOCKED")
  BY <1>2, MarkTerminalType
<1>3. CASE EnterPause(m, reason)
  BY <1>3, EnterPauseType
<1> QED
  BY <1>1, <1>2, <1>3 DEF Pause

LEMMA ResumeType ==
  ASSUME ManagerTypeOK, NEW m \in Mission, Resume(m)
  PROVE  ManagerTypeOK'
<1> DEFINE runs == ResumedState(m) = "RUNNING"
           resumed == [missions[m] EXCEPT !.state = ResumedState(m),
                                          !.exec = IF runs THEN NewExecution ELSE missions[m].exec,
                                          !.text = NoText]
<1>1. missions[m] \in MissionRecord /\ execs \in Nat /\ NewExecution \in Nat
  BY BoundAssumption DEF ManagerTypeOK, NewExecution
<1>2. resumed \in MissionRecord
  <2>1. ResumedState(m) \in State
    BY DEF ResumedState, State
  <2> QED
    BY <1>1, <2>1 DEF MissionRecord, Text
<1>3. execs' \in 0 .. MaxExecution
  <2>1. runs => execs < MaxExecution
    BY DEF Resume
  <2>2. execs' = IF runs THEN NewExecution ELSE execs
    BY DEF Resume
  <2> QED
    BY <2>1, <2>2, BoundAssumption DEF ManagerTypeOK, NewExecution
<1>4. missions' = [missions EXCEPT ![m] = resumed]
  BY DEF Resume
<1>5. resumedFrom' \in [Mission -> Text]
  <2>1. missions[m].text \in Text /\ NoText \in Text
    BY <1>1 DEF MissionRecord, Text
  <2> QED
    BY <2>1 DEF ManagerTypeOK, Resume
<1>6. active' \in Mission \cup {NoMission}
  BY DEF ManagerTypeOK, Resume
<1> QED
  BY <1>2, <1>3, <1>4, <1>5, <1>6 DEF ManagerTypeOK

LEMMA ReprioritizeType ==
  ASSUME ManagerTypeOK, NEW m \in Mission, NEW prio \in PriorityArg,
         NEW preempt \in BOOLEAN, NEW reason \in Reason,
         Reprioritize(m, prio, preempt, reason)
  PROVE  ManagerTypeOK'
<1>1. Reprioritized(m, prio, reason) \in MissionRecord
  <2>1. missions[m] \in MissionRecord /\ Clamp(prio) \in Priority
    BY ClampType, ArgumentAssumption DEF ManagerTypeOK
  <2>2. OrDefault(reason, missions[m].text) \in Text
    BY <2>1, ArgumentAssumption DEF OrDefault, Text, MissionRecord, NoText
  <2> QED
    BY <2>1, <2>2 DEF Reprioritized, MissionRecord
<1>2. CASE ~Preempts(m, prio, preempt)
  BY <1>1, <1>2 DEF Reprioritize, ManagerTypeOK
<1>3. CASE Preempts(m, prio, preempt)
  <2>1. active \in Mission
    BY <1>3 DEF Preempts, ManagerTypeOK
  <2>2. [missions[active] EXCEPT !.state = "QUEUED", !.pv = NextVersion(active), !.exec = 0,
                                 !.bt = FALSE, !.text = NoText] \in MissionRecord
    <3>1. missions[active] \in MissionRecord /\ NextVersion(active) \in Nat
      BY <2>1 DEF ManagerTypeOK, MissionRecord, NextVersion
    <3> QED
      BY <3>1 DEF MissionRecord, State, Text
  <2>3. [Reprioritized(m, prio, reason) EXCEPT !.state = "PLANNING", !.bt = FALSE]
          \in MissionRecord
    BY <1>1 DEF MissionRecord, State
  <2> QED
    BY <1>3, <2>1, <2>2, <2>3 DEF Reprioritize, ManagerTypeOK
<1> QED
  BY <1>2, <1>3

LEMMA UpdateStatusType ==
  ASSUME ManagerTypeOK, NEW m \in Mission, UpdateStatus(m)
  PROVE  ManagerTypeOK'
<1>1. missions[m] \in MissionRecord
  BY DEF ManagerTypeOK
<1>2. [missions[m] EXCEPT !.text = IF missions[m].state = "PAUSED" THEN "running" ELSE @]
        \in MissionRecord
  BY <1>1 DEF MissionRecord, Text
<1> QED
  BY <1>2 DEF ManagerTypeOK, UpdateStatus

\* What is proved of any call, with any end, holds of the calls the runs make.
LEMMA AnyCall == [ManagerNext]_managerVars => [Calls(Outcomes)]_managerVars
  BY ArgumentAssumption DEF ManagerNext, Calls

LEMMA TypeInit == ManagerInit => ManagerTypeOK
  BY BoundAssumption
     DEF ManagerInit, ManagerTypeOK, Absent, MissionRecord, State, Priority, Text, NoText

LEMMA TypeStep ==
  ASSUME ManagerTypeOK, [Calls(Outcomes)]_managerVars
  PROVE  ManagerTypeOK'
<1>1. CASE UNCHANGED managerVars
  BY <1>1 DEF ManagerTypeOK, managerVars
<1>2. CASE Calls(Outcomes)
  BY <1>2, SubmitType, SetPlanType, RequestReplanType, PauseType, ResumeType,
     ReprioritizeType, EndType, MarkTerminalType, UpdateStatusType
     DEF Calls, Cancel, Ended
<1> QED
  BY <1>1, <1>2

\* The invariant of types: whatever is called in whatever order, the records, the
\* slot, the guards and the counter of execution ids keep their types and bounds.
THEOREM TypeCorrect == ManagerSpec => []ManagerTypeOK
<1>1. ManagerTypeOK /\ [ManagerNext]_managerVars => ManagerTypeOK'
  BY TypeStep, AnyCall
<1> QED
  BY <1>1, TypeInit, PTL DEF ManagerSpec

-----------------------------------------------------------------------------
(* The slot *)

SlotInv == ActiveIsOpen /\ IdleSlotHasNoQueue

\* What a hand-over does: nothing without a queue, and otherwise the first mission
\* of the queue gets the slot and starts planning.
LEMMA HandOver ==
  ASSUME NEW ms \in [Mission -> MissionRecord], NEW idle
  PROVE  \/ Queued(ms) = {} /\ Promoted(ms) = ms /\ SlotAfter(ms, idle) = idle
         \/ \E q \in Queued(ms) :
              /\ SlotAfter(ms, idle) = q
              /\ Promoted(ms) = [ms EXCEPT ![q].state = "PLANNING"]
              /\ \A n \in Queued(ms) \ {q} : Outranks(ms, q, n)
<1>1. CASE Queued(ms) = {}
  BY <1>1 DEF Promoted, SlotAfter
<1>2. CASE Queued(ms) # {}
  <2>1. /\ NextQueued(ms) \in Queued(ms)
        /\ \A n \in Queued(ms) \ {NextQueued(ms)} : Outranks(ms, NextQueued(ms), n)
    BY <1>2, NextQueuedIsBest
  <2>2. /\ SlotAfter(ms, idle) = NextQueued(ms)
        /\ Promoted(ms) = [ms EXCEPT ![NextQueued(ms)].state = "PLANNING"]
    BY <1>2 DEF Promoted, SlotAfter
  <2> QED
    BY <2>1, <2>2, Zenon
<1> QED
  BY <1>1, <1>2

\* Handing the slot over leaves it on a mission that plans, or, with an empty
\* queue, where the caller says.
LEMMA HandOverSlot ==
  ASSUME NEW ms \in [Mission -> MissionRecord], NEW idle,
         missions' = Promoted(ms), active' = SlotAfter(ms, idle),
         idle # NoMission => idle \in Mission /\ ms[idle].state = "PAUSED"
  PROVE  SlotInv'
<1>1. CASE Queued(ms) = {} /\ Promoted(ms) = ms /\ SlotAfter(ms, idle) = idle
  BY <1>1 DEF SlotInv, ActiveIsOpen, IdleSlotHasNoQueue
<1>2. ASSUME NEW q \in Queued(ms), SlotAfter(ms, idle) = q,
             Promoted(ms) = [ms EXCEPT ![q].state = "PLANNING"]
      PROVE  SlotInv'
  <2>1. q \in Mission /\ q # NoMission
    BY MissionAssumption DEF Queued
  <2>2. missions'[q].state = "PLANNING"
    BY <1>2, <2>1 DEF MissionRecord
  <2> QED
    BY <1>2, <2>1, <2>2 DEF SlotInv, ActiveIsOpen, IdleSlotHasNoQueue
<1> QED
  BY <1>1, <1>2, HandOver

LEMMA EndSlot ==
  ASSUME ManagerTypeOK, SlotInv, NEW m \in Mission, NEW state \in Ended, End(m, state)
  PROVE  SlotInv'
<1> DEFINE ended == [missions EXCEPT ![m] = [@ EXCEPT !.state = state, !.text = NoText]]
<1>1. ended \in [Mission -> MissionRecord]
  BY DEF ManagerTypeOK, MissionRecord, State, Text
<1>2. CASE active = m
  BY <1>1, <1>2, HandOverSlot DEF End
<1>3. CASE active # m
  <2>1. missions' = ended /\ active' = active
    BY <1>3 DEF End
  <2>2. \A n \in Mission \ {m} : missions'[n] = missions[n]
    BY <2>1 DEF ManagerTypeOK
  <2>3. missions'[m].state = state
    BY <2>1 DEF ManagerTypeOK, MissionRecord
  <2>4. Queued(missions') \subseteq Queued(missions)
    BY <2>2, <2>3 DEF Queued, Ended
  <2> QED
    BY <1>3, <2>1, <2>2, <2>4 DEF SlotInv, ActiveIsOpen, IdleSlotHasNoQueue, ManagerTypeOK
<1> QED
  BY <1>2, <1>3

LEMMA EnterPauseSlot ==
  ASSUME ManagerTypeOK, SlotInv, NEW m \in Mission, NEW reason \in Reason,
         EnterPause(m, reason), Open(m)
  PROVE  SlotInv'
<1> DEFINE paused == [missions EXCEPT ![m] = [@ EXCEPT
                        !.state = "PAUSED", !.text = OrDefault(reason, "paused")]]
<1>1. paused \in [Mission -> MissionRecord] /\ paused[m].state = "PAUSED"
  BY PauseText DEF ManagerTypeOK, MissionRecord, State
<1>2. CASE active = m
  <2>1. missions' = Promoted(paused) /\ active' = SlotAfter(paused, m)
    BY <1>2 DEF EnterPause
  <2> HIDE DEF paused
  <2> QED
    BY <1>1, <2>1, HandOverSlot
<1>3. CASE active # m
  <2>1. missions' = paused /\ active' = active
    BY <1>3 DEF EnterPause
  <2>2. \A n \in Mission \ {m} : missions'[n] = missions[n]
    BY <2>1 DEF ManagerTypeOK
  <2>3. Queued(missions') \subseteq Queued(missions)
    BY <1>1, <2>1, <2>2 DEF Queued
  <2> QED
    BY <1>3, <2>1, <2>2, <2>3 DEF SlotInv, ActiveIsOpen, IdleSlotHasNoQueue, ManagerTypeOK
<1> QED
  BY <1>2, <1>3

\* The methods that put the slot on the mission they are called for.
LEMMA TakenSlot ==
  ASSUME NEW m \in Mission, active' = m,
         missions'[m].state \in {"PLANNING", "RUNNING", "PAUSED"}
  PROVE  SlotInv'
  BY MissionAssumption DEF SlotInv, ActiveIsOpen, IdleSlotHasNoQueue

LEMMA SubmitSlot ==
  ASSUME ManagerTypeOK, SlotInv, NEW m \in Mission, NEW prio \in PriorityArg,
         NEW allowQueue \in BOOLEAN, Submit(m, prio, allowQueue)
  PROVE  SlotInv'
<1>1. missions'[m].state = IF SlotBusy THEN "QUEUED" ELSE "PLANNING"
  BY DEF Submit, ManagerTypeOK, Absent
<1>2. CASE ~SlotBusy
  BY <1>1, <1>2, TakenSlot DEF Submit
<1>3. CASE SlotBusy
  <2>1. active' = active /\ active \in Mission /\ active # NoMission
    BY <1>3 DEF Submit, SlotBusy, ManagerTypeOK
  <2>2. active # m
    BY <2>1 DEF Submit, Stored, SlotInv, ActiveIsOpen
  <2>3. missions'[active] = missions[active]
    BY <2>1, <2>2 DEF Submit, ManagerTypeOK
  <2> QED
    BY <2>1, <2>3 DEF SlotInv, ActiveIsOpen, IdleSlotHasNoQueue
<1> QED
  BY <1>2, <1>3

LEMMA SetPlanSlot ==
  ASSUME ManagerTypeOK, NEW m \in Mission, SetPlan(m)
  PROVE  SlotInv'
<1>1. missions'[m].state = "RUNNING"
  BY DEF SetPlan, ManagerTypeOK, MissionRecord
<1> QED
  BY <1>1, TakenSlot DEF SetPlan

LEMMA RequestReplanSlot ==
  ASSUME ManagerTypeOK, NEW m \in Mission, RequestReplan(m)
  PROVE  SlotInv'
<1>1. missions'[m].state = "PLANNING"
  BY DEF RequestReplan, ManagerTypeOK, MissionRecord
<1> QED
  BY <1>1, TakenSlot DEF RequestReplan

LEMMA ResumeSlot ==
  ASSUME ManagerTypeOK, SlotInv, NEW m \in Mission, Resume(m)
  PROVE  SlotInv'
<1>1. /\ missions'[m].state = ResumedState(m)
      /\ \A n \in Mission \ {m} : missions'[n] = missions[n]
  BY DEF Resume, ManagerTypeOK, MissionRecord
<1>2. CASE SlotFreeFor(m)
  <2>1. ResumedState(m) \in {"PLANNING", "RUNNING"} /\ active' = m
    BY <1>2 DEF ResumedState, Resume
  <2> QED
    BY <1>1, <2>1, TakenSlot
<1>3. CASE ~SlotFreeFor(m)
  <2>1. active' = active /\ active \in Mission \ {m} /\ active # NoMission
    BY <1>3 DEF Resume, SlotFreeFor, ManagerTypeOK
  <2> QED
    BY <1>1, <2>1 DEF SlotInv, ActiveIsOpen, IdleSlotHasNoQueue
<1> QED
  BY <1>2, <1>3

LEMMA ReprioritizeSlot ==
  ASSUME ManagerTypeOK, SlotInv, NEW m \in Mission, NEW prio \in PriorityArg,
         NEW preempt \in BOOLEAN, NEW reason \in Reason,
         Reprioritize(m, prio, preempt, reason)
  PROVE  SlotInv'
<1>1. Reprioritized(m, prio, reason).state = missions[m].state
  BY DEF Reprioritized, ManagerTypeOK, MissionRecord
<1>2. CASE ~Preempts(m, prio, preempt)
  <2>1. missions' = [missions EXCEPT ![m] = Reprioritized(m, prio, reason)] /\ active' = active
    BY <1>2 DEF Reprioritize
  <2>2. \A n \in Mission : missions'[n].state = missions[n].state
    BY <1>1, <2>1 DEF ManagerTypeOK
  <2> QED
    BY <2>1, <2>2 DEF SlotInv, ActiveIsOpen, IdleSlotHasNoQueue, Queued, ManagerTypeOK
<1>3. CASE Preempts(m, prio, preempt)
  <2>1. /\ active' = m
        /\ missions'[m] = [Reprioritized(m, prio, reason) EXCEPT !.state = "PLANNING",
                                                                 !.bt = FALSE]
    BY <1>3 DEF Reprioritize, ManagerTypeOK
  <2>2. missions'[m].state = "PLANNING"
    BY <2>1 DEF Reprioritized, ManagerTypeOK, MissionRecord
  <2> QED
    BY <2>1, <2>2, TakenSlot
<1> QED
  BY <1>2, <1>3

LEMMA UpdateStatusSlot ==
  ASSUME ManagerTypeOK, SlotInv, NEW m \in Mission, UpdateStatus(m)
  PROVE  SlotInv'
<1>1. active' = active /\ \A n \in Mission : missions'[n].state = missions[n].state
  BY DEF UpdateStatus, ManagerTypeOK, MissionRecord
<1> QED
  BY <1>1 DEF SlotInv, ActiveIsOpen, IdleSlotHasNoQueue, Queued, ManagerTypeOK

LEMMA SlotInit == ManagerInit => SlotInv
  BY DEF ManagerInit, SlotInv, ActiveIsOpen, IdleSlotHasNoQueue, Queued, Absent

LEMMA SlotStep ==
  ASSUME ManagerTypeOK, SlotInv, [Calls(Outcomes)]_managerVars
  PROVE  SlotInv'
<1>1. CASE UNCHANGED managerVars
  BY <1>1 DEF SlotInv, ActiveIsOpen, IdleSlotHasNoQueue, Queued, managerVars
<1>2. CASE Calls(Outcomes)
  <2>1. ASSUME NEW m \in Mission, NEW reason \in Reason, Pause(m, reason)
        PROVE  SlotInv'
    BY <1>1, <2>1, EndSlot, EnterPauseSlot DEF Pause, MarkTerminal, Outcomes, Ended
  <2>2. ASSUME NEW m \in Mission, NEW state \in Outcomes, MarkTerminal(m, state)
        PROVE  SlotInv'
    BY <2>2, EndSlot DEF MarkTerminal, Outcomes, Ended
  <2>3. ASSUME NEW m \in Mission, Cancel(m)
        PROVE  SlotInv'
    BY <2>3, EndSlot DEF Cancel, Ended
  <2> QED
    BY <1>2, <2>1, <2>2, <2>3, SubmitSlot, SetPlanSlot, RequestReplanSlot, ResumeSlot,
       ReprioritizeSlot, UpdateStatusSlot DEF Calls
<1> QED
  BY <1>1, <1>2

LEMMA SlotInvHolds == ManagerSpec => []SlotInv
<1>1. ManagerTypeOK /\ SlotInv /\ [ManagerNext]_managerVars => SlotInv'
  BY SlotStep, AnyCall
<1> QED
  BY <1>1, SlotInit, TypeCorrect, PTL DEF ManagerSpec

\* Whoever holds the slot is planning, running or paused: no hand-over of cancel,
\* mark_terminal, pause or reprioritize leaves it on a mission that cannot use it.
THEOREM HolderCorrect == ManagerSpec => []ActiveIsOpen
<1>1. SlotInv => ActiveIsOpen
  BY DEF SlotInv
<1> QED
  BY <1>1, SlotInvHolds, PTL

\* An empty slot means an empty queue: not to be shown without HolderCorrect, since
\* submit() queues a mission only behind a holder, and a hand-over clears the slot
\* only without a queue.
THEOREM SlotCorrect == ManagerSpec => []IdleSlotHasNoQueue
<1>1. SlotInv => IdleSlotHasNoQueue
  BY DEF SlotInv
<1> QED
  BY <1>1, SlotInvHolds, PTL

-----------------------------------------------------------------------------
(* Ended missions *)

\* A hand-over changes the record of a queued mission only.
LEMMA HandOverKeeps ==
  ASSUME NEW ms \in [Mission -> MissionRecord], NEW m \in Mission, ms[m].state # "QUEUED"
  PROVE  Promoted(ms)[m] = ms[m]
<1>1. ASSUME NEW q \in Queued(ms), Promoted(ms) = [ms EXCEPT ![q].state = "PLANNING"]
      PROVE  Promoted(ms)[m] = ms[m]
  BY <1>1 DEF Queued
<1> QED
  BY <1>1, HandOver

\* The two methods that end in a hand-over.
LEMMA EndKeepsEnded ==
  ASSUME ManagerTypeOK, NEW m \in Mission, Open(m), NEW state \in Ended, End(m, state)
  PROVE  EndedStays
<1> DEFINE ended == [missions EXCEPT ![m] = [@ EXCEPT !.state = state, !.text = NoText]]
<1>1. ended \in [Mission -> MissionRecord]
  BY DEF ManagerTypeOK, MissionRecord, State, Text
<1>2. ASSUME NEW n \in Mission, missions[n].state \in Ended
      PROVE  missions'[n] = missions[n]
  <2>1. ended[n] = missions[n] /\ ended[n].state # "QUEUED"
    BY <1>2 DEF Open, Ended, ManagerTypeOK
  <2>2. missions' = Promoted(ended) \/ missions' = ended
    BY DEF End
  <2> HIDE DEF ended
  <2> QED
    BY <1>1, <2>1, <2>2, HandOverKeeps
<1> QED
  BY <1>2 DEF EndedStays

LEMMA EnterPauseKeepsEnded ==
  ASSUME ManagerTypeOK, NEW m \in Mission, Open(m), NEW reason \in Reason,
         EnterPause(m, reason)
  PROVE  EndedStays
<1> DEFINE paused == [missions EXCEPT ![m] = [@ EXCEPT
                        !.state = "PAUSED", !.text = OrDefault(reason, "paused")]]
<1>1. paused \in [Mission -> MissionRecord]
  BY PauseText DEF ManagerTypeOK, MissionRecord, State
<1>2. ASSUME NEW n \in Mission, missions[n].state \in Ended
      PROVE  missions'[n] = missions[n]
  <2>1. paused[n] = missions[n] /\ paused[n].state # "QUEUED"
    BY <1>2 DEF Open, Ended, ManagerTypeOK
  <2>2. missions' = Promoted(paused) \/ missions' = paused
    BY DEF EnterPause
  <2> HIDE DEF paused
  <2> QED
    BY <1>1, <2>1, <2>2, HandOverKeeps
<1> QED
  BY <1>2 DEF EndedStays

\* Each method changes only missions that are open, not yet stored or queued.
LEMMA EndedStaysStep ==
  ASSUME ManagerTypeOK, Calls(Outcomes)
  PROVE  EndedStays
<1>1. ASSUME NEW m \in Mission, NEW prio \in PriorityArg, NEW allowQueue \in BOOLEAN,
             Submit(m, prio, allowQueue)
      PROVE  EndedStays
  BY <1>1 DEF EndedStays, Submit, Stored, Ended, ManagerTypeOK
<1>2. ASSUME NEW m \in Mission, SetPlan(m) \/ RequestReplan(m) \/ UpdateStatus(m)
      PROVE  EndedStays
  BY <1>2 DEF EndedStays, SetPlan, RequestReplan, UpdateStatus, Open, ManagerTypeOK
<1>3. ASSUME NEW m \in Mission, NEW reason \in Reason, Pause(m, reason)
      PROVE  EndedStays
  <2>1. CASE UNCHANGED managerVars
    BY <2>1 DEF EndedStays, managerVars
  <2>2. CASE MarkTerminal(m, "BLOCKED")
    BY <2>2, EndKeepsEnded DEF MarkTerminal, Ended
  <2>3. CASE EnterPause(m, reason)
    BY <1>3, <2>3, EnterPauseKeepsEnded DEF Pause
  <2> QED
    BY <1>3, <2>1, <2>2, <2>3 DEF Pause
<1>4. ASSUME NEW m \in Mission, Resume(m)
      PROVE  EndedStays
  BY <1>4 DEF EndedStays, Resume, Ended, ManagerTypeOK
<1>5. ASSUME NEW m \in Mission, NEW prio \in PriorityArg, NEW preempt \in BOOLEAN,
             NEW reason \in Reason, Reprioritize(m, prio, preempt, reason)
      PROVE  EndedStays
  <2>1. CASE ~Preempts(m, prio, preempt)
    BY <1>5, <2>1 DEF EndedStays, Reprioritize, Open, ManagerTypeOK
  <2>2. CASE Preempts(m, prio, preempt)
    BY <1>5, <2>2 DEF EndedStays, Reprioritize, Preempts, Open, ManagerTypeOK
  <2> QED
    BY <2>1, <2>2
<1>6. ASSUME NEW m \in Mission, Cancel(m)
      PROVE  EndedStays
  BY <1>6, EndKeepsEnded DEF Cancel, Ended
<1>7. ASSUME NEW m \in Mission, NEW state \in Outcomes, MarkTerminal(m, state)
      PROVE  EndedStays
  BY <1>7, EndKeepsEnded DEF MarkTerminal, Outcomes, Ended
<1> QED
  BY <1>1, <1>2, <1>3, <1>4, <1>5, <1>6, <1>7 DEF Calls
\* No method touches the record of an ended mission, whichever mission it is called
\* for.
THEOREM TerminalCorrect == ManagerSpec => TerminalIsFinal
<1>1. ManagerTypeOK /\ [ManagerNext]_managerVars => [EndedStays]_managerVars
  BY EndedStaysStep, AnyCall DEF EndedStays, managerVars
<1> QED
  BY <1>1, TypeCorrect, PTL DEF ManagerSpec, TerminalIsFinal

-----------------------------------------------------------------------------
(* Identities, plans and guards *)

\* A step leaves the identity and the plan of n alone.
Kept(n) ==
  /\ missions'[n].pv = missions[n].pv
  /\ missions'[n].exec = missions[n].exec
  /\ missions'[n].bt = missions[n].bt

\* A step leaves the state of n alone, or promotes it from the queue.
KeptOrPromoted(n) ==
  \/ missions'[n] = missions[n]
  \/ missions[n].state = "QUEUED" /\ missions'[n].state = "PLANNING"

\* What leaving the slot does to every record: the mission that leaves gets its
\* state, at most one other is promoted, and nobody's identity or plan changes.
LEMMA LeaveRecords ==
  ASSUME ManagerTypeOK, NEW m \in Mission, NEW s \in State, NEW t \in Text, s # "QUEUED",
         \/ missions' = [missions EXCEPT ![m] = [@ EXCEPT !.state = s, !.text = t]]
         \/ missions' = Promoted([missions EXCEPT ![m] = [@ EXCEPT !.state = s, !.text = t]])
  PROVE  /\ \A n \in Mission : Kept(n)
         /\ missions'[m].state = s
         /\ \A n \in Mission \ {m} : KeptOrPromoted(n)
<1> DEFINE left == [missions EXCEPT ![m] = [@ EXCEPT !.state = s, !.text = t]]
<1>1. /\ left \in [Mission -> MissionRecord]
      /\ left[m].state = s
      /\ \A n \in Mission \ {m} : left[n] = missions[n]
      /\ \A n \in Mission : /\ left[n].pv = missions[n].pv
                            /\ left[n].exec = missions[n].exec
                            /\ left[n].bt = missions[n].bt
  BY DEF ManagerTypeOK, MissionRecord
<1>2. CASE missions' = left
  BY <1>1, <1>2 DEF Kept, KeptOrPromoted
<1>3. CASE missions' = Promoted(left)
  <2> HIDE DEF left
  <2>1. CASE Promoted(left) = left
    BY <1>1, <1>3, <2>1 DEF Kept, KeptOrPromoted
  <2>2. ASSUME NEW q \in Queued(left), Promoted(left) = [left EXCEPT ![q].state = "PLANNING"]
        PROVE  /\ \A n \in Mission : Kept(n)
               /\ missions'[m].state = s
               /\ \A n \in Mission \ {m} : KeptOrPromoted(n)
    <3>1. q \in Mission /\ q # m /\ missions[q].state = "QUEUED"
      BY <1>1 DEF Queued
    <3>2. /\ missions'[q].state = "PLANNING"
          /\ missions'[q].pv = left[q].pv
          /\ missions'[q].exec = left[q].exec
          /\ missions'[q].bt = left[q].bt
          /\ \A n \in Mission \ {q} : missions'[n] = left[n]
      BY <1>1, <1>3, <2>2, <3>1 DEF MissionRecord
    <3> QED
      BY <1>1, <3>1, <3>2 DEF Kept, KeptOrPromoted
  <2> QED
    BY <1>1, <2>1, <2>2, HandOver
<1> QED
  BY <1>2, <1>3

LEMMA EndRecords ==
  ASSUME ManagerTypeOK, NEW m \in Mission, NEW state \in Ended, End(m, state)
  PROVE  /\ \A n \in Mission : Kept(n)
         /\ missions'[m].state = state
         /\ \A n \in Mission \ {m} : KeptOrPromoted(n)
         /\ execs' = execs
         /\ resumedFrom' = [resumedFrom EXCEPT ![m] = NoText]
<1>1. state \in State /\ state # "QUEUED" /\ NoText \in Text
  BY DEF State, Ended, Text
<1>2. \/ missions' = [missions EXCEPT ![m] = [@ EXCEPT !.state = state, !.text = NoText]]
      \/ missions' = Promoted([missions EXCEPT ![m] = [@ EXCEPT !.state = state, !.text = NoText]])
  BY DEF End
<1>3. execs' = execs /\ resumedFrom' = [resumedFrom EXCEPT ![m] = NoText]
  BY DEF End
<1> QED
  BY <1>1, <1>2, <1>3, LeaveRecords

LEMMA EnterPauseRecords ==
  ASSUME ManagerTypeOK, NEW m \in Mission, NEW reason \in Reason, EnterPause(m, reason)
  PROVE  /\ \A n \in Mission : Kept(n)
         /\ missions'[m].state = "PAUSED"
         /\ \A n \in Mission \ {m} : KeptOrPromoted(n)
         /\ execs' = execs
         /\ resumedFrom' = resumedFrom
<1> DEFINE t == OrDefault(reason, "paused")
<1>1. "PAUSED" \in State /\ t \in Text
  BY PauseText DEF State
<1>2. \/ missions' = [missions EXCEPT ![m] = [@ EXCEPT !.state = "PAUSED", !.text = t]]
      \/ missions' = Promoted([missions EXCEPT ![m] = [@ EXCEPT !.state = "PAUSED", !.text = t]])
  BY DEF EnterPause
<1>3. execs' = execs /\ resumedFrom' = resumedFrom
  BY DEF EnterPause
<1> HIDE DEF t
<1> QED
  BY <1>1, <1>2, <1>3, LeaveRecords

\* The other methods, record by record.
LEMMA SubmitRecords ==
  ASSUME ManagerTypeOK, NEW m \in Mission, NEW prio \in PriorityArg, NEW allowQueue \in BOOLEAN,
         Submit(m, prio, allowQueue)
  PROVE  /\ missions'[m].pv = 0 /\ missions'[m].exec = 0 /\ ~missions'[m].bt
         /\ missions'[m].state \in {"QUEUED", "PLANNING"}
         /\ \A n \in Mission \ {m} : missions'[n] = missions[n]
         /\ execs' = execs /\ resumedFrom' = resumedFrom
  BY DEF Submit, ManagerTypeOK, Absent

LEMMA SetPlanRecords ==
  ASSUME ManagerTypeOK, NEW m \in Mission, SetPlan(m)
  PROVE  /\ missions'[m].pv = PlannedVersion(m) /\ missions'[m].exec = NewExecution
         /\ missions'[m].bt /\ missions'[m].state = "RUNNING"
         /\ \A n \in Mission \ {m} : missions'[n] = missions[n]
         /\ execs' = NewExecution /\ resumedFrom' = resumedFrom
  BY DEF SetPlan, ManagerTypeOK, MissionRecord

LEMMA RequestReplanRecords ==
  ASSUME ManagerTypeOK, NEW m \in Mission, RequestReplan(m)
  PROVE  /\ missions'[m].pv = NextVersion(m) /\ missions'[m].exec = 0
         /\ ~missions'[m].bt /\ missions'[m].state = "PLANNING"
         /\ \A n \in Mission \ {m} : missions'[n] = missions[n]
         /\ execs' = execs /\ resumedFrom' = resumedFrom
  BY DEF RequestReplan, ManagerTypeOK, MissionRecord

LEMMA ResumeRecords ==
  ASSUME ManagerTypeOK, NEW m \in Mission, Resume(m)
  PROVE  /\ missions'[m].pv = missions[m].pv /\ missions'[m].bt = missions[m].bt
         /\ missions'[m].state = ResumedState(m)
         /\ \A n \in Mission \ {m} : missions'[n] = missions[n] /\ resumedFrom'[n] = resumedFrom[n]
         /\ \/ /\ ResumedState(m) = "RUNNING"
               /\ missions'[m].exec = NewExecution /\ execs' = NewExecution
            \/ /\ ResumedState(m) # "RUNNING"
               /\ missions'[m].exec = missions[m].exec /\ execs' = execs
  BY DEF Resume, ManagerTypeOK, MissionRecord

\* Preemption apart, reprioritize() changes no identity, plan or state.
LEMMA ReprioritizeRecords ==
  ASSUME ManagerTypeOK, NEW m \in Mission, NEW prio \in PriorityArg, NEW preempt \in BOOLEAN,
         NEW reason \in Reason, Reprioritize(m, prio, preempt, reason)
  PROVE  /\ Kept(m) \/ Preempts(m, prio, preempt)
         /\ missions'[m].pv = missions[m].pv /\ missions'[m].exec = missions[m].exec
         /\ \A n \in Mission \ {m} :
              missions'[n] = missions[n] \/ (Preempts(m, prio, preempt) /\ n = active)
         /\ ~Preempts(m, prio, preempt) => missions'[m].state = missions[m].state
         /\ Preempts(m, prio, preempt) =>
              /\ active \in Mission /\ active # m /\ Open(active)
              /\ missions[m].state = "QUEUED"
              /\ missions'[m].state = "PLANNING" /\ ~missions'[m].bt
              /\ missions'[active].pv = NextVersion(active) /\ missions'[active].exec = 0
              /\ ~missions'[active].bt /\ missions'[active].state = "QUEUED"
         /\ execs' = execs /\ resumedFrom' = resumedFrom
<1> DEFINE r == Reprioritized(m, prio, reason)
<1>1. /\ r.pv = missions[m].pv /\ r.exec = missions[m].exec
      /\ r.bt = missions[m].bt /\ r.state = missions[m].state
  BY DEF Reprioritized, ManagerTypeOK, MissionRecord
<1>2. execs' = execs /\ resumedFrom' = resumedFrom
  BY DEF Reprioritize
<1>3. CASE ~Preempts(m, prio, preempt)
  <2>1. missions' = [missions EXCEPT ![m] = r]
    BY <1>3 DEF Reprioritize
  <2> HIDE DEF r
  <2> QED
    BY <1>1, <1>2, <1>3, <2>1 DEF Kept, ManagerTypeOK
<1>4. CASE Preempts(m, prio, preempt)
  <2>1. active \in Mission /\ active # m /\ Open(active) /\ missions[m].state = "QUEUED"
    BY <1>4 DEF Preempts, ManagerTypeOK
  <2>2. missions'[m] = [r EXCEPT !.state = "PLANNING", !.bt = FALSE]
    BY <1>4, <2>1 DEF Reprioritize, ManagerTypeOK
  <2>3. missions'[active] = [missions[active] EXCEPT
                               !.state = "QUEUED", !.pv = NextVersion(active), !.exec = 0,
                               !.bt = FALSE, !.text = NoText]
    BY <1>4, <2>1 DEF Reprioritize, ManagerTypeOK
  <2>4. \A n \in Mission \ {m, active} : missions'[n] = missions[n]
    BY <1>4, <2>1 DEF Reprioritize, ManagerTypeOK
  <2>5. /\ missions'[m].pv = missions[m].pv /\ missions'[m].exec = missions[m].exec
        /\ missions'[m].state = "PLANNING" /\ ~missions'[m].bt
    BY <2>2 DEF Reprioritized, ManagerTypeOK, MissionRecord
  <2>6. /\ missions'[active].pv = NextVersion(active) /\ missions'[active].exec = 0
        /\ ~missions'[active].bt /\ missions'[active].state = "QUEUED"
    BY <2>1, <2>3 DEF ManagerTypeOK, MissionRecord
  <2> QED
    BY <1>2, <1>4, <2>1, <2>4, <2>5, <2>6
<1> QED
  BY <1>3, <1>4

LEMMA UpdateStatusRecords ==
  ASSUME ManagerTypeOK, NEW m \in Mission, UpdateStatus(m)
  PROVE  /\ Kept(m) /\ missions'[m].state = missions[m].state
         /\ \A n \in Mission \ {m} : missions'[n] = missions[n]
         /\ execs' = execs /\ resumedFrom' = resumedFrom
  BY DEF UpdateStatus, Kept, ManagerTypeOK, MissionRecord

\* An id never submitted has the empty record: no identity waits for it.
UnknownIsAbsent == \A m \in Mission : ~Stored(m) => missions[m] = Absent

\* Leaving the slot keeps every plan executable: the records keep their identities
\* and plans, and nobody starts running.
LEMMA LeaveExecutable ==
  ASSUME RunningIsExecutable, NEW m \in Mission,
         \A n \in Mission : Kept(n), missions'[m].state # "RUNNING",
         \A n \in Mission \ {m} : KeptOrPromoted(n), execs' = execs
  PROVE  RunningIsExecutable'
<1>1. \A n \in Mission : missions'[n].state = "RUNNING" => missions[n].state = "RUNNING"
  BY DEF KeptOrPromoted
<1> QED
  BY <1>1 DEF RunningIsExecutable, Kept

LEMMA PauseCases ==
  ASSUME NEW m \in Mission, NEW reason \in Reason, Pause(m, reason)
  PROVE  \/ UNCHANGED managerVars
         \/ Open(m) /\ End(m, "BLOCKED")
         \/ /\ Open(m) /\ missions[m].state # "PAUSED"
            /\ EnterPause(m, reason)
  BY DEF Pause, MarkTerminal

LEMMA ExecutableStep ==
  ASSUME ManagerTypeOK, RunningIsExecutable, [Calls(Outcomes)]_managerVars
  PROVE  RunningIsExecutable'
<1>1. execs \in Nat /\ NewExecution = execs + 1
  BY BoundAssumption DEF ManagerTypeOK, NewExecution
<1>2. \A n \in Mission : /\ missions[n].pv \in Nat /\ missions[n].exec \in Nat
                         /\ missions[n].bt \in BOOLEAN
  BY DEF ManagerTypeOK, MissionRecord
<1>3. CASE UNCHANGED managerVars
  BY <1>3 DEF RunningIsExecutable, managerVars
<1>4. ASSUME NEW m \in Mission, NEW prio \in PriorityArg, NEW allowQueue \in BOOLEAN,
             Submit(m, prio, allowQueue)
      PROVE  RunningIsExecutable'
  BY <1>1, <1>4, SubmitRecords DEF RunningIsExecutable
<1>5. ASSUME NEW m \in Mission, SetPlan(m)
      PROVE  RunningIsExecutable'
  <2>1. PlannedVersion(m) > 0
    BY <1>2 DEF PlannedVersion, NextVersion
  <2> QED
    BY <1>1, <1>2, <1>5, <2>1, SetPlanRecords DEF RunningIsExecutable
<1>6. ASSUME NEW m \in Mission, RequestReplan(m)
      PROVE  RunningIsExecutable'
  BY <1>1, <1>6, RequestReplanRecords DEF RunningIsExecutable
<1>7. ASSUME NEW m \in Mission, NEW reason \in Reason, Pause(m, reason)
      PROVE  RunningIsExecutable'
  <2>1. CASE End(m, "BLOCKED")
    BY <2>1, EndRecords, LeaveExecutable DEF Ended
  <2>2. CASE EnterPause(m, reason)
    BY <2>2, EnterPauseRecords, LeaveExecutable
  <2> QED
    BY <1>3, <1>7, <2>1, <2>2, PauseCases
<1>8. ASSUME NEW m \in Mission, Resume(m)
      PROVE  RunningIsExecutable'
  <2>1. ResumedState(m) = "RUNNING" => missions[m].bt
    BY DEF ResumedState
  <2> QED
    BY <1>1, <1>2, <1>8, <2>1, ResumeRecords DEF RunningIsExecutable
<1>9. ASSUME NEW m \in Mission, NEW prio \in PriorityArg, NEW preempt \in BOOLEAN,
             NEW reason \in Reason, Reprioritize(m, prio, preempt, reason)
      PROVE  RunningIsExecutable'
  <2>1. CASE ~Preempts(m, prio, preempt)
    BY <1>9, <2>1, ReprioritizeRecords DEF RunningIsExecutable, Kept
  <2>2. CASE Preempts(m, prio, preempt)
    BY <1>1, <1>2, <1>9, <2>2, ReprioritizeRecords DEF RunningIsExecutable
  <2> QED
    BY <2>1, <2>2
<1>10. ASSUME NEW m \in Mission, NEW state \in Ended, End(m, state)
       PROVE  RunningIsExecutable'
  BY <1>10, EndRecords, LeaveExecutable DEF Ended
<1>11. ASSUME NEW m \in Mission, UpdateStatus(m)
       PROVE  RunningIsExecutable'
  BY <1>11, UpdateStatusRecords DEF RunningIsExecutable, Kept
<1> QED
  BY <1>3, <1>4, <1>5, <1>6, <1>7, <1>8, <1>9, <1>10, <1>11
     DEF Calls, Cancel, MarkTerminal, Outcomes, Ended

\* What a step may do to one record and its guard, as far as UnknownIsAbsent and
\* GuardOnlyForOpen are concerned: an unknown id stays as it is, an open mission
\* stays open or loses its guard, and only an open mission gets a guard.
Guarded(n) ==
  /\ missions'[n].state = "UNKNOWN" => missions'[n] = missions[n]
  /\ \/ resumedFrom'[n] = NoText
     \/ Open(n)'
     \/ resumedFrom'[n] = resumedFrom[n] /\ ~Open(n)

LEMMA GuardedStep ==
  ASSUME ManagerTypeOK, [Calls(Outcomes)]_managerVars
  PROVE  \A n \in Mission : Guarded(n)
<1>1. CASE UNCHANGED managerVars
  BY <1>1 DEF Guarded, managerVars, Open, Stored
<1>2. ASSUME NEW m \in Mission, \A n \in Mission \ {m} : KeptOrPromoted(n),
             resumedFrom' = resumedFrom, missions'[m].state \in State \ (Ended \cup {"UNKNOWN"})
      PROVE  \A n \in Mission : Guarded(n)
  BY <1>2 DEF Guarded, KeptOrPromoted, Open, Stored, Ended, State
<1>3. ASSUME NEW m \in Mission, NEW prio \in PriorityArg, NEW allowQueue \in BOOLEAN,
             Submit(m, prio, allowQueue)
      PROVE  \A n \in Mission : Guarded(n)
  BY <1>2, <1>3, SubmitRecords DEF KeptOrPromoted, State, Ended
<1>4. ASSUME NEW m \in Mission, SetPlan(m)
      PROVE  \A n \in Mission : Guarded(n)
  BY <1>2, <1>4, SetPlanRecords DEF KeptOrPromoted, State, Ended
<1>5. ASSUME NEW m \in Mission, RequestReplan(m)
      PROVE  \A n \in Mission : Guarded(n)
  BY <1>2, <1>5, RequestReplanRecords DEF KeptOrPromoted, State, Ended
<1>6. ASSUME NEW m \in Mission, NEW state \in Ended, End(m, state)
      PROVE  \A n \in Mission : Guarded(n)
  <2>1. resumedFrom'[m] = NoText /\ \A n \in Mission \ {m} : resumedFrom'[n] = resumedFrom[n]
    BY <1>6, EndRecords DEF ManagerTypeOK
  <2> QED
    BY <1>6, <2>1, EndRecords DEF Guarded, KeptOrPromoted, Open, Stored, Ended
<1>7. ASSUME NEW m \in Mission, NEW reason \in Reason, Pause(m, reason)
      PROVE  \A n \in Mission : Guarded(n)
  <2>1. CASE EnterPause(m, reason)
    BY <1>2, <2>1, EnterPauseRecords DEF State, Ended
  <2> QED
    BY <1>1, <1>6, <1>7, <2>1, PauseCases DEF Ended
<1>8. ASSUME NEW m \in Mission, Resume(m)
      PROVE  \A n \in Mission : Guarded(n)
  <2>1. ResumedState(m) \in {"QUEUED", "PLANNING", "RUNNING"}
    BY DEF ResumedState
  <2> QED
    BY <1>8, <2>1, ResumeRecords DEF Guarded, Open, Stored, Ended
<1>9. ASSUME NEW m \in Mission, NEW prio \in PriorityArg, NEW preempt \in BOOLEAN,
             NEW reason \in Reason, Reprioritize(m, prio, preempt, reason)
      PROVE  \A n \in Mission : Guarded(n)
  <2>1. Open(m) /\ missions[m].state \in State
    BY <1>9 DEF Reprioritize, ManagerTypeOK, MissionRecord
  <2>2. CASE ~Preempts(m, prio, preempt)
    BY <1>2, <1>9, <2>1, <2>2, ReprioritizeRecords DEF KeptOrPromoted, Open, Stored
  <2>3. CASE Preempts(m, prio, preempt)
    BY <1>9, <2>3, ReprioritizeRecords DEF Guarded, Open, Stored, Ended
  <2> QED
    BY <2>2, <2>3
<1>10. ASSUME NEW m \in Mission, UpdateStatus(m)
       PROVE  \A n \in Mission : Guarded(n)
  <2>1. Open(m) /\ missions[m].state \in State
    BY <1>10 DEF UpdateStatus, ManagerTypeOK, MissionRecord
  <2> QED
    BY <1>2, <1>10, <2>1, UpdateStatusRecords DEF KeptOrPromoted, Open, Stored
<1> QED
  BY <1>1, <1>3, <1>4, <1>5, <1>6, <1>7, <1>8, <1>9, <1>10
     DEF Calls, Cancel, MarkTerminal, Outcomes, Ended

IdentityInv == RunningIsExecutable /\ GuardOnlyForOpen /\ UnknownIsAbsent

LEMMA IdentityInvStep ==
  ASSUME ManagerTypeOK, IdentityInv, [Calls(Outcomes)]_managerVars
  PROVE  IdentityInv'
<1>1. RunningIsExecutable'
  BY ExecutableStep DEF IdentityInv
<1>2. \A n \in Mission : Guarded(n)
  BY GuardedStep
<1>3. GuardOnlyForOpen'
  BY <1>2 DEF IdentityInv, GuardOnlyForOpen, Guarded
<1>4. UnknownIsAbsent'
  BY <1>2 DEF IdentityInv, UnknownIsAbsent, Guarded, Stored
<1> QED
  BY <1>1, <1>3, <1>4 DEF IdentityInv

LEMMA IdentityInit == ManagerInit => IdentityInv
  BY DEF ManagerInit, IdentityInv, RunningIsExecutable, GuardOnlyForOpen, UnknownIsAbsent,
         Absent, NoText

LEMMA IdentityInvHolds == ManagerSpec => []IdentityInv
<1>1. ManagerTypeOK /\ IdentityInv /\ [ManagerNext]_managerVars => IdentityInv'
  BY IdentityInvStep, AnyCall
<1> QED
  BY <1>1, IdentityInit, TypeCorrect, PTL DEF ManagerSpec

\* A mission runs only a plan it has, under a reserved version and an execution id
\* of its own.
THEOREM IdentityCorrect == ManagerSpec => []RunningIsExecutable
<1>1. IdentityInv => RunningIsExecutable
  BY DEF IdentityInv
<1> QED
  BY <1>1, IdentityInvHolds, PTL

\* Only an open mission keeps a guard against identical re-pauses.
THEOREM GuardCorrect == ManagerSpec => []GuardOnlyForOpen
<1>1. IdentityInv => GuardOnlyForOpen
  BY DEF IdentityInv
<1> QED
  BY <1>1, IdentityInvHolds, PTL

\* What IdentityAdvances asks of one record.
Advances(n) ==
  \/ missions'[n].pv > missions[n].pv
  \/ /\ missions'[n].pv = missions[n].pv
     /\ missions'[n].exec = missions[n].exec \/ missions'[n].exec > execs

\* Replanning and planning only go up: a reserved version is the next one, and a
\* plan runs under an execution id that nobody was given before.
LEMMA AdvancesStep ==
  ASSUME ManagerTypeOK, UnknownIsAbsent, Calls(Outcomes)
  PROVE  \A n \in Mission : Advances(n)
<1>1. \A n \in Mission : missions[n].pv \in Nat /\ NextVersion(n) > missions[n].pv
  BY DEF ManagerTypeOK, MissionRecord, NextVersion
<1>2. NewExecution > execs
  BY BoundAssumption DEF ManagerTypeOK, NewExecution
<1>3. \A n \in Mission : Kept(n) \/ missions'[n] = missions[n] => Advances(n)
  BY DEF Kept, Advances
<1>4. ASSUME NEW m \in Mission, NEW prio \in PriorityArg, NEW allowQueue \in BOOLEAN,
             Submit(m, prio, allowQueue)
      PROVE  \A n \in Mission : Advances(n)
  <2>1. missions[m].pv = 0 /\ missions[m].exec = 0
    BY <1>4 DEF Submit, UnknownIsAbsent, Absent
  <2> QED
    BY <1>3, <1>4, <2>1, SubmitRecords DEF Advances
<1>5. ASSUME NEW m \in Mission, SetPlan(m)
      PROVE  \A n \in Mission : Advances(n)
  <2>1. PlannedVersion(m) \in {missions[m].pv, NextVersion(m)}
    BY DEF PlannedVersion
  <2> QED
    BY <1>1, <1>2, <1>3, <1>5, <2>1, SetPlanRecords DEF Advances
<1>6. ASSUME NEW m \in Mission, RequestReplan(m)
      PROVE  \A n \in Mission : Advances(n)
  BY <1>1, <1>3, <1>6, RequestReplanRecords DEF Advances
<1>7. ASSUME NEW m \in Mission, NEW state \in Ended, End(m, state)
      PROVE  \A n \in Mission : Advances(n)
  BY <1>3, <1>7, EndRecords
<1>8. ASSUME NEW m \in Mission, NEW reason \in Reason, Pause(m, reason)
      PROVE  \A n \in Mission : Advances(n)
  BY <1>3, <1>7, <1>8, PauseCases, EnterPauseRecords DEF managerVars, Ended
<1>9. ASSUME NEW m \in Mission, Resume(m)
      PROVE  \A n \in Mission : Advances(n)
  BY <1>2, <1>3, <1>9, ResumeRecords DEF Advances
<1>10. ASSUME NEW m \in Mission, NEW prio \in PriorityArg, NEW preempt \in BOOLEAN,
              NEW reason \in Reason, Reprioritize(m, prio, preempt, reason)
       PROVE  \A n \in Mission : Advances(n)
  <2>1. Preempts(m, prio, preempt) => Advances(active)
    BY <1>1, <1>10, ReprioritizeRecords DEF Advances
  <2>2. Advances(m)
    BY <1>10, ReprioritizeRecords DEF Advances
  <2> QED
    BY <1>3, <1>10, <2>1, <2>2, ReprioritizeRecords
<1>11. ASSUME NEW m \in Mission, UpdateStatus(m)
       PROVE  \A n \in Mission : Advances(n)
  BY <1>3, <1>11, UpdateStatusRecords
<1> QED
  BY <1>4, <1>5, <1>6, <1>7, <1>8, <1>9, <1>10, <1>11
     DEF Calls, Cancel, MarkTerminal, Outcomes, Ended

\* A plan version or execution id that a mission has left never comes back.
THEOREM IdentityAdvancesCorrect == ManagerSpec => IdentityAdvances
<1>1. ManagerTypeOK /\ IdentityInv /\ [ManagerNext]_managerVars =>
        [IdentityAdvancesStep]_managerVars
  BY AdvancesStep, AnyCall DEF IdentityInv, IdentityAdvancesStep, Advances, managerVars
<1> QED
  BY <1>1, TypeCorrect, IdentityInvHolds, PTL DEF ManagerSpec, IdentityAdvances

-----------------------------------------------------------------------------
(* The order of the queue *)

\* When the holder of the slot leaves it, the mission promoted is the best of the
\* queue the step started from: the holder itself was not in that queue.
LEMMA LeavePromotesBest ==
  ASSUME ManagerTypeOK, SlotInv, NEW m \in Mission, NEW s \in State, NEW t \in Text,
         s \notin {"QUEUED", "PLANNING"},
         \/ missions' = [missions EXCEPT ![m] = [@ EXCEPT !.state = s, !.text = t]]
         \/ /\ active = m
            /\ missions' = Promoted([missions EXCEPT ![m] = [@ EXCEPT !.state = s, !.text = t]])
  PROVE  PromotesBestQueuedStep
<1> DEFINE left == [missions EXCEPT ![m] = [@ EXCEPT !.state = s, !.text = t]]
<1>1. /\ left \in [Mission -> MissionRecord]
      /\ left[m].state = s
      /\ \A n \in Mission \ {m} : left[n] = missions[n]
  BY DEF ManagerTypeOK, MissionRecord
<1>2. CASE missions' = left \/ (missions' = Promoted(left) /\ Promoted(left) = left)
  BY <1>1, <1>2 DEF PromotesBestQueuedStep, Queued
<1>3. ASSUME missions' = Promoted(left), active = m, NEW q \in Queued(left),
             Promoted(left) = [left EXCEPT ![q].state = "PLANNING"],
             \A n \in Queued(left) \ {q} : Outranks(left, q, n)
      PROVE  PromotesBestQueuedStep
  <2> HIDE DEF left
  <2>1. q \in Mission /\ q # m
    BY <1>1 DEF Queued
  <2>2. m \notin Queued(missions)
    BY <1>3, MissionAssumption DEF SlotInv, ActiveIsOpen, Queued
  <2>3. Queued(missions) = Queued(left)
    BY <1>1, <2>2 DEF Queued
  <2>4. \A n \in Queued(missions) \ {q} : Outranks(missions, q, n)
    BY <1>1, <1>3, <2>1, <2>2, <2>3 DEF Outranks, Queued
  <2>5. \A n \in Queued(missions) \ {q} : missions'[n].state = "QUEUED"
    BY <1>1, <1>3, <2>2 DEF Queued
  <2> QED
    BY <2>4, <2>5 DEF PromotesBestQueuedStep
<1> HIDE DEF left
<1>4. missions' = left \/ (active = m /\ missions' = Promoted(left))
  BY DEF left
<1> QED
  BY <1>1, <1>2, <1>3, <1>4, HandOver

\* A step after which the queue holds everyone it held promotes nobody.
LEMMA NobodyPromoted ==
  ASSUME \A n \in Queued(missions) : missions'[n].state # "PLANNING"
  PROVE  PromotesBestQueuedStep
  BY DEF PromotesBestQueuedStep

LEMMA EndPromotesBest ==
  ASSUME ManagerTypeOK, SlotInv, NEW m \in Mission, NEW state \in Ended, End(m, state)
  PROVE  PromotesBestQueuedStep
<1>1. state \in State /\ state \notin {"QUEUED", "PLANNING"} /\ NoText \in Text
  BY DEF State, Ended, Text
<1>2. \/ missions' = [missions EXCEPT ![m] = [@ EXCEPT !.state = state, !.text = NoText]]
      \/ /\ active = m
         /\ missions' = Promoted([missions EXCEPT ![m] =
                                    [@ EXCEPT !.state = state, !.text = NoText]])
  BY DEF End
<1> QED
  BY <1>1, <1>2, LeavePromotesBest

LEMMA EnterPausePromotesBest ==
  ASSUME ManagerTypeOK, SlotInv, NEW m \in Mission, NEW reason \in Reason,
         EnterPause(m, reason)
  PROVE  PromotesBestQueuedStep
<1> DEFINE t == OrDefault(reason, "paused")
<1>1. "PAUSED" \in State /\ t \in Text
  BY PauseText DEF State
<1>2. \/ missions' = [missions EXCEPT ![m] = [@ EXCEPT !.state = "PAUSED", !.text = t]]
      \/ /\ active = m
         /\ missions' = Promoted([missions EXCEPT ![m] =
                                    [@ EXCEPT !.state = "PAUSED", !.text = t]])
  BY DEF EnterPause
<1> HIDE DEF t
<1> QED
  BY <1>1, <1>2, LeavePromotesBest

\* reprioritize() takes the slot only for a mission of a higher priority.
LEMMA ReprioritizePromotesBest ==
  ASSUME ManagerTypeOK, NEW m \in Mission, NEW prio \in PriorityArg, NEW preempt \in BOOLEAN,
         NEW reason \in Reason, Reprioritize(m, prio, preempt, reason)
  PROVE  PromotesBestQueuedStep
<1>1. CASE ~Preempts(m, prio, preempt)
  BY <1>1, ReprioritizeRecords, NobodyPromoted DEF Queued
<1>2. CASE Preempts(m, prio, preempt)
  <2>1. /\ active \in Mission /\ active # NoMission /\ active # m
        /\ Clamp(prio) > missions[active].prio
    BY <1>2 DEF Preempts, ManagerTypeOK
  <2>2. missions'[m].prio = Clamp(prio)
    <3>1. missions'[m] = [Reprioritized(m, prio, reason) EXCEPT !.state = "PLANNING",
                                                                !.bt = FALSE]
      BY <1>2, <2>1 DEF Reprioritize, ManagerTypeOK
    <3> DEFINE c == Clamp(prio)
               t == IF missions[m].state = "PAUSED"
                    THEN OrDefault(reason, missions[m].text) ELSE missions[m].text
    <3>2. Reprioritized(m, prio, reason) = [missions[m] EXCEPT !.prio = c, !.text = t]
      BY DEF Reprioritized
    <3> HIDE DEF c, t
    <3>3. missions'[m].prio = c
      BY <3>1, <3>2 DEF ManagerTypeOK, MissionRecord
    <3> QED
      BY <3>3 DEF c
  <2>3. missions'[active].prio = missions[active].prio
    BY <1>2, <2>1 DEF Reprioritize, ManagerTypeOK, MissionRecord
  <2>4. missions'[active].state = "QUEUED"
    BY <1>2, ReprioritizeRecords
  <2>5. \A n \in Queued(missions) \ {m} : missions'[n].state # "PLANNING"
    BY <1>2, <2>4, ReprioritizeRecords DEF Queued
  <2> QED
    BY <2>1, <2>2, <2>3, <2>4, <2>5 DEF PromotesBestQueuedStep
<1> QED
  BY <1>1, <1>2

LEMMA PromotesStep ==
  ASSUME ManagerTypeOK, SlotInv, Calls(Outcomes)
  PROVE  PromotesBestQueuedStep
<1>1. ASSUME NEW m \in Mission, NEW prio \in PriorityArg, NEW allowQueue \in BOOLEAN,
             Submit(m, prio, allowQueue)
      PROVE  PromotesBestQueuedStep
  <2>1. m \notin Queued(missions)
    BY <1>1 DEF Submit, Stored, Queued
  <2> QED
    BY <1>1, <2>1, SubmitRecords, NobodyPromoted DEF Queued
<1>2. ASSUME NEW m \in Mission, SetPlan(m)
      PROVE  PromotesBestQueuedStep
  BY <1>2, SetPlanRecords, NobodyPromoted DEF Queued
<1>3. ASSUME NEW m \in Mission, RequestReplan(m)
      PROVE  PromotesBestQueuedStep
  BY <1>3, RequestReplanRecords DEF PromotesBestQueuedStep, Queued
<1>4. ASSUME NEW m \in Mission, NEW state \in Ended, End(m, state)
      PROVE  PromotesBestQueuedStep
  BY <1>4, EndPromotesBest
<1>5. ASSUME NEW m \in Mission, NEW reason \in Reason, Pause(m, reason)
      PROVE  PromotesBestQueuedStep
  <2>1. CASE UNCHANGED managerVars
    BY <2>1, NobodyPromoted DEF managerVars, Queued
  <2> QED
    BY <1>4, <1>5, <2>1, PauseCases, EnterPausePromotesBest DEF Ended
<1>6. ASSUME NEW m \in Mission, Resume(m)
      PROVE  PromotesBestQueuedStep
  <2>1. m \notin Queued(missions)
    BY <1>6 DEF Resume, Queued
  <2> QED
    BY <1>6, <2>1, ResumeRecords, NobodyPromoted DEF Queued
<1>7. ASSUME NEW m \in Mission, NEW prio \in PriorityArg, NEW preempt \in BOOLEAN,
             NEW reason \in Reason, Reprioritize(m, prio, preempt, reason)
      PROVE  PromotesBestQueuedStep
  BY <1>7, ReprioritizePromotesBest
<1>8. ASSUME NEW m \in Mission, UpdateStatus(m)
      PROVE  PromotesBestQueuedStep
  BY <1>8, UpdateStatusRecords, NobodyPromoted DEF Queued
<1> QED
  BY <1>1, <1>2, <1>3, <1>4, <1>5, <1>6, <1>7, <1>8
     DEF Calls, Cancel, MarkTerminal, Outcomes, Ended

\* A queued mission starts planning only as the best of its queue, in place of a
\* mission it outranks, or because its own replan was asked for.
THEOREM PromotionCorrect == ManagerSpec => PromotesBestQueued
<1>1. ManagerTypeOK /\ SlotInv /\ [ManagerNext]_managerVars =>
        [PromotesBestQueuedStep]_managerVars
  BY PromotesStep, AnyCall, NobodyPromoted DEF managerVars, Queued
<1> QED
  BY <1>1, TypeCorrect, SlotInvHolds, PTL DEF ManagerSpec, PromotesBestQueued

-----------------------------------------------------------------------------
(* The table under any caller *)

TableInv == ManagerTypeOK /\ SlotInv /\ IdentityInv

\* Whoever marks whichever end, the three parts of the invariant hold.
LEMMA TableInvStep == TableInv /\ [Calls(Outcomes)]_managerVars => TableInv'
  BY TypeStep, SlotStep, IdentityInvStep DEF TableInv

LEMMA TableInvHolds == TableSpec => []TableInv
<1>1. ManagerInit => TableInv
  BY TypeInit, SlotInit, IdentityInit DEF TableInv
<1> QED
  BY <1>1, TableInvStep, PTL DEF TableSpec

-----------------------------------------------------------------------------
(* What a call does to one record *)

Waits(m) == missions[m].state \in {"QUEUED", "PLANNING", "PAUSED"}

Same(n) == Kept(n) /\ missions'[n].state = missions[n].state

\* A queued mission gets the slot: by promotion, or by preemption without its plan.
GetsSlot(n) ==
  /\ missions[n].state = "QUEUED" /\ missions'[n].state = "PLANNING"
  /\ missions'[n].pv = missions[n].pv /\ missions'[n].exec = missions[n].exec
  /\ missions'[n].bt => missions[n].bt

Ends(n) == Kept(n) /\ Open(n) /\ missions'[n].state \in Ended

\* A resume that does not run the plan.
Requeues(n) ==
  /\ Kept(n) /\ missions[n].state = "PAUSED"
  /\ missions'[n].state \in {"QUEUED", "PLANNING"}

LosesPlan(n) ==
  /\ Open(n) /\ missions'[n].state \in {"QUEUED", "PLANNING"}
  /\ missions'[n].pv = missions[n].pv + 1 /\ missions'[n].exec = 0 /\ ~missions'[n].bt

StartsRunning(n) ==
  /\ Open(n) /\ missions'[n].state = "RUNNING"
  /\ missions'[n].pv >= missions[n].pv
  /\ missions'[n].exec = execs + 1 /\ execs' = execs + 1

Appears(n) ==
  /\ missions[n].state = "UNKNOWN" /\ missions'[n].state \in {"QUEUED", "PLANNING"}
  /\ missions'[n].pv = 0 /\ missions'[n].exec = 0 /\ ~missions'[n].bt

Moves(n) ==
  \/ Same(n)
  \/ GetsSlot(n)
  \/ Ends(n)
  \/ Requeues(n)
  \/ LosesPlan(n)
  \/ StartsRunning(n)

BecomesPaused(n) ==
  Kept(n) /\ Open(n) /\ missions[n].state # "PAUSED" /\ missions'[n].state = "PAUSED"

\* Only one execution id is drawn at a time, and only to run a mission.
Draws ==
  \/ execs' = execs
  \/ execs' = execs + 1 /\ \E m \in Mission : StartsRunning(m)

\* Leaving the slot moves the mission that leaves and promotes at most one other.
LEMMA PromotionMoves ==
  ASSUME NEW n \in Mission, Kept(n), KeptOrPromoted(n)
  PROVE  Moves(n)
  BY DEF KeptOrPromoted, Moves, Same, GetsSlot, Kept

LEMMA EndMoves ==
  ASSUME ManagerTypeOK, NEW m \in Mission, Open(m), NEW state \in Ended, End(m, state)
  PROVE  (\A n \in Mission : Moves(n)) /\ execs' = execs
<1>1. Ends(m)
  BY EndRecords DEF Ends
<1> QED
  BY <1>1, EndRecords, PromotionMoves DEF Moves

\* Every method but submit() and pause().
OtherCalls(ends) ==
  \E m \in Mission :
    \/ SetPlan(m)
    \/ RequestReplan(m)
    \/ Resume(m)
    \/ \E prio \in PriorityArg, preempt \in BOOLEAN, reason \in Reason :
         Reprioritize(m, prio, preempt, reason)
    \/ Cancel(m)
    \/ \E state \in ends : MarkTerminal(m, state)
    \/ UpdateStatus(m)

LEMMA SetPlanRuns ==
  ASSUME ManagerTypeOK, NEW m \in Mission, SetPlan(m)
  PROVE  StartsRunning(m)
<1>1. missions[m].pv \in Nat /\ NextVersion(m) = missions[m].pv + 1 /\ NewExecution = execs + 1
  BY DEF ManagerTypeOK, MissionRecord, NextVersion, NewExecution
<1>2. PlannedVersion(m) >= missions[m].pv
  BY <1>1 DEF PlannedVersion
<1> QED
  BY <1>1, <1>2, SetPlanRecords DEF StartsRunning, SetPlan

\* What a method other than these two may do to a record.
LEMMA OtherCallsMove ==
  ASSUME TableInv, OtherCalls(Outcomes)
  PROVE  (\A n \in Mission : Moves(n)) /\ Draws
<1> USE DEF TableInv
<1>1. execs \in Nat /\ NewExecution = execs + 1
  BY BoundAssumption DEF ManagerTypeOK, NewExecution
<1>2. \A n \in Mission : missions[n].pv \in Nat /\ NextVersion(n) = missions[n].pv + 1
  BY DEF ManagerTypeOK, MissionRecord, NextVersion
<1>3. \A n \in Mission : missions'[n] = missions[n] => Moves(n)
  BY DEF Moves, Same, Kept
<1>4. ASSUME NEW m \in Mission, SetPlan(m)
      PROVE  (\A n \in Mission : Moves(n)) /\ Draws
  BY <1>1, <1>3, <1>4, SetPlanRuns, SetPlanRecords DEF Moves, Draws
<1>5. ASSUME NEW m \in Mission, RequestReplan(m)
      PROVE  (\A n \in Mission : Moves(n)) /\ Draws
  <2>1. LosesPlan(m)
    BY <1>2, <1>5, RequestReplanRecords DEF LosesPlan, RequestReplan
  <2> QED
    BY <1>3, <1>5, <2>1, RequestReplanRecords DEF Moves, Draws
<1>6. ASSUME NEW m \in Mission, Resume(m)
      PROVE  (\A n \in Mission : Moves(n)) /\ Draws
  <2>1. missions[m].state = "PAUSED" /\ Open(m)
    BY <1>6 DEF Resume, Open, Stored, Ended
  <2>2. CASE ResumedState(m) = "RUNNING"
    <3>1. StartsRunning(m)
      BY <1>1, <1>2, <1>6, <2>1, <2>2, ResumeRecords DEF StartsRunning
    <3> QED
      BY <1>1, <1>3, <1>6, <2>2, <3>1, ResumeRecords DEF Moves, Draws
  <2>3. CASE ResumedState(m) # "RUNNING"
    <3>1. ResumedState(m) \in {"QUEUED", "PLANNING"}
      BY <2>3 DEF ResumedState
    <3>2. Requeues(m)
      BY <1>6, <2>1, <2>3, <3>1, ResumeRecords DEF Requeues, Kept
    <3> QED
      BY <1>3, <1>6, <2>3, <3>2, ResumeRecords DEF Moves, Draws
  <2> QED
    BY <2>2, <2>3
<1>7. ASSUME NEW m \in Mission, NEW prio \in PriorityArg, NEW preempt \in BOOLEAN,
             NEW reason \in Reason, Reprioritize(m, prio, preempt, reason)
      PROVE  (\A n \in Mission : Moves(n)) /\ Draws
  <2>1. CASE ~Preempts(m, prio, preempt)
    <3>1. Same(m)
      BY <1>7, <2>1, ReprioritizeRecords DEF Same
    <3> QED
      BY <1>3, <1>7, <2>1, <3>1, ReprioritizeRecords DEF Moves, Draws
  <2>2. CASE Preempts(m, prio, preempt)
    <3>1. GetsSlot(m)
      BY <1>7, <2>2, ReprioritizeRecords DEF GetsSlot
    <3>2. LosesPlan(active)
      BY <1>2, <1>7, <2>2, ReprioritizeRecords DEF LosesPlan
    <3> QED
      BY <1>3, <1>7, <2>2, <3>1, <3>2, ReprioritizeRecords DEF Moves, Draws
  <2> QED
    BY <2>1, <2>2
<1>8. ASSUME NEW m \in Mission, UpdateStatus(m)
      PROVE  (\A n \in Mission : Moves(n)) /\ Draws
  <2>1. Same(m)
    BY <1>8, UpdateStatusRecords DEF Same
  <2> QED
    BY <1>3, <1>8, <2>1, UpdateStatusRecords DEF Moves, Draws
<1>9. ASSUME NEW m \in Mission, Open(m), NEW state \in Ended, End(m, state)
       PROVE  (\A n \in Mission : Moves(n)) /\ Draws
  BY <1>9, EndMoves DEF Draws
<1> QED
  BY <1>4, <1>5, <1>6, <1>7, <1>8, <1>9
     DEF OtherCalls, Cancel, MarkTerminal, Outcomes, Ended

\* A submission makes one record appear.
LEMMA SubmitMoves ==
  ASSUME ManagerTypeOK, NEW m \in Mission, NEW prio \in PriorityArg,
         NEW allowQueue \in BOOLEAN, Submit(m, prio, allowQueue)
  PROVE  /\ Appears(m) /\ execs' = execs
         /\ \A n \in Mission \ {m} : missions'[n] = missions[n]
  BY SubmitRecords DEF Appears, Submit, Stored

\* A pause moves its own mission to PAUSED or, on a repeated reason, to its end.
LEMMA PauseMoves ==
  ASSUME ManagerTypeOK, NEW m \in Mission, NEW reason \in Reason, Pause(m, reason)
  PROVE  /\ \A n \in Mission \ {m} : Moves(n)
         /\ Moves(m) \/ BecomesPaused(m)
         /\ execs' = execs
<1>1. CASE UNCHANGED managerVars
  BY <1>1 DEF managerVars, Moves, Same, Kept
<1>2. CASE Open(m) /\ End(m, "BLOCKED")
  BY <1>2, EndMoves DEF Ended
<1>3. CASE Open(m) /\ missions[m].state # "PAUSED" /\ EnterPause(m, reason)
  BY <1>3, EnterPauseRecords, PromotionMoves DEF BecomesPaused
<1> QED
  BY <1>1, <1>2, <1>3, PauseCases

LEMMA CallsMove ==
  ASSUME TableInv, [Calls(Outcomes)]_managerVars
  PROVE  (\A n \in Mission : Moves(n) \/ Appears(n) \/ BecomesPaused(n)) /\ Draws
<1>1. CASE UNCHANGED managerVars
  BY <1>1 DEF managerVars, Moves, Same, Kept, Draws
<1>2. CASE OtherCalls(Outcomes)
  BY <1>2, OtherCallsMove
<1>3. ASSUME NEW m \in Mission, NEW reason \in Reason, Pause(m, reason)
      PROVE  (\A n \in Mission : Moves(n) \/ BecomesPaused(n)) /\ Draws
  BY <1>3, PauseMoves DEF Draws, TableInv
<1>4. ASSUME NEW m \in Mission, NEW prio \in PriorityArg, NEW allowQueue \in BOOLEAN,
             Submit(m, prio, allowQueue)
      PROVE  (\A n \in Mission : Moves(n) \/ Appears(n)) /\ Draws
  BY <1>4, SubmitMoves DEF Draws, TableInv, Moves, Same, Kept
<1> QED
  BY <1>1, <1>2, <1>3, <1>4 DEF Calls, OtherCalls

\* No call but submit() makes a record appear, and none makes one disappear.
LEMMA StoredKept ==
  ASSUME NEW n \in Mission, Moves(n) \/ BecomesPaused(n)
  PROVE  Stored(n)' <=> Stored(n)
  BY DEF Moves, Same, Kept, GetsSlot, Ends, Requeues, LosesPlan, StartsRunning, BecomesPaused,
         Stored, Open, Ended

=============================================================================
