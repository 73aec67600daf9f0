------------------------- MODULE ConfirmationServer -------------------------
(***************************************************************************)
(* HumanConfirmationServer (src/mc_ai_bt/confirmation_server.py): an       *)
(* action server whose goals wait for an operator.  Its callbacks run in   *)
(* a reentrant group, so the goal callback, the thread that waits for each *)
(* goal and the threads of the operators' service calls interleave; _lock  *)
(* protects the table of pending requests, and each request has a lock of  *)
(* its own for its decision.                                               *)
(*                                                                         *)
(* "goal" and "cancel" are the states ROS keeps of every action goal, also *)
(* of those that go to other action servers (SkillCalls).                  *)
(***************************************************************************)
EXTENDS Integers

CONSTANTS
  Goals,        \* the action goals clients may send
  RequestIds,   \* the request ids they may carry, as they are written
  Stripped,     \* each id without the blanks around it; None if nothing is left
  Missions,     \* the missions they may be for
  Operators,    \* service calls of operators that may overlap
  OperatorDecisions,    \* what operators may answer
  None

ASSUME DecisionsAssumption == OperatorDecisions \subseteq {"APPROVED", "DENIED", "CANCELED"}
ASSUME NoneAssumption == None \notin Goals \cup RequestIds
ASSUME StrippedAssumption ==
  /\ Stripped \in [RequestIds -> RequestIds \cup {None}]
  /\ \A id \in RequestIds : Stripped[id] \in RequestIds => Stripped[Stripped[id]] = Stripped[id]

VARIABLES
  requestId,    \* the id each goal carries; a plan may give two the same
  missionOf,    \* the mission in the identity of each goal
  goal,         \* the state of each goal: "none" before it is sent
  cancel,       \* the cancel request of each goal: "none", "sent" or "accepted"
  serving,      \* where the thread of each goal is
  registry,     \* _pending: request id, as it is written -> goal
  decision,     \* PendingConfirmation.decision
  outcome,      \* what _execute returns
  operator,     \* the request an operator's call found
  answer        \* the decision an operator was acknowledged

requestVars == <<requestId, missionOf>>
serverVars == <<serving, registry, decision, outcome, operator, answer>>

Accepted(g) == goal[g] \notin {"none", "sent", "rejected"}
Ended(g) == goal[g] \in {"succeeded", "canceled", "aborted"}

ServerInit ==
  /\ goal = [g \in Goals |-> "none"]
  /\ cancel = [g \in Goals |-> "none"]
  /\ serving = [g \in Goals |-> "none"]
  /\ registry = [id \in RequestIds |-> None]
  /\ decision = [g \in Goals |-> "UNKNOWN"]
  /\ outcome = [g \in Goals |-> "UNKNOWN"]
  /\ operator = [o \in Operators |-> None]
  /\ answer = [g \in Goals |-> "UNKNOWN"]

-----------------------------------------------------------------------------
(* The action *)

\* What an id is looked up as: entries are made under the id as it is written, but
\* the goal callback and the operators' service strip it.
Found(id) == IF Stripped[id] = None THEN None ELSE registry[Stripped[id]]

\* The id is looked up here and entered by another thread: two goals with one
\* id may both be accepted.  An id of blanks only is refused.
GoalCallback(g) ==
  /\ goal[g] = "sent"
  /\ goal' = [goal EXCEPT ![g] =
                IF Stripped[requestId[g]] # None /\ Found(requestId[g]) = None
                THEN "running" ELSE "rejected"]
  /\ UNCHANGED <<requestVars, cancel, serverVars>>

CancelCallback(g) ==
  /\ cancel[g] = "sent" /\ Accepted(g) /\ ~Ended(g)
  /\ cancel' = [cancel EXCEPT ![g] = "accepted"]
  /\ UNCHANGED <<requestVars, goal, serverVars>>

Register(g) ==
  /\ goal[g] = "running" /\ serving[g] = "none"
  /\ registry' = [registry EXCEPT ![requestId[g]] = g]
  /\ serving' = [serving EXCEPT ![g] = "waiting"]
  /\ UNCHANGED <<requestVars, goal, cancel, decision, outcome, operator, answer>>

StopsWaiting(g, d) ==
  /\ serving' = [serving EXCEPT ![g] = "leaving"]
  /\ decision' = [decision EXCEPT ![g] = d]
  /\ outcome' = [outcome EXCEPT ![g] = d]

\* Fault: the deadline is looked at before the decision.
DeadlineFirst(g) ==
  /\ serving[g] = "waiting"
  /\ \/ cancel[g] = "accepted" /\ StopsWaiting(g, "CANCELED")
     \/ cancel[g] # "accepted" /\ decision[g] # "UNKNOWN" /\ StopsWaiting(g, decision[g])
     \/ cancel[g] # "accepted" /\ StopsWaiting(g, "TIMEOUT")
  /\ UNCHANGED <<requestVars, goal, cancel, registry, operator, answer>>

\* One round of _wait_for_decision that ends it.  A cancel replaces even the
\* decision an operator has already given, and a decision goes before the deadline.
EndWait(g) ==
  /\ serving[g] = "waiting"
  /\ \/ cancel[g] = "accepted" /\ StopsWaiting(g, "CANCELED")
     \/ cancel[g] # "accepted" /\ decision[g] # "UNKNOWN" /\ StopsWaiting(g, decision[g])
     \/ cancel[g] # "accepted" /\ decision[g] = "UNKNOWN" /\ StopsWaiting(g, "TIMEOUT")
  /\ UNCHANGED <<requestVars, goal, cancel, registry, operator, answer>>

\* Fault: the request stays in the table.
ReturnKeepsEntry(g) ==
  /\ serving[g] = "leaving"
  /\ serving' = [serving EXCEPT ![g] = "returned"]
  /\ goal' = [goal EXCEPT ![g] = IF cancel[g] = "accepted" THEN "canceled" ELSE "succeeded"]
  /\ UNCHANGED <<requestVars, cancel, registry, decision, outcome, operator, answer>>

\* The entry leaves by its id, whoever it belongs to by now; the status is that
\* of the cancel request, whatever was decided.
ReturnResult(g) ==
  /\ serving[g] = "leaving"
  /\ serving' = [serving EXCEPT ![g] = "returned"]
  /\ registry' = [registry EXCEPT ![requestId[g]] = None]
  /\ goal' = [goal EXCEPT ![g] = IF cancel[g] = "accepted" THEN "canceled" ELSE "succeeded"]
  /\ UNCHANGED <<requestVars, cancel, decision, outcome, operator, answer>>

-----------------------------------------------------------------------------
(* respond_human_confirmation *)

\* A call that names a mission must name the one of the request; "" matches all.
\* The plan version and the execution id, compared alike, only refuse more calls.
IdentityMatches(mission, g) == mission \in {"", missionOf[g]}

\* A call that finds no request, or another mission's, is refused.
FindRequest(o, id, mission) ==
  /\ operator[o] = None
  /\ Found(id) # None
  /\ IdentityMatches(mission, Found(id))
  /\ operator' = [operator EXCEPT ![o] = Found(id)]
  /\ UNCHANGED <<requestVars, goal, cancel, serving, registry, decision, outcome, answer>>

\* The first decision is acknowledged, any other refused.
ResolveRequest(o, d) ==
  /\ operator[o] # None
  /\ LET g == operator[o]
         first == decision[g] = "UNKNOWN" IN
     /\ decision' = IF first THEN [decision EXCEPT ![g] = d] ELSE decision
     /\ answer' = IF first THEN [answer EXCEPT ![g] = d] ELSE answer
  /\ operator' = [operator EXCEPT ![o] = None]
  /\ UNCHANGED <<requestVars, goal, cancel, serving, registry, outcome>>

-----------------------------------------------------------------------------
ServeGoal(g) ==
  \/ GoalCallback(g)
  \/ CancelCallback(g)
  \/ Register(g)
  \/ EndWait(g)
  \/ ReturnResult(g)

HandleResponse(o) ==
  \/ \E id \in RequestIds, mission \in Missions \cup {""} : FindRequest(o, id, mission)
  \/ \E d \in OperatorDecisions : ResolveRequest(o, d)

-----------------------------------------------------------------------------
(* Properties *)

\* The table names only requests somebody waits for, so that no acknowledgement
\* is given to a request that is over; and an operator's call finds whoever waits.
\* It misses a request only if the id has blanks around it, under which no lookup
\* finds it (it can only be canceled or time out), or if another goal with its id
\* was accepted as well: between the goal callback's look and the entry, which is
\* the only time for an id without blanks.
RegistryHoldsWaiting ==
  /\ \A id \in RequestIds : registry[id] # None => serving[registry[id]] \in {"waiting", "leaving"}
  /\ \A g \in Goals :
       serving[g] = "waiting" =>
         \/ Found(requestId[g]) = g
         \/ Stripped[requestId[g]] # requestId[g]
         \/ \E h \in Goals \ {g} : requestId[h] = requestId[g] /\ Accepted(h)

Decisions == INSTANCE DecisionRegister WITH
  Requests <- Goals,
  answer <- answer,
  outcome <- outcome,
  withdrawn <- {g \in Goals : cancel[g] = "accepted"}

\* Operator and mission see the same decision, whatever the order in which an
\* answer, a cancel and the deadline reach the server: the write-once register
\* of DecisionRegister.
AnswersAreKept == Decisions!Spec

=============================================================================
