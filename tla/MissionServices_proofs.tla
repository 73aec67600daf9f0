------------------------ MODULE MissionServices_proofs ------------------------
(***************************************************************************)
(* What concurrent calls promise about operators' answers, the shared goal *)
(* handle, goals nobody waits for, leases and the evidence of checks, for  *)
(* every set of goals, operators, request ids and every mix of calls.      *)
(***************************************************************************)
EXTENDS MissionServices, TLAPS

-----------------------------------------------------------------------------
(* The confirmation server and the steps beside it *)

ServerStep ==
  \/ \E g \in Goals : ServeGoal(g)
  \/ \E o \in Operators : HandleResponse(o)

\* A step of another part leaves the server's own state alone; it may ask for a
\* goal's cancel, or accept one as the server of that goal.
Beside ==
  /\ UNCHANGED serverVars
  /\ \/ UNCHANGED cancel
     \/ \E g \in Goals : AskToCancel(g) \/ cancel' = [cancel EXCEPT ![g] = "accepted"]

LEMMA CheckStepsBeside == ASSUME NEW c \in Goals, CheckStep(c) PROVE Beside
BY DEF CheckStep, ReadFacts, ReadWorld, LookIfAllowed, Looked, Resolve, Decided, Poll,
       allButCheck, Beside

LEMMA CallStepsBeside == ASSUME NEW c \in Goals, CallStep(c) PROVE Beside
<1>1. CASE Begin(c)  BY <1>1 DEF Begin, Beside
<1>2. CASE Acquire(c)  BY <1>2 DEF Acquire, Beside
<1>3. CASE AcquireEnds(c)  BY <1>3 DEF AcquireEnds, Beside
<1>4. CASE AcquireTimesOut(c)  BY <1>4 DEF AcquireTimesOut, Beside
<1>5. CASE Say(c)  BY <1>5 DEF Say, Beside
<1>6. CASE RememberPlace(c)  BY <1>6 DEF RememberPlace, Beside
<1>7. CASE Send(c)  BY <1>7 DEF Send, Beside
<1>8. CASE Sent(c)  BY <1>8 DEF Sent, Beside
<1>9. CASE GivesUpSending(c)  BY <1>9 DEF GivesUpSending, Beside
<1>10. CASE Waited(c)  BY <1>10 DEF Waited, Beside
<1>11. CASE CancelsGoal(c)  BY <1>11 DEF CancelsGoal, Beside
<1>12. CASE CancelWaited(c)  BY <1>12 DEF CancelWaited, Beside
<1>13. CASE Leave(c)  BY <1>13 DEF Leave, Beside
<1>14. CASE Release(c)  BY <1>14 DEF Release, Beside
<1> QED
  BY <1>1, <1>2, <1>3, <1>4, <1>5, <1>6, <1>7, <1>8, <1>9, <1>10, <1>11, <1>12, <1>13, <1>14
  DEF CallStep

\* The requests a mission has withdrawn, as the abstract register sees them.
Withdrawn == {g \in Goals : cancel[g] = "accepted"}

\* A lookup finds a goal or nothing.
LEMMA FoundGoal ==
  ASSUME registry \in [RequestIds -> Goals \cup {None}], NEW id \in RequestIds
  PROVE  Found(id) \in Goals \cup {None}
BY StrippedAssumption DEF Found

-----------------------------------------------------------------------------
(* The operators' answers *)

\* While a request waits its decision is the answer an operator was given; once
\* it has an outcome, the decision is closed for operators.  An approval or a
\* denial is the answer itself.
RegisterInv ==
  /\ serving \in [Goals -> {"none", "waiting", "leaving", "returned"}]
  /\ cancel \in [Goals -> {"none", "sent", "accepted"}]
  /\ decision \in [Goals -> Decisions!Answers \cup {"UNKNOWN", "TIMEOUT"}]
  /\ answer \in [Goals -> OperatorDecisions \cup {"UNKNOWN"}]
  /\ outcome \in [Goals -> Decisions!Answers \cup {"UNKNOWN", "TIMEOUT"}]
  /\ registry \in [RequestIds -> Goals \cup {None}]
  /\ operator \in [Operators -> Goals \cup {None}]
  /\ \A g \in Goals :
       /\ outcome[g] = "UNKNOWN" <=> serving[g] \in {"none", "waiting"}
       /\ outcome[g] # "UNKNOWN" => decision[g] # "UNKNOWN"
       /\ outcome[g] = "UNKNOWN" => decision[g] = answer[g]
       /\ outcome[g] \in {"APPROVED", "DENIED"} => answer[g] = outcome[g]

LEMMA BesideKeepsRegister ==
  ASSUME RegisterInv, Beside
  PROVE  RegisterInv' /\ (Decisions!Next \/ UNCHANGED <<answer, outcome, Withdrawn>>)
<1>1. RegisterInv' /\ UNCHANGED <<answer, outcome>>
  BY DEF RegisterInv, Beside, AskToCancel, serverVars
<1>2. CASE UNCHANGED cancel
  BY <1>1, <1>2 DEF Withdrawn
<1>3. ASSUME NEW g \in Goals, AskToCancel(g)  PROVE Withdrawn' = Withdrawn
  BY <1>3 DEF AskToCancel, RegisterInv, Withdrawn
<1>4. ASSUME NEW g \in Goals, cancel' = [cancel EXCEPT ![g] = "accepted"]
      PROVE  Decisions!Withdraw(g)
  BY <1>1, <1>4 DEF RegisterInv, Decisions!Withdraw
<1> QED
  BY <1>1, <1>2, <1>3, <1>4 DEF Beside, Decisions!Next

\* Every step of the server is one of the register, or none.
LEMMA ServerStepRegisters ==
  ASSUME RegisterInv, ServerStep
  PROVE  RegisterInv' /\ (Decisions!Next \/ UNCHANGED <<answer, outcome, Withdrawn>>)
<1>1. ASSUME NEW g \in Goals, GoalCallback(g)
      PROVE  RegisterInv' /\ UNCHANGED <<answer, outcome, Withdrawn>>
  BY <1>1 DEF GoalCallback, RegisterInv, serverVars, Withdrawn
<1>2. ASSUME NEW g \in Goals, CancelCallback(g)
      PROVE  RegisterInv' /\ Decisions!Withdraw(g)
  BY <1>2 DEF CancelCallback, RegisterInv, serverVars, Decisions!Withdraw
<1>3. ASSUME NEW g \in Goals, Register(g)
      PROVE  RegisterInv' /\ UNCHANGED <<answer, outcome, Withdrawn>>
  BY <1>3 DEF Register, RegisterInv, Withdrawn
<1>4. ASSUME NEW g \in Goals, EndWait(g)
      PROVE  RegisterInv' /\ \E d \in Decisions!Answers \cup {"TIMEOUT"} : Decisions!Settle(g, d)
  <2>1. PICK d \in Decisions!Answers \cup {"TIMEOUT"} :
          /\ StopsWaiting(g, d)
          /\ \/ d = "CANCELED" /\ cancel[g] = "accepted"
             \/ d = decision[g] /\ d # "UNKNOWN" /\ d # "TIMEOUT"
             \/ d = "TIMEOUT" /\ decision[g] = "UNKNOWN"
    BY <1>4, DecisionsAssumption DEF EndWait, RegisterInv, Decisions!Answers
  <2>2. outcome[g] = "UNKNOWN" /\ decision[g] = answer[g]
    BY <1>4 DEF EndWait, RegisterInv
  <2>3. UNCHANGED <<cancel, registry, operator, answer>>
    BY <1>4 DEF EndWait
  <2>4. Decisions!Settle(g, d)
    BY <2>1, <2>2, <2>3 DEF StopsWaiting, Decisions!Settle
  <2>5. RegisterInv'
    BY <2>1, <2>2, <2>3 DEF StopsWaiting, RegisterInv, Decisions!Answers
  <2> QED
    BY <2>4, <2>5
<1>5. ASSUME NEW g \in Goals, ReturnResult(g)
      PROVE  RegisterInv' /\ UNCHANGED <<answer, outcome, Withdrawn>>
  BY <1>5 DEF ReturnResult, RegisterInv, Withdrawn
<1>6. ASSUME NEW o \in Operators, NEW id \in RequestIds, NEW m, FindRequest(o, id, m)
      PROVE  RegisterInv' /\ UNCHANGED <<answer, outcome, Withdrawn>>
  BY <1>6, FoundGoal DEF FindRequest, RegisterInv, Withdrawn
<1>7. ASSUME NEW o \in Operators, NEW d \in OperatorDecisions, ResolveRequest(o, d)
      PROVE  RegisterInv' /\ (Decisions!Next \/ UNCHANGED <<answer, outcome, Withdrawn>>)
  <2> DEFINE g == operator[o]
  <2>1. g \in Goals /\ d \in Decisions!Answers /\ d # "UNKNOWN"
    BY <1>7, DecisionsAssumption DEF ResolveRequest, RegisterInv, Decisions!Answers
  <2>2. CASE decision[g] # "UNKNOWN"
    BY <1>7, <2>1, <2>2 DEF ResolveRequest, RegisterInv, Withdrawn
  <2>3. CASE decision[g] = "UNKNOWN"
    <3>1. outcome[g] = "UNKNOWN" /\ answer[g] = "UNKNOWN"
      BY <2>1, <2>3 DEF RegisterInv
    <3>2. Decisions!Acknowledge(g, d)
      BY <1>7, <2>1, <2>3, <3>1 DEF ResolveRequest, Decisions!Acknowledge
    <3>3. RegisterInv'
      BY <1>7, <2>1, <2>3, <3>1 DEF ResolveRequest, RegisterInv
    <3> QED
      BY <2>1, <3>2, <3>3 DEF Decisions!Next
  <2> QED
    BY <2>2, <2>3
<1> QED
  BY <1>1, <1>2, <1>3, <1>4, <1>5, <1>6, <1>7
  DEF ServerStep, ServeGoal, HandleResponse, Decisions!Next

LEMMA NextServes == Next => ServerStep \/ Beside \/ UNCHANGED <<serverVars, cancel>>
<1>1. ASSUME NEW c \in Goals, Renew(c)  PROVE Beside
  BY <1>1 DEF Renew, Beside
<1>2. ASSUME Environment  PROVE Beside
  <2>1. ASSUME NEW c \in Goals, Authority(c)  PROVE Beside
    BY <2>1 DEF Authority, Beside
  <2>2. ASSUME NEW c \in Goals, OtherServer(c)  PROVE Beside
    BY <2>2 DEF OtherServer, Beside
  <2>3. ASSUME NEW c \in Goals, BranchTimesOut(c)  PROVE Beside
    BY <2>3 DEF BranchTimesOut, Beside
  <2>4. ASSUME NEW m \in Cancelable, CancelMission(m)  PROVE Beside
    BY <2>4 DEF CancelMission, Beside
  <2> QED
    BY <1>2, <2>1, <2>2, <2>3, <2>4 DEF Environment
<1>3. ASSUME LookForCurrent \/ CancelCurrent \/ Tick  PROVE Beside
  BY <1>3 DEF LookForCurrent, CancelCurrent, Tick, Beside
<1> QED
  BY <1>1, <1>2, <1>3, CheckStepsBeside, CallStepsBeside
  DEF Next, Finished, vars, ServerStep, Beside

LEMMA RegisterInitial == Init => RegisterInv /\ Decisions!Init
BY DEF Init, ServerInit, RegisterInv, Decisions!Init, Decisions!Answers

\* Every step preserves the invariant, and is one of the abstract register.
LEMMA RegisterStep ==
  ASSUME RegisterInv, [Next]_vars
  PROVE  RegisterInv' /\ (Decisions!Next \/ UNCHANGED <<answer, outcome, Withdrawn>>)
<1>1. CASE UNCHANGED <<serverVars, cancel>>
  BY <1>1 DEF RegisterInv, serverVars, Withdrawn
<1>2. CASE ~UNCHANGED <<serverVars, cancel>>
  <2>1. ServerStep \/ Beside
    BY <1>2, NextServes DEF vars
  <2> QED
    BY <2>1, ServerStepRegisters, BesideKeepsRegister
<1> QED
  BY <1>1, <1>2

\* The confirmation server implements the write-once register: what the mission is
\* told is what the operator was acknowledged, whatever the order of answers,
\* cancels and deadlines, and however many goals share a request id.
THEOREM AnswersKept == Spec => AnswersAreKept
<1>1. Init => RegisterInv /\ Decisions!Init
  BY RegisterInitial
<1>2. RegisterInv /\ [Next]_vars => RegisterInv'
  BY RegisterStep
<1>3. RegisterInv /\ [Next]_vars =>
        [Decisions!Next]_<<answer, outcome, {g \in Goals : cancel[g] = "accepted"}>>
  BY RegisterStep DEF Withdrawn
<1> QED
  BY <1>1, <1>2, <1>3, PTL DEF Spec, AnswersAreKept, Decisions!Spec

-----------------------------------------------------------------------------
(* Types *)

Stages == {"none", "facts", "world", "vision", "looked", "resolve", "decided", "poll", "done"}

\* The kinds of calls that send a goal.
Senders == {"move", "animate", "embodied", "confirm", "look", "decide"}

\* A lease that is held has time left, which makes the count of it inductive;
\* only physical predicates are polled, for which a look has a reading, and
\* only senders wait for a goal.
TypeInv ==
  /\ ServicesTypeOK
  /\ stage \in [Goals -> Stages]
  /\ \A c \in Goals : lease[c] = "held" => ttl[c] > 0
  /\ ttl \in [Goals -> Nat]
  /\ due \in [Goals -> {None} \cup Nat]
  /\ \A c \in Goals : stage[c] = "poll" => question[c].predicate \in PhysicalPredicates
  /\ \A c \in Goals : kind[c] = "check" => pc[c] \in {"checking", "done"}
  /\ \A c \in Goals : pc[c] \in {"send", "sending", "wait", "canceling"} => kind[c] \in Senders
  /\ \A c \in Goals : pc[c] \in {"acquire", "acquiring"} => kind[c] \in {"move", "animate", "say"}

LEMMA Intervals == TTL \in Nat \ {0} /\ RenewInterval \in Nat
BY LeaseAssumption DEF RenewInterval

LEMMA TypesInitial == Init => TypeInv
BY MixesAssumption, Intervals
DEF Init, ServerInit, CallsInit, TypeInv, ServicesTypeOK, Stages, Senders

\* Whatever is read, the reading is three-valued.
LEMMA ReadingsAreTri ==
  ASSUME NEW q, NEW entry
  PROVE  /\ CheckFacts(q, entry) \in Tri /\ CheckWorld(q, entry) \in Tri
         /\ \A predicate : CheckSnapshot(predicate, entry) \in Tri
<1>1. \A yes, no : Verdict(entry, yes, no) \in Tri
  BY DEF Verdict, Tri
<1>2. \A predicate : /\ PredicateResult(predicate, entry) \in Tri
                    /\ CheckExecutionFacts(predicate, entry) \in Tri
                    /\ CheckSnapshot(predicate, entry) \in Tri
  <2>1. ASSUME NEW predicate  PROVE PredicateResult(predicate, entry) \in Tri
    <3>1. /\ NamedResult(entry) \in Tri /\ RelativeMotionResult(entry) \in Tri
          /\ ObjectVisibilityResult(entry) \in Tri /\ PeopleVisibilityResult(entry) \in Tri
          /\ FollowingResult(entry) \in Tri /\ AliasResult(entry) \in Tri
      BY <1>1, Zenon DEF NamedResult, RelativeMotionResult, ObjectVisibilityResult,
           PeopleVisibilityResult, FollowingResult, AliasResult
    <3>2. DirectResult(predicate, entry) \in Tri
      BY <1>1, Zenon DEF DirectResult
    <3>3. "UNKNOWN" \in Tri
      BY DEF Tri
    <3> QED
      BY <3>1, <3>2, <3>3 DEF PredicateResult, Registered, Named
  <2>2. NearOwnerResult(entry) \in Tri /\ NearOwnerInWorld(entry) \in Tri
        /\ VisualCheckCompleted(entry) \in Tri /\ "UNKNOWN" \in Tri
    BY <1>1, Zenon DEF NearOwnerResult, NearOwnerInWorld, VisualCheckCompleted, Tri
  <2> QED
    BY <2>1, <2>2 DEF CheckExecutionFacts, CheckSnapshot
<1>3. HumanConfirmationResult(entry) \in Tri
  BY <1>1, Zenon DEF HumanConfirmationResult
<1>4. "TRUE" \in Tri /\ "UNKNOWN" \in Tri
  BY DEF Tri
<1>5. CheckFacts(q, entry) \in Tri
  BY <1>2, <1>3, <1>4, Zenon DEF CheckFacts
<1>6. CheckWorld(q, entry) \in Tri
  BY <1>2, <1>3, <1>4, Zenon DEF CheckWorld
<1> QED
  BY <1>2, <1>5, <1>6

LEMMA FreshAnswersAreTri ==
  ASSUME NEW q, NEW fresh \in FreshAnswers(q),
         q.predicate \in PhysicalPredicates
  PROVE  fresh.verdict \in Tri
<1>1. \A byId, look : EntityApproached(byId, look) \in Tri /\ ObjectVisible(look) \in Tri
  BY DEF EntityApproached, ObjectVisible, Tri
<1>2. CASE q.predicate = "person_visible"
  BY <1>2, ReadingsAreTri DEF FreshAnswers
<1>3. CASE q.predicate = "entity_approached"
  BY <1>1, <1>3 DEF FreshAnswers
<1>4. CASE q.predicate = "object_visible"
  BY <1>1, <1>4 DEF FreshAnswers
<1> QED
  BY <1>2, <1>3, <1>4 DEF PhysicalPredicates

\* What a check does keeps the types.
LEMMA CheckTypes == ASSUME TypeInv, NEW c \in Goals, CheckStep(c)  PROVE TypeInv'
<1> USE DEF TypeInv, ServicesTypeOK, Stages, Senders, allButCheck, leaseVars, serverVars, Kinds
<1>1. UNCHANGED <<goal, cancel, serverVars, told, current, ctl, last, late, leaseVars, question>>
  BY DEF CheckStep, ReadFacts, ReadWorld, LookIfAllowed, Looked, Resolve, Decided, Poll
<1>2. ASSUME NEW v \in {"none", "success", "failed", "blocked"} \cup Tri, NEW source, NEW seen,
             Conclude(c, v, source, seen)
      PROVE  TypeInv'
  BY <1>1, <1>2 DEF Conclude, Return
<1>3. ASSUME NEW where \in Stages, TurnTo(c, where),
             where = "poll" => question[c].predicate \in PhysicalPredicates
      PROVE  TypeInv'
  BY <1>1, <1>3 DEF TurnTo
<1>4. ASSUME NEW k \in {"look", "decide"}, NEW where \in {"looked", "decided"}, Ask(c, k, where)
      PROVE  TypeInv'
  BY <1>1, <1>4 DEF Ask
<1>5. ASSUME NEW v \in Tri, NEW source, NEW seen, NEW where \in Stages \ {"poll"},
             ConcludeOr(c, v, source, seen, where)
      PROVE  TypeInv'
  BY <1>2, <1>3, <1>5 DEF ConcludeOr
<1>6. CASE ReadFacts(c)
  BY <1>5, <1>6, ReadingsAreTri DEF ReadFacts
<1>7. CASE ReadWorld(c)
  BY <1>5, <1>7, ReadingsAreTri DEF ReadWorld
<1>8. CASE LookIfAllowed(c)
  BY <1>3, <1>4, <1>8 DEF LookIfAllowed
<1>9. CASE Looked(c)
  <2>1. CASE result[c] # "UNKNOWN"
    BY <1>2, <1>9, <2>1 DEF Looked
  <2>2. CASE result[c] = "UNKNOWN"
    <3>1. /\ pc' = [pc EXCEPT ![c] = "checking"]
          /\ stage' = [stage EXCEPT ![c] = "resolve"]
          /\ UNCHANGED <<kind, result>>
      BY <1>9, <2>2 DEF Looked
    <3> QED
      BY <1>1, <3>1
  <2> QED
    BY <2>1, <2>2
<1>10. CASE Resolve(c)
  BY <1>2, <1>3, <1>4, <1>10 DEF Resolve, Tri
<1>11. CASE Decided(c)
  BY <1>2, <1>11 DEF Decided
<1>12. CASE Poll(c)
  <2>1. PICK fresh \in FreshAnswers(question[c]) :
          Conclude(c, fresh.verdict, "fresh", fresh.seen) \/ Conclude(c, "UNKNOWN", "none", "missing")
    BY <1>12 DEF Poll
  <2>2. fresh.verdict \in Tri /\ "UNKNOWN" \in Tri
    BY <1>12, FreshAnswersAreTri DEF Poll, Checking, Tri
  <2> QED
    BY <1>2, <2>1, <2>2
<1> QED
  BY <1>6, <1>7, <1>8, <1>9, <1>10, <1>11, <1>12 DEF CheckStep

\* What a call does keeps the types.
LEMMA CallTypes ==
  ASSUME TypeInv, NEW c \in Goals, CallStep(c), UNCHANGED checkVars  PROVE TypeInv'
<1> USE Intervals DEF TypeInv, ServicesTypeOK, checkVars, leaseVars, serverVars, Tri,
             Kinds, Senders
<1>a. kind[c] \in Senders => Answers(c) \subseteq {"success", "failed", "blocked"} \cup Tri
  BY DEF Answers, Arrived
<1>1. CASE Begin(c)
  BY <1>1 DEF Begin, Goto, Return, NotReady, Failure, Leased
<1>2. CASE Acquire(c)
  BY <1>2 DEF Acquire, Goto, Return
<1>3. CASE AcquireEnds(c)
  BY <1>3 DEF AcquireEnds, Goto, Return
<1>4. CASE AcquireTimesOut(c)
  BY <1>4 DEF AcquireTimesOut, Return
<1>5. CASE Say(c)
  BY <1>5 DEF Say, Return
<1>6. CASE RememberPlace(c)
  BY <1>6 DEF RememberPlace, Return
<1>7. CASE Send(c)
  BY <1>7 DEF Send, Goto, Leased
<1>8. CASE Sent(c)
  BY <1>8 DEF Sent, Goto, Return, Rejected, Failure, Outside
<1>9. CASE GivesUpSending(c)
  BY <1>9 DEF GivesUpSending, Return, Failure, Outside
<1>10. CASE Waited(c)
  <2>1. PICK value \in {"success", "failed", "blocked"} \cup Tri : Return(c, value, "leave")
    BY <1>a, <1>10 DEF Waited, Failure
  <2> QED
    BY <1>10, <2>1 DEF Waited, Return
<1>11. CASE CancelsGoal(c)
  BY <1>11 DEF CancelsGoal, Goto, AskToCancel
<1>12. CASE CancelWaited(c)
  <2>1. PICK value \in {"success", "failed", "blocked"} \cup Tri : Return(c, value, "leave")
    BY <1>a, <1>12 DEF CancelWaited, Failure
  <2> QED
    BY <1>12, <2>1 DEF CancelWaited, Return
<1>13. CASE Leave(c)
  BY <1>13 DEF Leave, Goto, Outside
<1>14. CASE Release(c)
  BY <1>14 DEF Release, Goto
<1> QED
  BY <1>1, <1>2, <1>3, <1>4, <1>5, <1>6, <1>7, <1>8, <1>9, <1>10, <1>11, <1>12, <1>13, <1>14
  DEF CallStep

\* What the confirmation server does keeps the types.
LEMMA ServerTypes ==
  ASSUME TypeInv, ServerStep, UNCHANGED <<callVars, leaseVars, checkVars>>  PROVE TypeInv'
<1> USE DecisionsAssumption DEF TypeInv, ServicesTypeOK, callVars, checkVars, leaseVars, serverVars, Tri,
       Senders
<1>1. ASSUME NEW g \in Goals, GoalCallback(g)  PROVE TypeInv'
  BY <1>1 DEF GoalCallback
<1>2. ASSUME NEW g \in Goals, CancelCallback(g)  PROVE TypeInv'
  BY <1>2 DEF CancelCallback
<1>3. ASSUME NEW g \in Goals, Register(g)  PROVE TypeInv'
  BY <1>3 DEF Register
<1>4. ASSUME NEW g \in Goals, EndWait(g)  PROVE TypeInv'
  BY <1>4 DEF EndWait, StopsWaiting
<1>5. ASSUME NEW g \in Goals, ReturnResult(g)  PROVE TypeInv'
  BY <1>5 DEF ReturnResult
<1>6. ASSUME NEW o \in Operators, NEW id \in RequestIds, NEW m, FindRequest(o, id, m)  PROVE TypeInv'
  BY <1>6, FoundGoal DEF FindRequest
<1>7. ASSUME NEW o \in Operators, NEW d \in OperatorDecisions, ResolveRequest(o, d)  PROVE TypeInv'
  BY <1>7 DEF ResolveRequest
<1> QED
  BY <1>1, <1>2, <1>3, <1>4, <1>5, <1>6, <1>7 DEF ServerStep, ServeGoal, HandleResponse

\* Renewals, time and everything outside the node keep the types.
LEMMA OutsideTypes ==
  ASSUME TypeInv, UNCHANGED checkVars,
         (\E c \in Goals : Renew(c)) \/ Environment \/ LookForCurrent \/ CancelCurrent \/ Tick
  PROVE  TypeInv'
<1> USE Intervals DEF TypeInv, ServicesTypeOK, callVars, checkVars, leaseVars, serverVars, Tri,
       Senders
<1>1. ASSUME NEW c \in Goals, Renew(c)  PROVE TypeInv'
  BY <1>1 DEF Renew
<1>2. ASSUME NEW c \in Goals, Authority(c)  PROVE TypeInv'
  BY <1>2 DEF Authority
<1>3. ASSUME NEW c \in Goals, OtherServer(c)  PROVE TypeInv'
  BY <1>3 DEF OtherServer
<1>4. ASSUME NEW c \in Goals, BranchTimesOut(c)  PROVE TypeInv'
  BY <1>4 DEF BranchTimesOut
<1>5. ASSUME NEW m \in Cancelable, CancelMission(m)  PROVE TypeInv'
  BY <1>5 DEF CancelMission
<1>6. CASE LookForCurrent
  BY <1>6, NoneAssumption DEF LookForCurrent
<1>7. CASE CancelCurrent
  BY <1>7 DEF CancelCurrent, AskToCancel
<1>8. CASE Tick
  BY <1>8 DEF Tick
<1> QED
  BY <1>1, <1>2, <1>3, <1>4, <1>5, <1>6, <1>7, <1>8 DEF Environment

LEMMA TypesStep == ASSUME TypeInv, [Next]_vars  PROVE TypeInv'
<1>1. CASE UNCHANGED vars
  BY <1>1 DEF vars, TypeInv, ServicesTypeOK, callVars, leaseVars, serverVars
<1>2. CASE Next
  BY <1>1, <1>2, CheckTypes, CallTypes, ServerTypes, OutsideTypes DEF Next, Finished, ServerStep
<1> QED
  BY <1>1, <1>2

\* Every reachable state of concurrent calls, checks and requests has its types;
\* no lease and no renewal timer runs below zero or past its interval.
THEOREM ServicesTypes == Spec => []ServicesTypeOK
<1>1. Init => TypeInv
  BY TypesInitial
<1>2. TypeInv /\ [Next]_vars => TypeInv'
  BY TypesStep
<1>3. TypeInv => ServicesTypeOK
  BY DEF TypeInv
<1> QED
  BY <1>1, <1>2, <1>3, PTL DEF Spec

-----------------------------------------------------------------------------
(* The shared goal handle *)

\* A call that enters a handle is none of a check's, and a check does not go on
\* while its call waits; so the handle is left by Leave alone.
HandleInv ==
  /\ CurrentIsLastWaiting
  /\ last # None => Registers(last)
  /\ \A c \in Goals : Registers(c) => stage[c] = "none"

LEMMA HandleInitial == Init => HandleInv
BY MixesAssumption DEF Init, CallsInit, HandleInv, CurrentIsLastWaiting, Registers

LEMMA CheckKeepsHandle ==
  ASSUME TypeInv, HandleInv, NEW c \in Goals, CheckStep(c)  PROVE HandleInv'
<1> USE DEF TypeInv, ServicesTypeOK, HandleInv, CurrentIsLastWaiting, Registers
<1>1. UNCHANGED <<current, last>>
  BY DEF CheckStep, ReadFacts, ReadWorld, LookIfAllowed, Looked, Resolve, Decided, Poll, allButCheck
<1>2. stage[c] # "none" /\ pc[c] \in {"checking", "done"}
  BY DEF CheckStep, ReadFacts, ReadWorld, LookIfAllowed, Looked, Resolve, Decided, Poll, Checking
<1>3. c # last
  BY <1>2, NoneAssumption
<1>4. \A d \in Goals \ {c} : pc'[d] = pc[d] /\ kind'[d] = kind[d] /\ stage'[d] = stage[d]
  BY DEF CheckStep, ReadFacts, ReadWorld, LookIfAllowed, Looked, Resolve, Decided, Poll,
         ConcludeOr, Conclude, TurnTo, Ask, Return
<1>5. kind'[c] \in {kind[c], "look", "decide"}
  BY DEF CheckStep, ReadFacts, ReadWorld, LookIfAllowed, Looked, Resolve, Decided, Poll,
         ConcludeOr, Conclude, TurnTo, Ask
<1> QED
  BY <1>1, <1>2, <1>3, <1>4, <1>5, NoneAssumption

LEMMA CallKeepsHandle ==
  ASSUME TypeInv, HandleInv, NEW c \in Goals, CallStep(c), UNCHANGED checkVars  PROVE HandleInv'
<1> USE NoneAssumption DEF TypeInv, ServicesTypeOK, HandleInv, CurrentIsLastWaiting, Registers, checkVars
<1>1. CASE Begin(c)
  BY <1>1 DEF Begin, Goto, Return
<1>2. CASE Acquire(c)
  BY <1>2 DEF Acquire, Goto, Return
<1>3. CASE AcquireEnds(c)
  BY <1>3 DEF AcquireEnds, Goto, Return
<1>4. CASE AcquireTimesOut(c)
  BY <1>4 DEF AcquireTimesOut, Return
<1>5. CASE Say(c)
  BY <1>5 DEF Say, Return
<1>6. CASE RememberPlace(c)
  BY <1>6 DEF RememberPlace, Return
<1>7. CASE Send(c)
  BY <1>7 DEF Send, Goto
<1>8. CASE Sent(c)
  BY <1>8 DEF Sent, Goto, Return, Outside
<1>9. CASE GivesUpSending(c)
  BY <1>9 DEF GivesUpSending, Return, Outside
<1>10. CASE Waited(c)
  BY <1>10 DEF Waited, Return
<1>11. CASE CancelsGoal(c)
  BY <1>11 DEF CancelsGoal, Goto
<1>12. CASE CancelWaited(c)
  BY <1>12 DEF CancelWaited, Return
<1>13. CASE Leave(c)
  BY <1>13 DEF Leave, Goto, Outside
<1>14. CASE Release(c)
  BY <1>14 DEF Release, Goto
<1> QED
  BY <1>1, <1>2, <1>3, <1>4, <1>5, <1>6, <1>7, <1>8, <1>9, <1>10, <1>11, <1>12, <1>13, <1>14
  DEF CallStep

LEMMA OthersKeepHandle ==
  ASSUME HandleInv, (ServerStep /\ UNCHANGED callVars) \/ (\E c \in Goals : Renew(c))
                   \/ Environment \/ LookForCurrent \/ CancelCurrent \/ Tick,
         UNCHANGED checkVars
  PROVE  HandleInv'
<1>1. UNCHANGED <<kind, pc, current, last, stage>>
  BY DEF Renew, Environment, Authority, OtherServer, BranchTimesOut, CancelMission, LookForCurrent,
         CancelCurrent, Tick, callVars, checkVars
<1> QED
  BY <1>1 DEF HandleInv, CurrentIsLastWaiting, Registers

\* cancel_current never reaches a call that is over, and a call that returns never
\* takes the handle of another one with it, however many calls there are.
THEOREM HandleCorrect == Spec => []CurrentIsLastWaiting
<1>1. Init => TypeInv /\ HandleInv
  BY TypesInitial, HandleInitial
<1>2. ASSUME TypeInv, HandleInv, [Next]_vars  PROVE HandleInv'
  <2>1. CASE UNCHANGED vars
    BY <1>2, <2>1 DEF vars, callVars, HandleInv, CurrentIsLastWaiting, Registers
  <2>2. CASE Next
    BY <1>2, <2>1, <2>2, CheckKeepsHandle, CallKeepsHandle, OthersKeepHandle
    DEF Next, Finished, ServerStep
  <2> QED
    BY <1>2, <2>1, <2>2
<1>3. TypeInv /\ HandleInv /\ [Next]_vars => TypeInv' /\ HandleInv'
  BY <1>2, TypesStep
<1>4. HandleInv => CurrentIsLastWaiting
  BY DEF HandleInv
<1> QED
  BY <1>1, <1>3, <1>4, PTL DEF Spec

-----------------------------------------------------------------------------
(* What operators approve *)

\* A question that an operator decides is put once, and nothing but the answer
\* concludes it; a check that goes on has no verdict yet.
AskInv ==
  /\ OnlyOperatorsApprove
  /\ \A c \in Goals : kind[c] = "confirm" => stage[c] = "none"
  /\ \A c \in Goals : kind[c] = "decide" => stage[c] \in {"none", "decided", "done"}
  /\ \A c \in Goals : pc[c] = "checking" => result[c] \in {"none", "UNKNOWN"}
  /\ \A c \in Goals : pc[c] = "publish" => kind[c] = "say"

LEMMA AskInitial == Init => AskInv
<1> SUFFICES ASSUME Init  PROVE AskInv
  OBVIOUS
<1>1. \A c \in Goals : /\ stage[c] = IF kind[c] = "check" THEN "facts" ELSE "none"
                       /\ result[c] = "none"
                       /\ pc[c] = IF kind[c] = "check" THEN "checking" ELSE "ready"
  BY DEF Init, CallsInit
<1> QED
  BY <1>1 DEF AskInv, OnlyOperatorsApprove

LEMMA CheckKeepsAsk ==
  ASSUME TypeInv, AskInv, NEW c \in Goals, CheckStep(c)  PROVE AskInv'
<1> USE DEF TypeInv, ServicesTypeOK, AskInv, OnlyOperatorsApprove
<1>1. UNCHANGED answer
  BY DEF CheckStep, ReadFacts, ReadWorld, LookIfAllowed, Looked, Resolve, Decided, Poll, allButCheck,
         serverVars
<1>2. ASSUME NEW v, NEW source, NEW seen, Conclude(c, v, source, seen),
             kind[c] # "confirm", kind[c] = "decide" => v = result[c]
      PROVE  AskInv'
  BY <1>1, <1>2 DEF Conclude, Return
<1>3. ASSUME NEW where, TurnTo(c, where), kind[c] \notin {"confirm", "decide"}  PROVE AskInv'
  BY <1>1, <1>3 DEF TurnTo
<1>4. ASSUME Ask(c, "look", "looked") \/ Ask(c, "decide", "decided"), pc[c] = "checking"  PROVE AskInv'
  BY <1>1, <1>4 DEF Ask
<1>5. ASSUME NEW v, NEW source, NEW seen, NEW where, ConcludeOr(c, v, source, seen, where),
             kind[c] \notin {"confirm", "decide"}
      PROVE  AskInv'
  BY <1>2, <1>3, <1>5 DEF ConcludeOr
<1>6. kind[c] # "confirm" /\ (stage[c] # "decided" => kind[c] # "decide")
  BY DEF CheckStep, ReadFacts, ReadWorld, LookIfAllowed, Looked, Resolve, Decided, Poll, Checking
<1>7. CASE ReadFacts(c)
  BY <1>5, <1>6, <1>7 DEF ReadFacts, Checking
<1>8. CASE ReadWorld(c)
  BY <1>5, <1>6, <1>8 DEF ReadWorld, Checking
<1>9. CASE LookIfAllowed(c)
  BY <1>3, <1>4, <1>6, <1>9 DEF LookIfAllowed, Checking
<1>10. CASE Looked(c)
  <2>1. CASE result[c] # "UNKNOWN"
    BY <1>2, <1>6, <1>10, <2>1 DEF Looked
  <2>2. CASE result[c] = "UNKNOWN"
    BY <1>1, <1>6, <1>10, <2>2 DEF Looked
  <2> QED
    BY <2>1, <2>2
<1>11. CASE Resolve(c)
  BY <1>2, <1>3, <1>4, <1>6, <1>11 DEF Resolve, Checking
<1>12. CASE Decided(c)
  BY <1>2, <1>6, <1>12 DEF Decided
<1>13. CASE Poll(c)
  BY <1>2, <1>6, <1>13 DEF Poll, Checking
<1> QED
  BY <1>7, <1>8, <1>9, <1>10, <1>11, <1>12, <1>13 DEF CheckStep

LEMMA CallKeepsAsk ==
  ASSUME TypeInv, RegisterInv, AskInv, NEW c \in Goals, CallStep(c), UNCHANGED checkVars  PROVE AskInv'
<1> USE DEF TypeInv, ServicesTypeOK, AskInv, OnlyOperatorsApprove, checkVars, serverVars
<1>a. \A value \in Answers(c) :
        /\ kind[c] = "confirm" /\ value = "success" => answer[c] = "APPROVED"
        /\ kind[c] = "decide" /\ value = "TRUE" => answer[c] = "APPROVED"
        /\ kind[c] = "decide" /\ value = "FALSE" => answer[c] = "DENIED"
  BY DEF RegisterInv, Answers
<1>b. kind[c] = "confirm" => Failure(c) = "failed" /\ Rejected(c) = "blocked" /\ NotReady(c) = "blocked"
  BY DEF Failure, Rejected, NotReady
<1>c. kind[c] = "decide" => Failure(c) = "UNKNOWN" /\ Rejected(c) = "UNKNOWN" /\ NotReady(c) = "UNKNOWN"
  BY DEF Failure, Rejected, NotReady
<1>1. CASE Begin(c)
  BY <1>1, <1>a, <1>b, <1>c DEF Begin, Goto, Return, Leased
<1>2. CASE Acquire(c)
  BY <1>2 DEF Acquire, Goto, Return
<1>3. CASE AcquireEnds(c)
  BY <1>3 DEF AcquireEnds, Goto, Return
<1>4. CASE AcquireTimesOut(c)
  BY <1>4 DEF AcquireTimesOut, Return
<1>5. CASE Say(c)
  BY <1>5 DEF Say, Return
<1>6. CASE RememberPlace(c)
  BY <1>6 DEF RememberPlace, Return
<1>7. CASE Send(c)
  BY <1>7 DEF Send, Goto
<1>8. CASE Sent(c)
  BY <1>8, <1>a, <1>b, <1>c DEF Sent, Goto, Return, Outside
<1>9. CASE GivesUpSending(c)
  BY <1>9, <1>a, <1>b, <1>c DEF GivesUpSending, Return, Outside
<1>10. CASE Waited(c)
  BY <1>10, <1>a, <1>b, <1>c DEF Waited, Return
<1>11. CASE CancelsGoal(c)
  BY <1>11 DEF CancelsGoal, Goto
<1>12. CASE CancelWaited(c)
  BY <1>12, <1>a, <1>b, <1>c DEF CancelWaited, Return
<1>13. CASE Leave(c)
  BY <1>13 DEF Leave, Goto, Outside
<1>14. CASE Release(c)
  BY <1>14 DEF Release, Goto
<1> QED
  BY <1>1, <1>2, <1>3, <1>4, <1>5, <1>6, <1>7, <1>8, <1>9, <1>10, <1>11, <1>12, <1>13, <1>14
  DEF CallStep

\* An answer that was given is not given again.
LEMMA AnswersStay ==
  ASSUME RegisterInv, [Next]_vars, NEW c \in Goals, answer[c] # "UNKNOWN"  PROVE answer'[c] = answer[c]
<1>1. Decisions!Next \/ UNCHANGED answer
  BY RegisterStep
<1> QED
  BY <1>1 DEF RegisterInv, Decisions!Next, Decisions!Acknowledge, Decisions!Withdraw, Decisions!Settle

LEMMA OthersKeepAsk ==
  ASSUME RegisterInv, AskInv, [Next]_vars,
         (ServerStep /\ UNCHANGED callVars) \/ (\E c \in Goals : Renew(c)) \/ Environment
           \/ LookForCurrent \/ CancelCurrent \/ Tick,
         UNCHANGED checkVars
  PROVE  AskInv'
<1>1. UNCHANGED <<kind, pc, result, stage>>
  BY DEF Renew, Environment, Authority, OtherServer, BranchTimesOut, CancelMission, LookForCurrent,
         CancelCurrent, Tick, callVars, checkVars
<1> QED
  BY <1>1, AnswersStay DEF AskInv, OnlyOperatorsApprove

\* A plan goes on after a confirmation, and a check takes a question for decided,
\* only on the answer an operator was acknowledged for that very request.
THEOREM OperatorsApprove == Spec => []OnlyOperatorsApprove
<1>1. Init => TypeInv /\ RegisterInv /\ AskInv
  BY TypesInitial, RegisterInitial, AskInitial
<1>2. ASSUME TypeInv, RegisterInv, AskInv, [Next]_vars  PROVE AskInv'
  <2>1. CASE UNCHANGED vars
    BY <1>2, <2>1 DEF vars, callVars, serverVars, AskInv, OnlyOperatorsApprove
  <2>2. CASE Next
    BY <1>2, <2>1, <2>2, CheckKeepsAsk, CallKeepsAsk, OthersKeepAsk DEF Next, Finished, ServerStep
  <2> QED
    BY <1>2, <2>1, <2>2
<1>3. TypeInv /\ RegisterInv /\ AskInv /\ [Next]_vars => TypeInv' /\ RegisterInv' /\ AskInv'
  BY <1>2, TypesStep, RegisterStep
<1>4. AskInv => OnlyOperatorsApprove
  BY DEF AskInv
<1> QED
  BY <1>1, <1>3, <1>4, PTL DEF Spec

-----------------------------------------------------------------------------
(* The table of pending requests *)

\* The requests and questions of a mix.
Asked ==
  /\ requestId \in [Goals -> RequestIds]
  /\ \A c \in DOMAIN question :
       question[c].predicate \in SemanticPredicates => question[c].type = "structured"
  /\ \A c \in Goals : stage[c] # "none" => c \in DOMAIN question

\* A call has not sent its goal before it waits for one: a check that may ask an
\* operator has not asked the vision model.
Unsent(c) ==
  \/ pc[c] \in {"ready", "acquire", "acquiring", "send"}
  \/ /\ pc[c] = "checking"
     /\ stage[c] \in {"facts", "world", "vision"} \/ question[c].predicate \in SemanticPredicates

\* Entries are those of goals that wait, and whoever waits is entered under its id
\* as it is written, unless another goal with that id was accepted.
EntriesInv ==
  /\ \A id \in RequestIds : registry[id] # None => serving[registry[id]] \in {"waiting", "leaving"}
  /\ \A g \in Goals :
       serving[g] = "waiting" =>
         \/ registry[requestId[g]] = g
         \/ \E h \in Goals \ {g} : requestId[h] = requestId[g] /\ Accepted(h)

\* An entry is that of a goal with its id, and a goal is served after it was
\* accepted and never sent again; so the entry of a waiting goal is lost only to
\* another goal with its id.
RegistryInv ==
  /\ EntriesInv
  /\ Asked
  /\ \A id \in RequestIds : registry[id] # None => requestId[registry[id]] = id
  /\ \A g \in Goals : serving[g] # "none" => Accepted(g)
  /\ \A c \in Goals : Unsent(c) => goal[c] = "none"
  /\ \A c \in Goals : stage[c] = "looked" => question[c].predicate \notin SemanticPredicates

LEMMA RegistryInitial == Init => RegistryInv
<1> SUFFICES ASSUME Init  PROVE RegistryInv
  OBVIOUS
<1>1. PICK mix \in Mixes : kind = mix.kind /\ question = mix.question /\ requestId = mix.request
  BY DEF Init
<1>2. /\ registry = [id \in RequestIds |-> None]
      /\ serving = [g \in Goals |-> "none"]
      /\ goal = [g \in Goals |-> "none"]
      /\ stage = [c \in Goals |-> IF kind[c] = "check" THEN "facts" ELSE "none"]
  BY DEF Init, ServerInit
<1>3. Asked
  BY <1>1, <1>2, MixesAssumption DEF Asked
<1> QED
  BY <1>2, <1>3 DEF RegistryInv, EntriesInv

\* What a step of another part may do to goals and requests.
GoalsGoOn ==
  /\ UNCHANGED <<requestVars, question, registry, serving>>
  /\ \A g \in Goals : Accepted(g) => Accepted(g)'

LEMMA GoalsGoOnKeep ==
  ASSUME RegistryInv, GoalsGoOn,
         \A c \in Goals : stage'[c] = "none" <=> stage[c] = "none",
         \A c \in Goals : Unsent(c)' => goal'[c] = "none",
         \A c \in Goals : stage'[c] = "looked" => question'[c].predicate \notin SemanticPredicates
  PROVE  RegistryInv'
<1>1. EntriesInv'
  BY DEF GoalsGoOn, RegistryInv, EntriesInv, requestVars
<1>2. Asked'
  BY DEF GoalsGoOn, RegistryInv, Asked, requestVars
<1> QED
  BY <1>1, <1>2 DEF GoalsGoOn, RegistryInv, requestVars

LEMMA CheckKeepsRegistry ==
  ASSUME TypeInv, RegistryInv, NEW c \in Goals, CheckStep(c)  PROVE RegistryInv'
<1>1. UNCHANGED <<requestVars, question, registry, serving, goal>>
  BY DEF CheckStep, ReadFacts, ReadWorld, LookIfAllowed, Looked, Resolve, Decided, Poll, allButCheck,
         serverVars
<1>2. \A d \in Goals \ {c} : pc'[d] = pc[d] /\ stage'[d] = stage[d]
  BY DEF CheckStep, ReadFacts, ReadWorld, LookIfAllowed, Looked, Resolve, Decided, Poll,
         ConcludeOr, Conclude, TurnTo, Ask, Return, TypeInv, ServicesTypeOK
<1>3. stage[c] # "none" /\ stage'[c] # "none"
  BY DEF CheckStep, ReadFacts, ReadWorld, LookIfAllowed, Looked, Resolve, Decided, Poll, Checking,
         ConcludeOr, Conclude, TurnTo, Ask, Return, TypeInv, ServicesTypeOK
<1>4. c \in DOMAIN question /\ (AllowsVisualFallback(question[c]) => question[c].predicate \notin SemanticPredicates)
  BY <1>3 DEF RegistryInv, Asked, AllowsVisualFallback
<1>5. Unsent(c)' => goal'[c] = "none"
  BY <1>1, <1>4
  DEF CheckStep, ReadFacts, ReadWorld, LookIfAllowed, Looked, Resolve, Decided, Poll, Checking, RegistryInv,
      ConcludeOr, Conclude, TurnTo, Ask, Return, TypeInv, ServicesTypeOK, Unsent
<1>6. stage'[c] = "looked" => question'[c].predicate \notin SemanticPredicates
  BY <1>1, <1>4
  DEF CheckStep, ReadFacts, ReadWorld, LookIfAllowed, Looked, Resolve, Decided, Poll, RegistryInv,
      ConcludeOr, Conclude, TurnTo, Ask, TypeInv
<1>7. GoalsGoOn
  BY <1>1 DEF GoalsGoOn, Accepted
<1>8. \A d \in Goals \ {c} : Unsent(d)' => goal'[d] = "none"
  BY <1>1, <1>2 DEF RegistryInv, Unsent
<1>9. \A d \in Goals \ {c} : stage'[d] = "looked" => question'[d].predicate \notin SemanticPredicates
  BY <1>1, <1>2 DEF RegistryInv
<1>10. \A d \in Goals : stage'[d] = "none" <=> stage[d] = "none"
  BY <1>2, <1>3
<1> QED
  BY <1>5, <1>6, <1>7, <1>8, <1>9, <1>10, GoalsGoOnKeep

LEMMA CallKeepsRegistry ==
  ASSUME TypeInv, RegistryInv, NEW c \in Goals, CallStep(c), UNCHANGED checkVars  PROVE RegistryInv'
<1> USE DEF TypeInv, ServicesTypeOK, checkVars, serverVars, requestVars, RegistryInv, GoalsGoOn, Unsent,
            Accepted
<1> DEFINE Good == GoalsGoOn /\ \A d \in Goals : Unsent(d)' => goal'[d] = "none"
<1>1. ASSUME Begin(c)  PROVE Good
  BY <1>1 DEF Begin, Goto, Return
<1>2. ASSUME Acquire(c)  PROVE Good
  BY <1>2 DEF Acquire, Goto, Return
<1>3. ASSUME AcquireEnds(c)  PROVE Good
  BY <1>3 DEF AcquireEnds, Goto, Return
<1>4. ASSUME AcquireTimesOut(c)  PROVE Good
  BY <1>4 DEF AcquireTimesOut, Return
<1>5. ASSUME Say(c)  PROVE Good
  BY <1>5 DEF Say, Return
<1>6. ASSUME RememberPlace(c)  PROVE Good
  BY <1>6 DEF RememberPlace, Return
<1>7. ASSUME Send(c)  PROVE Good
  BY <1>7 DEF Send, Goto, Leased
<1>8. ASSUME Sent(c)  PROVE Good
  BY <1>8 DEF Sent, Goto, Return, Outside
<1>9. ASSUME GivesUpSending(c)  PROVE Good
  BY <1>9 DEF GivesUpSending, Return, Outside
<1>10. ASSUME Waited(c)  PROVE Good
  BY <1>10 DEF Waited, Return
<1>11. ASSUME CancelsGoal(c)  PROVE Good
  BY <1>11 DEF CancelsGoal, Goto
<1>12. ASSUME CancelWaited(c)  PROVE Good
  BY <1>12 DEF CancelWaited, Return
<1>13. ASSUME Leave(c)  PROVE Good
  BY <1>13 DEF Leave, Goto, Outside
<1>14. ASSUME Release(c)  PROVE Good
  BY <1>14 DEF Release, Goto
<1>15. Good
  BY <1>1, <1>2, <1>3, <1>4, <1>5, <1>6, <1>7, <1>8, <1>9, <1>10, <1>11, <1>12, <1>13, <1>14
  DEF CallStep
<1> QED
  BY <1>15, GoalsGoOnKeep

LEMMA ServerKeepsRegistry ==
  ASSUME TypeInv, RegistryInv, ServerStep, UNCHANGED <<callVars, checkVars>>  PROVE RegistryInv'
<1> USE NoneAssumption
    DEF TypeInv, ServicesTypeOK, RegistryInv, EntriesInv, Asked, Unsent, Accepted, callVars, checkVars,
        requestVars, serverVars
<1>1. ASSUME NEW g \in Goals, GoalCallback(g)  PROVE RegistryInv'
  BY <1>1 DEF GoalCallback
<1>2. ASSUME NEW g \in Goals, CancelCallback(g)  PROVE RegistryInv'
  BY <1>2 DEF CancelCallback
<1>3. ASSUME NEW g \in Goals, Register(g)  PROVE RegistryInv'
  BY <1>3 DEF Register
<1>4. ASSUME NEW g \in Goals, EndWait(g)  PROVE RegistryInv'
  BY <1>4 DEF EndWait, StopsWaiting
<1>5. ASSUME NEW g \in Goals, ReturnResult(g)  PROVE RegistryInv'
  BY <1>5 DEF ReturnResult
<1>6. ASSUME NEW o \in Operators, HandleResponse(o)  PROVE RegistryInv'
  <2>1. UNCHANGED <<requestVars, goal, serving, registry>>
    BY <1>6 DEF HandleResponse, FindRequest, ResolveRequest
  <2>2. GoalsGoOn
    BY <2>1 DEF GoalsGoOn
  <2> HIDE DEF RegistryInv
  <2>3. \A c \in Goals : Unsent(c)' => goal'[c] = "none"
    BY <2>1 DEF RegistryInv
  <2>4. \A c \in Goals : stage'[c] = "looked" => question'[c].predicate \notin SemanticPredicates
    BY <2>1 DEF RegistryInv
  <2> QED
    BY <2>2, <2>3, <2>4, GoalsGoOnKeep
<1> QED
  BY <1>1, <1>2, <1>3, <1>4, <1>5, <1>6 DEF ServerStep, ServeGoal

LEMMA OthersKeepRegistry ==
  ASSUME TypeInv, RegistryInv, UNCHANGED checkVars,
         (\E c \in Goals : Renew(c)) \/ Environment \/ LookForCurrent \/ CancelCurrent \/ Tick
  PROVE  RegistryInv'
<1>1. UNCHANGED <<requestVars, registry, serving, pc>>
  BY DEF Renew, Environment, Authority, OtherServer, BranchTimesOut, CancelMission, LookForCurrent,
         CancelCurrent, Tick, callVars, serverVars
<1>2. \A g \in Goals : (Accepted(g) => Accepted(g)') /\ (goal[g] = "none" => goal'[g] = "none")
  <2>1. UNCHANGED goal \/ \E g \in Goals : OtherServer(g)
    BY DEF Renew, Environment, Authority, BranchTimesOut, CancelMission, LookForCurrent, CancelCurrent, Tick
  <2> QED
    BY <2>1 DEF OtherServer, Accepted, TypeInv, ServicesTypeOK
<1>3. GoalsGoOn
  BY <1>1, <1>2 DEF GoalsGoOn, checkVars
<1>4. \A c \in Goals : Unsent(c)' => goal'[c] = "none"
  BY <1>1, <1>2 DEF RegistryInv, Unsent, checkVars
<1> QED
  BY <1>3, <1>4, GoalsGoOnKeep DEF RegistryInv, checkVars

LEMMA RegistryStep ==
  ASSUME TypeInv, RegistryInv, [Next]_vars  PROVE RegistryInv'
<1>1. CASE UNCHANGED vars
  BY <1>1 DEF vars, callVars, serverVars, requestVars, RegistryInv, EntriesInv, Asked, Unsent,
     Accepted
<1>2. CASE Next
  BY <1>1, <1>2, CheckKeepsRegistry, CallKeepsRegistry, ServerKeepsRegistry, OthersKeepRegistry
  DEF Next, Finished, ServerStep
<1> QED
  BY <1>1, <1>2

\* The table of pending requests names only requests somebody waits for, and an
\* operator's call finds whoever waits unless the id has blanks around it or another
\* goal with the id was accepted.
THEOREM RegistryCorrect == Spec => []RegistryHoldsWaiting
<1>1. Init => TypeInv /\ RegistryInv
  BY TypesInitial, RegistryInitial
<1>2. TypeInv /\ RegistryInv /\ [Next]_vars => TypeInv' /\ RegistryInv'
  BY TypesStep, RegistryStep
<1>3. RegistryInv => RegistryHoldsWaiting
  <2> SUFFICES ASSUME RegistryInv, NEW g \in Goals, Stripped[requestId[g]] = requestId[g],
                      registry[requestId[g]] = g
               PROVE  Found(requestId[g]) = g
    BY DEF RegistryInv, EntriesInv, RegistryHoldsWaiting
  <2> QED
    BY NoneAssumption DEF RegistryInv, Asked, Found
<1> QED
  BY <1>1, <1>2, <1>3, PTL DEF Spec

-----------------------------------------------------------------------------
(* Goals nobody waits for *)

\* Where a call is that does not wait for its goal any longer; a check is there
\* when its look has returned.
Over == {"canceling", "leave", "release", "done", "checking"}

\* A call stops waiting for a goal at work when it asks for its cancel, or late;
\* a sentence has no goal.
AbandonInv ==
  \A c \in Goals :
    /\ pc[c] \in Over /\ goal[c] \in {"sent", "running"} /\ cancel[c] = "none" => c \in late
    /\ pc[c] = "publish" => goal[c] = "none"

LEMMA AbandonInitial == Init => AbandonInv
BY DEF Init, ServerInit, CallsInit, AbandonInv, Over

LEMMA CheckKeepsAbandon ==
  ASSUME TypeInv, AbandonInv, NEW c \in Goals, CheckStep(c)  PROVE AbandonInv'
<1>1. UNCHANGED <<goal, cancel, late>>
  BY DEF CheckStep, ReadFacts, ReadWorld, LookIfAllowed, Looked, Resolve, Decided, Poll, allButCheck
<1>2. \A d \in Goals \ {c} : pc'[d] = pc[d]
  BY DEF CheckStep, ReadFacts, ReadWorld, LookIfAllowed, Looked, Resolve, Decided, Poll,
         ConcludeOr, Conclude, TurnTo, Ask, Return, TypeInv, ServicesTypeOK
<1>3. pc[c] \in {"checking", "done"} /\ pc'[c] \in {"checking", "done", "ready"}
  BY DEF CheckStep, ReadFacts, ReadWorld, LookIfAllowed, Looked, Resolve, Decided, Poll, Checking,
         ConcludeOr, Conclude, TurnTo, Ask, Return, TypeInv, ServicesTypeOK
<1> QED
  BY <1>1, <1>2, <1>3 DEF AbandonInv, Over

\* A goal is asked to end before the call stops waiting for it.
LEMMA CallKeepsAbandon ==
  ASSUME TypeInv, RegistryInv, AbandonInv, NEW c \in Goals, CallStep(c)  PROVE AbandonInv'
<1> USE DEF TypeInv, ServicesTypeOK, AbandonInv, Over
<1>a. pc[c] \in {"ready", "acquire", "acquiring", "send"} => goal[c] = "none"
  BY DEF RegistryInv, Unsent
<1>1. CASE Begin(c)
  BY <1>1, <1>a DEF Begin, Goto, Return
<1>2. CASE Acquire(c)
  BY <1>2, <1>a DEF Acquire, Goto, Return
<1>3. CASE AcquireEnds(c)
  BY <1>3, <1>a DEF AcquireEnds, Goto, Return
<1>4. CASE AcquireTimesOut(c)
  BY <1>4, <1>a DEF AcquireTimesOut, Return
<1>5. CASE Say(c)
  BY <1>5 DEF Say, Return
<1>6. CASE RememberPlace(c)
  BY <1>6, <1>a DEF RememberPlace, Return
<1>7. CASE Send(c)
  BY <1>7 DEF Send, Goto, Leased
<1>8. CASE Sent(c)
  BY <1>8 DEF Sent, Goto, Return, Outside, Accepted
<1>9. CASE GivesUpSending(c)
  BY <1>9 DEF GivesUpSending, Return, Outside
<1>10. CASE Waited(c)
  BY <1>10 DEF Waited, Return, Ended
<1>11. CASE CancelsGoal(c)
  BY <1>11 DEF CancelsGoal, Goto, AskToCancel, Ended
<1>12. CASE CancelWaited(c)
  BY <1>12 DEF CancelWaited, Return
<1>13. CASE Leave(c)
  BY <1>13 DEF Leave, Goto, Outside
<1>14. CASE Release(c)
  BY <1>14 DEF Release, Goto
<1> QED
  BY <1>1, <1>2, <1>3, <1>4, <1>5, <1>6, <1>7, <1>8, <1>9, <1>10, <1>11, <1>12, <1>13, <1>14
  DEF CallStep

\* No other step starts a goal or takes a cancel back.
LEMMA OthersStartNothing ==
  ASSUME TypeInv, RegistryInv,
         ServerStep \/ (\E c \in Goals : Renew(c)) \/ Environment \/ LookForCurrent \/ CancelCurrent \/ Tick,
         NEW g \in Goals
  PROVE  /\ goal'[g] \in {"sent", "running"} => goal[g] \in {"sent", "running"}
         /\ goal[g] = "none" => goal'[g] = "none"
         /\ cancel'[g] = "none" => cancel[g] = "none"
<1> USE DEF TypeInv, ServicesTypeOK
<1> DEFINE Quiet == /\ goal'[g] \in {"sent", "running"} => goal[g] \in {"sent", "running"}
                    /\ goal[g] = "none" => goal'[g] = "none"
                    /\ cancel'[g] = "none" => cancel[g] = "none"
<1>1. ASSUME NEW h \in Goals, ServeGoal(h)  PROVE Quiet
  <2>1. ASSUME GoalCallback(h)  PROVE Quiet
    BY <2>1 DEF GoalCallback
  <2>2. ASSUME CancelCallback(h)  PROVE Quiet
    BY <2>2 DEF CancelCallback
  <2>3. ASSUME Register(h) \/ EndWait(h)  PROVE Quiet
    BY <2>3 DEF Register, EndWait
  <2>4. ASSUME ReturnResult(h)  PROVE Quiet
    <3>1. goal[h] # "none" /\ goal'[h] \in {"canceled", "succeeded"} /\ UNCHANGED cancel
      BY <2>4 DEF ReturnResult, RegistryInv, Accepted
    <3> QED
      BY <2>4, <3>1 DEF ReturnResult
  <2> QED
    BY <1>1, <2>1, <2>2, <2>3, <2>4 DEF ServeGoal
<1>2. ASSUME NEW h \in Goals, OtherServer(h)  PROVE Quiet
  BY <1>2 DEF OtherServer
<1>3. ASSUME CancelCurrent  PROVE Quiet
  BY <1>3 DEF CancelCurrent, AskToCancel
<1>4. ASSUME UNCHANGED <<goal, cancel>>  PROVE Quiet
  BY <1>4
<1>5. (\E h \in Goals : ServeGoal(h) \/ OtherServer(h)) \/ CancelCurrent \/ UNCHANGED <<goal, cancel>>
  BY DEF ServerStep, HandleResponse, FindRequest, ResolveRequest, Renew, Environment, Authority, BranchTimesOut,
         CancelMission, LookForCurrent, Tick
<1> QED
  BY <1>1, <1>2, <1>3, <1>4, <1>5

LEMMA OthersKeepAbandon ==
  ASSUME TypeInv, RegistryInv, AbandonInv,
         (ServerStep /\ UNCHANGED callVars) \/ (\E c \in Goals : Renew(c)) \/ Environment
           \/ LookForCurrent \/ CancelCurrent \/ Tick
  PROVE  AbandonInv'
<1>1. UNCHANGED <<pc, late>>
  BY DEF Renew, Environment, Authority, OtherServer, BranchTimesOut, CancelMission, LookForCurrent,
         CancelCurrent, Tick, callVars
<1> QED
  BY <1>1, OthersStartNothing DEF AbandonInv

\* A robot action goes on with nobody waiting for it and nobody having asked it to
\* stop only where the adapter gave up before the server had answered, or when the
\* time was over: every other way out of a call asks for the cancel first.
THEOREM AbandonedCorrect == Spec => []AbandonedOnlyLate
<1>1. Init => TypeInv /\ RegistryInv /\ AbandonInv
  BY TypesInitial, RegistryInitial, AbandonInitial
<1>2. ASSUME TypeInv, RegistryInv, AbandonInv, [Next]_vars  PROVE AbandonInv'
  <2>1. CASE UNCHANGED vars
    BY <1>2, <2>1 DEF vars, callVars, AbandonInv
  <2>2. CASE Next
    BY <1>2, <2>1, <2>2, CheckKeepsAbandon, CallKeepsAbandon, OthersKeepAbandon
    DEF Next, Finished, ServerStep
  <2> QED
    BY <1>2, <2>1, <2>2
<1>3. TypeInv /\ RegistryInv /\ AbandonInv /\ [Next]_vars => TypeInv' /\ RegistryInv' /\ AbandonInv'
  BY <1>2, TypesStep, RegistryStep
<1>4. AbandonInv => AbandonedOnlyLate
  BY DEF AbandonInv, AbandonedOnlyLate, Over
<1> QED
  BY <1>1, <1>3, <1>4, PTL DEF Spec

-----------------------------------------------------------------------------
(* Leases *)

\* Where a call holds its lease and its renewal thread runs.
AtWork == {"send", "sending", "wait", "canceling", "leave"}

\* The lease of one call: none before it is asked for, new when the authority's
\* answer is read, and from then on longer than the renewal thread sleeps,
\* as long as no renewal fails.
LeaseOf(c) ==
  /\ pc[c] \in {"ready", "acquire"} => lease[c] = "none" /\ due[c] = None
  /\ pc[c] = "acquiring" =>
       /\ due[c] = None
       /\ lease[c] \in {"asked", "denied", "held", "preempted"}
       /\ lease[c] = "held" => ttl[c] >= TTL - 1
  /\ pc[c] \in AtWork =>
       /\ due[c] # None
       /\ lease[c] \notin {"none", "asked"}
       /\ c \notin missed => lease[c] # "lapsed" /\ (lease[c] = "held" => ttl[c] > due[c])

LeaseInv == \A c \in Goals : kind[c] \in {"move", "animate"} => LeaseOf(c)

\* Two wake-ups and a slow answer fit into a lease of four seconds and more.
LEMMA RenewsInTime ==
  ASSUME TTL >= 4  PROVE RenewInterval \in Nat /\ RenewInterval + 1 < TTL
BY LeaseAssumption DEF RenewInterval

LEMMA LeaseInitial == Init => LeaseInv
BY DEF Init, CallsInit, LeaseInv, LeaseOf, AtWork

\* A check has no lease.
LEMMA CheckKeepsLease ==
  ASSUME TypeInv, LeaseInv, NEW c \in Goals, CheckStep(c)  PROVE LeaseInv'
<1>1. UNCHANGED leaseVars
  BY DEF CheckStep, ReadFacts, ReadWorld, LookIfAllowed, Looked, Resolve, Decided, Poll, allButCheck
<1>2. \A d \in Goals \ {c} : pc'[d] = pc[d] /\ kind'[d] = kind[d]
  BY DEF CheckStep, ReadFacts, ReadWorld, LookIfAllowed, Looked, Resolve, Decided, Poll,
         ConcludeOr, Conclude, TurnTo, Ask, Return, TypeInv, ServicesTypeOK
<1>3. \/ kind'[c] \in {"look", "decide"}
      \/ kind'[c] = kind[c] /\ pc'[c] \in {"checking", "done"}
  BY DEF CheckStep, ReadFacts, ReadWorld, LookIfAllowed, Looked, Resolve, Decided, Poll, Checking,
         ConcludeOr, Conclude, TurnTo, Ask, Return, TypeInv, ServicesTypeOK
<1> QED
  BY <1>1, <1>2, <1>3 DEF LeaseInv, LeaseOf, AtWork, leaseVars

LEMMA CallKeepsLease ==
  ASSUME TTL >= 4, TypeInv, LeaseInv, NEW c \in Goals, CallStep(c)  PROVE LeaseInv'
<1> USE DEF TypeInv, ServicesTypeOK, LeaseInv, LeaseOf, AtWork, leaseVars
<1>1. CASE Begin(c)
  BY <1>1 DEF Begin, Goto, Return
<1>2. CASE Acquire(c)
  BY <1>2 DEF Acquire, Goto, Return
<1>3. CASE AcquireEnds(c)
  <2>1. CASE Return(c, "failed", "done") /\ UNCHANGED due
    BY <1>3, <2>1 DEF AcquireEnds, Return
  <2>2. CASE /\ lease[c] \in {"held", "preempted", "lapsed"}
             /\ Goto(c, IF kind[c] = "say" THEN "publish" ELSE "send")
             /\ due' = [due EXCEPT ![c] = IF kind[c] = "say" THEN None ELSE RenewInterval]
    <3>1. lease[c] = "held" /\ kind[c] # "say" /\ kind[c] \in {"move", "animate"} => ttl[c] > RenewInterval
      BY <1>3, RenewsInTime, LeaseAssumption DEF AcquireEnds
    <3>2. RenewInterval # None
      BY RenewsInTime, LeaseAssumption
    <3> QED
      BY <1>3, <2>2, <3>1, <3>2 DEF AcquireEnds, Goto
  <2> QED
    BY <1>3, <2>1, <2>2 DEF AcquireEnds
<1>4. CASE AcquireTimesOut(c)
  BY <1>4 DEF AcquireTimesOut, Return
<1>5. CASE Say(c)
  BY <1>5 DEF Say, Return
<1>6. CASE RememberPlace(c)
  BY <1>6 DEF RememberPlace, Return
<1>7. CASE Send(c)
  BY <1>7 DEF Send, Goto, Leased
<1>8. CASE Sent(c)
  BY <1>8 DEF Sent, Goto, Return, Outside
<1>9. CASE GivesUpSending(c)
  BY <1>9 DEF GivesUpSending, Return, Outside
<1>10. CASE Waited(c)
  BY <1>10 DEF Waited, Return
<1>11. CASE CancelsGoal(c)
  BY <1>11 DEF CancelsGoal, Goto
<1>12. CASE CancelWaited(c)
  BY <1>12 DEF CancelWaited, Return
<1>13. CASE Leave(c)
  BY <1>13 DEF Leave, Goto, Outside
<1>14. CASE Release(c)
  BY <1>14 DEF Release, Goto
<1> QED
  BY <1>1, <1>2, <1>3, <1>4, <1>5, <1>6, <1>7, <1>8, <1>9, <1>10, <1>11, <1>12, <1>13, <1>14
  DEF CallStep

\* A renewal that is answered leaves more time than the thread sleeps.
LEMMA RenewKeepsLease ==
  ASSUME TTL >= 4, TypeInv, LeaseInv, NEW c \in Goals, Renew(c)  PROVE LeaseInv'
<1> USE DEF TypeInv, ServicesTypeOK, LeaseInv
<1>1. UNCHANGED <<kind, pc, lease>>
  BY DEF Renew, callVars
<1>2. \A d \in Goals \ {c} : due'[d] = due[d] /\ ttl'[d] = ttl[d] /\ (d \in missed' <=> d \in missed)
  BY DEF Renew
<1>3. PICK answered \in 0 .. 1 : due' = [due EXCEPT ![c] = RenewInterval + answered]
  BY DEF Renew
<1>4. due'[c] \in Nat /\ due'[c] < TTL /\ due'[c] # None
  BY <1>3, RenewsInTime, LeaseAssumption
<1>5. c \in missed' \/ (lease[c] = "held" /\ ttl'[c] = TTL)
  BY DEF Renew
<1>6. due[c] # None
  BY LeaseAssumption DEF Renew
<1>7. \A d \in Goals \ {c} : LeaseOf(d) => LeaseOf(d)'
  BY <1>1, <1>2 DEF LeaseOf
<1>8. LeaseOf(c) => LeaseOf(c)'
  BY <1>1, <1>4, <1>5, <1>6 DEF LeaseOf, AtWork
<1> QED
  BY <1>1, <1>7, <1>8

\* A second takes as much from the lease as from the sleep.
LEMMA TickKeepsLease ==
  ASSUME TTL >= 4, TypeInv, LeaseInv, Tick  PROVE LeaseInv'
<1> USE DEF TypeInv, ServicesTypeOK, LeaseInv
<1>1. UNCHANGED <<kind, pc, missed>>
  BY DEF Tick, callVars
<1> SUFFICES ASSUME NEW c \in Goals, kind[c] \in {"move", "animate"}, LeaseOf(c)  PROVE LeaseOf(c)'
  BY <1>1
<1>2. /\ ttl'[c] = IF lease[c] = "held" THEN ttl[c] - 1 ELSE ttl[c]
      /\ lease'[c] = IF lease[c] = "held" /\ ttl[c] = 1 THEN "lapsed" ELSE lease[c]
      /\ due'[c] = IF due[c] = None THEN None ELSE due[c] - 1
      /\ due[c] # 0
      /\ ~(pc[c] = "acquiring" /\ lease[c] = "held" /\ ttl[c] < TTL)
  BY DEF Tick
<1>3. ttl[c] \in Nat /\ (due[c] # None => due[c] \in Nat /\ due[c] - 1 \in Nat)
  <2>1. ttl \in [Goals -> Nat] /\ due \in [Goals -> {None} \cup Nat] /\ c \in Goals
    OBVIOUS
  <2> HIDE DEF TypeInv, ServicesTypeOK, LeaseInv
  <2>2. ttl[c] \in Nat /\ (due[c] # None => due[c] \in Nat)
    BY <2>1
  <2> QED
    BY <1>2, <2>2
<1>4. CASE pc[c] = "acquiring"
  BY <1>1, <1>2, <1>3, <1>4, LeaseAssumption DEF LeaseOf, AtWork
<1>5. CASE pc[c] \in AtWork
  BY <1>1, <1>2, <1>3, <1>5, LeaseAssumption DEF LeaseOf, AtWork
<1>6. CASE pc[c] \notin AtWork \cup {"acquiring"}
  BY <1>1, <1>2, <1>6 DEF LeaseOf, AtWork
<1> QED
  BY <1>4, <1>5, <1>6

LEMMA OthersKeepLease ==
  ASSUME TTL >= 4, TypeInv, LeaseInv,
         (ServerStep /\ UNCHANGED <<callVars, leaseVars>>) \/ Environment \/ LookForCurrent \/ CancelCurrent
  PROVE  LeaseInv'
<1> USE DEF TypeInv, ServicesTypeOK, LeaseInv, LeaseOf, AtWork, leaseVars, callVars
<1>1. ASSUME NEW c \in Goals, Authority(c)  PROVE LeaseInv'
  <2>1. UNCHANGED <<kind, pc, due, missed>>
    BY <1>1 DEF Authority
  <2>2. \A d \in Goals \ {c} : lease'[d] = lease[d] /\ ttl'[d] = ttl[d]
    BY <1>1 DEF Authority
  <2>3. \/ lease[c] = "asked" /\ lease'[c] = "held" /\ ttl'[c] = TTL
        \/ lease[c] = "asked" /\ lease'[c] = "denied"
        \/ lease[c] = "held" /\ lease'[c] = "preempted"
    BY <1>1 DEF Authority
  <2> QED
    BY <2>1, <2>2, <2>3, LeaseAssumption
<1>2. CASE UNCHANGED <<kind, pc, leaseVars>>
  BY <1>2
<1>3. (\E c \in Goals : Authority(c)) \/ UNCHANGED <<kind, pc, leaseVars>>
  BY DEF Environment, OtherServer, BranchTimesOut, CancelMission, LookForCurrent, CancelCurrent
<1> QED
  BY <1>1, <1>2, <1>3

\* A dedicated skill never works on without its lease, unless a renewal failed, if
\* a lease lasts four seconds or more; with a shorter one the renewal that comes
\* every second may come when the lease ends.
THEOREM LeaseCorrect == ASSUME TTL >= 4  PROVE Spec => []LeaseKeptAlive
<1>1. Init => TypeInv /\ LeaseInv
  BY TypesInitial, LeaseInitial
<1>2. ASSUME TypeInv, LeaseInv, [Next]_vars  PROVE LeaseInv'
  <2>1. CASE UNCHANGED vars
    BY <1>2, <2>1 DEF vars, callVars, leaseVars, LeaseInv, LeaseOf
  <2>2. CASE Next
    BY <1>2, <2>1, <2>2, CheckKeepsLease, CallKeepsLease, RenewKeepsLease, TickKeepsLease, OthersKeepLease
    DEF Next, Finished, ServerStep
  <2> QED
    BY <1>2, <2>1, <2>2
<1>3. TypeInv /\ LeaseInv /\ [Next]_vars => TypeInv' /\ LeaseInv'
  BY <1>2, TypesStep
<1>4. LeaseInv => LeaseKeptAlive
  BY DEF LeaseInv, LeaseOf, AtWork, LeaseKeptAlive
<1> QED
  BY <1>1, <1>3, <1>4, PTL DEF Spec

-----------------------------------------------------------------------------
(* What decides a check *)

\* The evidence "found" that the verdict v of the question q stands on is one the
\* question admits.
Supports(q, v, found) ==
  v # "UNKNOWN" =>
    /\ q.type = "structured" => /\ found.source # "vision"
                                /\ found.source = "operator" => q.predicate \in SemanticPredicates
    /\ found.source = "fresh" => q.predicate \in PhysicalPredicates
    /\ q.type = "human" /\ q.mode \in Explicit =>
         \/ found.source \in {"facts", "world"} /\ found.seen # "missing"
         \/ found.source = "fresh"
    /\ q.type \in {"structured", "hybrid"}
         /\ q.predicate \in {"entity_approached", "entity_located", "contact_detected"} =>
         found.seen # "unverified"
    /\ q.predicate = "entity_approached" /\ found.source = "fresh" =>
         ~q.byId /\ (v = "FALSE" => found.seen = "far")

\* A check that is over stays so; one that looks may, and one that asks an operator
\* asks what only an operator decides.
EvidenceInv ==
  /\ DOMAIN question \subseteq Goals /\ DOMAIN basis = Goals
  /\ \A c \in Goals : stage[c] = "done" => pc[c] = "done" /\ Supports(question[c], result[c], basis[c])
  /\ \A c \in Goals : stage[c] = "looked" => AllowsVisualFallback(question[c])
  /\ \A c \in Goals : stage[c] = "decided" => question[c].predicate \in SemanticPredicates

LEMMA EvidenceInitial == Init => EvidenceInv
<1> SUFFICES ASSUME Init  PROVE EvidenceInv
  OBVIOUS
<1>1. PICK mix \in Mixes : kind = mix.kind /\ question = mix.question
  BY DEF Init
<1>2. DOMAIN question \subseteq Goals
  BY <1>1, MixesAssumption
<1>3. /\ stage = [c \in Goals |-> IF kind[c] = "check" THEN "facts" ELSE "none"]
      /\ basis = [c \in Goals |-> [source |-> "none", seen |-> "missing"]]
  BY DEF Init
<1> QED
  BY <1>2, <1>3 DEF EvidenceInv

\* A recorded answer is a person's where one was asked for, and what a skill could
\* not verify decides neither a place, an approach nor a contact.
LEMMA ReadingsSupport ==
  ASSUME NEW q, NEW entry \in Entry, NEW v \in {CheckFacts(q, entry), CheckWorld(q, entry)},
         NEW source \in {"facts", "world"}
  PROVE  Supports(q, v, [source |-> source, seen |-> entry])
<1>1. ASSUME q.type = "human", q.mode \in Explicit, v # "UNKNOWN"  PROVE entry # "missing"
  <2>1. q.mode \notin Implicit
    BY <1>1 DEF Explicit, Implicit
  <2>2. v = HumanConfirmationResult(entry)
    BY <1>1, <2>1 DEF CheckFacts, CheckWorld
  <2> QED
    BY <1>1, <2>2 DEF HumanConfirmationResult, Verdict
<1>2. ASSUME q.type \in {"structured", "hybrid"}, v # "UNKNOWN", entry = "unverified",
             q.predicate \in {"entity_approached", "entity_located", "contact_detected"}
      PROVE  FALSE
  <2>1. v = PredicateResult(q.predicate, entry)
    <3>1. Checked(q) = q.predicate /\ q.type # "human"
      BY <1>2 DEF Checked
    <3>2. CheckFacts(q, entry) = CheckExecutionFacts(q.predicate, entry)
      BY <3>1 DEF CheckFacts
    <3>3. CheckWorld(q, entry) = CheckSnapshot(q.predicate, entry)
      BY <3>1 DEF CheckWorld
    <3> QED
      BY <1>2, <3>2, <3>3 DEF CheckExecutionFacts, CheckSnapshot
  <2>2. PredicateResult(q.predicate, entry) = DirectResult(q.predicate, entry)
    BY <1>2 DEF PredicateResult, Registered, Named
  <2> QED
    BY <1>2, <2>1, <2>2 DEF DirectResult, Verdict
<1> QED
  BY <1>1, <1>2 DEF Supports

\* A look that measures is at one instance, and only a far one speaks against an
\* approach.
LEMMA LooksSupport ==
  ASSUME NEW q, q.predicate \in PhysicalPredicates, NEW fresh \in FreshAnswers(q)
  PROVE  Supports(q, fresh.verdict, [source |-> "fresh", seen |-> fresh.seen])
<1>1. ASSUME q.predicate = "entity_approached", fresh.verdict # "UNKNOWN"
      PROVE  ~q.byId /\ fresh.seen # "unverified" /\ (fresh.verdict = "FALSE" => fresh.seen = "far")
  <2>1. PICK look \in Located : fresh = [verdict |-> EntityApproached(q.byId, look), seen |-> look]
    <3>1. FreshAnswers(q) = {[verdict |-> EntityApproached(q.byId, look), seen |-> look] : look \in Located}
      BY <1>1 DEF FreshAnswers
    <3> QED
      BY <3>1
  <2>2. fresh.verdict = EntityApproached(q.byId, look) /\ fresh.seen = look
    BY <2>1
  <2>3. ~q.byId /\ look \in {"near", "weak", "far"} /\ (EntityApproached(q.byId, look) = "FALSE" => look = "far")
    BY <1>1, <2>2 DEF EntityApproached
  <2> QED
    BY <2>2, <2>3
<1>2. q.predicate \notin {"entity_located", "contact_detected"}
  BY DEF PhysicalPredicates
<1> QED
  BY <1>1, <1>2 DEF Supports

LEMMA CheckKeepsEvidence ==
  ASSUME TypeInv, RegistryInv, EvidenceInv, NEW c \in Goals, CheckStep(c)  PROVE EvidenceInv'
<1> USE DEF TypeInv, ServicesTypeOK, EvidenceInv, allButCheck
<1>1. UNCHANGED question
  BY DEF CheckStep, ReadFacts, ReadWorld, LookIfAllowed, Looked, Resolve, Decided, Poll
<1>2. ASSUME NEW v, NEW source, NEW seen, Conclude(c, v, source, seen),
             Supports(question[c], v, [source |-> source, seen |-> seen])
      PROVE  EvidenceInv'
  <2>1. /\ pc' = [pc EXCEPT ![c] = "done"] /\ stage' = [stage EXCEPT ![c] = "done"]
        /\ result' = [result EXCEPT ![c] = v]
        /\ basis' = [basis EXCEPT ![c] = [source |-> source, seen |-> seen]]
    BY <1>2 DEF Conclude, Return
  <2>2. Supports(question[c], result'[c], basis'[c])
    BY <1>2, <2>1
  <2>3. \A d \in Goals \ {c} : /\ pc'[d] = pc[d] /\ stage'[d] = stage[d]
                               /\ result'[d] = result[d] /\ basis'[d] = basis[d]
    BY <2>1
  <2>4. stage'[c] = "done" /\ pc'[c] = "done" /\ DOMAIN basis' = Goals
    BY <2>1
  <2> QED
    BY <1>1, <2>2, <2>3, <2>4
<1>3. ASSUME NEW where \in Stages \ {"looked", "decided", "done"}, TurnTo(c, where)  PROVE EvidenceInv'
  BY <1>1, <1>3 DEF TurnTo
<1>4. ASSUME NEW service, NEW where \in {"looked", "decided"}, Ask(c, service, where),
             where = "looked" => AllowsVisualFallback(question[c]),
             where = "decided" => question[c].predicate \in SemanticPredicates,
             stage[c] # "done"
      PROVE  EvidenceInv'
  BY <1>1, <1>4 DEF Ask
<1>5. ASSUME NEW v, NEW source, NEW seen, NEW where \in {"world", "vision"},
             ConcludeOr(c, v, source, seen, where),
             Supports(question[c], v, [source |-> source, seen |-> seen])
      PROVE  EvidenceInv'
  BY <1>2, <1>3, <1>5 DEF ConcludeOr, Stages
<1>6. \A source, seen : Supports(question[c], "UNKNOWN", [source |-> source, seen |-> seen])
  BY DEF Supports
<1>7. CASE ReadFacts(c)
  BY <1>5, <1>7, ReadingsSupport DEF ReadFacts
<1>8. CASE ReadWorld(c)
  BY <1>5, <1>8, ReadingsSupport DEF ReadWorld
<1>9. CASE LookIfAllowed(c)
  BY <1>3, <1>4, <1>9 DEF LookIfAllowed, Checking, Stages
<1>10. CASE Looked(c)
  <2>1. CASE result[c] # "UNKNOWN"
    <3>1. question[c].type # "structured" /\ (question[c].type = "human" => question[c].mode \notin Explicit)
      BY <1>10 DEF Looked, AllowsVisualFallback, Explicit
    <3>2. Supports(question[c], result[c], [source |-> "vision", seen |-> "missing"])
      BY <3>1 DEF Supports
    <3> QED
      BY <1>2, <1>10, <2>1, <3>2 DEF Looked
  <2>2. CASE result[c] = "UNKNOWN"
    <3>1. /\ pc' = [pc EXCEPT ![c] = "checking"] /\ stage' = [stage EXCEPT ![c] = "resolve"]
          /\ UNCHANGED <<kind, result, basis>>
      BY <1>10, <2>2 DEF Looked
    <3> QED
      BY <1>1, <3>1
  <2> QED
    BY <2>1, <2>2
<1>11. CASE Resolve(c)
  BY <1>2, <1>3, <1>4, <1>6, <1>11 DEF Resolve, Checking, Stages
<1>12. CASE Decided(c)
  <2>1. question[c].predicate \in SemanticPredicates /\ question[c].type = "structured"
    BY <1>12 DEF Decided, RegistryInv, Asked
  <2>2. Supports(question[c], result[c], [source |-> "operator", seen |-> "missing"])
    BY <2>1 DEF Supports, SemanticPredicates
  <2> QED
    BY <1>2, <1>12, <2>2 DEF Decided
<1>13. CASE Poll(c)
  <2>1. question[c].predicate \in PhysicalPredicates
    BY <1>13 DEF Poll, Checking
  <2>2. PICK fresh \in FreshAnswers(question[c]) :
          Conclude(c, fresh.verdict, "fresh", fresh.seen) \/ Conclude(c, "UNKNOWN", "none", "missing")
    BY <1>13 DEF Poll
  <2>3. Supports(question[c], fresh.verdict, [source |-> "fresh", seen |-> fresh.seen])
    BY <2>1, LooksSupport
  <2> QED
    BY <1>2, <1>6, <2>2, <2>3
<1> QED
  BY <1>7, <1>8, <1>9, <1>10, <1>11, <1>12, <1>13 DEF CheckStep

\* A call that is made for a check does not touch the verdict of another.
LEMMA CallKeepsEvidence ==
  ASSUME TypeInv, EvidenceInv, NEW c \in Goals, CallStep(c), UNCHANGED checkVars  PROVE EvidenceInv'
<1>1. pc[c] # "done"
  BY DEF CallStep, Begin, Acquire, AcquireEnds, AcquireTimesOut, Say, RememberPlace, Send, Sent, GivesUpSending,
         Waited, CancelsGoal, CancelWaited, Leave, Release
<1>2. \A d \in Goals \ {c} : pc'[d] = pc[d] /\ result'[d] = result[d]
  BY DEF CallStep, Begin, Acquire, AcquireEnds, AcquireTimesOut, Say, RememberPlace, Send, Sent, GivesUpSending,
         Waited, CancelsGoal, CancelWaited, Leave, Release, Goto, Return, TypeInv, ServicesTypeOK
<1> QED
  BY <1>1, <1>2 DEF EvidenceInv, checkVars

LEMMA OthersKeepEvidence ==
  ASSUME EvidenceInv, UNCHANGED checkVars,
         (ServerStep /\ UNCHANGED callVars) \/ (\E c \in Goals : Renew(c)) \/ Environment
           \/ LookForCurrent \/ CancelCurrent \/ Tick
  PROVE  EvidenceInv'
<1>1. UNCHANGED <<pc, result>>
  BY DEF Renew, Environment, Authority, OtherServer, BranchTimesOut, CancelMission, LookForCurrent,
         CancelCurrent, Tick, callVars
<1> QED
  BY <1>1 DEF EvidenceInv, checkVars

\* No verdict stands on evidence its question does not admit, whatever is asked, in
\* whatever order the sources answer and however the world changes between them.
THEOREM EvidenceCorrect == Spec => []EvidenceDecides
<1>1. Init => TypeInv /\ RegistryInv /\ EvidenceInv
  BY TypesInitial, RegistryInitial, EvidenceInitial
<1>2. ASSUME TypeInv, RegistryInv, EvidenceInv, [Next]_vars  PROVE EvidenceInv'
  <2>1. CASE UNCHANGED vars
    BY <1>2, <2>1 DEF vars, callVars, EvidenceInv
  <2>2. CASE Next
    BY <1>2, <2>1, <2>2, CheckKeepsEvidence, CallKeepsEvidence, OthersKeepEvidence
    DEF Next, Finished, ServerStep
  <2> QED
    BY <1>2, <2>1, <2>2
<1>3. TypeInv /\ RegistryInv /\ EvidenceInv /\ [Next]_vars => TypeInv' /\ RegistryInv' /\ EvidenceInv'
  BY <1>2, TypesStep, RegistryStep
<1>4. EvidenceInv => EvidenceDecides
  BY DEF EvidenceInv, EvidenceDecides, Supports
<1> QED
  BY <1>1, <1>3, <1>4, PTL DEF Spec

=============================================================================
