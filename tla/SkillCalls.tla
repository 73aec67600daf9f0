------------------------------ MODULE SkillCalls ------------------------------
(***************************************************************************)
(* The calls a mission's threads make of the rest of the robot: the skill  *)
(* adapters (src/mc_ai_bt/skill_adapters.py), the resource leases they     *)
(* hold (resource_client.py, lease_timing.py), the looks of the vision     *)
(* model (visual_client.py) and the operator decisions (decision_broker.py)*)
(* that checks ask for.  Parallel children make calls at the same time and *)
(* share one "current" goal handle.                                        *)
(*                                                                         *)
(* Every call is a thread of its own and sends at most one goal, which has *)
(* the call's name.  Confirmations go to ConfirmationServer; all other     *)
(* servers and the lease authority are outside this repository: they may   *)
(* refuse, stay silent, end a goal as they like and preempt a lease.       *)
(***************************************************************************)
EXTENDS ConfirmationServer

CONSTANTS
  TTL,          \* how long a lease lasts, in seconds; whole halves
  Cancelable    \* the missions somebody may cancel
ASSUME LeaseAssumption == TTL \in Nat \ {0} /\ TTL % 2 = 0 /\ None \notin Nat

VARIABLES
  kind,         \* what each call is
  timed,        \* the calls below a Timeout node
  pc,           \* where its thread is
  result,       \* the result it returns
  told,         \* the calls whose cancel event is set
  current,      \* _current_goal_handle
  ctl,          \* cancel_current: "idle", "looking" or the handle it found
  lease,        \* the lease of each call, as the authority has it
  ttl,          \* what is left of it
  due,          \* when its renewal thread wakes up; None while there is none
  last,         \* history: the last call that set "current"
  late,         \* history: the calls that gave up before or after the time to cancel their goal
  missed        \* history: the calls a renewal of which failed

callVars == <<kind, timed, pc, result, told, current, ctl, last, late>>
leaseVars == <<lease, ttl, due, missed>>

\* Of the dedicated skills "move" is checked on arrival and "animate" is not;
\* "look" and "decide" are made by a check.
Kinds == {"move", "animate", "embodied", "say", "remember", "confirm", "look", "decide"}

Leased(c) == kind[c] \in {"move", "animate", "say"}
Registers(c) == kind[c] \in {"move", "animate", "embodied", "confirm"}
ForConfirmation(c) == kind[c] \in {"confirm", "decide"}

CallsInit ==
  /\ pc = [c \in Goals |-> IF kind[c] = "check" THEN "checking" ELSE "ready"]
  /\ result = [c \in Goals |-> "none"]
  /\ told = {}
  /\ current = None /\ last = None
  /\ ctl = "idle"
  /\ late = {}
  /\ lease = [c \in Goals |-> "none"]
  /\ ttl = [c \in Goals |-> 0]
  /\ due = [c \in Goals |-> None]
  /\ missed = {}

\* The values a call returns that has no answer.
Failure(c) == IF kind[c] \in {"look", "decide"} THEN "UNKNOWN" ELSE "failed"
Rejected(c) == IF kind[c] = "confirm" THEN "blocked" ELSE Failure(c)
NotReady(c) == IF kind[c] \in {"confirm", "remember"} THEN "blocked" ELSE Failure(c)

Goto(c, where) == pc' = [pc EXCEPT ![c] = where] /\ UNCHANGED result
Return(c, value, where) == pc' = [pc EXCEPT ![c] = where] /\ result' = [result EXCEPT ![c] = value]

\* Where a call goes that has no goal handle to give up.
Outside(c) == IF Leased(c) THEN "release" ELSE "done"

-----------------------------------------------------------------------------
(* Leases *)

\* Fault: the lease is renewed when it ends.
RenewAtExpiry == TTL

\* lease_renew_interval
RenewInterval == IF TTL > 60 THEN 30 ELSE TTL \div 2

\* A request, unless the authority's service is not there.
Acquire(c) ==
  /\ pc[c] = "acquire"
  /\ \/ Return(c, "failed", "done") /\ UNCHANGED lease
     \/ Goto(c, "acquiring") /\ lease' = [lease EXCEPT ![c] = "asked"]
  /\ UNCHANGED <<requestVars, goal, cancel, serverVars, kind, timed, told, current, ctl, last, late, ttl, due, missed>>

\* A dedicated skill starts its renewal thread; a spoken sentence is over before
\* it would need one.
AcquireEnds(c) ==
  /\ pc[c] = "acquiring"
  /\ \/ /\ lease[c] \in {"held", "preempted", "lapsed"}
        /\ Goto(c, IF kind[c] = "say" THEN "publish" ELSE "send")
        /\ due' = [due EXCEPT ![c] = IF kind[c] = "say" THEN None ELSE RenewInterval]
     \/ lease[c] = "denied" /\ Return(c, "failed", "done") /\ UNCHANGED due
  /\ UNCHANGED <<requestVars, goal, cancel, serverVars, kind, timed, told, current, ctl, last, late, lease, ttl, missed>>

\* The client does not wait any longer; the authority may still grant the lease,
\* or has, and nobody will release it.
AcquireTimesOut(c) ==
  /\ pc[c] = "acquiring"
  /\ Return(c, "failed", "done")
  /\ UNCHANGED <<requestVars, goal, cancel, serverVars, kind, timed, told, current, ctl, last, late, leaseVars>>

\* The authority extends a lease it still knows.  The thread sleeps again when
\* the answer is there or a second is over.
Renew(c) ==
  /\ due[c] = 0
  /\ \/ /\ lease[c] = "held" /\ ttl' = [ttl EXCEPT ![c] = TTL]
        /\ UNCHANGED missed
     \/ missed' = missed \cup {c} /\ UNCHANGED ttl
  /\ \E answered \in 0 .. 1 : due' = [due EXCEPT ![c] = RenewInterval + answered]
  /\ UNCHANGED <<requestVars, goal, cancel, serverVars, callVars, lease>>

\* Fault: the renewal thread is not told to stop.
ReleaseOnly(c) ==
  /\ pc[c] = "release"
  /\ Goto(c, "done")
  /\ lease' \in {lease, [lease EXCEPT ![c] = IF @ = "held" THEN "released" ELSE @]}
  /\ UNCHANGED <<requestVars, goal, cancel, serverVars, kind, timed, told, current, ctl, last, late, due, ttl, missed>>

\* The renewal thread is stopped first; the release is not sent when the
\* service is not ready, and nobody waits for its answer.
Release(c) ==
  /\ pc[c] = "release"
  /\ Goto(c, "done")
  /\ due' = [due EXCEPT ![c] = None]
  /\ lease' \in {lease, [lease EXCEPT ![c] = IF @ = "held" THEN "released" ELSE @]}
  /\ UNCHANGED <<requestVars, goal, cancel, serverVars, kind, timed, told, current, ctl, last, late, ttl, missed>>

\* The lease authority.
Authority(c) ==
  /\ \/ lease[c] = "asked" /\ lease' = [lease EXCEPT ![c] = "held"] /\ ttl' = [ttl EXCEPT ![c] = TTL]
     \/ lease[c] = "asked" /\ lease' = [lease EXCEPT ![c] = "denied"] /\ UNCHANGED ttl
     \/ lease[c] = "held" /\ lease' = [lease EXCEPT ![c] = "preempted"] /\ UNCHANGED ttl
  /\ UNCHANGED <<requestVars, goal, cancel, serverVars, callVars, due, missed>>

\* A second.  A renewal thread wakes up in time, and an acquire that was
\* granted is answered, or given up, within a second.
Tick ==
  /\ \E c \in Goals : lease[c] = "held" \/ due[c] # None
  /\ \A c \in Goals : due[c] # 0 /\ ~(pc[c] = "acquiring" /\ lease[c] = "held" /\ ttl[c] < TTL)
  /\ ttl' = [c \in Goals |-> IF lease[c] = "held" THEN ttl[c] - 1 ELSE ttl[c]]
  /\ lease' = [c \in Goals |-> IF lease[c] = "held" /\ ttl[c] = 1 THEN "lapsed" ELSE lease[c]]
  /\ due' = [c \in Goals |-> IF due[c] = None THEN None ELSE due[c] - 1]
  /\ UNCHANGED <<requestVars, goal, cancel, serverVars, callVars, missed>>

-----------------------------------------------------------------------------
(* Goals *)

\* The call finds its server, or not.  A dedicated skill asks whether the mission
\* still wants it; an animation whose arguments are malformed is not sent.
Begin(c) ==
  /\ pc[c] = "ready"
  /\ \/ kind[c] # "say" /\ Return(c, NotReady(c), "done")
     \/ kind[c] = "animate" /\ Return(c, "failed", "done")
     \/ kind[c] \in {"move", "animate"} /\ c \in told /\ Return(c, "failed", "done")
     \/ Leased(c) /\ (kind[c] = "say" \/ c \notin told) /\ Goto(c, "acquire")
  /\ UNCHANGED <<requestVars, goal, cancel, serverVars, kind, timed, told, current, ctl, last, late, leaseVars>>

\* A sentence is published, and its facts written, whatever becomes of them.
Say(c) ==
  /\ pc[c] = "publish"
  /\ Return(c, "success", "release")
  /\ UNCHANGED <<requestVars, goal, cancel, serverVars, kind, timed, told, current, ctl, last, late, leaseVars>>

\* A place is saved by a plain service, which a cancel does not reach.
RememberPlace(c) ==
  /\ pc[c] = "ready" /\ kind[c] = "remember"
  /\ \E reply \in {"success", "failed"} : Return(c, reply, "done")
  /\ UNCHANGED <<requestVars, goal, cancel, serverVars, kind, timed, told, current, ctl, last, late, leaseVars>>

Send(c) ==
  /\ pc[c] = (IF Leased(c) THEN "send" ELSE "ready") /\ kind[c] # "remember"
  /\ goal' = [goal EXCEPT ![c] = "sent"]
  /\ Goto(c, "sending")
  /\ UNCHANGED <<requestVars, cancel, serverVars, kind, timed, told, current, ctl, last, late, leaseVars>>

Sent(c) ==
  /\ pc[c] = "sending"
  /\ IF Accepted(c)
     THEN /\ Goto(c, "wait")
          /\ current' = IF Registers(c) THEN c ELSE current
          /\ last' = IF Registers(c) THEN c ELSE last
     ELSE /\ goal[c] = "rejected" /\ Return(c, Rejected(c), Outside(c))
          /\ UNCHANGED <<current, last>>
  /\ UNCHANGED <<requestVars, goal, cancel, serverVars, kind, timed, told, ctl, late, leaseVars>>

\* A mission that is canceled, or waits too long, does not learn whether the
\* server accepted the goal, and has no handle to cancel it with.
GivesUpSending(c) ==
  /\ pc[c] = "sending"
  /\ late' = late \cup {c}
  /\ Return(c, Failure(c), Outside(c))
  /\ UNCHANGED <<requestVars, goal, cancel, serverVars, kind, timed, told, current, ctl, last, leaseVars>>

\* The telemetry a move is checked against: what was left to go when it was last
\* heard of.
Arrived(remaining) == remaining \in {"unheard", "near"}

\* Fault: the status of the goal is returned as it is.
RawAnswers(c) == {goal[c]}

\* Fault: a confirmation's status is taken for its decision.
AnswersByStatus(c) ==
  {IF goal[c] = "succeeded" THEN (IF kind[c] \in {"look", "decide"} THEN "TRUE" ELSE "success") ELSE Failure(c)}

\* What a call makes of a goal that ended; a success of an embodied skill is
\* blocked if the identity registry refuses the name it gave.
Answers(c) ==
  CASE kind[c] = "move" ->
         IF goal[c] # "succeeded" THEN {"failed"}
         ELSE {"failed"} \cup {IF Arrived(d) THEN "success" ELSE "failed" : d \in {"unheard", "near", "far"}}
    [] kind[c] = "animate" -> IF goal[c] = "succeeded" THEN {"success", "failed"} ELSE {"failed"}
    [] kind[c] = "embodied" -> {"failed", "blocked"} \cup (IF goal[c] = "succeeded" THEN {"success"} ELSE {})
    [] kind[c] = "confirm" -> {IF outcome[c] = "APPROVED" THEN "success" ELSE "blocked"}
    [] kind[c] = "decide" -> {CASE outcome[c] = "APPROVED" -> "TRUE"
                                [] outcome[c] = "DENIED" -> "FALSE"
                                [] OTHER -> "UNKNOWN"}
    [] kind[c] = "look" -> IF goal[c] = "succeeded" THEN {"TRUE", "FALSE", "UNKNOWN"} ELSE {"UNKNOWN"}

\* The end of the wait for a goal's result: its answer, or the deadline, at
\* which the goal is left to itself.
Waited(c) ==
  /\ pc[c] = "wait"
  /\ \/ Ended(c) /\ (\E value \in Answers(c) : Return(c, value, "leave")) /\ UNCHANGED late
     \/ Return(c, Failure(c), "leave") /\ late' = late \cup {c}
  /\ UNCHANGED <<requestVars, goal, cancel, serverVars, kind, timed, told, current, ctl, last, leaseVars>>

AskToCancel(g) == cancel' = [cancel EXCEPT ![g] = IF @ = "none" /\ ~Ended(g) THEN "sent" ELSE @]

\* Fault: a canceled call just returns.
StopsWaitingOnly(c) ==
  /\ pc[c] = "wait" /\ c \in told
  /\ Goto(c, "canceling")
  /\ UNCHANGED <<requestVars, goal, cancel, serverVars, kind, timed, told, current, ctl, last, late, leaseVars>>

\* on_cancel
CancelsGoal(c) ==
  /\ pc[c] = "wait" /\ c \in told
  /\ AskToCancel(c)
  /\ Goto(c, "canceling")
  /\ UNCHANGED <<requestVars, goal, serverVars, kind, timed, told, current, ctl, last, late, leaseVars>>

\* The call waits a second for the cancel to be accepted and then fails, even if
\* its goal has ended meanwhile.  An operator's decision still counts for one
\* more second.
CancelWaited(c) ==
  /\ pc[c] = "canceling"
  /\ \/ Return(c, Failure(c), "leave")
     \/ kind[c] = "decide" /\ Ended(c) /\ \E value \in Answers(c) : Return(c, value, "leave")
  /\ UNCHANGED <<requestVars, goal, cancel, serverVars, kind, timed, told, current, ctl, last, late, leaseVars>>

\* Fault: the handle is cleared without looking whose it is.
LeaveAndClear(c) ==
  /\ pc[c] = "leave"
  /\ Goto(c, Outside(c))
  /\ current' = IF Registers(c) THEN None ELSE current
  /\ UNCHANGED <<requestVars, goal, cancel, serverVars, kind, timed, told, ctl, last, late, leaseVars>>

\* A call that was overtaken leaves the handle of the later one alone.
Leave(c) ==
  /\ pc[c] = "leave"
  /\ Goto(c, Outside(c))
  /\ current' = IF current = c THEN None ELSE current
  /\ UNCHANGED <<requestVars, goal, cancel, serverVars, kind, timed, told, ctl, last, late, leaseVars>>

-----------------------------------------------------------------------------
(* Cancellation and the other servers *)

\* The control service sets the mission's event, then cancels the current goal.
CancelMission(m) ==
  /\ ctl = "idle"
  /\ \E c \in Goals : missionOf[c] = m /\ c \notin told
  /\ told' = told \cup {c \in Goals : missionOf[c] = m}
  /\ ctl' = "looking"
  /\ UNCHANGED <<requestVars, goal, cancel, serverVars, kind, timed, pc, result, current, last, late, leaseVars>>

\* A Timeout node above a call sets the event of that branch only.
BranchTimesOut(c) ==
  /\ c \in timed \ told /\ pc[c] # "done"
  /\ told' = told \cup {c}
  /\ UNCHANGED <<requestVars, goal, cancel, serverVars, kind, timed, pc, result, current, ctl, last, late, leaseVars>>

\* The handle is read under its lock and used outside it.
LookForCurrent ==
  /\ ctl = "looking"
  /\ ctl' = IF current = None THEN "idle" ELSE current
  /\ UNCHANGED <<requestVars, goal, cancel, serverVars, kind, timed, pc, result, told, current, last, late, leaseVars>>

CancelCurrent ==
  /\ ctl \in Goals
  /\ AskToCancel(ctl)
  /\ ctl' = "idle"
  /\ UNCHANGED <<requestVars, goal, serverVars, kind, timed, pc, result, told, current, last, late, leaseVars>>

\* Navigation, animation, embodied skills and the vision model.
OtherServer(g) ==
  /\ ~ForConfirmation(g)
  /\ \/ /\ goal[g] = "sent"
        /\ \E reply \in {"running", "rejected"} : goal' = [goal EXCEPT ![g] = reply]
        /\ UNCHANGED cancel
     \/ /\ goal[g] = "running"
        /\ \E end \in {"succeeded", "aborted"} \cup (IF cancel[g] = "accepted" THEN {"canceled"} ELSE {}) :
             goal' = [goal EXCEPT ![g] = end]
        /\ UNCHANGED cancel
     \/ /\ goal[g] = "running" /\ cancel[g] = "sent"
        /\ cancel' = [cancel EXCEPT ![g] = "accepted"]
        /\ UNCHANGED goal
  /\ UNCHANGED <<requestVars, serverVars, callVars, leaseVars>>

-----------------------------------------------------------------------------
CallStep(c) ==
  \/ Begin(c) \/ Acquire(c) \/ AcquireEnds(c) \/ AcquireTimesOut(c)
  \/ Say(c) \/ RememberPlace(c) \/ Send(c) \/ Sent(c) \/ GivesUpSending(c)
  \/ Waited(c) \/ CancelsGoal(c) \/ CancelWaited(c) \/ Leave(c) \/ Release(c)

Environment ==
  \/ \E c \in Goals : Authority(c) \/ OtherServer(c) \/ BranchTimesOut(c)
  \/ \E m \in Cancelable : CancelMission(m)

-----------------------------------------------------------------------------
(* Properties *)

\* The shared handle is that of the last call that entered one, as long as that
\* call waits: cancel_current never reaches a call that is over, and a call that
\* returns never takes the handle of another one with it.
CurrentIsLastWaiting ==
  current = IF last # None /\ pc[last] \in {"wait", "canceling", "leave"} THEN last ELSE None

\* A robot action nobody waits for and nobody has asked to stop is one the
\* adapter could not, or is not made to, cancel: the mission was canceled before
\* the server had answered, or the time was over.  No other way out of a call
\* forgets its goal.
AbandonedOnlyLate ==
  \A c \in Goals :
    pc[c] \in {"release", "done"} /\ goal[c] = "running" /\ cancel[c] = "none" => c \in late

\* While a dedicated skill is at work its lease does not run out, unless a
\* renewal failed: the renewals come early enough, also after a slow acquire and
\* slow answers.
LeaseKeptAlive ==
  \A c \in Goals :
    /\ lease[c] = "lapsed"
    /\ kind[c] \in {"move", "animate"}
    /\ pc[c] \in {"send", "sending", "wait", "canceling", "leave"}
    => c \in missed

\* No resource stays leased for ever: not after a release that was not sent, a
\* grant that came too late or a goal that never ends.
EveryLeaseEnds == \A c \in Goals : lease[c] = "held" ~> lease[c] # "held"

\* What a plan does after a confirmation, and what a check takes for decided, an
\* operator has been acknowledged for, under that request: neither the status of
\* the goal nor a cancel or a deadline stands in for the answer.
OnlyOperatorsApprove ==
  \A c \in Goals :
    /\ kind[c] = "confirm" /\ result[c] = "success" => answer[c] = "APPROVED"
    /\ kind[c] = "decide" /\ result[c] = "TRUE" => answer[c] = "APPROVED"
    /\ kind[c] = "decide" /\ result[c] = "FALSE" => answer[c] = "DENIED"

=============================================================================
