--------------------------- MODULE MissionServices ---------------------------
(***************************************************************************)
(* The calls of SkillCalls together with checks: a thread's question goes  *)
(* through MissionCheckExecutor.check (visual_client.py) and, where the    *)
(* tree allows it, DecisionBroker.resolve (decision_broker.py), on the     *)
(* evidence of Evidence and by the calls of SkillCalls.  Every source is   *)
(* read when its turn comes; the world may have changed by then, and no    *)
(* answer of an earlier source is carried along.                           *)
(***************************************************************************)
EXTENDS SkillCalls, Evidence

VARIABLES
  question,     \* what each check is asked: [type, predicate, read, mode, byId, inline]; None for other calls
  stage,        \* the source a check turns to next
  basis         \* history: the source of its verdict, and what was seen there

vars == <<requestVars, goal, cancel, serverVars, callVars, leaseVars, question, stage, basis>>
allButCheck == <<requestVars, goal, cancel, serverVars, timed, told, current, ctl, last, late, leaseVars, question>>

\* The check c has its verdict, on what it saw.
Conclude(c, verdict, source, seen) ==
  /\ Return(c, verdict, "done")
  /\ stage' = [stage EXCEPT ![c] = "done"]
  /\ basis' = [basis EXCEPT ![c] = [source |-> source, seen |-> seen]]
  /\ UNCHANGED kind

TurnTo(c, where) ==
  /\ stage' = [stage EXCEPT ![c] = where]
  /\ UNCHANGED <<kind, pc, result, basis>>

Ask(c, service, where) ==
  /\ kind' = [kind EXCEPT ![c] = service]
  /\ pc' = [pc EXCEPT ![c] = "ready"]
  /\ stage' = [stage EXCEPT ![c] = where]
  /\ UNCHANGED <<result, basis>>

Checking(c, where) == pc[c] = "checking" /\ stage[c] = where

\* The verdict stands unless it is UNKNOWN.
ConcludeOr(c, verdict, source, seen, where) ==
  IF verdict # "UNKNOWN" THEN Conclude(c, verdict, source, seen) ELSE TurnTo(c, where)

ReadFacts(c) ==
  /\ Checking(c, "facts")
  /\ \E entry \in Entry : ConcludeOr(c, CheckFacts(question[c], entry), "facts", entry, "world")
  /\ UNCHANGED allButCheck

\* A snapshot is at most five seconds old; without one nothing is known.
ReadWorld(c) ==
  /\ Checking(c, "world")
  /\ \E entry \in Entry : ConcludeOr(c, CheckWorld(question[c], entry), "world", entry, "vision")
  /\ UNCHANGED allButCheck

\* MissionCheckExecutor.check asks the vision model only where it may answer.
LookIfAllowed(c) ==
  /\ Checking(c, "vision")
  /\ IF AllowsVisualFallback(question[c]) THEN Ask(c, "look", "looked") ELSE TurnTo(c, "resolve")
  /\ UNCHANGED allButCheck

\* The check goes on when its call has returned.
Looked(c) ==
  /\ stage[c] = "looked" /\ pc[c] = "done"
  /\ IF result[c] # "UNKNOWN"
     THEN Conclude(c, result[c], "vision", "missing")
     ELSE /\ pc' = [pc EXCEPT ![c] = "checking"]
          /\ stage' = [stage EXCEPT ![c] = "resolve"]
          /\ UNCHANGED <<kind, result, basis>>
  /\ UNCHANGED allButCheck

\* DecisionBroker.resolve, for a check whose place in the tree lets it wait.
Resolve(c) ==
  /\ Checking(c, "resolve")
  /\ CASE ~question[c].inline -> Conclude(c, "UNKNOWN", "none", "missing")
       [] question[c].inline /\ question[c].predicate \in PhysicalPredicates -> TurnTo(c, "poll")
       [] question[c].inline /\ question[c].predicate \in SemanticPredicates -> Ask(c, "decide", "decided")
       [] OTHER -> Conclude(c, "UNKNOWN", "none", "missing")
  /\ UNCHANGED allButCheck

Decided(c) ==
  /\ stage[c] = "decided" /\ pc[c] = "done"
  /\ Conclude(c, result[c], "operator", "missing")
  /\ UNCHANGED allButCheck

\* What locating one target may come to, with up to two classes it may be.
Located ==
  {Locate(ready, probe, looks) : ready \in BOOLEAN, probe \in {"inconclusive", "absent"},
                                 looks \in UNION {[1 .. n -> Look] : n \in 0 .. 2}}

\* What one round of looking answers: people are read from the world state, an
\* entity known by its id can only be identified.
FreshAnswers(q) ==
  CASE q.predicate = "person_visible" ->
         {[verdict |-> CheckSnapshot(q.predicate, entry), seen |-> entry] : entry \in Entry}
    [] q.predicate = "entity_approached" ->
         {[verdict |-> EntityApproached(q.byId, look), seen |-> look] : look \in Located}
    [] q.predicate = "object_visible" ->
         {[verdict |-> ObjectVisible(look), seen |-> look] : look \in Located}

\* Rounds go on until one answers, the window is over or the mission is canceled.
Poll(c) ==
  /\ Checking(c, "poll")
  /\ \E fresh \in FreshAnswers(question[c]) :
       \/ fresh.verdict # "UNKNOWN" /\ Conclude(c, fresh.verdict, "fresh", fresh.seen)
       \/ fresh.verdict = "UNKNOWN" /\ Conclude(c, "UNKNOWN", "none", "missing")
  /\ UNCHANGED allButCheck

CheckStep(c) ==
  \/ ReadFacts(c) \/ ReadWorld(c) \/ LookIfAllowed(c) \/ Looked(c)
  \/ Resolve(c) \/ Decided(c) \/ Poll(c)

-----------------------------------------------------------------------------
\* The calls made together: the kind, request id and mission of each, and what
\* its checks are asked.
CONSTANT Mixes

\* The checks are the calls with a question; what an operator is asked for is a
\* structured predicate.
ASSUME MixesAssumption ==
  \A mix \in Mixes :
    /\ mix.kind \in [Goals -> Kinds \cup {"check"}]
    /\ mix.request \in [Goals -> RequestIds]
    /\ DOMAIN mix.question = {c \in Goals : mix.kind[c] = "check"}
    /\ \A c \in DOMAIN mix.question :
         mix.question[c].predicate \in SemanticPredicates => mix.question[c].type = "structured"

Init ==
  /\ \E mix \in Mixes :
       /\ kind = mix.kind /\ timed = mix.timed
       /\ question = mix.question
       /\ requestId = mix.request
       /\ missionOf = mix.mission
  /\ ServerInit
  /\ CallsInit
  /\ stage = [c \in Goals |-> IF kind[c] = "check" THEN "facts" ELSE "none"]
  /\ basis = [c \in Goals |-> [source |-> "none", seen |-> "missing"]]

checkVars == <<question, stage, basis>>

\* Everything is over.
Finished ==
  /\ \A c \in Goals : pc[c] = "done" /\ stage[c] \in {"none", "done"}
  /\ UNCHANGED vars

Next ==
  \/ \E c \in Goals : CheckStep(c)
  \/ \E c \in Goals : CallStep(c) /\ UNCHANGED checkVars
  \/ \E c \in Goals : Renew(c) /\ UNCHANGED checkVars
  \/ \E g \in Goals : ForConfirmation(g) /\ ServeGoal(g) /\ UNCHANGED <<callVars, leaseVars, checkVars>>
  \/ \E o \in Operators : HandleResponse(o) /\ UNCHANGED <<callVars, leaseVars, checkVars>>
  \/ Environment /\ UNCHANGED checkVars
  \/ (LookForCurrent \/ CancelCurrent \/ Tick) /\ UNCHANGED checkVars
  \/ Finished

\* The node's own threads run and time passes; nothing is assumed of operators,
\* of the other servers or of the lease authority.
Fairness ==
  /\ \A c \in Goals : WF_vars(CheckStep(c))
  /\ \A c \in Goals : WF_vars(CallStep(c) /\ UNCHANGED checkVars)
  /\ \A c \in Goals : WF_vars(Renew(c) /\ UNCHANGED checkVars)
  /\ WF_vars(Tick /\ UNCHANGED checkVars)

Spec == Init /\ [][Next]_vars
FairSpec == Spec /\ Fairness

-----------------------------------------------------------------------------
(* Properties *)

ServicesTypeOK ==
  /\ kind \in [Goals -> Kinds \cup {"check"}]
  /\ pc \in [Goals -> {"ready", "checking", "acquire", "acquiring", "publish", "send", "sending", "wait",
                       "canceling", "leave", "release", "done"}]
  /\ result \in [Goals -> {"none", "success", "failed", "blocked"} \cup Tri]
  /\ told \subseteq Goals
  /\ current \in Goals \cup {None} /\ last \in Goals \cup {None} /\ late \subseteq Goals
  /\ ctl \in Goals \cup {"idle", "looking"}
  /\ goal \in [Goals -> {"none", "sent", "rejected", "running", "succeeded", "canceled", "aborted"}]
  /\ cancel \in [Goals -> {"none", "sent", "accepted"}]
  /\ serving \in [Goals -> {"none", "waiting", "leaving", "returned"}]
  /\ registry \in [RequestIds -> Goals \cup {None}]
  /\ decision \in [Goals -> OperatorDecisions \cup {"UNKNOWN", "TIMEOUT", "CANCELED"}]
  /\ operator \in [Operators -> Goals \cup {None}]
  /\ lease \in [Goals -> {"none", "asked", "denied", "held", "lapsed", "preempted", "released"}]
  /\ ttl \in [Goals -> 0 .. TTL]
  /\ \A c \in Goals : due[c] \in {None} \cup 0 .. RenewInterval + 1

\* A verdict stands on evidence its question admits: a structured predicate is
\* never decided by the vision model, and by an operator only where that is what
\* it means; a fresh look decides only what the question itself names, and where a
\* person's word was asked for it takes a recorded answer or such a look; evidence
\* marked as unverified decides no physical predicate that has no reading of its
\* own; and an approach fails only by a distance measured to the one instance there
\* is, or on the word of the skill that made it.
EvidenceDecides ==
  \A c \in DOMAIN question :
    stage[c] = "done" /\ result[c] # "UNKNOWN" =>
      LET q == question[c]  found == basis[c] IN
      /\ q.type = "structured" => /\ found.source # "vision"
                                  /\ found.source = "operator" => q.predicate \in SemanticPredicates
      /\ found.source = "fresh" => q.predicate \in PhysicalPredicates
      /\ q.type = "human" /\ q.mode \in Explicit =>
           \/ found.source \in {"facts", "world"} /\ found.seen # "missing"
           \/ found.source = "fresh"
      /\ q.type \in {"structured", "hybrid"}
           /\ q.predicate \in {"entity_approached", "entity_located", "contact_detected"} =>
           found.seen # "unverified"
      /\ q.predicate = "entity_approached" /\ found.source = "fresh" =>
           ~q.byId /\ (result[c] = "FALSE" => found.seen = "far")

=============================================================================
