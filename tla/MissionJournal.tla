---------------------------- MODULE MissionJournal ----------------------------
(***************************************************************************)
(* The mission table of MissionManager with what the node keeps of it      *)
(* elsewhere: the journal file (src/mc_ai_bt/mission_journal.py), from     *)
(* which a restarted node recovers its missions, and the task projection   *)
(* in the world state (src/mc_ai_bt/task_projection.py).                   *)
(*                                                                         *)
(* The table changes under the node's lock; the thread that changed it     *)
(* then publishes the change without the lock (_publish_event): it appends *)
(* a line to the journal, takes the whole table under the lock and writes  *)
(* two facts of it.  Publications of several threads interleave, every     *)
(* write may fail, and the node may crash at any moment.                   *)
(*                                                                         *)
(* Of the file the model keeps what a reader finds: per mission the state  *)
(* in its last readable line, and the end of the file if that is not a     *)
(* newline.  Whatever is appended to a line that is not terminated makes   *)
(* the line unreadable as a whole.  The other fields of a record are read  *)
(* back, but a recovered mission has ended and no method looks at them.    *)
(***************************************************************************)
EXTENDS MissionManager

CONSTANTS
  Publishers,   \* threads that may publish at the same time
  MaxLives,     \* bound: how often the node is started
  MaxChanges    \* bound: how many changes of the table are published

ASSUME JournalAssumption == MaxLives \in Nat \ {0} /\ MaxChanges \in Nat

VARIABLES
  latest,       \* mission id -> the state in its last readable line
  tail,         \* what follows the last newline: NoTail, Junk or a whole record
  pub,          \* what each thread is publishing
  world,        \* the facts tasks.active_mission and tasks.mission_index
  startup,      \* the startup snapshot timer is running
  life,         \* how often the node has been started; 0 while it is down
  starts,       \* the last value of life
  changes,      \* how many changes have been published
  faulty,       \* bound: only this is at fault, the journal's file or the world state
  born,         \* history: the life each mission id was drawn in; 0 for none
  behind,       \* history: missions whose last change may not be in the journal
  blurred       \* history: the projection may be that of an earlier table

journalVars == <<latest, tail>>
historyVars == <<born, behind, blurred>>
vars == <<managerVars, journalVars, pub, world, startup, life, starts, changes, faulty,
          historyVars>>

NoTail == [kind |-> "none"]
Junk == [kind |-> "junk"]
Record(m, state) == [kind |-> "record", m |-> m, state |-> state]
Idle == [step |-> "idle"]

-----------------------------------------------------------------------------
(* task_projection_updates *)

Ranked(state) ==
  CASE state = "RUNNING" -> 4 [] state = "PLANNING" -> 3 [] state = "PAUSED" -> 1 [] OTHER -> 0

SelectActive(ms) ==
  LET live == {m \in Mission : Ranked(ms[m].state) > 0}
      Before(m, n) == \/ Ranked(ms[m].state) > Ranked(ms[n].state)
                      \/ Ranked(ms[m].state) = Ranked(ms[n].state) /\ Outranks(ms, m, n) IN
  IF live = {} THEN NoMission ELSE CHOOSE m \in live : \A n \in live \ {m} : Before(m, n)

Projection(ms) == [active |-> SelectActive(ms), index |-> [m \in Mission |-> ms[m].state]]

-----------------------------------------------------------------------------
(* The file *)

\* Fault: the first record of a mission is kept.
FirstRecord(found, m, state) == IF found[m] = "UNKNOWN" THEN [found EXCEPT ![m] = state] ELSE found

\* A later line of a mission replaces an earlier one.
LatestRecord(found, m, state) == [found EXCEPT ![m] = state]

Whole(end) == end.kind = "record"

\* load_latest_missions reads a last line without a newline like any other.
Loaded == IF Whole(tail) THEN LatestRecord(latest, tail.m, tail.state) ELSE latest

\* Fault: a paused mission waits for an operator anyway and is left as it is.
RecoverKeepsPaused(state) == IF state \in Ended \cup {"UNKNOWN", "PAUSED"} THEN state ELSE "BLOCKED"

\* Fault: the error code is entered as the state.
RecoverCode(state) == IF state \in Ended \cup {"UNKNOWN"} THEN state ELSE "recovered_after_restart"

\* _recover_mission; UNKNOWN stands for a mission the journal does not name.
Recover(state) == IF state \in Ended \cup {"UNKNOWN"} THEN state ELSE "BLOCKED"

-----------------------------------------------------------------------------
(* _publish_event *)

Appending(p) == pub[p].step \in {"append", "newline"}

\* Another thread has not finished a line, or a failure or a crash has left one.
Torn == tail # NoTail

\* The missions that lose a record when something is appended now.
LostWith(m) == {m} \cup (IF Whole(tail) THEN {tail.m} ELSE {})

\* The append of p is done, on a line of its own; it is known to be in order if no
\* other publication of the mission was to be appended at the same time.
Mended(p) == IF pub[p].alone THEN behind \ {pub[p].m} ELSE behind

Step(p, next) == pub' = [pub EXCEPT ![p] = next]

Snapshot == [step |-> "snapshot"]

\* Record and newline reach the file together, as they do unless the record is
\* longer than the stream's buffer.
AppendLine(p) ==
  /\ life # 0 /\ pub[p].step = "append"
  /\ Step(p, Snapshot)
  /\ tail' = NoTail
  /\ latest' = IF Torn THEN latest ELSE LatestRecord(latest, pub[p].m, pub[p].state)
  /\ behind' = IF Torn THEN behind \cup LostWith(pub[p].m) ELSE Mended(p)
  /\ UNCHANGED <<managerVars, world, startup, life, starts, changes, faulty, born, blurred>>

AppendRecord(p) ==
  /\ life # 0 /\ pub[p].step = "append" /\ faulty = "journal"
  /\ Step(p, [pub[p] EXCEPT !.step = "newline"])
  /\ tail' = IF Torn THEN Junk ELSE Record(pub[p].m, pub[p].state)
  /\ behind' = IF Torn THEN behind \cup LostWith(pub[p].m) ELSE behind
  /\ UNCHANGED <<managerVars, latest, world, startup, life, starts, changes, faulty, born, blurred>>

\* The newline ends whatever line there is.
AppendNewline(p) ==
  /\ life # 0 /\ pub[p].step = "newline"
  /\ Step(p, Snapshot)
  /\ tail' = NoTail
  /\ latest' = Loaded
  /\ behind' = IF tail = Record(pub[p].m, pub[p].state) THEN Mended(p) ELSE behind
  /\ UNCHANGED <<managerVars, world, startup, life, starts, changes, faulty, born, blurred>>

\* A journal that cannot be written is a warning in the log.  The write, the flush
\* or the close may fail before anything reached the file, with a part of the
\* record in it, or with all of it but the newline; the node goes on, and whoever
\* appends next continues the line.
AppendFails(p) ==
  /\ life # 0 /\ Appending(p) /\ faulty = "journal"
  /\ Step(p, Snapshot)
  /\ \/ tail' = tail
        /\ behind' = IF pub[p].step = "append" THEN behind \cup {pub[p].m} ELSE behind
     \/ tail' = Junk /\ pub[p].step = "append"
        /\ behind' = behind \cup LostWith(pub[p].m)
  /\ UNCHANGED <<managerVars, latest, world, startup, life, starts, changes, faulty>>
  /\ UNCHANGED <<born, blurred>>

Projecting(p) == pub[p].step = "project"

\* _publish_task_projection: the whole table, under the lock.
TakeSnapshot(p) ==
  /\ life # 0 /\ pub[p] = Snapshot
  /\ Step(p, [step |-> "project", view |-> Projection(missions)])
  /\ blurred' = (\E q \in Publishers : Projecting(q))
  /\ UNCHANGED <<managerVars, journalVars, world, startup, life, starts, changes, faulty>>
  /\ UNCHANGED <<born, behind>>

\* Fault: the active mission is written only if there is one.
WriteFactsIfActive(p) ==
  /\ life # 0 /\ Projecting(p)
  /\ Step(p, Idle)
  /\ world' = [pub[p].view EXCEPT !.active = IF @ = NoMission THEN world.active ELSE @]
  /\ UNCHANGED <<managerVars, journalVars, startup, life, starts, changes, faulty, historyVars>>

\* Two facts, one call for each, of which each may be refused or time out.  What
\* another thread writes between the two calls is what a refused one leaves.
WriteFacts(p) ==
  /\ life # 0 /\ Projecting(p)
  /\ Step(p, Idle)
  /\ \E written \in SUBSET {"active", "index"} :
       /\ faulty = "world" \/ written = {"active", "index"}
       /\ world' = [f \in DOMAIN world |-> IF f \in written THEN pub[p].view[f] ELSE world[f]]
       /\ blurred' = (blurred \/ written # {"active", "index"})
  /\ UNCHANGED <<managerVars, journalVars, startup, life, starts, changes, faulty, born, behind>>

Publication(p) ==
  \/ AppendLine(p) \/ AppendRecord(p) \/ AppendNewline(p) \/ AppendFails(p)
  \/ TakeSnapshot(p) \/ WriteFacts(p)

\* The timer that publishes the recovered missions, unless there are none.
StartupSnapshot(p) ==
  /\ life # 0 /\ startup /\ pub[p] = Idle
  /\ startup' = FALSE
  /\ pub' = IF \E m \in Mission : Stored(m) THEN [pub EXCEPT ![p] = Snapshot] ELSE pub
  /\ UNCHANGED <<managerVars, journalVars, world, life, starts, changes, faulty, historyVars>>

-----------------------------------------------------------------------------
(* The table *)

\* p publishes the record m has after the change.  Of several publications of m
\* that are still to be appended, any may come last.
Publishes(p, m, state) ==
  LET rivals == {q \in Publishers : Appending(q) /\ pub[q].m = m} IN
  /\ life # 0 /\ pub[p] = Idle
  /\ changes < MaxChanges /\ changes' = changes + 1
  /\ pub' = [q \in Publishers |->
               IF q = p THEN [step |-> "append", m |-> m, state |-> state, alone |-> rivals = {}]
               ELSE IF q \in rivals THEN [pub[q] EXCEPT !.alone = FALSE] ELSE pub[q]]
  /\ behind' = IF rivals = {} THEN behind ELSE behind \cup {m}
  /\ UNCHANGED <<journalVars, world, startup, life, starts, faulty, blurred>>

\* The methods whose event is published; progress (update_status) goes to the
\* status topic only.
Changes(m) ==
  \/ SetPlan(m) \/ RequestReplan(m) \/ Resume(m) \/ Cancel(m)
  \/ \E reason \in Reason : Pause(m, reason)
  \/ \E prio \in PriorityArg, preempt \in BOOLEAN : Reprioritize(m, prio, preempt, "")
  \/ \E state \in Outcome : MarkTerminal(m, state)

Change(p, m) ==
  /\ Changes(m)
  /\ Publishes(p, m, missions'[m].state)
  /\ UNCHANGED born

\* Ids are drawn at random: one that was used is not drawn again, in any life.
Accept(p, m) ==
  /\ born[m] = 0
  /\ \E prio \in PriorityArg, allowQueue \in BOOLEAN : Submit(m, prio, allowQueue)
  /\ born' = [born EXCEPT ![m] = life]
  /\ Publishes(p, m, missions'[m].state)

\* A refused submission (no intent, or no queue) leaves no mission, but its event
\* names a failed one with an id of its own.
Refuse(p, m) ==
  /\ born[m] = 0
  /\ born' = [born EXCEPT ![m] = life]
  /\ Publishes(p, m, "FAILED")
  /\ UNCHANGED managerVars

-----------------------------------------------------------------------------
(* Crash and restart *)

\* An append that was under way may leave the beginning of its record.
Crash ==
  /\ life # 0 /\ starts < MaxLives
  /\ life' = 0
  /\ \/ tail' = tail
     \/ tail' = Junk /\ faulty = "journal" /\ \E p \in Publishers : pub[p].step = "append"
  /\ behind' = behind \cup {pub[p].m : p \in {q \in Publishers : pub[q].step = "append"}}
                      \cup (IF Whole(tail) /\ tail' = Junk THEN {tail.m} ELSE {})
  /\ pub' = [p \in Publishers |-> Idle]
  /\ UNCHANGED <<managerVars, latest, world, startup, starts, changes, faulty, born, blurred>>

\* _load_journal_missions: a file that cannot be read is a warning in the log, and
\* the node starts as if there were none.
LoadResults ==
  {Loaded} \cup (IF faulty = "journal" THEN {[m \in Mission |-> "UNKNOWN"]} ELSE {})

\* The table is what was loaded, and nobody holds the slot.
Restart ==
  /\ life = 0
  /\ \E found \in LoadResults :
       /\ missions' = [m \in Mission |-> [Absent EXCEPT !.state = Recover(found[m])]]
       /\ startup' = (\E m \in Mission : found[m] # "UNKNOWN")
  /\ active' = NoMission
  /\ resumedFrom' = [m \in Mission |-> NoText]
  /\ life' = starts + 1 /\ starts' = starts + 1
  /\ behind' = {} /\ blurred' = TRUE
  /\ UNCHANGED <<execs, journalVars, pub, changes, faulty, world, born>>

-----------------------------------------------------------------------------
Init ==
  /\ ManagerInit
  /\ latest = [m \in Mission |-> "UNKNOWN"]
  /\ tail = NoTail
  /\ pub = [p \in Publishers |-> Idle]
  /\ world = Projection(missions)
  /\ startup = FALSE
  /\ life = 1 /\ starts = 1 /\ changes = 0
  /\ faulty \in {"journal", "world"}
  /\ born = [m \in Mission |-> 0]
  /\ behind = {} /\ blurred = FALSE

\* Every id is drawn, every mission has ended, and everything is published.
Quiet ==
  /\ life = MaxLives
  /\ \A p \in Publishers : pub[p] = Idle
  /\ UNCHANGED vars

Next ==
  \/ \E p \in Publishers, m \in Mission : Change(p, m) \/ Accept(p, m) \/ Refuse(p, m)
  \/ \E p \in Publishers : Publication(p) \/ StartupSnapshot(p)
  \/ Crash
  \/ Restart
  \/ Quiet

Spec == Init /\ [][Next]_vars

-----------------------------------------------------------------------------
(* Properties *)

Views == [active : Mission \cup {NoMission}, index : [Mission -> State]]

JournalTypeOK ==
  /\ ManagerTypeOK
  /\ latest \in [Mission -> State]
  /\ tail \in {NoTail, Junk} \/ tail \in [kind : {"record"}, m : Mission, state : State]
  /\ world \in Views
  /\ \A p \in Publishers :
       CASE pub[p].step \in {"idle", "snapshot"} -> TRUE
         [] Appending(p) -> pub[p].m \in Mission /\ pub[p].state \in State
         [] Projecting(p) -> pub[p].view \in Views
  /\ life \in 0 .. MaxLives /\ starts \in 1 .. MaxLives /\ changes \in 0 .. MaxChanges
  /\ faulty \in {"journal", "world"}
  /\ born \in [Mission -> 0 .. MaxLives]
  /\ behind \subseteq Mission /\ blurred \in BOOLEAN

\* A restart that can read the file would give every mission the outcome it has, or
\* block it if it is open, once its change is published; and it would find no
\* mission that nobody submitted.  The exceptions ("behind") are all there are: the
\* append failed; a crash came before it; it continued a line that another append
\* was still writing, or that a failed append or a crash had left torn, and spoilt
\* what was whole of that line with its own record; or two changes of the mission
\* were published at the same time.  The mission's next change that is published
\* in peace mends it.
JournalKeepsUp ==
  \A m \in Mission \ behind :
    (\A p \in Publishers : Appending(p) => pub[p].m # m) =>
      /\ Stored(m) => Recover(Loaded[m]) = Recover(missions[m].state)
      /\ Loaded[m] # "UNKNOWN" => born[m] # 0

\* No mission outlives the node that accepted it: whatever the journal holds, a
\* restarted node plans, runs and resumes only missions of its own.
RecoveredStayClosed == \A m \in Mission : Open(m) /\ life # 0 => born[m] = life

\* What others read of the missions is the table, as soon as every change is
\* published: one publication that no other one overlaps and no refused write
\* spoils is enough to mend what former ones have left.
ProjectionCurrent ==
  life # 0 /\ (\A p \in Publishers : pub[p] = Idle) /\ ~blurred => world = Projection(missions)

=============================================================================
