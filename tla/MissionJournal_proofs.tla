----------------------- MODULE MissionJournal_proofs -----------------------
(***************************************************************************)
(* What the journal and the task projection promise, for any number of     *)
(* missions, of threads that publish, of crashes and of restarts.          *)
(***************************************************************************)
EXTENDS MissionJournal, MissionManager_proofs

-----------------------------------------------------------------------------
(* Types *)

AppendRecords == [step : {"append", "newline"}, m : Mission, state : State, alone : BOOLEAN]

ProjectRecords == [step : {"project"}, view : Views]

Publishing == {Idle, Snapshot} \cup AppendRecords \cup ProjectRecords

TailRecords == [kind : {"record"}, m : Mission, state : State]

\* The publications have their types, and a node that is down has none and may be
\* started again.
PubInv ==
  /\ pub \in [Publishers -> Publishing]
  /\ life = 0 => starts < MaxLives /\ \A p \in Publishers : pub[p] = Idle

JournalTypes ==
  /\ TableInv
  /\ latest \in [Mission -> State]
  /\ tail \in {NoTail, Junk} \cup TailRecords
  /\ world \in Views
  /\ PubInv
  /\ life \in 0 .. MaxLives /\ starts \in 1 .. MaxLives /\ changes \in 0 .. MaxChanges
  /\ faulty \in {"journal", "world"}
  /\ born \in [Mission -> 0 .. MaxLives]
  /\ behind \subseteq Mission /\ blurred \in BOOLEAN

LEMMA Steps ==
  ASSUME PubInv, NEW p \in Publishers
  PROVE  /\ Appending(p) => pub[p] \in AppendRecords
         /\ Projecting(p) => pub[p] \in ProjectRecords /\ pub[p].view \in Views
         /\ pub[p].step \in {"idle", "snapshot", "append", "newline", "project"}
         /\ pub[p].step = "snapshot" => pub[p] = Snapshot
         /\ pub[p].step = "idle" => pub[p] = Idle
<1>1. pub[p] \in {Idle, Snapshot} \cup AppendRecords \cup ProjectRecords
  BY DEF PubInv, Publishing
<1>2. Idle.step = "idle" /\ Snapshot.step = "snapshot"
  BY DEF Idle, Snapshot
<1>3. \A r \in AppendRecords : r.step \in {"append", "newline"}
  BY DEF AppendRecords
<1>4. \A r \in ProjectRecords : r.step = "project" /\ r.view \in Views
  BY DEF ProjectRecords
<1> QED
  BY <1>1, <1>2, <1>3, <1>4 DEF Appending, Projecting

LEMMA LoadedIs ==
  ASSUME JournalTypes
  PROVE  /\ Loaded \in [Mission -> State]
         /\ \A n \in Mission : Loaded[n] = IF Whole(tail) /\ tail.m = n THEN tail.state ELSE latest[n]
         /\ Whole(tail) => tail.m \in Mission /\ tail.state \in State /\ tail # NoTail
         /\ ~Whole(NoTail) /\ ~Whole(Junk)
<1>1. ~Whole(NoTail) /\ ~Whole(Junk)
  BY DEF Whole, NoTail, Junk
<1>2. Whole(tail) => tail.m \in Mission /\ tail.state \in State /\ tail # NoTail
  BY <1>1 DEF JournalTypes, TailRecords
<1>3. Loaded = IF Whole(tail) THEN [latest EXCEPT ![tail.m] = tail.state] ELSE latest
  BY DEF Loaded, LatestRecord
<1>4. latest \in [Mission -> State]
  BY DEF JournalTypes
<1> QED
  BY <1>1, <1>2, <1>3, <1>4

\* The mission of the projection is a mission, or none.
LEMMA ProjectionType ==
  ASSUME NEW ms \in [Mission -> MissionRecord]
  PROVE  Projection(ms) \in Views
<1> DEFINE rank(m) == Ranked(ms[m].state)
           live == {m \in Mission : rank(m) > 0}
           Before(m, n) == \/ rank(m) > rank(n)
                           \/ rank(m) = rank(n) /\ Outranks(ms, m, n)
<1>1. \A m \in Mission : rank(m) \in 0 .. 4
  BY DEF Ranked
<1>2. SelectActive(ms) \in Mission \cup {NoMission}
  <2>1. CASE live = {}
    BY <2>1 DEF SelectActive
  <2>2. CASE live # {}
    <3> DEFINE D == {4 - rank(m) : m \in live}
    <3>1. PICK d \in D : \A x \in D : d <= x
      <4>1. D \in SUBSET Nat /\ D # {}
        BY <1>1, <2>2
      <4> QED
        BY <4>1, MinExists
    <3> DEFINE T == {m \in live : 4 - rank(m) = d}
    <3>2. T \in SUBSET Mission /\ T # {}
      BY <3>1
    <3>3. PICK m \in T : \A n \in T \ {m} : Outranks(ms, m, n)
      BY <3>2, BestExists
    <3>4. ASSUME NEW n \in live \ {m}
          PROVE  Before(m, n)
      <4>1. rank(m) \in 0 .. 4 /\ rank(n) \in 0 .. 4 /\ 4 - rank(m) <= 4 - rank(n)
        BY <1>1, <3>1
      <4>2. rank(n) = rank(m) => n \in T
        OBVIOUS
      <4> QED
        BY <3>3, <4>1, <4>2
    <3>5. \E k \in live : \A n \in live \ {k} : Before(k, n)
      BY <3>4
    <3>6. SelectActive(ms) = CHOOSE k \in live : \A n \in live \ {k} : Before(k, n)
      BY <2>2 DEF SelectActive
    <3> QED
      BY <3>5, <3>6
  <2> QED
    BY <2>1, <2>2
<1>3. [m \in Mission |-> ms[m].state] \in [Mission -> State]
  BY DEF MissionRecord
<1> QED
  BY <1>2, <1>3 DEF Projection, Views

-----------------------------------------------------------------------------
(* What a published change does to the other missions *)

\* Whatever happens to n, a restart would give it the same state as before, and it
\* is neither submitted nor reopened.
Unaffected(n) ==
  /\ Recover(missions'[n].state) = Recover(missions[n].state)
  /\ Stored(n)' <=> Stored(n)
  /\ Open(n)' => Open(n)

LEMMA KeptOutlook ==
  ASSUME NEW n \in Mission,
         \/ KeptOrPromoted(n)
         \/ missions'[n].state = missions[n].state
         \/ Open(n) /\ missions'[n].state = "QUEUED"
  PROVE  Unaffected(n)
  BY DEF KeptOrPromoted, Unaffected, Recover, Stored, Open, Ended

\* The methods whose event is published name one mission; nothing that happens to
\* another one needs a line in the journal.
LEMMA ChangesOne ==
  ASSUME TableInv, NEW m \in Mission, Changes(m)
  PROVE  /\ Calls(Outcomes)
         /\ Open(m) /\ Stored(m)'
         /\ \A n \in Mission \ {m} : Unaffected(n)
<1> USE DEF TableInv
<1>1. Calls(Outcomes)
  BY ArgumentAssumption DEF Changes, Calls
<1>2. \A n \in Mission : missions'[n] = missions[n] => Unaffected(n)
  BY KeptOutlook
<1>3. CASE SetPlan(m)
  BY <1>1, <1>2, <1>3, SetPlanRecords DEF SetPlan, Stored
<1>4. CASE RequestReplan(m)
  BY <1>1, <1>2, <1>4, RequestReplanRecords DEF RequestReplan, Stored
<1>5. CASE Resume(m)
  <2>1. Open(m) /\ ResumedState(m) # "UNKNOWN"
    BY <1>5 DEF Resume, ResumedState, Open, Stored, Ended
  <2> QED
    BY <1>1, <1>2, <1>5, <2>1, ResumeRecords DEF Stored
<1>6. ASSUME NEW state \in Ended, Open(m), End(m, state)
      PROVE  Stored(m)' /\ \A n \in Mission \ {m} : Unaffected(n)
  BY <1>6, EndRecords, KeptOutlook DEF Stored, Ended
<1>7. CASE Cancel(m)
  BY <1>1, <1>6, <1>7 DEF Cancel, Ended
<1>8. ASSUME NEW state \in Outcome, MarkTerminal(m, state)
      PROVE  Open(m) /\ Stored(m)' /\ \A n \in Mission \ {m} : Unaffected(n)
  BY <1>6, <1>8 DEF MarkTerminal, Outcomes, Ended
<1>9. ASSUME NEW reason \in Reason, Pause(m, reason)
      PROVE  Open(m) /\ Stored(m)' /\ \A n \in Mission \ {m} : Unaffected(n)
  <2>1. CASE UNCHANGED managerVars
    BY <1>2, <1>9, <2>1 DEF Pause, managerVars, Open, Stored
  <2>2. CASE Open(m) /\ End(m, "BLOCKED")
    BY <1>6, <2>2 DEF Ended
  <2>3. CASE Open(m) /\ missions[m].state # "PAUSED" /\ EnterPause(m, reason)
    BY <2>3, EnterPauseRecords, KeptOutlook DEF Stored
  <2> QED
    BY <1>9, <2>1, <2>2, <2>3, PauseCases
<1>10. ASSUME NEW prio \in PriorityArg, NEW preempt \in BOOLEAN, Reprioritize(m, prio, preempt, "")
       PROVE  Open(m) /\ Stored(m)' /\ \A n \in Mission \ {m} : Unaffected(n)
  <2>1. Open(m)
    BY <1>10 DEF Reprioritize
  <2>2. /\ \A n \in Mission \ {m} :
             missions'[n] = missions[n] \/ (Preempts(m, prio, preempt) /\ n = active)
        /\ ~Preempts(m, prio, preempt) => missions'[m].state = missions[m].state
        /\ Preempts(m, prio, preempt) =>
             Open(active) /\ missions'[m].state = "PLANNING" /\ missions'[active].state = "QUEUED"
    BY <1>10, ReprioritizeRecords, ArgumentAssumption
  <2>3. Stored(m)'
    BY <2>1, <2>2 DEF Open, Stored
  <2> QED
    BY <2>1, <2>2, <2>3, KeptOutlook
<1> QED
  BY <1>1, <1>3, <1>4, <1>5, <1>7, <1>8, <1>9, <1>10 DEF Changes

-----------------------------------------------------------------------------
(* What keeps the file behind the table, and no further *)

\* Whoever is still to append a record of m.
Appends(p, m) == Appending(p) /\ pub[p].m = m

\* Whatever is stored, journalled or about to be was given its id in some life.
BornInv ==
  /\ \A m \in Mission : Stored(m) \/ latest[m] # "UNKNOWN" => born[m] # 0
  /\ Whole(tail) => born[tail.m] # 0
  /\ \A p \in Publishers : Appending(p) => born[pub[p].m] # 0

\* A record that is appended alone is the only one of its mission that is, and
\* would recover the mission as it is; whoever is not alone is behind.
AloneInv ==
  \A p, q \in Publishers :
    Appending(p) =>
      /\ pub[p].alone \/ pub[p].m \in behind
      /\ pub[p].alone /\ Appends(q, pub[p].m) => q = p
      /\ pub[p].alone /\ Stored(pub[p].m) =>
           Recover(pub[p].state) = Recover(missions[pub[p].m].state)

\* A record whose newline is missing is found already, unless its mission is behind.
WrittenInv ==
  \A p \in Publishers :
    pub[p].step = "newline" /\ pub[p].m \notin behind => Loaded[pub[p].m] = pub[p].state

\* With nothing left to append, the journal would recover a mission as it is.
FoundInv ==
  \A m \in Mission \ behind :
    (\A p \in Publishers : ~Appends(p, m)) /\ Stored(m) =>
      Recover(Loaded[m]) = Recover(missions[m].state)

FileInv == BornInv /\ AloneInv /\ WrittenInv /\ FoundInv

-----------------------------------------------------------------------------
(* A change is published *)

\* What Change, Accept and Refuse have in common.
Published(p, m, state) ==
  /\ Publishes(p, m, state)
  /\ [Calls(Outcomes)]_managerVars
  /\ \A n \in Mission \ {m} : Unaffected(n)
  /\ Stored(m)' => state = missions'[m].state
  /\ \/ born' = born /\ Stored(m) /\ Open(m)
     \/ born[m] = 0 /\ born' = [born EXCEPT ![m] = life]

LEMMA EveryPublication ==
  ASSUME JournalTypes, BornInv, NEW p \in Publishers, NEW m \in Mission,
         Change(p, m) \/ Accept(p, m) \/ Refuse(p, m)
  PROVE  \E state \in State : Published(p, m, state)
<1>1. TableInv
  BY DEF JournalTypes
<1>2. \A n \in Mission : missions'[n] = missions[n] => Unaffected(n)
  BY DEF Unaffected, Stored, Open
<1>3. [Calls(Outcomes)]_managerVars => \A n \in Mission : missions'[n].state \in State
  BY <1>1, TableInvStep DEF TableInv, ManagerTypeOK, MissionRecord
<1>4. CASE Change(p, m)
  BY <1>1, <1>3, <1>4, ChangesOne DEF Change, Published, Open
<1>5. CASE Accept(p, m)
  <2>1. PICK prio \in PriorityArg, allowQueue \in BOOLEAN : Submit(m, prio, allowQueue)
    BY <1>5 DEF Accept
  <2>2. Calls(Outcomes)
    BY <2>1 DEF Calls
  <2>3. \A n \in Mission \ {m} : Unaffected(n)
    BY <1>1, <1>2, <2>1, SubmitRecords DEF TableInv
  <2> QED
    BY <1>3, <1>5, <2>2, <2>3 DEF Accept, Published
<1>6. CASE Refuse(p, m)
  <2>1. missions' = missions /\ UNCHANGED managerVars
    BY <1>6 DEF Refuse, managerVars
  <2>2. ~Stored(m)'
    BY <1>6, <2>1 DEF BornInv, Refuse, Stored
  <2>3. "FAILED" \in State
    BY DEF State, Ended
  <2> QED
    BY <1>2, <1>6, <2>1, <2>2, <2>3 DEF Refuse, Published
<1> QED
  BY <1>4, <1>5, <1>6

\* The publication of p is the one that is new; one that was to append a record of
\* the same mission is no longer alone, and nothing else is different.
LEMMA PublicationsAfter ==
  ASSUME JournalTypes, NEW p \in Publishers, NEW m \in Mission, NEW state \in State,
         Publishes(p, m, state)
  PROVE  /\ pub' \in [Publishers -> Publishing]
         /\ Appends(p, m)' /\ pub'[p].step = "append" /\ pub'[p].state = state
         /\ pub'[p].alone \/ m \in behind'
         /\ pub'[p].alone => \A q \in Publishers : ~Appends(q, m)
         /\ behind \subseteq behind' /\ behind' \subseteq Mission
         /\ \A q \in Publishers \ {p} :
              /\ pub'[q].step = pub[q].step
              /\ Projecting(q) => pub'[q] = pub[q]
              /\ Appending(q) =>
                   /\ pub'[q].m = pub[q].m /\ pub'[q].state = pub[q].state
                   /\ pub'[q].alone => pub[q].alone /\ pub[q].m # m
                   /\ pub'[q].alone \/ ~pub[q].alone \/ (pub[q].m = m /\ m \in behind')
<1> DEFINE rivals == {q \in Publishers : Appending(q) /\ pub[q].m = m}
           new == [step |-> "append", m |-> m, state |-> state, alone |-> rivals = {}]
<1>1. pub[p] = Idle /\ behind' = IF rivals = {} THEN behind ELSE behind \cup {m}
  BY DEF Publishes
<1>2. pub' = [q \in Publishers |-> IF q = p THEN new
                ELSE IF q \in rivals THEN [pub[q] EXCEPT !.alone = FALSE] ELSE pub[q]]
  BY DEF Publishes
<1>3. new \in AppendRecords /\ new.step = "append" /\ new.m = m /\ new.state = state
        /\ (new.alone <=> rivals = {})
  BY DEF AppendRecords
<1>4. PubInv /\ behind \subseteq Mission
  BY DEF JournalTypes
<1>5. \A q \in rivals : /\ [pub[q] EXCEPT !.alone = FALSE] \in AppendRecords
                        /\ [pub[q] EXCEPT !.alone = FALSE].step = pub[q].step
                        /\ [pub[q] EXCEPT !.alone = FALSE].m = pub[q].m
                        /\ [pub[q] EXCEPT !.alone = FALSE].state = pub[q].state
                        /\ ~[pub[q] EXCEPT !.alone = FALSE].alone
  <2>1. \A q \in rivals : pub[q] \in AppendRecords
    BY <1>4, Steps
  <2> QED
    BY <2>1 DEF AppendRecords
<1>6. pub'[p] = new
  BY <1>2
<1>7. \A q \in Publishers \ {p} :
        pub'[q] = IF q \in rivals THEN [pub[q] EXCEPT !.alone = FALSE] ELSE pub[q]
  BY <1>2
<1> HIDE DEF new
<1>8. pub' \in [Publishers -> Publishing]
  <2>1. \A q \in Publishers : pub'[q] \in Publishing
    BY <1>3, <1>4, <1>5, <1>6, <1>7 DEF PubInv, Publishing
  <2> QED
    BY <1>2, <2>1
<1>9. /\ Appends(p, m)' /\ pub'[p].step = "append" /\ pub'[p].state = state
      /\ pub'[p].alone \/ m \in behind'
      /\ pub'[p].alone => \A q \in Publishers : ~Appends(q, m)
  BY <1>1, <1>3, <1>6 DEF Appends, Appending
<1>10. ASSUME NEW q \in Publishers \ {p}
       PROVE  /\ pub'[q].step = pub[q].step
              /\ Projecting(q) => pub'[q] = pub[q]
              /\ Appending(q) =>
                   /\ pub'[q].m = pub[q].m /\ pub'[q].state = pub[q].state
                   /\ pub'[q].alone => pub[q].alone /\ pub[q].m # m
                   /\ pub'[q].alone \/ ~pub[q].alone \/ (pub[q].m = m /\ m \in behind')
  <2>1. CASE q \in rivals
    BY <1>1, <1>5, <1>7, <2>1 DEF Appending, Projecting
  <2>2. CASE q \notin rivals
    <3>1. pub'[q] = pub[q]
      BY <1>7, <2>2
    <3>2. Appending(q) => pub[q].m # m /\ pub[q] \in AppendRecords
      BY <1>4, <2>2, Steps
    <3> QED
      BY <3>1, <3>2 DEF AppendRecords
  <2> QED
    BY <2>1, <2>2
<1> QED
  BY <1>1, <1>4, <1>8, <1>9, <1>10

LEMMA PublishedTypes ==
  ASSUME JournalTypes, NEW p \in Publishers, NEW m \in Mission, NEW state \in State,
         Published(p, m, state)
  PROVE  JournalTypes'
<1>1. TableInv'
  BY TableInvStep DEF JournalTypes, Published
<1>2. pub' \in [Publishers -> Publishing] /\ behind' \subseteq Mission
  BY PublicationsAfter DEF Published
<1>3. life # 0 /\ UNCHANGED <<latest, tail, world, life, starts, faulty, blurred>>
  BY DEF Published, Publishes, journalVars
<1>4. changes < MaxChanges /\ changes' = changes + 1
  BY DEF Published, Publishes
<1>5. changes' \in 0 .. MaxChanges
  BY <1>4, JournalAssumption DEF JournalTypes
<1>6. born' \in [Mission -> 0 .. MaxLives]
  BY DEF Published, JournalTypes
<1> QED
  BY <1>1, <1>2, <1>3, <1>5, <1>6 DEF JournalTypes, PubInv

LEMMA PublishedFile ==
  ASSUME JournalTypes, FileInv, NEW p \in Publishers, NEW m \in Mission, NEW state \in State,
         Published(p, m, state)
  PROVE  FileInv'
<1> USE DEF FileInv
<1> DEFINE After(q) ==
             /\ pub'[q].step = pub[q].step
             /\ Appending(q) =>
                  /\ pub'[q].m = pub[q].m /\ pub'[q].state = pub[q].state
                  /\ pub'[q].alone => pub[q].alone /\ pub[q].m # m
                  /\ pub'[q].alone \/ ~pub[q].alone \/ (pub[q].m = m /\ m \in behind')
<1>1. /\ Appends(p, m)' /\ pub'[p].step = "append" /\ pub'[p].state = state
      /\ pub'[p].alone \/ m \in behind'
      /\ pub'[p].alone => \A q \in Publishers : ~Appends(q, m)
      /\ behind \subseteq behind' /\ behind' \subseteq Mission
  BY PublicationsAfter DEF Published
<1>2. \A q \in Publishers \ {p} : After(q)
  BY PublicationsAfter DEF Published
<1>3. \A n \in Mission \ {m} : Unaffected(n)
  BY DEF Published
<1>4. latest' = latest /\ tail' = tail /\ Loaded' = Loaded
  BY DEF Published, Publishes, journalVars, Loaded
<1>5. Stored(m)' => state = missions'[m].state
  BY DEF Published
<1>6. /\ born'[m] # 0
      /\ \A n \in Mission : born[n] # 0 => born'[n] # 0
  BY DEF Published, Publishes, BornInv, JournalTypes
<1>7. \A q \in Publishers : Appending(q) => pub[q].m \in Mission
  BY Steps DEF JournalTypes, AppendRecords
<1>8. \A q \in Publishers \ {p} : (Appending(q)' <=> Appending(q))
  BY <1>2 DEF Appending
<1>9. pub'[p].m = m
  BY <1>1 DEF Appends
<1> HIDE DEF After
<1>10. BornInv'
  <2>1. \A n \in Mission : Stored(n)' \/ latest'[n] # "UNKNOWN" => born'[n] # 0
    BY <1>3, <1>4, <1>6 DEF BornInv, Unaffected
  <2>2. Whole(tail)' => born'[tail'.m] # 0
    BY <1>4, <1>6, LoadedIs DEF BornInv, Whole
  <2>3. ASSUME NEW q \in Publishers, Appending(q)'
        PROVE  born'[pub'[q].m] # 0
    <3>1. CASE q = p
      BY <1>6, <1>9, <3>1
    <3>2. CASE q # p
      BY <1>2, <1>6, <1>7, <1>8, <2>3, <3>2 DEF BornInv, After
    <3> QED
      BY <3>1, <3>2
  <2> QED
    BY <2>1, <2>2, <2>3 DEF BornInv
<1>11. AloneInv'
  <2> SUFFICES ASSUME NEW r \in Publishers, NEW q \in Publishers, Appending(r)'
               PROVE  /\ pub'[r].alone \/ pub'[r].m \in behind'
                      /\ pub'[r].alone /\ Appends(q, pub[r].m)' => q = r
                      /\ pub'[r].alone /\ Stored(pub[r].m)' =>
                           Recover(pub'[r].state) = Recover(missions'[pub'[r].m].state)
    BY DEF AloneInv
  <2>1. CASE r = p
    <3>1. pub'[r].alone /\ Appends(q, pub[r].m)' => q = r
      BY <1>1, <1>2, <1>8, <1>9, <2>1 DEF Appends, After
    <3>2. Stored(pub[r].m)' => state = missions'[m].state
      BY <1>5, <1>9, <2>1 DEF Stored
    <3> QED
      BY <1>1, <1>9, <2>1, <3>1, <3>2
  <2>2. CASE r # p
    <3>1. Appending(r) /\ pub[r].m \in Mission /\ pub'[r].m = pub[r].m
            /\ pub'[r].state = pub[r].state
      BY <1>2, <1>7, <1>8, <2>2 DEF After
    <3>2. pub'[r].alone \/ pub'[r].m \in behind'
      BY <1>1, <1>2, <2>2, <3>1 DEF AloneInv, After
    <3>3. pub'[r].alone => pub[r].alone /\ pub[r].m # m
      BY <1>2, <2>2, <3>1 DEF After
    <3>4. pub'[r].alone /\ Appends(q, pub[r].m)' => q = r
      <4>1. Appends(q, pub[r].m)' => pub'[q].m = pub[r].m /\ Appending(q)'
        BY <3>1 DEF Appends
      <4>2. pub'[r].alone /\ Appends(q, pub[r].m)' => q # p
        BY <1>9, <3>3, <4>1
      <4>3. pub'[r].alone /\ Appends(q, pub[r].m)' => Appends(q, pub[r].m)
        BY <1>2, <1>8, <4>1, <4>2 DEF Appends, After
      <4> QED
        BY <3>1, <3>3, <4>3 DEF AloneInv
    <3>5. pub'[r].alone /\ Stored(pub[r].m)' =>
            Recover(pub'[r].state) = Recover(missions'[pub'[r].m].state)
      <4>1. pub'[r].alone => Unaffected(pub[r].m)
        BY <1>3, <3>1, <3>3
      <4>2. Stored(pub[r].m)' <=> missions'[pub[r].m].state # "UNKNOWN"
        BY <3>1 DEF Stored
      <4> QED
        BY <3>1, <3>3, <4>1, <4>2 DEF AloneInv, Unaffected, Stored
    <3> QED
      BY <3>2, <3>4, <3>5
  <2> QED
    BY <2>1, <2>2
<1>12. WrittenInv'
  BY <1>1, <1>2, <1>4, <1>8 DEF WrittenInv, After, Appending
<1>13. FoundInv'
  <2> SUFFICES ASSUME NEW n \in Mission \ behind', \A q \in Publishers : ~Appends(q, n)', Stored(n)'
               PROVE  Recover(Loaded'[n]) = Recover(missions'[n].state)
    BY DEF FoundInv
  <2>1. n # m
    BY <1>1
  <2>2. \A q \in Publishers : ~Appends(q, n)
    <3>1. ASSUME NEW q \in Publishers, Appends(q, n)
          PROVE  FALSE
      <4>1. q # p
        BY <3>1 DEF Appends, Appending, Published, Publishes, Idle
      <4> QED
        BY <1>2, <1>8, <3>1, <4>1 DEF Appends, After
    <3> QED
      BY <3>1
  <2> QED
    BY <1>1, <1>3, <1>4, <2>1, <2>2 DEF FoundInv, Unaffected
<1> QED
  BY <1>10, <1>11, <1>12, <1>13

-----------------------------------------------------------------------------
(* A record is appended *)

Appended(p) == AppendLine(p) \/ AppendRecord(p) \/ AppendNewline(p) \/ AppendFails(p)

\* After a step of p's append, a mission that is not behind either has what it had
\* in the file or, being that of p alone, the record of p.
AppendFinds(p) ==
  \A n \in Mission \ behind' :
    \/ n # pub[p].m /\ n \notin behind /\ Loaded'[n] = Loaded[n]
    \/ n = pub[p].m /\ pub[p].alone /\ Loaded'[n] = pub[p].state

\* And nothing is found that was not found or about to be appended.
AppendBrings(p) ==
  /\ \A n \in Mission : latest'[n] # "UNKNOWN" =>
       latest[n] # "UNKNOWN" \/ n = pub[p].m \/ (Whole(tail) /\ n = tail.m)
  /\ Whole(tail)' => tail' = tail \/ tail'.m = pub[p].m

LEMMA MendedIs ==
  ASSUME JournalTypes, AloneInv, NEW p \in Publishers, Appending(p)
  PROVE  /\ Mended(p) \subseteq behind
         /\ \A n \in Mission \ Mended(p) :
              n \notin behind \/ (n = pub[p].m /\ pub[p].alone)
         /\ pub[p].m \notin behind => pub[p].alone
         /\ pub[p].m \notin Mended(p) => pub[p].alone
  BY DEF Mended, AloneInv

LEMMA AppendFile ==
  ASSUME JournalTypes, AloneInv, WrittenInv, NEW p \in Publishers, Appended(p)
  PROVE  /\ latest' \in [Mission -> State] /\ tail' \in {NoTail, Junk} \cup TailRecords
         /\ behind' \subseteq Mission
         /\ AppendFinds(p) /\ AppendBrings(p)
<1> DEFINE m == pub[p].m
<1>1. Appending(p) /\ m \in Mission /\ pub[p].state \in State
  <2>1. Appending(p)
    BY DEF Appended, AppendLine, AppendRecord, AppendNewline, AppendFails, Appending
  <2> QED
    BY <2>1, Steps DEF JournalTypes, AppendRecords
<1>2. behind \subseteq Mission /\ latest \in [Mission -> State]
        /\ tail \in {NoTail, Junk} \cup TailRecords
  BY DEF JournalTypes
<1>3. /\ Loaded \in [Mission -> State]
      /\ \A n \in Mission : Loaded[n] = IF Whole(tail) /\ tail.m = n THEN tail.state ELSE latest[n]
      /\ Whole(tail) => tail.m \in Mission /\ tail.state \in State /\ tail # NoTail
      /\ ~Whole(NoTail) /\ ~Whole(Junk)
  BY LoadedIs
<1>4. tail' = NoTail \/ tail' = Junk => Loaded' = latest'
  BY <1>3 DEF Loaded, Whole
<1>5. tail' = tail /\ latest' = latest => Loaded' = Loaded
  BY DEF Loaded
<1>6. LostWith(m) \subseteq Mission /\ m \in LostWith(m) /\ (Whole(tail) => tail.m \in LostWith(m))
  BY <1>1, <1>3 DEF LostWith
<1>7. /\ Mended(p) \subseteq behind
      /\ \A n \in Mission \ Mended(p) : n \notin behind \/ (n = m /\ pub[p].alone)
      /\ m \notin behind => pub[p].alone
      /\ m \notin Mended(p) => pub[p].alone
  BY <1>1, MendedIs
<1> HIDE DEF m
<1>8. CASE AppendLine(p)
  <2>1. tail' = NoTail /\ Loaded' = latest'
    BY <1>4, <1>8 DEF AppendLine
  <2>2. CASE Torn
    <3>1. latest' = latest /\ behind' = behind \cup LostWith(m)
      BY <1>8, <2>2 DEF AppendLine, m
    <3>2. AppendFinds(p)
      BY <1>3, <1>6, <2>1, <3>1 DEF AppendFinds, m
    <3> QED
      BY <1>2, <1>3, <1>6, <2>1, <3>1, <3>2 DEF AppendBrings
  <2>3. CASE ~Torn
    <3>1. latest' = [latest EXCEPT ![m] = pub[p].state] /\ behind' = Mended(p)
      BY <1>8, <2>3 DEF AppendLine, LatestRecord, m
    <3>2. ~Whole(tail)
      BY <1>3, <2>3 DEF Torn
    <3>3. \A n \in Mission : latest'[n] = IF n = m THEN pub[p].state ELSE Loaded[n]
      BY <1>2, <1>3, <3>1, <3>2
    <3>4. AppendFinds(p)
      BY <1>7, <2>1, <3>1, <3>3 DEF AppendFinds, m
    <3>5. \A n \in Mission \ {m} : latest'[n] = latest[n]
      BY <1>2, <3>1
    <3>6. AppendBrings(p)
      BY <1>3, <2>1, <3>5 DEF AppendBrings, m
    <3>7. latest' \in [Mission -> State]
      BY <1>1, <1>2, <3>1
    <3> QED
      BY <1>2, <1>7, <2>1, <3>1, <3>4, <3>6, <3>7
  <2> QED
    BY <2>2, <2>3
<1>9. CASE AppendRecord(p)
  <2>1. latest' = latest
    BY <1>9 DEF AppendRecord
  <2>2. CASE Torn
    <3>1. tail' = Junk /\ behind' = behind \cup LostWith(m) /\ Loaded' = latest'
      BY <1>4, <1>9, <2>2 DEF AppendRecord, m
    <3>2. AppendFinds(p)
      BY <1>3, <1>6, <2>1, <3>1 DEF AppendFinds, m
    <3> QED
      BY <1>2, <1>3, <1>6, <2>1, <3>1, <3>2 DEF AppendBrings
  <2>3. CASE ~Torn
    <3>1. tail' = Record(m, pub[p].state) /\ behind' = behind /\ ~Whole(tail)
      BY <1>3, <1>9, <2>3 DEF AppendRecord, Torn, m
    <3>2. Whole(tail)' /\ tail'.m = m /\ tail'.state = pub[p].state /\ tail' \in TailRecords
      BY <1>1, <3>1 DEF Whole, Record, TailRecords, m
    <3>3. Loaded' = [latest EXCEPT ![m] = pub[p].state]
      BY <2>1, <3>2 DEF Loaded, LatestRecord
    <3>4. \A n \in Mission : Loaded'[n] = IF n = m THEN pub[p].state ELSE Loaded[n]
      BY <1>2, <1>3, <3>1, <3>3
    <3>5. AppendFinds(p)
      BY <1>7, <3>1, <3>4 DEF AppendFinds, m
    <3> QED
      BY <1>2, <2>1, <3>1, <3>2, <3>5 DEF AppendBrings, m
  <2> QED
    BY <2>2, <2>3
<1>10. CASE AppendNewline(p)
  <2>1. tail' = NoTail /\ Loaded' = latest' /\ latest' = Loaded
    BY <1>4, <1>10 DEF AppendNewline
  <2>2. behind' = IF tail = Record(m, pub[p].state) THEN Mended(p) ELSE behind
    BY <1>10 DEF AppendNewline, m
  <2>3. tail = Record(m, pub[p].state) => Loaded[m] = pub[p].state
    BY <1>1, <1>3 DEF Whole, Record, m
  <2>4. m \notin behind => Loaded[m] = pub[p].state
    BY <1>10 DEF WrittenInv, AppendNewline, m
  <2>5. AppendFinds(p)
    BY <1>7, <2>1, <2>2, <2>3, <2>4 DEF AppendFinds, m
  <2>6. AppendBrings(p)
    BY <1>3, <2>1 DEF AppendBrings
  <2> QED
    BY <1>2, <1>3, <1>7, <2>1, <2>2, <2>5, <2>6
<1>11. CASE AppendFails(p)
  <2>1. latest' = latest
    BY <1>11 DEF AppendFails
  <2>2. CASE tail' = tail /\ pub[p].step = "append" /\ behind' = behind \cup {m}
    <3>1. AppendFinds(p) /\ AppendBrings(p)
      BY <1>5, <2>1, <2>2 DEF AppendFinds, AppendBrings, m
    <3> QED
      BY <1>1, <1>2, <2>1, <2>2, <3>1 DEF m
  <2>3. CASE tail' = tail /\ pub[p].step = "newline" /\ behind' = behind
    <3>1. m \notin behind => Loaded[m] = pub[p].state
      BY <2>3 DEF WrittenInv, m
    <3>2. AppendFinds(p)
      BY <1>5, <1>7, <2>1, <2>3, <3>1 DEF AppendFinds, m
    <3>3. AppendBrings(p)
      BY <2>1, <2>3 DEF AppendBrings
    <3> QED
      BY <1>2, <2>1, <2>3, <3>2, <3>3
  <2>4. CASE tail' = Junk /\ behind' = behind \cup LostWith(m)
    <3>1. Loaded' = latest'
      BY <1>4, <2>4
    <3>2. AppendFinds(p)
      BY <1>3, <1>6, <2>1, <2>4, <3>1 DEF AppendFinds, m
    <3> QED
      BY <1>2, <1>3, <1>6, <2>1, <2>4, <3>2 DEF AppendBrings
  <2> QED
    BY <1>1, <1>11, <2>2, <2>3, <2>4 DEF AppendFails, Appending, m
<1> QED
  BY <1>8, <1>9, <1>10, <1>11 DEF Appended

\* The publication moves on; the table and the facts of the world are left alone.
LEMMA AppendMovesOn ==
  ASSUME JournalTypes, NEW p \in Publishers, Appended(p)
  PROVE  /\ Appending(p) /\ pub[p] \in AppendRecords
         /\ \/ pub'[p] = Snapshot
            \/ /\ pub'[p].step = "newline" /\ pub'[p] \in AppendRecords
               /\ pub'[p].m = pub[p].m /\ pub'[p].state = pub[p].state
               /\ pub'[p].alone = pub[p].alone
         /\ \A q \in Publishers \ {p} : pub'[q] = pub[q]
         /\ pub' \in [Publishers -> Publishing]
         /\ life # 0
         /\ UNCHANGED <<managerVars, world, startup, life, starts, changes, faulty, born, blurred>>
<1>1. Appending(p)
  BY DEF Appended, AppendLine, AppendRecord, AppendNewline, AppendFails, Appending
<1>2. pub \in [Publishers -> Publishing] /\ pub[p] \in AppendRecords
  BY <1>1, Steps DEF JournalTypes, PubInv
<1> DEFINE written == [pub[p] EXCEPT !.step = "newline"]
<1>3. /\ written.step = "newline" /\ written \in AppendRecords
      /\ written.m = pub[p].m /\ written.state = pub[p].state
      /\ written.alone = pub[p].alone
  BY <1>2 DEF AppendRecords
<1>4. /\ life # 0
      /\ UNCHANGED <<managerVars, world, startup, life, starts, changes, faulty, born, blurred>>
  BY DEF Appended, AppendLine, AppendRecord, AppendNewline, AppendFails
<1>5. pub' = [pub EXCEPT ![p] = Snapshot] \/ pub' = [pub EXCEPT ![p] = written]
  BY DEF Appended, AppendLine, AppendRecord, AppendNewline, AppendFails, Step
<1> HIDE DEF written
<1>6. (pub'[p] = Snapshot \/ pub'[p] = written) /\ \A q \in Publishers \ {p} : pub'[q] = pub[q]
  BY <1>2, <1>5
<1>7. pub' \in [Publishers -> Publishing]
  <2>1. Snapshot \in Publishing /\ written \in Publishing
    BY <1>3 DEF Publishing
  <2> QED
    BY <1>2, <1>5, <2>1
<1> QED
  BY <1>1, <1>2, <1>3, <1>4, <1>6, <1>7

LEMMA AppendedTypes ==
  ASSUME JournalTypes, AloneInv, WrittenInv, NEW p \in Publishers, Appended(p)
  PROVE  JournalTypes'
<1>1. TableInv'
  BY AppendMovesOn, TableInvStep DEF JournalTypes
<1>2. /\ latest' \in [Mission -> State] /\ tail' \in {NoTail, Junk} \cup TailRecords
      /\ behind' \subseteq Mission
  BY AppendFile
<1>3. /\ pub' \in [Publishers -> Publishing] /\ life # 0
      /\ UNCHANGED <<world, life, starts, changes, faulty, born, blurred>>
  BY AppendMovesOn
<1> QED
  BY <1>1, <1>2, <1>3 DEF JournalTypes, PubInv

LEMMA AppendedFile ==
  ASSUME JournalTypes, FileInv, NEW p \in Publishers, Appended(p)
  PROVE  FileInv'
<1> USE DEF FileInv
<1> DEFINE m == pub[p].m
<1>1. AppendFinds(p) /\ AppendBrings(p) /\ behind' \subseteq Mission
  BY AppendFile
<1>2. Appending(p) /\ pub[p] \in AppendRecords
  BY AppendMovesOn
<1>3. /\ Appending(p)' => /\ pub'[p].m = m /\ pub'[p].state = pub[p].state
                          /\ pub'[p].alone = pub[p].alone
      /\ \A q \in Publishers \ {p} : pub'[q] = pub[q]
  BY AppendMovesOn DEF Appending, Snapshot
<1>4. missions' = missions /\ born' = born
  BY AppendMovesOn DEF managerVars
<1>5. \A q \in Publishers : Appending(q)' =>
        /\ Appending(q) /\ pub'[q].m = pub[q].m /\ pub'[q].state = pub[q].state
        /\ pub'[q].alone = pub[q].alone
  BY <1>2, <1>3 DEF Appending
<1>6. \A q \in Publishers : Appending(q) => pub[q].m \in Mission
  BY Steps DEF JournalTypes, AppendRecords
<1>7. pub[p].alone => \A q \in Publishers : Appends(q, m) => q = p
  BY <1>2 DEF AloneInv
<1>8. BornInv'
  <2>1. \A n \in Mission : Stored(n)' \/ latest'[n] # "UNKNOWN" => born'[n] # 0
    BY <1>1, <1>2, <1>4 DEF AppendBrings, BornInv, Stored
  <2>2. Whole(tail)' => born'[tail'.m] # 0
    BY <1>1, <1>2, <1>4 DEF AppendBrings, BornInv, Whole
  <2>3. \A q \in Publishers : Appending(q)' => born'[pub'[q].m] # 0
    BY <1>4, <1>5 DEF BornInv
  <2> QED
    BY <2>1, <2>2, <2>3 DEF BornInv
<1>9. AloneInv'
  <2> SUFFICES ASSUME NEW r \in Publishers, NEW q \in Publishers, Appending(r)'
               PROVE  /\ pub'[r].alone \/ pub'[r].m \in behind'
                      /\ pub'[r].alone /\ Appends(q, pub[r].m)' => q = r
                      /\ pub'[r].alone /\ Stored(pub[r].m)' =>
                           Recover(pub'[r].state) = Recover(missions'[pub'[r].m].state)
    BY DEF AloneInv
  <2>1. /\ Appending(r) /\ pub'[r].m = pub[r].m /\ pub'[r].state = pub[r].state
        /\ pub'[r].alone = pub[r].alone /\ pub[r].m \in Mission
    BY <1>5, <1>6
  <2>2. pub'[r].alone \/ pub'[r].m \in behind'
    BY <1>1, <1>7, <2>1 DEF AppendFinds, AloneInv, Appends
  <2>3. pub'[r].alone /\ Appends(q, pub[r].m)' => q = r
    BY <1>5, <2>1 DEF AloneInv, Appends
  <2>4. Stored(pub[r].m)' => Stored(pub[r].m)
    BY <1>4, <2>1 DEF Stored
  <2> QED
    BY <1>4, <2>1, <2>2, <2>3, <2>4 DEF AloneInv
<1>10. WrittenInv'
  <2> SUFFICES ASSUME NEW q \in Publishers, pub'[q].step = "newline", pub'[q].m \notin behind'
               PROVE  Loaded'[pub'[q].m] = pub'[q].state
    BY DEF WrittenInv
  <2>1. Appending(q)'
    BY DEF Appending
  <2>2. CASE q = p
    BY <1>1, <1>2, <1>5, <1>6, <2>1, <2>2 DEF AppendFinds
  <2>3. CASE q # p
    <3>1. Appending(q) /\ pub'[q] = pub[q] /\ pub[q].m \in Mission
      BY <1>3, <1>5, <1>6, <2>1, <2>3
    <3>2. ~(pub[p].alone /\ pub[q].m = m)
      BY <1>7, <2>3, <3>1 DEF Appends
    <3>3. pub[q].m \notin behind /\ Loaded'[pub[q].m] = Loaded[pub[q].m]
      BY <1>1, <3>1, <3>2 DEF AppendFinds
    <3> QED
      BY <3>1, <3>3 DEF WrittenInv
  <2> QED
    BY <2>2, <2>3
<1>11. FoundInv'
  <2> SUFFICES ASSUME NEW n \in Mission \ behind', \A q \in Publishers : ~Appends(q, n)', Stored(n)'
               PROVE  Recover(Loaded'[n]) = Recover(missions'[n].state)
    BY DEF FoundInv
  <2>1. Stored(n)
    BY <1>4 DEF Stored
  <2>2. CASE n # m /\ n \notin behind /\ Loaded'[n] = Loaded[n]
    <3>1. \A q \in Publishers : ~Appends(q, n)
      BY <1>3, <2>2 DEF Appends, Appending
    <3> QED
      BY <1>4, <2>1, <2>2, <3>1 DEF FoundInv
  <2>3. CASE n = m /\ pub[p].alone /\ Loaded'[n] = pub[p].state
    BY <1>2, <1>4, <2>1, <2>3 DEF AloneInv
  <2> QED
    BY <1>1, <2>2, <2>3 DEF AppendFinds
<1> QED
  BY <1>8, <1>9, <1>10, <1>11

-----------------------------------------------------------------------------
(* The other steps *)

\* What leaves the file, the table and every append alone keeps the invariant.
LEMMA FileLeftAlone ==
  ASSUME FileInv, UNCHANGED <<managerVars, journalVars, born, behind>>,
         \A q \in Publishers : pub'[q] = pub[q] \/ (~Appending(q) /\ ~Appending(q)')
  PROVE  FileInv'
<1>1. missions' = missions /\ latest' = latest /\ tail' = tail /\ Loaded' = Loaded
        /\ born' = born /\ behind' = behind
  BY DEF managerVars, journalVars, Loaded
<1>2. \A q \in Publishers : (Appending(q)' <=> Appending(q)) /\ (Appending(q) => pub'[q] = pub[q])
  BY DEF Appending
<1>3. BornInv'
  BY <1>1, <1>2 DEF FileInv, BornInv, Stored, Whole
<1>4. AloneInv'
  BY <1>1, <1>2 DEF FileInv, AloneInv, Appends, Stored
<1>5. WrittenInv'
  BY <1>1, <1>2 DEF FileInv, WrittenInv, Appending
<1>6. FoundInv'
  BY <1>1, <1>2 DEF FileInv, FoundInv, Appends, Stored
<1> QED
  BY <1>3, <1>4, <1>5, <1>6 DEF FileInv

LEMMA TakeSnapshotKeeps ==
  ASSUME JournalTypes, NEW p \in Publishers, TakeSnapshot(p)
  PROVE  /\ JournalTypes'
         /\ FileInv => FileInv'
<1> DEFINE new == [step |-> "project", view |-> Projection(missions)]
<1>1. new \in ProjectRecords
  BY ProjectionType DEF JournalTypes, TableInv, ManagerTypeOK, ProjectRecords
<1>2. pub' = [pub EXCEPT ![p] = new] /\ pub[p] = Snapshot
  BY DEF TakeSnapshot, Step
<1>3. pub'[p] = new /\ new.step = "project" /\ \A q \in Publishers \ {p} : pub'[q] = pub[q]
  BY <1>2 DEF JournalTypes, PubInv
<1> HIDE DEF new
<1>4. pub' \in [Publishers -> Publishing]
  BY <1>1, <1>2 DEF JournalTypes, PubInv, Publishing
<1>5. TableInv'
  BY TableInvStep DEF TakeSnapshot, JournalTypes
<1>6. blurred' \in BOOLEAN /\ life # 0
        /\ UNCHANGED <<managerVars, journalVars, latest, tail, world, life, starts, changes, faulty,
                       born, behind>>
  BY DEF TakeSnapshot, journalVars
<1>7. JournalTypes'
  BY <1>4, <1>5, <1>6 DEF JournalTypes, PubInv
<1>8. ~Appending(p) /\ ~Appending(p)'
  BY <1>2, <1>3 DEF Appending, Snapshot
<1> QED
  BY <1>3, <1>6, <1>7, <1>8, FileLeftAlone

LEMMA WriteFactsKeeps ==
  ASSUME JournalTypes, NEW p \in Publishers, WriteFacts(p)
  PROVE  /\ JournalTypes'
         /\ FileInv => FileInv'
<1>1. pub' = [pub EXCEPT ![p] = Idle] /\ Projecting(p)
  BY DEF WriteFacts, Step
<1>2. pub'[p] = Idle /\ \A q \in Publishers \ {p} : pub'[q] = pub[q]
  BY <1>1 DEF JournalTypes, PubInv
<1>3. pub' \in [Publishers -> Publishing]
  BY <1>1 DEF JournalTypes, PubInv, Publishing
<1>4. TableInv'
  BY TableInvStep DEF WriteFacts, JournalTypes
<1>5. life # 0 /\ UNCHANGED <<managerVars, journalVars, latest, tail, life, starts, changes, faulty,
                              born, behind>>
  BY DEF WriteFacts, journalVars
<1>6. PICK written \in SUBSET {"active", "index"} :
        /\ world' = [f \in DOMAIN world |-> IF f \in written THEN pub[p].view[f] ELSE world[f]]
        /\ blurred' = (blurred \/ written # {"active", "index"})
  BY DEF WriteFacts
<1>7. world' \in Views
  <2>1. pub[p].view \in Views /\ world \in Views
    BY <1>1, Steps DEF JournalTypes
  <2>2. /\ DOMAIN world = {"active", "index"}
        /\ world = [active |-> world.active, index |-> world.index]
        /\ world.active \in Mission \cup {NoMission} /\ world.index \in [Mission -> State]
        /\ pub[p].view.active \in Mission \cup {NoMission}
        /\ pub[p].view.index \in [Mission -> State]
    BY <2>1 DEF Views
  <2> DEFINE a == IF "active" \in written THEN pub[p].view.active ELSE world.active
             i == IF "index" \in written THEN pub[p].view.index ELSE world.index
  <2>3. world' = [active |-> a, index |-> i]
    BY <1>6, <2>2
  <2>4. a \in Mission \cup {NoMission} /\ i \in [Mission -> State]
    BY <2>2
  <2> HIDE DEF a, i
  <2> QED
    BY <2>3, <2>4 DEF Views
<1>8. blurred' \in BOOLEAN
  BY <1>6
<1>9. JournalTypes'
  BY <1>3, <1>4, <1>5, <1>7, <1>8 DEF JournalTypes, PubInv
<1>10. ~Appending(p) /\ ~Appending(p)'
  BY <1>1, <1>2 DEF Appending, Projecting, Idle
<1> QED
  BY <1>2, <1>5, <1>9, <1>10, FileLeftAlone

LEMMA StartupSnapshotKeeps ==
  ASSUME JournalTypes, NEW p \in Publishers, StartupSnapshot(p)
  PROVE  /\ JournalTypes'
         /\ FileInv => FileInv'
<1>1. pub' = pub \/ pub' = [pub EXCEPT ![p] = Snapshot]
  BY DEF StartupSnapshot
<1>2. /\ \A q \in Publishers \ {p} : pub'[q] = pub[q]
      /\ pub'[p] = pub[p] \/ pub'[p] = Snapshot
      /\ pub' \in [Publishers -> Publishing]
  BY <1>1 DEF JournalTypes, PubInv, Publishing
<1>3. TableInv'
  BY TableInvStep DEF StartupSnapshot, JournalTypes
<1>4. life # 0 /\ pub[p] = Idle
        /\ UNCHANGED <<managerVars, journalVars, latest, tail, world, life, starts, changes, faulty,
                       born, behind, blurred>>
  BY DEF StartupSnapshot, journalVars, historyVars
<1>5. JournalTypes'
  BY <1>2, <1>3, <1>4 DEF JournalTypes, PubInv
<1>6. pub'[p] = pub[p] \/ (~Appending(p) /\ ~Appending(p)')
  BY <1>2, <1>4 DEF Appending, Idle, Snapshot
<1> QED
  BY <1>2, <1>4, <1>5, <1>6, FileLeftAlone

\* A crash may take from the file a record without its newline and every record
\* that was to be appended: those of missions that are then behind.
LEMMA CrashKeeps ==
  ASSUME JournalTypes, Crash
  PROVE  /\ JournalTypes'
         /\ FileInv => FileInv'
<1> DEFINE cut == {pub[p].m : p \in {q \in Publishers : pub[q].step = "append"}}
           lost == IF Whole(tail) /\ tail' = Junk THEN {tail.m} ELSE {}
<1>1. behind' = behind \cup cut \cup lost
  BY DEF Crash
<1>2. cut \subseteq Mission
  BY Steps DEF JournalTypes, AppendRecords, Appending
<1>3. lost \subseteq Mission
  BY LoadedIs
<1>4. pub' = [p \in Publishers |-> Idle] /\ Idle \in Publishing
  BY DEF Crash, Publishing
<1>5. \A p \in Publishers : pub'[p] = Idle /\ ~Appending(p)'
  BY <1>4 DEF Appending, Idle
<1>6. life' = 0 /\ starts < MaxLives /\ (tail' = tail \/ tail' = Junk)
        /\ UNCHANGED <<managerVars, missions, latest, world, starts, changes, faulty, born, blurred>>
  BY DEF Crash, managerVars
<1>7. TableInv' /\ 0 \in 0 .. MaxLives
  BY <1>6, TableInvStep, JournalAssumption DEF JournalTypes
<1>8. pub' \in [Publishers -> Publishing]
  BY <1>4
<1>9. JournalTypes'
  BY <1>1, <1>2, <1>3, <1>5, <1>6, <1>7, <1>8 DEF JournalTypes, PubInv
<1>10. ASSUME FileInv
       PROVE  FileInv'
  <2> USE <1>10 DEF FileInv
  <2>1. BornInv'
    BY <1>5, <1>6, LoadedIs DEF BornInv, Stored, Whole
  <2>2. AloneInv' /\ WrittenInv'
    BY <1>5 DEF AloneInv, WrittenInv, Appending
  <2>3. FoundInv'
    <3> SUFFICES ASSUME NEW n \in Mission \ behind', Stored(n)'
                 PROVE  Recover(Loaded'[n]) = Recover(missions'[n].state)
      BY DEF FoundInv
    <3>1. n \notin behind /\ n \notin cut /\ n \notin lost /\ Stored(n)
      BY <1>1, <1>6 DEF Stored
    <3>2. Loaded'[n] = Loaded[n]
      <4>1. CASE tail' = tail
        BY <1>6, <4>1 DEF Loaded
      <4>2. CASE tail' = Junk
        <5>1. Loaded' = latest
          BY <1>6, <4>2, LoadedIs DEF Loaded, Whole
        <5> QED
          BY <3>1, <4>2, <5>1, LoadedIs
      <4> QED
        BY <1>6, <4>1, <4>2
    <3>3. CASE \A p \in Publishers : ~Appends(p, n)
      BY <1>6, <3>1, <3>2, <3>3 DEF FoundInv
    <3>4. ASSUME NEW p \in Publishers, Appends(p, n)
          PROVE  Recover(Loaded[n]) = Recover(missions[n].state)
      <4>1. Appending(p) /\ pub[p].m = n
        BY <3>4 DEF Appends
      <4>2. pub[p].step = "newline"
        BY <3>1, <4>1 DEF Appending
      <4>3. Loaded[n] = pub[p].state /\ pub[p].alone
        BY <3>1, <4>1, <4>2 DEF WrittenInv, AloneInv
      <4> QED
        BY <3>1, <4>1, <4>3 DEF AloneInv
    <3> QED
      BY <1>6, <3>2, <3>3, <3>4
  <2> QED
    BY <2>1, <2>2, <2>3
<1> QED
  BY <1>9, <1>10

LEMMA RecoverIs ==
  ASSUME NEW state \in State
  PROVE  /\ Recover(state) \in Ended \cup {"UNKNOWN"}
         /\ Recover(Recover(state)) = Recover(state)
         /\ Recover(state) = "UNKNOWN" <=> state = "UNKNOWN"
         /\ Recover(state) \in State
  BY DEF Recover, Ended, State

LEMMA RecoveredRecord ==
  ASSUME NEW state \in State
  PROVE  /\ [Absent EXCEPT !.state = state] \in MissionRecord
         /\ [Absent EXCEPT !.state = state].state = state
         /\ [Absent EXCEPT !.state = state].exec = 0
         /\ [Absent EXCEPT !.state = state].bt = FALSE
         /\ state = "UNKNOWN" => [Absent EXCEPT !.state = state] = Absent
<1>1. Absent \in MissionRecord /\ Absent.state = "UNKNOWN" /\ Absent.exec = 0 /\ Absent.bt = FALSE
  BY DEF Absent, MissionRecord, Priority, Text, State
<1> QED
  BY <1>1 DEF MissionRecord

\* What the restarted node makes of the file is a table in order: nobody holds the
\* slot, nobody waits for it, and no identity is left to be confused.
LEMMA RestartTable ==
  ASSUME JournalTypes, Restart
  PROVE  /\ TableInv'
         /\ \A n \in Mission : missions'[n].state \in Ended \cup {"UNKNOWN"}
         /\ \/ \A n \in Mission : missions'[n].state = Recover(Loaded[n])
            \/ \A n \in Mission : missions'[n].state = "UNKNOWN"
<1> DEFINE nothing == [n \in Mission |-> "UNKNOWN"]
<1>1. PICK found \in {Loaded, nothing} :
        missions' = [n \in Mission |-> [Absent EXCEPT !.state = Recover(found[n])]]
  BY DEF Restart, LoadResults
<1> DEFINE rec(n) == [Absent EXCEPT !.state = Recover(found[n])]
<1>2. \A n \in Mission : /\ Recover(found[n]) \in Ended \cup {"UNKNOWN"}
                         /\ Recover(found[n]) \in State
  <2>1. \A n \in Mission : found[n] \in State
    BY <1>1, LoadedIs DEF State
  <2> QED
    BY <2>1, RecoverIs
<1>3. \A n \in Mission :
        /\ rec(n) \in MissionRecord
        /\ rec(n).state = Recover(found[n]) /\ rec(n).exec = 0 /\ rec(n).bt = FALSE
        /\ Recover(found[n]) = "UNKNOWN" => rec(n) = Absent
  BY <1>2, RecoveredRecord
<1>4. found = Loaded \/ \A n \in Mission : Recover(found[n]) = "UNKNOWN"
  BY <1>1 DEF Recover
<1>5. missions' = [n \in Mission |-> rec(n)]
  BY <1>1
<1>6. \A n \in Mission : /\ missions'[n].state = Recover(found[n])
                         /\ missions'[n].exec = 0 /\ ~missions'[n].bt
                         /\ missions'[n] \in MissionRecord
                         /\ missions'[n].state = "UNKNOWN" => missions'[n] = Absent
  BY <1>3, <1>5
<1>7. active' = NoMission /\ resumedFrom' = [n \in Mission |-> NoText] /\ execs' = execs
  BY DEF Restart
<1>8. ManagerTypeOK'
  BY <1>5, <1>6, <1>7 DEF JournalTypes, TableInv, ManagerTypeOK, Text
<1>9. SlotInv'
  BY <1>2, <1>6, <1>7 DEF SlotInv, ActiveIsOpen, IdleSlotHasNoQueue, Queued, Ended
<1>10. RunningIsExecutable'
  <2>1. execs \in Nat
    BY BoundAssumption DEF JournalTypes, TableInv, ManagerTypeOK
  <2>2. \A n \in Mission : missions'[n].state # "RUNNING"
    BY <1>2, <1>6 DEF Ended
  <2> QED
    BY <1>6, <1>7, <2>1, <2>2 DEF RunningIsExecutable
<1>11. GuardOnlyForOpen'
  BY <1>7 DEF GuardOnlyForOpen
<1>12. UnknownIsAbsent'
  BY <1>6 DEF UnknownIsAbsent, Stored
<1> QED
  BY <1>2, <1>4, <1>6, <1>8, <1>9, <1>10, <1>11, <1>12 DEF TableInv, IdentityInv

LEMMA RestartKeeps ==
  ASSUME JournalTypes, Restart
  PROVE  /\ JournalTypes'
         /\ FileInv => FileInv'
<1>1. /\ life = 0 /\ life' = starts + 1 /\ starts' = starts + 1
      /\ behind' = {} /\ blurred' = TRUE
      /\ UNCHANGED <<latest, tail, pub, changes, faulty, world, born>>
  BY DEF Restart, journalVars
<1>2. starts < MaxLives /\ \A p \in Publishers : pub[p] = Idle
  BY <1>1 DEF JournalTypes, PubInv
<1>3. life' \in 0 .. MaxLives /\ starts' \in 1 .. MaxLives /\ life' # 0
  BY <1>1, <1>2, JournalAssumption DEF JournalTypes
<1>4. JournalTypes'
  BY <1>1, <1>3, RestartTable DEF JournalTypes, PubInv
<1>5. \A p \in Publishers : ~Appending(p)'
  BY <1>1, <1>2 DEF Appending, Idle
<1>6. Loaded' = Loaded
  BY <1>1 DEF Loaded
<1>7. ASSUME FileInv
      PROVE  FileInv'
  <2>1. \A n \in Mission : Stored(n)' => Loaded[n] # "UNKNOWN"
    BY LoadedIs, RecoverIs, RestartTable DEF Stored
  <2>2. \A n \in Mission : Loaded[n] # "UNKNOWN" => born[n] # 0
    BY <1>7, LoadedIs DEF FileInv, BornInv
  <2>3. BornInv'
    BY <1>1, <1>5, <1>7, <2>1, <2>2 DEF FileInv, BornInv, Whole
  <2>4. AloneInv' /\ WrittenInv'
    BY <1>5 DEF AloneInv, WrittenInv, Appending
  <2>5. FoundInv'
    <3> SUFFICES ASSUME NEW n \in Mission, Stored(n)'
                 PROVE  Recover(Loaded'[n]) = Recover(missions'[n].state)
      BY DEF FoundInv
    <3>1. missions'[n].state = Recover(Loaded[n])
      BY RestartTable DEF Stored
    <3> QED
      BY <1>6, <3>1, LoadedIs, RecoverIs
  <2> QED
    BY <2>3, <2>4, <2>5 DEF FileInv
<1> QED
  BY <1>4, <1>7

-----------------------------------------------------------------------------
(* The theorems *)

JournalInv == JournalTypes /\ FileInv

LEMMA JournalInit == Init => JournalInv
<1> SUFFICES ASSUME Init
             PROVE  JournalInv
  OBVIOUS
<1>1. TableInv
  BY TypeInit, SlotInit, IdentityInit DEF Init, TableInv
<1>2. world \in Views
  BY <1>1, ProjectionType DEF Init, TableInv, ManagerTypeOK
<1>3. "UNKNOWN" \in State /\ Idle \in Publishing
  BY DEF State, Publishing
<1>4. life = 1 /\ starts = 1 /\ changes = 0 /\ 1 \in 0 .. MaxLives /\ 1 \in 1 .. MaxLives
        /\ 0 \in 0 .. MaxChanges /\ 0 \in 0 .. MaxLives
  BY JournalAssumption DEF Init
<1>5. JournalTypes
  <2>1. pub \in [Publishers -> Publishing] /\ latest \in [Mission -> State]
    BY <1>3 DEF Init
  <2>2. born \in [Mission -> 0 .. MaxLives]
    BY <1>4 DEF Init
  <2>3. PubInv
    BY <1>4, <2>1 DEF PubInv
  <2> QED
    BY <1>1, <1>2, <1>4, <2>1, <2>2, <2>3 DEF Init, JournalTypes
<1>6. \A p \in Publishers : ~Appending(p)
  BY DEF Init, Appending, Idle
<1>7. \A n \in Mission : ~Stored(n)
  BY DEF Init, ManagerInit, Stored, Absent
<1>8. FileInv
  BY <1>6, <1>7 DEF Init, FileInv, BornInv, AloneInv, WrittenInv, FoundInv, Whole, NoTail, Appending
<1> QED
  BY <1>5, <1>8 DEF JournalInv

\* The steps, as the lemmas take them.
LEMMA JournalSteps ==
  ASSUME [Next]_vars
  PROVE  \/ \E p \in Publishers, m \in Mission : Change(p, m) \/ Accept(p, m) \/ Refuse(p, m)
         \/ \E p \in Publishers :
              Appended(p) \/ TakeSnapshot(p) \/ WriteFacts(p) \/ StartupSnapshot(p)
         \/ Crash
         \/ Restart
         \/ UNCHANGED vars
  BY DEF Next, Publication, Appended, Quiet

LEMMA JournalStep == JournalInv /\ [Next]_vars => JournalInv'
<1> SUFFICES ASSUME JournalInv, [Next]_vars
             PROVE  JournalInv'
  OBVIOUS
<1> USE DEF JournalInv
<1>1. ASSUME NEW p \in Publishers, NEW m \in Mission,
             Change(p, m) \/ Accept(p, m) \/ Refuse(p, m)
      PROVE  JournalInv'
  <2>1. PICK state \in State : Published(p, m, state)
    BY <1>1, EveryPublication DEF FileInv
  <2> QED
    BY <2>1, PublishedTypes, PublishedFile
<1>2. ASSUME NEW p \in Publishers, Appended(p)
      PROVE  JournalInv'
  BY <1>2, AppendedTypes, AppendedFile DEF FileInv
<1>3. ASSUME NEW p \in Publishers, TakeSnapshot(p) \/ WriteFacts(p) \/ StartupSnapshot(p)
      PROVE  JournalInv'
  BY <1>3, TakeSnapshotKeeps, WriteFactsKeeps, StartupSnapshotKeeps
<1>4. CASE Crash
  BY <1>4, CrashKeeps
<1>5. CASE Restart
  BY <1>5, RestartKeeps
<1>6. CASE UNCHANGED vars
  <2>1. TableInv'
    BY <1>6, TableInvStep DEF vars, JournalTypes
  <2>2. UNCHANGED <<managerVars, journalVars, latest, tail, pub, world, life, starts, changes,
                    faulty, born, behind, blurred>>
    BY <1>6 DEF vars, journalVars, historyVars
  <2>3. JournalTypes'
    BY <2>1, <2>2 DEF JournalTypes, PubInv
  <2> QED
    BY <2>2, <2>3, FileLeftAlone
<1> QED
  BY <1>1, <1>2, <1>3, <1>4, <1>5, <1>6, JournalSteps

LEMMA JournalInvHolds == Spec => []JournalInv
  BY JournalInit, JournalStep, PTL DEF Spec

\* Every variable has its type: the states read back from the file are states of a
\* mission, the projection names a mission or none, no bound is passed.
THEOREM JournalTypesCorrect == Spec => []JournalTypeOK
<1>1. JournalInv => JournalTypeOK
  <2> SUFFICES ASSUME JournalInv
               PROVE  JournalTypeOK
    OBVIOUS
  <2> USE DEF JournalInv
  <2>1. ManagerTypeOK
    BY DEF JournalTypes, TableInv
  <2>2. tail \in {NoTail, Junk} \/ tail \in [kind : {"record"}, m : Mission, state : State]
    BY DEF JournalTypes, TailRecords
  <2>3. \A p \in Publishers :
          CASE pub[p].step \in {"idle", "snapshot"} -> TRUE
            [] Appending(p) -> pub[p].m \in Mission /\ pub[p].state \in State
            [] Projecting(p) -> pub[p].view \in Views
    BY Steps DEF JournalTypes, Appending, Projecting, AppendRecords
  <2> QED
    BY <2>1, <2>2, <2>3 DEF JournalTypes, JournalTypeOK
<1> QED
  BY <1>1, JournalInvHolds, PTL

\* The table keeps what its own theorems say of it, in every life: the slot, the
\* identities and the guards are in order after any crash and restart.
THEOREM RestartsKeepTable == Spec => [](ManagerTypeOK /\ SlotInv /\ IdentityInv)
<1>1. JournalInv => ManagerTypeOK /\ SlotInv /\ IdentityInv
  BY DEF JournalInv, JournalTypes, TableInv
<1> QED
  BY <1>1, JournalInvHolds, PTL

\* A restart finds what the table holds: a mission that is not behind and has no
\* record to be appended would come back as ended as it is, or blocked if it is
\* open, and the file names no mission that nobody submitted.
THEOREM JournalCorrect == Spec => []JournalKeepsUp
<1>1. JournalInv => JournalKeepsUp
  <2> SUFFICES ASSUME JournalInv, NEW m \in Mission \ behind,
                      \A p \in Publishers : Appending(p) => pub[p].m # m
               PROVE  /\ Stored(m) => Recover(Loaded[m]) = Recover(missions[m].state)
                      /\ Loaded[m] # "UNKNOWN" => born[m] # 0
    BY DEF JournalKeepsUp
  <2>1. Stored(m) => Recover(Loaded[m]) = Recover(missions[m].state)
    BY DEF JournalInv, FileInv, FoundInv, Appends
  <2>2. Loaded[m] # "UNKNOWN" => born[m] # 0
    BY LoadedIs DEF JournalInv, FileInv, BornInv
  <2> QED
    BY <2>1, <2>2
<1> QED
  BY <1>1, JournalInvHolds, PTL

\* So a crash and a restart forge no outcome: a mission that is not behind comes back
\* with the end it had, or blocked if it had none.  If the file cannot be read, no
\* mission comes back at all.
RestartForgesNothing ==
  Restart =>
    \/ \A m \in Mission \ behind :
         Stored(m) =>
           missions'[m].state = IF missions[m].state \in Ended THEN missions[m].state ELSE "BLOCKED"
    \/ \A m \in Mission : ~Stored(m)'

THEOREM RestartCorrect == Spec => [][RestartForgesNothing]_vars
<1>1. JournalInv /\ [Next]_vars => [RestartForgesNothing]_vars
  <2> SUFFICES ASSUME JournalInv, Restart, NEW m \in Mission \ behind, Stored(m),
                      \E n \in Mission : Stored(n)'
               PROVE  missions'[m].state =
                        IF missions[m].state \in Ended THEN missions[m].state ELSE "BLOCKED"
    BY DEF RestartForgesNothing
  <2>1. \A p \in Publishers : ~Appends(p, m)
    BY DEF JournalInv, JournalTypes, PubInv, Restart, Appends, Appending, Idle
  <2>2. Recover(Loaded[m]) = Recover(missions[m].state)
    BY <2>1 DEF JournalInv, FileInv, FoundInv
  <2>3. missions'[m].state = Recover(missions[m].state)
    BY <2>2, RestartTable DEF JournalInv, Stored
  <2> QED
    BY <2>3 DEF Recover, Stored
<1> QED
  BY <1>1, JournalInvHolds, PTL DEF Spec

-----------------------------------------------------------------------------
(* No mission outlives the node that accepted it *)

LEMMA ClosedStep == JournalInv /\ RecoveredStayClosed /\ [Next]_vars => RecoveredStayClosed'
<1> SUFFICES ASSUME JournalInv, RecoveredStayClosed, [Next]_vars
             PROVE  RecoveredStayClosed'
  OBVIOUS
<1> USE DEF JournalInv
<1>1. ASSUME UNCHANGED <<missions, born, life>>
      PROVE  RecoveredStayClosed'
  BY <1>1 DEF RecoveredStayClosed, Open, Stored
<1>2. ASSUME NEW p \in Publishers, NEW m \in Mission,
             Change(p, m) \/ Accept(p, m) \/ Refuse(p, m)
      PROVE  RecoveredStayClosed'
  <2>1. PICK state \in State : Published(p, m, state)
    BY <1>2, EveryPublication DEF FileInv
  <2>2. \A n \in Mission \ {m} : Unaffected(n)
    BY <2>1 DEF Published
  <2>3. life' = life /\ life # 0 /\ born \in [Mission -> 0 .. MaxLives]
    BY <2>1 DEF Published, Publishes, JournalTypes
  <2>4. \/ born' = born /\ Open(m)
        \/ born' = [born EXCEPT ![m] = life]
    BY <2>1 DEF Published
  <2>5. \A n \in Mission \ {m} : born'[n] = born[n]
    BY <2>3, <2>4
  <2>6. born'[m] = life
    BY <2>3, <2>4 DEF RecoveredStayClosed
  <2> QED
    BY <2>2, <2>3, <2>5, <2>6 DEF RecoveredStayClosed, Unaffected
<1>3. ASSUME NEW p \in Publishers, Appended(p)
      PROVE  RecoveredStayClosed'
  BY <1>1, <1>3, AppendMovesOn DEF managerVars
<1>4. ASSUME NEW p \in Publishers, TakeSnapshot(p) \/ WriteFacts(p) \/ StartupSnapshot(p)
      PROVE  RecoveredStayClosed'
  BY <1>1, <1>4 DEF TakeSnapshot, WriteFacts, StartupSnapshot, managerVars, historyVars
<1>5. CASE Crash
  BY <1>5 DEF Crash, RecoveredStayClosed
<1>6. CASE Restart
  <2>1. \A n \in Mission : missions'[n].state \in Ended \cup {"UNKNOWN"}
    BY <1>6, RestartTable
  <2> QED
    BY <2>1 DEF RecoveredStayClosed, Open, Stored
<1>7. CASE UNCHANGED vars
  BY <1>1, <1>7 DEF vars, managerVars, historyVars
<1> QED
  BY <1>2, <1>3, <1>4, <1>5, <1>6, <1>7, JournalSteps

\* Whatever the journal holds, a restarted node has no open mission but those that
\* were submitted to it since: none that it would plan, run or resume.
THEOREM RecoveredCorrect == Spec => []RecoveredStayClosed
<1>1. Init => RecoveredStayClosed
  BY DEF Init, ManagerInit, RecoveredStayClosed, Open, Stored, Absent
<1> QED
  BY <1>1, JournalInvHolds, ClosedStep, PTL DEF Spec

-----------------------------------------------------------------------------
(* What others read of the missions *)

\* A projection of the table as it is now is still to be taken.
Pending == \E p \in Publishers : Appending(p) \/ pub[p] = Snapshot

\* The projection under way, or else the one written, is that of the table, unless
\* another one is still to be taken.
ViewInv ==
  life # 0 /\ ~blurred =>
    /\ \A p, q \in Publishers : Projecting(p) /\ Projecting(q) => p = q
    /\ ~Pending =>
         /\ \A p \in Publishers : Projecting(p) => pub[p].view = Projection(missions)
         /\ (\A p \in Publishers : ~Projecting(p)) => world = Projection(missions)

\* A step that leaves a projection to be taken need not say what is in those there
\* are.
LEMMA StillPending ==
  ASSUME ViewInv, Pending', UNCHANGED <<life, blurred>>,
         \A q \in Publishers : Projecting(q)' => Projecting(q)
  PROVE  ViewInv'
  BY DEF ViewInv

LEMMA ViewStep == JournalInv /\ ViewInv /\ [Next]_vars => ViewInv'
<1> SUFFICES ASSUME JournalInv, ViewInv, [Next]_vars
             PROVE  ViewInv'
  OBVIOUS
<1> USE DEF JournalInv
<1>1. ASSUME NEW p \in Publishers, NEW m \in Mission,
             Change(p, m) \/ Accept(p, m) \/ Refuse(p, m)
      PROVE  ViewInv'
  <2>1. PICK state \in State : Published(p, m, state)
    BY <1>1, EveryPublication DEF FileInv
  <2>2. /\ pub'[p].step = "append"
        /\ \A q \in Publishers \ {p} : pub'[q].step = pub[q].step
    BY <2>1, PublicationsAfter DEF Published
  <2>3. Pending' /\ \A q \in Publishers : Projecting(q)' => Projecting(q)
    BY <2>2 DEF Pending, Appending, Projecting
  <2> QED
    BY <2>1, <2>3, StillPending DEF Published, Publishes
<1>2. ASSUME NEW p \in Publishers, Appended(p)
      PROVE  ViewInv'
  <2>1. /\ pub'[p] = Snapshot \/ pub'[p].step = "newline"
        /\ \A q \in Publishers \ {p} : pub'[q] = pub[q]
        /\ UNCHANGED <<life, blurred>>
    BY <1>2, AppendMovesOn
  <2>2. Pending' /\ \A q \in Publishers : Projecting(q)' => Projecting(q)
    BY <2>1 DEF Pending, Appending, Projecting, Snapshot
  <2> QED
    BY <2>1, <2>2, StillPending
<1>3. ASSUME NEW p \in Publishers, TakeSnapshot(p)
      PROVE  ViewInv'
  <2> DEFINE new == [step |-> "project", view |-> Projection(missions)]
  <2>1. pub' = [pub EXCEPT ![p] = new] /\ missions' = missions
          /\ blurred' = (\E q \in Publishers : Projecting(q))
    BY <1>3 DEF TakeSnapshot, Step, managerVars
  <2>2. pub'[p] = new /\ new.step = "project" /\ new.view = Projection(missions)
          /\ \A q \in Publishers \ {p} : pub'[q] = pub[q]
    BY <2>1 DEF JournalTypes, PubInv
  <2> HIDE DEF new
  <2>3. ~blurred' => \A q \in Publishers : Projecting(q)' => q = p
    BY <2>1, <2>2 DEF Projecting
  <2>4. Projecting(p)' /\ pub'[p].view = Projection(missions')
    BY <2>1, <2>2 DEF Projecting
  <2> QED
    BY <2>3, <2>4 DEF ViewInv
<1>4. ASSUME NEW p \in Publishers, WriteFacts(p)
      PROVE  ViewInv'
  <2>1. pub' = [pub EXCEPT ![p] = Idle] /\ Projecting(p) /\ missions' = missions /\ life' = life
          /\ life # 0
    BY <1>4 DEF WriteFacts, Step, managerVars
  <2>2. pub'[p] = Idle /\ \A q \in Publishers \ {p} : pub'[q] = pub[q]
    BY <2>1 DEF JournalTypes, PubInv
  <2>3. PICK written \in SUBSET {"active", "index"} :
          /\ world' = [f \in DOMAIN world |-> IF f \in written THEN pub[p].view[f] ELSE world[f]]
          /\ blurred' = (blurred \/ written # {"active", "index"})
    BY <1>4 DEF WriteFacts
  <2>4. CASE blurred'
    BY <2>4 DEF ViewInv
  <2>5. CASE ~blurred'
    <3>1. ~blurred /\ written = {"active", "index"}
      BY <2>3, <2>5
    <3>2. world' = pub[p].view
      <4>1. pub[p].view \in Views /\ world \in Views
        BY <2>1, Steps DEF JournalTypes
      <4>2. /\ DOMAIN world = {"active", "index"}
            /\ pub[p].view = [f \in {"active", "index"} |-> pub[p].view[f]]
        BY <4>1 DEF Views
      <4> QED
        BY <2>3, <3>1, <4>2
    <3>3. \A q \in Publishers : ~Projecting(q)'
      BY <2>1, <2>2, <3>1 DEF ViewInv, Projecting, Idle
    <3>4. Pending => Pending'
      BY <2>1, <2>2 DEF Pending, Appending, Projecting, Snapshot
    <3>5. ~Pending' => world' = Projection(missions')
      BY <2>1, <3>1, <3>2, <3>4 DEF ViewInv
    <3> QED
      BY <3>3, <3>5 DEF ViewInv
  <2> QED
    BY <2>4, <2>5
<1>5. ASSUME NEW p \in Publishers, StartupSnapshot(p)
      PROVE  ViewInv'
  <2>1. pub[p] = Idle /\ UNCHANGED <<missions, world, life, blurred>>
    BY <1>5 DEF StartupSnapshot, managerVars, historyVars
  <2>2. CASE pub' = pub
    BY <2>1, <2>2 DEF ViewInv, Pending, Appending, Projecting
  <2>3. CASE pub' = [pub EXCEPT ![p] = Snapshot]
    <3>1. pub'[p] = Snapshot /\ \A q \in Publishers \ {p} : pub'[q] = pub[q]
      BY <2>3 DEF JournalTypes, PubInv
    <3>2. Pending' /\ \A q \in Publishers : Projecting(q)' => Projecting(q)
      BY <3>1 DEF Pending, Projecting, Snapshot
    <3> QED
      BY <2>1, <3>2, StillPending
  <2> QED
    BY <1>5, <2>2, <2>3 DEF StartupSnapshot
<1>6. CASE Crash
  BY <1>6 DEF Crash, ViewInv
<1>7. CASE Restart
  BY <1>7 DEF Restart, ViewInv
<1>8. CASE UNCHANGED vars
  BY <1>8 DEF vars, managerVars, historyVars, ViewInv, Pending, Appending, Projecting
<1> QED
  BY <1>1, <1>2, <1>3, <1>4, <1>5, <1>6, <1>7, <1>8, JournalSteps

\* The facts others read are the table's once everything is published, provided the
\* last projection was taken while no other was being written and was not refused:
\* every change is followed by a projection that is taken after it.
THEOREM ProjectionCorrect == Spec => []ProjectionCurrent
<1>1. Init => ViewInv
  BY DEF Init, ViewInv, Projecting, Idle
<1>2. ViewInv => ProjectionCurrent
  BY DEF ViewInv, ProjectionCurrent, Pending, Appending, Projecting, Idle, Snapshot
<1> QED
  BY <1>1, <1>2, JournalInvHolds, ViewStep, PTL DEF Spec

=============================================================================
