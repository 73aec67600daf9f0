-------------------------- MODULE BtExecutor_proofs --------------------------
(***************************************************************************)
(* What one run of the executor promises, for every accepted tree, of any  *)
(* size and shape, and whatever its leaves answer.  A step is one of a few *)
(* moves (a node returns, calls kids, turns to its service, is joined or   *)
(* raises, or nothing moves), and the invariants are shown of the moves:   *)
(* who waits for whom first (ChainInv), and from it that failures which    *)
(* are final surface, orphans are canceled, a resolution is alone, threads *)
(* do not conflict, success is earned and no name of a fact is lost.  That *)
(* no run starts more than the policy counted is shown by counting         *)
(* activations (BudgetInv).                                                *)
(***************************************************************************)
EXTENDS BtExecutor, PlanGate_proofs

-----------------------------------------------------------------------------
(* Nodes and their kids *)

PlanInv == Tree(tree) /\ Valid(tree) /\ Nodes \subseteq 1 .. MaxNodes

\* What the pc of a node says of the node.
PcInv ==
  \A n \in Nodes :
    /\ pc[n] \in {"run", "resolving"} => Leaf(n)
    /\ pc[n] = "waiting" => ~Leaf(n)
    /\ pc[n] = "resolving" => Inline(n)

TypeInv == PlanInv /\ ExecutorTypeOK /\ PcInv

Alive(n) == pc[n] \in {"called", "run", "waiting", "resolving"}

\* A branch has kids, and the ones it calls are among them.
LEMMA BranchHasKids ==
  ASSUME PlanInv, NEW n \in Nodes, ~Leaf(n)
  PROVE  /\ Len(tree[n].kids) \in Nat \ {0}
         /\ Rounds(n) \in Nat \ {0}
         /\ \A i \in 1 .. Len(tree[n].kids) : tree[n].kids[i] \in Kids(tree, n)
         /\ tree[n].type \in {"Retry", "Timeout"} => Kids(tree, n) = {tree[n].kids[1]}
         /\ Kids(tree, n) \subseteq Nodes \ {1}
<1>1. tree[n].kids \in Seq({k \in Nodes : n < k}) /\ NodeValid(tree[n])
  BY DEF PlanInv, Tree, WellFormed, Valid, Nodes
<1>2. tree[n].type \in BranchTypes
  BY <1>1 DEF NodeValid, Leaf
<1>3. tree[n].kids # <<>>
  BY <1>1, <1>2 DEF NodeValid
<1>4. Len(tree[n].kids) \in Nat \ {0} /\ DOMAIN tree[n].kids = 1 .. Len(tree[n].kids)
  BY <1>1, <1>3
<1>5. Rounds(n) \in Nat \ {0}
  BY <1>1, <1>4 DEF NodeValid, Rounds
<1>6. \A i \in 1 .. Len(tree[n].kids) : tree[n].kids[i] \in Kids(tree, n)
  BY <1>4 DEF Kids, ToSet
<1>7. ASSUME tree[n].type \in {"Retry", "Timeout"}
      PROVE  Kids(tree, n) = {tree[n].kids[1]}
  <2>1. Len(tree[n].kids) = 1
    BY <1>1, <1>7 DEF NodeValid
  <2> QED
    BY <1>4, <2>1 DEF Kids, ToSet
<1>8. Kids(tree, n) \subseteq Nodes \ {1}
  BY KidsBelow DEF PlanInv, Nodes
<1> QED
  BY <1>4, <1>5, <1>6, <1>7, <1>8

\* The kid a branch waits for is one of its own.
LEMMA KidIsKid ==
  ASSUME TypeInv, NEW n \in Nodes, pc[n] = "waiting"
  PROVE  Kid(n) \in Kids(tree, n) /\ Kid(n) \in Nodes \ {1} /\ ~Leaf(n)
<1>1. ~Leaf(n) /\ step[n] \in Nat \ {0} /\ step[n] <= Rounds(n)
  BY DEF TypeInv, PcInv, ExecutorTypeOK
<1>2. PlanInv
  BY DEF TypeInv
<1>3. tree[n].type # "Retry" => step[n] \in 1 .. Len(tree[n].kids)
  BY <1>1, <1>2, BranchHasKids DEF Rounds
<1>4. Kid(n) \in Kids(tree, n)
  BY <1>1, <1>2, <1>3, BranchHasKids DEF Kid
<1> QED
  BY <1>1, <1>2, <1>4, BranchHasKids

Sound(r) == r \in Results /\ ~(r.success /\ r.blocked)

LEMMA PlainResults ==
  ASSUME NEW facts \in SUBSET Nodes
  PROVE  Sound(Ok(facts)) /\ Sound(Fail(facts)) /\ Sound(Blocked(facts)) /\ Sound(Undecided(facts))
BY DEF Sound, Ok, Fail, Blocked, Undecided, Result, Results

\* The names of the facts in a dict.
Names(facts) == {FactKey(n) : n \in facts}

\* A dict that is updated with others has the entries of all of them, by name: of
\* those with one name, it has the one of the last dict.
LEMMA UpdatedNames ==
  ASSUME NEW dicts, DOMAIN dicts = 1 .. Len(dicts), Len(dicts) \in Nat
  PROVE  /\ Updated(dicts) \subseteq UNION {dicts[i] : i \in 1 .. Len(dicts)}
         /\ \A i \in 1 .. Len(dicts) : Names(dicts[i]) \subseteq Names(Updated(dicts))
<1>1. Updated(dicts) \subseteq UNION {dicts[i] : i \in 1 .. Len(dicts)}
  BY DEF Updated
<1>2. ASSUME NEW i \in 1 .. Len(dicts), NEW n \in dicts[i]
      PROVE  FactKey(n) \in Names(Updated(dicts))
  <2> DEFINE Has(j) == \E m \in dicts[j] : FactKey(m) = FactKey(n)
             L == Len(dicts)
             S == {d \in Nat : d < L /\ Has(L - d)}
  <2>1. i \in Nat /\ i >= 1 /\ i <= L /\ L \in Nat /\ Has(i)
    BY <1>2
  <2> HIDE DEF Has, L
  <2>2. L - i \in Nat /\ L - i < L /\ L - (L - i) = i
    BY <2>1
  <2>3. L - i \in S
    BY <2>1, <2>2
  <2>4. PICK d \in S : \A e \in S : d <= e
    BY <2>3, LeastExists
  <2> DEFINE j == L - d
  <2>5. j \in 1 .. L /\ Has(j)
    BY <2>1, <2>4
  <2>6. \A k \in (j + 1) .. L : ~Has(k)
    <3>1. ASSUME NEW k \in (j + 1) .. L, Has(k)  PROVE FALSE
      <4>1. L - k \in Nat /\ L - k < L /\ L - (L - k) = k /\ L - k < d
        BY <2>1, <2>4, <2>5
      <4>2. L - k \in S
        BY <3>1, <4>1
      <4> QED
        BY <2>4, <4>1, <4>2
    <3> QED
      BY <3>1
  <2> HIDE DEF j
  <2>7. PICK m \in dicts[j] : FactKey(m) = FactKey(n)
    BY <2>5 DEF Has
  <2>8. m \in Updated(dicts)
    BY <2>5, <2>6, <2>7 DEF Updated, Has, L
  <2> QED
    BY <2>7, <2>8 DEF Names
<1> QED
  BY <1>1, <1>2 DEF Names

LEMMA UpdatedPair ==
  ASSUME NEW f, NEW g
  PROVE  /\ Updated(<<f, g>>) \subseteq f \cup g
         /\ Names(f) \subseteq Names(Updated(<<f, g>>)) /\ Names(g) \subseteq Names(Updated(<<f, g>>))
<1> DEFINE dicts == <<f, g>>
<1>1. DOMAIN dicts = 1 .. Len(dicts) /\ Len(dicts) = 2 /\ dicts[1] = f /\ dicts[2] = g
  OBVIOUS
<1> HIDE DEF dicts
<1>2. 1 \in 1 .. Len(dicts) /\ 2 \in 1 .. Len(dicts) /\ \A i \in 1 .. Len(dicts) : i = 1 \/ i = 2
  BY <1>1
<1>3. Len(dicts) \in Nat
  BY <1>1
<1>4. /\ Updated(dicts) \subseteq UNION {dicts[i] : i \in 1 .. Len(dicts)}
      /\ \A i \in 1 .. Len(dicts) : Names(dicts[i]) \subseteq Names(Updated(dicts))
  BY <1>1, <1>3, UpdatedNames, Zenon
<1>5. Updated(dicts) \subseteq f \cup g
  BY <1>1, <1>2, <1>4
<1> QED
  BY <1>1, <1>2, <1>4, <1>5 DEF dicts

LEMMA AnswerResults ==
  ASSUME NEW facts \in SUBSET Nodes, NEW n \in Nodes, NEW state \in Tri
  PROVE  Sound(CheckResult(state, facts)) /\ Sound(VisualResult(n, state, facts))
<1>1. Sound(CheckResult(state, facts))
  BY PlainResults DEF CheckResult, Tri
<1>2. Updated(<<facts, {n}>>) \in SUBSET Nodes
  BY UpdatedPair
<1> QED
  BY <1>1, <1>2, PlainResults DEF VisualResult

LEMMA FactsOfResult ==
  ASSUME NEW r, Sound(r), NEW facts \in SUBSET Nodes
  PROVE  /\ [r EXCEPT !.facts = facts].facts = facts
         /\ [r EXCEPT !.facts = facts].success = r.success
         /\ [r EXCEPT !.facts = facts].blocked = r.blocked
         /\ Sound([r EXCEPT !.facts = facts])
BY DEF Sound, Results

-----------------------------------------------------------------------------
(* The moves *)

Serial(n) == tree[n].type \in {"Sequence", "Fallback", "Retry"}

\* What a branch that goes from kid to kid makes of the last one.
Concludes(n, r) ==
  /\ Serial(n) /\ pc[n] = "waiting" /\ pc[Kid(n)] = "done"
  /\ result[Kid(n)].blocked => r.blocked
  /\ r.success => result[Kid(n)].success /\ (tree[n].type = "Sequence" => step[n] = Len(tree[n].kids))
  /\ r.facts = Merged(n)

\* What a Parallel makes of its threads.
JoinsThreads(n, r) ==
  /\ tree[n].type = "Parallel" /\ pc[n] = "waiting"
  /\ \A k \in Kids(tree, n) :
       \/ pc[k] = "raised" /\ r.blocked
       \/ /\ pc[k] = "joined" /\ Names(result[k].facts) \subseteq Names(r.facts)
          /\ result[k].blocked => r.blocked
          /\ r.success => result[k].success
  /\ Names(board[n]) \subseteq Names(r.facts)

\* What a Timeout makes of its child, or of its deadline.
TakesOver(n, r) ==
  /\ tree[n].type = "Timeout" /\ pc[n] = "waiting"
  /\ \/ pc[Kid(n)] = "done" /\ r = result[Kid(n)]
     \/ pc[Kid(n)] = "raised" /\ r.blocked
     \/ r.blocked /\ n \in events'

\* A leaf, a branch or a node refused after the cancel returns.
Returns(n, r) ==
  /\ Sound(r) /\ Return(n, r) /\ UNCHANGED <<step, board>>
  /\ \/ pc[n] = "called" /\ r = Fail({})
     \/ Leaf(n) /\ pc[n] \in {"run", "resolving"}
     \/ Concludes(n, r) \/ JoinsThreads(n, r) \/ TakesOver(n, r)

\* A branch calls its first kid, or each of its threads.
Opens(n) ==
  /\ pc[n] = "called" /\ ~Leaf(n)
  /\ Call(n, IF tree[n].type = "Parallel" THEN Kids(tree, n) ELSE {tree[n].kids[1]}, board[n])
  /\ step' = [step EXCEPT ![n] = 1]
  /\ UNCHANGED result

\* A branch calls the next kid, or the same one again.
GoesOn(n) ==
  /\ Serial(n) /\ pc[n] = "waiting" /\ pc[Kid(n)] = "done"
  /\ ~result[Kid(n)].blocked
  /\ tree[n].type = "Sequence" => result[Kid(n)].success
  /\ step[n] < Rounds(n)
  /\ Proceed(n)

\* A leaf turns to its skill or check, or to the operator.
Turns(n, q) ==
  /\ Leaf(n) /\ q \in {"run", "resolving"} /\ (q = "resolving" => Inline(n))
  /\ \/ pc[n] = "called" \/ pc[n] \in {"run", "resolving"}
  /\ pc' = [pc EXCEPT ![n] = q]
  /\ UNCHANGED <<step, board, result>>

IsJoined(n) ==
  /\ pc[n] = "done" /\ n # 1 /\ pc' = [pc EXCEPT ![n] = "joined"]
  /\ UNCHANGED <<step, board, result>>

Raises(n) ==
  /\ pc[n] \in {"run", "resolving"}
  /\ pc' = [m \in Nodes |-> IF m \in Frames(n) THEN "raised" ELSE pc[m]]
  /\ UNCHANGED <<step, board, result>>

Rests == UNCHANGED <<pc, step, board, result>>

\* No event is withdrawn but that of a branch that starts.
EventsStay == \A n \in Nodes : n \in events /\ pc[n] # "called" => n \in events'

Moves ==
  /\ UNCHANGED plan /\ EventsStay
  /\ \/ \E n \in Nodes :
          \/ \E r \in Results : Returns(n, r)
          \/ Opens(n) \/ GoesOn(n) \/ IsJoined(n) \/ Raises(n)
          \/ \E q \in {"run", "resolving"} : Turns(n, q)
     \/ Rests

LEMMA MergedFacts ==
  ASSUME TypeInv, NEW n \in Nodes, pc[n] = "waiting"
  PROVE  Merged(n) \in SUBSET Nodes /\ Sound(result[Kid(n)]) /\ board[n] \in SUBSET Nodes
<1>1. Kid(n) \in Nodes
  BY KidIsKid
<1> QED
  <2>1. board[n] \in SUBSET Nodes /\ Sound(result[Kid(n)]) /\ result[Kid(n)].facts \in SUBSET Nodes
    BY <1>1 DEF TypeInv, ExecutorTypeOK, Results, Sound
  <2>2. Merged(n) \subseteq board[n] \cup result[Kid(n)].facts
    BY UpdatedPair, Zenon DEF Merged
  <2> QED
    BY <2>1, <2>2

LEMMA SequenceMoves ==
  ASSUME TypeInv, NEW n \in Nodes, SequenceSteps(n)
  PROVE  Moves
<1> DEFINE r == result[Kid(n)]
<1>1. pc[n] = "waiting" /\ pc[Kid(n)] = "done" /\ tree[n].type = "Sequence"
  BY DEF SequenceSteps, KidIsDone
<1>2. Merged(n) \in SUBSET Nodes /\ Sound(r)
  BY <1>1, MergedFacts
<1>3. UNCHANGED plan /\ EventsStay
  BY DEF SequenceSteps, EventsStay
<1> HIDE DEF r
<1>4. \/ ~r.success /\ Conclude(n, [r EXCEPT !.facts = Merged(n)])
      \/ r.success /\ step[n] = Len(tree[n].kids) /\ Conclude(n, Ok(Merged(n)))
      \/ r.success /\ step[n] < Len(tree[n].kids) /\ Proceed(n)
  BY DEF SequenceSteps, r
<1>5. CASE ~r.success /\ Conclude(n, [r EXCEPT !.facts = Merged(n)])
  <2> DEFINE q == [r EXCEPT !.facts = Merged(n)]
  <2>1. Sound(q) /\ q.facts = Merged(n) /\ q.success = r.success /\ q.blocked = r.blocked
    BY <1>2, FactsOfResult
  <2> HIDE DEF q
  <2>2. Conclude(n, q)
    BY <1>5 DEF q
  <2>3. Returns(n, q) /\ q \in Results
    BY <1>1, <1>5, <2>1, <2>2 DEF Returns, Concludes, Conclude, Serial, r, Sound
  <2> QED
    BY <1>3, <2>3 DEF Moves
<1>6. CASE r.success /\ step[n] = Len(tree[n].kids) /\ Conclude(n, Ok(Merged(n)))
  <2> DEFINE q == Ok(Merged(n))
  <2>1. Sound(q) /\ q.facts = Merged(n) /\ q.success /\ ~q.blocked
    BY <1>2, PlainResults DEF Ok, Result
  <2>2. ~r.blocked
    BY <1>2, <1>6 DEF Sound
  <2> HIDE DEF q
  <2>3. Conclude(n, q)
    BY <1>6 DEF q
  <2>4. Returns(n, q) /\ q \in Results
    BY <1>1, <1>6, <2>1, <2>2, <2>3 DEF Returns, Concludes, Conclude, Serial, r, Sound
  <2> QED
    BY <1>3, <2>4 DEF Moves
<1>7. CASE r.success /\ step[n] < Len(tree[n].kids) /\ Proceed(n)
  <2>1. ~r.blocked
    BY <1>2, <1>7 DEF Sound
  <2>2. GoesOn(n)
    BY <1>1, <1>7, <2>1 DEF GoesOn, Serial, Rounds, r
  <2> QED
    BY <1>3, <2>2 DEF Moves
<1> QED
  BY <1>4, <1>5, <1>6, <1>7

LEMMA FallbackMoves ==
  ASSUME TypeInv, NEW n \in Nodes, FallbackSteps(n)
  PROVE  Moves
<1> DEFINE r == result[Kid(n)]
<1>1. pc[n] = "waiting" /\ pc[Kid(n)] = "done" /\ tree[n].type = "Fallback"
  BY DEF FallbackSteps, KidIsDone
<1>2. Merged(n) \in SUBSET Nodes /\ Sound(r)
  BY <1>1, MergedFacts
<1>3. UNCHANGED plan /\ EventsStay
  BY DEF FallbackSteps, EventsStay
<1> HIDE DEF r
<1>4. \/ (r.blocked \/ r.success) /\ Conclude(n, [r EXCEPT !.facts = Merged(n)])
      \/ ~r.blocked /\ ~r.success /\ step[n] = Len(tree[n].kids) /\ Conclude(n, Fail(Merged(n)))
      \/ ~r.blocked /\ ~r.success /\ step[n] < Len(tree[n].kids) /\ Proceed(n)
  BY DEF FallbackSteps, r
<1>5. CASE (r.blocked \/ r.success) /\ Conclude(n, [r EXCEPT !.facts = Merged(n)])
  <2> DEFINE q == [r EXCEPT !.facts = Merged(n)]
  <2>1. Sound(q) /\ q.facts = Merged(n) /\ q.success = r.success /\ q.blocked = r.blocked
    BY <1>2, FactsOfResult
  <2> HIDE DEF q
  <2>2. Conclude(n, q)
    BY <1>5 DEF q
  <2>3. Returns(n, q) /\ q \in Results
    BY <1>1, <1>5, <2>1, <2>2 DEF Returns, Concludes, Conclude, Serial, r, Sound
  <2> QED
    BY <1>3, <2>3 DEF Moves
<1>6. CASE ~r.blocked /\ ~r.success /\ step[n] = Len(tree[n].kids) /\ Conclude(n, Fail(Merged(n)))
  <2> DEFINE q == Fail(Merged(n))
  <2>1. Sound(q) /\ q.facts = Merged(n) /\ ~q.success /\ ~q.blocked
    BY <1>2, PlainResults DEF Fail, Result
  <2> HIDE DEF q
  <2>2. Conclude(n, q)
    BY <1>6 DEF q
  <2>3. Returns(n, q) /\ q \in Results
    BY <1>1, <1>6, <2>1, <2>2 DEF Returns, Concludes, Conclude, Serial, r, Sound
  <2> QED
    BY <1>3, <2>3 DEF Moves
<1>7. CASE ~r.blocked /\ ~r.success /\ step[n] < Len(tree[n].kids) /\ Proceed(n)
  <2>1. GoesOn(n)
    BY <1>1, <1>7 DEF GoesOn, Serial, Rounds, r
  <2> QED
    BY <1>3, <2>1 DEF Moves
<1> QED
  BY <1>4, <1>5, <1>6, <1>7

LEMMA RetryMoves ==
  ASSUME TypeInv, NEW n \in Nodes, RetrySteps(n)
  PROVE  Moves
<1> DEFINE r == result[Kid(n)]
<1>1. pc[n] = "waiting" /\ pc[Kid(n)] = "done" /\ tree[n].type = "Retry"
  BY DEF RetrySteps, KidIsDone
<1>2. Merged(n) \in SUBSET Nodes /\ Sound(r)
  BY <1>1, MergedFacts
<1>3. UNCHANGED plan /\ EventsStay
  BY DEF RetrySteps, EventsStay
<1> HIDE DEF r
<1>4. \/ (r.blocked \/ r.success) /\ Conclude(n, [r EXCEPT !.facts = Merged(n)])
      \/ ~r.blocked /\ ~r.success /\ Conclude(n, Fail(Merged(n)))
      \/ ~r.blocked /\ step[n] < tree[n].attempts /\ Proceed(n)
  BY DEF RetrySteps, r
<1>5. CASE (r.blocked \/ r.success) /\ Conclude(n, [r EXCEPT !.facts = Merged(n)])
  <2> DEFINE q == [r EXCEPT !.facts = Merged(n)]
  <2>1. Sound(q) /\ q.facts = Merged(n) /\ q.success = r.success /\ q.blocked = r.blocked
    BY <1>2, FactsOfResult
  <2> HIDE DEF q
  <2>2. Conclude(n, q)
    BY <1>5 DEF q
  <2>3. Returns(n, q) /\ q \in Results
    BY <1>1, <1>5, <2>1, <2>2 DEF Returns, Concludes, Conclude, Serial, r, Sound
  <2> QED
    BY <1>3, <2>3 DEF Moves
<1>6. CASE ~r.blocked /\ ~r.success /\ Conclude(n, Fail(Merged(n)))
  <2> DEFINE q == Fail(Merged(n))
  <2>1. Sound(q) /\ q.facts = Merged(n) /\ ~q.success /\ ~q.blocked
    BY <1>2, PlainResults DEF Fail, Result
  <2> HIDE DEF q
  <2>2. Conclude(n, q)
    BY <1>6 DEF q
  <2>3. Returns(n, q) /\ q \in Results
    BY <1>1, <1>6, <2>1, <2>2 DEF Returns, Concludes, Conclude, Serial, r, Sound
  <2> QED
    BY <1>3, <2>3 DEF Moves
<1>7. CASE ~r.blocked /\ step[n] < tree[n].attempts /\ Proceed(n)
  <2>1. GoesOn(n)
    BY <1>1, <1>7 DEF GoesOn, Serial, Rounds, r
  <2> QED
    BY <1>3, <2>1 DEF Moves
<1> QED
  BY <1>4, <1>5, <1>6, <1>7

LEMMA JoinMoves ==
  ASSUME TypeInv, NEW n \in Nodes, Join(n)
  PROVE  Moves
<1> DEFINE Of(k) == IF pc[k] = "raised" THEN Blocked({}) ELSE result[k]
           failures == {r \in {Of(k) : k \in Kids(tree, n)} : ~r.success}
           dicts == <<board[n]>> \o [i \in DOMAIN tree[n].kids |-> Of(tree[n].kids[i]).facts]
           q == Result(failures = {}, \E r \in failures : r.blocked,
                       \E r \in failures : r.needs_decision, Updated(dicts))
<1>1. tree[n].type = "Parallel" /\ pc[n] = "waiting" /\ ~Leaf(n)
  BY DEF Join, Leaf, LeafTypes
<1>2. \A k \in Kids(tree, n) : pc[k] \in {"joined", "raised"} /\ k \in Nodes
  BY <1>1, BranchHasKids DEF Join, TypeInv
<1>3. Return(n, q) /\ UNCHANGED <<step, board>>
  BY DEF Join
<1>4. UNCHANGED plan /\ EventsStay
  BY DEF Join, EventsStay
<1>5. \A k \in Kids(tree, n) : Sound(Of(k)) /\ Of(k).facts \in SUBSET Nodes
  BY <1>2, PlainResults DEF TypeInv, ExecutorTypeOK, Sound, Results
<1>6. board[n] \in SUBSET Nodes
  BY DEF TypeInv, ExecutorTypeOK
<1>7. /\ Len(tree[n].kids) \in Nat /\ DOMAIN tree[n].kids = 1 .. Len(tree[n].kids)
      /\ \A i \in 1 .. Len(tree[n].kids) : tree[n].kids[i] \in Kids(tree, n)
  <2>1. tree[n].kids \in Seq({k \in Nodes : n < k})
    BY DEF TypeInv, PlanInv, Tree, WellFormed, Nodes
  <2> QED
    BY <1>1, <2>1, BranchHasKids DEF TypeInv
<1> HIDE DEF Of
<1>8. /\ DOMAIN dicts = 1 .. Len(dicts) /\ Len(dicts) = Len(tree[n].kids) + 1
      /\ dicts[1] = board[n]
      /\ \A i \in 1 .. Len(tree[n].kids) : dicts[i + 1] = Of(tree[n].kids[i]).facts
  <2> DEFINE L == Len(tree[n].kids)
             tail == [i \in 1 .. L |-> Of(tree[n].kids[i]).facts]
  <2>1. L \in Nat /\ DOMAIN tree[n].kids = 1 .. L
    BY <1>7
  <2>2. \A i \in 1 .. L : tail[i] \in SUBSET Nodes /\ tail[i] = Of(tree[n].kids[i]).facts
    BY <1>5, <1>7
  <2>3. DOMAIN tail = 1 .. L /\ tail = [i \in 1 .. L |-> tail[i]]
    OBVIOUS
  <2>4. L = Len(tree[n].kids) /\ dicts = <<board[n]>> \o tail
    BY <2>1
  <2> HIDE DEF tail, L, dicts
  <2>5. tail \in [1 .. L -> SUBSET Nodes]
    BY <2>2, <2>3
  <2>6. tail \in Seq(SUBSET Nodes) /\ Len(tail) = L
    BY <2>1, <2>5
  <2>7. <<board[n]>> \in Seq(SUBSET Nodes) /\ Len(<<board[n]>>) = 1
    BY <1>6
  <2>8. Len(dicts) = L + 1 /\ DOMAIN dicts = 1 .. Len(dicts) /\ dicts[1] = board[n]
        /\ \A i \in 1 .. L : dicts[i + 1] = tail[i]
    BY <1>6, <2>1, <2>6, <2>4, <2>7
  <2> QED
    BY <2>2, <2>8, <2>4
<1> HIDE DEF dicts
<1>9. Len(dicts) \in Nat /\ Len(tree[n].kids) \in Nat
  BY <1>7, <1>8
<1>10. /\ Updated(dicts) \subseteq UNION {dicts[i] : i \in 1 .. Len(dicts)}
       /\ \A i \in 1 .. Len(dicts) : Names(dicts[i]) \subseteq Names(Updated(dicts))
  BY <1>8, <1>9, UpdatedNames, Zenon
<1>11. \A i \in 1 .. Len(dicts) : dicts[i] \in SUBSET Nodes
  <2>1. ASSUME NEW i \in 1 .. Len(dicts), i # 1
        PROVE  i - 1 \in 1 .. Len(tree[n].kids) /\ (i - 1) + 1 = i
    BY <1>8, <1>9, <2>1
  <2> QED
    BY <1>5, <1>6, <1>7, <1>8, <2>1
<1>12. q.facts = Updated(dicts) /\ q.success = (failures = {}) /\ q.blocked = (\E r \in failures : r.blocked)
  BY DEF Result
<1>13. Sound(q)
  <2>1. Updated(dicts) \in SUBSET Nodes
    BY <1>10, <1>11
  <2> QED
    BY <1>5, <1>12, <2>1 DEF Sound, Results, Result
<1>14. \A k \in Kids(tree, n) : /\ Of(k).blocked => q.blocked
                                /\ q.success => Of(k).success
  BY <1>5, <1>12 DEF Sound
<1>15. Names(board[n]) \subseteq Names(q.facts)
  <2>1. 1 \in 1 .. Len(dicts) /\ dicts[1] = board[n]
    BY <1>8, <1>9
  <2> HIDE DEF q
  <2> QED
    BY <1>10, <1>12, <2>1
<1>16. \A k \in Kids(tree, n) : Names(Of(k).facts) \subseteq Names(q.facts)
  <2> SUFFICES ASSUME NEW k \in Kids(tree, n)
               PROVE  Names(Of(k).facts) \subseteq Names(q.facts)
    OBVIOUS
  <2>1. PICK i \in 1 .. Len(tree[n].kids) : tree[n].kids[i] = k
    BY <1>7 DEF Kids, ToSet
  <2>2. i + 1 \in 1 .. Len(dicts) /\ dicts[i + 1] = Of(k).facts
    BY <1>8, <1>9, <2>1
  <2> QED
    BY <1>10, <1>12, <2>2
<1> HIDE DEF q
<1>17. \A k \in Kids(tree, n) :
       \/ pc[k] = "raised" /\ q.blocked
       \/ /\ pc[k] = "joined" /\ Names(result[k].facts) \subseteq Names(q.facts)
          /\ result[k].blocked => q.blocked
          /\ q.success => result[k].success
  BY <1>2, <1>14, <1>16 DEF Of, Blocked, Result
<1>18. Returns(n, q) /\ q \in Results
  BY <1>1, <1>3, <1>13, <1>15, <1>17 DEF Returns, JoinsThreads, Sound
<1> QED
  BY <1>4, <1>18 DEF Moves

LEMMA TimeoutMoves ==
  ASSUME TypeInv, NEW n \in Nodes, TimeoutJoins(n) \/ TimeoutFires(n)
  PROVE  Moves
<1>1. tree[n].type = "Timeout" /\ pc[n] = "waiting"
  BY DEF TimeoutJoins, TimeoutFires
<1>2. Kid(n) \in Nodes /\ Sound(result[Kid(n)]) /\ board[n] \in SUBSET Nodes
  BY <1>1, KidIsKid, MergedFacts
<1>3. Sound(Blocked(board[n])) /\ Blocked(board[n]).blocked
  BY <1>2, PlainResults DEF Blocked, Result
<1>4. UNCHANGED plan /\ EventsStay /\ UNCHANGED <<step, board>>
  BY DEF TimeoutJoins, TimeoutFires, EventsStay
<1>5. \E r \in Results : Returns(n, r)
  <2>1. CASE TimeoutFires(n)
    BY <1>1, <1>3, <1>4, <2>1 DEF TimeoutFires, Returns, TakesOver, Sound
  <2>2. CASE TimeoutJoins(n) /\ pc[Kid(n)] = "done" /\ Return(n, result[Kid(n)])
    BY <1>1, <1>2, <1>4, <2>2 DEF Returns, TakesOver, Sound
  <2>3. CASE TimeoutJoins(n) /\ pc[Kid(n)] = "raised" /\ Return(n, Blocked(board[n]))
    BY <1>1, <1>3, <1>4, <2>3 DEF Returns, TakesOver, Sound
  <2> QED
    BY <2>1, <2>2, <2>3 DEF TimeoutJoins
<1> QED
  BY <1>4, <1>5 DEF Moves

LEMMA EntryMoves ==
  ASSUME TypeInv, NEW n \in Nodes, Refuse(n) \/ StartLeaf(n) \/ StartBranch(n) \/ ThreadEnds(n)
  PROVE  Moves
<1>1. CASE Refuse(n)
  <2>1. Sound(Fail({}))
    BY PlainResults
  <2>2. Returns(n, Fail({})) /\ Fail({}) \in Results
    BY <1>1, <2>1 DEF Refuse, Returns, Sound
  <2> QED
    BY <1>1, <2>2 DEF Moves, Refuse, EventsStay
<1>2. CASE StartLeaf(n)
  <2>1. Turns(n, "run")
    BY <1>2 DEF StartLeaf, Turns
  <2> QED
    BY <1>2, <2>1 DEF Moves, StartLeaf, EventsStay
<1>3. CASE StartBranch(n)
  <2>1. Opens(n)
    BY <1>3 DEF StartBranch, Opens
  <2> QED
    BY <1>3, <2>1 DEF Moves, StartBranch, EventsStay
<1>4. CASE ThreadEnds(n)
  <2>1. PICK p \in OfType(tree, {"Parallel"}) :
          /\ n \in Kids(tree, p) /\ pc[n] = "done"
          /\ pc' = [pc EXCEPT ![n] = "joined"]
          /\ events' = IF tree[p].cancels /\ ~result[n].success THEN events \cup {p} ELSE events
          /\ UNCHANGED <<plan, step, board, result>>
    BY <1>4 DEF ThreadEnds
  <2>2. p \in DOMAIN tree /\ Tree(tree)
    BY DEF OfType, TypeInv, PlanInv
  <2>3. n # 1
    BY <2>1, <2>2, KidsBelow
  <2>4. IsJoined(n) /\ EventsStay
    BY <2>1, <2>3 DEF IsJoined, EventsStay
  <2> QED
    BY <2>1, <2>4 DEF Moves
<1> QED
  BY <1>1, <1>2, <1>3, <1>4

\* A leaf that returns has run.
LEMMA LeafReturnMoves ==
  ASSUME TypeInv, NEW n \in Nodes, NEW r, Sound(r), LeafReturns(n, r), pc[n] \in {"run", "resolving"}
  PROVE  Moves
<1>1. Leaf(n)
  BY DEF TypeInv, PcInv
<1>2. Returns(n, r) /\ r \in Results
  BY <1>1 DEF Returns, LeafReturns, Sound
<1> QED
  BY <1>2 DEF Moves, LeafReturns, EventsStay

LEMMA LeafMoves ==
  ASSUME TypeInv, NEW n \in Nodes, LeafStep(n)
  PROVE  Moves
<1>1. {n} \in SUBSET Nodes /\ board[n] \in SUBSET Nodes /\ {} \in SUBSET Nodes
  BY DEF TypeInv, ExecutorTypeOK
<1>2. Sound(Ok({n})) /\ Sound(Fail({n})) /\ Sound(Blocked({n})) /\ Sound(Ok({})) /\ Sound(Fail({}))
      /\ Sound(Blocked({}))
      /\ Sound(Ok(board[n])) /\ Sound(Undecided(board[n]))
  BY <1>1, PlainResults
<1>3. \A state \in Tri : /\ Sound(CheckResult(state, {n})) /\ Sound(CheckResult(state, board[n]))
                         /\ Sound(VisualResult(n, state, board[n]))
  BY <1>1, AnswerResults
<1>4. ASSUME pc[n] = "run", Inline(n), pc' = [pc EXCEPT ![n] = "resolving"],
             UNCHANGED <<plan, step, board, result, events>>
      PROVE  Moves
  <2>1. Leaf(n)
    BY <1>4 DEF TypeInv, PcInv
  <2>2. Turns(n, "resolving")
    BY <1>4, <2>1 DEF Turns
  <2> QED
    BY <1>4, <2>2 DEF Moves, EventsStay
<1>5. CASE SkillReturns(n)
  <2>1. PICK r \in {Ok({n}), Ok({}), Fail({}), Blocked({n}), Blocked({})} : LeafReturns(n, r)
    BY <1>5 DEF SkillReturns
  <2>2. Sound(r) /\ pc[n] = "run"
    BY <1>2, <1>5 DEF SkillReturns, Running
  <2> QED
    BY <2>1, <2>2, LeafReturnMoves
<1>6. CASE SkillUnverified(n)
  BY <1>2, <1>4, <1>6, LeafReturnMoves DEF SkillUnverified, Running
<1>7. CASE ResolveActionPostcondition(n)
  BY <1>2, <1>3, <1>7, LeafReturnMoves DEF ResolveActionPostcondition
<1>8. CASE CheckReturns(n)
  <2>1. PICK state \in Answers(n) :
          IF state = "UNKNOWN" /\ Inline(n)
          THEN pc' = [pc EXCEPT ![n] = "resolving"] /\ UNCHANGED <<plan, step, board, result, events, completed>>
          ELSE LeafReturns(n, CheckResult(state, board[n]))
    BY <1>8 DEF CheckReturns
  <2>2. state \in Tri
    BY DEF Answers, Tri
  <2>3. pc[n] = "run"
    BY <1>8 DEF CheckReturns, Running
  <2> QED
    BY <1>3, <1>4, <2>1, <2>2, <2>3, LeafReturnMoves
<1>9. CASE ResolveCheck(n)
  BY <1>3, <1>9, LeafReturnMoves DEF ResolveCheck
<1>10. CASE WaitReturns(n)
  BY <1>2, <1>10, LeafReturnMoves DEF WaitReturns, Running
<1>11. CASE WaitForEventReturns(n)
  BY <1>2, <1>11, LeafReturnMoves DEF WaitForEventReturns, Running
<1>12. CASE VisualReturns(n)
  BY <1>3, <1>12, LeafReturnMoves DEF VisualReturns, Running
<1>13. CASE NoActionReturns(n)
  BY <1>2, <1>13, LeafReturnMoves DEF NoActionReturns, Running
<1>14. CASE LeafRaises(n)
  BY <1>14 DEF LeafRaises, Raises, Moves, EventsStay
<1> QED
  BY <1>5, <1>6, <1>7, <1>8, <1>9, <1>10, <1>11, <1>12, <1>13, <1>14 DEF LeafStep

LEMMA StepMoves == ASSUME TypeInv, [Next]_vars PROVE Moves
<1>1. ASSUME NEW n \in Nodes, Machine(n)  PROVE Moves
  BY <1>1, SequenceMoves, FallbackMoves, RetryMoves, JoinMoves, TimeoutMoves, EntryMoves DEF Machine
<1>2. CASE Cancel
  BY <1>2 DEF Cancel, Moves, EventsStay, Rests
<1>3. CASE Settle
  BY <1>3 DEF Settle, Moves, EventsStay, Rests, plan
<1>4. CASE UNCHANGED vars
  BY <1>4 DEF vars, Moves, EventsStay, Rests, plan
<1> QED
  BY <1>1, <1>2, <1>3, <1>4, LeafMoves DEF Next

-----------------------------------------------------------------------------
(* Types *)

RunTypes ==
  /\ pc \in [Nodes -> {"idle", "called", "run", "waiting", "resolving", "done", "joined",
                   "raised"}]
  /\ step \in [Nodes -> Nat \ {0}]
  /\ \A n \in Nodes : pc[n] = "waiting" => step[n] <= Rounds(n)
  /\ board \in [Nodes -> SUBSET Nodes]
  /\ result \in [Nodes -> Results]
  /\ \A n \in Nodes : ~(result[n].success /\ result[n].blocked)

SideTypes ==
  /\ events \subseteq Nodes \cup {0}
  /\ completed \in Nat /\ starts \in [Nodes -> Nat]
  /\ unresolved \subseteq Nodes
  /\ outcome \in {"", "SUCCEEDED", "FAILED", "PAUSED", "BLOCKED", "RAISED"}

LEMMA TypeParts == ExecutorTypeOK <=> RunTypes /\ SideTypes
BY DEF ExecutorTypeOK, RunTypes, SideTypes

\* What a call does to the program counters and boards.
LEMMA CallTypes ==
  ASSUME TypeInv, NEW n \in Nodes, ~Leaf(n), NEW K \in SUBSET Kids(tree, n), NEW facts \in SUBSET Nodes,
         Call(n, K, facts), UNCHANGED <<plan, result>>, NEW s \in 1 .. Rounds(n), step' = [step EXCEPT ![n] = s]
  PROVE  (RunTypes /\ PcInv)'
<1>1. n \notin K
  <2>1. \A k \in Kids(tree, n) : n < k
    BY KidsBelow DEF TypeInv, PlanInv, Nodes
  <2>2. n \in Nat
    BY DEF TypeInv, PlanInv, Tree, Nodes
  <2> QED
    BY <2>1, <2>2
<1>2. Nodes' = Nodes /\ (\A m : Rounds(m)' = Rounds(m) /\ Leaf(m)' = Leaf(m) /\ Inline(m)' = Inline(m)) /\ Results' = Results
  BY DEF plan, Nodes, Rounds, Leaf, Inline, Results
<1>3. RunTypes /\ PcInv
  BY TypeParts DEF TypeInv
<1>4. pc' = [m \in Nodes |-> IF m \in K THEN "called" ELSE IF m = n THEN "waiting" ELSE pc[m]]
  BY DEF Call
<1>5. board' = [m \in Nodes |-> IF m \in K \cup {n} THEN facts ELSE board[m]]
  BY DEF Call
<1>6. pc' \in [Nodes -> {"idle", "called", "run", "waiting", "resolving", "done", "joined", "raised"}]
  BY <1>3, <1>4 DEF RunTypes
<1>7. board' \in [Nodes -> SUBSET Nodes]
  BY <1>3, <1>5 DEF RunTypes
<1>8. Rounds(n) \in Nat \ {0}
  BY BranchHasKids DEF TypeInv
<1>9. step' \in [Nodes -> Nat \ {0}] /\ \A m \in Nodes : pc'[m] = "waiting" => step'[m] <= Rounds(m)
  BY <1>1, <1>3, <1>4, <1>8 DEF RunTypes
<1>10. PcInv'
  BY <1>1, <1>2, <1>3, <1>4 DEF PcInv
<1> QED
  BY <1>2, <1>3, <1>6, <1>7, <1>9, <1>10 DEF RunTypes

LEMMA MoveTypes == ASSUME TypeInv, Moves PROVE (PlanInv /\ RunTypes /\ PcInv)'
<1>1. Nodes' = Nodes /\ (\A m : Rounds(m)' = Rounds(m) /\ Leaf(m)' = Leaf(m) /\ Inline(m)' = Inline(m)) /\ Results' = Results
  BY DEF Moves, plan, Nodes, Rounds, Leaf, Inline, Results
<1>2. PlanInv'
  BY DEF Moves, plan, TypeInv, PlanInv, Nodes
<1>3. RunTypes /\ PcInv /\ UNCHANGED plan
  BY TypeParts DEF TypeInv, Moves
<1>4. ASSUME NEW n \in Nodes, NEW r \in Results, Returns(n, r)  PROVE (RunTypes /\ PcInv)'
  <2>1. pc' = [pc EXCEPT ![n] = "done"] /\ result' = [result EXCEPT ![n] = r] /\ UNCHANGED <<step, board>>
        /\ ~(r.success /\ r.blocked)
    BY <1>4 DEF Returns, Return, Sound
  <2>2. RunTypes'
    BY <1>1, <1>3, <2>1 DEF RunTypes
  <2>3. PcInv'
    BY <1>1, <1>3, <2>1 DEF PcInv, RunTypes
  <2> QED
    BY <2>2, <2>3
<1>5. ASSUME NEW n \in Nodes, NEW q \in {"run", "resolving"}, Turns(n, q)  PROVE (RunTypes /\ PcInv)'
  <2>1. RunTypes'
    BY <1>1, <1>3, <1>5 DEF RunTypes, Turns
  <2>2. PcInv'
    BY <1>1, <1>3, <1>5 DEF PcInv, RunTypes, Turns
  <2> QED
    BY <2>1, <2>2
<1>6. ASSUME NEW n \in Nodes, IsJoined(n)  PROVE (RunTypes /\ PcInv)'
  BY <1>1, <1>3, <1>6 DEF RunTypes, PcInv, IsJoined
<1>7. ASSUME NEW n \in Nodes, Raises(n)  PROVE (RunTypes /\ PcInv)'
  BY <1>1, <1>3, <1>7 DEF RunTypes, PcInv, Raises
<1>8. ASSUME NEW n \in Nodes, Opens(n)  PROVE (RunTypes /\ PcInv)'
  <2> DEFINE K == IF tree[n].type = "Parallel" THEN Kids(tree, n) ELSE {tree[n].kids[1]}
  <2>1. ~Leaf(n) /\ Call(n, K, board[n]) /\ step' = [step EXCEPT ![n] = 1] /\ UNCHANGED <<plan, result>>
    BY <1>3, <1>8 DEF Opens
  <2>2. K \subseteq Kids(tree, n) /\ 1 \in 1 .. Rounds(n)
    BY <2>1, BranchHasKids DEF TypeInv
  <2>3. board[n] \in SUBSET Nodes
    BY <1>3 DEF RunTypes
  <2> HIDE DEF K
  <2> QED
    BY <2>1, <2>2, <2>3, CallTypes
<1>9. ASSUME NEW n \in Nodes, GoesOn(n)  PROVE (RunTypes /\ PcInv)'
  <2> DEFINE k == IF tree[n].type = "Retry" THEN tree[n].kids[1] ELSE tree[n].kids[step[n] + 1]
  <2>1. pc[n] = "waiting" /\ ~Leaf(n) /\ step[n] \in Nat \ {0} /\ step[n] < Rounds(n)
    BY <1>3, <1>9 DEF GoesOn, RunTypes, PcInv
  <2>2. Call(n, {k}, Merged(n)) /\ step' = [step EXCEPT ![n] = step[n] + 1] /\ UNCHANGED <<plan, result>>
    BY <1>3, <1>9 DEF GoesOn, Proceed
  <2>3. Merged(n) \in SUBSET Nodes
    BY <2>1, MergedFacts
  <2>4. Rounds(n) \in Nat
    BY <2>1, BranchHasKids DEF TypeInv
  <2>5. step[n] + 1 \in 1 .. Rounds(n)
    BY <2>1, <2>4
  <2>6. k \in Kids(tree, n)
    BY <2>1, <2>5, BranchHasKids DEF TypeInv, Rounds
  <2> HIDE DEF k
  <2> QED
    BY <2>1, <2>2, <2>3, <2>5, <2>6, CallTypes
<1>10. ASSUME Rests  PROVE (RunTypes /\ PcInv)'
  BY <1>1, <1>3, <1>10 DEF RunTypes, PcInv, Rests
<1> QED
  BY <1>2, <1>4, <1>5, <1>6, <1>7, <1>8, <1>9, <1>10 DEF Moves

\* The rest of the state: events, counters, and the outcome.
LEMMA SideStep == ASSUME TypeInv, [Next]_vars PROVE SideTypes'
<1>1. SideTypes /\ PlanInv
  BY TypeParts DEF TypeInv
<1>2. ASSUME NEW n, NEW r, LeafReturns(n, r)  PROVE UNCHANGED <<plan, events>> /\ completed' \in Nat
  <2>1. completed \in Nat /\ completed' = completed + 1
    BY <1>1, <1>2 DEF LeafReturns, SideTypes
  <2>2. UNCHANGED <<plan, events>>
    BY <1>2 DEF LeafReturns, plan
  <2> QED
    BY <2>1, <2>2
<1>3. ASSUME NEW n \in Nodes, SequenceSteps(n) \/ FallbackSteps(n) \/ RetrySteps(n) \/ Join(n) \/ TimeoutJoins(n) \/ Refuse(n)
      PROVE  SideTypes'
  BY <1>1, <1>3 DEF SequenceSteps, FallbackSteps, RetrySteps, Join, TimeoutJoins, Refuse, SideTypes, plan, ghosts, Nodes
<1>4. ASSUME NEW n \in Nodes, ThreadEnds(n) \/ TimeoutFires(n) \/ StartBranch(n)
      PROVE  SideTypes'
  <2>1. events' \subseteq Nodes \cup {0}
    BY <1>1, <1>4 DEF ThreadEnds, TimeoutFires, StartBranch, SideTypes, Nodes, OfType
  <2>2. UNCHANGED <<plan, completed, ghosts>>
    BY <1>4 DEF ThreadEnds, TimeoutFires, StartBranch
  <2> QED
    BY <1>1, <2>1, <2>2 DEF SideTypes, plan, ghosts, Nodes
<1>8. ASSUME NEW n \in Nodes, StartLeaf(n)
      PROVE  SideTypes'
  <2>1. starts' = IF tree[n].type = "Action" THEN [starts EXCEPT ![n] = starts[n] + 1] ELSE starts
    BY <1>8 DEF StartLeaf
  <2>2. starts \in [Nodes -> Nat]
    BY <1>1 DEF SideTypes
  <2>3. starts[n] \in Nat
    BY <2>2
  <2>5. starts[n] + 1 \in Nat
    BY <2>3
  <2>6. starts' \in [Nodes -> Nat]
    BY <2>1, <2>2, <2>5
  <2>4. UNCHANGED <<tree, goal, events, completed, unresolved, outcome>>
    BY <1>8 DEF StartLeaf, plan
  <2> QED
    BY <1>1, <2>6, <2>4 DEF SideTypes, Nodes
<1>5. ASSUME NEW n \in Nodes, SkillReturns(n) \/ CheckReturns(n) \/ ResolveCheck(n) \/ WaitReturns(n)
               \/ WaitForEventReturns(n) \/ VisualReturns(n) \/ NoActionReturns(n) \/ LeafRaises(n)
      PROVE  SideTypes'
  BY <1>1, <1>2, <1>5 DEF SkillReturns, CheckReturns, ResolveCheck, WaitReturns, WaitForEventReturns, VisualReturns,
         NoActionReturns, LeafRaises, SideTypes, plan, ghosts, Nodes
<1>6. ASSUME NEW n \in Nodes, SkillUnverified(n) \/ ResolveActionPostcondition(n)
      PROVE  SideTypes'
  BY <1>1, <1>2, <1>6 DEF SkillUnverified, ResolveActionPostcondition, SideTypes, plan, Nodes
<1>7. ASSUME Cancel \/ Settle \/ UNCHANGED vars
      PROVE  SideTypes'
  BY <1>1, <1>7 DEF Cancel, Settle, GoalOutcome, Tri, SideTypes, plan, ghosts, vars, Nodes
<1> QED
  BY <1>3, <1>4, <1>5, <1>6, <1>7, <1>8 DEF Next, Machine, LeafStep

LEMMA TypeStep == ASSUME TypeInv, [Next]_vars PROVE TypeInv' /\ Moves
<1>1. Moves
  BY StepMoves
<1>2. (PlanInv /\ RunTypes /\ PcInv)' /\ SideTypes'
  BY <1>1, MoveTypes, SideStep
<1>3. ExecutorTypeOK'
  BY <1>2 DEF ExecutorTypeOK, RunTypes, SideTypes
<1> QED
  BY <1>1, <1>2, <1>3 DEF TypeInv

LEMMA TypeInit == Init => TypeInv
<1> SUFFICES ASSUME Init
             PROVE  TypeInv
  OBVIOUS
<1>1. PICK p \in Plans : Accepted(p.tree, p.goal) /\ tree = p.tree
  BY DEF Init
<1>2. PlanInv
  BY <1>1, PlansAssumption DEF Accepted, PlanInv, Tree, Nodes
<1>3. Sound(Fail({}))
  BY PlainResults
<1>4. RunTypes
  <2>1. result = [n \in Nodes |-> Fail({})] /\ Fail({}) \in Results /\ ~(Fail({}).success /\ Fail({}).blocked)
    BY <1>3 DEF Init, Sound
  <2>2. result \in [Nodes -> Results] /\ \A n \in Nodes : ~(result[n].success /\ result[n].blocked)
    BY <2>1
  <2>3. pc = [n \in Nodes |-> IF n = 1 THEN "called" ELSE "idle"]
        /\ step = [n \in Nodes |-> 1] /\ board = [n \in Nodes |-> {}]
    BY DEF Init
  <2> QED
    BY <2>2, <2>3 DEF RunTypes
<1>5. SideTypes /\ PcInv
  BY DEF Init, SideTypes, PcInv
<1> QED
  BY <1>2, <1>4, <1>5, TypeParts DEF TypeInv

LEMMA TypesHold == Spec => []TypeInv
BY TypeInit, TypeStep, PTL DEF Spec

\* Every node of every accepted tree has a result of its type, and no branch goes
\* past its last kid or attempt.
THEOREM ExecutorTypesCorrect == Spec => []ExecutorTypeOK
<1>1. TypeInv => ExecutorTypeOK
  BY DEF TypeInv
<1> QED
  BY <1>1, TypesHold, PTL

-----------------------------------------------------------------------------
(* Who waits for whom *)

\* A node that will not be called again: its failure is final.
Stuck(n) == pc[n] = "raised" \/ (IsDone(n) /\ result[n].blocked)

Held(n) == Alive(n) \/ Stuck(n)

\* A kid that is alive or stuck is the one its branch is at; the branch waits for it,
\* or is stuck too, and no live kid is left behind but by a Timeout that has set its
\* event.
ChainAt(p, k) ==
  Held(k) =>
    /\ pc[p] = "waiting" \/ Stuck(p)
    /\ Serial(p) => Kid(p) = k
    /\ Alive(k) => pc[p] = "waiting" \/ (tree[p].type = "Timeout" /\ p \in events)

ChainInv == \A p \in Nodes : \A k \in Kids(tree, p) : ChainAt(p, k)

LEMMA FramesStep ==
  ASSUME PlanInv, NEW n \in Nodes
  PROVE  IF n = 1 \/ tree[Parent(tree, n)].type \in {"Parallel", "Timeout"}
         THEN Frames(n) = {n} ELSE Frames(n) = {n} \cup Frames(Parent(tree, n))
<1> DEFINE Cut(p) == tree[p].type \in {"Parallel", "Timeout"}
           q == Parent(tree, n)
<1>1. \A x \in Nodes : Frames(x) = {x} \cup {m \in Above(tree, x) : \A p \in Above(tree, x) \cap Below(tree, m) : ~Cut(p)}
  BY DEF Frames
<1>2. CASE n = 1
  BY <1>1, <1>2, AboveStep DEF PlanInv
<1>3. ASSUME n # 1
      PROVE  /\ Cut(q) => Frames(n) = {n}
             /\ ~Cut(q) => Frames(n) = {n} \cup Frames(q)
  <2>1. q \in Nodes /\ Above(tree, n) = {q} \cup Above(tree, q)
    BY <1>3, AboveStep, ParentIs DEF PlanInv, Nodes
  <2>2. \A m \in Above(tree, n) : q \in Below(tree, m)
    BY <2>1 DEF Below, Nodes
  <2>3. \A p \in Above(tree, q) : p \notin Below(tree, q)
    <3>1. \A p \in Above(tree, q) : p \in Nodes /\ p < q
      BY <2>1, AboveLess DEF PlanInv, Nodes
    <3>2. \A p \in Nodes : q \in Above(tree, p) => q < p
      BY AboveLess DEF PlanInv, Nodes
    <3>3. Nodes \subseteq Nat
      BY DEF PlanInv, Tree, Nodes
    <3> QED
      BY <2>1, <3>1, <3>2, <3>3 DEF Below, Nodes
  <2>4. ASSUME Cut(q)  PROVE Frames(n) = {n}
    BY <1>1, <2>1, <2>2, <2>4
  <2>5. ASSUME ~Cut(q), NEW m \in Above(tree, n)
        PROVE  (\A p \in Above(tree, n) \cap Below(tree, m) : ~Cut(p)) <=> m \in Frames(q)
    <3>1. CASE m = q
      BY <1>1, <2>1, <2>3, <2>5, <3>1
    <3>2. CASE m # q
      BY <1>1, <2>1, <2>5, <3>2
    <3> QED
      BY <3>1, <3>2
  <2>6. Frames(q) \subseteq Above(tree, n)
    BY <1>1, <2>1
  <2>7. ASSUME ~Cut(q)  PROVE Frames(n) = {n} \cup Frames(q)
    BY <1>1, <2>5, <2>6, <2>7
  <2> QED
    BY <2>4, <2>7
<1> QED
  BY <1>2, <1>3

\* The frames of a live node are those that wait for it, one for the other.
LEMMA FramesWait ==
  ASSUME TypeInv, ChainInv, NEW n \in Nodes, Alive(n)
  PROVE  \A m \in Frames(n) :
           /\ m \in Nodes /\ Alive(m)
           /\ m # n => pc[m] = "waiting" /\ Serial(m) /\ Kid(m) \in Frames(n)
           /\ \A p \in Nodes : m \in Kids(tree, p) /\ Serial(p) => p \in Frames(n)
<1> DEFINE Good(x) ==
             \A m \in Frames(x) :
               /\ m \in Nodes /\ Alive(m)
               /\ m # x => pc[m] = "waiting" /\ Serial(m) /\ Kid(m) \in Frames(x)
               /\ \A p \in Nodes : m \in Kids(tree, p) /\ Serial(p) => p \in Frames(x)
           S == {x \in Nodes : Alive(x) => Good(x)}
<1>1. PlanInv /\ Tree(tree)
  BY DEF TypeInv, PlanInv
<1>2. 1 \in S
  <2>1. Frames(1) = {1} /\ 1 \in Nodes
    BY <1>1, FramesStep DEF Tree, WellFormed, Nodes
  <2>2. \A p \in Nodes : 1 \notin Kids(tree, p)
    BY <1>1, KidsBelow DEF Nodes
  <2> QED
    BY <2>1, <2>2
<1>3. ASSUME NEW x \in Nodes \ {1}, Parent(tree, x) \in S
      PROVE  x \in S
  <2> DEFINE q == Parent(tree, x)
  <2>1. q \in Nodes /\ x \in Kids(tree, q) /\ ~Leaf(q)
    BY <1>1, ParentIs, KidsBelow DEF Nodes, Leaf
  <2>2. \A p \in Nodes : x \in Kids(tree, p) => p = q
    BY <1>1, KidHasParent DEF Nodes
  <2>3. tree[q].type \in {"Parallel", "Timeout"} <=> ~Serial(q)
    BY <1>1, <2>1 DEF PlanInv, Valid, NodeValid, Leaf, Serial, BranchTypes, Nodes
  <2> SUFFICES ASSUME Alive(x)  PROVE Good(x)
    BY <1>3
  <2> HIDE DEF q
  <2>4. CASE ~Serial(q)
    <3>1. Frames(x) = {x}
      BY <1>1, <2>3, <2>4, FramesStep DEF q
    <3> QED
      BY <2>2, <2>4, <3>1
  <2>5. CASE Serial(q)
    <3>1. Frames(x) = {x} \cup Frames(q) /\ q \in Frames(q)
      BY <1>1, <2>3, <2>5, FramesStep DEF q, Frames
    <3>2. pc[q] = "waiting" /\ Kid(q) = x
      BY <2>1, <2>5 DEF ChainInv, ChainAt, Held, Serial
    <3>3. Good(q)
      BY <1>3, <3>2 DEF q, Alive
    <3> QED
      BY <2>2, <2>5, <3>1, <3>2, <3>3
  <2> QED
    BY <2>4, <2>5
<1> HIDE DEF S
<1>4. Nodes \subseteq S
  BY <1>1, <1>2, <1>3, TreeInduction DEF Nodes
<1> QED
  BY <1>4 DEF S

\* What a call leaves in order: none of the kids was held, and those of the called
\* ones are not either.
LEMMA CallKeepsChain ==
  ASSUME TypeInv, ChainInv, NEW n \in Nodes, pc[n] \in {"called", "waiting"}, ~Leaf(n),
         NEW K \in SUBSET Kids(tree, n), NEW facts, Call(n, K, facts),
         \A k \in Kids(tree, n) : ~Held(k),
         NEW s, step' = [step EXCEPT ![n] = s], UNCHANGED <<plan, result>>, EventsStay,
         Serial(n) => \A k \in K : k = Kid(n)'
  PROVE  ChainInv'
<1>1. n \in Nat /\ (\A k \in Kids(tree, n) : k \in Nodes /\ n < k)
  BY KidsBelow DEF TypeInv, PlanInv, Tree, Nodes
<1>2. pc' = [m \in Nodes |-> IF m \in K THEN "called" ELSE IF m = n THEN "waiting" ELSE pc[m]]
  BY DEF Call
<1>3. Nodes' = Nodes /\ tree' = tree
  BY DEF plan, Nodes
<1>4. step \in [Nodes -> Nat \ {0}]
  BY DEF TypeInv, ExecutorTypeOK
<1> SUFFICES ASSUME NEW p \in Nodes, NEW k \in Kids(tree, p), Held(k)'
             PROVE  /\ pc'[p] = "waiting" \/ Stuck(p)'
                    /\ Serial(p) => Kid(p)' = k
                    /\ Alive(k)' => pc'[p] = "waiting" \/ (tree[p].type = "Timeout" /\ p \in events')
  BY <1>3 DEF ChainInv, ChainAt, Serial
<1>5. k \in Nodes /\ (\A q \in Nodes : k \in Kids(tree, q) => q = p)
  BY KidsBelow, KidHasParent DEF TypeInv, PlanInv, Nodes
<1>6. CASE p = n
  <2>1. k \in K
    BY <1>1, <1>2, <1>3, <1>5, <1>6 DEF Held, Alive, Stuck, IsDone
  <2>2. pc'[n] = "waiting"
    BY <1>1, <1>2
  <2> QED
    BY <1>6, <2>1, <2>2
<1>7. CASE p # n
  <2>1. k \notin K
    BY <1>5, <1>7
  <2>2. Held(k) /\ (Alive(k)' => Alive(k))
    BY <1>2, <1>3, <1>5, <2>1 DEF Held, Alive, Stuck, IsDone
  <2>3. /\ pc[p] = "waiting" \/ Stuck(p)
        /\ Serial(p) => Kid(p) = k
        /\ Alive(k) => pc[p] = "waiting" \/ (tree[p].type = "Timeout" /\ p \in events)
    BY <2>2 DEF ChainInv, ChainAt
  <2>4. p \notin K
    BY <2>3 DEF Held, Alive
  <2>5. pc'[p] = pc[p] /\ step'[p] = step[p]
    BY <1>2, <1>4, <1>7, <2>4
  <2>6. Kid(p)' = Kid(p) /\ (Stuck(p)' <=> Stuck(p))
    BY <1>3, <2>5 DEF Kid, Stuck, IsDone
  <2>7. p \in events => p \in events'
    BY <2>3 DEF EventsStay, Stuck, IsDone
  <2> QED
    BY <2>2, <2>3, <2>5, <2>6, <2>7
<1> QED
  BY <1>6, <1>7

\* A branch may only return when no kid of it is held, or as a failure that is final.
LEMMA ReturnOfHeld ==
  ASSUME TypeInv, ChainInv, NEW n \in Nodes, NEW r, Returns(n, r), NEW k \in Kids(tree, n), Held(k)
  PROVE  /\ r.blocked
         /\ Serial(n) => Kid(n) = k
         /\ Alive(k) => tree[n].type = "Timeout" /\ n \in events'
<1>1. /\ pc[n] = "waiting" \/ Stuck(n)
      /\ Serial(n) => Kid(n) = k
  BY DEF ChainInv, ChainAt
<1>2. ~Leaf(n)
  BY KidsBelow DEF TypeInv, PlanInv, Nodes, Leaf
<1>3. pc[n] # "called"
  BY <1>1 DEF Stuck, IsDone
<1>4. Concludes(n, r) \/ JoinsThreads(n, r) \/ TakesOver(n, r)
  BY <1>2, <1>3 DEF Returns
<1>5. CASE Concludes(n, r)
  BY <1>1, <1>5 DEF Concludes, Held, Alive, Stuck, Serial
<1>6. CASE JoinsThreads(n, r)
  BY <1>1, <1>6 DEF JoinsThreads, Held, Alive, Stuck, Serial
<1>7. CASE TakesOver(n, r)
  <2>1. Kid(n) = k
    BY <1>2, <1>7, KidIsKid, BranchHasKids DEF TakesOver, TypeInv
  <2> QED
    BY <1>1, <1>7, <2>1 DEF TakesOver, Held, Alive, Stuck, Serial
<1> QED
  BY <1>4, <1>5, <1>6, <1>7

\* Only kids that are not held are called.
LEMMA NoneHeld ==
  ASSUME TypeInv, ChainInv, NEW n \in Nodes, Opens(n) \/ GoesOn(n), NEW k \in Kids(tree, n)
  PROVE  ~Held(k)
<1>1. CASE Opens(n)
  BY <1>1 DEF Opens, ChainInv, ChainAt, Stuck, IsDone
<1>2. CASE GoesOn(n)
  <2>1. Serial(n) /\ pc[Kid(n)] = "done" /\ ~result[Kid(n)].blocked
    BY <1>2 DEF GoesOn
  <2>2. ~Held(Kid(n))
    BY <2>1 DEF Held, Alive, Stuck, IsDone
  <2>3. Held(k) => Kid(n) = k
    BY <2>1 DEF ChainInv, ChainAt
  <2> QED
    BY <2>2, <2>3
<1> QED
  BY <1>1, <1>2

LEMMA ChainStep == ASSUME TypeInv, ChainInv, Moves PROVE ChainInv'
<1>1. Nodes' = Nodes /\ tree' = tree /\ EventsStay
  BY DEF Moves, plan, Nodes
<1>2. /\ pc \in [Nodes -> {"idle", "called", "run", "waiting", "resolving", "done", "joined", "raised"}]
      /\ step \in [Nodes -> Nat \ {0}] /\ result \in [Nodes -> Results]
  BY DEF TypeInv, ExecutorTypeOK
<1>3. \A p \in Nodes : \A k \in Kids(tree, p) :
        k \in Nodes /\ k # p /\ ~Leaf(p) /\ (\A q \in Nodes : k \in Kids(tree, q) => q = p)
  <2>1. Nodes \subseteq Nat
    BY DEF TypeInv, PlanInv, Tree, Nodes
  <2> QED
    BY <2>1, KidsBelow, KidHasParent DEF TypeInv, PlanInv, Nodes, Leaf
<1>4. ASSUME UNCHANGED step,
             \A p \in Nodes : \A k \in Kids(tree, p) :
               Held(k)' => /\ Held(k) /\ (Alive(k)' => Alive(k))
                           /\ pc[p] = "waiting" =>
                                pc'[p] = "waiting" \/ (Stuck(p)' /\ (Alive(k)' => tree[p].type = "Timeout" /\ p \in events'))
                           /\ Stuck(p) => Stuck(p)'
      PROVE  ChainInv'
  <2> SUFFICES ASSUME NEW p \in Nodes, NEW k \in Kids(tree, p), Held(k)'
               PROVE  /\ pc'[p] = "waiting" \/ Stuck(p)'
                      /\ Serial(p) => Kid(p)' = k
                      /\ Alive(k)' => pc'[p] = "waiting" \/ (tree[p].type = "Timeout" /\ p \in events')
    BY <1>1 DEF ChainInv, ChainAt, Serial
  <2>1. /\ Held(k) /\ (Alive(k)' => Alive(k))
        /\ pc[p] = "waiting" =>
             pc'[p] = "waiting" \/ (Stuck(p)' /\ (Alive(k)' => tree[p].type = "Timeout" /\ p \in events'))
        /\ Stuck(p) => Stuck(p)'
    BY <1>4
  <2>2. /\ pc[p] = "waiting" \/ Stuck(p)
        /\ Serial(p) => Kid(p) = k
        /\ Alive(k) => pc[p] = "waiting" \/ (tree[p].type = "Timeout" /\ p \in events)
    BY <2>1 DEF ChainInv, ChainAt
  <2>3. Kid(p)' = Kid(p)
    BY <1>1, <1>4 DEF Kid
  <2>4. p \in events => p \in events'
    BY <1>1, <2>2 DEF EventsStay, Stuck, IsDone
  <2> QED
    BY <2>1, <2>2, <2>3, <2>4
<1>5. ASSUME NEW n \in Nodes, NEW r \in Results, Returns(n, r)  PROVE ChainInv'
  <2>1. pc' = [pc EXCEPT ![n] = "done"] /\ result' = [result EXCEPT ![n] = r] /\ UNCHANGED step
    BY <1>5 DEF Returns, Return
  <2>2. Alive(n)
    BY <1>5 DEF Returns, Alive, Concludes, JoinsThreads, TakesOver
  <2>3. \A m \in Nodes : m # n => /\ Alive(m)' <=> Alive(m)
                                  /\ Stuck(m)' <=> Stuck(m)
                                  /\ pc'[m] = pc[m]
    BY <1>2, <2>1 DEF Alive, Stuck, IsDone
  <2>4. ~Alive(n)' /\ (Stuck(n)' <=> r.blocked) /\ Held(n)
    BY <1>2, <2>1, <2>2 DEF Alive, Stuck, IsDone, Held
  <2>5. ~Stuck(n)
    BY <2>2 DEF Alive, Stuck, IsDone
  <2>6. \A k \in Kids(tree, n) : Held(k) => r.blocked /\ (Alive(k) => tree[n].type = "Timeout" /\ n \in events')
    BY <1>5, ReturnOfHeld
  <2> QED
    BY <1>3, <1>4, <2>1, <2>3, <2>4, <2>5, <2>6 DEF Held
<1>6. ASSUME NEW n \in Nodes, NEW q \in {"run", "resolving"}, Turns(n, q)  PROVE ChainInv'
  <2>1. pc' = [pc EXCEPT ![n] = q] /\ UNCHANGED <<step, result>> /\ Leaf(n) /\ Alive(n)
    BY <1>6 DEF Turns, Alive
  <2>2. \A m \in Nodes : m # n => /\ Alive(m)' <=> Alive(m)
                                  /\ Stuck(m)' <=> Stuck(m)
                                  /\ pc'[m] = pc[m]
    BY <1>2, <2>1 DEF Alive, Stuck, IsDone
  <2> QED
    BY <1>3, <1>4, <2>1, <2>2 DEF Held
<1>7. ASSUME NEW n \in Nodes, IsJoined(n)  PROVE ChainInv'
  <2>1. pc' = [pc EXCEPT ![n] = "joined"] /\ UNCHANGED <<step, result>> /\ pc[n] = "done"
    BY <1>7 DEF IsJoined
  <2>2. \A m \in Nodes : /\ Alive(m)' <=> Alive(m)
                         /\ Stuck(m)' <=> Stuck(m)
                         /\ pc[m] = "waiting" => pc'[m] = "waiting"
    BY <1>2, <2>1 DEF Alive, Stuck, IsDone
  <2> QED
    BY <1>3, <1>4, <2>1, <2>2 DEF Held
<1>8. ASSUME NEW n \in Nodes, Raises(n)  PROVE ChainInv'
  <2>1. UNCHANGED <<step, result>> /\ pc' = [m \in Nodes |-> IF m \in Frames(n) THEN "raised" ELSE pc[m]]
        /\ Alive(n) /\ Leaf(n)
    BY <1>8 DEF Raises, Alive, TypeInv, PcInv
  <2>2. \A m \in Frames(n) : /\ m \in Nodes /\ Alive(m)
                             /\ m # n => pc[m] = "waiting" /\ Serial(m) /\ Kid(m) \in Frames(n)
                             /\ \A p \in Nodes : m \in Kids(tree, p) /\ Serial(p) => p \in Frames(n)
    BY <2>1, FramesWait
  <2>3. \A m \in Nodes : /\ m \notin Frames(n) => (Alive(m)' <=> Alive(m)) /\ (Stuck(m)' <=> Stuck(m)) /\ pc'[m] = pc[m]
                         /\ m \in Frames(n) => ~Alive(m)' /\ Stuck(m)'
    BY <1>2, <2>1 DEF Alive, Stuck, IsDone
  <2>4. ASSUME NEW p \in Nodes, NEW k \in Kids(tree, p), Held(k)'
        PROVE  /\ Held(k) /\ (Alive(k)' => Alive(k))
               /\ pc[p] = "waiting" =>
                    pc'[p] = "waiting" \/ (Stuck(p)' /\ (Alive(k)' => tree[p].type = "Timeout" /\ p \in events'))
               /\ Stuck(p) => Stuck(p)'
    <3>1. k \in Nodes /\ ~Leaf(p)
      BY <1>3
    <3>2. Held(k) /\ (Alive(k)' => Alive(k) /\ k \notin Frames(n))
      BY <2>2, <2>3, <2>4, <3>1 DEF Held
    <3>3. p \in Frames(n) => Serial(p) /\ Kid(p) \in Frames(n)
      BY <2>1, <2>2, <3>1
    <3>4. Serial(p) => Kid(p) = k
      BY <3>2 DEF ChainInv, ChainAt
    <3> QED
      BY <2>3, <3>2, <3>3, <3>4
  <2> QED
    BY <1>4, <2>1, <2>4
<1>9. ASSUME NEW n \in Nodes, Opens(n)  PROVE ChainInv'
  <2> DEFINE K == IF tree[n].type = "Parallel" THEN Kids(tree, n) ELSE {tree[n].kids[1]}
  <2>1. pc[n] = "called" /\ ~Leaf(n) /\ Call(n, K, board[n]) /\ step' = [step EXCEPT ![n] = 1] /\ UNCHANGED <<plan, result>>
    BY <1>9 DEF Opens, Moves
  <2>2. K \subseteq Kids(tree, n)
    BY <2>1, BranchHasKids DEF TypeInv
  <2>3. \A k \in Kids(tree, n) : ~Held(k)
    BY <1>9, NoneHeld
  <2>4. step'[n] = 1
    BY <1>2, <2>1
  <2>5. Serial(n) => \A k \in K : k = Kid(n)'
    BY <1>1, <2>4 DEF Serial, Kid
  <2> HIDE DEF K
  <2> QED
    BY <1>1, <2>1, <2>2, <2>3, <2>5, CallKeepsChain
<1>10. ASSUME NEW n \in Nodes, GoesOn(n)  PROVE ChainInv'
  <2> DEFINE k == IF tree[n].type = "Retry" THEN tree[n].kids[1] ELSE tree[n].kids[step[n] + 1]
  <2>1. pc[n] = "waiting" /\ ~Leaf(n) /\ Call(n, {k}, Merged(n)) /\ step' = [step EXCEPT ![n] = step[n] + 1]
        /\ UNCHANGED <<plan, result>> /\ step[n] \in Nat \ {0}
    BY <1>2, <1>10 DEF GoesOn, Proceed, TypeInv, PcInv, Moves
  <2>2. k \in Kids(tree, n)
    <3>1. PlanInv /\ step[n] < Rounds(n)
      BY <1>10 DEF GoesOn, TypeInv
    <3>2. Rounds(n) \in Nat
      BY <2>1, <3>1, BranchHasKids
    <3>3. step[n] + 1 \in 1 .. Rounds(n)
      BY <2>1, <3>1, <3>2
    <3> QED
      BY <2>1, <3>1, <3>3, BranchHasKids DEF Rounds
  <2>3. \A m \in Kids(tree, n) : ~Held(m)
    BY <1>10, NoneHeld
  <2>4. step'[n] = step[n] + 1
    BY <1>2, <2>1
  <2>5. k = Kid(n)'
    BY <1>1, <2>4 DEF Kid
  <2> HIDE DEF k
  <2> DEFINE K == {k}
             facts == Merged(n)
             s == step[n] + 1
  <2>6. K \in SUBSET Kids(tree, n) /\ Call(n, K, facts) /\ step' = [step EXCEPT ![n] = s]
    BY <2>1, <2>2
  <2>7. \A m \in K : m = Kid(n)'
    BY <2>5
  <2>8. ~Leaf(n) /\ pc[n] \in {"called", "waiting"} /\ UNCHANGED <<plan, result>>
    BY <2>1
  <2> HIDE DEF K, facts, s
  <2> QED
    BY <1>1, <2>3, <2>6, <2>7, <2>8, CallKeepsChain
<1>11. ASSUME Rests  PROVE ChainInv'
  <2>1. UNCHANGED <<pc, step, result>>
    BY <1>11 DEF Rests
  <2>2. \A m \in Nodes : /\ Alive(m)' <=> Alive(m)
                         /\ Stuck(m)' <=> Stuck(m)
                         /\ pc'[m] = pc[m]
    BY <2>1 DEF Alive, Stuck, IsDone
  <2> QED
    BY <1>3, <1>4, <2>1, <2>2 DEF Held
<1> QED
  BY <1>5, <1>6, <1>7, <1>8, <1>9, <1>10, <1>11 DEF Moves

-----------------------------------------------------------------------------
(* Failures that are final *)

\* What is final stays so.
LEMMA StuckStays ==
  ASSUME TypeInv, ChainInv, Moves, NEW n \in Nodes, Stuck(n)
  PROVE  Stuck(n)'
<1>1. /\ pc \in [Nodes -> {"idle", "called", "run", "waiting", "resolving", "done", "joined", "raised"}]
      /\ result \in [Nodes -> Results]
  BY DEF TypeInv, ExecutorTypeOK
<1>2. pc[n] \in {"raised", "done", "joined"}
  BY DEF Stuck, IsDone
<1>3. ASSUME NEW m \in Nodes, NEW r \in Results, Returns(m, r)  PROVE Stuck(n)'
  <2>1. m # n
    BY <1>2, <1>3 DEF Returns, Concludes, JoinsThreads, TakesOver
  <2> QED
    BY <1>1, <1>3, <2>1 DEF Returns, Return, Stuck, IsDone
<1>4. ASSUME NEW m \in Nodes, Opens(m) \/ GoesOn(m)  PROVE Stuck(n)'
  <2>1. n \notin Kids(tree, m) /\ n # m
    BY <1>2, <1>4, NoneHeld DEF Held, Opens, GoesOn
  <2>2. PlanInv /\ (pc[m] = "called" => ~Leaf(m) \/ ~Opens(m)) /\ (GoesOn(m) => ~Leaf(m) /\ step[m] \in Nat \ {0})
    BY <1>4 DEF TypeInv, Opens, GoesOn, PcInv, ExecutorTypeOK
  <2>3. pc'[n] = pc[n] /\ result' = result
    <3>1. CASE Opens(m)
      <4>1. tree[m].kids[1] \in Kids(tree, m)
        BY <2>2, <3>1, BranchHasKids DEF Opens
      <4> QED
        BY <2>1, <3>1, <4>1 DEF Opens, Call
    <3>2. CASE GoesOn(m)
      <4>1. ~Leaf(m) /\ step[m] \in Nat \ {0} /\ step[m] < Rounds(m) /\ Rounds(m) \in Nat
        BY <2>2, <3>2, BranchHasKids DEF GoesOn
      <4>2. (IF tree[m].type = "Retry" THEN tree[m].kids[1] ELSE tree[m].kids[step[m] + 1]) \in Kids(tree, m)
        BY <2>2, <4>1, BranchHasKids DEF Rounds
      <4> QED
        BY <2>1, <3>2, <4>2 DEF GoesOn, Proceed, Call
    <3> QED
      BY <1>4, <3>1, <3>2
  <2> QED
    BY <2>3 DEF Stuck, IsDone
<1>5. ASSUME NEW m \in Nodes, IsJoined(m)  PROVE Stuck(n)'
  BY <1>1, <1>5 DEF IsJoined, Stuck, IsDone
<1>6. ASSUME NEW m \in Nodes, Raises(m)  PROVE Stuck(n)'
  BY <1>1, <1>6 DEF Raises, Stuck, IsDone
<1>7. ASSUME NEW m \in Nodes, NEW q \in {"run", "resolving"}, Turns(m, q)  PROVE Stuck(n)'
  <2>1. m # n
    BY <1>2, <1>7 DEF Turns
  <2> QED
    BY <1>1, <1>7, <2>1 DEF Turns, Stuck, IsDone
<1>8. ASSUME Rests  PROVE Stuck(n)'
  BY <1>8 DEF Rests, Stuck, IsDone
<1> QED
  BY <1>3, <1>4, <1>5, <1>6, <1>7, <1>8 DEF Moves

\* An action that could not be verified is one of them.
UnresolvedInv == \A n \in unresolved : Stuck(n)

LEMMA BlockedIsStuck ==
  ASSUME TypeInv, NEW n \in Nodes, NEW facts, LeafReturns(n, Blocked(facts))
  PROVE  Stuck(n)'
BY DEF TypeInv, ExecutorTypeOK, LeafReturns, Return, Blocked, Result, Stuck, IsDone

LEMMA UnresolvedStep ==
  ASSUME TypeInv, ChainInv, UnresolvedInv, [Next]_vars
  PROVE  UnresolvedInv'
<1>1. \A n \in Nodes : Stuck(n) => Stuck(n)'
  BY StepMoves, StuckStays
<1>2. unresolved \subseteq Nodes
  BY DEF TypeInv, ExecutorTypeOK
<1>4. ASSUME unresolved' = unresolved  PROVE UnresolvedInv'
  BY <1>1, <1>2, <1>4 DEF UnresolvedInv
<1>5. ASSUME NEW n \in Nodes, unresolved' = unresolved \cup {n}, LeafReturns(n, Blocked({n}))
      PROVE  UnresolvedInv'
  <2>1. Stuck(n)'
    BY <1>5, BlockedIsStuck
  <2> QED
    BY <1>1, <1>2, <1>5, <2>1 DEF UnresolvedInv
<1>6. ASSUME NEW n \in Nodes, SkillUnverified(n)  PROVE UnresolvedInv'
  BY <1>4, <1>5, <1>6 DEF SkillUnverified
<1>7. ASSUME NEW n \in Nodes, ResolveActionPostcondition(n)  PROVE UnresolvedInv'
  <2>1. PICK state \in Tri :
          /\ LeafReturns(n, IF state = "UNKNOWN" THEN Blocked({n}) ELSE CheckResult(state, {n}))
          /\ unresolved' = IF state = "UNKNOWN" THEN unresolved \cup {n} ELSE unresolved
    BY <1>7 DEF ResolveActionPostcondition
  <2>2. CASE state = "UNKNOWN"
    BY <1>5, <2>1, <2>2
  <2>3. CASE state # "UNKNOWN"
    BY <1>4, <2>1, <2>3
  <2> QED
    BY <2>2, <2>3
<1>8. ASSUME NEW n \in Nodes, Machine(n)  PROVE unresolved' = unresolved
  BY <1>8 DEF Machine, Refuse, StartLeaf, StartBranch, SequenceSteps, FallbackSteps, RetrySteps, ThreadEnds, Join,
         TimeoutJoins, TimeoutFires, ghosts
<1>9. ASSUME NEW n \in Nodes, LeafStep(n), ~SkillUnverified(n), ~ResolveActionPostcondition(n)
      PROVE  unresolved' = unresolved
  BY <1>9 DEF LeafStep, SkillReturns, CheckReturns, ResolveCheck, WaitReturns, WaitForEventReturns, VisualReturns,
         NoActionReturns, LeafRaises, ghosts
<1>10. ASSUME Cancel \/ Settle \/ UNCHANGED vars  PROVE unresolved' = unresolved
  BY <1>10 DEF Cancel, Settle, ghosts, vars
<1> QED
  BY <1>4, <1>6, <1>7, <1>8, <1>9, <1>10 DEF Next

RunInv == TypeInv /\ ChainInv /\ UnresolvedInv

LEMMA RunInitial == Init => RunInv
<1> SUFFICES ASSUME Init
             PROVE  RunInv
  OBVIOUS
<1>1. TypeInv
  BY TypeInit
<1>2. \A p \in Nodes : \A k \in Kids(tree, p) : k \in Nodes /\ k # 1
  BY <1>1, KidsBelow DEF TypeInv, PlanInv, Nodes
<1>3. \A k \in Nodes : k # 1 => ~Held(k)
  BY DEF Init, Held, Alive, Stuck, IsDone
<1>4. ChainInv /\ UnresolvedInv
  BY <1>2, <1>3 DEF ChainInv, ChainAt, UnresolvedInv, Init
<1> QED
  BY <1>1, <1>4 DEF RunInv

LEMMA RunHolds == Spec => []RunInv
<1>1. RunInv /\ [Next]_vars => RunInv'
  BY TypeStep, ChainStep, UnresolvedStep DEF RunInv
<1> QED
  BY <1>1, RunInitial, PTL DEF Spec

\* An action whose effect happened and could not be verified is not run again by the
\* same run, however many Retries are around it, of whatever depth.
THEOREM UnresolvedCorrect == Spec => UnresolvedNotRepeated
<1>1. ASSUME RunInv, [Next]_vars
      PROVE  [\A n \in Nodes : n \in unresolved => starts'[n] = starts[n]]_vars
  <2>1. starts \in [Nodes -> Nat] /\ \A n \in unresolved : pc[n] # "called"
    BY <1>1 DEF RunInv, TypeInv, ExecutorTypeOK, UnresolvedInv, Stuck, IsDone
  <2>2. ASSUME NEW m \in Nodes, StartLeaf(m), NEW n \in Nodes, n \in unresolved  PROVE starts'[n] = starts[n]
    BY <2>1, <2>2 DEF StartLeaf
  <2>3. ASSUME NEW m \in Nodes, Machine(m), ~StartLeaf(m)  PROVE starts' = starts
    BY <2>3 DEF Machine, Refuse, StartBranch, SequenceSteps, FallbackSteps, RetrySteps, ThreadEnds, Join,
           TimeoutJoins, TimeoutFires, ghosts
  <2>4. ASSUME NEW m \in Nodes, LeafStep(m)  PROVE starts' = starts
    BY <2>4 DEF LeafStep, SkillReturns, SkillUnverified, ResolveActionPostcondition, CheckReturns, ResolveCheck,
           WaitReturns, WaitForEventReturns, VisualReturns, NoActionReturns, LeafRaises, ghosts
  <2>5. ASSUME Cancel \/ Settle \/ UNCHANGED vars  PROVE starts' = starts
    BY <2>5 DEF Cancel, Settle, ghosts, vars
  <2> QED
    BY <1>1, <2>2, <2>3, <2>4, <2>5 DEF Next
<1> QED
  BY <1>1, RunHolds, PTL DEF Spec, UnresolvedNotRepeated

-----------------------------------------------------------------------------
(* What follows for the nodes above *)

\* All that is above a node that is alive or stuck waits for it, or is stuck itself.
LEMMA HeldUp ==
  ASSUME TypeInv, ChainInv, NEW n \in Nodes, Held(n), NEW m \in Above(tree, n)
  PROVE  m \in Nodes /\ Held(m) /\ (pc[m] = "waiting" \/ Stuck(m))
<1> DEFINE Good(x) == \A a \in Above(tree, x) : a \in Nodes /\ Held(a) /\ (pc[a] = "waiting" \/ Stuck(a))
           S == {x \in Nodes : Held(x) => Good(x)}
<1>1. Tree(tree)
  BY DEF TypeInv, PlanInv
<1>2. 1 \in S
  BY <1>1, AboveStep DEF Tree, WellFormed, Nodes
<1>3. ASSUME NEW x \in Nodes \ {1}, Parent(tree, x) \in S
      PROVE  x \in S
  <2> DEFINE q == Parent(tree, x)
  <2>1. q \in Nodes /\ x \in Kids(tree, q) /\ Above(tree, x) = {q} \cup Above(tree, q)
    BY <1>1, ParentIs, AboveStep DEF Nodes
  <2> HIDE DEF q
  <2>2. ASSUME Held(x)  PROVE Held(q) /\ (pc[q] = "waiting" \/ Stuck(q))
    BY <2>1, <2>2 DEF ChainInv, ChainAt, Held, Alive
  <2> QED
    BY <1>3, <2>1, <2>2 DEF q
<1> HIDE DEF S
<1>4. Nodes \subseteq S
  BY <1>1, <1>2, <1>3, TreeInduction DEF Nodes
<1> QED
  BY <1>4 DEF S

\* A leaf that ended blocked is never papered over by a later branch or attempt: the
\* whole run is blocked.
THEOREM BlockedCorrect == Spec => []BlockedSurfaces
<1>1. RunInv => BlockedSurfaces
  <2> SUFFICES ASSUME RunInv, NEW n \in Nodes, IsDone(n), result[n].blocked, IsDone(1), n # 1
               PROVE  result[1].blocked
    BY DEF BlockedSurfaces
  <2>1. 1 \in Above(tree, n)
    BY RootAbove DEF RunInv, TypeInv, PlanInv, Nodes
  <2>2. pc[1] = "waiting" \/ Stuck(1)
    BY <2>1, HeldUp DEF RunInv, Held, Stuck
  <2> QED
    BY <2>2 DEF Stuck, IsDone
<1> QED
  BY <1>1, RunHolds, PTL

\* A live node below one that has returned has a set event above it.
LEMMA OrphanSet ==
  ASSUME TypeInv, ChainInv, NEW n \in Nodes, Alive(n), NEW m \in Above(tree, n), pc[m] # "waiting"
  PROVE  \E p \in Above(tree, n) : p \in events
<1> DEFINE S == {x \in Nodes : Alive(x) /\ (\E a \in Above(tree, x) : pc[a] # "waiting")
                                 => \E p \in Above(tree, x) : p \in events}
<1>1. Tree(tree)
  BY DEF TypeInv, PlanInv
<1>2. 1 \in S
  BY <1>1, AboveStep DEF Tree, WellFormed, Nodes
<1>3. ASSUME NEW x \in Nodes \ {1}, Parent(tree, x) \in S
      PROVE  x \in S
  <2> DEFINE q == Parent(tree, x)
  <2>1. q \in Nodes /\ x \in Kids(tree, q) /\ Above(tree, x) = {q} \cup Above(tree, q)
    BY <1>1, ParentIs, AboveStep DEF Nodes
  <2> HIDE DEF q
  <2>2. Alive(x) => pc[q] = "waiting" \/ q \in events
    BY <2>1 DEF ChainInv, ChainAt, Held
  <2>3. pc[q] = "waiting" => Alive(q)
    BY DEF Alive
  <2>4. q \in S
    BY <1>3 DEF q
  <2> QED
    BY <2>1, <2>2, <2>3, <2>4
<1> HIDE DEF S
<1>4. Nodes \subseteq S
  BY <1>1, <1>2, <1>3, TreeInduction DEF Nodes
<1> QED
  BY <1>4 DEF S

\* Whatever still works below a node that has returned has been told to stop, through
\* every level of linked events.
THEOREM OrphansCorrect == Spec => []OrphansCanceled
<1>1. RunInv => OrphansCanceled
  <2> SUFFICES ASSUME RunInv, NEW n \in Nodes, Working(n), NEW m \in Above(tree, n), IsDone(m)
               PROVE  IsSet(n)
    BY DEF OrphansCanceled
  <2>1. Alive(n) /\ pc[m] # "waiting"
    BY DEF Working, IsDone, Alive
  <2> QED
    BY <2>1, OrphanSet DEF RunInv, IsSet
<1> QED
  BY <1>1, RunHolds, PTL

\* Next to a leaf that resolves a decision inline only what is above it, which waits
\* for it, is alive or stuck.
LEMMA AloneInline ==
  ASSUME TypeInv, ChainInv, NEW n \in Nodes, pc[n] = "resolving", NEW m \in Nodes, Held(m)
  PROVE  m = n \/ m \in Above(tree, n)
<1> DEFINE S == {x \in Nodes : Held(x) => x = n \/ x \in Above(tree, n)}
<1>1. Tree(tree) /\ Leaf(n) /\ Alive(n) /\ Held(n)
  BY DEF TypeInv, PlanInv, PcInv, Alive, Held
<1>2. 1 \in S
  BY <1>1, RootAbove DEF Tree, WellFormed, Nodes
<1>3. \A p \in Above(tree, n) : Serial(p) /\ p \in Nodes
  <2>1. Inline(n)
    BY DEF TypeInv, PcInv
  <2> QED
    BY <1>1, <2>1, AboveLess DEF Inline, Serial, Nodes
<1>4. ASSUME NEW x \in Nodes \ {1}, Parent(tree, x) \in S
      PROVE  x \in S
  <2> DEFINE q == Parent(tree, x)
  <2>1. q \in Nodes /\ x \in Kids(tree, q) /\ q \in Above(tree, x)
    BY <1>1, ParentIs, AboveStep DEF Nodes
  <2> HIDE DEF q
  <2> SUFFICES ASSUME Held(x)  PROVE x = n \/ x \in Above(tree, n)
    OBVIOUS
  <2>2. Held(q)
    BY <2>1, HeldUp
  <2>3. q # n
    BY <1>1, <2>1, KidsBelow DEF Nodes, Leaf
  <2>4. q \in Above(tree, n)
    BY <1>4, <2>2, <2>3 DEF q
  <2>5. PICK k \in Kids(tree, q) : n \in Below(tree, k)
    BY <1>1, <2>4, KidToward DEF Nodes
  <2>6. k \in Nodes /\ (k = n \/ k \in Above(tree, n))
    BY <1>1, <2>1, <2>5, KidsBelow DEF Below, Nodes
  <2>7. Held(k)
    BY <1>1, <2>6, HeldUp
  <2>8. Kid(q) = k /\ Kid(q) = x
    BY <1>3, <2>1, <2>4, <2>5, <2>7 DEF ChainInv, ChainAt
  <2> QED
    BY <2>6, <2>8
<1> HIDE DEF S
<1>5. Nodes \subseteq S
  BY <1>1, <1>2, <1>4, TreeInduction DEF Nodes
<1> QED
  BY <1>5 DEF S

\* While a decision is awaited inline nothing else of the plan is at work, not even
\* an orphan of an earlier Timeout.
THEOREM AloneCorrect == Spec => []ResolvingAlone
<1>1. RunInv => ResolvingAlone
  <2> SUFFICES ASSUME RunInv, NEW n \in Nodes, NEW m \in Nodes, pc[n] = "resolving", Working(m), m # n
               PROVE  FALSE
    BY DEF ResolvingAlone
  <2>1. m \in Above(tree, n)
    BY AloneInline DEF RunInv, Working, Held, Alive
  <2> QED
    BY <2>1, AboveLess DEF RunInv, TypeInv, PlanInv, Nodes, Working, Leaf
<1> QED
  BY <1>1, RunHolds, PTL

\* Two actions at work at the same time use no conflicting resources: the validator's
\* check of the Parallel branches is enough, with the orphans that Timeouts leave.
THEOREM ConflictCorrect == Spec => []NoConflictAtWork
<1>1. RunInv => NoConflictAtWork
  <2> SUFFICES ASSUME RunInv, NEW n \in OfType(tree, {"Action"}), NEW m \in OfType(tree, {"Action"}),
                      n # m, Working(n), Working(m)
               PROVE  ~BranchesConflict(tree, n, m)
    BY DEF NoConflictAtWork
  <2>1. n \in Nodes /\ m \in Nodes /\ Leaf(n) /\ Leaf(m) /\ Held(n) /\ Held(m)
    BY DEF OfType, Nodes, Leaf, LeafTypes, Working, Held, Alive
  <2>2. Tree(tree) /\ PlanInv /\ TypeInv /\ ChainInv
    BY DEF RunInv, TypeInv, PlanInv
  <2>3. \A a, b \in Nodes : a \in Below(tree, b) => a = b \/ ~Leaf(b)
    BY <2>2, AboveLess DEF Below, Nodes, Leaf
  <2>4. PICK p \in Nodes : \E a, b \in Kids(tree, p) : a # b /\ n \in Below(tree, a) /\ m \in Below(tree, b)
    BY <2>1, <2>2, <2>3, Fork DEF Nodes
  <2>5. PICK a \in Kids(tree, p), b \in Kids(tree, p) : a # b /\ n \in Below(tree, a) /\ m \in Below(tree, b)
    BY <2>4
  <2>6. a \in Nodes /\ b \in Nodes /\ ~Leaf(p)
    BY <2>2, KidsBelow DEF Nodes, Leaf
  <2>7. Held(a) /\ Held(b)
    BY <2>1, <2>2, <2>5, HeldUp DEF Below
  <2>8. ~Serial(p)
    BY <2>2, <2>5, <2>7 DEF ChainInv, ChainAt
  <2>9. tree[p].type # "Timeout"
    BY <2>2, <2>5, <2>6, BranchHasKids
  <2>10. tree[p].type = "Parallel" /\ ParallelConflictFree(tree)
    BY <2>2, <2>6, <2>8, <2>9 DEF PlanInv, Valid, NodeValid, Leaf, Serial, BranchTypes, Nodes
  <2>11. ~BranchesConflict(tree, a, b)
    BY <2>5, <2>10 DEF ParallelConflictFree, OfType, Nodes
  <2>12. ASSUME NEW x \in Nodes, NEW y \in Nodes, x \in Below(tree, y)
         PROVE  CollectActionResources(tree, x) \subseteq CollectActionResources(tree, y)
    <3>1. Below(tree, x) \subseteq Below(tree, y)
      BY <2>2, <2>12, AboveTransitive DEF Below, Nodes
    <3> QED
      BY <3>1 DEF CollectActionResources
  <2> QED
    BY <2>1, <2>5, <2>6, <2>11, <2>12 DEF BranchesConflict
<1> QED
  BY <1>1, RunHolds, PTL

-----------------------------------------------------------------------------
(* A result stays until its node is called again *)

LEMMA DoneStays ==
  ASSUME TypeInv, ChainInv, Moves, NEW n \in Nodes, IsDone(n), pc'[n] # "called"
  PROVE  IsDone(n)' /\ result'[n] = result[n]
<1>1. /\ pc \in [Nodes -> {"idle", "called", "run", "waiting", "resolving", "done", "joined", "raised"}]
      /\ result \in [Nodes -> Results]
  BY DEF TypeInv, ExecutorTypeOK
<1>2. pc[n] \in {"done", "joined"}
  BY DEF IsDone
<1>3. ASSUME NEW m \in Nodes, NEW r \in Results, Returns(m, r)  PROVE IsDone(n)' /\ result'[n] = result[n]
  <2>1. m # n
    BY <1>2, <1>3 DEF Returns, Concludes, JoinsThreads, TakesOver
  <2> QED
    BY <1>1, <1>2, <1>3, <2>1 DEF Returns, Return, IsDone
<1>4. ASSUME NEW m \in Nodes, Opens(m) \/ GoesOn(m)  PROVE IsDone(n)' /\ result'[n] = result[n]
  <2>1. m # n /\ result' = result
    BY <1>2, <1>4 DEF Opens, GoesOn, Proceed
  <2>2. pc'[n] = "called" \/ pc'[n] = pc[n]
    BY <1>4, <2>1 DEF Opens, GoesOn, Proceed, Call
  <2> QED
    BY <1>2, <2>1, <2>2 DEF IsDone
<1>5. ASSUME NEW m \in Nodes, IsJoined(m)  PROVE IsDone(n)' /\ result'[n] = result[n]
  BY <1>1, <1>2, <1>5 DEF IsJoined, IsDone
<1>6. ASSUME NEW m \in Nodes, Raises(m)  PROVE IsDone(n)' /\ result'[n] = result[n]
  <2>1. n \notin Frames(m)
    BY <1>2, <1>6, FramesWait DEF Raises, Alive
  <2> QED
    BY <1>1, <1>2, <1>6, <2>1 DEF Raises, IsDone
<1>7. ASSUME NEW m \in Nodes, NEW q \in {"run", "resolving"}, Turns(m, q)  PROVE IsDone(n)' /\ result'[n] = result[n]
  BY <1>1, <1>2, <1>7 DEF Turns, IsDone
<1>8. ASSUME Rests  PROVE IsDone(n)' /\ result'[n] = result[n]
  BY <1>2, <1>8 DEF Rests, IsDone
<1> QED
  BY <1>3, <1>4, <1>5, <1>6, <1>7, <1>8 DEF Moves

\* A node is called by its branch, the one after the last kid or the same again.
LEMMA CalledBy ==
  ASSUME TypeInv, Moves, NEW n \in Nodes, pc'[n] = "called", pc[n] # "called"
  PROVE  \E m \in Nodes : n \in Kids(tree, m) /\ (Opens(m) \/ (GoesOn(m) /\ n = Kid(m)'))
<1>1. /\ pc \in [Nodes -> {"idle", "called", "run", "waiting", "resolving", "done", "joined", "raised"}]
      /\ step \in [Nodes -> Nat \ {0}] /\ tree' = tree
  BY DEF TypeInv, ExecutorTypeOK, Moves, plan
<1>2. ASSUME NEW m \in Nodes, NEW r \in Results, Returns(m, r)  PROVE FALSE
  BY <1>1, <1>2 DEF Returns, Return
<1>3. ASSUME NEW m \in Nodes, Opens(m)  PROVE n \in Kids(tree, m)
  <2>1. tree[m].kids[1] \in Kids(tree, m)
    BY <1>3, BranchHasKids DEF Opens, TypeInv
  <2> QED
    BY <1>3, <2>1 DEF Opens, Call
<1>4. ASSUME NEW m \in Nodes, GoesOn(m)  PROVE n \in Kids(tree, m) /\ n = Kid(m)'
  <2> DEFINE k == IF tree[m].type = "Retry" THEN tree[m].kids[1] ELSE tree[m].kids[step[m] + 1]
  <2>1. step' = [step EXCEPT ![m] = step[m] + 1] /\ n = k
    BY <1>4 DEF GoesOn, Proceed, Call
  <2>2. n = Kid(m)'
    BY <1>1, <2>1 DEF Kid
  <2>3. PlanInv /\ ~Leaf(m) /\ step[m] \in Nat \ {0} /\ step[m] < Rounds(m)
    BY <1>1, <1>4 DEF GoesOn, TypeInv, PcInv
  <2>4. step[m] + 1 \in 1 .. Rounds(m)
    BY <2>3, BranchHasKids
  <2>5. k \in Kids(tree, m)
    BY <2>3, <2>4, BranchHasKids DEF Rounds
  <2> QED
    BY <2>1, <2>2, <2>5
<1>5. ASSUME NEW m \in Nodes, IsJoined(m) \/ Raises(m) \/ (\E q \in {"run", "resolving"} : Turns(m, q))  PROVE FALSE
  BY <1>1, <1>5 DEF IsJoined, Raises, Turns
<1>6. ASSUME Rests  PROVE FALSE
  BY <1>6 DEF Rests
<1> QED
  BY <1>2, <1>3, <1>4, <1>5, <1>6 DEF Moves

-----------------------------------------------------------------------------
(* Success *)

Succeeded(n) == IsDone(n) /\ result[n].success

\* A branch has the successes it reports, and a Sequence those of the kids before
\* the one it waits for.
EarnInv ==
  \A n \in Nodes :
    /\ pc[n] = "waiting" /\ tree[n].type = "Sequence" =>
         \A i \in 1 .. Len(tree[n].kids) : i < step[n] => Succeeded(tree[n].kids[i])
    /\ Succeeded(n) /\ ~Leaf(n) =>
         IF tree[n].type = "Fallback" THEN \E k \in Kids(tree, n) : Succeeded(k)
         ELSE \A k \in Kids(tree, n) : Succeeded(k)

\* What a branch returns with is earned.
LEMMA ReturnEarned ==
  ASSUME TypeInv, EarnInv, NEW n \in Nodes, NEW r, Returns(n, r), r.success, ~Leaf(n)
  PROVE  IF tree[n].type = "Fallback" THEN \E k \in Kids(tree, n) : Succeeded(k)
         ELSE \A k \in Kids(tree, n) : Succeeded(k)
<1>1. ~r.blocked /\ r # Fail({})
  BY DEF Returns, Sound, Fail, Result
<1>2. CASE Concludes(n, r)
  <2>1. pc[n] = "waiting" /\ Succeeded(Kid(n)) /\ Kid(n) \in Kids(tree, n) /\ step[n] \in Nat \ {0}
    BY <1>2, KidIsKid DEF Concludes, Succeeded, IsDone, TypeInv, ExecutorTypeOK
  <2>2. CASE tree[n].type = "Fallback"
    BY <2>1, <2>2
  <2>3. CASE tree[n].type = "Retry"
    BY <2>1, <2>3, BranchHasKids DEF TypeInv
  <2>4. CASE tree[n].type = "Sequence"
    <3>1. step[n] = Len(tree[n].kids) /\ Kid(n) = tree[n].kids[step[n]]
      BY <1>2, <2>4 DEF Concludes, Kid
    <3>2. \A i \in 1 .. Len(tree[n].kids) : i < step[n] => Succeeded(tree[n].kids[i])
      BY <2>1, <2>4 DEF EarnInv
    <3>3. \A i \in 1 .. Len(tree[n].kids) : Succeeded(tree[n].kids[i])
      BY <2>1, <3>1, <3>2
    <3>4. DOMAIN tree[n].kids = 1 .. Len(tree[n].kids)
      BY DEF TypeInv, PlanInv, Tree, WellFormed, Nodes
    <3> QED
      BY <2>4, <3>3, <3>4 DEF Kids, ToSet
  <2> QED
    BY <1>2, <2>2, <2>3, <2>4 DEF Concludes, Serial
<1>3. CASE JoinsThreads(n, r)
  BY <1>1, <1>3 DEF JoinsThreads, Succeeded, IsDone
<1>4. CASE TakesOver(n, r)
  <2>1. Kids(tree, n) = {Kid(n)} /\ tree[n].type # "Fallback"
    BY <1>4, KidIsKid, BranchHasKids DEF TakesOver, TypeInv
  <2> QED
    BY <1>1, <1>4, <2>1 DEF TakesOver, Succeeded, IsDone
<1> QED
  BY <1>1, <1>2, <1>3, <1>4 DEF Returns

LEMMA EarnStep == ASSUME TypeInv, ChainInv, EarnInv, Moves PROVE EarnInv'
<1>1. tree' = tree /\ Nodes' = Nodes
  BY DEF Moves, plan, Nodes
<1>2. /\ pc \in [Nodes -> {"idle", "called", "run", "waiting", "resolving", "done", "joined", "raised"}]
      /\ step \in [Nodes -> Nat \ {0}] /\ result \in [Nodes -> Results]
  BY DEF TypeInv, ExecutorTypeOK
<1>3. \A k \in Nodes : Succeeded(k) /\ pc'[k] # "called" => Succeeded(k)'
  BY DoneStays DEF Succeeded
<1>4. \A p, q \in Nodes : Kids(tree, p) \cap Kids(tree, q) # {} => p = q
  BY DEF TypeInv, PlanInv, Tree, WellFormed, Nodes
<1>5. \A m \in Nodes : \A k \in Kids(tree, m) : k \in Nodes /\ k # m
  <2>1. Nodes \subseteq Nat
    BY DEF TypeInv, PlanInv, Tree, Nodes
  <2> QED
    BY <2>1, KidsBelow DEF TypeInv, PlanInv, Nodes
\* A kid that is called is that of a branch which is alive, before and after.
<1>6. ASSUME NEW n \in Nodes, NEW k \in Kids(tree, n), Succeeded(k), pc'[k] = "called"
      PROVE  (Opens(n) \/ (GoesOn(n) /\ k = Kid(n)')) /\ ~IsDone(n) /\ ~IsDone(n)'
  <2>1. k \in Nodes /\ pc[k] # "called"
    BY <1>5, <1>6 DEF Succeeded, IsDone
  <2>2. Opens(n) \/ (GoesOn(n) /\ k = Kid(n)')
    BY <1>4, <1>6, <2>1, CalledBy
  <2>3. pc[n] \in {"called", "waiting"}
    BY <2>2 DEF Opens, GoesOn
  <2>4. pc'[n] \in {"called", "waiting"}
    BY <2>2 DEF Opens, GoesOn, Proceed, Call
  <2> QED
    BY <2>2, <2>3, <2>4 DEF IsDone
<1>7. ASSUME NEW n \in Nodes, pc'[n] = "waiting", tree[n].type = "Sequence",
             NEW i \in 1 .. Len(tree[n].kids), i < step'[n],
             NEW k, k = tree[n].kids[i]
      PROVE  Succeeded(k)'
  <2>1. ~Leaf(n)
    BY <1>7 DEF Leaf, LeafTypes
  <2>2. k \in Kids(tree, n) /\ k \in Nodes /\ Len(tree[n].kids) \in Nat /\ i \in Nat
    BY <1>5, <1>7, <2>1, BranchHasKids DEF TypeInv
  <2>3. CASE Opens(n)
    <3>1. step'[n] = 1
      BY <1>2, <2>3 DEF Opens
    <3> QED
      BY <1>7, <2>2, <3>1
  <2>4. CASE GoesOn(n)
    <3>1. pc[n] = "waiting" /\ pc[Kid(n)] = "done" /\ result[Kid(n)].success /\ step'[n] = step[n] + 1
          /\ Kid(n) = tree[n].kids[step[n]] /\ step[n] \in Nat
      BY <1>2, <1>7, <2>4 DEF GoesOn, Proceed, Kid
    <3>2. Succeeded(k)
      <4>1. CASE i < step[n]
        BY <1>7, <3>1, <4>1 DEF EarnInv
      <4>2. CASE i = step[n]
        BY <1>7, <3>1, <4>2 DEF Succeeded, IsDone
      <4> QED
        BY <1>7, <2>2, <3>1, <4>1, <4>2
    <3>3. k # Kid(n)'
      <4>1. Kid(n)' = tree[n].kids[step[n] + 1]
        BY <1>1, <1>7, <3>1 DEF Kid
      <4>2. step[n] + 1 \in 1 .. Len(tree[n].kids)
        BY <1>7, <2>2, <2>4, <3>1 DEF GoesOn, Rounds
      <4>3. IsInjective(tree[n].kids) /\ DOMAIN tree[n].kids = 1 .. Len(tree[n].kids)
        <5>1. tree[n].kids \in Seq({m \in DOMAIN tree : n < m}) /\ IsInjective(tree[n].kids)
          BY DEF TypeInv, PlanInv, Tree, WellFormed, Nodes
        <5> QED
          BY <5>1
      <4>4. i # step[n] + 1
        BY <1>7, <2>2, <3>1
      <4> QED
        BY <1>7, <4>1, <4>2, <4>3, <4>4 DEF IsInjective
    <3>4. ~Opens(n)
      BY <3>1 DEF Opens
    <3>5. pc'[k] # "called"
      BY <1>6, <2>2, <3>2, <3>3, <3>4
    <3> QED
      BY <1>3, <2>2, <3>2, <3>5
  <2>5. CASE ~Opens(n) /\ ~GoesOn(n)
    <3>1. pc[n] = "waiting" /\ step'[n] = step[n]
      <4>1. ASSUME NEW m \in Nodes, Opens(m) \/ GoesOn(m)  PROVE pc[n] = "waiting" /\ step'[n] = step[n]
        <5>1. m # n /\ step'[n] = step[n]
          BY <1>2, <2>5, <4>1 DEF Opens, GoesOn, Proceed
        <5>2. pc'[n] = "called" \/ pc'[n] = pc[n]
          BY <4>1, <5>1 DEF Opens, GoesOn, Proceed, Call
        <5> QED
          BY <1>7, <5>1, <5>2
      <4>2. ASSUME NEW m \in Nodes, \/ \E r \in Results : Returns(m, r)
                                    \/ IsJoined(m) \/ Raises(m) \/ \E q \in {"run", "resolving"} : Turns(m, q)
            PROVE  pc[n] = "waiting" /\ step'[n] = step[n]
        BY <1>2, <1>7, <4>2 DEF Returns, Return, IsJoined, Raises, Turns
      <4>3. ASSUME Rests  PROVE pc[n] = "waiting" /\ step'[n] = step[n]
        BY <1>7, <4>3 DEF Rests
      <4> QED
        BY <4>1, <4>2, <4>3 DEF Moves
    <3>2. Succeeded(k)
      BY <1>7, <3>1 DEF EarnInv
    <3>3. pc'[k] # "called"
      BY <1>6, <2>2, <2>5, <3>2
    <3> QED
      BY <1>3, <2>2, <3>2, <3>3
  <2> QED
    BY <2>3, <2>4, <2>5
<1>8. ASSUME NEW n \in Nodes, Succeeded(n)', ~Leaf(n)
      PROVE  IF tree[n].type = "Fallback" THEN \E k \in Kids(tree, n) : Succeeded(k)'
             ELSE \A k \in Kids(tree, n) : Succeeded(k)'
  <2>1. IF tree[n].type = "Fallback" THEN \E k \in Kids(tree, n) : Succeeded(k)
        ELSE \A k \in Kids(tree, n) : Succeeded(k)
    <3>1. CASE \E r \in Results : Returns(n, r)
      <4>1. PICK r \in Results : Returns(n, r)
        BY <3>1
      <4>2. r.success
        BY <1>2, <1>8, <4>1 DEF Returns, Return, Succeeded
      <4> QED
        BY <1>8, <4>1, <4>2, ReturnEarned
    <3>2. CASE ~\E r \in Results : Returns(n, r)
      <4>1. Succeeded(n)
        <5>1. ASSUME NEW m \in Nodes, Opens(m) \/ GoesOn(m)  PROVE Succeeded(n)
          <6>1. m # n
            BY <1>8, <5>1 DEF Opens, GoesOn, Proceed, Call, Succeeded, IsDone
          <6>2. (pc'[n] = "called" \/ pc'[n] = pc[n]) /\ result' = result
            BY <5>1, <6>1 DEF Opens, GoesOn, Proceed, Call
          <6> QED
            BY <1>8, <6>2 DEF Succeeded, IsDone
        <5>2. ASSUME NEW m \in Nodes, IsJoined(m) \/ Raises(m) \/ \E q \in {"run", "resolving"} : Turns(m, q)
              PROVE  Succeeded(n)
          BY <1>2, <1>8, <5>2 DEF IsJoined, Raises, Turns, Succeeded, IsDone
        <5>3. ASSUME Rests  PROVE Succeeded(n)
          BY <1>8, <5>3 DEF Rests, Succeeded, IsDone
        <5>4. ASSUME NEW m \in Nodes, NEW r \in Results, Returns(m, r)  PROVE Succeeded(n)
          BY <1>2, <1>8, <3>2, <5>4 DEF Returns, Return, Succeeded, IsDone
        <5> QED
          BY <5>1, <5>2, <5>3, <5>4 DEF Moves
      <4> QED
        BY <1>8, <4>1 DEF EarnInv
    <3> QED
      BY <3>1, <3>2
  <2>2. \A k \in Kids(tree, n) : Succeeded(k) => Succeeded(k)'
    BY <1>3, <1>5, <1>6, <1>8 DEF Succeeded
  <2> QED
    BY <2>1, <2>2
<1>9. \A n : Leaf(n)' <=> Leaf(n)
  BY <1>1 DEF Leaf
<1> QED
  BY <1>1, <1>7, <1>8, <1>9 DEF EarnInv

LEMMA EarnHolds == Spec => [](RunInv /\ EarnInv)
<1>1. ASSUME Init
      PROVE  EarnInv
  <2>1. \A n \in Nodes : pc[n] \in {"idle", "called"}
    BY <1>1 DEF Init
  <2>2. \A n \in Nodes : pc[n] # "waiting" /\ ~Succeeded(n)
    BY <2>1 DEF Succeeded, IsDone
  <2> QED
    BY <2>2 DEF EarnInv
<1>2. RunInv /\ EarnInv /\ [Next]_vars => EarnInv'
  BY TypeStep, EarnStep DEF RunInv
<1> QED
  BY <1>1, <1>2, RunHolds, PTL DEF Spec

\* The nodes that earn a success if those of X do.
EarnedBy(X) ==
  {n \in Nodes : IF Leaf(n) THEN Succeeded(n)
                 ELSE IF tree[n].type = "Fallback" THEN \E k \in Kids(tree, n) : k \in X
                 ELSE \A k \in Kids(tree, n) : k \in X}

\* The least set that is closed under it.
Earners == {n \in Nodes : \A X \in SUBSET Nodes : EarnedBy(X) \subseteq X => n \in X}

LEMMA EarnersAre == ASSUME TypeInv PROVE EarnedBy(Earners) = Earners
<1>0. ASSUME NEW X, NEW Y, X \subseteq Y
      PROVE  EarnedBy(X) \subseteq EarnedBy(Y)
  <2> SUFFICES ASSUME NEW n \in EarnedBy(X)
               PROVE  n \in EarnedBy(Y)
    OBVIOUS
  <2>1. CASE Leaf(n)
    BY <2>1 DEF EarnedBy
  <2>2. CASE ~Leaf(n) /\ tree[n].type = "Fallback"
    BY <1>0, <2>2 DEF EarnedBy
  <2>3. CASE ~Leaf(n) /\ tree[n].type # "Fallback"
    BY <1>0, <2>3 DEF EarnedBy
  <2> QED
    BY <2>1, <2>2, <2>3
<1>1. \A X : EarnedBy(X) \in SUBSET Nodes
  BY DEF EarnedBy
<1>2. EarnedBy(Earners) \subseteq Earners
  <2>1. ASSUME NEW X \in SUBSET Nodes, EarnedBy(X) \subseteq X
        PROVE  EarnedBy(Earners) \subseteq X
    <3>1. Earners \subseteq X
      BY <2>1 DEF Earners
    <3> QED
      BY <1>0, <2>1, <3>1
  <2> QED
    BY <1>1, <2>1 DEF Earners
<1>3. EarnedBy(EarnedBy(Earners)) \subseteq EarnedBy(Earners)
  BY <1>0, <1>2
<1>4. Earners \subseteq EarnedBy(Earners)
  BY <1>1, <1>3 DEF Earners
<1> QED
  BY <1>2, <1>4

\* A tree reports success only if its leaves earned it.
THEOREM EarnedCorrect == Spec => []EarnedSuccess
<1>1. ASSUME RunInv, EarnInv
      PROVE  EarnedSuccess
  <2> DEFINE Is(f) == f = [n \in Nodes |->
                CASE Leaf(n) -> IsDone(n) /\ result[n].success
                  [] tree[n].type = "Fallback" -> \E k \in Kids(tree, n) : f[k]
                  [] OTHER -> \A k \in Kids(tree, n) : f[k]]
             g == [n \in Nodes |-> n \in Earners]
             h == CHOOSE f : Is(f)
             S == {n \in Nodes : Succeeded(n) => h[n]}
  <2>1. TypeInv /\ Tree(tree) /\ MaxNodes \in Nat /\ Nodes \subseteq 1 .. MaxNodes
    BY <1>1, PlansAssumption DEF RunInv, TypeInv, PlanInv
  <2>2. \A n \in Nodes : \A k \in Kids(tree, n) : k \in Nodes
    BY <2>1, KidsBelow DEF Nodes
  <2>3. Is(g)
    <3>1. ASSUME NEW n \in Nodes
          PROVE  (n \in Earners) = CASE Leaf(n) -> IsDone(n) /\ result[n].success
                                     [] tree[n].type = "Fallback" -> \E k \in Kids(tree, n) : g[k]
                                     [] OTHER -> \A k \in Kids(tree, n) : g[k]
      <4>1. n \in Earners <=> n \in EarnedBy(Earners)
        BY <2>1, EarnersAre
      <4>2. \A k \in Kids(tree, n) : g[k] = (k \in Earners)
        BY <2>2
      <4> HIDE DEF g
      <4>3. CASE Leaf(n)
        <5>0. tree[n].type # "Fallback"
          BY <4>3 DEF Leaf, LeafTypes
        <5>1. n \in Earners <=> IsDone(n) /\ result[n].success
          BY <4>1, <4>3 DEF EarnedBy, Succeeded
        <5>2. CASE n \in Earners
          <6>1. (n \in Earners) = TRUE /\ (IsDone(n) /\ result[n].success) = TRUE
            BY <5>1, <5>2
          <6> QED
            BY <6>1, <4>3, <5>0
        <5>3. CASE n \notin Earners
          <6>1. (n \in Earners) = FALSE /\ (IsDone(n) /\ result[n].success) = FALSE
            BY <5>1, <5>3
          <6> QED
            BY <6>1, <4>3, <5>0
        <5> QED
          BY <5>2, <5>3
      <4>4. CASE ~Leaf(n) /\ tree[n].type = "Fallback"
        <5>1. n \in Earners <=> \E k \in Kids(tree, n) : g[k]
          BY <4>1, <4>2, <4>4 DEF EarnedBy
        <5>2. CASE n \in Earners
          <6>1. (n \in Earners) = TRUE /\ (\E k \in Kids(tree, n) : g[k]) = TRUE
            BY <5>1, <5>2
          <6> QED
            BY <6>1, <4>4
        <5>3. CASE n \notin Earners
          <6>1. (n \in Earners) = FALSE /\ (\E k \in Kids(tree, n) : g[k]) = FALSE
            BY <5>1, <5>3
          <6> QED
            BY <6>1, <4>4
        <5> QED
          BY <5>2, <5>3
      <4>5. CASE ~Leaf(n) /\ tree[n].type # "Fallback"
        <5>1. n \in Earners <=> \A k \in Kids(tree, n) : g[k]
          BY <4>1, <4>2, <4>5 DEF EarnedBy
        <5>2. CASE n \in Earners
          <6>1. (n \in Earners) = TRUE /\ (\A k \in Kids(tree, n) : g[k]) = TRUE
            BY <5>1, <5>2
          <6> QED
            BY <6>1, <4>5
        <5>3. CASE n \notin Earners
          <6>1. (n \in Earners) = FALSE /\ (\A k \in Kids(tree, n) : g[k]) = FALSE
            BY <5>1, <5>3
          <6> QED
            BY <6>1, <4>5
        <5> QED
          BY <5>2, <5>3
      <4> QED
        BY <4>3, <4>4, <4>5
    <3> QED
      BY <3>1
  <2>4. Is(h)
    BY <2>3
  <2>5. EarnedSuccess <=> (IsDone(1) /\ result[1].success => h[1])
    BY DEF EarnedSuccess
  <2> HIDE DEF h
  <2>6. ASSUME NEW n \in Nodes, Kids(tree, n) \subseteq S, Succeeded(n)
        PROVE  h[n]
    <3>1. CASE Leaf(n)
      <4>1. h[n] = (IsDone(n) /\ result[n].success)
        BY <2>4, <3>1 DEF Leaf, LeafTypes
      <4> QED
        BY <2>6, <4>1 DEF Succeeded
    <3>2. CASE ~Leaf(n) /\ tree[n].type = "Fallback"
      <4>1. h[n] = \E k \in Kids(tree, n) : h[k]
        BY <2>4, <3>2
      <4> QED
        BY <1>1, <2>6, <3>2, <4>1 DEF EarnInv
    <3>3. CASE ~Leaf(n) /\ tree[n].type # "Fallback"
      <4>1. h[n] = \A k \in Kids(tree, n) : h[k]
        BY <2>4, <3>3
      <4> QED
        BY <1>1, <2>6, <3>3, <4>1 DEF EarnInv
    <3> QED
      BY <3>1, <3>2, <3>3
  <2>7. \A n \in DOMAIN tree : Kids(tree, n) \subseteq S => n \in S
    BY <2>6 DEF Nodes
  <2> HIDE DEF S
  <2>8. DOMAIN tree \subseteq S
    BY <2>1, <2>7, KidsFirst DEF Nodes
  <2>9. 1 \in S
    BY <2>1, <2>8 DEF Tree, WellFormed
  <2> QED
    BY <2>5, <2>9 DEF S, Succeeded
<1> QED
  BY <1>1, EarnHolds, PTL

-----------------------------------------------------------------------------
(* Facts *)

\* The facts a node was called with, its branch's.
Up(n) == IF n = 1 THEN {} ELSE board[Parent(tree, n)]

\* A node that is called, or a Timeout that waits, has no facts but its branch's.
BoardInv ==
  \A n \in Nodes :
    pc[n] = "called" \/ (pc[n] = "waiting" /\ tree[n].type = "Timeout") => Names(board[n]) \subseteq Names(Up(n))

\* Where the facts of the leaf l are, as seen from a node n above it: in what n is
\* called with, in what n returns or its branch has, in what n has of the kids it
\* is past.
FactsAt(n, l) ==
  Leaf(l) /\ IsDone(l) =>
    /\ pc[n] = "called" => Names(result[l].facts) \subseteq Names(board[n])
    /\ IsDone(n) /\ ~result[n].blocked => Names(result[l].facts) \subseteq Names(result[n].facts) \cup Names(Up(n))
    /\ pc[n] = "waiting" /\ Serial(n) /\ l \notin Below(tree, Kid(n)) => Names(result[l].facts) \subseteq Names(board[n])

FactsInv == BoardInv /\ \A n \in Nodes : \A l \in Below(tree, n) : FactsAt(n, l)

\* The kids of a branch, and where a node below it is.
LEMMA BelowKids ==
  ASSUME TypeInv
  PROVE  /\ \A m \in Nodes : \A k \in Kids(tree, m) :
              k \in Nodes \ {1} /\ k # m /\ Parent(tree, k) = m /\ Up(k) = board[m]
              /\ ~Leaf(m) /\ Below(tree, k) \subseteq Below(tree, m)
         /\ \A n \in Nodes : \A l \in Below(tree, n) :
              /\ l \in Nodes /\ (Leaf(n) => l = n)
              /\ l # n => n \in Above(tree, l) /\ \E k \in Kids(tree, n) : l \in Below(tree, k)
<1>1. Tree(tree) /\ Nodes \subseteq Nat
  BY DEF TypeInv, PlanInv, Tree, Nodes
<1>2. ASSUME NEW m \in Nodes, NEW k \in Kids(tree, m)
      PROVE  k \in Nodes \ {1} /\ k # m /\ Parent(tree, k) = m /\ Up(k) = board[m]
             /\ ~Leaf(m) /\ Below(tree, k) \subseteq Below(tree, m)
  <2>1. k \in Nodes \ {1} /\ m < k /\ ~Leaf(m) /\ Parent(tree, k) = m
    BY <1>1, KidsBelow, KidHasParent DEF Nodes, Leaf
  <2>2. Below(tree, k) \subseteq Below(tree, m)
    BY <1>1, KidsAreBelow DEF Below, Nodes
  <2> QED
    BY <1>1, <2>1, <2>2 DEF Up
<1>3. ASSUME NEW n \in Nodes, NEW l \in Below(tree, n)
      PROVE  /\ l \in Nodes /\ (Leaf(n) => l = n)
             /\ l # n => n \in Above(tree, l) /\ \E k \in Kids(tree, n) : l \in Below(tree, k)
  <2>1. l \in Nodes /\ (l # n => n \in Above(tree, l))
    BY DEF Below, Nodes
  <2> QED
    BY <1>1, <2>1, AboveLess, KidToward DEF Nodes, Leaf
<1> QED
  BY <1>2, <1>3

\* What a branch has once a kid has returned to it holds a fact of every name that a leaf
\* below returned one under.
LEMMA MergedKept ==
  ASSUME TypeInv, FactsInv, NEW n \in Nodes, Serial(n), pc[n] = "waiting", pc[Kid(n)] = "done",
         ~result[Kid(n)].blocked, NEW l \in Below(tree, n), Leaf(l), IsDone(l)
  PROVE  Names(result[l].facts) \subseteq Names(Merged(n))
<1>1. Kid(n) \in Nodes /\ Up(Kid(n)) = board[n] /\ IsDone(Kid(n))
  BY KidIsKid, BelowKids DEF IsDone
<1>2. /\ Names(board[n]) \subseteq Names(Merged(n))
      /\ Names(result[Kid(n)].facts) \subseteq Names(Merged(n))
  BY UpdatedPair, Zenon DEF Merged
<1>3. CASE l \in Below(tree, Kid(n))
  BY <1>1, <1>2, <1>3 DEF FactsInv, FactsAt
<1>4. CASE l \notin Below(tree, Kid(n))
  BY <1>2, <1>4 DEF FactsInv, FactsAt
<1> QED
  BY <1>3, <1>4

\* A branch that returns passes them on, or its own branch has them.
LEMMA ReturnKept ==
  ASSUME TypeInv, FactsInv, NEW n \in Nodes, NEW r, Returns(n, r), ~r.blocked,
         NEW l \in Below(tree, n), Leaf(l), IsDone(l)
  PROVE  Names(result[l].facts) \subseteq Names(r.facts) \cup Names(Up(n))
<1>1. l # n
  BY DEF Returns, Concludes, JoinsThreads, TakesOver, IsDone
<1>2. PICK k \in Kids(tree, n) : l \in Below(tree, k)
  BY <1>1, BelowKids
<1>3. k \in Nodes /\ Up(k) = board[n] /\ ~Leaf(n)
  BY <1>2, BelowKids
<1>4. CASE pc[n] = "called"
  BY <1>4 DEF FactsInv, FactsAt, BoardInv
<1>5. CASE Concludes(n, r)
  BY <1>5, MergedKept DEF Concludes
<1>6. CASE JoinsThreads(n, r)
  <2>1. pc[k] = "joined" /\ Names(result[k].facts) \subseteq Names(r.facts) /\ ~result[k].blocked /\ Names(board[n]) \subseteq Names(r.facts)
    BY <1>6 DEF JoinsThreads
  <2> QED
    BY <1>2, <1>3, <2>1 DEF FactsInv, FactsAt, IsDone
<1>7. CASE TakesOver(n, r)
  <2>1. k = Kid(n)
    BY <1>7, KidIsKid, BranchHasKids DEF TakesOver, TypeInv
  <2>2. pc[k] = "done" /\ r = result[k] /\ Names(board[n]) \subseteq Names(Up(n))
    BY <1>7, <2>1 DEF TakesOver, FactsInv, BoardInv
  <2> QED
    BY <1>2, <1>3, <2>2 DEF FactsInv, FactsAt, IsDone
<1> QED
  BY <1>3, <1>4, <1>5, <1>6, <1>7 DEF Returns

\* A node that is done was so before, with the same result, or returns now.
LEMMA DoneNow ==
  ASSUME TypeInv, ChainInv, Moves, NEW n \in Nodes, IsDone(n)'
  PROVE  (IsDone(n) /\ result'[n] = result[n]) \/ \E r \in Results : Returns(n, r)
<1>1. /\ pc \in [Nodes -> {"idle", "called", "run", "waiting", "resolving", "done", "joined", "raised"}]
      /\ result \in [Nodes -> Results]
  BY DEF TypeInv, ExecutorTypeOK
<1>2. pc'[n] \in {"done", "joined"}
  BY DEF IsDone
<1>3. CASE IsDone(n)
  BY <1>2, <1>3, DoneStays
<1>4. CASE ~IsDone(n)
  <2>1. ASSUME NEW m \in Nodes, NEW r \in Results, Returns(m, r)  PROVE n = m
    BY <1>1, <1>2, <1>4, <2>1 DEF Returns, Return, IsDone
  <2>2. ASSUME NEW m \in Nodes, Opens(m) \/ GoesOn(m)  PROVE FALSE
    BY <1>2, <1>4, <2>2 DEF Opens, GoesOn, Proceed, Call, IsDone
  <2>3. ASSUME NEW m \in Nodes, IsJoined(m) \/ Raises(m) \/ (\E q \in {"run", "resolving"} : Turns(m, q))
        PROVE  FALSE
    BY <1>1, <1>2, <1>4, <2>3 DEF IsJoined, Raises, Turns, IsDone
  <2>4. ASSUME Rests  PROVE FALSE
    BY <1>2, <1>4, <2>4 DEF Rests, IsDone
  <2> QED
    BY <2>1, <2>2, <2>3, <2>4 DEF Moves
<1> QED
  BY <1>3, <1>4

\* Calling kids of n with what n has then, which holds a fact of every name that a leaf
\* below returned one under.
LEMMA CallKept ==
  ASSUME TypeInv, ChainInv, FactsInv, NEW n \in Nodes, pc[n] \in {"called", "waiting"},
         NEW K \in SUBSET Kids(tree, n), NEW facts, Call(n, K, facts), Serial(n) \/ facts = board[n],
         pc[n] = "called" => facts = board[n],
         \A k \in Kids(tree, n) : ~Held(k),
         NEW s, step' = [step EXCEPT ![n] = s], UNCHANGED <<plan, result>>,
         \A l \in Below(tree, n) : Leaf(l) /\ IsDone(l) => Names(result[l].facts) \subseteq Names(facts)
  PROVE  FactsInv'
<1>1. tree' = tree /\ Nodes' = Nodes /\ (\A x : Leaf(x)' <=> Leaf(x)) /\ result' = result
  BY DEF plan, Nodes, Leaf
<1>2. /\ pc' = [m \in Nodes |-> IF m \in K THEN "called" ELSE IF m = n THEN "waiting" ELSE pc[m]]
      /\ board' = [m \in Nodes |-> IF m \in K \cup {n} THEN facts ELSE board[m]]
  BY DEF Call
<1>3. step \in [Nodes -> Nat \ {0}]
  BY DEF TypeInv, ExecutorTypeOK
<1>4. n \notin K /\ \A k \in K : k \in Nodes \ {1} /\ Parent(tree, k) = n
  BY BelowKids
<1>5. \A x : Up(x)' = IF x = 1 THEN {} ELSE board'[Parent(tree, x)]
  BY <1>1 DEF Up
<1>6. \A x \in Nodes \ {1} : Parent(tree, x) \in Nodes /\ x \in Kids(tree, Parent(tree, x))
  BY ParentIs DEF TypeInv, PlanInv, Nodes
<1>7. \A k \in Kids(tree, n) : Up(k)' = facts
  BY <1>2, <1>5, BelowKids
\* No live node is a kid of n or of a kid that is called.
<1>8. ASSUME NEW x \in Nodes, Alive(x)
      PROVE  x = 1 \/ (Parent(tree, x) \notin K \cup {n} /\ Up(x)' = Up(x))
  <2> SUFFICES ASSUME x # 1
               PROVE  Parent(tree, x) \notin K \cup {n} /\ Up(x)' = Up(x)
    OBVIOUS
  <2> DEFINE p == Parent(tree, x)
  <2>1. p \in Nodes /\ x \in Kids(tree, p)
    BY <1>6
  <2>2. p # n
    BY <1>8, <2>1 DEF Held
  <2>3. Held(p)
    BY <1>8, <2>1 DEF ChainInv, ChainAt, Held, Alive
  <2>4. p \notin K
    BY <2>3
  <2>5. board'[p] = board[p]
    BY <1>2, <2>1, <2>2, <2>4
  <2> QED
    BY <1>5, <2>2, <2>4, <2>5 DEF Up
<1>9. BoardInv'
  <2> SUFFICES ASSUME NEW x \in Nodes, pc'[x] = "called" \/ (pc'[x] = "waiting" /\ tree[x].type = "Timeout")
               PROVE  Names(board'[x]) \subseteq Names(Up(x)')
    BY <1>1 DEF BoardInv, Names, FactKey
  <2>1. CASE x \in K
    BY <1>2, <1>7, <2>1
  <2>2. CASE x \notin K
    <3>1. Alive(x)
      BY <1>2, <2>2 DEF Alive
    <3>2. Up(x)' = Up(x)
      BY <1>5, <1>8, <3>1 DEF Up
    <3>3. Names(board[x]) \subseteq Names(Up(x)) /\ board'[x] = board[x]
      <4>1. CASE x = n
        <5>1. tree[n].type = "Timeout" \/ pc[n] = "called"
          BY <1>2, <1>4, <4>1
        <5>2. facts = board[n]
          BY <5>1 DEF Serial
        <5> QED
          BY <1>2, <4>1, <5>1, <5>2 DEF FactsInv, BoardInv
      <4>2. CASE x # n
        BY <1>2, <2>2, <4>2 DEF FactsInv, BoardInv
      <4> QED
        BY <4>1, <4>2
    <3> QED
      BY <3>2, <3>3
  <2> QED
    BY <2>1, <2>2
<1>10. ASSUME NEW x \in Nodes, NEW l \in Below(tree, x), Leaf(l), IsDone(l)'
       PROVE  /\ pc'[x] = "called" => Names(result[l].facts) \subseteq Names(board'[x])
              /\ IsDone(x)' /\ ~result[x].blocked => Names(result[l].facts) \subseteq Names(result[x].facts) \cup Names(Up(x)')
              /\ pc'[x] = "waiting" /\ Serial(x) /\ l \notin Below(tree, Kid(x)') => Names(result[l].facts) \subseteq Names(board'[x])
  <2>1. l \in Nodes /\ IsDone(l) /\ l \notin K /\ l # n
    BY <1>2, <1>10, BelowKids DEF IsDone
  <2>2. CASE x \in K \cup {n}
    <3>1. l \in Below(tree, n)
      BY <2>2, BelowKids
    <3>2. Names(result[l].facts) \subseteq Names(facts) /\ board'[x] = facts
      BY <1>2, <1>10, <2>1, <2>2, <3>1
    <3>3. ~IsDone(x)'
      BY <1>2, <2>2 DEF IsDone
    <3> QED
      BY <3>2, <3>3
  <2>3. CASE x \notin K \cup {n}
    <3>1. pc'[x] = pc[x] /\ board'[x] = board[x] /\ Kid(x)' = Kid(x)
      BY <1>1, <1>2, <1>3, <2>3 DEF Kid
    <3>2. FactsAt(x, l)
      BY DEF FactsInv
    <3>3. ASSUME x # 1, Parent(tree, x) \in K \cup {n}
          PROVE  Names(result[l].facts) \subseteq Names(Up(x)')
      <4>1. l \in Below(tree, n)
        BY <1>6, <3>3, BelowKids
      <4>2. Up(x)' = facts
        BY <1>2, <1>4, <1>5, <3>3
      <4> QED
        BY <1>10, <2>1, <4>1, <4>2
    <3>4. x = 1 \/ Parent(tree, x) \notin K \cup {n} => Up(x)' = Up(x)
      <4>1. CASE x = 1
        BY <1>5, <4>1 DEF Up
      <4>2. CASE x # 1
        BY <1>2, <1>5, <1>6, <4>2 DEF Up
      <4> QED
        BY <4>1, <4>2
    <3>5. IsDone(x)' <=> IsDone(x)
      BY <3>1 DEF IsDone
    <3> QED
      BY <1>10, <2>1, <3>1, <3>2, <3>3, <3>4, <3>5 DEF FactsAt
  <2> QED
    BY <2>2, <2>3
<1>11. \A x : Serial(x)' <=> Serial(x)
  BY <1>1 DEF Serial
<1>12. ASSUME NEW x \in Nodes, NEW l \in Below(tree, x)
       PROVE  FactsAt(x, l)'
  <2> SUFFICES ASSUME Leaf(l), IsDone(l)'
               PROVE  /\ pc'[x] = "called" => Names(result[l].facts) \subseteq Names(board'[x])
                      /\ IsDone(x)' /\ ~result[x].blocked =>
                           Names(result[l].facts) \subseteq Names(result[x].facts) \cup Names(Up(x)')
                      /\ pc'[x] = "waiting" /\ Serial(x) /\ l \notin Below(tree, Kid(x)') =>
                           Names(result[l].facts) \subseteq Names(board'[x])
    BY <1>1, <1>11 DEF FactsAt, Names, FactKey
  <2> QED
    BY <1>10
<1> QED
  BY <1>1, <1>9, <1>12 DEF FactsInv

LEMMA FactsStep == ASSUME TypeInv, ChainInv, FactsInv, Moves PROVE FactsInv'
<1>1. tree' = tree /\ Nodes' = Nodes /\ (\A x : Leaf(x)' <=> Leaf(x)) /\ (\A x : Serial(x)' <=> Serial(x))
  BY DEF Moves, plan, Nodes, Leaf, Serial
<1>2. /\ pc \in [Nodes -> {"idle", "called", "run", "waiting", "resolving", "done", "joined", "raised"}]
      /\ step \in [Nodes -> Nat \ {0}] /\ result \in [Nodes -> Results]
  BY DEF TypeInv, ExecutorTypeOK
\* A step that calls no node changes what is seen from the nodes that return only.
<1>3. ASSUME UNCHANGED <<step, board>>,
             \A x \in Nodes : pc'[x] \in {"called", "waiting"} => pc'[x] = pc[x],
             \A x \in Nodes : IsDone(x)' => (IsDone(x) /\ result'[x] = result[x]) \/ \E r \in Results : Returns(x, r)
      PROVE  FactsInv'
  <2>1. \A x : Up(x)' = Up(x)
    BY <1>1, <1>3 DEF Up
  <2>2. BoardInv'
    BY <1>1, <1>3, <2>1 DEF FactsInv, BoardInv, Names, FactKey
  <2>3. \A x : Kid(x)' = Kid(x)
    BY <1>1, <1>3 DEF Kid
  <2>4. ASSUME NEW x \in Nodes, NEW l \in Below(tree, x), Leaf(l), IsDone(l)'
        PROVE  /\ pc'[x] = "called" => Names(result'[l].facts) \subseteq Names(board[x])
               /\ IsDone(x)' /\ ~result'[x].blocked => Names(result'[l].facts) \subseteq Names(result'[x].facts) \cup Names(Up(x))
               /\ pc'[x] = "waiting" /\ Serial(x) /\ l \notin Below(tree, Kid(x)) => Names(result'[l].facts) \subseteq Names(board[x])
    <3>1. l \in Nodes
      BY BelowKids
    <3>2. CASE IsDone(l) /\ result'[l] = result[l]
      <4>1. FactsAt(x, l)
        BY DEF FactsInv
      <4>2. ASSUME NEW r \in Results, Returns(x, r), ~result'[x].blocked
            PROVE  Names(result'[l].facts) \subseteq Names(result'[x].facts) \cup Names(Up(x))
        <5>1. result'[x] = r
          BY <1>2, <4>2 DEF Returns, Return
        <5> QED
          BY <2>4, <3>2, <4>2, <5>1, ReturnKept
      <4> QED
        BY <1>3, <2>4, <3>2, <4>1, <4>2 DEF FactsAt
    <3>3. CASE \E r \in Results : Returns(l, r)
      <4>1. Alive(l) /\ Held(l)
        BY <3>3 DEF Returns, Alive, Concludes, JoinsThreads, TakesOver, Held
      <4>2. CASE x = l
        BY <1>2, <3>1, <3>3, <4>2 DEF Returns, Return
      <4>3. CASE x # l
        <5>1. x \in Above(tree, l)
          BY <4>3, BelowKids
        <5>2. pc[x] = "waiting" \/ Stuck(x)
          BY <3>1, <4>1, <5>1, HeldUp
        <5>3. pc'[x] = pc[x] /\ result'[x] = result[x]
          BY <1>2, <3>3, <4>3 DEF Returns, Return
        <5>4. PICK k \in Kids(tree, x) : l \in Below(tree, k)
          BY <4>3, BelowKids
        <5>5. Held(k)
          <6>1. k = l \/ k \in Above(tree, l)
            BY <5>4 DEF Below
          <6> QED
            BY <3>1, <4>1, <6>1, HeldUp
        <5>6. Serial(x) => Kid(x) = k
          BY <5>5 DEF ChainInv, ChainAt
        <5> QED
          BY <5>2, <5>3, <5>4, <5>6 DEF Stuck, IsDone
      <4> QED
        BY <4>2, <4>3
    <3> QED
      BY <1>3, <2>4, <3>1, <3>2, <3>3
  <2>5. ASSUME NEW x \in Nodes, NEW l \in Below(tree, x)
        PROVE  FactsAt(x, l)'
    <3> SUFFICES ASSUME Leaf(l), IsDone(l)'
                 PROVE  /\ pc'[x] = "called" => Names(result'[l].facts) \subseteq Names(board[x])
                        /\ IsDone(x)' /\ ~result'[x].blocked =>
                             Names(result'[l].facts) \subseteq Names(result'[x].facts) \cup Names(Up(x))
                        /\ pc'[x] = "waiting" /\ Serial(x) /\ l \notin Below(tree, Kid(x)) =>
                             Names(result'[l].facts) \subseteq Names(board[x])
      BY <1>1, <1>3, <2>1, <2>3 DEF FactsAt, Names, FactKey
    <3> QED
      BY <2>4
  <2> QED
    BY <1>1, <2>2, <2>5 DEF FactsInv
<1>4. \A x \in Nodes : IsDone(x)' => (IsDone(x) /\ result'[x] = result[x]) \/ \E r \in Results : Returns(x, r)
  BY DoneNow
<1>5. ASSUME NEW n \in Nodes, \/ \E r \in Results : Returns(n, r)
                              \/ IsJoined(n) \/ Raises(n) \/ \E q \in {"run", "resolving"} : Turns(n, q)
      PROVE  FactsInv'
  <2>1. UNCHANGED <<step, board>> /\ \A x \in Nodes : pc'[x] \in {"called", "waiting"} => pc'[x] = pc[x]
    BY <1>2, <1>5 DEF Returns, Return, IsJoined, Raises, Turns
  <2> QED
    BY <1>3, <1>4, <2>1
<1>6. ASSUME Rests  PROVE FactsInv'
  BY <1>3, <1>4, <1>6 DEF Rests
<1>7. ASSUME NEW n \in Nodes, Opens(n)  PROVE FactsInv'
  <2> DEFINE K == IF tree[n].type = "Parallel" THEN Kids(tree, n) ELSE {tree[n].kids[1]}
  <2>1. pc[n] = "called" /\ ~Leaf(n) /\ Call(n, K, board[n]) /\ step' = [step EXCEPT ![n] = 1] /\ UNCHANGED <<plan, result>>
    BY <1>7 DEF Opens, Moves
  <2>2. K \subseteq Kids(tree, n)
    BY <2>1, BranchHasKids DEF TypeInv
  <2>3. \A k \in Kids(tree, n) : ~Held(k)
    BY <1>7, NoneHeld
  <2>4. \A l \in Below(tree, n) : Leaf(l) /\ IsDone(l) => Names(result[l].facts) \subseteq Names(board[n])
    BY <2>1 DEF FactsInv, FactsAt
  <2> DEFINE facts == board[n]
  <2>5. facts = board[n] /\ Call(n, K, facts) /\ \A l \in Below(tree, n) : Leaf(l) /\ IsDone(l) => Names(result[l].facts) \subseteq Names(facts)
    BY <2>1, <2>4
  <2> HIDE DEF K, facts
  <2> QED
    BY <2>1, <2>2, <2>3, <2>5, CallKept
<1>8. ASSUME NEW n \in Nodes, GoesOn(n)  PROVE FactsInv'
  <2> DEFINE k == IF tree[n].type = "Retry" THEN tree[n].kids[1] ELSE tree[n].kids[step[n] + 1]
  <2>1. pc[n] = "waiting" /\ Call(n, {k}, Merged(n)) /\ step' = [step EXCEPT ![n] = step[n] + 1]
        /\ UNCHANGED <<plan, result>> /\ Serial(n) /\ pc[Kid(n)] = "done" /\ ~result[Kid(n)].blocked
    BY <1>8 DEF GoesOn, Proceed, Moves
  <2>2. k \in Kids(tree, n)
    <3>1. PlanInv /\ ~Leaf(n) /\ step[n] < Rounds(n) /\ step[n] \in Nat \ {0}
      BY <1>2, <1>8, <2>1 DEF GoesOn, TypeInv, PcInv
    <3>2. step[n] + 1 \in 1 .. Rounds(n)
      BY <3>1, BranchHasKids
    <3> QED
      BY <3>1, <3>2, BranchHasKids DEF Rounds
  <2>3. \A m \in Kids(tree, n) : ~Held(m)
    BY <1>8, NoneHeld
  <2>4. \A l \in Below(tree, n) : Leaf(l) /\ IsDone(l) => Names(result[l].facts) \subseteq Names(Merged(n))
    BY <2>1, MergedKept
  <2> HIDE DEF k
  <2> DEFINE K == {k}
             facts == Merged(n)
             s == step[n] + 1
  <2>5. K \in SUBSET Kids(tree, n) /\ Call(n, K, facts) /\ step' = [step EXCEPT ![n] = s]
        /\ \A l \in Below(tree, n) : Leaf(l) /\ IsDone(l) => Names(result[l].facts) \subseteq Names(facts)
    BY <2>1, <2>2, <2>4
  <2> HIDE DEF K, facts, s
  <2> QED
    BY <2>1, <2>3, <2>5, CallKept
<1> QED
  BY <1>5, <1>6, <1>7, <1>8 DEF Moves

\* A run that succeeds hands the final goal check a fact of every name its leaves
\* wrote one under, those of failed branches and attempts included.
THEOREM FactsCorrect == Spec => []FactsReachGoalCheck
<1>1. ASSUME Init
      PROVE  FactsInv
  <2>1. \A n \in Nodes : pc[n] \in {"idle", "called"} /\ board[n] = {}
    BY <1>1 DEF Init
  <2>2. \A n \in Nodes : ~IsDone(n) /\ pc[n] # "waiting"
    BY <2>1 DEF IsDone
  <2>3. \A n \in Nodes : \A l \in Below(tree, n) : l \in Nodes
    BY <1>1, RunInitial, BelowKids DEF RunInv
  <2> QED
    BY <2>1, <2>2, <2>3 DEF FactsInv, BoardInv, FactsAt, Names
<1>2. RunInv /\ FactsInv /\ [Next]_vars => FactsInv'
  BY TypeStep, FactsStep DEF RunInv
<1>3. ASSUME RunInv, FactsInv
      PROVE  FactsReachGoalCheck
  <2> SUFFICES ASSUME IsDone(1), result[1].success, NEW n \in Nodes, Leaf(n), IsDone(n)
               PROVE  Names(result[n].facts) \subseteq Names(result[1].facts)
    BY DEF FactsReachGoalCheck, RunSucceeded, Names
  <2>1. 1 \in Nodes /\ n \in Below(tree, 1)
    BY <1>3, RootAbove DEF RunInv, TypeInv, PlanInv, Tree, WellFormed, Nodes, Below
  <2>2. ~result[1].blocked
    BY <1>3, <2>1 DEF RunInv, TypeInv, ExecutorTypeOK
  <2> QED
    <3>1. Names(result[n].facts) \subseteq Names(result[1].facts) \cup Names(Up(1))
      BY <1>3, <2>1, <2>2 DEF FactsInv, FactsAt
    <3>2. Names(Up(1)) = {}
      BY DEF Up, Names
    <3> QED
      BY <3>1, <3>2
<1> QED
  BY <1>1, <1>2, <1>3, RunHolds, PTL DEF Spec

-----------------------------------------------------------------------------
(* What a run spends *)

\* How many more times the present activation of p may call its kid k, in a tree t
\* whose nodes are at q and whose branches are at kid s.
LeftAt(t, q, s, p, k) ==
  CASE q[p] = "called" -> Tries(t, p)
    [] q[p] = "waiting" /\ t[p].type = "Retry" -> Tries(t, p) - s[p]
    [] q[p] = "waiting" /\ t[p].type \in {"Sequence", "Fallback"} ->
         IF \E i \in DOMAIN t[p].kids : s[p] < i /\ t[p].kids[i] = k THEN 1 ELSE 0
    [] OTHER -> 0

Left(p, k) == LeftAt(tree, pc, step, p, k)

One(condition) == IF condition THEN 1 ELSE 0

\* The activations of each node, with those of a kid that are still to come.
UsedOK(used) ==
  /\ used \in [Nodes -> Nat] /\ used[1] <= 1
  /\ \A p \in Nodes : \A k \in Kids(tree, p) : used[k] + Left(p, k) <= Tries(tree, p) * used[p]

\* Each start of a node, and each activation that has ended, is one of them.
CountOK(used, ended) ==
  \A n \in Nodes : /\ starts[n] + One(pc[n] = "called") <= used[n]
                   /\ ended[n] + One(Alive(n)) <= used[n]

DoneOK(ended) ==
  /\ ended \in [Nodes -> Nat]
  /\ \E h : IsSum(ended, OfType(tree, LeafTypes), h) /\ completed <= h[OfType(tree, LeafTypes)]

BudgetInv == TotalsOK(tree) /\ \E used, ended : UsedOK(used) /\ CountOK(used, ended) /\ DoneOK(ended)

\* What a step does to the counters: nothing, or a leaf starts, or one returns.
CountsRest == UNCHANGED <<starts, completed>>

StartsLeaf(n) ==
  /\ pc[n] = "called" /\ Leaf(n)
  /\ pc' = [pc EXCEPT ![n] = "run"] /\ UNCHANGED <<step, completed>>
  /\ starts' = IF tree[n].type = "Action" THEN [starts EXCEPT ![n] = @ + 1] ELSE starts

EndsLeaf(n) ==
  /\ pc[n] \in {"run", "resolving"} /\ Leaf(n)
  /\ pc' = [pc EXCEPT ![n] = "done"] /\ UNCHANGED <<step, starts>>
  /\ completed' = completed + 1

LEMMA StepCounts ==
  ASSUME TypeInv, [Next]_vars
  PROVE  CountsRest \/ \E n \in Nodes : StartsLeaf(n) \/ EndsLeaf(n)
<1>1. ASSUME NEW n \in Nodes, Machine(n), ~StartLeaf(n)  PROVE CountsRest
  BY <1>1 DEF Machine, Refuse, StartBranch, SequenceSteps, FallbackSteps, RetrySteps, ThreadEnds, Join,
         TimeoutJoins, TimeoutFires, ghosts, CountsRest
<1>2. ASSUME NEW n \in Nodes, StartLeaf(n)  PROVE StartsLeaf(n)
  BY <1>2 DEF StartLeaf, StartsLeaf
<1>3. \A n \in Nodes : pc[n] \in {"run", "resolving"} => Leaf(n)
  BY DEF TypeInv, PcInv
<1>4. ASSUME NEW n \in Nodes, NEW r, LeafReturns(n, r), pc[n] \in {"run", "resolving"}, UNCHANGED starts
      PROVE  EndsLeaf(n)
  BY <1>3, <1>4 DEF LeafReturns, Return, EndsLeaf
<1>5. ASSUME NEW n \in Nodes, SkillReturns(n) \/ SkillUnverified(n) \/ ResolveActionPostcondition(n)
      PROVE  CountsRest \/ EndsLeaf(n)
  BY <1>4, <1>5 DEF SkillReturns, SkillUnverified, ResolveActionPostcondition, Running, ghosts, CountsRest
<1>6. ASSUME NEW n \in Nodes, CheckReturns(n) \/ ResolveCheck(n)
      PROVE  CountsRest \/ EndsLeaf(n)
  BY <1>4, <1>6 DEF CheckReturns, ResolveCheck, Running, ghosts, CountsRest
<1>7. ASSUME NEW n \in Nodes, WaitReturns(n) \/ WaitForEventReturns(n) \/ VisualReturns(n) \/ NoActionReturns(n)
      PROVE  EndsLeaf(n)
  BY <1>4, <1>7 DEF WaitReturns, WaitForEventReturns, VisualReturns, NoActionReturns, Running, ghosts
<1>8. ASSUME Cancel \/ Settle \/ UNCHANGED vars
      PROVE  CountsRest
  <2>1. starts' = starts
    BY <1>8 DEF Cancel, Settle, ghosts, vars
  <2>2. completed' = completed
    BY <1>8 DEF Cancel, Settle, vars
  <2> QED
    BY <2>1, <2>2 DEF CountsRest
<1>9. ASSUME NEW n \in Nodes, LeafRaises(n)
      PROVE  CountsRest
  BY <1>9 DEF LeafRaises, ghosts, CountsRest
<1> QED
  BY <1>1, <1>2, <1>5, <1>6, <1>7, <1>8, <1>9 DEF Next, LeafStep

\* What is left of the tries of a branch.
LEMMA LeftIs ==
  ASSUME NEW t, NEW q, NEW s, NEW p, NEW k, Tries(t, p) \in Nat \ {0}, s[p] \in Nat,
         q[p] = "waiting" /\ t[p].type = "Retry" => s[p] <= Tries(t, p)
  PROVE  /\ LeftAt(t, q, s, p, k) \in Nat
         /\ q[p] \notin {"called", "waiting"} => LeftAt(t, q, s, p, k) = 0
         /\ q[p] = "called" => LeftAt(t, q, s, p, k) = Tries(t, p)
         /\ q[p] = "waiting" /\ t[p].type = "Retry" => LeftAt(t, q, s, p, k) = Tries(t, p) - s[p]
         /\ q[p] = "waiting" /\ t[p].type \notin {"Retry", "Sequence", "Fallback"} => LeftAt(t, q, s, p, k) = 0
         /\ q[p] = "waiting" /\ t[p].type \in {"Sequence", "Fallback"} =>
              LeftAt(t, q, s, p, k) =
                IF \E i \in DOMAIN t[p].kids : s[p] < i /\ t[p].kids[i] = k THEN 1 ELSE 0
<1> DEFINE L == LeftAt(t, q, s, p, k)
           Ahead == \E i \in DOMAIN t[p].kids : s[p] < i /\ t[p].kids[i] = k
<1>1. /\ q[p] = "called" => L = Tries(t, p)
      /\ q[p] = "waiting" /\ t[p].type = "Retry" => L = Tries(t, p) - s[p]
      /\ q[p] = "waiting" /\ t[p].type \in {"Sequence", "Fallback"} => L = IF Ahead THEN 1 ELSE 0
      /\ q[p] # "called" /\ ~(q[p] = "waiting" /\ t[p].type \in {"Retry", "Sequence", "Fallback"}) => L = 0
  <2> HIDE DEF Ahead
  <2> QED
    BY DEF LeftAt, Ahead
<1> HIDE DEF L, Ahead
<1>2. L \in Nat
  <2>1. (IF Ahead THEN 1 ELSE 0) \in Nat
    OBVIOUS
  <2> QED
    BY <1>1, <2>1
<1>3. /\ q[p] \notin {"called", "waiting"} => L = 0
      /\ q[p] = "waiting" /\ t[p].type \notin {"Retry", "Sequence", "Fallback"} => L = 0
  BY <1>1
<1> QED
  BY <1>1, <1>2, <1>3 DEF L, Ahead

LEMMA TriesOfNode ==
  ASSUME PlanInv, NEW p \in Nodes
  PROVE  Tries(tree, p) \in Nat \ {0} /\ (tree[p].type = "Retry" => Rounds(p) = Tries(tree, p))
BY DEF PlanInv, Valid, NodeValid, Tries, Rounds, Nodes

LEMMA LeftNow ==
  ASSUME TypeInv, NEW p \in Nodes, NEW k
  PROVE  Left(p, k) \in Nat /\ (pc[p] \notin {"called", "waiting"} => Left(p, k) = 0)
<1>1. PlanInv /\ RunTypes
  BY TypeParts DEF TypeInv
<1>2. step[p] \in Nat /\ (pc[p] = "waiting" => step[p] <= Rounds(p))
  BY <1>1 DEF RunTypes
<1>3. Tries(tree, p) \in Nat \ {0} /\ (tree[p].type = "Retry" => Rounds(p) = Tries(tree, p))
  BY <1>1, TriesOfNode
<1> QED
  BY <1>2, <1>3, LeftIs DEF Left

\* A call takes from what is left the kids it calls.
LEMMA CallSpends ==
  ASSUME TypeInv, RunTypes', tree' = tree, NEW n \in Nodes, Opens(n) \/ GoesOn(n)
  PROVE  \E C \in SUBSET Kids(tree, n) :
           /\ pc' = [m \in Nodes |-> IF m \in C THEN "called" ELSE IF m = n THEN "waiting" ELSE pc[m]]
           /\ \A m \in Nodes \ {n} : step'[m] = step[m]
           /\ \A k \in Kids(tree, n) : Left(n, k)' \in Nat /\ Left(n, k)' + One(k \in C) <= Left(n, k)
<1> DEFINE kids == tree[n].kids
           type == tree[n].type
           T == Tries(tree, n)
           C == IF Opens(n) THEN IF type = "Parallel" THEN Kids(tree, n) ELSE {kids[1]}
                ELSE {IF type = "Retry" THEN kids[1] ELSE kids[step[n] + 1]}
<1>1. PlanInv /\ RunTypes /\ ~Leaf(n)
  BY TypeParts DEF TypeInv, Opens, GoesOn, PcInv
<1>2. /\ step \in [Nodes -> Nat \ {0}] /\ step[n] \in Nat \ {0}
      /\ pc[n] = "waiting" => step[n] <= Rounds(n)
  BY <1>1 DEF RunTypes
<1>3. T \in Nat \ {0} /\ (type = "Retry" => Rounds(n) = T)
  BY <1>1, TriesOfNode
<1>4. /\ Len(kids) \in Nat \ {0} /\ \A i \in 1 .. Len(kids) : kids[i] \in Kids(tree, n)
      /\ type \in {"Retry", "Timeout"} => Kids(tree, n) = {kids[1]}
  BY <1>1, BranchHasKids
<1>5. DOMAIN kids = 1 .. Len(kids) /\ \A i, j \in DOMAIN kids : kids[i] = kids[j] => i = j
  <2>1. kids \in Seq({k \in Nodes : n < k}) /\ IsInjective(kids)
    BY <1>1 DEF PlanInv, Tree, WellFormed, Nodes
  <2> QED
    BY <2>1 DEF IsInjective
<1>6. type \in {"Sequence", "Fallback", "Retry", "Parallel", "Timeout"}
  <2>1. type \in LeafTypes \cup BranchTypes
    BY <1>1 DEF PlanInv, Valid, NodeValid, Nodes
  <2> QED
    BY <1>1, <2>1 DEF Leaf, BranchTypes
<1>7. GoesOn(n) => /\ pc[n] = "waiting" /\ type \in {"Sequence", "Fallback", "Retry"} /\ step[n] < Rounds(n)
                   /\ type # "Retry" => step[n] + 1 \in 1 .. Len(kids)
  BY <1>2, <1>4 DEF GoesOn, Serial, Rounds
<1>8. Opens(n) => pc[n] = "called" /\ ~GoesOn(n)
  BY <1>7 DEF Opens
<1>9. C \in SUBSET Kids(tree, n)
  BY <1>4, <1>7
<1>10. n \notin Kids(tree, n)
  <2>1. n \in Nat /\ \A k \in Kids(tree, n) : n < k
    BY <1>1, KidsBelow DEF PlanInv, Tree, Nodes
  <2> QED
    BY <2>1
<1>11. pc' = [m \in Nodes |-> IF m \in C THEN "called" ELSE IF m = n THEN "waiting" ELSE pc[m]]
  <2>1. CASE Opens(n)
    BY <2>1 DEF Opens, Call
  <2>2. CASE GoesOn(n)
    BY <1>8, <2>2 DEF GoesOn, Proceed, Call
  <2> QED
    BY <2>1, <2>2
<1>12. step' = [step EXCEPT ![n] = IF Opens(n) THEN 1 ELSE step[n] + 1]
  BY <1>8 DEF Opens, GoesOn, Proceed
<1> HIDE DEF C
<1>13. pc'[n] = "waiting" /\ step'[n] = (IF Opens(n) THEN 1 ELSE step[n] + 1) /\ \A m \in Nodes \ {n} : step'[m] = step[m]
  BY <1>2, <1>9, <1>10, <1>11, <1>12
<1>14. step'[n] \in Nat /\ (type = "Retry" => step'[n] <= T)
  BY <1>2, <1>3, <1>7, <1>13
<1>15. ASSUME NEW k \in Kids(tree, n)
       PROVE  Left(n, k)' \in Nat /\ Left(n, k)' + One(k \in C) <= Left(n, k)
  <2> DEFINE L == Left(n, k)
             M == LeftAt(tree, pc', step', n, k)
             Ahead(i) == \E j \in DOMAIN kids : i < j /\ kids[j] = k
  <2>1. Left(n, k)' = M
    BY DEF Left
  <2>2. /\ L \in Nat
        /\ pc[n] = "called" => L = T
        /\ pc[n] = "waiting" /\ type = "Retry" => L = T - step[n]
        /\ pc[n] = "waiting" /\ type \in {"Sequence", "Fallback"} => L = IF Ahead(step[n]) THEN 1 ELSE 0
    BY <1>2, <1>3, LeftIs DEF Left
  <2>3. /\ M \in Nat
        /\ type = "Retry" => M = T - step'[n]
        /\ type \notin {"Retry", "Sequence", "Fallback"} => M = 0
        /\ type \in {"Sequence", "Fallback"} => M = IF Ahead(step'[n]) THEN 1 ELSE 0
    BY <1>3, <1>13, <1>14, LeftIs
  <2> DEFINE o == One(k \in C)
  <2>4. o \in {0, 1} /\ (k \notin C => o = 0)
    BY DEF One
  <2> SUFFICES M \in Nat /\ M + o <= L
    BY <2>1
  <2> HIDE DEF L, M, Ahead, T, kids, type, o
  <2>5. CASE type = "Retry"
    <3>1. (pc[n] = "called" /\ step'[n] = 1) \/ (pc[n] = "waiting" /\ step'[n] = step[n] + 1)
      BY <1>7, <1>8, <1>13
    <3> QED
      BY <1>2, <1>3, <2>2, <2>3, <2>4, <2>5, <3>1
  <2>6. CASE type \in {"Parallel", "Timeout"}
    <3>1. Opens(n)
      BY <1>7, <2>6
    <3>2. L = T /\ M = 0
      BY <1>8, <2>2, <2>3, <2>6, <3>1
    <3> QED
      BY <1>3, <2>4, <3>2
  <2>7. CASE type \in {"Sequence", "Fallback"} /\ Opens(n)
    <3>1. C = {kids[1]} /\ 1 \in DOMAIN kids /\ step'[n] = 1
      BY <1>4, <1>5, <1>13, <2>7 DEF C
    <3>2. k \in C => ~Ahead(1)
      BY <1>5, <3>1 DEF Ahead
    <3>3. L = T /\ M = (IF Ahead(1) THEN 1 ELSE 0)
      BY <1>8, <2>2, <2>3, <2>7, <3>1
    <3> QED
      BY <1>3, <2>4, <3>2, <3>3
  <2>8. CASE type \in {"Sequence", "Fallback"} /\ ~Opens(n)
    <3>1. C = {kids[step[n] + 1]} /\ step[n] + 1 \in DOMAIN kids /\ step'[n] = step[n] + 1
          /\ pc[n] = "waiting"
      BY <1>5, <1>7, <1>13, <2>8 DEF C
    <3>2. k \in C => ~Ahead(step[n] + 1) /\ Ahead(step[n])
      <4>1. k \in C => k = kids[step[n] + 1] /\ step[n] < step[n] + 1
        BY <1>2, <3>1
      <4>2. \A j \in DOMAIN kids : step[n] + 1 < j => kids[j] # kids[step[n] + 1]
        BY <1>2, <1>4, <1>5, <3>1
      <4> QED
        BY <3>1, <4>1, <4>2 DEF Ahead
    <3>3. Ahead(step[n] + 1) => Ahead(step[n])
      <4>1. \A j \in DOMAIN kids : step[n] + 1 < j => step[n] < j
        BY <1>2, <1>4, <1>5
      <4> QED
        BY <4>1 DEF Ahead
    <3>4. L = (IF Ahead(step[n]) THEN 1 ELSE 0) /\ M = (IF Ahead(step[n] + 1) THEN 1 ELSE 0)
      BY <2>2, <2>3, <2>8, <3>1
    <3> QED
      BY <2>4, <3>2, <3>3, <3>4
  <2> QED
    BY <1>6, <2>5, <2>6, <2>7, <2>8
<1> QED
  BY <1>9, <1>11, <1>13, <1>15

LEMMA TriesTimes ==
  ASSUME NEW T \in Nat, NEW u \in Nat, NEW v \in Nat
  PROVE  /\ T * u \in Nat /\ T * (u + 1) = T * u + T
         /\ u <= v => T * u <= T * v
<1>1. T * u \in Nat /\ T * (u + 1) = T * u + T
  OBVIOUS
<1>2. ASSUME u <= v
      PROVE  T * u <= T * v
  <2>1. PICK d \in Nat : v = u + d
    <3>1. v - u \in Nat /\ v = u + (v - u)
      BY <1>2
    <3> QED
      BY <3>1
  <2>2. T * d \in Nat /\ T * (u + d) = T * u + T * d
    OBVIOUS
  <2> QED
    BY <1>1, <2>1, <2>2
<1> QED
  BY <1>1, <1>2

\* Nothing is used up but by a call.
LEMMA UsedQuiet ==
  ASSUME TypeInv, UNCHANGED <<tree, step>>, NEW used, UsedOK(used),
         \A n \in Nodes : pc'[n] = pc[n] \/ pc'[n] \notin {"called", "waiting"}
  PROVE  UsedOK(used)'
<1>1. Nodes' = Nodes /\ \A p : Kids(tree, p)' = Kids(tree, p) /\ Tries(tree, p)' = Tries(tree, p)
  BY DEF Nodes, Kids, Tries
<1>2. ASSUME NEW p \in Nodes, NEW k \in Kids(tree, p)
      PROVE  used[k] + Left(p, k)' <= Tries(tree, p) * used[p]
  <2>1. used[k] + Left(p, k) <= Tries(tree, p) * used[p]
    BY DEF UsedOK
  <2>2. Left(p, k) \in Nat
    BY LeftNow
  <2>3. k \in Nodes
    BY KidsBelow DEF TypeInv, PlanInv, Nodes
  <2>4. used[k] \in Nat /\ used[p] \in Nat /\ Tries(tree, p) \in Nat
    BY <2>3, TriesOfNode DEF UsedOK, TypeInv
  <2>5. CASE pc'[p] = pc[p]
    <3>1. Left(p, k)' = Left(p, k)
      BY <2>5 DEF Left, LeftAt
    <3> QED
      BY <2>1, <3>1
  <2>6. CASE pc'[p] \notin {"called", "waiting"}
    <3>1. Left(p, k)' = 0
      BY <2>6 DEF Left, LeftAt
    <3>2. Tries(tree, p) * used[p] \in Nat
      BY <2>4, TriesTimes
    <3> QED
      BY <2>1, <2>2, <2>4, <3>1, <3>2
  <2> QED
    BY <2>5, <2>6
<1> QED
  BY <1>1, <1>2 DEF UsedOK

\* A call uses up what its branch has left, and gives the kids it calls tries of
\* their own.
LEMMA UsedCall ==
  ASSUME TypeInv, tree' = tree, NEW n \in Nodes,
         NEW used, UsedOK(used), NEW C \in SUBSET Kids(tree, n),
         pc' = [m \in Nodes |-> IF m \in C THEN "called" ELSE IF m = n THEN "waiting" ELSE pc[m]],
         \A m \in Nodes \ {n} : step'[m] = step[m],
         \A k \in Kids(tree, n) : Left(n, k)' \in Nat /\ Left(n, k)' + One(k \in C) <= Left(n, k),
         NEW more, more = [m \in Nodes |-> IF m \in C THEN used[m] + 1 ELSE used[m]]
  PROVE  UsedOK(more)'
<1>1. Nodes' = Nodes /\ \A p : Kids(tree, p)' = Kids(tree, p) /\ Tries(tree, p)' = Tries(tree, p)
  BY DEF Nodes, Kids, Tries
<1>2. PlanInv /\ used \in [Nodes -> Nat] /\ used[1] <= 1
  BY DEF TypeInv, UsedOK
<1>3. more \in [Nodes -> Nat] /\ \A m \in Nodes : more[m] = IF m \in C THEN used[m] + 1 ELSE used[m]
  BY <1>2
<1>4. \A k \in Kids(tree, n) : k \in Nodes \ {1} /\ Parent(tree, k) = n /\ k # n
  <2>1. n \in Nat
    BY <1>2 DEF PlanInv, Tree, Nodes
  <2> QED
    BY <1>2, <2>1, KidsBelow, KidHasParent DEF PlanInv, Nodes
<1>5. more[1] <= 1
  <2>1. 1 \notin C /\ 1 \in Nodes
    BY <1>2, <1>4 DEF PlanInv, Tree, WellFormed, Nodes
  <2> QED
    BY <1>2, <1>3, <2>1
<1>6. ASSUME NEW p \in Nodes, NEW k \in Kids(tree, p)
      PROVE  more[k] + Left(p, k)' <= Tries(tree, p) * more[p]
  <2> DEFINE T == Tries(tree, p)
  <2>1. used[k] + Left(p, k) <= T * used[p]
    BY DEF UsedOK
  <2>2. k \in Nodes /\ Parent(tree, k) = p
    BY <1>2, KidsBelow, KidHasParent DEF PlanInv, Nodes
  <2>3. used[k] \in Nat /\ used[p] \in Nat /\ T \in Nat /\ Left(p, k) \in Nat
    BY <1>2, <2>2, LeftNow, TriesOfNode
  <2> HIDE DEF T
  <2>4. T * used[p] \in Nat /\ T * (used[p] + 1) = T * used[p] + T
    BY <2>3, TriesTimes
  <2>5. CASE p = n
    <3>1. more[p] = used[p] /\ more[k] = used[k] + One(k \in C)
      BY <1>3, <1>4, <2>2, <2>3, <2>5 DEF One
    <3>2. Left(p, k)' \in Nat /\ Left(p, k)' + One(k \in C) <= Left(p, k)
      BY <2>5
    <3>3. One(k \in C) \in Nat
      BY DEF One
    <3> DEFINE o == One(k \in C)
    <3> HIDE DEF o
    <3>4. used[k] + o + Left(p, k)' <= T * used[p]
      BY <2>1, <2>3, <2>4, <3>2, <3>3 DEF o
    <3> QED
      BY <3>1, <3>4 DEF T, o
  <2>6. CASE p # n /\ p \in C
    <3>1. more[p] = used[p] + 1 /\ more[k] = used[k]
      BY <1>3, <1>4, <2>2, <2>3, <2>6
    <3>2. pc'[p] = "called"
      BY <2>6
    <3>3. Left(p, k)' = T
      BY <1>1, <3>2 DEF Left, LeftAt, T
    <3>4. used[k] <= T * used[p]
      BY <2>1, <2>3, <2>4
    <3>5. used[k] + T <= T * (used[p] + 1)
      BY <2>3, <2>4, <3>4
    <3> QED
      BY <3>1, <3>3, <3>5 DEF T
  <2>7. CASE p # n /\ p \notin C
    <3>1. more[p] = used[p] /\ more[k] = used[k]
      BY <1>3, <1>4, <2>2, <2>3, <2>7
    <3>2. pc'[p] = pc[p] /\ step'[p] = step[p]
      BY <2>7
    <3>3. Left(p, k)' = Left(p, k)
      BY <3>2 DEF Left, LeftAt
    <3> QED
      BY <2>1, <3>1, <3>3 DEF T
  <2> QED
    BY <2>5, <2>6, <2>7
<1> QED
  BY <1>1, <1>3, <1>5, <1>6 DEF UsedOK

\* The nodes at work stay at work only where nothing was called.
Quiet ==
  \A n \in Nodes : /\ pc'[n] = pc[n] \/ pc'[n] \notin {"called", "waiting"}
                   /\ Alive(n)' => Alive(n)

LEMMA QuietMoves ==
  ASSUME TypeInv, Moves
  PROVE  (UNCHANGED step /\ Quiet) \/ \E n \in Nodes : Opens(n) \/ GoesOn(n)
<1>1. pc \in [Nodes -> {"idle", "called", "run", "waiting", "resolving", "done", "joined", "raised"}]
  BY TypeParts DEF TypeInv, RunTypes
<1>2. ASSUME NEW n \in Nodes, NEW r \in Results, Returns(n, r)  PROVE UNCHANGED step /\ Quiet
  BY <1>1, <1>2 DEF Returns, Return, Quiet, Alive
<1>3. ASSUME NEW n \in Nodes, IsJoined(n)  PROVE UNCHANGED step /\ Quiet
  BY <1>1, <1>3 DEF IsJoined, Quiet, Alive
<1>4. ASSUME NEW n \in Nodes, Raises(n)  PROVE UNCHANGED step /\ Quiet
  BY <1>1, <1>4 DEF Raises, Quiet, Alive
<1>5. ASSUME NEW n \in Nodes, NEW q \in {"run", "resolving"}, Turns(n, q)  PROVE UNCHANGED step /\ Quiet
  BY <1>1, <1>5 DEF Turns, Quiet, Alive
<1>6. ASSUME Rests  PROVE UNCHANGED step /\ Quiet
  BY <1>6 DEF Rests, Quiet, Alive
<1> QED
  BY <1>2, <1>3, <1>4, <1>5, <1>6 DEF Moves

\* The counters after a step that calls no kid and counts nothing.
LEMMA CountQuiet ==
  ASSUME TypeInv, tree' = tree, Quiet, CountsRest, NEW used, NEW ended, UsedOK(used), CountOK(used, ended), DoneOK(ended)
  PROVE  CountOK(used, ended)' /\ DoneOK(ended)'
<1>1. Nodes' = Nodes /\ OfType(tree, LeafTypes)' = OfType(tree, LeafTypes)
  BY DEF Nodes
<1>2. /\ starts \in [Nodes -> Nat] /\ starts' = starts /\ completed' = completed
      /\ used \in [Nodes -> Nat] /\ ended \in [Nodes -> Nat]
  BY TypeParts DEF TypeInv, SideTypes, CountsRest, UsedOK, DoneOK
<1>3. ASSUME NEW n \in Nodes
      PROVE  starts[n] + One(pc'[n] = "called") <= used[n] /\ ended[n] + One(Alive(n)') <= used[n]
  <2>1. starts[n] + One(pc[n] = "called") <= used[n] /\ ended[n] + One(Alive(n)) <= used[n]
    BY DEF CountOK
  <2>2. starts[n] \in Nat /\ ended[n] \in Nat /\ used[n] \in Nat
    BY <1>2
  <2>3. (pc'[n] = "called" => pc[n] = "called") /\ (Alive(n)' => Alive(n))
    BY DEF Quiet
  <2> QED
    BY <2>1, <2>2, <2>3 DEF One
<1> QED
  BY <1>1, <1>2, <1>3 DEF CountOK, DoneOK

LEMMA BudgetStep == ASSUME TypeInv, ChainInv, BudgetInv, [Next]_vars PROVE BudgetInv'
<1>1. Moves /\ TypeInv' /\ PlanInv
  BY TypeStep DEF TypeInv
<1>2. tree' = tree /\ Nodes' = Nodes /\ OfType(tree, LeafTypes)' = OfType(tree, LeafTypes) /\ TotalsOK(tree)'
  BY <1>1 DEF Moves, plan, Nodes, BudgetInv
<1>3. PICK used, ended : UsedOK(used) /\ CountOK(used, ended) /\ DoneOK(ended)
  BY DEF BudgetInv
<1>4. /\ starts \in [Nodes -> Nat] /\ completed \in Nat
      /\ used \in [Nodes -> Nat] /\ ended \in [Nodes -> Nat]
      /\ pc \in [Nodes -> {"idle", "called", "run", "waiting", "resolving", "done", "joined", "raised"}]
  BY <1>3, TypeParts DEF TypeInv, SideTypes, RunTypes, UsedOK, DoneOK
<1>5. \A n \in Nodes : /\ starts[n] + One(pc[n] = "called") <= used[n]
                       /\ ended[n] + One(Alive(n)) <= used[n]
  BY <1>3 DEF CountOK
<1> SUFFICES \E u, e : (UsedOK(u) /\ CountOK(u, e) /\ DoneOK(e))'
  BY <1>2 DEF BudgetInv
<1>6. ASSUME CountsRest, UNCHANGED step, Quiet
      PROVE  \E u, e : (UsedOK(u) /\ CountOK(u, e) /\ DoneOK(e))'
  <2>1. UsedOK(used)'
    BY <1>2, <1>3, <1>6, UsedQuiet DEF Quiet
  <2>2. CountOK(used, ended)' /\ DoneOK(ended)'
    BY <1>2, <1>3, <1>6, CountQuiet
  <2> QED
    BY <2>1, <2>2
<1>7. ASSUME NEW n \in Nodes, StartsLeaf(n)
      PROVE  \E u, e : (UsedOK(u) /\ CountOK(u, e) /\ DoneOK(e))'
  <2>1. /\ pc' = [pc EXCEPT ![n] = "run"] /\ step' = step /\ completed' = completed /\ pc[n] = "called"
        /\ starts' = starts \/ starts' = [starts EXCEPT ![n] = starts[n] + 1]
    BY <1>7 DEF StartsLeaf
  <2>2. \A m \in Nodes : pc'[m] = pc[m] \/ pc'[m] \notin {"called", "waiting"}
    BY <1>4, <2>1
  <2>3. UsedOK(used)'
    BY <1>2, <1>3, <2>1, <2>2, UsedQuiet
  <2>4. DoneOK(ended)'
    BY <1>2, <1>3, <2>1 DEF DoneOK
  <2>5. ASSUME NEW m \in Nodes
        PROVE  starts'[m] + One(pc'[m] = "called") <= used[m] /\ ended[m] + One(Alive(m)') <= used[m]
    <3>1. starts[m] \in Nat /\ ended[m] \in Nat /\ used[m] \in Nat
      BY <1>4
    <3>2. Alive(m)' => Alive(m)
      BY <1>4, <2>1 DEF Alive
    <3>3. ended[m] + One(Alive(m)') <= used[m]
      BY <1>5, <3>1, <3>2 DEF One
    <3>4. m # n => pc'[m] = pc[m] /\ starts'[m] = starts[m]
      BY <1>4, <2>1
    <3>5. m = n => pc'[m] = "run" /\ starts'[m] <= starts[m] + 1
      BY <1>4, <2>1
    <3>6. starts'[n] \in Nat
      BY <1>4, <2>1
    <3>7. starts[n] + 1 <= used[n]
      BY <1>5, <2>1 DEF One
    <3> QED
      BY <1>5, <3>1, <3>3, <3>4, <3>5, <3>6, <3>7 DEF One
  <2>6. CountOK(used, ended)'
    BY <1>2, <2>5 DEF CountOK
  <2> QED
    BY <2>3, <2>4, <2>6
<1>8. ASSUME NEW n \in Nodes, EndsLeaf(n)
      PROVE  \E u, e : (UsedOK(u) /\ CountOK(u, e) /\ DoneOK(e))'
  <2>1. /\ pc' = [pc EXCEPT ![n] = "done"] /\ step' = step /\ completed' = completed + 1 /\ starts' = starts
        /\ Alive(n) /\ n \in OfType(tree, LeafTypes)
    BY <1>8 DEF EndsLeaf, Alive, Leaf, OfType, Nodes
  <2>2. \A m \in Nodes : pc'[m] = pc[m] \/ pc'[m] \notin {"called", "waiting"}
    BY <1>4, <2>1
  <2>3. UsedOK(used)'
    BY <1>2, <1>3, <2>1, <2>2, UsedQuiet
  <2>4. PICK more : more = [ended EXCEPT ![n] = ended[n] + 1]
    OBVIOUS
  <2>5. more \in [Nodes -> Nat] /\ \A m \in Nodes : more[m] = IF m = n THEN ended[m] + 1 ELSE ended[m]
    BY <1>4, <2>4
  <2>6. DoneOK(more)'
    <3> DEFINE S == OfType(tree, LeafTypes)
    <3>1. PICK h : IsSum(ended, S, h) /\ completed <= h[S]
      BY <1>3 DEF DoneOK
    <3>2. S \subseteq Nodes /\ IsFiniteSet(S) /\ \A m \in S : more[m] \in Nat
      <4>1. S \subseteq Nodes
        BY DEF OfType, Nodes
      <4> QED
        BY <2>5, <3>1, <4>1 DEF IsSum, FoldsTo
    <3>3. PICK j : IsSum(more, S, j)
      BY <3>2, SumExists
    <3>4. n \in S
      BY <2>1
    <3> HIDE DEF S
    <3>5. more[n] = ended[n] + 1 /\ \A m \in S \ {n} : more[m] = ended[m]
      BY <2>5, <3>2
    <3>6. j[S] = h[S] + 1
      BY <3>1, <3>3, <3>4, <3>5, SumOneMore
    <3>7. h[S] \in Nat
      BY <3>1, SumInsert
    <3>8. completed' <= j[S]
      BY <1>4, <2>1, <3>1, <3>6, <3>7
    <3> QED
      BY <1>2, <2>5, <3>3, <3>8 DEF DoneOK, S
  <2>7. ASSUME NEW m \in Nodes
        PROVE  starts'[m] + One(pc'[m] = "called") <= used[m] /\ more[m] + One(Alive(m)') <= used[m]
    <3>1. starts[m] \in Nat /\ ended[m] \in Nat /\ used[m] \in Nat
      BY <1>4
    <3>2. /\ pc'[m] = "called" => pc[m] = "called"
          /\ m # n => (Alive(m)' <=> Alive(m))
          /\ m = n => Alive(m) /\ ~Alive(m)'
      BY <1>4, <2>1 DEF Alive
    <3>3. starts'[m] + One(pc'[m] = "called") <= used[m]
      BY <1>5, <2>1, <3>1, <3>2 DEF One
    <3>4. more[m] + One(Alive(m)') <= used[m]
      BY <1>5, <2>5, <3>1, <3>2 DEF One
    <3> QED
      BY <3>3, <3>4
  <2>8. CountOK(used, more)'
    BY <1>2, <2>7 DEF CountOK
  <2> QED
    BY <2>3, <2>6, <2>8
<1>9. ASSUME CountsRest, NEW n \in Nodes, Opens(n) \/ GoesOn(n)
      PROVE  \E u, e : (UsedOK(u) /\ CountOK(u, e) /\ DoneOK(e))'
  <2>1. RunTypes'
    BY <1>1, MoveTypes
  <2>2. PICK C \in SUBSET Kids(tree, n) :
          /\ pc' = [m \in Nodes |-> IF m \in C THEN "called" ELSE IF m = n THEN "waiting" ELSE pc[m]]
          /\ \A m \in Nodes \ {n} : step'[m] = step[m]
          /\ \A k \in Kids(tree, n) : Left(n, k)' \in Nat /\ Left(n, k)' + One(k \in C) <= Left(n, k)
    BY <1>2, <1>9, <2>1, CallSpends
  <2>3. PICK more : more = [m \in Nodes |-> IF m \in C THEN used[m] + 1 ELSE used[m]]
    OBVIOUS
  <2>4. UsedOK(more)'
    BY <1>2, <1>3, <2>2, <2>3, UsedCall
  <2>5. DoneOK(ended)'
    BY <1>2, <1>3, <1>9 DEF DoneOK, CountsRest
  <2>6. \A k \in C : ~Alive(k)
    BY <1>9, <2>2, NoneHeld DEF Held
  <2>7. Alive(n)
    BY <1>9 DEF Opens, GoesOn, Alive
  <2>8. ASSUME NEW m \in Nodes
        PROVE  starts[m] + One(pc'[m] = "called") <= more[m] /\ ended[m] + One(Alive(m)') <= more[m]
    <3>1. starts[m] \in Nat /\ ended[m] \in Nat /\ used[m] \in Nat
      BY <1>4
    <3>2. starts[m] + One(pc[m] = "called") <= used[m] /\ ended[m] + One(Alive(m)) <= used[m]
      BY <1>5
    <3>3. CASE m \in C
      <4>1. more[m] = used[m] + 1 /\ pc[m] # "called" /\ ~Alive(m)
        BY <2>3, <2>6, <3>3 DEF Alive
      <4>2. starts[m] <= used[m] /\ ended[m] <= used[m]
        BY <3>2, <4>1, <3>1 DEF One
      <4> QED
        BY <3>1, <4>1, <4>2 DEF One
    <3>4. CASE m \notin C
      <4>1. more[m] = used[m] /\ (pc'[m] = "called" => pc[m] = "called") /\ (Alive(m)' => Alive(m))
        BY <1>4, <2>2, <2>3, <2>7, <3>4 DEF Alive
      <4> QED
        BY <3>1, <3>2, <4>1 DEF One
    <3> QED
      BY <3>3, <3>4
  <2>9. CountOK(more, ended)'
    BY <1>2, <1>9, <2>8 DEF CountOK, CountsRest
  <2> QED
    BY <2>4, <2>5, <2>9
<1>10. CountsRest \/ \E n \in Nodes : StartsLeaf(n) \/ EndsLeaf(n)
  BY StepCounts
<1> QED
  BY <1>1, <1>6, <1>7, <1>8, <1>9, <1>10, QuietMoves

LEMMA TreeIsFinite == ASSUME TypeInv PROVE Tree(tree) /\ Valid(tree) /\ IsFiniteSet(DOMAIN tree) /\ Nodes = DOMAIN tree
<1>1. Tree(tree) /\ Valid(tree) /\ DOMAIN tree \subseteq 1 .. MaxNodes
  BY DEF TypeInv, PlanInv, Nodes
<1>2. MaxNodes \in Nat
  BY PlansAssumption
<1>3. IsFiniteSet(1 .. MaxNodes)
  BY <1>2, FS_Interval
<1>4. IsFiniteSet(DOMAIN tree)
  BY <1>1, <1>3, FS_Subset
<1> QED
  BY <1>1, <1>4 DEF Nodes

LEMMA BudgetHolds == Spec => [](TypeInv /\ BudgetInv)
<1>1. ASSUME Init
      PROVE  BudgetInv
  <2>1. TypeInv /\ PlanInv
    BY <1>1, TypeInit DEF TypeInv
  <2>2. /\ pc = [n \in Nodes |-> IF n = 1 THEN "called" ELSE "idle"]
        /\ starts = [n \in Nodes |-> 0] /\ completed = 0 /\ TotalsOK(tree)
    BY <1>1 DEF Init, Accepted, PolicyOK
  <2>3. PICK used : used = [n \in Nodes |-> IF n = 1 THEN 1 ELSE 0]
    OBVIOUS
  <2>4. PICK ended : ended = [n \in Nodes |-> 0]
    OBVIOUS
  <2>5. 1 \in Nodes
    BY <2>1 DEF PlanInv, Tree, WellFormed, Nodes
  <2>6. CountOK(used, ended)
    BY <2>2, <2>3, <2>4 DEF CountOK, One, Alive
  <2>7. ASSUME NEW p \in Nodes, NEW k \in Kids(tree, p)
        PROVE  used[k] + Left(p, k) <= Tries(tree, p) * used[p]
    <3>1. k \in Nodes \ {1}
      BY <2>1, KidsBelow DEF PlanInv, Nodes
    <3>2. Tries(tree, p) \in Nat /\ used[k] = 0
      BY <2>1, <2>3, <3>1, TriesOfNode
    <3>3. CASE p = 1
      <4>1. Left(p, k) = Tries(tree, p) /\ used[p] = 1
        BY <2>2, <2>3, <3>3 DEF Left, LeftAt
      <4> QED
        BY <3>2, <4>1
    <3>4. CASE p # 1
      <4>1. Left(p, k) = 0 /\ used[p] = 0
        BY <2>2, <2>3, <3>4 DEF Left, LeftAt
      <4> QED
        BY <3>2, <4>1
    <3> QED
      BY <3>3, <3>4
  <2>8. UsedOK(used)
    BY <2>3, <2>5, <2>7 DEF UsedOK
  <2>9. DoneOK(ended)
    <3> DEFINE S == OfType(tree, LeafTypes)
    <3>1. S \subseteq Nodes /\ IsFiniteSet(Nodes)
      BY <2>1, TreeIsFinite DEF OfType, Nodes
    <3>2. IsFiniteSet(S) /\ \A x \in S : ended[x] \in Nat
      BY <2>4, <3>1, FS_Subset
    <3>3. PICK h : IsSum(ended, S, h)
      BY <3>2, SumExists
    <3>4. h[S] \in Nat
      BY <3>3, SumInsert
    <3>5. completed <= h[S]
      BY <2>2, <3>4
    <3> QED
      BY <2>4, <3>3, <3>5 DEF DoneOK
  <2> QED
    BY <2>2, <2>6, <2>8, <2>9 DEF BudgetInv
<1>2. RunInv /\ RunInv' /\ BudgetInv /\ [Next]_vars => BudgetInv'
  BY BudgetStep DEF RunInv
<1>3. RunInv => TypeInv
  BY DEF RunInv
<1> QED
  BY <1>1, <1>2, <1>3, RunHolds, PTL DEF Spec

\* No node is activated more often than the policy multiplies it.
LEMMA UsedWithin ==
  ASSUME TypeInv, NEW used, UsedOK(used), NEW n \in Nodes
  PROVE  used[n] <= RetryMultiplier(tree, n) /\ RetryMultiplier(tree, n) \in Nat
<1>1. /\ \A m \in Nodes : RetryMultiplier(tree, m) \in Nat
      /\ RetryMultiplier(tree, 1) = 1
      /\ \A m \in Nodes \ {1} :
           RetryMultiplier(tree, m) = Tries(tree, Parent(tree, m)) * RetryMultiplier(tree, Parent(tree, m))
  BY TreeIsFinite, MultiplierStep
<1>2. used \in [Nodes -> Nat] /\ used[1] <= 1 /\ Tree(tree) /\ PlanInv
  BY DEF UsedOK, TypeInv, PlanInv
<1> DEFINE G == {m \in Nodes : used[m] <= RetryMultiplier(tree, m)}
<1>3. 1 \in G
  BY <1>1, <1>2 DEF Tree, WellFormed, Nodes
<1>4. ASSUME NEW m \in Nodes \ {1}, Parent(tree, m) \in G
      PROVE  m \in G
  <2> DEFINE p == Parent(tree, m)
             T == Tries(tree, p)
  <2>1. p \in Nodes /\ m \in Kids(tree, p)
    BY <1>2, ParentIs DEF Nodes
  <2>2. used[m] + Left(p, m) <= T * used[p] /\ Left(p, m) \in Nat
    BY <2>1, LeftNow DEF UsedOK
  <2>3. used[m] \in Nat /\ used[p] \in Nat /\ T \in Nat /\ RetryMultiplier(tree, p) \in Nat
    BY <1>1, <1>2, <2>1, TriesOfNode
  <2>4. used[p] <= RetryMultiplier(tree, p)
    BY <1>4
  <2> HIDE DEF p, T
  <2>5. T * used[p] <= T * RetryMultiplier(tree, p) /\ T * used[p] \in Nat
    BY <2>3, <2>4, TriesTimes
  <2>6. RetryMultiplier(tree, m) = T * RetryMultiplier(tree, p)
    BY <1>1 DEF p, T
  <2>7. RetryMultiplier(tree, m) \in Nat
    BY <1>1
  <2> QED
    BY <2>2, <2>3, <2>5, <2>6, <2>7
<1> HIDE DEF G
<1>5. Nodes \subseteq G
  BY <1>2, <1>3, <1>4, TreeInduction DEF Nodes
<1> QED
  BY <1>1, <1>5 DEF G

\* What is counted of nodes that are each activated within their multiplier is within
\* the policy's count.
LEMMA SumWithin ==
  ASSUME TypeInv, NEW f, NEW S \in SUBSET Nodes, NEW h, IsSum(f, S, h),
         \A n \in S : f[n] <= RetryMultiplier(tree, n)
  PROVE  h[S] <= Count(tree, S) /\ h[S] \in Nat /\ Count(tree, S) \in Nat
<1> DEFINE g == [n \in DOMAIN tree |-> RetryMultiplier(tree, n)]
<1>1. PICK j : IsSum(g, S, j) /\ Count(tree, S) = j[S]
  BY TreeIsFinite, CountIs
<1>2. \A n \in S : f[n] <= g[n]
  BY DEF Nodes
<1> HIDE DEF g
<1>3. h[S] <= j[S]
  BY <1>1, <1>2, SumBelow
<1>4. h[S] \in Nat
  BY SumInsert
<1>5. j[S] \in Nat
  BY <1>1, SumInsert
<1> QED
  BY <1>1, <1>3, <1>4, <1>5

LEMMA StartsIs ==
  ASSUME TypeInv, NEW S \in SUBSET Nodes
  PROVE  \E h : IsSum(starts, S, h) /\ StartsOf(S) = h[S]
<1> DEFINE Is(h) == h = [s \in SUBSET S |-> IF s = {} THEN 0
                                            ELSE starts[CHOOSE x \in s : TRUE] + h[s \ {CHOOSE x \in s : TRUE}]]
           it == CHOOSE h : Is(h)
<1>1. StartsOf(S) = it[S]
  BY DEF StartsOf, MapThenSumSet, MapThenFoldSet
<1>2. IsFiniteSet(S) /\ \A n \in S : starts[n] \in Nat
  <2>1. IsFiniteSet(S)
    BY TreeIsFinite, FS_Subset
  <2>2. starts \in [Nodes -> Nat]
    BY TypeParts DEF TypeInv, SideTypes
  <2> QED
    BY <2>1, <2>2
<1>3. \A h : Is(h) <=> SolvesSum(starts, S, h)
  BY DEF SolvesSum, Picked
<1>4. (\E h : SolvesSum(starts, S, h)) /\ (\A h : SolvesSum(starts, S, h) => IsSum(starts, S, h))
  BY <1>2, SumSolved
<1> HIDE DEF Is
<1>5. Is(it)
  <2>1. \E h : Is(h)
    BY <1>3, <1>4
  <2> QED
    BY <2>1
<1> HIDE DEF it
<1>6. IsSum(starts, S, it)
  BY <1>3, <1>4, <1>5
<1> QED
  BY <1>1, <1>6

LEMMA StartsWithin ==
  ASSUME TypeInv, BudgetInv, NEW S \in SUBSET Nodes
  PROVE  StartsOf(S) <= Count(tree, S) /\ StartsOf(S) \in Nat /\ Count(tree, S) \in Nat
<1>1. PICK used, ended : UsedOK(used) /\ CountOK(used, ended)
  BY DEF BudgetInv
<1>2. ASSUME NEW n \in S
      PROVE  starts[n] <= RetryMultiplier(tree, n)
  <2>1. used[n] <= RetryMultiplier(tree, n) /\ RetryMultiplier(tree, n) \in Nat
    BY <1>1, UsedWithin
  <2>2. starts[n] + One(pc[n] = "called") <= used[n]
    BY <1>1 DEF CountOK
  <2>3. starts[n] \in Nat /\ used[n] \in Nat
    <3>1. starts \in [Nodes -> Nat] /\ used \in [Nodes -> Nat]
      BY <1>1, TypeParts DEF TypeInv, SideTypes, UsedOK
    <3> QED
      BY <3>1
  <2> QED
    BY <2>1, <2>2, <2>3 DEF One
<1>3. PICK h : IsSum(starts, S, h) /\ StartsOf(S) = h[S]
  BY StartsIs
<1> QED
  BY <1>2, <1>3, SumWithin

\* A run starts no more actions, and no more of each kind, than the policy counted of
\* its plan: no nesting of Retries, Parallels and Timeouts runs one more often than
\* the product of the attempts above it.
THEOREM BudgetCorrect == Spec => []StartsWithinBudget
<1>1. ASSUME TypeInv, BudgetInv
      PROVE  StartsWithinBudget
  <2>1. /\ OfType(tree, {"Action"}) \in SUBSET Nodes /\ ActionsOf(tree, PhysicalSkills) \in SUBSET Nodes
        /\ ActionsOf(tree, BaseSkills) \in SUBSET Nodes /\ ActionsOf(tree, BodySkills) \in SUBSET Nodes
    BY DEF OfType, ActionsOf, Nodes
  <2>2. {"actions", "physical", "base", "body"} \subseteq DOMAIN Limits
        /\ Limits.actions \in Nat /\ Limits.physical \in Nat /\ Limits.base \in Nat /\ Limits.body \in Nat
    BY LimitsAssumption
  <2>3. \A b \in {"actions", "physical", "base", "body"} : PolicyTotals(tree)[b] <= Limits[b]
    BY <1>1, <2>2 DEF BudgetInv, TotalsOK
  <2>4. /\ Count(tree, OfType(tree, {"Action"})) <= Limits.actions
        /\ Count(tree, ActionsOf(tree, PhysicalSkills)) <= Limits.physical
        /\ Count(tree, ActionsOf(tree, BaseSkills)) <= Limits.base
        /\ Count(tree, ActionsOf(tree, BodySkills)) <= Limits.body
    <3>1. /\ PolicyTotals(tree)["actions"] = Count(tree, OfType(tree, {"Action"}))
          /\ PolicyTotals(tree)["physical"] = Count(tree, ActionsOf(tree, PhysicalSkills))
          /\ PolicyTotals(tree)["base"] = Count(tree, ActionsOf(tree, BaseSkills))
          /\ PolicyTotals(tree)["body"] = Count(tree, ActionsOf(tree, BodySkills))
      BY DEF PolicyTotals
    <3> QED
      BY <2>3, <3>1
  <2>5. ASSUME NEW S \in SUBSET Nodes, NEW limit \in Nat, Count(tree, S) <= limit
        PROVE  StartsOf(S) <= limit
    <3>1. StartsOf(S) <= Count(tree, S) /\ StartsOf(S) \in Nat /\ Count(tree, S) \in Nat
      BY <1>1, StartsWithin
    <3> QED
      BY <2>5, <3>1
  <2> QED
    BY <2>1, <2>2, <2>4, <2>5 DEF StartsWithinBudget
<1> QED
  BY <1>1, BudgetHolds, PTL

\* The progress a run reports never passes the total it was announced with.
THEOREM ProgressCorrect == Spec => []ProgressWithinTotal
<1>1. ASSUME TypeInv, BudgetInv
      PROVE  ProgressWithinTotal
  <2> DEFINE S == OfType(tree, LeafTypes)
  <2>1. PICK used, ended : UsedOK(used) /\ CountOK(used, ended) /\ DoneOK(ended)
    BY <1>1 DEF BudgetInv
  <2>2. PICK h : IsSum(ended, S, h) /\ completed <= h[S]
    BY <2>1 DEF DoneOK
  <2>3. S \in SUBSET Nodes
    BY DEF OfType, Nodes
  <2>4. ASSUME NEW n \in S
        PROVE  ended[n] <= RetryMultiplier(tree, n)
    <3>1. used[n] <= RetryMultiplier(tree, n) /\ RetryMultiplier(tree, n) \in Nat
      BY <1>1, <2>1, <2>3, UsedWithin
    <3>2. ended[n] + One(Alive(n)) <= used[n]
      BY <2>1, <2>3 DEF CountOK
    <3>3. ended[n] \in Nat /\ used[n] \in Nat
      BY <2>1, <2>3 DEF UsedOK, DoneOK
    <3> QED
      BY <3>1, <3>2, <3>3 DEF One
  <2> HIDE DEF S
  <2>5. h[S] <= Count(tree, S) /\ h[S] \in Nat /\ Count(tree, S) \in Nat
    BY <1>1, <2>2, <2>3, <2>4, SumWithin
  <2>6. completed \in Nat
    BY <1>1, TypeParts DEF TypeInv, SideTypes
  <2>7. completed <= Count(tree, S)
    BY <2>2, <2>5, <2>6
  <2> QED
    BY <2>7 DEF ProgressWithinTotal, CountProgressLeaves, S
<1> QED
  BY <1>1, BudgetHolds, PTL

=============================================================================
