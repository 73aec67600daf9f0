CONSTANTS
  Mission = {1, 2}
  NoMission = NoMission
  Reason = {""}
  PriorityArg = {0}
  Outcome = {"SUCCEEDED"}
  MaxPlanVersion = 1
  MaxExecution = 1
  Publishers = {p1, p2}
  MaxLives = 2
  MaxChanges = 3

SPECIFICATION Spec

SYMMETRY Exchange

INVARIANTS
  JournalTypeOK
  JournalKeepsUp
  RecoveredStayClosed
  ProjectionCurrent
