CONSTANTS
  Mission = {1, 2, 3}
  NoMission = NoMission
  Reason <- MCReason
  Outcome = {"SUCCEEDED"}
  PriorityArg <- MCOnePriority
  MaxPlanVersion = 1
  MaxExecution = 2
  Planner = {1, 2}
  Service = {"cancel", "resume", "safety"}

SPECIFICATION Spec

INVARIANTS
  OnlySlotHolderWorks
  WaitingHasPlanner

CHECK_DEADLOCK FALSE
