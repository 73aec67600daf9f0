CONSTANTS
  Mission = {1, 2}
  NoMission = NoMission
  Reason <- MCReason
  Outcome = {"SUCCEEDED"}
  PriorityArg <- MCOnePriority
  MaxPlanVersion = 1
  MaxExecution = 2
  Planner = {1, 2}
  Service = {"pause"}

SPECIFICATION Spec

INVARIANTS
  OneRunning

CHECK_DEADLOCK FALSE
