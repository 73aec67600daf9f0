CONSTANTS
  Mission = {1, 2}
  NoMission = NoMission
  Reason <- MCReason
  Outcome = {"SUCCEEDED"}
  PriorityArg <- MCOnePriority
  MaxPlanVersion = 2
  MaxExecution = 2
  Planner = {1}
  Service = {"safety", "replan"}

SPECIFICATION Spec

INVARIANTS
  LiveRunnerIsCurrent

CHECK_DEADLOCK FALSE
