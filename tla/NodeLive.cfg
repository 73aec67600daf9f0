CONSTANTS
  Mission = {1, 2}
  NoMission = NoMission
  Reason <- MCReason
  Outcome = {"SUCCEEDED"}
  PriorityArg <- MCOnePriority
  MaxPlanVersion = 2
  MaxExecution = 2
  Planner = {1, 2}
  Service = {"cancel", "replan"}

SPECIFICATION FairSpec

PROPERTIES
  PlannedEventually
  ResultOfCurrentRun

CHECK_DEADLOCK FALSE
