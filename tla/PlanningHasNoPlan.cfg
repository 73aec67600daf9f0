CONSTANTS
  Mission = {1, 2}
  NoMission = NoMission
  Reason <- MCReason
  Outcome = {"SUCCEEDED"}
  PriorityArg <- MCPriorityArg
  MaxPlanVersion = 2
  MaxExecution = 2

SPECIFICATION ManagerSpec

INVARIANT PlanningHasNoPlan

CHECK_DEADLOCK FALSE
