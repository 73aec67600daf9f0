CONSTANTS
  Mission = {1, 2}
  NoMission = NoMission
  Reason <- MCReason
  Outcome = {"SUCCEEDED"}
  PriorityArg <- MCTwoPriorities
  MaxPlanVersion = 1
  MaxExecution = 2
  Planner = {1}
  Service = {"pause", "resume", "reprioritize", "social", "replan"}

SPECIFICATION Spec

INVARIANTS
  NodeTypeOK
  RegistryTracksThreads
  CancelHitsOnlySuperseded

CHECK_DEADLOCK FALSE
