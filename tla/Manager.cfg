CONSTANTS
  Mission = {1, 2, 3}
  NoMission = NoMission
  Reason <- MCReason
  Outcome = {"SUCCEEDED"}
  PriorityArg <- MCPriorityArg
  MaxPlanVersion = 1
  MaxExecution = 2

SPECIFICATION ManagerSpec

INVARIANTS
  ManagerTypeOK
  ActiveIsOpen
  IdleSlotHasNoQueue
  RunningIsExecutable

PROPERTIES
  TerminalIsFinal
  IdentityAdvances
  PromotesBestQueued

CHECK_DEADLOCK FALSE
