CONSTANTS
  a = a
  b = b
  m1 = m1
  m2 = m2
  i1 = i1
  i2 = i2
  padded = padded
  blank = blank
  None = None
  Goals = {a, b}
  RequestIds = {i1, i2, padded, blank}
  Stripped <- MCStripped
  Missions = {m1, m2}
  Cancelable = {m1}
  Operators = {1}
  TTL = 4
  OperatorDecisions = {"APPROVED", "DENIED"}
  Mixes <- MCMixes

SPECIFICATION FairSpec

INVARIANTS
  ServicesTypeOK
  RegistryHoldsWaiting
  CurrentIsLastWaiting
  AbandonedOnlyLate
  OnlyOperatorsApprove
  LeaseKeptAlive
  EvidenceDecides

PROPERTIES
  AnswersAreKept
  EveryLeaseEnds
