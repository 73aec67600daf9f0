CONSTANTS
  Plans <- MCPlans
  MaxNodes = 7
  Limits <- MCLimits

SPECIFICATION Spec

INVARIANTS
  ExecutorTypeOK
  EarnedSuccess
  BlockedSurfaces
  OrphansCanceled
  ResolvingAlone
  FactsReachGoalCheck
  NewestFactStands
  ProgressWithinTotal
  NoConflictAtWork
  StartsWithinBudget

PROPERTIES
  UnresolvedNotRepeated
  CancelSettles
  TimeoutsBoundPlan
