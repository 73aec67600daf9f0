CONSTANTS
  Plans <- MCPlans
  MaxNodes = 7
  Limits <- MCLimits

SPECIFICATION Spec

INVARIANT UnresolvedNeverPaused
