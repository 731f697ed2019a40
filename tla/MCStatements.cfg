CONSTANTS
  Avoid <- Known
  MaxStms = 4
  MaxNest = 4
CHECK_DEADLOCK FALSE
SPECIFICATION Spec
INVARIANTS StackBalanced AllPatched NoStalePatch AlwaysReturns
