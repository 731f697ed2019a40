CONSTANTS
  Avoid <- Known
  Consts = {"nil", "1", "s"}
  Ops = {"+", "and", "=="}
  MaxToks = 5
  MaxVars = 3
CHECK_DEADLOCK FALSE
SPECIFICATION Spec
INVARIANTS DescribesLast JumpsOpen Compiled
