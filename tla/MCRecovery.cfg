CONSTANTS
  Tokens <- AllTokens
  MaxToks = 3
  Openings <- Starts
  Avoid = {"fixed_any"}
SPECIFICATION FairSpec
INVARIANTS Balanced NoCascade
PROPERTIES Ends
CHECK_DEADLOCK FALSE
