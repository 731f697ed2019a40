CONSTANTS
  Tokens <- Few
  Openings <- FewStarts
  MaxToks = 3
  Avoid = {}
SPECIFICATION FairSpec
PROPERTIES Returns
CHECK_DEADLOCK FALSE
