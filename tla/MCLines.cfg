SPECIFICATION Spec
CONSTANTS
  Sources <- MCSources
  Avoid = {"hex_newline", "escape_end", "exponent", "ellipsis", "octal_digit"}
  SameLine = FALSE
  MaxTrims = 2
INVARIANTS LongestMatch NothingLost TokenLine LinesRight
CHECK_DEADLOCK FALSE
