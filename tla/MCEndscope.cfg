CONSTANTS
  x = x
  y = y
  f = f
  Names = {x, y}
  Fixed = {y}
  FnNames = {f}
  Free = {x, y}
  MaxDepth <- Blocks
  MaxDecls = 3
  Adjacent = TRUE
  NoName = noname
CHECK_DEADLOCK FALSE
SPECIFICATION Spec
INVARIANTS StackMatches
