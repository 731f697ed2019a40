CONSTANTS
  x = x
  y = y
  f = f
  Names = {x, y}
  Fixed = {y}
  FnNames = {f}
  Free = {x, y, f}
  MaxDepth <- OneLevel
  MaxDecls = 6
  Adjacent = FALSE
  NoName = noname
CHECK_DEADLOCK FALSE
SPECIFICATION Spec
INVARIANTS StackMatches LexicalScoping FlagsExact
