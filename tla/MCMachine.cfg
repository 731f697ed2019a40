CONSTANTS
  main = main
  c1 = c1
  c2 = c2
  u1 = u1
  u2 = u2
  Clo = {main, c1, c2}
  Upval = {u1, u2}
  Nil = nil
  Data = {nil}
  Main = main
  None = none
  Arity <- MCArity
  MaxStack = 3
  MaxFrames = 2
  Wants = {0, 2}
  TempInit = 4
CHECK_DEADLOCK FALSE
SPECIFICATION Spec
INVARIANTS OpenSorted OpenOnStack NoDangling
PROPERTIES BoxSpec
SYMMETRY Symmetry
