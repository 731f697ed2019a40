CONSTANTS
  ins = ins
  cls = cls
  str = str
  Obj = {ins, cls, str}
  Kind <- MCKind
  RootKinds <- MCRootKinds
SPECIFICATION GCSpec
INVARIANTS NoDangling TriColour MarksCleared
PROPERTIES CollectsAll Terminates HeapSpec
