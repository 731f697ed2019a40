CONSTANTS
  k1 = k1
  k2 = k2
  k3 = k3
  k4 = k4
  k5 = k5
  Keys = {k1, k2, k3, k4, k5}
  Empty = Empty
  True = True
  Nil = Nil
  Absent = Absent
  Vals = {Empty, True, Nil}
  Hash <- MCHash
  InitialSize = 2
  Sources <- MCSources
  Active <- MCActive
  MaxCap <- MCMaxCap
SPECIFICATION FairSpec
INVARIANTS TypeOK Accounting ProbesEnd WellFormed RehashKeepsEntries IntoCopies
PROPERTIES DictSpec CallsReturn
