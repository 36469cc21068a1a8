SPECIFICATION FairSpec
CONSTANTS
  a = a
  b = b
  c = c
  d = d
  Keys = {a, b, c, d}
  Values = {1, 2}
  Absent = Absent
  NoKey = NoKey
  Fnv <- MCFnv
  InitialCapacity = 2
INVARIANTS
  TypeOK
  Findable
  AlwaysRoom
PROPERTIES
  IsMap
  Returns
