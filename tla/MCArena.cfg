SPECIFICATION Spec
CONSTANTS
  p1 = p1
  p2 = p2
  p3 = p3
  p4 = p4
  p5 = p5
  Addresses = {p1, p2, p3, p4, p5}
  Null = Null
  TreeHolders = {n1, n2, n3}
  CodeHolders = {c1, c2, c3}
  n1 = n1
  n2 = n2
  n3 = n3
  c1 = c1
  c2 = c2
  c3 = c3
  InitialCapacity = 1
SYMMETRY AnyAddress
INVARIANTS
  Owned
  KeptLive
