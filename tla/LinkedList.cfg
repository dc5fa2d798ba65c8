SPECIFICATION CallSpec
CONSTANTS
  Addr = {n1, n2, n3, n4, n5}
  Item = {a, b}
  NULL = NULL
  Capacity = 4
INVARIANTS ListTypeOK RingOK
PROPERTY ImplementsRing
