SPECIFICATION Spec
CONSTANTS
  None = None
  us = us
  a = a
  b = b
  d = d
  n1 = n1
  n2 = n2
  n3 = n3
  n4 = n4
  n5 = n5
  Nodes = {us, a, b, d, n1, n2, n3, n4, n5}
  Us = us
  Queries <- SearchQueries
  MaxHops = 3
  Unit = 2
  WordSize = 10
CHECK_DEADLOCK FALSE
INVARIANTS
  TypeOK
  RoutesArePaths
  RoutesInOrder
  FirstIsCheapest
  NoneFoundIsNoneThere
