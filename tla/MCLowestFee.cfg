SPECIFICATION Spec
CONSTANTS
  None = None
  us = us
  a = a
  b = b
  d = d
  n1 = n1
  n2 = n2
  n3 = n3
  n4 = n4
  n5 = n5
  Nodes = {us, a, b, d, n1, n2, n3, n4, n5}
  Us = us
  Queries <- RateQueries
  MaxHops = 6
  Unit = 2
  WordSize = 16
CHECK_DEADLOCK FALSE
INVARIANT
  LowestFee
