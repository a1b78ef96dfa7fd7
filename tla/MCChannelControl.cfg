SPECIFICATION Spec
CONSTANTS
  None = None
  c1 = c1
  c2 = c2
  c3 = c3
  c4 = c4
  ch1 = ch1
  p1 = p1
  Calls <- MCCalls
  Channels <- MCChannels
  Peers <- MCPeers
  Requests <- MCRequests
  DefaultFees <- MCDefaultFees
  FeeLimit = 1
SYMMETRY Symmetric
CHECK_DEADLOCK FALSE
INVARIANTS
  TypeOK
  FeesGoBackNoFurther
  FeesFollowRequests
  ClosedIsClosed
