SPECIFICATION Spec
CONSTANTS
  None = None
  Unusable = Unusable
  h1 = h1
  h2 = h2
  o1 = o1
  c1 = c1
  c2 = c2
  Incoming <- MCIncoming
  Outgoing <- MCOutgoing
  NotByHash <- MCNotByHash
  Holds <- MCHolds
  Calls <- MCCalls
  Requests <- MCRequests
  Lookups <- MCLookups
  MaxTime = 1
  MaxChanges = 4
SYMMETRY Symmetric
CHECK_DEADLOCK FALSE
INVARIANTS
  TypeOK
  NothingSkipped
  NothingTwice
  ShortPageIsLast
  InvoicesStayListed
  ListedIsFound
  OutcomeWasAskedFor
PROPERTY
  OkEndsHold
