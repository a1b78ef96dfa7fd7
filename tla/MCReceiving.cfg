SPECIFICATION Spec
CONSTANTS
  None = None
  c1 = c1
  c2 = c2
  c3 = c3
  i1 = i1
  o1 = o1
  o2 = o2
  a1 = a1
  a2 = a2
  Calls <- MCCalls
  Invoices <- MCInvoices
  Offers <- MCOffers
  Addresses <- MCAddresses
  Requests <- MCRequests
  MaxCrashes = 1
SYMMETRY Symmetric
CHECK_DEADLOCK FALSE
INVARIANTS
  TypeOK
  HandedOutIsKnown
  ErrorIssuesNothing
  MadeIsHandedOut
  DisabledStaysDisabled
  OnlyRestartForgets
