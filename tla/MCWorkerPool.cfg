SPECIFICATION PoolSpec
CONSTANTS
  None = None
  c1 = c1
  c2 = c2
  i1 = i1
  k1 = k1
  Calls <- MCCalls
  Invoices <- MCInvoices
  Keysends <- MCKeysends
  OfferPays = {}
  Txids = {}
  Requests <- MCRequests
  MaxPolls = 1
  Workers = 1
  MaxEvents = 2
PROPERTIES
  RequestsAnswered
  EventsHandled
