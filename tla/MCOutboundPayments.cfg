SPECIFICATION Spec
CONSTANTS
  None = None
  c1 = c1
  c2 = c2
  i1 = i1
  k1 = k1
  o1 = o1
  t1 = t1
  Calls <- MCCalls
  Invoices <- MCInvoices
  Keysends <- MCKeysends
  OfferPays <- MCOfferPays
  Txids <- MCTxids
  Requests <- MCRequests
  MaxPolls = 2
CHECK_DEADLOCK FALSE
INVARIANTS
  TypeOK
  SuccessAnswerSound
  OnePaymentPerCall
  FailureIsFinal
PROPERTIES
  NoTimeoutOverSuccess
  Answered
  KeepsThePromise
