SPECIFICATION Spec
CONSTANTS
  Channels = {ch1}
  Forwards = {f1}
  Notices = {n1}
  Others = {x1}
  HasSigner = TRUE
  MaxCrashes = 2
  MaxMarkFailures = 1
CHECK_DEADLOCK FALSE
INVARIANT
  DeliveryFailureKeepsEvent
