\* One PaymentIntent, everything but declined cards, one crash, redelivery after the lease.
SPECIFICATION FairSpec
CONSTANTS
  Intent = {i1}
  Worker = {w1}
  StripeMay = {"requires_action", "cancelled", "REFUND", "under_review", "lost"}
  EarlyRetry = FALSE
  MaxCrashes = 1
  None = None
INVARIANTS LossPostedOnce
 
CHECK_DEADLOCK FALSE
