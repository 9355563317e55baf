\* A declined card, then a charge that succeeds.
SPECIFICATION FairSpec
CONSTANTS
  Intent = {i1}
  Worker = {w1, w2}
  StripeMay = {"failed"}
  EarlyRetry = FALSE
  MaxCrashes = 0
  None = None
PROPERTIES PaidIsRecorded
CHECK_DEADLOCK FALSE
