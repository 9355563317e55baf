\* Two PaymentIntents for one row, two requests served at a time, refunds.
SPECIFICATION Spec
CONSTANTS
  Intent = {i1, i2}
  Worker = {w1, w2}
  StripeMay = {"REFUND"}
  EarlyRetry = TRUE
  MaxCrashes = 0
  None = None
SYMMETRY Symmetry
INVARIANTS CaptureFollowsCharge ProcessedIsApplied BooksFollowLink
CHECK_DEADLOCK FALSE
