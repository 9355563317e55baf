SPECIFICATION MCSpec
CONSTANTS
  Case = {c1}
  Payment = {p1, p2}
  Payout = {q1, q2}
  Event = {e1, e2}
  Ref = {r1}
  Settler = {s1, s2}
  NoPayout = NoPayout
  MaxAmount = 2
  MaxRevision = 2
  NoCase = NoCase
  NoPayment = NoPayment
  NoEvent = NoEvent
  NoRef = NoRef
SYMMETRY Symmetry
INVARIANTS RequestsWithinApproval Reconciles AllocationFromCapture BalanceUnlessResumed MoneyOutCounted
PROPERTIES CompletionIsGuarded
CHECK_DEADLOCK FALSE
