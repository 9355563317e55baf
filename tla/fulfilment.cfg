INIT MCInit
NEXT MCNext
CONSTANTS
  j1 = j1
  j2 = j2
  a1 = a1
  a2 = a2
  r1 = r1
  Job = {j1, j2}
  Actor = {a1, a2}
  Resource = {r1}
  Owner <- MCOwner
  Syncer = {w1}
  MaxPlans = 2
  MaxStock = 1
  None = None
CHECK_DEADLOCK FALSE
INVARIANTS StockConserved VehicleHeldOnce AcceptedPlanSound
PROPERTIES ClosedPlansStay CompletionSettled
