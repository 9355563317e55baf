SPECIFICATION MCSpec
CONSTANTS
  t1 = t1
  t2 = t2
  Technician = {t1, t2}
  Publisher = {a1, a2}
  Demand <- MCDemand
  Track <- MCTrack
  MaxListings = 2
  MaxOffers = 2
  Shop = {a1, a2}
  Request = {b1, b2}
  MaxQuotes = 2
  Price = {1, 2}
  r1 = r1
  c1 = c1
  Run = {r1, r2}
  Case = {c1, c2}
  Admin = {a1, a2}
  Shortfall = {"usable_bay"}
  Concern = {"capacity_health"}
  MaxTrouble = 2
  MaxVersion = 10
  MaxApprovals = 1
  Reviewer = {a1, a2}
  Words <- MCWords
  Answer <- MCAnswer
  Scan <- MCScan
  ScanLimit = 2
  MaxScans = 3
  MaxAssessments = 1
  Vehicle = {a1, a2}
  Vin = {b1, b2}
  Reporter = {d1, d2}
  EventId = {e1}
  MaxConsents = 2
  MaxCovers = 1
  Actor = {k1, k2, k3}
  Offered <- MCOffered
  Policy <- MCPolicy
  None = None
SYMMETRY Symmetry
CHECK_DEADLOCK FALSE
INVARIANTS HandedOutOnce TermsAreCurrent PilotAccounted OperatorHolds ApprovalBinds  RightVehicle 
