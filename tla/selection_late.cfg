\* A shop accepts after its thirty-minute hold has lapsed.
SPECIFICATION Spec
CONSTANTS
  c1 = c1
  Case = {c1, c2}
  Provider = {p1}
  Legacy = {}
  Offer = {o1, o2}
  Units <- OneUnit
  Mode <- Modes
  Regulated = {}
  Reviewed = {}
  None = None
SYMMETRY Symmetry
INVARIANT AcceptedWithinCapacity
CHECK_DEADLOCK FALSE
