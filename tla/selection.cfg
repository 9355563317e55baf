\* A dispatched case and one whose customer chooses compete for the one unit of a shop.
SPECIFICATION Spec
CONSTANTS
  c1 = c1
  Case = {c1, c2}
  Provider = {p1}
  Legacy = {}
  Offer = {o1, o2}
  Units <- OneUnit
  Mode <- Modes
  Regulated = {}
  Reviewed = {}
  None = None
SYMMETRY Symmetry
INVARIANTS NoOverbooking TimelyKeepsCapacity
CHECK_DEADLOCK FALSE
