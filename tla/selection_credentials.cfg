\* One regulated case, a shop whose evidence is under review and one without a window.
SPECIFICATION Spec
CONSTANTS
  c1 = c1
  Case = {c1}
  Provider = {p1, p2}
  Legacy = {p2}
  Offer = {o1, o2}
  Units <- OneUnit
  Mode <- Modes
  Regulated = {c1}
  Reviewed = {p1}
  None = None
SYMMETRY Symmetry
INVARIANTS HoldFollowsSelection AcceptedIsSelected PendingIsAnswerable RevocationIsTracked
CHECK_DEADLOCK FALSE
