SPECIFICATION MCSpec
CONSTANTS
  a1 = a1
  a2 = a2
  a3 = a3
  r1 = r1
  r2 = r2
  w1 = w1
  w2 = w2
  c1 = c1
  c2 = c2
  e1 = e1
  l1 = l1
  l2 = l2
  i1 = i1
  i2 = i2
  Appointment = {a1, a2, a3}
  Resource = {r1, r2}
  Window = {w1, w2}
  Case = {c1, c2}
  Entry = {e1}
  For <- MCFor
  On <- MCOn
  During <- MCDuring
  Nominal <- MCNominal
  Interval <- MCInterval
  Technician = {t1, t2}
  Payment = {p1, p2, p3}
  MaxPrice = 2
  None = None
SYMMETRY Symmetry
CHECK_DEADLOCK FALSE
INVARIANTS CapacityKept AuthorizedWork OpenClockIsLive OverpaymentExplained
