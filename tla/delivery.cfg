SPECIFICATION MCSpec
CONSTANTS
  Item = {i1}
  Cron = {c1, c2}
  Server = {n1, n2}
  MaxAttempts = 2
  MaxLapses = 1
  MaxCrashes = 1
  MaxRequeues = 1
  Key = {k1}
  Body = {b1, b2}
  Event = {e1}
  MaxExpiries = 1
  MaxStops = 2
  None = None
CHECK_DEADLOCK FALSE
INVARIANTS CopiesExplained ExpiredIsEscalated OnceEach
PROPERTIES FreshestScan ImplementsChannel EventuallySettled
