SPECIFICATION ListWithinTtl
CONSTANTS
  c1 = c1
  l1 = l1
  r1 = r1
  t1 = t1
  u1 = u1
  u2 = u2
  None = None
  Users = {u1, u2}
  Ids = {t1}
  Tickets = {t1}
  Reservers = {r1}
  Cancellers = {}
  Confirms = {c1}
  Listers = {l1}
  MaxToken = 1
  PoolSize = 1
  AnyClient = FALSE
  Repeats = {FALSE}
  Faults = FALSE
SYMMETRY Symmetry
PROPERTIES
  ListedIsAvailable
CHECK_DEADLOCK FALSE
