SPECIFICATION LiveSpec
CONSTANTS
  c1 = c1
  r1 = r1
  t1 = t1
  u1 = u1
  u2 = u2
  x1 = x1
  None = None
  Users = {u1, u2}
  Ids = {t1}
  Tickets = {t1}
  Reservers = {r1}
  Cancellers = {x1}
  Confirms = {c1}
  MaxToken = 2
  PoolSize = 1
  AnyClient = FALSE
  Repeats = {FALSE}
  Faults = FALSE
PROPERTIES
  CleanupOwnHolds
CHECK_DEADLOCK FALSE
