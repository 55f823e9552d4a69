SPECIFICATION LiveSpec
CONSTANTS
  r1 = r1
  t1 = t1
  t2 = t2
  u1 = u1
  None = None
  Users = {u1}
  Ids = {t1, t2}
  Tickets = {t1, t2}
  Reservers = {r1}
  Cancellers = {}
  Confirms = {}
  MaxToken = 2
  PoolSize = 1
  AnyClient = FALSE
  Repeats = {FALSE}
  Faults = FALSE
PROPERTIES
  GrantIsHeld
CHECK_DEADLOCK FALSE
