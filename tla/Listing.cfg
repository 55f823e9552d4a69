SPECIFICATION ListSpec
CONSTANTS
  c1 = c1
  l1 = l1
  r1 = r1
  x1 = x1
  t1 = t1
  u1 = u1
  u2 = u2
  None = None
  Users = {u1, u2}
  Ids = {t1}
  Tickets = {t1}
  Reservers = {r1}
  Cancellers = {x1}
  Confirms = {c1}
  Listers = {l1}
  MaxToken = 3
  PoolSize = 1
  AnyClient = TRUE
  Repeats = {FALSE, TRUE}
  Faults = FALSE
SYMMETRY Symmetry
INVARIANTS
  ListTypeOK
  HeldByMeWasGranted
  BookedByGrantee
PROPERTIES
  AcknowledgedNotListed
