SPECIFICATION Spec
CONSTANTS
  c1 = c1
  c2 = c2
  r1 = r1
  t1 = t1
  t2 = t2
  u1 = u1
  u2 = u2
  None = None
  Users = {u1, u2}
  Ids = {t1, t2}
  Tickets = {t1, t2}
  Reservers = {r1}
  Cancellers = {}
  Confirms = {c1, c2}
  MaxToken = 2
  PoolSize = 2
  AnyClient = FALSE
  Repeats = {FALSE, TRUE}
  Faults = FALSE
SYMMETRY Symmetry
INVARIANTS
  NoDoubleBooking
  TokenOfOneUser
  SuccessIsBooked
  FailureIsFree
  LoserNotCharged
  HoldGivenBack
PROPERTIES
  HoldImmutable
CHECK_DEADLOCK FALSE
