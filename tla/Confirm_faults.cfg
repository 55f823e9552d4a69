SPECIFICATION LiveSpec
CONSTANTS
  c1 = c1
  c2 = c2
  r1 = r1
  t1 = t1
  t2 = t2
  u1 = u1
  None = None
  Users = {u1}
  Ids = {t1, t2}
  Tickets = {t1, t2}
  Reservers = {r1}
  Cancellers = {}
  Confirms = {c1, c2}
  MaxToken = 1
  PoolSize = 2
  AnyClient = FALSE
  Repeats = {FALSE}
  Faults = TRUE
INVARIANTS
  TypeOK
  SoldWhole
  SuccessIsBooked
PROPERTIES
  SaleSafe
  HoldEnds
  ConfirmAnswered
