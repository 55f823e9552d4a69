SPECIFICATION LiveSpec
CONSTANTS
  t1 = t1
  t2 = t2
  Other = Other
  None = None
  Tickets = {t1, t2}
  Groups <- Singles
  MaxToken = 2
  MaxOpen = 2
INVARIANTS
  TypeOK
  DialogOfReservation
  WaitsForItsRequest
  OneConfirmPerPage
  ConfirmedIsBought
PROPERTIES
  KnownHoldKept
  NeverStuck
