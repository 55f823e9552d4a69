SPECIFICATION LiveSpec
CONSTANTS
  t1 = t1
  t2 = t2
  Other = Other
  None = None
  Tickets = {t1, t2}
  Groups <- AnyGroup
  MaxToken = 1
  MaxOpen = 2
PROPERTIES
  CancelledNotListed
