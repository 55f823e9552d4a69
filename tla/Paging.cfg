SPECIFICATION Spec
CONSTANTS
  NoCursor = NoCursor
  AllSections = AllSections
  Seats <- TwoSections
  Quantities = {1, 2}
  Limit = 1
  MaxChanges = 1
  MaxQueries = 2
INVARIANTS
  ScanFindsBlocks
  CursorsAscend
  NoSeatTwice
  WalkComplete
