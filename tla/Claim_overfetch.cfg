SPECIFICATION Spec
CONSTANTS
  NoCursor = NoCursor
  AllSections = AllSections
  Seats <- OneSection
  Quantities = {1}
  Limit = 1
  MaxChanges = 0
  MaxQueries = 2
INVARIANTS
  OverfetchSuffices
