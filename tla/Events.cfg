SPECIFICATION Spec
CONSTANTS
  NoCursor = NoCursor
  Events <- Ties
  PageLimit = 2
CHECK_DEADLOCK FALSE
INVARIANTS
  WalkIsPrefix
  EndsAtTheEnd
