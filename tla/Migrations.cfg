SPECIFICATION Spec
CONSTANTS
  s1 = s1
  s2 = s2
  None = None
  Sales = {s1, s2}
  EventSeeds <- TwoEvents
  ChunkSize = 2
INVARIANTS
  DbIsApplied
  NoOrphans
  ScriptsWork
PROPERTIES
  LostToIndexesOnly
  AllEnd
