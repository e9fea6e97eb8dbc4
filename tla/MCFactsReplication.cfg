SPECIFICATION FairSpec
CONSTANTS
  Triples = {f1, f2}
  Replicas = {r1}
  UwMax = 5
  MaxForwards = 1
INVARIANTS
  ResumesFromCursor
  CursorBehind
  StreamCompletes
  NothingUnpublished
PROPERTIES
  Converges
  BothEndsClose
  DialsAnswered
