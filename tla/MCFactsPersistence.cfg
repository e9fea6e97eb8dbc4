SPECIFICATION Spec
CONSTANTS
  fact1 = fact1
  fact2 = fact2
  fact3 = fact3
  Triples = {fact1, fact2, fact3}
  UwMax = 7
INVARIANTS
  TypeOK
  IdsInOrder
  MemoryIsPublished
PROPERTIES
  ReopensToPublished
  KeepsOldest
