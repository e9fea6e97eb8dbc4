SPECIFICATION Spec
CONSTANTS
  fact1 = fact1
  fact2 = fact2
  fact3 = fact3
  Triples = {fact1, fact2}
  UwMax = 4
PROPERTY OpenLosesNothing
