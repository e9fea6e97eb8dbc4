SPECIFICATION Spec
CONSTANTS
  Have = {"F32", "F64", "F80", "F128"}
  NaN = NaN
  Unbound = Unbound
  Triples <- WideTriples
  Specs <- WideSpecs
  Order <- MCOrder
  Hash <- MCHash
  Buckets = 2
  VarType <- MCVarType
  MaxFacts = 3
INVARIANT FactsFound
