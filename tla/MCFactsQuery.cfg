SPECIFICATION Spec
CONSTANTS
  Have = {"F32", "F64", "F80", "F128"}
  NaN = NaN
  Unbound = Unbound
  Triples <- MCTriples
  Specs <- MCSpecs
  Order <- MCOrder
  Hash <- MCHash
  Buckets = 2
  VarType <- MCVarType
  MaxFacts = 3
INVARIANTS
  SetAccounts
  IndexesOrdered
  AnswersExact
  VarsReset
