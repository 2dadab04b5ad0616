SPECIFICATION Spec
CONSTANTS
  Backends = {"sqlite", "postgres", "mysql"}
  Modes = {"query", "clause", "statement"}
  Null = Null
  Unset = Unset
  Dead = Dead
  Garbled = Garbled
  b1 = b1
  b2 = b2
  blob = blob
  at = at
  Objects = {b1, b2}
  Values = {blob, at}
  Blobs = {blob}
  AtValue = at
  Prealloc = 1
  Increment = 1
  MaxIndex = 3
  MaxConds = 3
  MaxSet = 1
  MaxWhere = 2
  MaxParams = 3
SYMMETRY Symmetry
INVARIANT TypeOK
INVARIANT OrderlyQueryIsFaithful
INVARIANT NumberedConditionsKeepTheirValues
INVARIANT ClauseMeansItsExpression
INVARIANT ArrayIsMap
