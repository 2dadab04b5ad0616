SPECIFICATION Spec
CONSTANTS
  Backends = {"sqlite", "postgres", "mysql"}
  Calls = {"share", "rerun", "requery", "mix", "fail"}
  MaxRows = 2
  MaxPos = 1
  NoResult = NoResult
  NoStmt = NoStmt
  r1 = r1
  r2 = r2
  s1 = s1
  s2 = s2
  s3 = s3
  i1 = i1
  i2 = i2
  Results = {r1, r2}
  Statements = {s1, s2}
  Iterators = {i1, i2}
SYMMETRY Symmetry
PROPERTY BeginShowsFirstRow
