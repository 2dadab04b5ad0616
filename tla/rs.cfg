SPECIFICATION FairSpec
CONSTANTS
  Backends = {"sqlite", "postgres", "mysql"}
  Calls = {}
  MaxRows = 2
  MaxPos = 2
  NoResult = NoResult
  NoStmt = NoStmt
  r1 = r1
  r2 = r2
  s1 = s1
  s2 = s2
  s3 = s3
  i1 = i1
  i2 = i2
  Results = {r1, r2}
  Statements = {s1, s2, s3}
  Iterators = {i1, i2}
INVARIANT TypeOK
INVARIANT IteratorShowsItsRow
INVARIANT FetchHasBuffer
PROPERTY LoopEndsAfterLastRow
PROPERTY OwnPass
PROPERTY LoopTerminates
