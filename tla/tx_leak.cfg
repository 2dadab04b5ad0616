SPECIFICATION Spec
CONSTANTS
  Backends = {"sqlite", "postgres", "mysql"}
  Calls = {"commit", "rollback", "save", "copy", "move", "fail", "nested", "refuse"}
  MaxSaves = 2
  NoImpl = NoImpl
  NoConn = NoConn
  h1 = h1
  h2 = h2
  h3 = h3
  i1 = i1
  i2 = i2
  c1 = c1
  c2 = c2
  w1 = w1
  w2 = w2
  n1 = n1
  n2 = n2
  Handles = {h1, h2, h3}
  Impls = {i1, i2}
  Conns = {c1}
  Writes = {w1, w2}
  Names = {n1}
SYMMETRY Symmetry
INVARIANT NoLeakedTransaction
CHECK_DEADLOCK FALSE
