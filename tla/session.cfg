SPECIFICATION Spec
CONSTANTS
  Backends = {"sqlite", "postgres", "mysql"}
  Objects = {o1, o2, o3, o4}
  MaxConn = 2
SYMMETRY Symmetry
CHECK_DEADLOCK FALSE
INVARIANTS
  TypeOK
  ReleasedAfterUse
  ConnectionOutlivesItsUsers
