SPECIFICATION Spec
CONSTANTS
  Backends = {"sqlite", "postgres", "mysql"}
  Sessions = {s1, s2}
  Records = {r1, r2}
  Cols = {"a", "b"}
  NewCol = "b"
  Values = {v1}
  Null = Null
  Unset = Unset
  NoRow = NoRow
  NoSchema = NoSchema
  Uninit = Uninit
  Nobody = Nobody
  Keys = {1, 2}
  Worlds = {"sessions", "schemas"}
  MaxId = 2
  MaxGen = 2
CHECK_DEADLOCK FALSE
INVARIANTS
  TypeOK
  SyncedRecordIsItsRow
  SavedRecordIsNotInsertedAgain
PROPERTIES
  DeletedStaysDeleted
  SaveTerminates
