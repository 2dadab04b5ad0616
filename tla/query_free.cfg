SPECIFICATION Spec
CONSTANTS
  Kinds = {"select", "modify"}
  Calls = {"count", "silent", "assign", "copy", "copydirty", "reexec", "reset"}
  NoClauses = NoClauses
  Null = Null
  NoText = NoText
  NoStmt = NoStmt
  q1 = q1
  q2 = q2
  c1 = c1
  c2 = c2
  s1 = s1
  s2 = s2
  v1 = v1
  v2 = v2
  Queries = {q1, q2}
  Clauses = {c1, c2}
  Slots = {s1}
  Values = {v1}
SYMMETRY Symmetry
PROPERTY ModificationHeals
