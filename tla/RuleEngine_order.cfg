SPECIFICATION Spec
CONSTANTS
  q1 = q1
  q2 = q2
  a1 = a1
  a2 = a2
  a3 = a3
  Queries = {q1, q2}
  Answers = {a1, a2, a3}
  None = None
  Builtin <- BuiltinIntents
  Contents <- NewOnly
  RuntimeRules <- Added
  Misread <- MixedRules
  MinScore = 1
  MaxRules = 3
  MaxEdits = 0
  MaxReloads = 1
INVARIANT DocumentedOrder
