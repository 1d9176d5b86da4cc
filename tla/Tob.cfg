CONSTANTS
  k1 = k1
  k2 = k2
  o1 = o1
  o2 = o2
  o3 = o3
  c1 = c1
  c2 = c2
  a1 = a1
  a2 = a2
  NoOrder = NoOrder
  Keys = {k1, k2}
  Orders = {o1, o2, o3}
  KeyOf <- TwoAndOne
  CancelTasks = {c1, c2}
  MaxPartial = 1
  Faults = {}
  Assets = {a1, a2}
  AssetOf <- OneToken
SPECIFICATION TobSpec
VIEW View
SYMMETRY Symmetry
INVARIANTS OneQuote BelowThriceTarget AgreesUnlessReused
CONSTRAINT WithinScope
CHECK_DEADLOCK FALSE
