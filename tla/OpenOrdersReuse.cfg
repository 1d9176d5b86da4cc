CONSTANTS
  k1 = k1
  k2 = k2
  o1 = o1
  o2 = o2
  o3 = o3
  c1 = c1
  c2 = c2
  NoOrder = NoOrder
  Keys = {k1, k2}
  Orders = {o1, o2, o3}
  KeyOf <- Three
  CancelTasks = {c1}
  MaxPartial = 0
  Faults = {}
SPECIFICATION Spec
SYMMETRY Symmetry3
INVARIANT OneLivePerKey
CHECK_DEADLOCK FALSE
