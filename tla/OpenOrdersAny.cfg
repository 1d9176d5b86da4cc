CONSTANTS
  k1 = k1
  k2 = k2
  o1 = o1
  o2 = o2
  o3 = o3
  c1 = c1
  c2 = c2
  NoOrder = NoOrder
  Keys = {k1, k2}
  Orders = {o1, o2}
  KeyOf <- Two
  CancelTasks = {c1, c2}
  MaxPartial = 1
  Faults = {"network", "loss", "price"}
SPECIFICATION Spec
SYMMETRY Symmetry
INVARIANTS TypeOK NoStuckCancel
PROPERTY SlotsSpec
CHECK_DEADLOCK FALSE
