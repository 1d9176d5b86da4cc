CONSTANTS
  k1 = k1
  k2 = k2
  o1 = o1
  o2 = o2
  o3 = o3
  c1 = c1
  c2 = c2
  NoOrder = NoOrder
  Keys = {k1, k2}
  Orders = {o1, o2}
  KeyOf <- Two
  CancelTasks = {c1}
  MaxPartial = 0
  Faults = {"network"}
SPECIFICATION FairSpec

PROPERTIES UnconfirmedResolves CancelResolves FinishedIsFreed
CHECK_DEADLOCK FALSE
