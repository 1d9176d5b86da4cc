CONSTANTS
  k1 = k1
  k2 = k2
  o1 = o1
  o2 = o2
  o3 = o3
  c1 = c1
  c2 = c2
  a1 = a1
  a2 = a2
  NoOrder = NoOrder
  Keys = {k1, k2}
  Orders = {o1, o2, o3}
  KeyOf <- TwoAndOne
  CancelTasks = {c1, c2}
  MaxPartial = 0
  Faults = {"loss"}
  Assets = {a1, a2}
  AssetOf <- TwoAssets
  trade_cooldown = 5
  cancel_after = 1
  http_timeout = 2
SPECIFICATION KoenSpec
CONSTRAINT Running
SYMMETRY Symmetry
INVARIANTS NeverCancelsSuccessor StaleIsCancelled CancelTargetsOwnKey LiveIsTracked
CHECK_DEADLOCK FALSE
