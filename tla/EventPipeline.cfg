CONSTANTS
  l1 = l1
  l2 = l2
  l3 = l3
  Listeners = {l1, l2, l3}
  MaxSends = 2
SPECIFICATION FairSpec
INVARIANTS TypeOK PendingAccountsForAll
PROPERTIES HandledInOrder EveryEventHandled
CHECK_DEADLOCK FALSE
