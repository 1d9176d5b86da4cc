CONSTANTS
  m1 = m1
  m2 = m2
  m3 = m3
  Markets = {m1, m2, m3}
  Traded <- NosAndYes
  Amounts = {1}
  MaxU32 = 2
  MaxTrades = 2
SPECIFICATION Spec
INVARIANTS TypeOK OffByUntold LogAgrees NetNeverOverstated
CONSTRAINT FewParts
SYMMETRY Symmetry
CHECK_DEADLOCK FALSE
