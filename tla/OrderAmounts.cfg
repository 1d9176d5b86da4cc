CONSTANTS
  Prices = {4, 45, 50, 575, 580}
  Sizes = {9, 280, 285, 290, 570, 50000}
  Ticks = {100, 10, 1}
  MaxCalls = 2
SPECIFICATION Spec
INVARIANTS SentAsAsked OnlyInexactLeftBehind TrackedUnlessInexact
CHECK_DEADLOCK FALSE
