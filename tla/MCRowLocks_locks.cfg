CONSTANTS
  Txns = {1, 2, 3}
  N = 2
  M = 1
  accountOf <- AllOfOne
SPECIFICATION MCSpec
INVARIANTS
  CirclesAreCrossed
PROPERTIES
  EveryTxnEnds
CHECK_DEADLOCK FALSE
