CONSTANTS
  Orders = {o1}
  Payloads <- MCPayloads
  Amounts <- MCAmounts
  PollMax = 3
SPECIFICATION Spec
INVARIANTS
  QrIsPayable
  ShownIsPayable
  OncePerOrder
  ToldUnlessExhausted
PROPERTIES
  KeepsPromise
  PollEnds
  RequestConcludes
CHECK_DEADLOCK FALSE
