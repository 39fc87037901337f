CONSTANTS
  Orders = {o1, o2}
  Accounts = {a1}
  NoOrder = NoOrder
  NoAccount = NoAccount
  MaxAttempts = 2
  Handlers = {h1, h2}
  Jobs = {"reconcile", "retry"}
  Requests = {"webhook", "confirm", "forceSettle"}
  Faults = {"send"}
  Reported = {"settlement", "expire"}
SPECIFICATION Spec
SYMMETRY Symmetry
INVARIANTS
  OrderKeepsAccount
  NoDoubleSell
  AtMostOnceDispatch
  DeliveredAgree
  AttemptsBounded
  DuplicateIsHandled
PROPERTIES
  ForwardOnly
  KeepsLedger
CHECK_DEADLOCK FALSE
