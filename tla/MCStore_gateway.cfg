CONSTANTS
  Orders = {o1, o2}
  Accounts = {a1}
  NoOrder = NoOrder
  NoAccount = NoAccount
  MaxAttempts = 2
  Handlers = {h1}
  Jobs = {"reconcile", "cleanup", "retry"}
  Requests = {"webhook", "badSignature"}
  Faults = {"charge"}
  Reported = {"settlement", "expire"}
SPECIFICATION Spec
SYMMETRY Symmetry
INVARIANTS
  MoneyBehindPaid
  HolderLinked
  SoldAfterDispatch
PROPERTIES
  SettledOnce
  SoldForever
CHECK_DEADLOCK FALSE
