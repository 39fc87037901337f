CONSTANTS
  Orders = {o1}
  Accounts = {a1}
  NoOrder = NoOrder
  NoAccount = NoAccount
  MaxAttempts = 2
  Handlers = {h1}
  Jobs = {"reconcile", "cleanup", "retry"}
  Requests = {"webhook", "confirm", "cancel", "redeliver"}
  Faults = {"charge", "persist", "db", "send", "ambiguous"}
  Reported = {"settlement", "deny"}
SPECIFICATION Spec
INVARIANTS
  TypeOK
  PaidBeforeDispatch
  ProcessedTookEffect
CHECK_DEADLOCK FALSE
