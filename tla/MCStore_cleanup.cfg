CONSTANTS
  Orders = {o1, o2}
  Accounts = {a1}
  NoOrder = NoOrder
  NoAccount = NoAccount
  MaxAttempts = 2
  Handlers = {h1}
  Jobs = {"reconcile", "cleanup", "retry"}
  Requests = {"webhook"}
  Faults = {}
  Reported = {"pending", "settlement"}
SPECIFICATION FairSpec
PROPERTIES
  OverdueIsClosed
CHECK_DEADLOCK FALSE
