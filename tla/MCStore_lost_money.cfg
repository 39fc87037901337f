CONSTANTS
  Orders = {o1}
  Accounts = {a1}
  NoOrder = NoOrder
  NoAccount = NoAccount
  MaxAttempts = 2
  Handlers = {h1}
  Jobs = {"reconcile", "cleanup", "retry"}
  Requests = {"webhook"}
  Faults = {}
  Reported = {"settlement"}
SPECIFICATION FairSpec
PROPERTIES
  SettlementHonoured
CHECK_DEADLOCK FALSE
