CONSTANTS
  Orders = {o1, o2}
  Accounts = {a1}
  NoOrder = NoOrder
  NoAccount = NoAccount
  MaxAttempts = 2
  Handlers = {h1}
  Jobs = {"reconcile", "retry"}
  Requests = {"webhook"}
  Faults = {"send"}
  Reported = {"settlement", "expire"}
SPECIFICATION FairSpec
PROPERTIES
  PaidIsAttempted
  RetriesConclude
  SettlementHonoured
CHECK_DEADLOCK FALSE
