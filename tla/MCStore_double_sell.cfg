CONSTANTS
  Orders = {o1, o2}
  Accounts = {a1}
  NoOrder = NoOrder
  NoAccount = NoAccount
  MaxAttempts = 2
  Handlers = {h1}
  Jobs = {"cleanup"}
  Requests = {"webhook"}
  Faults = {}
  Reported = {"settlement"}
SPECIFICATION Spec
INVARIANTS
  NoDoubleSell
CHECK_DEADLOCK FALSE
