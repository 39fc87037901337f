CONSTANTS
  Products = {p1}
  Accounts = {a1}
  Orders = {o1, o2}
  Admins = {d1, d2}
  NoProduct = NoProduct
  NoAccount = NoAccount
  NoOrder = NoOrder
SPECIFICATION Spec
SYMMETRY Symmetry
INVARIANTS
  SharedOnlyByOverwrite
  HandedStaysOnRecord
  OfferedIsFree
CHECK_DEADLOCK FALSE
