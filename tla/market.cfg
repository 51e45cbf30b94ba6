SPECIFICATION Spec
CONSTANTS
  Workers = {w1, w2}
  MaxUsers = 1
  MaxProducts = 2
  MaxOrders = 2
  Labels = {l1, l2}
  Quantities <- OneOrTwo
  NoRow = NoRow
  NoId = NoId
  NoRequest = NoRequest
  Requests <- AllRequests
  MaxRequests = 3
  MaxChanges = 1
SYMMETRY Symmetry
INVARIANTS
  TypeOK
  WindowIsFresh
  NotOversold
PROPERTIES
  BooksLikeInventory
  UpdatesBookNothing
