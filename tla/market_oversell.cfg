SPECIFICATION Spec
CONSTANTS
  Workers = {w1, w2}
  MaxUsers = 1
  MaxProducts = 1
  MaxOrders = 2
  Labels = {l1}
  Quantities <- OneOrTwo
  NoRow = NoRow
  NoId = NoId
  NoRequest = NoRequest
  Requests <- NewOrders
  MaxRequests = 2
  MaxChanges = 0
INVARIANTS
  NoDoubleSale
