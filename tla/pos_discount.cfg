\* One request at a time, discounted orders.
CONSTANTS
  Orders = {o1}
  Items = {i1, i2}
  OrderOf <- MCOneOrder
  Routed = {i1, i2}
  Quantities = {0}
  Discounts = {0, 1}
  InStock = 2
  Cost <- MCSum
  Uses <- MCSum
  Desks = {d1}
  Ops = {"add", "setQty", "prep", "status", "deliver", "pay", "cancel"}
SPECIFICATION Spec
INVARIANTS SalesReachLedger
CHECK_DEADLOCK FALSE
