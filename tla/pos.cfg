\* Two overlapping requests on one order.
CONSTANTS
  Orders = {o1}
  Items = {i1, i2}
  OrderOf <- MCOneOrder
  Routed = {i1, i2}
  Quantities = {0}
  Discounts = {0}
  InStock = 2
  Cost <- MCSum
  Uses <- MCSum
  Desks = {d1, d2}
  Ops = {"add", "setQty", "prep", "status", "deliver", "pay", "cancel"}
CONSTRAINT MCPromised
SYMMETRY MCDesks
SPECIFICATION Spec
INVARIANTS TypeOK BoardFollowsPrep TotalFollowsItems
 
CHECK_DEADLOCK FALSE
