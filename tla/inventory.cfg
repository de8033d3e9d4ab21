\* Two overlapping requests on one item.
CONSTANTS
  Items = {k1}
  Amounts = {1, 2}
  Quantities = {0, 2}
  Minimums = {0, 1}
  Keep = Keep
  MaxStock = 2
  Desks = {d1, d2}
  Ops = {"create", "update", "move", "deliver", "remove"}
CONSTRAINT MCBound
SYMMETRY MCDesks
SPECIFICATION Spec
INVARIANTS TypeOK QuantityIsBooked NeverOverdrawn LowStockTold
CHECK_DEADLOCK FALSE
