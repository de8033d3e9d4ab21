\* A facility that requires approval, two bookings, two clerks.
CONSTANTS
  Facilities = {f1}
  Approval = {f1}
  Capacity = 2
  Bookings = {b1, b2}
  Clerks = {c1, c2}
  Hours = {h1, h2}
  Spans = {{h1}, {h2}}
  Pax = {1}
  Statuses = {"PENDING", "CONFIRMED", "CANCELLED"}
  Edits <- MCEdits
  Keep = Keep
  NoBooking = NoBooking
  Idle = Idle
  MaxPosts = 2
SPECIFICATION Spec
INVARIANTS TypeOK NoDoubleBooking PendingNotInvoiced PostedOnce
CONSTRAINT MCBound
SYMMETRY MCSymmetry
CHECK_DEADLOCK FALSE
