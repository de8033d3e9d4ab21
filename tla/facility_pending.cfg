\* A facility that requires approval, two bookings, one clerk.
CONSTANTS
  Facilities = {f1}
  Approval = {f1}
  Capacity = 2
  Bookings = {b1, b2}
  Clerks = {c1}
  Hours = {h1, h2}
  Spans = {{h1}, {h2}}
  Pax = {1}
  Statuses = {"PENDING", "CONFIRMED", "CANCELLED"}
  Edits <- MCEdits
  Keep = Keep
  NoBooking = NoBooking
  Idle = Idle
  MaxPosts = 2
SPECIFICATION Spec
INVARIANTS PendingNeverInvoiced
CHECK_DEADLOCK FALSE
