\* One request at a time, every endpoint and staff changing room statuses.
CONSTANTS
  Keep = Keep
  Rooms = {r1, r2}
  Bookings = {b1, b2}
  MaxNight = 2
  Desks = {d1}
  Ops = {"create", "update", "checkIn", "checkOut", "cancel", "noShow"}
  Stays <- MCTwoStays
  Patches <- MCPatches
  ManualStatuses = {"MAINTENANCE"}
SPECIFICATION Spec
INVARIANTS NoDoubleBooking
PROPERTIES ImplementsLifecycle
