\* Two overlapping requests on two bookings of one room.
CONSTANTS
  Keep = Keep
  Rooms = {r1}
  Bookings = {b1, b2}
  MaxNight = 2
  Desks = {d1, d2}
  Ops = {"create", "update", "checkIn", "checkOut", "cancel"}
  Stays <- MCTwoStays
  Patches <- MCExtend
  ManualStatuses = {}
SYMMETRY MCDesks
SPECIFICATION Spec
INVARIANTS TypeOK NoDoubleBookingUnlessBlind OccupiedRoomHasGuest FirstNightChargedOnce
PROPERTIES LifecycleKept
CHECK_DEADLOCK FALSE
