\* Two overlapping requests on the cards of one stay, which may move to
\* another room or end, with failures.
CONSTANTS
  Keep = Keep
  Rooms = {r1, r2}
  Bookings = {b1}
  MaxNight = 1
  Cards = {c1, c2}
  Guests = {g1}
  Desks = {d1, d2}
  Ops = {"issue", "revoke", "revokeAll", "checkOut", "move"}
  Feature = {TRUE, FALSE}
CONSTRAINT MCCrowd
SYMMETRY MCDesks
SPECIFICATION Spec
INVARIANTS TypeOK NoKeyWithoutCard ActiveCardOpens DepartedStayHasNoCard OneLiveCardPerGuest CardsFollowGuest
CHECK_DEADLOCK FALSE
