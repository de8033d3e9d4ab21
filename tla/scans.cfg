\* The check-out scan over two hotels and two days, with one upset: a run by
\* order, a change of settings or a scan that dies.
CONSTANTS
  Jobs = {"checkOut"}
  Timed = {"checkOut"}
  NHotels = 2
  LastDay = 2
  Beats = 2
  RunAts = {0, 1}
  Workers = {w1, w2}
  MaxUpsets = 1
SPECIFICATION FairSpec
INVARIANTS TypeOK OneAlertADay SettingsStand
PROPERTIES EveryHotelReached
CHECK_DEADLOCK FALSE
