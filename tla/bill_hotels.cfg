\* One request at a time, two hotels.
CONSTANTS
  Hotels = {h1, h2}
  PadMax = 9
  Accounts = {b1, b2}
  HotelOf <- MCTwoHotels
  Prices = {1}
  Amounts = {1}
  Tolerance = 1
  MaxInvoices = 2
  MaxCharges = 0
  Desks = {d1}
  Ops = {"pay", "financePay", "financeInvoice"}
  Daily = Daily
SPECIFICATION Spec
PROPERTIES EveryEntryPosts
CHECK_DEADLOCK FALSE
