\* Two overlapping requests on the account of one stay, folio charges and price
\* changes.
CONSTANTS
  Hotels = {h1}
  PadMax = 9
  Accounts = {b1}
  HotelOf <- MCOneHotel
  Prices = {1, 2}
  Amounts = {1, 2}
  Tolerance = 1
  MaxInvoices = 2
  MaxCharges = 1
  Desks = {d1, d2}
  Ops = {"pay", "financePay", "financeInvoice", "charge", "reprice"}
  Daily = Daily
CONSTRAINT MCBound
SYMMETRY MCDesks
SPECIFICATION Spec
INVARIANTS TypeOK InvoiceStatusCurrent NoOverpayment PaidAmountIsSum BooksMatch
CHECK_DEADLOCK FALSE
