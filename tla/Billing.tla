------------------------------ MODULE Billing ------------------------------
(***************************************************************************)
(* The money of a stay: recordPayment() and addFolioItem() of              *)
(* reservations.service.ts, recordPayment() and createInvoice() of         *)
(* finance.service.ts, and the entries they post through the Journal.      *)
(*                                                                         *)
(* The payment endpoints are Postgres transactions at READ COMMITTED: each *)
(* statement sees what is committed by then and the transaction's own      *)
(* writes, an UPDATE locks its row until the commit, and an insert of a    *)
(* unique number waits for a transaction that holds it.  The ledger entry  *)
(* is posted after the commit.                                             *)
(***************************************************************************)
EXTENDS Journal

CONSTANTS HotelOf,      \* the hotel of each reservation
          Prices,       \* values of totalAmount, and totals of finance invoices
          Amounts,      \* amounts of payments and charges
          Tolerance,    \* what a finance payment may exceed its balance by
          MaxInvoices,  \* bound: invoices ever inserted
          MaxCharges,   \* bound: sum of the folio charges of a reservation
          Desks,        \* request slots
          Ops,          \* the endpoints called
          Daily         \* the RSV-<date> series of finance invoice numbers

AllOps == {"pay", "financePay", "financeInvoice", "charge", "reprice"}

Bookings == Accounts    \* reservations, already made

ASSUME BillingAssumption ==
  /\ Bookings # {} /\ Daily \notin Bookings
  /\ HotelOf \in [Bookings -> Hotels]
  /\ Prices \subseteq Nat \ {0} /\ Prices # {}
  /\ Amounts \subseteq Nat \ {0} /\ Tolerance \in Nat
  /\ MaxInvoices \in Nat /\ MaxCharges \in Nat
  /\ IsFiniteSet(Desks) /\ Ops \subseteq AllOps

VARIABLES
  stay,      \* what the reservation rows say of money
  invoice,   \* invoice rows, each with the sum of its payment rows
  req,       \* requests in flight
  stale,     \* history: bookings paid on an outdated balance
  repriced,  \* history: bookings whose totalAmount was changed
  cut        \* history: bookings with a write whose ledger entry failed

vars == <<entries, posted, stay, invoice, req, stale, repriced, cut>>

Invoices == 1 .. MaxInvoices    \* in the order of issuedAt
PaymentStatus == {"UNPAID", "PARTIAL", "PAID"}

Derive(total, paid) ==
  IF paid >= total THEN "PAID" ELSE IF paid > 0 THEN "PARTIAL" ELSE "UNPAID"

NoInvoice == [b |-> CHOOSE b \in Bookings : TRUE, series |-> Daily, k |-> 0,
              total |-> 0, paid |-> 0, status |-> "NONE"]

Issued        == {i \in Invoices : invoice[i].status # "NONE"}
InvoicesOf(b) == {i \in Issued : invoice[i].b = b}
Paids  == [i \in Invoices |-> invoice[i].paid]
Totals == [i \in Invoices |-> invoice[i].total]

PaidOn(b)   == SumFunctionOnSet(Paids, InvoicesOf(b))
Invoiced(b) == SumFunctionOnSet(Totals, InvoicesOf(b))

(***************************************************************************)
(* Requests.  Up to the commit a request is an open transaction: fresh     *)
(* says that it has inserted invoice i itself, mark is the status it has   *)
(* computed for i, sum the paidAmount it has computed for the reservation. *)
(***************************************************************************)
Stages == {"idle", "find", "number", "create", "insert", "mark", "sum",
           "commit", "entryNo", "entry"}

Idle == [op |-> "pay", at |-> "idle", b |-> NoInvoice.b, amount |-> 0,
         seen |-> 0, due |-> 0, total |-> 0, i |-> 0, fresh |-> FALSE,
         k |-> 0, mark |-> "UNPAID", sum |-> 0, no |-> 0, src |-> "PAYMENT"]

Free(d)    == req[d].at = "idle"
Goto(d, s) == req' = [req EXCEPT ![d].at = s]
Finish(d)  == req' = [req EXCEPT ![d] = Idle]
Committed(q) == q.at \in {"entryNo", "entry"}

(* The handler throws: an open transaction is rolled back, what was        *)
(* committed stays.                                                        *)
Throw(d) ==
  /\ Finish(d)
  /\ cut' = IF Committed(req[d]) THEN cut \cup {req[d].b} ELSE cut

Series(q) == IF q.op = "pay" THEN q.b ELSE Daily

(* Rows an open transaction has inserted or locked.                        *)
HoldsNumber(q, s, k) ==
  q.fresh /\ ~ Committed(q) /\ Series(q) = s /\ q.k = k
HoldsInvoice(q, i) == q.at \in {"sum", "commit"} /\ q.i = i

(***************************************************************************)
(* POST reservations/:id/payments.                                         *)
(***************************************************************************)
(* Faulty variant: the payment is compared with the price, not with what   *)
(* is left of it.                                                          *)
BeginPayAgainstPrice(d, b, a) ==
  /\ "pay" \in Ops
  /\ Free(d)
  /\ a <= stay[b].price
  /\ req' = [req EXCEPT ![d] =
               [Idle EXCEPT !.op = "pay", !.at = "find", !.b = b, !.amount = a,
                            !.seen = PaidOn(b), !.due = stay[b].price,
                            !.total = stay[b].price]]
  /\ UNCHANGED <<entries, posted, stay, invoice, stale, repriced, cut>>

BeginPay(d, b, a) ==
  /\ "pay" \in Ops
  /\ Free(d)
  /\ a <= stay[b].price - PaidOn(b)
  /\ req' = [req EXCEPT ![d] =
               [Idle EXCEPT !.op = "pay", !.at = "find", !.b = b, !.amount = a,
                            !.seen = PaidOn(b), !.due = stay[b].price,
                            !.total = stay[b].price]]
  /\ UNCHANGED <<entries, posted, stay, invoice, stale, repriced, cut>>

(* ensureReservationInvoice: the newest invoice of the stay, or a new one. *)
FindInvoice(d) ==
  LET own == InvoicesOf(req[d].b)
  IN  /\ req[d].at = "find"
      /\ req' = IF own = {}
                THEN [req EXCEPT ![d].at = "number"]
                ELSE [req EXCEPT ![d].at = "insert", ![d].i = Max(own)]
      /\ UNCHANGED <<entries, posted, stay, invoice, stale, repriced, cut>>

NumberTaken(s, k) ==
  \E i \in Issued : invoice[i].series = s /\ invoice[i].k = k

(* The loop over findUnique stops at the first number not in use.          *)
PickInvoiceNo(d) ==
  /\ req[d].at = "number"
  /\ \E k \in 1 .. MaxInvoices + 1 :
       /\ ~ NumberTaken(Series(req[d]), k)
       /\ \A j \in 1 .. k - 1 : NumberTaken(Series(req[d]), j)
       /\ req' = [req EXCEPT ![d].at = "create", ![d].k = k]
  /\ UNCHANGED <<entries, posted, stay, invoice, stale, repriced, cut>>

NewInvoice ==
  1 + Max({0} \cup Issued \cup {req[d].i : d \in {e \in Desks : req[e].fresh}})

CreateInvoice(d) ==
  LET q == req[d]
  IN  /\ q.at = "create"
      /\ \A e \in Desks \ {d} : ~ HoldsNumber(req[e], Series(q), q.k)
      /\ NewInvoice \in Invoices
      /\ IF NumberTaken(Series(q), q.k)
         THEN Throw(d)
         ELSE /\ req' = [req EXCEPT
                           ![d].i = NewInvoice, ![d].fresh = TRUE,
                           ![d].mark = Derive(q.total, q.amount),
                           ![d].at = IF q.op = "pay" THEN "insert" ELSE "sum"]
              /\ UNCHANGED cut
      /\ UNCHANGED <<entries, posted, stay, invoice, stale, repriced>>

PaidAsSeen(q)  == IF q.fresh THEN 0 ELSE invoice[q.i].paid
TotalAsSeen(q) == IF q.fresh THEN q.total ELSE invoice[q.i].total

(* The payment row, and the aggregate over the payments of the invoice.    *)
InsertPayment(d) ==
  LET q == req[d]
  IN  /\ q.at = "insert"
      /\ req' = [req EXCEPT
                   ![d].at = "mark",
                   ![d].mark = Derive(TotalAsSeen(q), PaidAsSeen(q) + q.amount)]
      /\ UNCHANGED <<entries, posted, stay, invoice, stale, repriced, cut>>

(* Faulty variant: the sum is taken before the invoice row is locked.      *)
MarkInvoiceUnlocked(d) ==
  /\ req[d].at = "mark"
  /\ Goto(d, "sum")
  /\ UNCHANGED <<entries, posted, stay, invoice, stale, repriced, cut>>

(* The update of invoice.paymentStatus waits for the row.                  *)
MarkInvoice(d) ==
  /\ req[d].at = "mark"
  /\ \A e \in Desks \ {d} : ~ HoldsInvoice(req[e], req[d].i)
  /\ Goto(d, "sum")
  /\ UNCHANGED <<entries, posted, stay, invoice, stale, repriced, cut>>

(* recordPayment() of the reservation compares with the totalAmount it     *)
(* read first, syncReservationPaymentStatus with the invoices.             *)
SumUp(d) ==
  LET q == req[d]
  IN  /\ q.at = "sum"
      /\ req' = [req EXCEPT
                   ![d].at = "commit",
                   ![d].sum = PaidOn(q.b) + q.amount,
                   ![d].due = IF q.op = "pay" THEN q.due
                              ELSE Invoiced(q.b) + (IF q.fresh THEN q.total ELSE 0)]
      /\ UNCHANGED <<entries, posted, stay, invoice, stale, repriced, cut>>

InvoiceRow(q) ==
  IF q.fresh
  THEN [b |-> q.b, series |-> Series(q), k |-> q.k, total |-> q.total,
        paid |-> q.amount, status |-> q.mark]
  ELSE [invoice[q.i] EXCEPT !.paid = @ + q.amount, !.status = q.mark]

(* What a request still has to post.                                       *)
ToPost(q) ==
  [Idle EXCEPT !.op = q.op, !.at = "entryNo", !.b = q.b, !.amount = q.amount,
               !.total = IF q.op = "financeInvoice" THEN q.total ELSE 0,
               !.src = IF q.op = "financeInvoice" THEN "INVOICE" ELSE "PAYMENT"]

(* A payment was checked against a balance that is no longer the balance.  *)
Outdated(q) == q.op # "financeInvoice" /\ PaidOn(q.b) # q.seen

(* Faulty variant: what is paid is written as a balance.                   *)
CommitAsBalance(d) ==
  LET q == req[d]
  IN  /\ q.at = "commit"
      /\ invoice' = [invoice EXCEPT ![q.i] = InvoiceRow(q)]
      /\ stay' = [stay EXCEPT ![q.b].paid = q.sum - q.due,
                              ![q.b].status = Derive(q.due, q.sum)]
      /\ stale' = IF Outdated(q) THEN stale \cup {q.b} ELSE stale
      /\ req' = [req EXCEPT ![d] = ToPost(q)]
      /\ UNCHANGED <<entries, posted, repriced, cut>>

(* The update of the reservation row, and the commit.                      *)
Commit(d) ==
  LET q == req[d]
  IN  /\ q.at = "commit"
      /\ invoice' = [invoice EXCEPT ![q.i] = InvoiceRow(q)]
      /\ stay' = [stay EXCEPT ![q.b].paid = q.sum,
                              ![q.b].status = Derive(q.due, q.sum)]
      /\ stale' = IF Outdated(q) THEN stale \cup {q.b} ELSE stale
      /\ req' = [req EXCEPT ![d] = ToPost(q)]
      /\ UNCHANGED <<entries, posted, repriced, cut>>

(***************************************************************************)
(* POST finance/payments and finance/invoices: the balance is read before  *)
(* the transaction.  They refuse what is more than 0.01 over it, so that   *)
(* one payment may settle an invoice and a cent more.                      *)
(***************************************************************************)
(* Faulty variant: the status leaves the new payment out.                  *)
BeginFinancePayOldStatus(d, i, a) ==
  LET row == invoice[i]
  IN  /\ "financePay" \in Ops
      /\ Free(d)
      /\ i \in Issued
      /\ row.paid < row.total
      /\ a <= row.total - row.paid + Tolerance
      /\ req' = [req EXCEPT ![d] =
                   [Idle EXCEPT !.op = "financePay", !.at = "mark", !.b = row.b,
                                !.amount = a, !.i = i, !.seen = PaidOn(row.b),
                                !.mark = Derive(row.total, row.paid)]]
      /\ UNCHANGED <<entries, posted, stay, invoice, stale, repriced, cut>>

BeginFinancePay(d, i, a) ==
  LET row == invoice[i]
  IN  /\ "financePay" \in Ops
      /\ Free(d)
      /\ i \in Issued
      /\ row.paid < row.total
      /\ a <= row.total - row.paid + Tolerance
      /\ req' = [req EXCEPT ![d] =
                   [Idle EXCEPT !.op = "financePay", !.at = "mark", !.b = row.b,
                                !.amount = a, !.i = i, !.seen = PaidOn(row.b),
                                !.mark = Derive(row.total, row.paid + a)]]
      /\ UNCHANGED <<entries, posted, stay, invoice, stale, repriced, cut>>

(* a = 0: no initial payment.                                              *)
BeginFinanceInvoice(d, b, t, a) ==
  /\ "financeInvoice" \in Ops
  /\ Free(d)
  /\ a <= t + Tolerance
  /\ req' = [req EXCEPT ![d] =
               [Idle EXCEPT !.op = "financeInvoice", !.at = "number", !.b = b,
                            !.amount = a, !.total = t, !.seen = PaidOn(b)]]
  /\ UNCHANGED <<entries, posted, stay, invoice, stale, repriced, cut>>

(***************************************************************************)
(* POST reservations/:id/folio, and an update() of totalAmount.  Charges   *)
(* count at their amount: the ledger leaves the quantity out.              *)
(***************************************************************************)
BeginCharge(d, b, a) ==
  /\ "charge" \in Ops
  /\ Free(d)
  /\ stay[b].charges + a <= MaxCharges
  /\ stay' = [stay EXCEPT ![b].charges = @ + a]
  /\ req' = [req EXCEPT ![d] =
               [Idle EXCEPT !.op = "charge", !.at = "entryNo", !.b = b,
                            !.amount = a, !.src = "FOLIO"]]
  /\ UNCHANGED <<entries, posted, invoice, stale, repriced, cut>>

Reprice(b, p) ==
  /\ "reprice" \in Ops
  /\ stay' = [stay EXCEPT ![b].price = p]
  /\ repriced' = repriced \cup {b}
  /\ UNCHANGED <<entries, posted, invoice, req, stale, cut>>

(***************************************************************************)
(* postEntry(), after the commit.                                          *)
(***************************************************************************)
PickEntryNo(d) ==
  /\ req[d].at = "entryNo"
  /\ req' = [req EXCEPT ![d].at = "entry", ![d].no = NextEntryNo(HotelOf[req[d].b])]
  /\ UNCHANGED <<entries, posted, stay, invoice, stale, repriced, cut>>

(* An invoice with an initial payment posts a second entry.                *)
PostEntry(d) ==
  LET q == req[d]
  IN  /\ q.at = "entry"
      /\ CreateEntry(HotelOf[q.b], q.no, q.src, q.b,
                     IF q.src = "INVOICE" THEN q.total ELSE q.amount)
      /\ req' = [req EXCEPT ![d] =
                   IF q.src = "INVOICE" /\ q.amount > 0
                   THEN [q EXCEPT !.at = "entryNo", !.no = 0, !.src = "PAYMENT"]
                   ELSE Idle]
      /\ UNCHANGED <<stay, invoice, stale, repriced, cut>>

(* Faulty variant: the error of the insert is swallowed.                   *)
EntryRefusedSilently(d) ==
  /\ req[d].at = "entry"
  /\ req[d].no \in UsedEntryNos
  /\ Finish(d)
  /\ UNCHANGED <<entries, posted, stay, invoice, stale, repriced, cut>>

EntryRefused(d) ==
  /\ req[d].at = "entry"
  /\ req[d].no \in UsedEntryNos
  /\ Throw(d)
  /\ UNCHANGED <<entries, posted, stay, invoice, stale, repriced>>

(* A query fails, an account is missing, or the process restarts.          *)
Abort(d) ==
  /\ ~ Free(d)
  /\ Throw(d)
  /\ UNCHANGED <<entries, posted, stay, invoice, stale, repriced>>

-----------------------------------------------------------------------------
Init ==
  /\ entries = {}
  /\ posted = [src \in Sources |-> [b \in Bookings |-> 0]]
  /\ stay \in [Bookings -> [price : Prices, paid : {0}, status : {"UNPAID"},
                            charges : {0}]]
  /\ invoice = [i \in Invoices |-> NoInvoice]
  /\ req = [d \in Desks |-> Idle]
  /\ stale = {} /\ repriced = {} /\ cut = {}

Begin(d) ==
  \/ \E b \in Bookings, a \in Amounts : BeginPay(d, b, a) \/ BeginCharge(d, b, a)
  \/ \E i \in Invoices, a \in Amounts : BeginFinancePay(d, i, a)
  \/ \E b \in Bookings, t \in Prices, a \in Amounts \cup {0} :
       BeginFinanceInvoice(d, b, t, a)

Proceed(d) ==
  \/ FindInvoice(d) \/ PickInvoiceNo(d) \/ CreateInvoice(d)
  \/ InsertPayment(d) \/ MarkInvoice(d) \/ SumUp(d) \/ Commit(d)
  \/ PickEntryNo(d) \/ PostEntry(d) \/ EntryRefused(d)

Next ==
  \/ \E d \in Desks : Begin(d) \/ Proceed(d) \/ Abort(d)
  \/ \E b \in Bookings, p \in Prices : Reprice(b, p)

Spec == Init /\ [][Next]_vars

-----------------------------------------------------------------------------
StayRow    == [price : Prices, paid : Nat, status : PaymentStatus, charges : Nat]
InvoiceRows == [b : Bookings, series : Bookings \cup {Daily}, k : Nat,
                total : Nat, paid : Nat, status : PaymentStatus \cup {"NONE"}]
Request == [op : AllOps, at : Stages, b : Bookings, amount : Nat, seen : Nat,
            due : Nat, total : Nat, i : Invoices \cup {0}, fresh : BOOLEAN,
            k : Nat, mark : PaymentStatus, sum : Nat, no : Nat,
            src : Sources]

(* Every row and every request has the shape the code gives it.            *)
TypeOK ==
  /\ \A e \in entries : e \in [hotel : Hotels, no : Nat]
  /\ posted \in [Sources -> [Bookings -> Nat]]
  /\ stay \in [Bookings -> StayRow]
  /\ invoice \in [Invoices -> InvoiceRows]
  /\ req \in [Desks -> Request]
  /\ stale \subseteq Bookings /\ repriced \subseteq Bookings /\ cut \subseteq Bookings

(* One invoice, for the price of the stay, which never changed: what       *)
(* recordPayment() makes of a reservation by itself.                       *)
Plain(b) ==
  /\ b \notin repriced
  /\ \A i, j \in InvoicesOf(b) : i = j
  /\ \A i \in InvoicesOf(b) : invoice[i].total = stay[b].price

(* The invoice's status is that of its payments, unless one was recorded   *)
(* on an outdated balance; and not even then is it shown as paid, or       *)
(* partly paid, when it is not: both payment endpoints derive the status   *)
(* from sums that may miss a payment, and never count one that is not      *)
(* there.                                                                  *)
InvoiceStatusCurrent ==
  \A i \in Issued :
    /\ invoice[i].b \notin stale =>
         invoice[i].status = Derive(invoice[i].total, invoice[i].paid)
    /\ invoice[i].status = "PAID" => invoice[i].paid >= invoice[i].total
    /\ invoice[i].status = "PARTIAL" => invoice[i].paid > 0

(* A stay is not paid twice, unless a payment was checked against an       *)
(* outdated balance: whatever the mix of payments at the desk and in       *)
(* finance, they exceed the price by the tolerance of one finance payment  *)
(* at most, and never by several cents or by a payment.                    *)
NoOverpayment ==
  \A b \in Bookings \ stale : Plain(b) => PaidOn(b) <= stay[b].price + Tolerance

(* The reservation's paidAmount is the sum of its payments as long as it   *)
(* has one invoice, however the requests overlap: the sum is read after    *)
(* the update of the invoice has locked the others out.                    *)
PaidAmountIsSum ==
  \A b \in Bookings :
    (\A i, j \in InvoicesOf(b) : i = j) =>
      /\ stay[b].paid = PaidOn(b)
      /\ Plain(b) => stay[b].status = Derive(stay[b].price, PaidOn(b))

(* When the requests of a stay are answered, its payments, its finance     *)
(* invoices and its charges are in the books to the amount, unless the     *)
(* posting of one failed after the commit.                                 *)
BooksMatch ==
  \A b \in Bookings \ cut :
    (\A d \in Desks : ~ Free(d) => req[d].b # b) =>
      /\ posted["PAYMENT"][b] = PaidOn(b)
      /\ posted["FOLIO"][b] = stay[b].charges
      /\ posted["INVOICE"][b] =
           SumFunctionOnSet(Totals, {i \in InvoicesOf(b) : invoice[i].series = Daily})

(* Every settlement, and every charge, is posted to the ledger: with one   *)
(* request at a time the number postEntry() has chosen is never refused.   *)
EveryEntryPosts == [][\A d \in Desks : ~ EntryRefused(d)]_vars
=============================================================================
