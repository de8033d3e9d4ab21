----------------------------- MODULE PosOrders -----------------------------
(***************************************************************************)
(* pos-orders.service.ts: the orders of the till, their items and the prep *)
(* boards that work on them.  Each await of a handler is one query, and    *)
(* handlers overlap.  Delivery and payment write in one transaction, at    *)
(* PostgreSQL's default isolation: the first write of a delivery locks the *)
(* order row, and the stock it checks may be gone when it deducts.         *)
(*                                                                         *)
(* What items cost, with tax, and what they take from the one stock kept   *)
(* here, are parameters.                                                   *)
(***************************************************************************)
EXTENDS Integers, Sequences

CONSTANTS Orders,
          Items,      \* ids of order items
          OrderOf,    \* the order an item id is used for
          Routed,     \* the items a prep station works on
          Quantities, \* quantities sent to updateItem(): 0 deletes
          Discounts,  \* discounts sent to create()
          InStock,    \* units in stock at first
          Cost(_),    \* what items come to, from their quantities
          Uses(_),    \* the units of stock they take
          Desks,      \* request slots: how many requests may overlap
          Ops         \* the endpoints called

AllOps == {"add", "setQty", "prep", "status", "deliver", "pay", "cancel"}

ASSUME PosAssumption ==
  /\ Orders # {} /\ Items # {}
  /\ OrderOf \in [Items -> Orders]
  /\ Routed \subseteq Items
  /\ Quantities \subseteq Nat /\ Discounts \subseteq Nat
  /\ InStock \in Nat
  /\ \A f \in [Items -> Quantities \cup {0, 1}] : Cost(f) \in Int /\ Uses(f) \in Int
  /\ Ops \subseteq AllOps

VARIABLES
  order,   \* order rows
  item,    \* order item rows
  stock,   \* units of the product in stock
  bill,    \* the folio items and invoices made for an order
  payment, \* the payments taken for an order
  posted,  \* what the ledger was posted for an order
  req,     \* requests in flight
  stale,   \* history: orders written, or passed over, on outdated reads
  cut,     \* history: orders whose request stopped between two writes
  byHand   \* history: orders whose status was last set by updateStatus()

vars == <<order, item, stock, bill, payment, posted, req, stale, cut, byHand>>
books == <<bill, payment, posted>>

(***************************************************************************)
(* Rows.  "FREE" is an order id, "ABSENT" an item id with no row.          *)
(***************************************************************************)
OpenStatus  == {"PENDING", "PREPARING", "READY"}
OrderStatus == OpenStatus \cup {"FREE", "DELIVERED", "CANCELLED"}
PrepStatus  == {"QUEUED", "IN_PROGRESS", "READY", "FULFILLED", "CANCELLED"}

OrderRow == [status : OrderStatus, paid : BOOLEAN,
             room : BOOLEAN,    \* linked to a reservation
             discount : Nat, total : Int]
ItemRow  == [prep : PrepStatus \cup {"ABSENT"}, qty : Quantities \cup {0, 1}]

NoOrder == [status |-> "FREE", paid |-> FALSE, room |-> FALSE,
            discount |-> 0, total |-> 0]
NoItem  == [prep |-> "ABSENT", qty |-> 0]

(* Faulty variant: the prep status does not default to QUEUED.             *)
NewItemUnqueued == [prep |-> "NONE", qty |-> 1]

NewItem == [prep |-> "QUEUED", qty |-> 1]

(* The items of order o among the rows its.                                *)
On(its, o) == {i \in Items : OrderOf[i] = o /\ its[i].prep # "ABSENT"}

QtyOf(its, o) == [i \in Items |-> IF i \in On(its, o) THEN its[i].qty ELSE 0]

TotalOf(its, o, discount) == Cost(QtyOf(its, o)) - discount

(* findMany() on the items of order o.                                     *)
ItemsOf(o) == [i \in Items |-> IF OrderOf[i] = o THEN item[i] ELSE NoItem]

(* PREP_TRANSITIONS.                                                       *)
PrepTransitions ==
  [QUEUED      |-> {"IN_PROGRESS", "READY", "CANCELLED"},
   IN_PROGRESS |-> {"QUEUED", "READY", "CANCELLED"},
   READY       |-> {"IN_PROGRESS", "FULFILLED", "CANCELLED"},
   FULFILLED   |-> {},
   CANCELLED   |-> {}]

PrepOf(its, o) == {its[i].prep : i \in On(its, o) \cap Routed}

(* isPrepComplete of buildPrepSummary().                                   *)
PrepComplete(its, o) == PrepOf(its, o) \subseteq {"READY", "FULFILLED", "CANCELLED"}

(* deriveOperationalOrderStatus().                                         *)
Derive(status, its, o) ==
  CASE status \notin OpenStatus \/ PrepOf(its, o) = {} -> status
    [] OTHER -> IF PrepComplete(its, o) THEN "READY"
                ELSE IF PrepOf(its, o) \cap {"IN_PROGRESS", "READY"} # {}
                THEN "PREPARING" ELSE "PENDING"

(***************************************************************************)
(* Requests.  old and its are the order row and the item rows it read last,*)
(* i is the item at hand, qty and want what the caller asked for.          *)
(***************************************************************************)
Stages == {"idle", "write", "readItems", "readStatus", "save",
           "commit", "charge", "post"}

Request == [op : AllOps, at : Stages, o : Orders, i : Items, qty : Nat,
            want : PrepStatus \cup OrderStatus,
            old : OrderRow, its : [Items -> ItemRow]]

Idle == [op |-> "add", at |-> "idle", o |-> CHOOSE o \in Orders : TRUE,
         i |-> CHOOSE i \in Items : TRUE, qty |-> 0, want |-> "FREE",
         old |-> NoOrder, its |-> [i \in Items |-> NoItem]]

Free(d)   == req[d].at = "idle"
Finish(d) == req' = [req EXCEPT ![d] = Idle]
Step(d, s) == req' = [req EXCEPT ![d].at = s]

(* A delivery holds the order row until its transaction commits.           *)
Locked(d, o) == \E e \in Desks \ {d} : req[e].o = o /\ req[e].at = "commit"

(* Some other request on order o has written once and will write again.    *)
Torn(d, o) ==
  \E e \in Desks \ {d} :
    req[e].o = o /\ req[e].at \in {"readItems", "readStatus", "save"}

Mark(set, o, yes) == IF yes THEN set \cup {o} ELSE set

(* findOne() on the order: the row and its items.                          *)
Begin(d, op, o, q) ==
  /\ op \in Ops
  /\ Free(d)
  /\ order[o].status # "FREE"
  /\ req' = [req EXCEPT ![d] = [q EXCEPT !.op = op, !.at = "write", !.o = o,
                                         !.old = order[o]]]
  /\ UNCHANGED <<order, item, stock, books, stale, cut, byHand>>

(***************************************************************************)
(* create(): one nested insert of the order and its first items, after     *)
(* reads of products, staff, terminal and the checked-in reservation.      *)
(***************************************************************************)
Create(o, first, discount, room) ==
  /\ order[o].status = "FREE"
  /\ first # {} /\ \A i \in first : OrderOf[i] = o
  /\ item' = [i \in Items |-> IF i \in first THEN NewItem ELSE item[i]]
  /\ order' = [order EXCEPT ![o] =
                 [status |-> "PENDING", paid |-> FALSE, room |-> room,
                  discount |-> discount, total |-> TotalOf(item', o, discount)]]
  /\ UNCHANGED <<stock, books, req, stale, cut, byHand>>

(***************************************************************************)
(* addItem() and updateItem(): the guard on the order read, the write of   *)
(* the item, then recalcAndSave().                                         *)
(***************************************************************************)
(* A fresh uuid.                                                           *)
Fresh(i) ==
  /\ item[i].prep = "ABSENT"
  /\ \A e \in Desks : req[e].i = i => Free(e) \/ req[e].op \notin {"add", "setQty", "prep"}

BeginAdd(d, i) ==
  /\ order[OrderOf[i]].status \in {"PENDING", "PREPARING"}
  /\ Fresh(i)
  /\ Begin(d, "add", OrderOf[i], [Idle EXCEPT !.i = i, !.qty = 1])

BeginSetQty(d, i, qty) ==
  /\ order[OrderOf[i]].status \in {"PENDING", "PREPARING"}
  /\ item[i].prep # "ABSENT"
  /\ Begin(d, "setQty", OrderOf[i], [Idle EXCEPT !.i = i, !.qty = qty])

(* Prisma throws if the row to update or delete is gone.                   *)
WriteItem(d) ==
  LET q == req[d]
      gone == q.op = "setQty" /\ item[q.i].prep = "ABSENT"
      row == IF q.op = "add" THEN NewItem
             ELSE IF q.qty = 0 THEN NoItem
             ELSE [item[q.i] EXCEPT !.qty = q.qty]
  IN  /\ q.op \in {"add", "setQty"} /\ q.at = "write"
      /\ IF gone
         THEN Finish(d) /\ UNCHANGED <<item, stale>>
         ELSE /\ item' = [item EXCEPT ![q.i] = row]
              /\ stale' = Mark(stale, q.o, order[q.o] # q.old \/ Torn(d, q.o))
              /\ Step(d, "readItems")
      /\ UNCHANGED <<order, stock, books, cut, byHand>>

ReadItems(d) ==
  /\ req[d].at = "readItems"
  /\ req' = [req EXCEPT ![d].its = ItemsOf(req[d].o),
                        ![d].at = IF req[d].op = "prep" THEN "save" ELSE "readStatus"]
  /\ UNCHANGED <<order, item, stock, books, stale, cut, byHand>>

ReadStatus(d) ==
  /\ req[d].at = "readStatus"
  /\ req' = [req EXCEPT ![d].old = order[req[d].o], ![d].at = "save"]
  /\ UNCHANGED <<order, item, stock, books, stale, cut, byHand>>

(* The items of the order, or the order, are no longer what was read.      *)
Outdated(d) ==
  LET q == req[d]
  IN  \/ order[q.o] # q.old
      \/ ItemsOf(q.o) # q.its
      \/ Torn(d, q.o)

(* Faulty variant: the new total is not written.                           *)
SaveTotalForgotten(d) ==
  LET q == req[d]
  IN  /\ q.op \in {"add", "setQty"} /\ q.at = "save"
      /\ ~ Locked(d, q.o)
      /\ order' = [order EXCEPT ![q.o].status = Derive(q.old.status, q.its, q.o)]
      /\ stale' = Mark(stale, q.o, Outdated(d))
      /\ byHand' = IF PrepOf(q.its, q.o) = {} THEN byHand ELSE byHand \ {q.o}
      /\ Finish(d)
      /\ UNCHANGED <<item, stock, books, cut>>

(* The last write of recalcAndSave().                                      *)
SaveTotal(d) ==
  LET q == req[d]
  IN  /\ q.op \in {"add", "setQty"} /\ q.at = "save"
      /\ ~ Locked(d, q.o)
      /\ order' = [order EXCEPT ![q.o].total = TotalOf(q.its, q.o, q.old.discount),
                                ![q.o].status = Derive(q.old.status, q.its, q.o)]
      /\ stale' = Mark(stale, q.o, Outdated(d))
      /\ byHand' = IF PrepOf(q.its, q.o) = {} THEN byHand ELSE byHand \ {q.o}
      /\ Finish(d)
      /\ UNCHANGED <<item, stock, books, cut>>

(***************************************************************************)
(* updatePrepStatus(): a cook moves one item, then the order's status is   *)
(* derived from the items read afterwards and the status read at first.    *)
(***************************************************************************)
BeginPrep(d, i, want) ==
  /\ i \in Routed /\ item[i].prep \in PrepStatus
  /\ order[OrderOf[i]].status \in OpenStatus
  /\ want \in PrepTransitions[item[i].prep]
  /\ Begin(d, "prep", OrderOf[i], 
           [Idle EXCEPT !.i = i, !.want = want, !.its[i] = item[i]])

WritePrep(d) ==
  LET q == req[d]
  IN  /\ q.op = "prep" /\ q.at = "write"
      /\ IF item[q.i].prep = "ABSENT"
         THEN Finish(d) /\ UNCHANGED <<item, stale>>
         ELSE /\ item' = [item EXCEPT ![q.i].prep = q.want]
              /\ stale' = Mark(stale, q.o,
                               \/ order[q.o] # q.old \/ Torn(d, q.o)
                               \/ item[q.i].prep # q.its[q.i].prep)
              /\ Step(d, "readItems")
      /\ UNCHANGED <<order, stock, books, cut, byHand>>

(* Faulty variant: an order that was ready stays ready.                    *)
SaveStatusKeepsReady(d) ==
  LET q == req[d]
      next == Derive(q.old.status, q.its, q.o)
  IN  /\ q.op = "prep" /\ q.at = "save"
      /\ ~ Locked(d, q.o)
      /\ order' = IF q.old.status \in {next, "READY"} THEN order
                  ELSE [order EXCEPT ![q.o].status = next]
      /\ stale' = Mark(stale, q.o, Outdated(d))
      /\ byHand' = byHand \ {q.o}
      /\ Finish(d)
      /\ UNCHANGED <<item, stock, books, cut>>

(* Nothing is written when the status derived is the status read.          *)
SaveStatus(d) ==
  LET q == req[d]
      next == Derive(q.old.status, q.its, q.o)
  IN  /\ q.op = "prep" /\ q.at = "save"
      /\ ~ Locked(d, q.o)
      /\ order' = IF next = q.old.status THEN order
                  ELSE [order EXCEPT ![q.o].status = next]
      /\ stale' = Mark(stale, q.o, Outdated(d))
      /\ byHand' = byHand \ {q.o}
      /\ Finish(d)
      /\ UNCHANGED <<item, stock, books, cut>>

(***************************************************************************)
(* updateStatus() and cancel().                                            *)
(***************************************************************************)
HandTransitions(status) ==
  CASE status = "PENDING"   -> {"PREPARING", "READY", "CANCELLED"}
    [] status = "PREPARING" -> {"READY", "CANCELLED"}
    [] status = "READY"     -> {"CANCELLED"}
    [] OTHER -> {}

BeginStatus(d, o, want) ==
  /\ want \in HandTransitions(order[o].status)
  /\ Begin(d, "status", o, [Idle EXCEPT !.want = want])

BeginCancel(d, o) ==
  /\ order[o].status \in OpenStatus
  /\ Begin(d, "cancel", o, [Idle EXCEPT !.want = "CANCELLED"])

(* updateStatus() leaves the items as they are, cancel() takes the routed  *)
(* ones off the boards in the same write.                                  *)
WriteStatus(d) ==
  LET q == req[d]
      off == {i \in On(item, q.o) \cap Routed : q.op = "cancel"}
  IN  /\ q.op \in {"status", "cancel"} /\ q.at = "write"
      /\ ~ Locked(d, q.o)
      /\ order' = [order EXCEPT ![q.o].status = q.want]
      /\ item' = [i \in Items |-> IF i \in off
                                  THEN [item[i] EXCEPT !.prep = "CANCELLED"]
                                  ELSE item[i]]
      /\ stale' = Mark(stale, q.o, order[q.o] # q.old \/ Torn(d, q.o))
      /\ byHand' = byHand \cup {q.o}
      /\ Finish(d)
      /\ UNCHANGED <<stock, books, cut>>

(***************************************************************************)
(* fulfillOrder(): the guards on the order read, then one transaction.     *)
(***************************************************************************)
(* Faulty variant: a delivered order may be delivered again.               *)
BeginDeliverAgain(d, o) ==
  /\ order[o].status \in OpenStatus \cup {"DELIVERED"}
  /\ PrepComplete(item, o)
  /\ Begin(d, "deliver", o, [Idle EXCEPT !.its = ItemsOf(o)])

BeginDeliver(d, o) ==
  /\ order[o].status \in OpenStatus
  /\ PrepComplete(item, o)
  /\ Begin(d, "deliver", o, [Idle EXCEPT !.its = ItemsOf(o)])

(* The transaction locks the order row and finds enough units, or throws.  *)
CheckStock(d) ==
  LET q == req[d]
  IN  /\ q.op = "deliver" /\ q.at = "write"
      /\ ~ Locked(d, q.o)
      /\ IF Uses(QtyOf(q.its, q.o)) <= stock
         THEN Step(d, "commit")
         ELSE Finish(d)
      /\ UNCHANGED <<order, item, stock, books, stale, cut, byHand>>

(* Each item is checked, then deducted.  The first check may be outdated,  *)
(* not the later ones: the first deduction locks the product row.          *)
Deduct(d) ==
  LET q == req[d]
      needed == Uses(QtyOf(q.its, q.o))
      refused == stock < needed /\ \E i, j \in On(q.its, q.o) : i # j
  IN  /\ q.at = "commit"
      /\ IF refused
         THEN Finish(d) /\ UNCHANGED <<order, stock, bill, stale, byHand>>
         ELSE /\ order' = [order EXCEPT ![q.o].status = "DELIVERED"]
              /\ stock' = stock - needed
              /\ bill' = [bill EXCEPT ![q.o] = Append(@, q.old.total)]
              /\ stale' = Mark(stale, q.o, Outdated(d) \/ stock < needed)
              /\ byHand' = byHand \ {q.o}
              /\ IF q.old.room THEN Step(d, "charge") ELSE Finish(d)
      /\ UNCHANGED <<item, payment, posted, cut>>

(* ledger.postFolioCharge, after the commit.                               *)
PostCharge(d) ==
  LET q == req[d]
  IN  /\ q.at = "charge"
      /\ posted' = IF q.old.total > 0
                   THEN [posted EXCEPT ![q.o] = Append(@, q.old.total)] ELSE posted
      /\ Finish(d)
      /\ UNCHANGED <<order, item, stock, bill, payment, stale, cut, byHand>>

(***************************************************************************)
(* payOrder(): a walk-in order, the guards on the order read, then one     *)
(* transaction, then ledger.postPosSale.                                   *)
(***************************************************************************)
BeginPay(d, o) ==
  /\ order[o].status = "DELIVERED"
  /\ ~ order[o].paid
  /\ ~ order[o].room
  /\ Begin(d, "pay", o, Idle)

CommitPayment(d) ==
  LET q == req[d]
  IN  /\ q.op = "pay" /\ q.at = "write"
      /\ ~ Locked(d, q.o)
      /\ order' = [order EXCEPT ![q.o].paid = TRUE]
      /\ payment' = [payment EXCEPT ![q.o] = Append(@, q.old.total)]
      /\ stale' = Mark(stale, q.o, order[q.o] # q.old \/ Torn(d, q.o))
      /\ req' = [req EXCEPT ![d].at = "post", ![d].old = order'[q.o]]
      /\ UNCHANGED <<item, stock, bill, posted, cut, byHand>>

(* postEntry() refuses lines of no amount, and debits (the total) that are *)
(* not the credits (the subtotal).                                         *)
Balanced(row) == row.total > 0 /\ row.discount = 0

PostSale(d) ==
  LET q == req[d]
  IN  /\ q.at = "post"
      /\ posted' = IF Balanced(q.old)
                   THEN [posted EXCEPT ![q.o] = Append(@, q.old.total)] ELSE posted
      /\ Finish(d)
      /\ UNCHANGED <<order, item, stock, bill, payment, stale, cut, byHand>>

(* A query fails or the process stops: a transaction in flight is undone,  *)
(* what was written before is not.                                         *)
Abort(d) ==
  LET q == req[d]
  IN  /\ ~ Free(d)
      /\ cut' = Mark(cut, q.o, q.at \notin {"write", "commit"})
      /\ Finish(d)
      /\ UNCHANGED <<order, item, stock, books, stale, byHand>>

-----------------------------------------------------------------------------
Init ==
  /\ order = [o \in Orders |-> NoOrder]
  /\ item = [i \in Items |-> NoItem]
  /\ stock = InStock
  /\ bill = [o \in Orders |-> <<>>]
  /\ payment = bill
  /\ posted = bill
  /\ req = [d \in Desks |-> Idle]
  /\ stale = {} /\ cut = {} /\ byHand = {}

Start(d) ==
  \/ \E i \in Items : BeginAdd(d, i) \/ \E n \in Quantities : BeginSetQty(d, i, n)
  \/ \E i \in Items, s \in PrepStatus : BeginPrep(d, i, s)
  \/ \E o \in Orders : \/ \E s \in OrderStatus : BeginStatus(d, o, s)
                       \/ BeginCancel(d, o) \/ BeginDeliver(d, o) \/ BeginPay(d, o)

Proceed(d) ==
  \/ WriteItem(d) \/ ReadItems(d) \/ ReadStatus(d) \/ SaveTotal(d)
  \/ WritePrep(d) \/ SaveStatus(d)
  \/ WriteStatus(d)
  \/ CheckStock(d) \/ Deduct(d) \/ PostCharge(d)
  \/ CommitPayment(d) \/ PostSale(d)

Next ==
  \/ \E o \in Orders, first \in SUBSET Items, n \in Discounts, room \in BOOLEAN :
       Create(o, first, n, room)
  \/ \E d \in Desks : Start(d) \/ Proceed(d) \/ Abort(d)

Spec == Init /\ [][Next]_vars

-----------------------------------------------------------------------------
(* Every table and every request has the shape the code gives it.          *)
TypeOK ==
  /\ order \in [Orders -> OrderRow]
  /\ item \in [Items -> ItemRow]
  /\ stock \in Int
  /\ bill \in [Orders -> Seq(Int)]
  /\ payment \in [Orders -> Seq(Int)]
  /\ posted \in [Orders -> Seq(Int)]
  /\ req \in [Desks -> Request]
  /\ stale \subseteq Orders /\ cut \subseteq Orders /\ byHand \subseteq Orders

Sound(o) == o \notin stale \cup cut
Quiet(o) == \A d \in Desks : Free(d) \/ req[d].o # o

(* The order on the till says what its items on the prep boards say, once  *)
(* no request is at work on it: the boards and the till read two tables    *)
(* that each handler updates in separate awaits.                           *)
BoardFollowsPrep ==
  \A o \in Orders \ byHand :
    /\ Sound(o) /\ Quiet(o)
    /\ order[o].status \in OpenStatus
    /\ PrepOf(item, o) # {}
    => order[o].status = Derive("PENDING", item, o)

(* The total of an order is the sum of its items less the discount, once   *)
(* no request is at work on it: recalcAndSave() sums in one await and      *)
(* writes in another.                                                      *)
TotalFollowsItems ==
  \A o \in Orders :
    /\ Sound(o) /\ Quiet(o)
    /\ order[o].status # "FREE"
    => order[o].total = TotalOf(item, o, order[o].discount)

(* What was charged to the folio, or paid at the till, is in the ledger    *)
(* once no request is at work on the order, whatever its discount.         *)
SalesReachLedger ==
  \A o \in Orders :
    Sound(o) /\ Quiet(o) /\ order[o].total > 0 =>
      posted[o] = IF order[o].room THEN bill[o] ELSE payment[o]

(***************************************************************************)
(* The life of each order as SaleLifecycle sees it.                        *)
(***************************************************************************)
PhaseOf(o) ==
  LET row == order[o]
      none == bill[o] = <<>> /\ payment[o] = <<>> /\ ~ row.paid
      once == bill[o] = <<row.total>>
  IN  CASE ~ Sound(o) -> "lost"
        [] Sound(o) /\ row.status = "FREE" /\ none -> "none"
        [] Sound(o) /\ row.status \in OpenStatus /\ none -> "open"
        [] Sound(o) /\ row.status = "CANCELLED" /\ none -> "void"
        [] /\ Sound(o) /\ row.status = "DELIVERED" /\ once
           /\ ~ row.paid /\ payment[o] = <<>> -> "billed"
        [] /\ Sound(o) /\ row.status = "DELIVERED" /\ once
           /\ row.paid /\ ~ row.room /\ payment[o] = bill[o] -> "paid"
        [] OTHER -> "corrupt"

Sale == INSTANCE SaleLifecycle
          WITH phase <- [o \in Orders |-> PhaseOf(o)],
               due <- [o \in Orders |-> order[o].total],
               bills <- bill,
               payments <- payment

(* Every order lives the life of SaleLifecycle: one bill, one payment for  *)
(* that bill, nothing billed before delivery or after cancelling, and no   *)
(* change of the sum once billed, unless a request wrote on stale reads or *)
(* stopped midway.                                                         *)
ImplementsSale == Sale!Spec
=============================================================================
