----------------------------- MODULE PosProofs -----------------------------
(***************************************************************************)
(* Theorems about PosOrders, for any number of orders, items and           *)
(* overlapping requests, whatever items cost and take from the stock.      *)
(***************************************************************************)
EXTENDS PosOrders, TLAPS

(* The default rows and request are values of their types.                 *)
LEMMA DefaultTypes ==
  /\ NoOrder \in OrderRow /\ NoItem \in ItemRow /\ NewItem \in ItemRow
  /\ Idle \in Request
<1>1. NoOrder \in OrderRow
  BY DEF NoOrder, OrderRow, OrderStatus
<1>2. NoItem \in ItemRow /\ NewItem \in ItemRow
  BY DEF NoItem, NewItem, ItemRow, PrepStatus
<1>3. (CHOOSE o \in Orders : TRUE) \in Orders /\ (CHOOSE i \in Items : TRUE) \in Items
  BY PosAssumption
<1>4. Idle \in Request
  BY <1>1, <1>2, <1>3 DEF Idle, Request, AllOps, Stages, OrderStatus
<1> QED
  BY <1>1, <1>2, <1>4

LEMMA IdleFields ==
  /\ Idle.op = "add" /\ Idle.at = "idle" /\ Idle.qty = 0 /\ Idle.want = "FREE"
BY DEF Idle

-----------------------------------------------------------------------------
(***************************************************************************)
(* Items and what is computed from them: the quantities, the total and the *)
(* prep statuses of an order depend on the items of that order only.       *)
(***************************************************************************)
SameItems(its, new, o) == \A i \in Items : OrderOf[i] = o => new[i] = its[i]

LEMMA SameItemsSame ==
  ASSUME NEW its, NEW new, NEW o, SameItems(its, new, o)
  PROVE  /\ On(new, o) = On(its, o)
         /\ QtyOf(new, o) = QtyOf(its, o)
         /\ PrepOf(new, o) = PrepOf(its, o)
<1>1. On(new, o) = On(its, o)
  BY DEF SameItems, On
<1>2. QtyOf(new, o) = QtyOf(its, o)
  BY <1>1 DEF SameItems, QtyOf, On
<1>3. PrepOf(new, o) = PrepOf(its, o)
  BY <1>1 DEF SameItems, PrepOf, On
<1> QED
  BY <1>1, <1>2, <1>3

(* What a query for the items of an order returns is all there is to know. *)
LEMMA QueryIsExact ==
  ASSUME NEW o \in Orders
  PROVE  /\ QtyOf(ItemsOf(o), o) = QtyOf(item, o)
         /\ PrepOf(ItemsOf(o), o) = PrepOf(item, o)
<1>1. SameItems(item, ItemsOf(o), o)
  BY DEF SameItems, ItemsOf
<1> QED
  BY <1>1, SameItemsSame

(* Moving an item on the boards changes no quantity.                       *)
LEMMA PrepMovesKeepQty ==
  ASSUME NEW its, NEW new, NEW o,
         \A i \in Items : /\ new[i].qty = its[i].qty
                          /\ new[i].prep = "ABSENT" <=> its[i].prep = "ABSENT"
  PROVE  QtyOf(new, o) = QtyOf(its, o)
BY DEF QtyOf, On

LEMMA TotalType ==
  ASSUME NEW its \in [Items -> ItemRow], NEW o, NEW n \in Nat
  PROVE  TotalOf(its, o, n) \in Int /\ Uses(QtyOf(its, o)) \in Int
<1>1. QtyOf(its, o) \in [Items -> Quantities \cup {0, 1}]
  BY DEF QtyOf, ItemRow
<1> QED
  BY <1>1, PosAssumption DEF TotalOf

(* The status derived is that of an order, and for an open order with prep *)
(* items it does not depend on the status it is derived from.              *)
LEMMA DeriveType ==
  ASSUME NEW s \in OrderStatus, NEW its, NEW o
  PROVE  /\ Derive(s, its, o) \in OrderStatus
         /\ s \in OpenStatus => Derive(s, its, o) \in OpenStatus
         /\ s \notin OpenStatus => Derive(s, its, o) = s
BY DEF Derive, OpenStatus, OrderStatus

LEMMA DeriveFromOpen ==
  ASSUME NEW s \in OpenStatus, NEW its, NEW o, PrepOf(its, o) # {}
  PROVE  Derive(s, its, o) = Derive("PENDING", its, o)
BY DEF Derive, OpenStatus

LEMMA DeriveSame ==
  ASSUME NEW s, NEW its, NEW new, NEW o, PrepOf(new, o) = PrepOf(its, o)
  PROVE  Derive(s, new, o) = Derive(s, its, o)
BY DEF Derive, PrepComplete

-----------------------------------------------------------------------------
(***************************************************************************)
(* Requests.  What a handler knows of the order row it read, and of what   *)
(* it was asked for, at each of its stages.                                *)
(***************************************************************************)
ItemOps == {"add", "setQty", "prep"}

ShapeOK(q) ==
  /\ q.at = "readStatus" => q.op \in {"add", "setQty"}
  /\ q.at \in {"readItems", "save"} => q.op \in ItemOps
  /\ q.at = "commit" => q.op = "deliver"
  /\ q.op \in ItemOps /\ q.at # "idle" => OrderOf[q.i] = q.o
  /\ q.op \in {"add", "setQty"} => q.qty \in Quantities \cup {0, 1}
  /\ q.op = "prep" => q.want \in PrepStatus
  /\ q.op \in {"status", "cancel"} => q.want \in OpenStatus \cup {"CANCELLED"}
  /\ q.op # "pay" /\ q.at \in {"write", "commit"} => q.old.status \in OpenStatus
  /\ q.op = "pay" /\ q.at = "write" =>
       q.old.status = "DELIVERED" /\ ~ q.old.paid /\ ~ q.old.room

Shapes == \A d \in Desks : ShapeOK(req[d])

(* Requests are about orders that exist, and read rows that exist.         *)
RowBound ==
  \A d \in Desks :
    ~ Free(d) => order[req[d].o].status # "FREE" /\ req[d].old.status # "FREE"

(* Items are on orders that exist.                                         *)
NoStrayItems ==
  \A i \in Items : order[OrderOf[i]].status = "FREE" => item[i].prep = "ABSENT"

(* The other requests stay where they are.                                 *)
Alone(d) == req' = [req EXCEPT ![d] = req'[d]]

Untouched == UNCHANGED <<order, item, stock, books, stale, cut, byHand>>

LEMMA BeginFields ==
  ASSUME TypeOK, NEW d \in Desks, NEW op \in AllOps, NEW o \in Orders, NEW q \in Request,
         Begin(d, op, o, q)
  PROVE  /\ Free(d) /\ order[o].status # "FREE" /\ Alone(d) /\ Untouched
         /\ req'[d] \in Request
         /\ req'[d].op = op /\ req'[d].at = "write" /\ req'[d].o = o
         /\ req'[d].old = order[o] /\ req'[d].i = q.i /\ req'[d].qty = q.qty
         /\ req'[d].want = q.want
<1> DEFINE r == [q EXCEPT !.op = op, !.at = "write", !.o = o, !.old = order[o]]
<1>1. req' = [req EXCEPT ![d] = r] /\ Free(d) /\ order[o].status # "FREE" /\ Untouched
  BY DEF Begin, Untouched
<1>2. order[o] \in OrderRow
  BY DEF TypeOK
<1>3. /\ r \in Request
      /\ r.op = op /\ r.at = "write" /\ r.o = o /\ r.old = order[o]
      /\ r.i = q.i /\ r.qty = q.qty /\ r.want = q.want
  BY <1>2 DEF Request, Stages
<1> HIDE DEF r
<1>4. req'[d] = r /\ Alone(d)
  BY <1>1 DEF TypeOK, Alone
<1> QED
  BY <1>1, <1>3, <1>4

(* A request begins on a row that lets it.                                 *)
LEMMA Starts ==
  ASSUME TypeOK, NEW d \in Desks, Start(d)
  PROVE  /\ Free(d) /\ Alone(d) /\ Untouched
         /\ req'[d] \in Request /\ ShapeOK(req'[d]) /\ req'[d].at = "write"
         /\ order[req'[d].o].status # "FREE" /\ req'[d].old.status # "FREE"
<1> DEFINE Good == /\ Free(d) /\ Alone(d) /\ Untouched
                   /\ req'[d] \in Request /\ ShapeOK(req'[d]) /\ req'[d].at = "write"
                   /\ order[req'[d].o].status # "FREE" /\ req'[d].old.status # "FREE"
<1> SUFFICES Good
  OBVIOUS
<1>i. \A i \in Items : OrderOf[i] \in Orders
  BY PosAssumption
<1>q. Quantities \subseteq Nat
  BY PosAssumption
<1>1. ASSUME NEW i \in Items, BeginAdd(d, i) PROVE Good
  <2> DEFINE q == [Idle EXCEPT !.i = i, !.qty = 1]
  <2>1. q \in Request /\ q.i = i /\ q.qty = 1
    BY DefaultTypes DEF Request
  <2>2. Begin(d, "add", OrderOf[i], q) /\ order[OrderOf[i]].status \in OpenStatus
    BY <1>1 DEF BeginAdd, OpenStatus
  <2> HIDE DEF q
  <2>3. "add" \in AllOps
    BY DEF AllOps
  <2> QED
    BY <1>i, <2>1, <2>2, <2>3, BeginFields DEF ShapeOK, ItemOps
<1>2. ASSUME NEW i \in Items, NEW n \in Quantities, BeginSetQty(d, i, n) PROVE Good
  <2> DEFINE q == [Idle EXCEPT !.i = i, !.qty = n]
  <2>1. q \in Request /\ q.i = i /\ q.qty = n
    BY <1>q, DefaultTypes DEF Request
  <2>2. Begin(d, "setQty", OrderOf[i], q) /\ order[OrderOf[i]].status \in OpenStatus
    BY <1>2 DEF BeginSetQty, OpenStatus
  <2> HIDE DEF q
  <2>3. "setQty" \in AllOps
    BY DEF AllOps
  <2> QED
    BY <1>i, <2>1, <2>2, <2>3, BeginFields DEF ShapeOK, ItemOps
<1>3. ASSUME NEW i \in Items, NEW s \in PrepStatus, BeginPrep(d, i, s) PROVE Good
  <2> DEFINE q == [Idle EXCEPT !.i = i, !.want = s, !.its[i] = item[i]]
  <2>1. item[i] \in ItemRow
    BY DEF TypeOK
  <2>2. q \in Request /\ q.i = i /\ q.want = s
    BY <2>1, DefaultTypes DEF Request
  <2>3. Begin(d, "prep", OrderOf[i], q) /\ order[OrderOf[i]].status \in OpenStatus
    BY <1>3 DEF BeginPrep
  <2> HIDE DEF q
  <2>4. "prep" \in AllOps
    BY DEF AllOps
  <2> QED
    BY <1>i, <2>2, <2>3, <2>4, BeginFields DEF ShapeOK, ItemOps
<1>4. ASSUME NEW o \in Orders, NEW s \in OrderStatus, BeginStatus(d, o, s) PROVE Good
  <2> DEFINE q == [Idle EXCEPT !.want = s]
  <2>1. q \in Request /\ q.want = s
    BY DefaultTypes DEF Request
  <2>2. Begin(d, "status", o, q) /\ s \in HandTransitions(order[o].status)
    BY <1>4 DEF BeginStatus
  <2>3. order[o].status \in OpenStatus /\ s \in OpenStatus \cup {"CANCELLED"}
    BY <2>2 DEF HandTransitions, OpenStatus
  <2> HIDE DEF q
  <2>4. "status" \in AllOps
    BY DEF AllOps
  <2> QED
    BY <2>1, <2>2, <2>3, <2>4, BeginFields DEF ShapeOK, ItemOps
<1>5. ASSUME NEW o \in Orders, BeginCancel(d, o) PROVE Good
  <2> DEFINE q == [Idle EXCEPT !.want = "CANCELLED"]
  <2>1. q \in Request /\ q.want = "CANCELLED"
    BY DefaultTypes DEF Request, OrderStatus
  <2>2. Begin(d, "cancel", o, q) /\ order[o].status \in OpenStatus
    BY <1>5 DEF BeginCancel
  <2> HIDE DEF q
  <2>3. "cancel" \in AllOps
    BY DEF AllOps
  <2> QED
    BY <2>1, <2>2, <2>3, BeginFields DEF ShapeOK, ItemOps
<1>6. ASSUME NEW o \in Orders, BeginDeliver(d, o) PROVE Good
  <2> DEFINE q == [Idle EXCEPT !.its = ItemsOf(o)]
  <2>1. ItemsOf(o) \in [Items -> ItemRow]
    BY DefaultTypes DEF ItemsOf, TypeOK
  <2>2. q \in Request
    BY <2>1, DefaultTypes DEF Request
  <2>3. Begin(d, "deliver", o, q) /\ order[o].status \in OpenStatus
    BY <1>6 DEF BeginDeliver
  <2> HIDE DEF q
  <2>4. "deliver" \in AllOps
    BY DEF AllOps
  <2> QED
    BY <2>2, <2>3, <2>4, BeginFields DEF ShapeOK, ItemOps
<1>7. ASSUME NEW o \in Orders, BeginPay(d, o) PROVE Good
  <2>1. Begin(d, "pay", o, Idle)
    BY <1>7 DEF BeginPay
  <2>2. "pay" \in AllOps /\ Idle \in Request
    BY DefaultTypes DEF AllOps
  <2>3. order[o].status = "DELIVERED" /\ ~ order[o].paid /\ ~ order[o].room
    BY <1>7 DEF BeginPay
  <2> QED
    BY <2>1, <2>2, <2>3, BeginFields DEF ShapeOK, ItemOps
<1> QED
  BY <1>1, <1>2, <1>3, <1>4, <1>5, <1>6, <1>7 DEF Start

(* A request goes on, on the same order, or ends.                          *)
Ended(d)  == req'[d] = Idle
GoesTo(d, s) ==
  /\ req'[d] \in Request
  /\ req'[d].at = s
  /\ req'[d].op = req[d].op /\ req'[d].o = req[d].o /\ req'[d].i = req[d].i
  /\ req'[d].qty = req[d].qty /\ req'[d].want = req[d].want

LEMMA FinishEnds ==
  ASSUME TypeOK, NEW d \in Desks, Finish(d)
  PROVE  Ended(d) /\ Alone(d)
BY DEF Finish, Ended, Alone, TypeOK

LEMMA StepGoes ==
  ASSUME TypeOK, NEW d \in Desks, NEW s \in Stages, Step(d, s)
  PROVE  GoesTo(d, s) /\ Alone(d) /\ req'[d].old = req[d].old
<1>1. req[d] \in Request
  BY DEF TypeOK
<1>2. req'[d] = [req[d] EXCEPT !.at = s] /\ Alone(d)
  BY DEF Step, Alone, TypeOK
<1> QED
  BY <1>1, <1>2 DEF GoesTo, Request

(* Which stages follow which.                                              *)
LEMMA Advances ==
  ASSUME TypeOK, Shapes, NEW d \in Desks, Proceed(d) \/ Abort(d)
  PROVE  /\ ~ Free(d) /\ Alone(d)
         /\ \/ Ended(d)
            \/ req[d].op \in ItemOps /\ GoesTo(d, "readItems")
            \/ req[d].op \in {"add", "setQty"} /\ GoesTo(d, "readStatus")
            \/ req[d].op \in ItemOps /\ GoesTo(d, "save")
            \/ /\ req[d].op = "deliver" /\ GoesTo(d, "commit")
               /\ req'[d].old.status \in OpenStatus
            \/ GoesTo(d, "charge")
            \/ GoesTo(d, "post")
<1> DEFINE Good == /\ ~ Free(d) /\ Alone(d)
                   /\ \/ Ended(d)
                      \/ req[d].op \in ItemOps /\ GoesTo(d, "readItems")
                      \/ req[d].op \in {"add", "setQty"} /\ GoesTo(d, "readStatus")
                      \/ req[d].op \in ItemOps /\ GoesTo(d, "save")
                      \/ /\ req[d].op = "deliver" /\ GoesTo(d, "commit")
                         /\ req'[d].old.status \in OpenStatus
                      \/ GoesTo(d, "charge")
                      \/ GoesTo(d, "post")
<1> SUFFICES Good
  OBVIOUS
<1>q. req[d] \in Request /\ ShapeOK(req[d])
  BY DEF TypeOK, Shapes
<1>f. ASSUME ~ Free(d), Finish(d) PROVE Good
  BY <1>f, FinishEnds
<1>s. {"readItems", "readStatus", "save", "commit", "charge", "post"} \subseteq Stages
  BY DEF Stages
<1>1. CASE WriteItem(d)
  <2>1. req[d].op \in ItemOps /\ ~ Free(d) /\ (Finish(d) \/ Step(d, "readItems"))
    BY <1>1 DEF WriteItem, ItemOps, Free
  <2> QED
    BY <1>f, <1>s, <2>1, StepGoes
<1>2. CASE ReadItems(d)
  <2> DEFINE s == IF req[d].op = "prep" THEN "save" ELSE "readStatus"
             q == [req[d] EXCEPT !.its = ItemsOf(req[d].o), !.at = s]
  <2>1. ItemsOf(req[d].o) \in [Items -> ItemRow]
    BY DefaultTypes DEF ItemsOf, TypeOK
  <2>2. req' = [req EXCEPT ![d] = q] /\ req[d].at = "readItems"
    BY <1>2 DEF ReadItems
  <2>3. req[d].op \in ItemOps
    BY <1>q, <2>2 DEF ShapeOK
  <2>4. s \in Stages /\ s = (IF req[d].op = "prep" THEN "save" ELSE "readStatus")
    BY <1>s
  <2> HIDE DEF s
  <2>5. /\ q \in Request /\ q.at = s /\ q.op = req[d].op /\ q.o = req[d].o
        /\ q.i = req[d].i /\ q.qty = req[d].qty /\ q.want = req[d].want
    BY <1>q, <2>1, <2>4 DEF Request
  <2> HIDE DEF q
  <2>6. GoesTo(d, s) /\ Alone(d)
    BY <2>2, <2>5 DEF GoesTo, Alone, TypeOK
  <2> QED
    BY <2>2, <2>3, <2>4, <2>6 DEF ItemOps, Free
<1>3. CASE ReadStatus(d)
  <2> DEFINE q == [req[d] EXCEPT !.old = order[req[d].o], !.at = "save"]
  <2>1. order[req[d].o] \in OrderRow
    BY <1>q DEF TypeOK, Request
  <2>2. req' = [req EXCEPT ![d] = q] /\ req[d].at = "readStatus"
    BY <1>3 DEF ReadStatus
  <2>3. req[d].op \in ItemOps
    BY <1>q, <2>2 DEF ShapeOK, ItemOps
  <2>5. /\ q \in Request /\ q.at = "save" /\ q.op = req[d].op /\ q.o = req[d].o
        /\ q.i = req[d].i /\ q.qty = req[d].qty /\ q.want = req[d].want
    BY <1>q, <1>s, <2>1 DEF Request
  <2> HIDE DEF q
  <2>6. GoesTo(d, "save") /\ Alone(d)
    BY <2>2, <2>5 DEF GoesTo, Alone, TypeOK
  <2> QED
    BY <2>2, <2>3, <2>6 DEF Free
<1>4. CASE SaveTotal(d) \/ SaveStatus(d) \/ WriteStatus(d) \/ PostCharge(d) \/ PostSale(d) \/ Abort(d)
  BY <1>4, <1>f DEF SaveTotal, SaveStatus, WriteStatus, PostCharge, PostSale, Abort, Free
<1>5. CASE WritePrep(d)
  <2>1. req[d].op \in ItemOps /\ ~ Free(d) /\ (Finish(d) \/ Step(d, "readItems"))
    BY <1>5 DEF WritePrep, ItemOps, Free
  <2> QED
    BY <1>f, <1>s, <2>1, StepGoes
<1>6. CASE CheckStock(d)
  <2>1. /\ req[d].op = "deliver" /\ req[d].at = "write"
        /\ Finish(d) \/ Step(d, "commit")
    BY <1>6 DEF CheckStock
  <2>2. req[d].old.status \in OpenStatus
    BY <1>q, <2>1 DEF ShapeOK
  <2>3. ~ Free(d)
    BY <2>1 DEF Free
  <2> QED
    BY <1>f, <1>s, <2>1, <2>2, <2>3, StepGoes
<1>7. CASE Deduct(d)
  <2>1. ~ Free(d) /\ (Finish(d) \/ Step(d, "charge"))
    BY <1>7 DEF Deduct, Free
  <2> QED
    BY <1>f, <1>s, <2>1, StepGoes
<1>8. CASE CommitPayment(d)
  <2> DEFINE q == [req[d] EXCEPT !.at = "post", !.old = order'[req[d].o]]
  <2>1. order'[req[d].o] \in OrderRow
    <3>1. order' = [order EXCEPT ![req[d].o].paid = TRUE]
      BY <1>8 DEF CommitPayment
    <3>2. order[req[d].o] \in OrderRow /\ req[d].o \in Orders
      BY <1>q DEF TypeOK, Request
    <3>3. order'[req[d].o] = [order[req[d].o] EXCEPT !.paid = TRUE]
      BY <3>1, <3>2 DEF TypeOK
    <3> QED
      BY <3>2, <3>3 DEF OrderRow
  <2>2. /\ req' = [req EXCEPT ![d].at = "post", ![d].old = order'[req[d].o]]
        /\ req[d].at = "write"
    BY <1>8 DEF CommitPayment
  <2>3. req' = [req EXCEPT ![d] = q]
    BY <2>2
  <2>5. /\ q \in Request /\ q.at = "post" /\ q.op = req[d].op /\ q.o = req[d].o
        /\ q.i = req[d].i /\ q.qty = req[d].qty /\ q.want = req[d].want
    BY <1>q, <1>s, <2>1 DEF Request
  <2> HIDE DEF q
  <2>6. GoesTo(d, "post") /\ Alone(d)
    BY <2>3, <2>5 DEF GoesTo, Alone, TypeOK
  <2> QED
    BY <2>2, <2>6 DEF Free
<1> QED
  BY <1>1, <1>2, <1>3, <1>4, <1>5, <1>6, <1>7, <1>8 DEF Proceed

LEMMA ShapesStep ==
  ASSUME TypeOK, Shapes, [Next]_vars
  PROVE  Shapes' /\ req' \in [Desks -> Request]
<1> SUFFICES ASSUME NEW d \in Desks
             PROVE  ShapeOK(req'[d]) /\ req'[d] \in Request
  <2>1. CASE UNCHANGED req
    BY <2>1 DEF Shapes, TypeOK
  <2>2. ASSUME NEW d \in Desks, Alone(d)
        PROVE  req' \in [Desks -> Request]
    BY <2>2 DEF Alone, TypeOK
  <2> QED
    BY <2>1, <2>2, Starts, Advances DEF Next, Create, vars, Shapes
<1>1. CASE req'[d] = req[d]
  BY <1>1 DEF Shapes, TypeOK
<1>2. CASE Start(d)
  BY <1>2, Starts
<1>3. CASE Proceed(d) \/ Abort(d)
  <2>1. CASE Ended(d)
    BY <2>1, DefaultTypes, IdleFields DEF Ended, ShapeOK, ItemOps
  <2>2. ShapeOK(req[d]) /\ ~ Free(d)
    BY <1>3, Advances DEF Shapes
  <2>3. ASSUME NEW s \in {"readItems", "save", "charge", "post"}, GoesTo(d, s),
               s \in {"readItems", "save"} => req[d].op \in ItemOps
        PROVE  ShapeOK(req'[d])
    BY <2>2, <2>3 DEF GoesTo, ShapeOK, Free
  <2>4. ASSUME GoesTo(d, "readStatus"), req[d].op \in {"add", "setQty"}
        PROVE  ShapeOK(req'[d])
    BY <2>2, <2>4 DEF GoesTo, ShapeOK, Free
  <2>5. ASSUME GoesTo(d, "commit"), req[d].op = "deliver", req'[d].old.status \in OpenStatus
        PROVE  ShapeOK(req'[d])
    BY <2>2, <2>5 DEF GoesTo, ShapeOK, Free, ItemOps
  <2> QED
    BY <1>3, <2>1, <2>3, <2>4, <2>5, Advances DEF GoesTo
<1>4. ASSUME NEW e \in Desks, e # d, Start(e) \/ Proceed(e) \/ Abort(e)
      PROVE  req'[d] = req[d]
  <2>1. Alone(e)
    BY <1>4, Starts, Advances
  <2> QED
    BY <1>4, <2>1 DEF Alone, TypeOK
<1> QED
  BY <1>1, <1>2, <1>3, <1>4 DEF Next, Create, vars

-----------------------------------------------------------------------------
(***************************************************************************)
(* Tables.  A handler touches the rows of its own order only.              *)
(***************************************************************************)
Spared(p) ==
  /\ order'[p] = order[p] /\ bill'[p] = bill[p] /\ payment'[p] = payment[p]
  /\ p \in stale' <=> p \in stale
  /\ p \in cut' <=> p \in cut
  /\ p \in byHand' <=> p \in byHand
  /\ SameItems(item, item', p)

LEMMA OthersAreSpared ==
  ASSUME TypeOK, Shapes, NEW d \in Desks, Proceed(d) \/ Abort(d),
         NEW p \in Orders, p # req[d].o
  PROVE  Spared(p)
<1>q. req[d] \in Request /\ ShapeOK(req[d])
  BY DEF TypeOK, Shapes
<1>1. CASE WriteItem(d) \/ WritePrep(d)
  <2>1. OrderOf[req[d].i] = req[d].o
    BY <1>q, <1>1 DEF WriteItem, WritePrep, ShapeOK, ItemOps
  <2>2. SameItems(item, item', p)
    BY <1>1, <2>1 DEF WriteItem, WritePrep, SameItems, TypeOK
  <2>3. /\ UNCHANGED <<order, bill, payment, cut, byHand>>
        /\ p \in stale' <=> p \in stale
    BY <1>1 DEF WriteItem, WritePrep, books, Mark
  <2> QED
    BY <2>2, <2>3 DEF Spared
<1>2. CASE ReadItems(d) \/ ReadStatus(d) \/ CheckStock(d) \/ PostCharge(d) \/ PostSale(d)
  BY <1>2 DEF ReadItems, ReadStatus, CheckStock, PostCharge, PostSale, books, Spared, SameItems
<1>3. CASE SaveTotal(d) \/ SaveStatus(d)
  <2>1. order'[p] = order[p] /\ UNCHANGED <<bill, payment, cut, item>>
    BY <1>3 DEF SaveTotal, SaveStatus, books, TypeOK
  <2>2. (p \in stale' <=> p \in stale) /\ (p \in byHand' <=> p \in byHand)
    BY <1>3 DEF SaveTotal, SaveStatus, Mark
  <2> QED
    BY <2>1, <2>2 DEF Spared, SameItems
<1>4. CASE WriteStatus(d)
  <2>1. order'[p] = order[p] /\ UNCHANGED <<bill, payment, cut>>
    BY <1>4 DEF WriteStatus, books, TypeOK
  <2>2. (p \in stale' <=> p \in stale) /\ (p \in byHand' <=> p \in byHand)
    BY <1>4 DEF WriteStatus, Mark
  <2>3. SameItems(item, item', p)
    BY <1>4 DEF WriteStatus, SameItems, On
  <2> QED
    BY <2>1, <2>2, <2>3 DEF Spared
<1>5. CASE Deduct(d)
  <2>1. order'[p] = order[p] /\ bill'[p] = bill[p] /\ UNCHANGED <<payment, cut, item>>
    BY <1>5 DEF Deduct, TypeOK
  <2>2. (p \in stale' <=> p \in stale) /\ (p \in byHand' <=> p \in byHand)
    BY <1>5 DEF Deduct, Mark
  <2> QED
    BY <2>1, <2>2 DEF Spared, SameItems
<1>6. CASE CommitPayment(d)
  <2>1. order'[p] = order[p] /\ payment'[p] = payment[p] /\ UNCHANGED <<bill, cut, item, byHand>>
    BY <1>6 DEF CommitPayment, TypeOK
  <2>2. p \in stale' <=> p \in stale
    BY <1>6 DEF CommitPayment, Mark
  <2> QED
    BY <2>1, <2>2 DEF Spared, SameItems
<1>7. CASE Abort(d)
  BY <1>7 DEF Abort, books, Mark, Spared, SameItems
<1> QED
  BY <1>1, <1>2, <1>3, <1>4, <1>5, <1>6, <1>7 DEF Proceed

(* What the actions write are rows, amounts and orders.                    *)
LEMMA OrderTypes ==
  ASSUME TypeOK, Shapes, NEW d \in Desks, Proceed(d) \/ Abort(d)
  PROVE  order' \in [Orders -> OrderRow]
<1> DEFINE q == req[d]
<1>q. /\ q \in Request /\ ShapeOK(q)
      /\ q.o \in Orders /\ q.old \in OrderRow /\ q.its \in [Items -> ItemRow]
  <2>1. q \in Request
    BY DEF TypeOK
  <2> QED
    BY <2>1 DEF Request, Shapes
<1>r. order[q.o] \in OrderRow
  BY <1>q DEF TypeOK
<1>w. ASSUME NEW s \in OrderStatus, order' = [order EXCEPT ![q.o].status = s]
      PROVE  order' \in [Orders -> OrderRow]
  <2>1. [order[q.o] EXCEPT !.status = s] \in OrderRow
    BY <1>r DEF OrderRow
  <2> QED
    BY <1>w, <2>1 DEF TypeOK
<1>s. Derive(q.old.status, q.its, q.o) \in OrderStatus
  BY <1>q, DeriveType DEF OrderRow
<1>1. CASE UNCHANGED order
  BY <1>1 DEF TypeOK
<1>2. CASE SaveTotal(d)
  <2> DEFINE n == TotalOf(q.its, q.o, q.old.discount)
             s == Derive(q.old.status, q.its, q.o)
             row == [order[q.o] EXCEPT !.total = n, !.status = s]
  <2>1. order' = [order EXCEPT ![q.o].total = n, ![q.o].status = s]
    BY <1>2 DEF SaveTotal
  <2>2. n \in Int /\ s \in OrderStatus
    BY <1>q, <1>s, TotalType DEF OrderRow
  <2>3. order' = [order EXCEPT ![q.o] = row]
    BY <2>1
  <2> HIDE DEF n, s
  <2>4. row \in OrderRow
    BY <1>r, <2>2 DEF OrderRow
  <2> HIDE DEF row
  <2> QED
    BY <2>3, <2>4 DEF TypeOK
<1>3. CASE SaveStatus(d)
  BY <1>1, <1>3, <1>s, <1>w DEF SaveStatus
<1>4. CASE WriteStatus(d)
  <2>1. q.want \in OrderStatus
    BY <1>4, <1>q DEF WriteStatus, ShapeOK, OrderStatus
  <2> QED
    BY <1>4, <1>w, <2>1 DEF WriteStatus
<1>5. CASE Deduct(d)
  <2>1. "DELIVERED" \in OrderStatus
    BY DEF OrderStatus
  <2> QED
    BY <1>1, <1>5, <1>w, <2>1 DEF Deduct
<1>6. CASE CommitPayment(d)
  <2>1. [order[q.o] EXCEPT !.paid = TRUE] \in OrderRow
    BY <1>r DEF OrderRow
  <2> QED
    BY <1>6, <2>1 DEF CommitPayment, TypeOK
<1> QED
  BY <1>1, <1>2, <1>3, <1>4, <1>5, <1>6
     DEF Proceed, WriteItem, ReadItems, ReadStatus, WritePrep, CheckStock, PostCharge, PostSale, Abort

LEMMA ItemTypes ==
  ASSUME TypeOK, Shapes, NEW d \in Desks, Proceed(d) \/ Abort(d)
  PROVE  item' \in [Items -> ItemRow]
<1> DEFINE q == req[d]
<1>q. q.i \in Items /\ ShapeOK(q)
  BY DEF TypeOK, Shapes, Request
<1>r. item[q.i] \in ItemRow
  BY <1>q DEF TypeOK
<1>w. ASSUME NEW row \in ItemRow, item' = [item EXCEPT ![q.i] = row]
      PROVE  item' \in [Items -> ItemRow]
  BY <1>w DEF TypeOK
<1>1. CASE UNCHANGED item
  BY <1>1 DEF TypeOK
<1>2. CASE WriteItem(d)
  <2> DEFINE row == IF q.op = "add" THEN NewItem
                    ELSE IF q.qty = 0 THEN NoItem
                    ELSE [item[q.i] EXCEPT !.qty = q.qty]
  <2>1. UNCHANGED item \/ item' = [item EXCEPT ![q.i] = row]
    BY <1>2 DEF WriteItem
  <2>2. q.qty \in Quantities \cup {0, 1}
    BY <1>2, <1>q DEF WriteItem, ShapeOK
  <2>3. [item[q.i] EXCEPT !.qty = q.qty] \in ItemRow
    BY <1>r, <2>2 DEF ItemRow
  <2>4. row \in ItemRow
    BY <2>3, DefaultTypes
  <2> QED
    BY <1>1, <1>w, <2>1, <2>4
<1>3. CASE WritePrep(d)
  <2>1. q.want \in PrepStatus
    BY <1>3, <1>q DEF WritePrep, ShapeOK
  <2>2. [item[q.i] EXCEPT !.prep = q.want] \in ItemRow
    BY <1>r, <2>1 DEF ItemRow
  <2>3. UNCHANGED item \/ item' = [item EXCEPT ![q.i] = [item[q.i] EXCEPT !.prep = q.want]]
    BY <1>3 DEF WritePrep
  <2> QED
    BY <1>1, <1>w, <2>2, <2>3
<1>4. CASE WriteStatus(d)
  <2>1. \A i \in Items : [item[i] EXCEPT !.prep = "CANCELLED"] \in ItemRow
    BY DEF TypeOK, ItemRow, PrepStatus
  <2> QED
    BY <1>4, <2>1 DEF WriteStatus, TypeOK
<1> QED
  BY <1>1, <1>2, <1>3, <1>4
     DEF Proceed, ReadItems, ReadStatus, SaveTotal, SaveStatus, CheckStock, Deduct,
         PostCharge, CommitPayment, PostSale, Abort

LEMMA BookTypes ==
  ASSUME TypeOK, Shapes, NEW d \in Desks, Proceed(d) \/ Abort(d)
  PROVE  /\ stock' \in Int
         /\ bill' \in [Orders -> Seq(Int)]
         /\ payment' \in [Orders -> Seq(Int)]
         /\ posted' \in [Orders -> Seq(Int)]
<1> DEFINE q == req[d]
<1>q. q.o \in Orders /\ q.old.total \in Int /\ q.its \in [Items -> ItemRow]
  <2>1. q \in Request
    BY DEF TypeOK
  <2> QED
    BY <2>1 DEF Request, OrderRow
<1>a. ASSUME NEW f \in [Orders -> Seq(Int)]
      PROVE  [f EXCEPT ![q.o] = Append(@, q.old.total)] \in [Orders -> Seq(Int)]
  <2>1. Append(f[q.o], q.old.total) \in Seq(Int)
    BY <1>q
  <2> QED
    BY <2>1
<1>1. CASE UNCHANGED <<stock, books>>
  BY <1>1 DEF TypeOK, books
<1>2. CASE Deduct(d)
  <2>1. Uses(QtyOf(q.its, q.o)) \in Int
    BY <1>q, TotalType
  <2>2. stock' \in Int
    BY <1>2, <2>1 DEF Deduct, TypeOK
  <2>3. bill' \in [Orders -> Seq(Int)]
    <3>1. UNCHANGED bill \/ bill' = [bill EXCEPT ![q.o] = Append(@, q.old.total)]
      BY <1>2 DEF Deduct
    <3>2. bill \in [Orders -> Seq(Int)]
      BY DEF TypeOK
    <3> QED
      BY <1>a, <3>1, <3>2
  <2>4. UNCHANGED <<payment, posted>>
    BY <1>2 DEF Deduct
  <2> QED
    BY <2>2, <2>3, <2>4 DEF TypeOK
<1>3. CASE PostCharge(d)
  <2>1. posted' \in [Orders -> Seq(Int)]
    BY <1>3, <1>a DEF PostCharge, TypeOK
  <2> QED
    BY <1>3, <2>1 DEF PostCharge, TypeOK
<1>4. CASE PostSale(d)
  <2>1. posted' \in [Orders -> Seq(Int)]
    BY <1>4, <1>a DEF PostSale, TypeOK
  <2> QED
    BY <1>4, <2>1 DEF PostSale, TypeOK
<1>5. CASE CommitPayment(d)
  <2>1. payment' \in [Orders -> Seq(Int)]
    BY <1>5, <1>a DEF CommitPayment, TypeOK
  <2> QED
    BY <1>5, <2>1 DEF CommitPayment, TypeOK
<1>6. CASE WriteItem(d) \/ WritePrep(d) \/ SaveTotal(d) \/ SaveStatus(d) \/ WriteStatus(d)
  BY <1>1, <1>6 DEF WriteItem, WritePrep, SaveTotal, SaveStatus, WriteStatus
<1> QED
  BY <1>1, <1>2, <1>3, <1>4, <1>5, <1>6 DEF Proceed, ReadItems, ReadStatus, CheckStock, Abort

LEMMA HistoryTypes ==
  ASSUME TypeOK, NEW d \in Desks, Proceed(d) \/ Abort(d)
  PROVE  stale' \subseteq Orders /\ cut' \subseteq Orders /\ byHand' \subseteq Orders
<1>1. req[d].o \in Orders
  BY DEF TypeOK, Request
<1>2. CASE WriteItem(d) \/ WritePrep(d) \/ CommitPayment(d)
  BY <1>1, <1>2 DEF WriteItem, WritePrep, CommitPayment, Mark, TypeOK
<1>3. CASE SaveTotal(d) \/ SaveStatus(d) \/ WriteStatus(d)
  BY <1>1, <1>3 DEF SaveTotal, SaveStatus, WriteStatus, Mark, TypeOK
<1>4. CASE Deduct(d)
  BY <1>1, <1>4 DEF Deduct, Mark, TypeOK
<1>5. CASE Abort(d)
  BY <1>1, <1>5 DEF Abort, Mark, TypeOK
<1> QED
  BY <1>2, <1>3, <1>4, <1>5
     DEF Proceed, ReadItems, ReadStatus, CheckStock, PostCharge, PostSale, TypeOK

(* A new order.                                                            *)
LEMMA CreateFields ==
  ASSUME TypeOK, NEW o \in Orders, NEW first \in SUBSET Items, NEW n \in Discounts,
         NEW room \in BOOLEAN, Create(o, first, n, room)
  PROVE  /\ order' \in [Orders -> OrderRow] /\ item' \in [Items -> ItemRow]
         /\ UNCHANGED <<stock, books, req, stale, cut, byHand>>
         /\ order[o].status = "FREE" /\ order'[o].status = "PENDING" /\ ~ order'[o].paid
         /\ order'[o].total = TotalOf(item', o, order'[o].discount)
         /\ \A p \in Orders \ {o} : Spared(p)
<1> DEFINE sum == TotalOf(item', o, n)
           row == [status |-> "PENDING", paid |-> FALSE, room |-> room,
                   discount |-> n, total |-> sum]
<1>1. item' \in [Items -> ItemRow]
  BY DefaultTypes DEF Create, TypeOK
<1>2. n \in Nat
  BY PosAssumption
<1>3. sum \in Int
  BY <1>1, <1>2, TotalType
<1>4. ASSUME NEW t \in Int
      PROVE  [status |-> "PENDING", paid |-> FALSE, room |-> room,
              discount |-> n, total |-> t] \in OrderRow
  BY <1>2 DEF OrderRow, OrderStatus, OpenStatus
<1>11. row \in OrderRow
  BY <1>3, <1>4
<1>5. row.status = "PENDING" /\ ~ row.paid /\ row.total = TotalOf(item', o, row.discount)
  OBVIOUS
<1>6. order' = [order EXCEPT ![o] = row] /\ order[o].status = "FREE"
  BY DEF Create
<1>7. ASSUME NEW p \in Orders \ {o} PROVE SameItems(item, item', p)
  BY <1>7 DEF Create, SameItems
<1>8. UNCHANGED <<stock, books, req, stale, cut, byHand>>
  BY DEF Create
<1> HIDE DEF row
<1>9. order' \in [Orders -> OrderRow] /\ order'[o] = row
      /\ \A p \in Orders \ {o} : order'[p] = order[p]
  BY <1>11, <1>6 DEF TypeOK
<1>10. \A p \in Orders \ {o} : Spared(p)
  BY <1>7, <1>8, <1>9 DEF Spared, books
<1> QED
  BY <1>1, <1>5, <1>6, <1>8, <1>9, <1>10

-----------------------------------------------------------------------------
(***************************************************************************)
(* Single steps.                                                           *)
(***************************************************************************)
LEMMA OldRead ==
  ASSUME TypeOK, NEW d \in Desks, Proceed(d) \/ Abort(d), ~ Ended(d)
  PROVE  \/ req'[d].old = req[d].old
         \/ req'[d].old = order[req[d].o]
         \/ req'[d].old.status = order[req[d].o].status
<1>q. req[d] \in Request /\ order[req[d].o] \in OrderRow
  BY DEF TypeOK, Request
<1>f. ~ Finish(d)
  BY FinishEnds
<1>s. {"readItems", "commit", "charge"} \subseteq Stages
  BY DEF Stages
<1>1. CASE WriteItem(d) \/ WritePrep(d)
  <2>1. Step(d, "readItems")
    BY <1>1, <1>f DEF WriteItem, WritePrep
  <2> QED
    BY <1>s, <2>1, StepGoes
<1>2. CASE CheckStock(d) \/ Deduct(d)
  <2>1. Step(d, "commit") \/ Step(d, "charge")
    BY <1>2, <1>f DEF CheckStock, Deduct
  <2> QED
    BY <1>s, <2>1, StepGoes
<1>3. CASE ReadItems(d)
  BY <1>3, <1>q DEF ReadItems, Request, TypeOK
<1>4. CASE ReadStatus(d)
  BY <1>4, <1>q DEF ReadStatus, Request, TypeOK
<1>5. CASE CommitPayment(d)
  <2>1. /\ req' = [req EXCEPT ![d].at = "post", ![d].old = order'[req[d].o]]
        /\ order' = [order EXCEPT ![req[d].o].paid = TRUE]
    BY <1>5 DEF CommitPayment
  <2>2. req'[d].old = order'[req[d].o]
    BY <1>q, <2>1 DEF TypeOK, Request
  <2>3. order'[req[d].o].status = order[req[d].o].status
    BY <1>q, <2>1 DEF TypeOK, OrderRow
  <2> QED
    BY <2>2, <2>3
<1> QED
  BY <1>1, <1>2, <1>3, <1>4, <1>5, <1>f
     DEF Proceed, SaveTotal, SaveStatus, WriteStatus, PostCharge, PostSale, Abort

(* An order stays, an order id is used once.                               *)
LEMMA NeverFreed ==
  ASSUME TypeOK, Shapes, RowBound, [Next]_vars,
         NEW o \in Orders, order[o].status # "FREE"
  PROVE  order'[o].status # "FREE"
<1>r. order[o] \in OrderRow
  BY DEF TypeOK
<1>1. CASE order'[o] = order[o]
  BY <1>1
<1>2. ASSUME NEW d \in Desks, Proceed(d) \/ Abort(d), req[d].o = o
      PROVE  order'[o].status # "FREE"
  <2>q. ShapeOK(req[d]) /\ ~ Free(d) /\ req[d].old.status # "FREE"
    BY <1>2, Advances DEF Shapes, RowBound
  <2>o. req[d].old.status \in OrderStatus
    BY DEF TypeOK, Request, OrderRow
  <2>s. Derive(req[d].old.status, req[d].its, o) # "FREE"
    BY <2>o, <2>q, DeriveType DEF OpenStatus
  <2>w. ASSUME NEW s, order' = [order EXCEPT ![o].status = s] PROVE order'[o].status = s
    BY <1>r, <2>w DEF TypeOK, OrderRow
  <2>1. CASE SaveTotal(d)
    <3>1. order' = [order EXCEPT ![o].total = TotalOf(req[d].its, o, req[d].old.discount),
                                 ![o].status = Derive(req[d].old.status, req[d].its, o)]
      BY <1>2, <2>1 DEF SaveTotal
    <3>2. order'[o].status = Derive(req[d].old.status, req[d].its, o)
      BY <1>r, <3>1 DEF TypeOK, OrderRow
    <3> QED
      BY <2>s, <3>2
  <2>2. CASE SaveStatus(d)
    BY <1>1, <1>2, <2>2, <2>s, <2>w DEF SaveStatus
  <2>3. CASE WriteStatus(d)
    BY <1>2, <2>3, <2>q, <2>w DEF WriteStatus, ShapeOK, OpenStatus
  <2>4. CASE Deduct(d)
    BY <1>1, <1>2, <2>4, <2>w DEF Deduct
  <2>5. CASE CommitPayment(d)
    BY <1>2, <1>r, <2>5 DEF CommitPayment, TypeOK, OrderRow
  <2>6. CASE UNCHANGED order
    BY <1>1, <2>6
  <2> QED
    BY <1>2, <2>1, <2>2, <2>3, <2>4, <2>5, <2>6
       DEF Proceed, WriteItem, ReadItems, ReadStatus, WritePrep, CheckStock, PostCharge, PostSale, Abort
<1>3. ASSUME NEW d \in Desks, Proceed(d) \/ Abort(d), req[d].o # o
      PROVE  order'[o] = order[o]
  BY <1>3, OthersAreSpared DEF Spared
<1>4. ASSUME NEW p \in Orders, NEW first \in SUBSET Items, NEW n \in Discounts,
             NEW room \in BOOLEAN, Create(p, first, n, room)
      PROVE  order'[o] = order[o]
  BY <1>4, CreateFields DEF Spared
<1>5. ASSUME NEW d \in Desks, Start(d) PROVE order'[o] = order[o]
  BY <1>5, Starts DEF Untouched
<1> QED
  BY <1>1, <1>2, <1>3, <1>4, <1>5 DEF Next, vars

(* A step leaves an order and the requests at work on it alone, or creates *)
(* it, or is one of a request on it.                                       *)
Working(q, o) == q.o = o /\ q.at \in {"readItems", "readStatus", "save"}

LeavesAlone(o) ==
  /\ Spared(o)
  /\ \A e \in Desks : Working(req[e], o) \/ Working(req'[e], o) => req'[e] = req[e]

Creates(o) ==
  \E first \in SUBSET Items, n \in Discounts, room \in BOOLEAN :
    Create(o, first, n, room)

WorksOn(d, o) == (Proceed(d) \/ Abort(d)) /\ req[d].o = o

LEMMA WhoActs ==
  ASSUME TypeOK, Shapes, [Next]_vars, NEW o \in Orders
  PROVE  LeavesAlone(o) \/ Creates(o) \/ \E d \in Desks : WorksOn(d, o)
<1>u. ASSUME Untouched PROVE Spared(o)
  BY <1>u DEF Untouched, books, Spared, SameItems
<1>1. CASE UNCHANGED vars
  <2>1. Untouched /\ UNCHANGED req
    BY <1>1 DEF vars, Untouched, books
  <2> QED
    BY <1>u, <2>1 DEF LeavesAlone
<1>2. ASSUME NEW p \in Orders, NEW first \in SUBSET Items, NEW n \in Discounts,
             NEW room \in BOOLEAN, Create(p, first, n, room), p # o
      PROVE  LeavesAlone(o)
  BY <1>2, CreateFields DEF LeavesAlone
<1>e. ASSUME NEW d \in Desks, Alone(d), NEW e \in Desks \ {d} PROVE req'[e] = req[e]
  BY <1>e DEF Alone, TypeOK
<1>3. ASSUME NEW d \in Desks, Start(d)
      PROVE  LeavesAlone(o)
  <2>1. Spared(o) /\ Free(d) /\ Alone(d) /\ req'[d].at = "write"
    BY <1>3, <1>u, Starts
  <2> QED
    BY <1>e, <2>1 DEF LeavesAlone, Working, Free
<1>4. ASSUME NEW d \in Desks, Proceed(d) \/ Abort(d), req[d].o # o
      PROVE  LeavesAlone(o)
  <2>1. Spared(o) /\ Alone(d) /\ (Ended(d) \/ req'[d].o = req[d].o)
    BY <1>4, OthersAreSpared, Advances DEF GoesTo
  <2>2. ~ Working(req[d], o) /\ ~ Working(req'[d], o)
    BY <1>4, <2>1, IdleFields DEF Working, Ended
  <2> QED
    BY <1>e, <2>1, <2>2 DEF LeavesAlone
<1> QED
  BY <1>1, <1>2, <1>3, <1>4 DEF Next, Creates, WorksOn

(* Nothing is taken out of the history of marked orders.                   *)
LEMMA SoundBefore ==
  ASSUME TypeOK, Shapes, [Next]_vars, NEW o \in Orders, o \notin stale' \cup cut'
  PROVE  Sound(o)
<1>1. ASSUME NEW d \in Desks, WorksOn(d, o) PROVE o \notin stale \cup cut
  BY <1>1
     DEF WorksOn, Proceed, WriteItem, ReadItems, ReadStatus, SaveTotal, WritePrep, SaveStatus,
         WriteStatus, CheckStock, Deduct, PostCharge, CommitPayment, PostSale, Abort, Mark
<1>2. CASE Creates(o)
  BY <1>2 DEF Creates, Create, Sound
<1>3. CASE LeavesAlone(o)
  BY <1>3 DEF LeavesAlone, Spared, Sound
<1> QED
  BY <1>1, <1>2, <1>3, WhoActs DEF Sound

-----------------------------------------------------------------------------
(***************************************************************************)
(* Types.                                                                  *)
(***************************************************************************)
Basis == TypeOK /\ Shapes /\ RowBound /\ NoStrayItems

LEMMA BasisInit == Init => Basis
<1> SUFFICES ASSUME Init PROVE Basis
  OBVIOUS
<1>1. TypeOK
  BY DefaultTypes, PosAssumption DEF Init, TypeOK
<1>2. /\ \A d \in Desks : req[d] = Idle
      /\ \A i \in Items : item[i].prep = "ABSENT"
  BY DEF Init, NoItem
<1>3. Shapes /\ RowBound
  BY <1>2, IdleFields DEF Shapes, ShapeOK, ItemOps, RowBound, Free
<1> QED
  BY <1>1, <1>2, <1>3 DEF Basis, NoStrayItems

LEMMA NoOrderYet ==
  ASSUME Init, NEW o \in Orders
  PROVE  order[o].status = "FREE" /\ ~ order[o].paid /\ order[o].total = 0
<1>1. NoOrder.status = "FREE" /\ ~ NoOrder.paid /\ NoOrder.total = 0
  BY DEF NoOrder
<1>2. order[o] = NoOrder
  BY DEF Init
<1> QED
  BY <1>1, <1>2

LEMMA TypeStep ==
  ASSUME TypeOK, Shapes, [Next]_vars
  PROVE  TypeOK'
<1>1. req' \in [Desks -> Request]
  BY ShapesStep
<1>2. CASE UNCHANGED vars
  BY <1>1, <1>2 DEF vars, books, TypeOK
<1>3. ASSUME NEW o \in Orders, NEW first \in SUBSET Items, NEW n \in Discounts,
             NEW room \in BOOLEAN, Create(o, first, n, room)
      PROVE  TypeOK'
  <2>1. /\ order' \in [Orders -> OrderRow] /\ item' \in [Items -> ItemRow]
        /\ UNCHANGED <<stock, books, stale, cut, byHand>>
    BY <1>3, CreateFields
  <2> QED
    BY <1>1, <2>1 DEF books, TypeOK
<1>4. ASSUME NEW d \in Desks, Start(d) PROVE TypeOK'
  BY <1>1, <1>4, Starts DEF Untouched, books, TypeOK
<1>5. ASSUME NEW d \in Desks, Proceed(d) \/ Abort(d) PROVE TypeOK'
  BY <1>1, <1>5, OrderTypes, ItemTypes, BookTypes, HistoryTypes DEF TypeOK
<1> QED
  BY <1>2, <1>3, <1>4, <1>5 DEF Next

LEMMA RowBoundStep ==
  ASSUME TypeOK, Shapes, RowBound, [Next]_vars
  PROVE  RowBound'
<1> SUFFICES ASSUME NEW d \in Desks, req'[d].at # "idle"
             PROVE  order'[req'[d].o].status # "FREE" /\ req'[d].old.status # "FREE"
  BY DEF RowBound, Free
<1>o. \A e \in Desks : req[e].o \in Orders
  BY DEF TypeOK, Request
<1>1. CASE req'[d] = req[d]
  BY <1>1, <1>o, NeverFreed DEF RowBound, Free
<1>2. CASE Start(d)
  BY <1>2, Starts DEF Untouched
<1>3. CASE Proceed(d) \/ Abort(d)
  <2>1. ~ Free(d) /\ ~ Ended(d)
    BY <1>3, IdleFields, Advances DEF Ended
  <2>2. req'[d].o = req[d].o
    BY <1>3, <2>1, Advances DEF GoesTo
  <2>3. order[req[d].o].status # "FREE" /\ req[d].old.status # "FREE"
    BY <2>1 DEF RowBound
  <2>4. req'[d].old.status # "FREE"
    BY <1>3, <2>1, <2>3, OldRead
  <2> QED
    BY <1>o, <2>2, <2>3, <2>4, NeverFreed
<1>4. ASSUME NEW e \in Desks, e # d, Start(e) \/ Proceed(e) \/ Abort(e)
      PROVE  req'[d] = req[d]
  <2>1. Alone(e)
    BY <1>4, Starts, Advances
  <2> QED
    BY <1>4, <2>1 DEF Alone, TypeOK
<1> QED
  BY <1>1, <1>2, <1>3, <1>4 DEF Next, Create, vars

LEMMA NoStrayItemsStep ==
  ASSUME TypeOK, Shapes, RowBound, NoStrayItems, [Next]_vars
  PROVE  NoStrayItems'
<1> SUFFICES ASSUME NEW i \in Items, order'[OrderOf[i]].status = "FREE"
             PROVE  item'[i].prep = "ABSENT"
  BY DEF NoStrayItems
<1> DEFINE o == OrderOf[i]
<1>1. o \in Orders
  BY PosAssumption
<1>2. order[o].status = "FREE"
  BY <1>1, NeverFreed
<1>3. ~ Creates(o)
  BY <1>1, CreateFields DEF Creates
<1>4. ASSUME NEW d \in Desks, WorksOn(d, o) PROVE FALSE
  BY <1>2, <1>4, Advances DEF WorksOn, RowBound
<1>5. Spared(o)
  BY <1>1, <1>3, <1>4, WhoActs DEF LeavesAlone
<1> QED
  BY <1>2, <1>5 DEF Spared, SameItems, NoStrayItems

LEMMA BasisStep == Basis /\ [Next]_vars => Basis'
BY TypeStep, ShapesStep, RowBoundStep, NoStrayItemsStep DEF Basis

LEMMA BasisHolds == Spec => []Basis
BY BasisInit, BasisStep, PTL DEF Spec

(* Every table and every request has the shape the code gives it, for any  *)
(* number of orders, items and overlapping requests.                       *)
THEOREM Types == Spec => []TypeOK
<1>1. Basis => TypeOK
  BY DEF Basis
<1> QED
  BY <1>1, BasisHolds, PTL

-----------------------------------------------------------------------------
(***************************************************************************)
(* What a request leaves of its order if it does not mark it: it wrote on  *)
(* the row and the items it had read, and nobody else was half way through *)
(* another write.                                                          *)
(***************************************************************************)
SameMoney(o) ==
  /\ order'[o].total = order[o].total /\ order'[o].discount = order[o].discount
  /\ order'[o].room = order[o].room

(* A marked order stays out; a torn one is marked by whoever writes it.    *)
LEMMA TornIsMarked ==
  ASSUME TypeOK, NEW d \in Desks, NEW o \in Orders, WorksOn(d, o), o \notin stale', Torn(d, o)
  PROVE  UNCHANGED <<order, item, bill, payment>>
BY DEF WorksOn, Proceed, WriteItem, ReadItems, ReadStatus, SaveTotal, WritePrep, SaveStatus,
       WriteStatus, CheckStock, Deduct, PostCharge, CommitPayment, PostSale, Abort, Mark,
       Outdated, books

LEMMA SavedTotal ==
  ASSUME TypeOK, NEW d \in Desks, NEW o \in Orders, req[d].o = o, SaveTotal(d), o \notin stale'
  PROVE  /\ order'[o].total = TotalOf(item, o, order[o].discount)
         /\ order'[o].discount = order[o].discount /\ order'[o].room = order[o].room
         /\ order'[o].paid = order[o].paid
         /\ order'[o].status = Derive(order[o].status, item, o)
         /\ UNCHANGED <<item, books>>
<1>r. order[o] \in OrderRow
  BY DEF TypeOK
<1> DEFINE q == req[d]
           n == TotalOf(q.its, o, q.old.discount)
           s == Derive(q.old.status, q.its, o)
<1>1. order[o] = q.old /\ ItemsOf(o) = q.its
  BY DEF SaveTotal, Mark, Outdated
<1>2. n = TotalOf(item, o, order[o].discount)
  BY <1>1, QueryIsExact DEF TotalOf
<1>3. s = Derive(order[o].status, item, o)
  BY <1>1, QueryIsExact, DeriveSame
<1>4. order' = [order EXCEPT ![o].total = n, ![o].status = s] /\ UNCHANGED <<item, books>>
  BY DEF SaveTotal
<1> HIDE DEF n, s
<1>5. order'[o].total = n /\ order'[o].status = s
  BY <1>r, <1>4 DEF TypeOK, OrderRow
<1>6. /\ order'[o].discount = order[o].discount /\ order'[o].room = order[o].room
      /\ order'[o].paid = order[o].paid
  BY <1>r, <1>4 DEF TypeOK, OrderRow
<1> QED
  BY <1>2, <1>3, <1>4, <1>5, <1>6

LEMMA StatusWrite ==
  ASSUME TypeOK, NEW o \in Orders, NEW s, order' = [order EXCEPT ![o].status = s]
  PROVE  order'[o].status = s /\ order'[o].paid = order[o].paid /\ SameMoney(o)
<1>r. order[o] \in OrderRow
  BY DEF TypeOK
<1>1. order'[o] = [order[o] EXCEPT !.status = s]
  BY DEF TypeOK
<1> QED
  BY <1>r, <1>1 DEF OrderRow, SameMoney

LEMMA SavedStatus ==
  ASSUME TypeOK, NEW d \in Desks, NEW o \in Orders, req[d].o = o, SaveStatus(d), o \notin stale'
  PROVE  /\ order'[o].status = Derive(order[o].status, item, o)
         /\ order'[o].paid = order[o].paid /\ SameMoney(o)
         /\ UNCHANGED <<item, books>>
<1> DEFINE q == req[d]
           s == Derive(q.old.status, q.its, o)
<1>1. order[o] = q.old /\ ItemsOf(o) = q.its
  BY DEF SaveStatus, Mark, Outdated
<1>2. s = Derive(order[o].status, item, o)
  BY <1>1, QueryIsExact, DeriveSame
<1>3. \/ UNCHANGED order /\ s = order[o].status
      \/ order' = [order EXCEPT ![o].status = s]
  BY <1>1 DEF SaveStatus
<1>4. UNCHANGED <<item, books>>
  BY DEF SaveStatus
<1> HIDE DEF s
<1> QED
  BY <1>2, <1>3, <1>4, StatusWrite DEF SameMoney

LEMMA WroteStatus ==
  ASSUME TypeOK, Shapes, NEW d \in Desks, NEW o \in Orders, req[d].o = o, WriteStatus(d)
  PROVE  /\ order'[o].status \in OpenStatus \cup {"CANCELLED"}
         /\ order'[o].paid = order[o].paid /\ SameMoney(o)
         /\ o \in byHand' /\ UNCHANGED books
         /\ o \notin stale' => order[o].status \in OpenStatus
<1>1. /\ order' = [order EXCEPT ![o].status = req[d].want]
      /\ o \in byHand' /\ UNCHANGED books
      /\ req[d].op \in {"status", "cancel"} /\ req[d].at = "write"
      /\ o \notin stale' => order[o] = req[d].old
  BY DEF WriteStatus, Mark
<1>2. req[d].want \in OpenStatus \cup {"CANCELLED"} /\ req[d].old.status \in OpenStatus
  BY <1>1 DEF Shapes, ShapeOK
<1> QED
  BY <1>1, <1>2, StatusWrite

LEMMA Deducted ==
  ASSUME TypeOK, Shapes, NEW d \in Desks, NEW o \in Orders, req[d].o = o, Deduct(d)
  PROVE  \/ UNCHANGED <<order, item, bill, payment, stale, cut, byHand>>
         \/ /\ order'[o].status = "DELIVERED"
            /\ order'[o].paid = order[o].paid /\ SameMoney(o)
            /\ o \notin stale' => /\ order[o].status \in OpenStatus
                                  /\ bill' = [bill EXCEPT ![o] = Append(@, order[o].total)]
            /\ UNCHANGED <<item, payment>>
<1> SUFFICES ASSUME ~ UNCHANGED <<order, item, bill, payment, stale, cut, byHand>>
             PROVE  /\ order'[o].status = "DELIVERED"
                    /\ order'[o].paid = order[o].paid /\ SameMoney(o)
                    /\ o \notin stale' => /\ order[o].status \in OpenStatus
                                          /\ bill' = [bill EXCEPT ![o] = Append(@, order[o].total)]
                    /\ UNCHANGED <<item, payment>>
  OBVIOUS
<1>1. /\ order' = [order EXCEPT ![o].status = "DELIVERED"]
      /\ bill' = [bill EXCEPT ![o] = Append(@, req[d].old.total)]
      /\ o \notin stale' => order[o] = req[d].old
      /\ UNCHANGED <<item, payment>>
  BY DEF Deduct, Mark, Outdated
<1>2. req[d].old.status \in OpenStatus
  BY DEF Deduct, Shapes, ShapeOK
<1> QED
  BY <1>1, <1>2, StatusWrite

LEMMA PaymentTaken ==
  ASSUME TypeOK, Shapes, NEW d \in Desks, NEW o \in Orders, req[d].o = o, CommitPayment(d)
  PROVE  /\ order'[o].paid /\ order'[o].status = order[o].status /\ SameMoney(o)
         /\ UNCHANGED <<item, bill>>
         /\ o \notin stale' =>
              /\ order[o].status = "DELIVERED" /\ ~ order[o].paid /\ ~ order[o].room
              /\ payment' = [payment EXCEPT ![o] = Append(@, order[o].total)]
<1>r. order[o] \in OrderRow
  BY DEF TypeOK
<1>1. /\ order' = [order EXCEPT ![o].paid = TRUE] /\ UNCHANGED <<item, bill>>
      /\ payment' = [payment EXCEPT ![o] = Append(@, req[d].old.total)]
      /\ o \notin stale' => order[o] = req[d].old
      /\ req[d].op = "pay" /\ req[d].at = "write"
  BY DEF CommitPayment, Mark
<1>2. req[d].old.status = "DELIVERED" /\ ~ req[d].old.paid /\ ~ req[d].old.room
  BY <1>1 DEF Shapes, ShapeOK
<1>3. order'[o] = [order[o] EXCEPT !.paid = TRUE]
  BY <1>1 DEF TypeOK
<1>4. order'[o].paid /\ order'[o].status = order[o].status /\ SameMoney(o)
  BY <1>r, <1>3 DEF OrderRow, SameMoney
<1> QED
  BY <1>1, <1>2, <1>4

(* An item written for an order that is not marked: the order was open.    *)
LEMMA ItemWritten ==
  ASSUME TypeOK, Shapes, NEW d \in Desks, NEW o \in Orders, req[d].o = o,
         WriteItem(d) \/ WritePrep(d)
  PROVE  /\ UNCHANGED <<order, bill, payment, cut, byHand>>
         /\ \/ Ended(d) /\ UNCHANGED <<item, stale>>
            \/ /\ GoesTo(d, "readItems")
               /\ o \notin stale' => order[o].status \in OpenStatus
<1>1. /\ UNCHANGED <<order, bill, payment, cut, byHand>>
      /\ req[d].op \in ItemOps /\ req[d].at = "write"
      /\ \/ Finish(d) /\ UNCHANGED <<item, stale>>
         \/ Step(d, "readItems") /\ (o \notin stale' => order[o] = req[d].old)
  BY DEF WriteItem, WritePrep, Mark, books, ItemOps
<1>2. req[d].old.status \in OpenStatus
  BY <1>1 DEF Shapes, ShapeOK, ItemOps
<1>3. "readItems" \in Stages
  BY DEF Stages
<1> QED
  BY <1>1, <1>2, <1>3, FinishEnds, StepGoes

-----------------------------------------------------------------------------
(***************************************************************************)
(* An order somebody is half way through writing is open, unless marked.   *)
(***************************************************************************)
WorkOnOpen ==
  \A d \in Desks, o \in Orders :
    Sound(o) /\ Working(req[d], o) => order[o].status \in OpenStatus

(* Two requests at work on one order, and one that writes it.              *)
LEMMA TwoAtWork ==
  ASSUME TypeOK, NEW d \in Desks, NEW e \in Desks, e # d, NEW o \in Orders,
         WorksOn(d, o), Working(req[e], o), o \notin stale'
  PROVE  UNCHANGED <<order, item, bill, payment>>
BY TornIsMarked DEF Torn, Working, WorksOn

LEMMA WorkOnOpenStep ==
  ASSUME Basis, WorkOnOpen, [Next]_vars
  PROVE  WorkOnOpen'
<1> USE DEF Basis
<1> SUFFICES ASSUME NEW e \in Desks, NEW o \in Orders, o \notin stale' \cup cut',
                    Working(req'[e], o)
             PROVE  order'[o].status \in OpenStatus
  BY DEF WorkOnOpen, Sound, Working
<1>s. Sound(o)
  BY SoundBefore
<1>1. CASE LeavesAlone(o)
  BY <1>1, <1>s DEF LeavesAlone, Spared, WorkOnOpen
<1>2. CASE Creates(o)
  BY <1>2, CreateFields DEF Creates, OpenStatus
<1>3. ASSUME NEW d \in Desks, WorksOn(d, o), e # d
      PROVE  order'[o].status \in OpenStatus
  <2>1. req'[e] = req[e]
    BY <1>3, Advances DEF WorksOn, Alone, TypeOK
  <2>2. UNCHANGED order
    BY <1>3, <2>1, TwoAtWork
  <2> QED
    BY <1>s, <2>1, <2>2 DEF WorkOnOpen
<1>4. CASE WorksOn(e, o)
  <2>1. ~ Ended(e)
    BY IdleFields DEF Ended, Working
  <2>2. CASE WriteItem(e) \/ WritePrep(e)
    BY <1>4, <2>1, <2>2, ItemWritten DEF WorksOn
  <2>3. CASE ReadItems(e) \/ ReadStatus(e)
    <3>1. Working(req[e], o) /\ UNCHANGED order
      BY <1>4, <2>3 DEF ReadItems, ReadStatus, WorksOn, Working
    <3> QED
      BY <1>s, <3>1 DEF WorkOnOpen
  <2>4. ASSUME NEW s \in {"commit", "charge"}, Step(e, s) PROVE FALSE
    <3>1. req'[e].at = s
      BY <2>4, StepGoes DEF Stages, GoesTo
    <3> QED
      BY <3>1 DEF Working
  <2>5. ASSUME CommitPayment(e) PROVE FALSE
    <3>1. req' = [req EXCEPT ![e].at = "post", ![e].old = order'[req[e].o]]
      BY <2>5 DEF CommitPayment
    <3>2. req'[e].at = "post"
      BY <3>1 DEF TypeOK, Request
    <3> QED
      BY <3>2 DEF Working
  <2>6. ~ Finish(e)
    BY <2>1, FinishEnds
  <2> QED
    BY <1>4, <2>2, <2>3, <2>4, <2>5, <2>6
       DEF WorksOn, Proceed, SaveTotal, SaveStatus, WriteStatus, CheckStock, Deduct,
           PostCharge, PostSale, Abort
<1> QED
  BY <1>1, <1>2, <1>3, <1>4, WhoActs

-----------------------------------------------------------------------------
(***************************************************************************)
(* The total.  It is right, or a request is between the write of an item   *)
(* and the write of the total.                                             *)
(***************************************************************************)
Summing(q, o) == Working(q, o) /\ q.op \in {"add", "setQty"}

TotalRight(o) == order[o].total = TotalOf(item, o, order[o].discount)

TotalOrSumming ==
  \A o \in Orders :
    Sound(o) /\ order[o].status # "FREE" =>
      TotalRight(o) \/ \E d \in Desks : Summing(req[d], o)

LEMMA SummingKept ==
  ASSUME Basis, [Next]_vars, NEW d \in Desks, NEW o \in Orders, o \notin stale' \cup cut',
         Summing(req[d], o), WorksOn(d, o)
  PROVE  Summing(req'[d], o) \/ TotalRight(o)'
<1> USE DEF Basis
<1>q. req[d] \in Request /\ req[d].o = o
  BY DEF TypeOK, WorksOn
<1>1. CASE ReadItems(d)
  <2>1. /\ req' = [req EXCEPT ![d].its = ItemsOf(req[d].o),
                              ![d].at = IF req[d].op = "prep" THEN "save" ELSE "readStatus"]
        /\ req[d].op # "prep"
    BY <1>1 DEF ReadItems, Summing
  <2>2. req'[d].o = o /\ req'[d].op = req[d].op /\ req'[d].at = "readStatus"
    BY <1>q, <2>1 DEF TypeOK, Request
  <2> QED
    BY <2>2 DEF Summing, Working
<1>2. CASE ReadStatus(d)
  <2>1. req' = [req EXCEPT ![d].old = order[req[d].o], ![d].at = "save"]
    BY <1>2 DEF ReadStatus
  <2>2. req'[d].o = o /\ req'[d].op = req[d].op /\ req'[d].at = "save"
    BY <1>q, <2>1 DEF TypeOK, Request
  <2> QED
    BY <2>2 DEF Summing, Working
<1>3. CASE SaveTotal(d)
  BY <1>3, <1>q, SavedTotal DEF TotalRight
<1>4. ASSUME Abort(d) PROVE FALSE
  BY <1>4, <1>q DEF Abort, Mark, Summing, Working
<1> QED
  BY <1>1, <1>2, <1>3, <1>4
     DEF WorksOn, Proceed, Summing, Working, WriteItem, WritePrep, SaveStatus, WriteStatus,
         CheckStock, Deduct, PostCharge, CommitPayment, PostSale

(* What does not write items or the total leaves it right.                 *)
LEMMA TotalKept ==
  ASSUME TypeOK, NEW o \in Orders, TotalRight(o), QtyOf(item', o) = QtyOf(item, o),
         order'[o] = order[o] \/ SameMoney(o)
  PROVE  TotalRight(o)'
BY DEF TotalRight, TotalOf, SameMoney

LEMMA TotalStep ==
  ASSUME Basis, TotalOrSumming, [Next]_vars
  PROVE  TotalOrSumming'
<1> USE DEF Basis
<1> SUFFICES ASSUME NEW o \in Orders, o \notin stale' \cup cut', order'[o].status # "FREE"
             PROVE  TotalRight(o)' \/ \E d \in Desks : Summing(req'[d], o)
  BY DEF TotalOrSumming, Sound, Summing, Working
<1>s. Sound(o)
  BY SoundBefore
<1>1. CASE LeavesAlone(o)
  <2>1. QtyOf(item', o) = QtyOf(item, o) /\ order'[o] = order[o]
    BY <1>1, SameItemsSame DEF LeavesAlone, Spared
  <2>2. TotalRight(o) \/ \E d \in Desks : Summing(req[d], o)
    BY <1>s, <2>1 DEF TotalOrSumming
  <2>3. ASSUME NEW d \in Desks, Summing(req[d], o) PROVE Summing(req'[d], o)
    BY <1>1, <2>3 DEF LeavesAlone, Summing
  <2> QED
    BY <2>1, <2>2, <2>3, TotalKept
<1>2. CASE Creates(o)
  BY <1>2, CreateFields DEF Creates, TotalRight
<1>3. ASSUME NEW d \in Desks, WorksOn(d, o)
      PROVE  TotalRight(o)' \/ \E e \in Desks : Summing(req'[e], o)
  <2>1. ~ Free(d) /\ Alone(d) /\ req[d].o = o
    BY <1>3, Advances DEF WorksOn
  <2>2. TotalRight(o) \/ \E e \in Desks : Summing(req[e], o)
    BY <1>s, <2>1 DEF TotalOrSumming, RowBound
  <2>3. ASSUME NEW e \in Desks, Summing(req[e], o), e # d PROVE Summing(req'[e], o)
    BY <2>1, <2>3 DEF Alone, TypeOK
  <2>4. CASE Summing(req[d], o)
    BY <1>3, <2>4, SummingKept
  <2>5. CASE TotalRight(o) /\ ~ Summing(req[d], o)
    <3>1. CASE WriteItem(d)
      BY <2>1, <2>5, <3>1, ItemWritten, TotalKept DEF WriteItem, GoesTo, Summing, Working
    <3>2. CASE WritePrep(d)
      <4>1. UNCHANGED order
        BY <3>2 DEF WritePrep
      <4>2. req[d].want # "ABSENT"
        BY <3>2 DEF WritePrep, Shapes, ShapeOK, PrepStatus
      <4>3. \/ UNCHANGED item
            \/ /\ item[req[d].i].prep # "ABSENT"
               /\ item' = [item EXCEPT ![req[d].i].prep = req[d].want]
        BY <3>2 DEF WritePrep
      <4>4. ASSUME NEW i \in Items
            PROVE  /\ item'[i].qty = item[i].qty
                   /\ item'[i].prep = "ABSENT" <=> item[i].prep = "ABSENT"
        <5>1. item[i] \in ItemRow
          BY DEF TypeOK
        <5>2. \/ item'[i] = item[i]
              \/ /\ item[i].prep # "ABSENT"
                 /\ item'[i] = [item[i] EXCEPT !.prep = req[d].want]
          BY <4>3 DEF TypeOK
        <5> QED
          BY <4>2, <5>1, <5>2 DEF ItemRow
      <4> QED
        BY <2>5, <4>1, <4>4, PrepMovesKeepQty, TotalKept
    <3>3. CASE WriteStatus(d)
      <4>1. SameMoney(o)
        BY <2>1, <3>3, WroteStatus
      <4>2. ASSUME NEW i \in Items
            PROVE  /\ item'[i].qty = item[i].qty
                   /\ item'[i].prep = "ABSENT" <=> item[i].prep = "ABSENT"
        <5>1. item[i] \in ItemRow
          BY DEF TypeOK
        <5>2. \/ item'[i] = item[i]
              \/ /\ item[i].prep # "ABSENT"
                 /\ item'[i] = [item[i] EXCEPT !.prep = "CANCELLED"]
          BY <3>3 DEF WriteStatus, On
        <5> QED
          BY <5>1, <5>2 DEF ItemRow
      <4> QED
        BY <2>5, <4>1, <4>2, PrepMovesKeepQty, TotalKept
    <3>4. ASSUME UNCHANGED item, order'[o] = order[o] \/ SameMoney(o) PROVE TotalRight(o)'
      BY <2>5, <3>4, TotalKept
    <3>5. CASE SaveStatus(d)
      BY <2>1, <3>4, <3>5, SavedStatus
    <3>6. CASE Deduct(d)
      BY <2>1, <3>4, <3>6, Deducted
    <3>7. CASE CommitPayment(d)
      BY <2>1, <3>4, <3>7, PaymentTaken
    <3>8. CASE SaveTotal(d)
      BY <2>1, <3>8, SavedTotal DEF TotalRight
    <3> QED
      BY <1>3, <3>1, <3>2, <3>3, <3>4, <3>5, <3>6, <3>7, <3>8
         DEF WorksOn, Proceed, ReadItems, ReadStatus, CheckStock, PostCharge, PostSale, Abort
  <2> QED
    BY <2>2, <2>3, <2>4, <2>5
<1> QED
  BY <1>1, <1>2, <1>3, WhoActs

(* The total of an order is what its items come to less its discount,      *)
(* however waiters overlap, whenever no request is at work on the order,   *)
(* save orders that were written on outdated reads or whose request died.  *)
THEOREM TotalIsOfItems == Spec => []TotalFollowsItems
<1>1. Init => TotalOrSumming
  BY NoOrderYet DEF TotalOrSumming
<1>2. Basis /\ TotalOrSumming /\ [Next]_vars => TotalOrSumming'
  BY TotalStep
<1>3. TotalOrSumming => TotalFollowsItems
  <2> SUFFICES ASSUME TotalOrSumming, NEW o \in Orders,
                      Sound(o), Quiet(o), order[o].status # "FREE"
               PROVE  TotalRight(o)
    BY DEF TotalFollowsItems, TotalRight
  <2>1. \A d \in Desks : ~ Summing(req[d], o)
    BY DEF Quiet, Free, Summing, Working
  <2> QED
    BY <2>1 DEF TotalOrSumming
<1> QED
  BY <1>1, <1>2, <1>3, BasisHolds, PTL DEF Spec

-----------------------------------------------------------------------------
(***************************************************************************)
(* The boards.  The status is the one derived from the items, or a request *)
(* is between the write of an item and the write of the status.            *)
(***************************************************************************)
Derived(o) == order[o].status = Derive("PENDING", item, o)

DerivedOrWorking ==
  \A o \in Orders \ byHand :
    Sound(o) /\ order[o].status \in OpenStatus /\ PrepOf(item, o) # {} =>
      Derived(o) \/ \E d \in Desks : Working(req[d], o)

LEMMA DerivedStep ==
  ASSUME Basis, DerivedOrWorking, [Next]_vars
  PROVE  DerivedOrWorking'
<1> USE DEF Basis
<1> SUFFICES ASSUME NEW o \in Orders, o \notin byHand', o \notin stale' \cup cut',
                    order'[o].status \in OpenStatus, PrepOf(item', o) # {},
                    \A d \in Desks : ~ Working(req'[d], o)
             PROVE  Derived(o)'
  BY DEF DerivedOrWorking, Sound, Working
<1>s. Sound(o)
  BY SoundBefore
<1>1. CASE LeavesAlone(o)
  <2>1. PrepOf(item', o) = PrepOf(item, o) /\ order'[o] = order[o] /\ o \notin byHand
    BY <1>1, SameItemsSame DEF LeavesAlone, Spared
  <2>2. \A d \in Desks : ~ Working(req[d], o)
    BY <1>1 DEF LeavesAlone
  <2>3. Derived(o)
    BY <1>s, <2>1, <2>2 DEF DerivedOrWorking
  <2>4. Derive("PENDING", item', o) = Derive("PENDING", item, o)
    BY <2>1, DeriveSame
  <2> QED
    BY <2>1, <2>3, <2>4 DEF Derived
<1>2. CASE Creates(o)
  <2>1. PICK first \in SUBSET Items, n \in Discounts, room \in BOOLEAN : Create(o, first, n, room)
    BY <1>2 DEF Creates
  <2>2. order[o].status = "FREE" /\ order'[o].status = "PENDING"
    BY <2>1, CreateFields
  <2>3. ASSUME NEW i \in On(item', o) PROVE item'[i].prep = "QUEUED"
    <3>1. item[i].prep = "ABSENT"
      BY <2>2 DEF NoStrayItems, On
    <3>2. item' = [x \in Items |-> IF x \in first THEN NewItem ELSE item[x]]
      BY <2>1 DEF Create
    <3> QED
      BY <3>1, <3>2 DEF On, NewItem
  <2>4. PrepOf(item', o) = {"QUEUED"}
    BY <2>3 DEF PrepOf
  <2>5. Derive("PENDING", item', o) = "PENDING"
    BY <2>4 DEF Derive, PrepComplete, OpenStatus
  <2> QED
    BY <2>2, <2>5 DEF Derived
<1>3. ASSUME NEW d \in Desks, WorksOn(d, o)
      PROVE  Derived(o)'
  <2>1. Alone(d) /\ req[d].o = o
    BY <1>3, Advances DEF WorksOn
  <2>2. ASSUME NEW e \in Desks, e # d PROVE ~ Working(req[e], o)
    <3>1. req'[e] = req[e]
      BY <2>1, <2>2 DEF Alone, TypeOK
    <3> QED
      BY <3>1
  <2>3. ASSUME UNCHANGED <<order, item, byHand>>, ~ Working(req[d], o)
        PROVE  Derived(o)'
    BY <1>s, <2>2, <2>3 DEF DerivedOrWorking, Derived
  <2>4. CASE WriteItem(d) \/ WritePrep(d)
    <3>1. ~ GoesTo(d, "readItems")
      BY <2>1 DEF GoesTo, Working
    <3>2. UNCHANGED <<order, item, byHand>>
      BY <2>1, <2>4, <3>1, ItemWritten
    <3> QED
      BY <2>3, <2>4, <3>2 DEF WriteItem, WritePrep, Working
  <2>5. ASSUME ReadItems(d) \/ ReadStatus(d) PROVE FALSE
    <3>q. req[d] \in Request
      BY DEF TypeOK
    <3>1. ASSUME ReadItems(d) PROVE req'[d].o = o /\ req'[d].at \in {"save", "readStatus"}
      BY <2>1, <3>q, <3>1 DEF ReadItems, TypeOK, Request
    <3>2. ASSUME ReadStatus(d) PROVE req'[d].o = o /\ req'[d].at = "save"
      BY <2>1, <3>q, <3>2 DEF ReadStatus, TypeOK, Request
    <3> QED
      BY <2>5, <3>1, <3>2 DEF Working
  <2>6. CASE SaveTotal(d) \/ SaveStatus(d)
    <3>1. order'[o].status = Derive(order[o].status, item, o) /\ UNCHANGED item
      BY <2>1, <2>6, SavedTotal, SavedStatus
    <3>2. order[o].status \in OrderStatus
      BY DEF TypeOK, OrderRow
    <3>3. order[o].status \in OpenStatus
      BY <3>1, <3>2, DeriveType
    <3>4. Derive(order[o].status, item, o) = Derive("PENDING", item, o)
      BY <3>1, <3>3, DeriveFromOpen
    <3> QED
      BY <3>1, <3>4 DEF Derived
  <2>7. ASSUME WriteStatus(d) PROVE FALSE
    BY <2>1, <2>7, WroteStatus
  <2>8. CASE Deduct(d)
    <3>1. UNCHANGED <<order, item, byHand>>
      BY <2>1, <2>8, Deducted DEF OpenStatus
    <3> QED
      BY <2>3, <2>8, <3>1 DEF Deduct, Working
  <2>9. ASSUME CommitPayment(d) PROVE FALSE
    BY <2>1, <2>9, PaymentTaken DEF OpenStatus
  <2>10. CASE CheckStock(d) \/ PostCharge(d) \/ PostSale(d)
    BY <2>3, <2>10 DEF CheckStock, PostCharge, PostSale, Working
  <2>11. CASE Abort(d)
    <3>1. ~ Working(req[d], o)
      BY <2>11 DEF Abort, Mark, Working
    <3> QED
      BY <2>3, <2>11, <3>1 DEF Abort
  <2> QED
    BY <1>3, <2>4, <2>5, <2>6, <2>7, <2>8, <2>9, <2>10, <2>11 DEF WorksOn, Proceed
<1> QED
  BY <1>1, <1>2, <1>3, WhoActs

(* An open order is where its items on the prep boards put it, however     *)
(* cooks and waiters overlap, whenever no request is at work on the order, *)
(* save orders whose status was set by hand, or that were written on       *)
(* outdated reads, or whose request died.                                  *)
THEOREM StatusIsOfBoards == Spec => []BoardFollowsPrep
<1>1. Init => DerivedOrWorking
  BY NoOrderYet DEF DerivedOrWorking, OpenStatus
<1>2. Basis /\ DerivedOrWorking /\ [Next]_vars => DerivedOrWorking'
  BY DerivedStep
<1>3. DerivedOrWorking => BoardFollowsPrep
  <2> SUFFICES ASSUME DerivedOrWorking, NEW o \in Orders \ byHand,
                      Sound(o), Quiet(o), order[o].status \in OpenStatus, PrepOf(item, o) # {}
               PROVE  Derived(o)
    BY DEF BoardFollowsPrep, Derived
  <2>1. \A d \in Desks : ~ Working(req[d], o)
    BY DEF Quiet, Free, Working
  <2> QED
    BY <2>1 DEF DerivedOrWorking
<1> QED
  BY <1>1, <1>2, <1>3, BasisHolds, PTL DEF Spec

-----------------------------------------------------------------------------
(***************************************************************************)
(* The books.  An order is billed when it is delivered, for its total, and *)
(* what is paid is what was billed.                                        *)
(***************************************************************************)
Unbilled(o) == bill[o] = <<>> /\ payment[o] = <<>> /\ ~ order[o].paid

Billed(o) ==
  /\ bill[o] = <<order[o].total>>
  /\ \/ ~ order[o].paid /\ payment[o] = <<>>
     \/ order[o].paid /\ ~ order[o].room /\ payment[o] = bill[o]

BooksOK ==
  \A o \in Orders :
    Sound(o) => IF order[o].status = "DELIVERED" THEN Billed(o) ELSE Unbilled(o)

LEMMA BooksStep ==
  ASSUME Basis, WorkOnOpen, BooksOK, [Next]_vars
  PROVE  BooksOK'
<1> USE DEF Basis
<1> SUFFICES ASSUME NEW o \in Orders, o \notin stale' \cup cut'
             PROVE  /\ order'[o].status = "DELIVERED" => Billed(o)'
                    /\ order'[o].status # "DELIVERED" => Unbilled(o)'
  BY DEF BooksOK, Sound
<1> DEFINE Good == /\ order'[o].status = "DELIVERED" => Billed(o)'
                   /\ order'[o].status # "DELIVERED" => Unbilled(o)'
<1>s. Sound(o)
  BY SoundBefore
<1>i. /\ order[o].status = "DELIVERED" => Billed(o)
      /\ order[o].status # "DELIVERED" => Unbilled(o)
  BY <1>s DEF BooksOK
<1>u. ASSUME order'[o] = order[o], bill'[o] = bill[o], payment'[o] = payment[o]
      PROVE  Good
  BY <1>i, <1>u DEF Billed, Unbilled
<1>1. CASE LeavesAlone(o)
  BY <1>1, <1>u DEF LeavesAlone, Spared
<1>2. CASE Creates(o)
  <2>1. /\ order[o].status = "FREE" /\ order'[o].status = "PENDING" /\ ~ order'[o].paid
        /\ UNCHANGED books
    BY <1>2, CreateFields DEF Creates
  <2>2. Unbilled(o)
    BY <1>i, <2>1
  <2> QED
    BY <2>1, <2>2 DEF Unbilled, books
<1>3. ASSUME NEW d \in Desks, WorksOn(d, o)
      PROVE  Good
  <2>1. req[d].o = o
    BY <1>3 DEF WorksOn
  <2>2. CASE SaveTotal(d) \/ SaveStatus(d)
    <3>1. Working(req[d], o)
      BY <2>1, <2>2 DEF SaveTotal, SaveStatus, Working
    <3>2. order[o].status \in OpenStatus
      BY <1>s, <3>1 DEF WorkOnOpen
    <3>3. /\ order'[o].status = Derive(order[o].status, item, o)
          /\ order'[o].paid = order[o].paid /\ UNCHANGED books
      BY <2>1, <2>2, SavedTotal, SavedStatus
    <3>4. order[o].status \in OrderStatus
      BY DEF TypeOK, OrderRow
    <3>5. order'[o].status \in OpenStatus
      BY <3>2, <3>3, <3>4, DeriveType
    <3> QED
      BY <1>i, <3>2, <3>3, <3>5 DEF Unbilled, books, OpenStatus
  <2>3. CASE WriteStatus(d)
    <3>1. /\ order'[o].status \in OpenStatus \cup {"CANCELLED"} /\ order[o].status \in OpenStatus
          /\ order'[o].paid = order[o].paid /\ UNCHANGED books
      BY <2>1, <2>3, WroteStatus
    <3> QED
      BY <1>i, <3>1 DEF Unbilled, books, OpenStatus
  <2>4. CASE Deduct(d)
    <3>1. CASE UNCHANGED <<order, item, bill, payment, stale, cut, byHand>>
      BY <1>u, <3>1
    <3>2. CASE ~ UNCHANGED <<order, item, bill, payment, stale, cut, byHand>>
      <4>1. /\ order'[o].status = "DELIVERED" /\ order'[o].paid = order[o].paid
            /\ SameMoney(o) /\ order[o].status \in OpenStatus
            /\ bill' = [bill EXCEPT ![o] = Append(@, order[o].total)]
            /\ UNCHANGED payment
        BY <2>1, <2>4, <3>2, Deducted
      <4>2. Unbilled(o)
        BY <1>i, <4>1 DEF OpenStatus
      <4>3. bill'[o] = Append(<<>>, order[o].total)
        BY <4>1, <4>2 DEF Unbilled, TypeOK
      <4>4. order[o].total \in Int
        BY DEF TypeOK, OrderRow
      <4>5. bill'[o] = <<order'[o].total>>
        BY <4>1, <4>3, <4>4 DEF SameMoney
      <4> QED
        BY <4>1, <4>2, <4>5 DEF Unbilled, Billed
    <3> QED
      BY <3>1, <3>2
  <2>5. CASE CommitPayment(d)
    <3>1. /\ order'[o].paid /\ order'[o].status = order[o].status /\ SameMoney(o)
          /\ order[o].status = "DELIVERED" /\ ~ order[o].paid /\ ~ order[o].room
          /\ payment' = [payment EXCEPT ![o] = Append(@, order[o].total)]
          /\ UNCHANGED bill
      BY <2>1, <2>5, PaymentTaken
    <3>2. bill[o] = <<order[o].total>> /\ payment[o] = <<>>
      BY <1>i, <3>1 DEF Billed
    <3>3. payment'[o] = Append(<<>>, order[o].total)
      BY <3>1, <3>2 DEF TypeOK
    <3>4. order[o].total \in Int
      BY DEF TypeOK, OrderRow
    <3>5. payment'[o] = <<order[o].total>>
      BY <3>3, <3>4
    <3> QED
      BY <3>1, <3>2, <3>5 DEF SameMoney, Billed
  <2> QED
    BY <1>3, <1>u, <2>2, <2>3, <2>4, <2>5
       DEF WorksOn, Proceed, WriteItem, WritePrep, ReadItems, ReadStatus, CheckStock,
           PostCharge, PostSale, Abort, books
<1> QED
  BY <1>1, <1>2, <1>3, WhoActs

-----------------------------------------------------------------------------
(***************************************************************************)
(* The refinement.  The phase of an order follows from its row, and each   *)
(* step is a step of SaleLifecycle on the order it works on, or a stutter. *)
(***************************************************************************)
PhaseTable(o) ==
  /\ ~ Sound(o) => PhaseOf(o) = "lost"
  /\ Sound(o) /\ order[o].status = "FREE" => PhaseOf(o) = "none"
  /\ Sound(o) /\ order[o].status \in OpenStatus => PhaseOf(o) = "open"
  /\ Sound(o) /\ order[o].status = "CANCELLED" => PhaseOf(o) = "void"
  /\ Sound(o) /\ order[o].status = "DELIVERED" =>
       PhaseOf(o) = IF order[o].paid THEN "paid" ELSE "billed"

PhasesKnown == TypeOK /\ BooksOK => \A o \in Orders : PhaseTable(o)

LEMMA Phases == PhasesKnown
<1> USE DEF PhasesKnown
<1> SUFFICES ASSUME BooksOK, TypeOK, NEW o \in Orders
             PROVE  PhaseTable(o)
  OBVIOUS
<1>1. order[o].paid \in BOOLEAN
  BY DEF TypeOK, OrderRow
<1>2. ASSUME ~ Sound(o) PROVE PhaseOf(o) = "lost"
  BY <1>2 DEF PhaseOf
<1>3. ASSUME Sound(o), order[o].status # "DELIVERED" PROVE Unbilled(o)
  BY <1>3 DEF BooksOK
<1>4. ASSUME Sound(o), order[o].status = "FREE" PROVE PhaseOf(o) = "none"
  BY <1>3, <1>4 DEF PhaseOf, Unbilled, OpenStatus
<1>5. ASSUME Sound(o), order[o].status \in OpenStatus PROVE PhaseOf(o) = "open"
  BY <1>3, <1>5 DEF PhaseOf, Unbilled, OpenStatus
<1>6. ASSUME Sound(o), order[o].status = "CANCELLED" PROVE PhaseOf(o) = "void"
  BY <1>3, <1>6 DEF PhaseOf, Unbilled, OpenStatus
<1>7. ASSUME Sound(o), order[o].status = "DELIVERED"
      PROVE  PhaseOf(o) = IF order[o].paid THEN "paid" ELSE "billed"
  <2>1. Billed(o)
    BY <1>7 DEF BooksOK
  <2>2. CASE order[o].paid
    BY <1>7, <2>1, <2>2 DEF PhaseOf, Billed, OpenStatus
  <2>3. CASE ~ order[o].paid
    BY <1>7, <2>1, <2>3 DEF PhaseOf, Billed, OpenStatus
  <2> QED
    BY <2>2, <2>3
<1> QED
  BY <1>2, <1>4, <1>5, <1>6, <1>7 DEF PhaseTable

LEMMA PhasesNext == PhasesKnown'
BY Phases, PTL

LEMMA SparedPhase ==
  ASSUME NEW o \in Orders, Spared(o)
  PROVE  PhaseOf(o)' = PhaseOf(o)
<1>1. Sound(o)' <=> Sound(o)
  BY DEF Spared, Sound
<1>2. order'[o] = order[o] /\ bill'[o] = bill[o] /\ payment'[o] = payment[o]
  BY DEF Spared
<1> QED
  BY <1>1, <1>2 DEF PhaseOf

(* Everything but order o is as SaleLifecycle left it.                     *)
LEMMA OthersOfSale ==
  ASSUME TypeOK, TypeOK', NEW o \in Orders, \A p \in Orders \ {o} : Spared(p)
  PROVE  /\ \A p \in Orders \ {o} : /\ PhaseOf(p)' = PhaseOf(p)
                                    /\ order'[p].total = order[p].total
                                    /\ bill'[p] = bill[p] /\ payment'[p] = payment[p]
         /\ bill'[o] = bill[o] => bill' = bill
         /\ payment'[o] = payment[o] => payment' = payment
<1>1. \A p \in Orders \ {o} : /\ PhaseOf(p)' = PhaseOf(p)
                              /\ order'[p].total = order[p].total
                              /\ bill'[p] = bill[p] /\ payment'[p] = payment[p]
  BY SparedPhase DEF Spared
<1>2. bill'[o] = bill[o] => bill' = bill
  BY <1>1 DEF TypeOK
<1>3. payment'[o] = payment[o] => payment' = payment
  BY <1>1 DEF TypeOK
<1> QED
  BY <1>1, <1>2, <1>3

(* The step of SaleLifecycle that a change of phase of order o is.         *)
SameDue(o) == order'[o].total = order[o].total

PhaseMoves(o, from, to) == PhaseOf(o) = from /\ PhaseOf(o)' = to

LEMMA SaleSteps ==
  ASSUME TypeOK, TypeOK', NEW o \in Orders, \A p \in Orders \ {o} : Spared(p)
  PROVE  /\ PhaseOf(o)' = "lost" => Sale!Lose(o)
         /\ PhaseMoves(o, "none", "open") => (UNCHANGED <<bill, payment>> => Sale!Open(o))
         /\ PhaseMoves(o, "open", "open") => (UNCHANGED <<bill, payment>> => Sale!Amend(o))
         /\ PhaseMoves(o, "open", "void") /\ SameDue(o) =>
              (UNCHANGED <<bill, payment>> => Sale!Void(o))
         /\ PhaseMoves(o, "open", "billed") /\ SameDue(o) /\ UNCHANGED payment =>
              (bill' = [bill EXCEPT ![o] = <<order[o].total>>] => Sale!Bill(o))
         /\ PhaseMoves(o, "billed", "paid") /\ SameDue(o) /\ UNCHANGED bill =>
              (payment' = [payment EXCEPT ![o] = bill[o]] => Sale!Pay(o))
         /\ PhaseOf(o)' = PhaseOf(o) /\ SameDue(o) =>
              (UNCHANGED <<bill, payment>> => UNCHANGED Sale!vars)
<1> DEFINE phase == [p \in Orders |-> PhaseOf(p)]
           due   == [p \in Orders |-> order[p].total]
<1>1. \A p \in Orders \ {o} : /\ PhaseOf(p)' = PhaseOf(p)
                              /\ order'[p].total = order[p].total
                              /\ bill'[p] = bill[p] /\ payment'[p] = payment[p]
  BY OthersOfSale
<1>2. phase' = [p \in Orders |-> PhaseOf(p)'] /\ due' = [p \in Orders |-> order'[p].total]
  OBVIOUS
<1>3. phase' = [phase EXCEPT ![o] = PhaseOf(o)'] /\ phase[o] = PhaseOf(o)
  BY <1>1, <1>2
<1>4. Sale!Spares(o, due, due')
  BY <1>1, <1>2 DEF Sale!Spares
<1>5. Sale!Spares(o, bill, bill') /\ Sale!Spares(o, payment, payment')
  BY <1>1 DEF Sale!Spares
<1>6. SameDue(o) => due' = due
  BY <1>1, <1>2 DEF SameDue
<1>7. PhaseOf(o)' = PhaseOf(o) => phase' = phase
  BY <1>1, <1>2
<1>8. due[o] = order[o].total
  OBVIOUS
<1> HIDE DEF phase, due
<1>a. PhaseOf(o)' = "lost" => Sale!Lose(o)
  BY <1>3, <1>4, <1>5 DEF Sale!Lose, phase, due
<1>b. PhaseMoves(o, "none", "open") => (UNCHANGED <<bill, payment>> => Sale!Open(o))
  BY <1>3, <1>4 DEF Sale!Open, Sale!Moves, PhaseMoves, phase, due
<1>c. PhaseMoves(o, "open", "open") => (UNCHANGED <<bill, payment>> => Sale!Amend(o))
  BY <1>3, <1>4, <1>7 DEF Sale!Amend, PhaseMoves, phase, due
<1>d. PhaseMoves(o, "open", "void") /\ SameDue(o) =>
        (UNCHANGED <<bill, payment>> => Sale!Void(o))
  BY <1>3, <1>6 DEF Sale!Void, Sale!Moves, PhaseMoves, phase, due
<1>e. PhaseMoves(o, "open", "billed") /\ SameDue(o) /\ UNCHANGED payment =>
        (bill' = [bill EXCEPT ![o] = <<order[o].total>>] => Sale!Bill(o))
  BY <1>3, <1>6, <1>8 DEF Sale!Bill, Sale!Moves, PhaseMoves, phase, due
<1>f. PhaseMoves(o, "billed", "paid") /\ SameDue(o) /\ UNCHANGED bill =>
        (payment' = [payment EXCEPT ![o] = bill[o]] => Sale!Pay(o))
  BY <1>3, <1>6 DEF Sale!Pay, Sale!Moves, PhaseMoves, phase, due
<1>g. PhaseOf(o)' = PhaseOf(o) /\ SameDue(o) =>
        (UNCHANGED <<bill, payment>> => UNCHANGED Sale!vars)
  BY <1>6, <1>7 DEF Sale!vars, phase, due
<1> QED
  BY <1>a, <1>b, <1>c, <1>d, <1>e, <1>f, <1>g

(* Whoever works on order o spares the others.                             *)
LEMMA OneAtATime ==
  ASSUME TypeOK, Shapes, NEW o \in Orders, Creates(o) \/ \E d \in Desks : WorksOn(d, o)
  PROVE  \A p \in Orders \ {o} : Spared(p)
<1>1. CASE Creates(o)
  <2>1. PICK first \in SUBSET Items, n \in Discounts, room \in BOOLEAN :
               Create(o, first, n, room)
    BY <1>1 DEF Creates
  <2> QED
    BY <2>1, CreateFields
<1>2. ASSUME NEW d \in Desks, WorksOn(d, o) PROVE \A p \in Orders \ {o} : Spared(p)
  <2>1. (Proceed(d) \/ Abort(d)) /\ req[d].o = o
    BY <1>2 DEF WorksOn
  <2> QED
    BY <2>1, OthersAreSpared
<1> QED
  BY <1>1, <1>2

(* If nobody works on any order, the abstract till stutters.               *)
LEMMA AllSparedStutter ==
  ASSUME TypeOK, TypeOK', \A p \in Orders : Spared(p)
  PROVE  UNCHANGED Sale!vars
<1>1. \A p \in Orders : /\ PhaseOf(p)' = PhaseOf(p) /\ order'[p] = order[p]
                        /\ bill'[p] = bill[p] /\ payment'[p] = payment[p]
  BY SparedPhase DEF Spared
<1>2. UNCHANGED <<bill, payment>>
  BY <1>1 DEF TypeOK
<1>3. [p \in Orders |-> PhaseOf(p)]' = [p \in Orders |-> PhaseOf(p)]
  BY <1>1
<1>4. [p \in Orders |-> order[p].total]' = [p \in Orders |-> order[p].total]
  BY <1>1
<1> QED
  BY <1>2, <1>3, <1>4 DEF Sale!vars
LEMMA SaleStep ==
  ASSUME Basis, Basis', WorkOnOpen, BooksOK, BooksOK', [Next]_vars
  PROVE  [Sale!Next]_(Sale!vars)
<1> USE DEF Basis
<1>1. CASE \A p \in Orders : Spared(p)
  BY <1>1, AllSparedStutter
<1>2. ASSUME NEW o \in Orders, Creates(o) \/ \E d \in Desks : WorksOn(d, o)
      PROVE  Sale!Next \/ UNCHANGED Sale!vars
  <2> DEFINE Good == Sale!Next \/ UNCHANGED Sale!vars
  <2>1. \A p \in Orders \ {o} : Spared(p)
    BY <1>2, OneAtATime
  <2>2. PhaseTable(o)
    BY Phases DEF PhasesKnown
  <2>3. PhaseTable(o)'
    BY PhasesNext DEF PhasesKnown
  <2>4. CASE o \in stale' \cup cut'
    <3>1. PhaseOf(o)' = "lost"
      BY <2>3, <2>4 DEF PhaseTable, Sound
    <3>2. Sale!Lose(o)
      BY <2>1, <3>1, SaleSteps
    <3> QED
      BY <3>2 DEF Sale!Next
  <2>5. CASE o \notin stale' \cup cut'
    <3>s. Sound(o) /\ Sound(o)'
      BY <2>5, SoundBefore DEF Sound
    <3>u. ASSUME order'[o] = order[o], UNCHANGED <<bill, payment>>
          PROVE  Good
      <4>1. PhaseOf(o)' = PhaseOf(o)
        BY <2>2, <2>3, <3>s, <3>u DEF PhaseTable, TypeOK, OrderRow, OrderStatus
      <4>2. SameDue(o)
        BY <3>u DEF SameDue
      <4>3. UNCHANGED Sale!vars
        BY <2>1, <3>u, <4>1, <4>2, SaleSteps
      <4> QED
        BY <4>3
    <3>a. ASSUME order[o].status \in OpenStatus, order'[o].status \in OpenStatus,
                 UNCHANGED <<bill, payment>>
          PROVE  Good
      <4>1. PhaseMoves(o, "open", "open")
        BY <2>2, <2>3, <3>s, <3>a DEF PhaseTable, PhaseMoves
      <4>2. Sale!Amend(o)
        BY <2>1, <3>a, <4>1, SaleSteps
      <4> QED
        BY <4>2 DEF Sale!Next
    <3>1. CASE Creates(o)
      <4>1. /\ order[o].status = "FREE" /\ order'[o].status \in OpenStatus
            /\ UNCHANGED <<bill, payment>>
        BY <3>1, CreateFields DEF Creates, OpenStatus, books
      <4>2. PhaseMoves(o, "none", "open")
        BY <2>2, <2>3, <3>s, <4>1 DEF PhaseTable, PhaseMoves
      <4>3. Sale!Open(o)
        BY <2>1, <4>1, <4>2, SaleSteps
      <4> QED
        BY <4>3 DEF Sale!Next
    <3>2. ASSUME NEW d \in Desks, WorksOn(d, o) PROVE Good
      <4>1. req[d].o = o
        BY <3>2 DEF WorksOn
      <4>2. CASE SaveTotal(d) \/ SaveStatus(d)
        <5>1. Working(req[d], o)
          BY <4>1, <4>2 DEF SaveTotal, SaveStatus, Working
        <5>2. order[o].status \in OpenStatus
          BY <3>s, <5>1 DEF WorkOnOpen
        <5>3. order'[o].status = Derive(order[o].status, item, o) /\ UNCHANGED <<bill, payment>>
          BY <2>5, <4>1, <4>2, SavedTotal, SavedStatus DEF books
        <5>4. order'[o].status \in OpenStatus
          BY <5>2, <5>3, DeriveType DEF TypeOK, OrderRow
        <5> QED
          BY <3>a, <5>2, <5>3, <5>4
      <4>3. CASE WriteStatus(d)
        <5>1. /\ order'[o].status \in OpenStatus \cup {"CANCELLED"}
              /\ order[o].status \in OpenStatus
              /\ SameDue(o) /\ UNCHANGED <<bill, payment>>
          BY <2>5, <4>1, <4>3, WroteStatus DEF SameMoney, SameDue, books
        <5>2. CASE order'[o].status = "CANCELLED"
          <6>1. PhaseMoves(o, "open", "void")
            BY <2>2, <2>3, <3>s, <5>1, <5>2 DEF PhaseTable, PhaseMoves
          <6>2. Sale!Void(o)
            BY <2>1, <5>1, <6>1, SaleSteps
          <6> QED
            BY <6>2 DEF Sale!Next
        <5> QED
          BY <3>a, <5>1, <5>2
      <4>4. CASE Deduct(d) /\ ~ UNCHANGED <<order, item, bill, payment, stale, cut, byHand>>
        <5>1. /\ order'[o].status = "DELIVERED" /\ order'[o].paid = order[o].paid
              /\ SameDue(o) /\ order[o].status \in OpenStatus
              /\ bill' = [bill EXCEPT ![o] = Append(@, order[o].total)]
              /\ UNCHANGED payment
          BY <2>5, <4>1, <4>4, Deducted DEF SameMoney, SameDue
        <5>2. Unbilled(o)
          BY <3>s, <5>1 DEF BooksOK, OpenStatus
        <5>3. bill' = [bill EXCEPT ![o] = <<order[o].total>>]
          <6>1. Append(bill[o], order[o].total) = <<order[o].total>>
            BY <5>2 DEF Unbilled, TypeOK, OrderRow
          <6> QED
            BY <5>1, <6>1 DEF TypeOK
        <5>4. PhaseMoves(o, "open", "billed")
          BY <2>2, <2>3, <3>s, <5>1, <5>2 DEF PhaseTable, PhaseMoves, Unbilled
        <5>5. Sale!Bill(o)
          BY <2>1, <5>1, <5>3, <5>4, SaleSteps
        <5> QED
          BY <5>5 DEF Sale!Next
      <4>5. CASE CommitPayment(d)
        <5>1. /\ order'[o].paid /\ order'[o].status = order[o].status
              /\ SameDue(o) /\ order[o].status = "DELIVERED" /\ ~ order[o].paid
              /\ payment' = [payment EXCEPT ![o] = Append(@, order[o].total)]
              /\ UNCHANGED bill
          BY <2>5, <4>1, <4>5, PaymentTaken DEF SameMoney, SameDue
        <5>2. bill[o] = <<order[o].total>> /\ payment[o] = <<>>
          BY <3>s, <5>1 DEF BooksOK, Billed
        <5>3. payment' = [payment EXCEPT ![o] = bill[o]]
          <6>1. Append(payment[o], order[o].total) = <<order[o].total>>
            BY <5>2 DEF TypeOK, OrderRow
          <6> QED
            BY <5>1, <5>2, <6>1 DEF TypeOK
        <5>4. PhaseMoves(o, "billed", "paid")
          BY <2>2, <2>3, <3>s, <5>1 DEF PhaseTable, PhaseMoves
        <5>5. Sale!Pay(o)
          BY <2>1, <5>1, <5>3, <5>4, SaleSteps
        <5> QED
          BY <5>5 DEF Sale!Next
      <4>6. CASE Deduct(d) /\ UNCHANGED <<order, item, bill, payment, stale, cut, byHand>>
        BY <3>u, <4>6
      <4> QED
        BY <3>2, <3>u, <4>2, <4>3, <4>4, <4>5, <4>6
           DEF WorksOn, Proceed, WriteItem, WritePrep, ReadItems, ReadStatus, CheckStock,
               PostCharge, PostSale, Abort, books
    <3> QED
      BY <1>2, <3>1, <3>2
  <2> QED
    BY <2>4, <2>5
<1> QED
  BY <1>1, <1>2, WhoActs DEF LeavesAlone

(* Every order lives the life SaleLifecycle promises: it is billed once, at*)
(* delivery, for its total then, paid once for what was billed, never      *)
(* billed once cancelled, and its total changes while it is open only --   *)
(* unless a request wrote it on outdated reads or stopped midway.  Each    *)
(* step of the handlers is a step of SaleLifecycle or changes nothing.     *)
THEOREM TillKeepsItsPromise == Spec => ImplementsSale
<1>1. Init => WorkOnOpen
  <2>1. ASSUME Init, NEW d \in Desks, NEW o \in Orders PROVE ~ Working(req[d], o)
    BY <2>1, IdleFields DEF Init, Working
  <2> QED
    BY <2>1 DEF WorkOnOpen
<1>2. Init => BooksOK
  <2>1. ASSUME Init, NEW o \in Orders PROVE order[o].status # "DELIVERED" /\ Unbilled(o)
    BY <2>1, NoOrderYet DEF Init, Unbilled
  <2> QED
    BY <2>1 DEF BooksOK
<1>3. Init => Sale!Init
  <2> SUFFICES ASSUME Init PROVE Sale!Init
    OBVIOUS
  <2>1. \A o \in Orders : order[o].status = "FREE" /\ order[o].total = 0 /\ Sound(o)
    BY NoOrderYet DEF Init, Sound
  <2>2. \A o \in Orders : PhaseOf(o) = "none"
    BY <1>2, <2>1, BasisInit, Phases DEF Basis, PhasesKnown, PhaseTable
  <2>3. /\ [o \in Orders |-> PhaseOf(o)] = [o \in Orders |-> "none"]
        /\ [o \in Orders |-> order[o].total] = [o \in Orders |-> 0]
    BY <2>1, <2>2
  <2>4. bill = [o \in Orders |-> <<>>] /\ payment = [o \in Orders |-> <<>>]
    BY DEF Init
  <2> QED
    BY <2>3, <2>4 DEF Sale!Init
<1>4. Basis /\ WorkOnOpen /\ [Next]_vars => WorkOnOpen'
  BY WorkOnOpenStep
<1>5. Basis /\ WorkOnOpen /\ BooksOK /\ [Next]_vars => BooksOK'
  BY BooksStep
<1>6. Basis /\ Basis' /\ WorkOnOpen /\ BooksOK /\ BooksOK' /\ [Next]_vars
        => [Sale!Next]_(Sale!vars)
  BY SaleStep
<1> QED
  BY <1>1, <1>2, <1>3, <1>4, <1>5, <1>6, BasisHolds, PTL DEF Spec, ImplementsSale, Sale!Spec

-----------------------------------------------------------------------------
(***************************************************************************)
(* One request at a time: what it has read is what is there when it writes.*)
(***************************************************************************)
Serial == \A d, e \in Desks : d = e

Knows(q) ==
  /\ q.at \in {"write", "commit", "save"} \/ (q.at = "readItems" /\ q.op = "prep")
       => q.old = order[q.o]
  /\ q.at \in {"readStatus", "save", "commit"} \/ (q.at = "write" /\ q.op = "deliver")
       => q.its = ItemsOf(q.o)
  /\ q.at = "write" /\ q.op = "prep" => q.its[q.i].prep = item[q.i].prep
  /\ q.at = "commit" => Uses(QtyOf(q.its, q.o)) <= stock

Knowing == \A d \in Desks : Knows(req[d])

NeverStale == stale = {}
NeverShort == stock >= 0

LEMMA NobodyElse ==
  ASSUME Serial, NEW d \in Desks, NEW o
  PROVE  ~ Torn(d, o) /\ ~ Locked(d, o)
BY DEF Serial, Torn, Locked

LEMMA OnlyOne ==
  ASSUME Serial, TypeOK, NEW d \in Desks, NEW r, req' = [req EXCEPT ![d] = r], Knows(r)'
  PROVE  Knowing'
<1>1. \A e \in Desks : req'[e] = r
  BY DEF Serial, TypeOK
<1> QED
  BY <1>1 DEF Knowing, Knows

LEMMA DoneKnows ==
  ASSUME NEW r, r.at \in {"idle", "charge", "post"} \/ (r.at = "readItems" /\ r.op # "prep")
  PROVE  Knows(r)'
BY DEF Knows

LEMMA FinishKnows ==
  ASSUME Serial, TypeOK, NEW d \in Desks, Finish(d)
  PROVE  Knowing'
BY IdleFields, DoneKnows, OnlyOne DEF Finish

(* Reading: what a request begins with is what is there.                   *)
LEMMA KnowsBegin ==
  ASSUME Serial, TypeOK, NEW d \in Desks, NEW op \in AllOps, NEW o \in Orders,
         NEW q \in Request, Begin(d, op, o, q),
         op = "deliver" => q.its = ItemsOf(o),
         op = "prep" => q.its[q.i].prep = item[q.i].prep
  PROVE  Knowing'
<1>r. PICK r : r = [q EXCEPT !.op = op, !.at = "write", !.o = o, !.old = order[o]]
  OBVIOUS
<1>1. req' = [req EXCEPT ![d] = r] /\ UNCHANGED <<order, item, stock>>
  BY <1>r DEF Begin
<1>2. /\ r.op = op /\ r.at = "write" /\ r.o = o /\ r.old = order[o]
      /\ r.its = q.its /\ r.i = q.i
  BY <1>r DEF Request
<1>3. Knows(r)'
  BY <1>1, <1>2 DEF Knows, ItemsOf
<1> QED
  BY <1>1, <1>3, OnlyOne

LEMMA KnowsStart ==
  ASSUME Serial, TypeOK, NEW d \in Desks, Start(d)
  PROVE  Knowing'
<1>o. \A i \in Items : OrderOf[i] \in Orders
  BY PosAssumption
<1>1. ASSUME NEW i \in Items, BeginAdd(d, i) PROVE Knowing'
  <2> DEFINE q == [Idle EXCEPT !.i = i, !.qty = 1]
  <2>1. q \in Request
    BY DefaultTypes DEF Request
  <2>2. Begin(d, "add", OrderOf[i], q)
    BY <1>1 DEF BeginAdd
  <2> HIDE DEF q
  <2> QED
    BY <1>o, <2>1, <2>2, KnowsBegin DEF AllOps
<1>2. ASSUME NEW i \in Items, NEW n \in Quantities, BeginSetQty(d, i, n) PROVE Knowing'
  <2> DEFINE q == [Idle EXCEPT !.i = i, !.qty = n]
  <2>1. q \in Request
    BY PosAssumption, DefaultTypes DEF Request
  <2>2. Begin(d, "setQty", OrderOf[i], q)
    BY <1>2 DEF BeginSetQty
  <2> HIDE DEF q
  <2> QED
    BY <1>o, <2>1, <2>2, KnowsBegin DEF AllOps
<1>3. ASSUME NEW i \in Items, NEW s \in PrepStatus, BeginPrep(d, i, s) PROVE Knowing'
  <2> DEFINE q == [Idle EXCEPT !.i = i, !.want = s, !.its[i] = item[i]]
  <2>1. item[i] \in ItemRow
    BY DEF TypeOK
  <2>2. q \in Request /\ q.i = i /\ q.its[i] = item[i]
    BY <2>1, DefaultTypes DEF Request
  <2>3. Begin(d, "prep", OrderOf[i], q)
    BY <1>3 DEF BeginPrep
  <2> HIDE DEF q
  <2> QED
    BY <1>o, <2>2, <2>3, KnowsBegin DEF AllOps
<1>4. ASSUME NEW o \in Orders, NEW s \in OrderStatus, BeginStatus(d, o, s) PROVE Knowing'
  <2> DEFINE q == [Idle EXCEPT !.want = s]
  <2>1. q \in Request
    BY DefaultTypes DEF Request
  <2>2. Begin(d, "status", o, q)
    BY <1>4 DEF BeginStatus
  <2> HIDE DEF q
  <2> QED
    BY <2>1, <2>2, KnowsBegin DEF AllOps
<1>5. ASSUME NEW o \in Orders, BeginCancel(d, o) PROVE Knowing'
  <2> DEFINE q == [Idle EXCEPT !.want = "CANCELLED"]
  <2>1. q \in Request
    BY DefaultTypes DEF Request, OrderStatus
  <2>2. Begin(d, "cancel", o, q)
    BY <1>5 DEF BeginCancel
  <2> HIDE DEF q
  <2> QED
    BY <2>1, <2>2, KnowsBegin DEF AllOps
<1>6. ASSUME NEW o \in Orders, BeginDeliver(d, o) PROVE Knowing'
  <2> DEFINE q == [Idle EXCEPT !.its = ItemsOf(o)]
  <2>1. ItemsOf(o) \in [Items -> ItemRow]
    BY DefaultTypes DEF ItemsOf, TypeOK
  <2>2. q \in Request /\ q.its = ItemsOf(o)
    BY <2>1, DefaultTypes DEF Request
  <2>3. Begin(d, "deliver", o, q)
    BY <1>6 DEF BeginDeliver
  <2> HIDE DEF q
  <2> QED
    BY <2>2, <2>3, KnowsBegin DEF AllOps
<1>7. ASSUME NEW o \in Orders, BeginPay(d, o) PROVE Knowing'
  BY <1>7, DefaultTypes, KnowsBegin DEF BeginPay, AllOps
<1> QED
  BY <1>1, <1>2, <1>3, <1>4, <1>5, <1>6, <1>7 DEF Start

(* Writing: no write is marked, and a later one finds what this one left.  *)
LEMMA KnowsProceed ==
  ASSUME Serial, Basis, Knowing, NeverShort, NEW d \in Desks, Proceed(d)
  PROVE  Knowing' /\ stale' = stale /\ NeverShort'
<1>q. PICK q : q = req[d]
  OBVIOUS
<1>t. TypeOK /\ q \in Request /\ ShapeOK(q) /\ Knows(q) /\ q.o \in Orders
  BY <1>q DEF Basis, TypeOK, Shapes, Knowing, Request
<1>n. ~ Torn(d, q.o)
  BY NobodyElse
<1>m. \A o : Mark(stale, o, FALSE) = stale
  BY DEF Mark
<1>1. CASE WriteItem(d)
  <2>1. q.at = "write" /\ stock' = stock /\ (q.op = "add" \/ q.op = "setQty")
    BY <1>1, <1>q DEF WriteItem
  <2>2. q.old = order[q.o]
    BY <1>t, <2>1 DEF Knows
  <2>3. stale' = stale /\ (Finish(d) \/ Step(d, "readItems"))
    BY <1>1, <1>q, <1>n, <1>m, <2>2 DEF WriteItem
  <2>4. ASSUME Step(d, "readItems") PROVE Knowing'
    <3> DEFINE r == [q EXCEPT !.at = "readItems"]
    <3>1. req' = [req EXCEPT ![d] = r]
      BY <1>q, <2>4 DEF Step
    <3>2. r.at = "readItems" /\ r.op # "prep"
      BY <1>t, <2>1 DEF Request
    <3> HIDE DEF r
    <3> QED
      BY <1>t, <3>1, <3>2, DoneKnows, OnlyOne
  <2> QED
    BY <1>t, <2>1, <2>3, <2>4, FinishKnows DEF NeverShort
<1>2. CASE ReadItems(d)
  <2> DEFINE s == IF q.op = "prep" THEN "save" ELSE "readStatus"
  <2>r. PICK r : r = [q EXCEPT !.its = ItemsOf(q.o), !.at = s]
    OBVIOUS
  <2>1. q.at = "readItems" /\ UNCHANGED <<order, item, stock, stale>>
    BY <1>2, <1>q DEF ReadItems
  <2>2. req' = [req EXCEPT ![d] = r]
    BY <1>2, <1>q, <2>r DEF ReadItems
  <2>3. /\ r.its = ItemsOf(q.o) /\ r.o = q.o /\ r.at = s /\ r.op = q.op /\ r.old = q.old
    BY <1>t, <2>r DEF Request
  <2>4. q.op = "prep" => q.old = order[q.o]
    BY <1>t, <2>1 DEF Knows
  <2>5. Knows(r)'
    BY <2>1, <2>3, <2>4 DEF Knows, ItemsOf
  <2> QED
    BY <1>t, <2>1, <2>2, <2>5, OnlyOne DEF NeverShort
<1>3. CASE ReadStatus(d)
  <2>r. PICK r : r = [q EXCEPT !.old = order[q.o], !.at = "save"]
    OBVIOUS
  <2>1. q.at = "readStatus" /\ UNCHANGED <<order, item, stock, stale>>
    BY <1>3, <1>q DEF ReadStatus
  <2>2. req' = [req EXCEPT ![d] = r]
    BY <1>3, <1>q, <2>r DEF ReadStatus
  <2>3. /\ r.old = order[q.o] /\ r.o = q.o /\ r.at = "save" /\ r.its = q.its
    BY <1>t, <2>r DEF Request
  <2>4. q.its = ItemsOf(q.o)
    BY <1>t, <2>1 DEF Knows
  <2>5. Knows(r)'
    BY <2>1, <2>3, <2>4 DEF Knows, ItemsOf
  <2> QED
    BY <1>t, <2>1, <2>2, <2>5, OnlyOne DEF NeverShort
<1>4. CASE SaveTotal(d) \/ SaveStatus(d)
  <2>1. q.at = "save" /\ stock' = stock /\ Finish(d)
        /\ stale' = Mark(stale, q.o, Outdated(d))
    BY <1>4, <1>q DEF SaveTotal, SaveStatus
  <2>2. ~ Outdated(d)
    BY <1>q, <1>t, <1>n, <2>1 DEF Knows, Outdated
  <2> QED
    BY <1>t, <1>m, <2>1, <2>2, FinishKnows DEF NeverShort, Mark
<1>5. CASE WritePrep(d)
  <2>1. q.at = "write" /\ q.op = "prep" /\ UNCHANGED <<order, stock>>
    BY <1>5, <1>q DEF WritePrep
  <2>2. q.old = order[q.o] /\ q.its[q.i].prep = item[q.i].prep
    BY <1>t, <2>1 DEF Knows
  <2>3. stale' = stale /\ (Finish(d) \/ Step(d, "readItems"))
    BY <1>5, <1>q, <1>n, <1>m, <2>2 DEF WritePrep
  <2>4. ASSUME Step(d, "readItems") PROVE Knowing'
    <3> DEFINE r == [q EXCEPT !.at = "readItems"]
    <3>1. req' = [req EXCEPT ![d] = r]
      BY <1>q, <2>4 DEF Step
    <3>2. r.at = "readItems" /\ r.o = q.o /\ r.old = q.old
      BY <1>t DEF Request
    <3> HIDE DEF r
    <3>3. Knows(r)'
      BY <2>1, <2>2, <3>2 DEF Knows
    <3> QED
      BY <1>t, <3>1, <3>3, OnlyOne
  <2> QED
    BY <1>t, <2>1, <2>3, <2>4, FinishKnows DEF NeverShort
<1>6. CASE WriteStatus(d)
  <2>1. q.at = "write" /\ stock' = stock /\ Finish(d)
        /\ stale' = Mark(stale, q.o, order[q.o] # q.old \/ Torn(d, q.o))
    BY <1>6, <1>q DEF WriteStatus
  <2>2. q.old = order[q.o]
    BY <1>t, <2>1 DEF Knows
  <2> QED
    BY <1>t, <1>n, <2>1, <2>2, FinishKnows DEF NeverShort, Mark
<1>7. CASE CheckStock(d)
  <2>1. q.at = "write" /\ q.op = "deliver" /\ UNCHANGED <<order, item, stock, stale>>
    BY <1>7, <1>q DEF CheckStock
  <2>2. \/ Finish(d)
        \/ Uses(QtyOf(q.its, q.o)) <= stock /\ Step(d, "commit")
    BY <1>7, <1>q DEF CheckStock
  <2>3. ASSUME Uses(QtyOf(q.its, q.o)) <= stock, Step(d, "commit") PROVE Knowing'
    <3> DEFINE r == [q EXCEPT !.at = "commit"]
    <3>1. req' = [req EXCEPT ![d] = r]
      BY <1>q, <2>3 DEF Step
    <3>2. r.at = "commit" /\ r.o = q.o /\ r.old = q.old /\ r.its = q.its
      BY <1>t DEF Request
    <3>3. q.old = order[q.o] /\ q.its = ItemsOf(q.o)
      BY <1>t, <2>1 DEF Knows
    <3> HIDE DEF r
    <3>4. Knows(r)'
      BY <2>1, <2>3, <3>2, <3>3 DEF Knows, ItemsOf
    <3> QED
      BY <1>t, <3>1, <3>4, OnlyOne
  <2> QED
    BY <1>t, <2>1, <2>2, <2>3, FinishKnows DEF NeverShort
<1>8. CASE Deduct(d)
  <2> DEFINE needed == Uses(QtyOf(q.its, q.o))
  <2>1. q.at = "commit" /\ (Finish(d) \/ Step(d, "charge"))
    BY <1>8, <1>q DEF Deduct
  <2>2. q.old = order[q.o] /\ q.its = ItemsOf(q.o) /\ needed <= stock
    BY <1>t, <2>1 DEF Knows
  <2>3. needed \in Int /\ stock \in Int
    <3>1. q.its \in [Items -> ItemRow] /\ 0 \in Nat
      BY <1>t DEF Request
    <3> QED
      BY <1>t, <3>1, TotalType DEF TypeOK
  <2>4. ~ Outdated(d)
    BY <1>q, <1>n, <2>2 DEF Outdated
  <2> HIDE DEF needed
  <2>5. ~ (stock < needed)
    BY <2>2, <2>3
  <2>6. /\ stock' = stock \/ stock' = stock - needed
        /\ stale' = stale \/ stale' = Mark(stale, q.o, Outdated(d) \/ stock < needed)
    BY <1>8, <1>q DEF Deduct, needed
  <2>7. stale' = stale
    BY <2>4, <2>5, <2>6 DEF Mark
  <2>8. NeverShort'
    BY <2>2, <2>3, <2>6 DEF NeverShort
  <2>9. ASSUME Step(d, "charge") PROVE Knowing'
    <3> DEFINE r == [q EXCEPT !.at = "charge"]
    <3>1. req' = [req EXCEPT ![d] = r]
      BY <1>q, <2>9 DEF Step
    <3>2. r.at = "charge"
      BY <1>t DEF Request
    <3> HIDE DEF r
    <3> QED
      BY <1>t, <3>1, <3>2, DoneKnows, OnlyOne
  <2> QED
    BY <1>t, <2>1, <2>7, <2>8, <2>9, FinishKnows
<1>9. CASE PostCharge(d) \/ PostSale(d)
  BY <1>9, <1>t, FinishKnows DEF PostCharge, PostSale, NeverShort
<1>10. CASE CommitPayment(d)
  <2> DEFINE new == order'[q.o]
             r == [q EXCEPT !.at = "post", !.old = new]
  <2>1. q.at = "write" /\ stock' = stock
        /\ stale' = Mark(stale, q.o, order[q.o] # q.old \/ Torn(d, q.o))
    BY <1>10, <1>q DEF CommitPayment
  <2>2. q.old = order[q.o]
    BY <1>t, <2>1 DEF Knows
  <2>3. req' = [req EXCEPT ![d].at = "post", ![d].old = order'[q.o]]
    BY <1>10, <1>q DEF CommitPayment
  <2>4. PICK row : row = order'[q.o]
    OBVIOUS
  <2>5. \E w : req' = [req EXCEPT ![d] = w] /\ w.at = "post"
    <3> DEFINE w == [q EXCEPT !.at = "post", !.old = row]
    <3>1. req' = [req EXCEPT ![d] = w]
      BY <1>q, <1>t, <2>3, <2>4 DEF TypeOK
    <3>2. w.at = "post"
      BY <1>t DEF Request
    <3> HIDE DEF w
    <3> QED
      BY <3>1, <3>2
  <2> QED
    BY <1>t, <1>n, <2>1, <2>2, <2>5, DoneKnows, OnlyOne DEF NeverShort, Mark
<1> QED
  BY <1>1, <1>2, <1>3, <1>4, <1>5, <1>6, <1>7, <1>8, <1>9, <1>10 DEF Proceed

LEMMA KnowsStep ==
  ASSUME Serial, Basis, Knowing, NeverStale, NeverShort, [Next]_vars
  PROVE  Knowing' /\ NeverStale' /\ NeverShort'
<1>1. ASSUME NEW d \in Desks, Start(d)
      PROVE  Knowing' /\ NeverStale' /\ NeverShort'
  <2>1. UNCHANGED <<stock, stale>> /\ Knowing'
    BY <1>1, Starts, KnowsStart DEF Basis, Untouched
  <2> QED
    BY <2>1 DEF NeverStale, NeverShort
<1>2. ASSUME NEW d \in Desks, Proceed(d)
      PROVE  Knowing' /\ NeverStale' /\ NeverShort'
  BY <1>2, KnowsProceed DEF NeverStale
<1>3. ASSUME NEW d \in Desks, Abort(d)
      PROVE  Knowing' /\ NeverStale' /\ NeverShort'
  <2>1. Finish(d) /\ UNCHANGED <<stock, stale>>
    BY <1>3 DEF Abort
  <2> QED
    BY <2>1, FinishKnows DEF Basis, NeverStale, NeverShort
<1>4. ASSUME NEW o \in Orders, NEW first \in SUBSET Items, NEW n \in Discounts,
             NEW room \in BOOLEAN, Create(o, first, n, room)
      PROVE  Knowing' /\ NeverStale' /\ NeverShort'
  <2>1. /\ UNCHANGED <<stock, req, stale>> /\ order[o].status = "FREE"
        /\ \A p \in Orders \ {o} : Spared(p)
    BY <1>4, CreateFields DEF Basis
  <2>2. ASSUME NEW d \in Desks PROVE Knows(req[d])'
    <3>q. PICK q : q = req[d]
      OBVIOUS
    <3>1. q \in Request /\ ShapeOK(q) /\ Knows(q) /\ req'[d] = q
      BY <2>1, <3>q DEF Basis, TypeOK, Shapes, Knowing
    <3>2. CASE q.at = "idle"
      BY <3>1, <3>2, <3>q DEF Knows
    <3>3. CASE q.at # "idle"
      <4>1. q.o \in Orders \ {o}
        BY <2>1, <3>q, <3>1, <3>3 DEF Basis, RowBound, Free, Request
      <4>2. order'[q.o] = order[q.o] /\ SameItems(item, item', q.o)
        BY <2>1, <4>1 DEF Spared
      <4>3. ItemsOf(q.o)' = ItemsOf(q.o)
        BY <4>2 DEF ItemsOf, SameItems
      <4>4. q.op = "prep" => item'[q.i] = item[q.i]
        BY <3>1, <3>3, <4>2 DEF ShapeOK, ItemOps, SameItems, Request
      <4> QED
        BY <2>1, <3>1, <4>2, <4>3, <4>4 DEF Knows
    <3> QED
      BY <3>2, <3>3
  <2> QED
    BY <2>1, <2>2 DEF Knowing, NeverStale, NeverShort
<1>5. CASE UNCHANGED vars
  <2>1. UNCHANGED <<order, item, stock, req, stale>>
    BY <1>5 DEF vars
  <2> QED
    BY <2>1 DEF Knowing, Knows, ItemsOf, NeverStale, NeverShort
<1> QED
  BY <1>1, <1>2, <1>3, <1>4, <1>5 DEF Next

(* With one request at a time no handler of the till writes on outdated    *)
(* reads, whatever is ordered and prepared, and whatever fails: the stock  *)
(* is never negative, and the order follows its prep boards and its items  *)
(* but for requests that stopped midway.                                   *)
THEOREM SerialTillIsExact ==
  ASSUME Serial
  PROVE  Spec => [](NeverStale /\ NeverShort /\ BoardFollowsPrep /\ TotalFollowsItems)
<1>1. Init => Knowing /\ NeverStale /\ NeverShort
  <2>1. Init => NeverStale /\ NeverShort
    BY PosAssumption DEF Init, NeverStale, NeverShort
  <2>2. Init => Knowing
    BY IdleFields DEF Init, Knowing, Knows
  <2> QED
    BY <2>1, <2>2
<1>2. Basis /\ Knowing /\ NeverStale /\ NeverShort /\ [Next]_vars
        => Knowing' /\ NeverStale' /\ NeverShort'
  BY KnowsStep
<1> QED
  BY <1>1, <1>2, BasisHolds, StatusIsOfBoards, TotalIsOfItems, PTL DEF Spec
=============================================================================
