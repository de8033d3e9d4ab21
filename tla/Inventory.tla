----------------------------- MODULE Inventory -----------------------------
(***************************************************************************)
(* inventory.service.ts: what is in store, the movements that explain it   *)
(* and the low-stock alert, with the deliveries of the till, which take    *)
(* stock in a transaction of their own.  Each handler reads the item first,*)
(* decides on what it read and writes later; a movement increments the     *)
(* quantity in the database, an edit writes a number.                      *)
(***************************************************************************)
EXTENDS Integers

CONSTANTS Items,
          Amounts,    \* what one movement or delivery brings or takes
          Quantities, \* quantities typed into the form of an item
          Minimums,   \* minStock typed into it
          Keep,       \* a field the form leaves out
          MaxStock,   \* bound: no goods arrive beyond it
          Desks,      \* request slots: how many requests may overlap
          Ops         \* the endpoints called

AllOps == {"create", "update", "move", "deliver", "remove"}

ASSUME InventoryAssumption ==
  /\ Items # {}
  /\ Amounts \subseteq Nat \ {0}
  /\ Quantities \subseteq Nat /\ Minimums \subseteq Nat
  /\ Minimums # {}
  /\ Keep \notin Nat
  /\ MaxStock \in Nat
  /\ Ops \subseteq AllOps

VARIABLES
  item,    \* inventory item rows
  booked,  \* the sum of an item's stock movements, and whether it has any
  told,    \* low items whose alert went out since they became low
  sold,    \* low items that a delivery made low
  req,     \* requests in flight
  byHand,  \* history: items whose quantity was typed in
  lost,    \* history: items whose quantity was written back outdated
  stale,   \* history: items written on an outdated reading
  cut      \* history: items a request left before its last step

vars == <<item, booked, told, sold, req, byHand, lost, stale, cut>>
history == <<byHand, lost, stale, cut>>

(* linked: a product of the till names the item as an ingredient.          *)
Row    == [there : BOOLEAN, qty : Int, min : Nat, linked : BOOLEAN]
NoRow  == [there |-> FALSE, qty |-> 0, min |-> 0, linked |-> FALSE]
Books  == [any : BOOLEAN, sum : Int]
NoBooks == [any |-> FALSE, sum |-> 0]

Request == [op : AllOps, at : {"idle", "write", "opening", "alert"}, k : Items,
            old : Row, delta : Int,
            qty : Quantities \cup {Keep}, min : Minimums \cup {Keep}]

Idle == [op |-> "move", at |-> "idle", k |-> CHOOSE k \in Items : TRUE,
         old |-> NoRow, delta |-> 0, qty |-> Keep, min |-> Keep]

Free(d)   == req[d].at = "idle"
Finish(d) == req' = [req EXCEPT ![d] = Idle]
Busy(k)   == \E d \in Desks : ~ Free(d) /\ req[d].k = k

(* isLowStock().                                                           *)
Low(row) == row.there /\ row.qty <= row.min

(* Faulty variant: the old quantity is held against the new minimum.       *)
AlertDueOldQuantity(old, new) == ~ (old.there /\ old.qty <= new.min) /\ Low(new)

(* maybeDispatchLowInventoryNotification(): the item became low.           *)
AlertDue(old, new) == ~ Low(old) /\ Low(new)

(* The items of set that are still low; the rest start anew.               *)
StillLow(set) == {k \in set : Low(item'[k])}

Mark(set, k, yes) == IF yes THEN set \cup {k} ELSE set

(* findFirst() of the item.                                                *)
Begin(d, op, k, q) ==
  /\ op \in Ops
  /\ Free(d)
  /\ item[k].there
  /\ req' = [req EXCEPT ![d] = [q EXCEPT !.op = op, !.at = "write", !.k = k,
                                         !.old = item[k]]]
  /\ UNCHANGED <<item, booked, told, sold, history>>

(* The handler goes on to the alert if one is due, from old to new.        *)
Written(d, k, old, new) ==
  IF AlertDue(old, new)
  THEN req' = [req EXCEPT ![d] = [Idle EXCEPT !.op = req[d].op, !.at = "alert", !.k = k]]
  ELSE Finish(d)

(***************************************************************************)
(* create(): the row, then the movement of its opening stock.              *)
(***************************************************************************)
Create(d, k, qty, min) ==
  LET row == [there |-> TRUE, qty |-> qty, min |-> min, linked |-> FALSE]
  IN  /\ "create" \in Ops
      /\ Free(d)
      /\ ~ item[k].there /\ ~ Busy(k)
      /\ item' = [item EXCEPT ![k] = row]
      /\ IF qty > 0
         THEN req' = [req EXCEPT ![d] = [Idle EXCEPT !.op = "create", !.at = "opening",
                                                     !.k = k, !.old = row]]
         ELSE Written(d, k, NoRow, row)
      /\ byHand' = byHand \ {k} /\ lost' = lost \ {k}
      /\ stale' = stale \ {k} /\ cut' = cut \ {k}
      /\ UNCHANGED <<booked, told, sold>>

RecordOpening(d) ==
  LET q == req[d]
  IN  /\ q.at = "opening"
      /\ IF item[q.k].there
         THEN /\ booked' = [booked EXCEPT ![q.k] = [any |-> TRUE, sum |-> @.sum + q.old.qty]]
              /\ Written(d, q.k, NoRow, q.old)
         ELSE Finish(d) /\ UNCHANGED booked
      /\ UNCHANGED <<item, told, sold, history>>

(***************************************************************************)
(* update(): every column is written, with the value read if the form left *)
(* the field out.                                                          *)
(***************************************************************************)
(* Faulty variant: the two numbers of the form are swapped.                *)
BeginUpdateSwapped(d, k, qty, min) ==
  Begin(d, "update", k, [Idle EXCEPT !.qty = min, !.min = qty])

BeginUpdate(d, k, qty, min) ==
  Begin(d, "update", k, [Idle EXCEPT !.qty = qty, !.min = min])

(* Faulty variant: a field that was left out is written as zero.           *)
GivenOrZero(field, otherwise) == IF field = Keep THEN 0 ELSE field

Given(field, otherwise) == IF field = Keep THEN otherwise ELSE field

WriteUpdate(d) ==
  LET q == req[d]
      row == [item[q.k] EXCEPT !.qty = Given(q.qty, q.old.qty),
                               !.min = Given(q.min, q.old.min)]
  IN  /\ q.op = "update" /\ q.at = "write"
      /\ IF item[q.k].there
         THEN /\ item' = [item EXCEPT ![q.k] = row]
              /\ Written(d, q.k, q.old, row)
              /\ byHand' = Mark(byHand, q.k, q.qty # Keep)
              /\ lost' = Mark(lost, q.k, q.qty = Keep /\ q.old.qty # item[q.k].qty)
              /\ stale' = Mark(stale, q.k, q.old # item[q.k])
              /\ told' = StillLow(told) /\ sold' = StillLow(sold)
         ELSE Finish(d) /\ UNCHANGED <<item, told, sold, byHand, lost, stale>>
      /\ UNCHANGED <<booked, cut>>

(***************************************************************************)
(* recordMovement(), and the till's fulfillOrder(): the quantity read is   *)
(* enough, then one transaction writes the row and the movement.           *)
(***************************************************************************)
Deltas == [IN |-> Amounts, ADJUSTMENT |-> Amounts,
           OUT |-> {-n : n \in Amounts}, WASTAGE |-> {-n : n \in Amounts}]

(* Faulty variant: wastage is not checked.                                 *)
BeginMoveWasted(d, k, type, delta) ==
  /\ delta \in Deltas[type]
  /\ type = "OUT" => item[k].qty + delta >= 0
  /\ item[k].qty + delta <= MaxStock
  /\ Begin(d, "move", k, [Idle EXCEPT !.delta = delta])

BeginMove(d, k, type, delta) ==
  /\ delta \in Deltas[type]
  /\ item[k].qty + delta \in 0..MaxStock
  /\ Begin(d, "move", k, [Idle EXCEPT !.delta = delta])

BeginDeliver(d, k, n) ==
  /\ item[k].linked
  /\ item[k].qty >= n
  /\ Begin(d, "deliver", k, [Idle EXCEPT !.delta = -n])

CommitMovement(d) ==
  LET q == req[d]
      row == [item[q.k] EXCEPT !.qty = @ + q.delta]
  IN  /\ q.op = "move" /\ q.at = "write"
      /\ IF item[q.k].there
         THEN /\ item' = [item EXCEPT ![q.k] = row]
              /\ booked' = [booked EXCEPT ![q.k] = [any |-> TRUE, sum |-> @.sum + q.delta]]
              /\ Written(d, q.k, q.old, row)
              /\ stale' = Mark(stale, q.k, q.old # item[q.k])
              /\ told' = StillLow(told) /\ sold' = StillLow(sold)
         ELSE Finish(d) /\ UNCHANGED <<item, booked, told, sold, stale>>
      /\ UNCHANGED <<byHand, lost, cut>>

(* A delivery sends no alert.                                              *)
CommitDelivery(d) ==
  LET q == req[d]
      row == [item[q.k] EXCEPT !.qty = @ + q.delta]
  IN  /\ q.op = "deliver" /\ q.at = "write"
      /\ IF item[q.k].there
         THEN /\ item' = [item EXCEPT ![q.k] = row]
              /\ booked' = [booked EXCEPT ![q.k] = [any |-> TRUE, sum |-> @.sum + q.delta]]
              /\ stale' = Mark(stale, q.k, q.old # item[q.k])
              /\ told' = StillLow(told)
              /\ sold' = StillLow(Mark(sold, q.k, AlertDue(item[q.k], row)))
         ELSE UNCHANGED <<item, booked, told, sold, stale>>
      /\ Finish(d)
      /\ UNCHANGED <<byHand, lost, cut>>

(***************************************************************************)
(* remove(): refused for an ingredient; PostgreSQL refuses to delete a row *)
(* that a movement or a product points to.                                 *)
(***************************************************************************)
BeginRemove(d, k) == ~ item[k].linked /\ Begin(d, "remove", k, Idle)

Delete(d) ==
  LET k == req[d].k
  IN  /\ req[d].op = "remove" /\ req[d].at = "write"
      /\ IF item[k].there /\ ~ item[k].linked /\ ~ booked[k].any
         THEN /\ item' = [item EXCEPT ![k] = NoRow]
              /\ told' = told \ {k} /\ sold' = sold \ {k}
         ELSE UNCHANGED <<item, told, sold>>
      /\ Finish(d)
      /\ UNCHANGED <<booked, history>>

(* The alert goes out.                                                     *)
Dispatch(d) ==
  LET k == req[d].k
  IN  /\ req[d].at = "alert"
      /\ told' = Mark(told, k, Low(item[k]))
      /\ Finish(d)
      /\ UNCHANGED <<item, booked, sold, history>>

(* A query fails, the process stops, or the alert is refused, which is     *)
(* caught: what was written stays, the rest is not done.                   *)
Abort(d) ==
  LET k == req[d].k
  IN  /\ ~ Free(d)
      /\ cut' = Mark(cut, k, req[d].at # "write")
      /\ Finish(d)
      /\ UNCHANGED <<item, booked, told, sold, byHand, lost, stale>>

(* pos-products.service.ts: an ingredient list names the item, or no more. *)
SetIngredient(k, linked) ==
  /\ item[k].there
  /\ item' = [item EXCEPT ![k].linked = linked]
  /\ UNCHANGED <<booked, told, sold, req, history>>

-----------------------------------------------------------------------------
Init ==
  /\ item = [k \in Items |-> NoRow]
  /\ booked = [k \in Items |-> NoBooks]
  /\ told = {} /\ sold = {}
  /\ req = [d \in Desks |-> Idle]
  /\ byHand = {} /\ lost = {} /\ stale = {} /\ cut = {}

Start(d) ==
  \E k \in Items :
    \/ \E qty \in Quantities, min \in Minimums : Create(d, k, qty, min)
    \/ \E qty \in Quantities \cup {Keep}, min \in Minimums \cup {Keep} :
         BeginUpdate(d, k, qty, min)
    \/ \E type \in DOMAIN Deltas : \E delta \in Deltas[type] : BeginMove(d, k, type, delta)
    \/ \E n \in Amounts : BeginDeliver(d, k, n)
    \/ BeginRemove(d, k)

Proceed(d) ==
  \/ RecordOpening(d) \/ WriteUpdate(d)
  \/ CommitMovement(d) \/ CommitDelivery(d)
  \/ Delete(d) \/ Dispatch(d)

Next ==
  \/ \E d \in Desks : Start(d) \/ Proceed(d) \/ Abort(d)
  \/ \E k \in Items, linked \in BOOLEAN : SetIngredient(k, linked)

Spec == Init /\ [][Next]_vars

-----------------------------------------------------------------------------
(* Every row and every request has the shape the code gives it.            *)
TypeOK ==
  /\ item \in [Items -> Row]
  /\ booked \in [Items -> Books]
  /\ told \subseteq Items /\ sold \subseteq Items
  /\ req \in [Desks -> Request]
  /\ byHand \subseteq Items /\ lost \subseteq Items
  /\ stale \subseteq Items /\ cut \subseteq Items

Opening(d, k) == req[d].at = "opening" /\ req[d].k = k

(* What is in store is what its movements add up to, however movements and *)
(* deliveries overlap, until somebody types another quantity in, or saves  *)
(* the form of an item that moved meanwhile.                               *)
QuantityIsBooked ==
  \A k \in Items \ (byHand \cup lost \cup cut) :
    \/ item[k].qty = booked[k].sum
    \/ \E d \in Desks : Opening(d, k)

(* Nobody takes more than there is, unless the stock had changed since it  *)
(* was looked at.                                                          *)
NeverOverdrawn == \A k \in Items \ stale : item[k].qty >= 0

Alerting(d, k) == req[d].at \in {"opening", "alert"} /\ req[d].k = k

(* An item that is low has been reported since it became low, whichever    *)
(* change made it so, save for deliveries, which report nothing, and for   *)
(* changes that overlapped.                                                *)
LowStockTold ==
  \A k \in Items \ (stale \cup cut) :
    Low(item[k]) => k \in told \cup sold \/ \E d \in Desks : Alerting(d, k)
=============================================================================
