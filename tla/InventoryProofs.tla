-------------------------- MODULE InventoryProofs --------------------------
(***************************************************************************)
(* Proofs about Inventory: for any number of items and overlapping         *)
(* requests, the stock is the sum of its movements, nobody overdraws it and*)
(* an item that is low was reported, but for the races the module names.   *)
(***************************************************************************)
EXTENDS Inventory, TLAPS

(* An id without a row has no movements, and no movements sum to nothing.  *)
BooksOK ==
  \A k \in Items :
    /\ ~ item[k].there => item[k].qty = 0 /\ ~ booked[k].any
    /\ ~ booked[k].any => booked[k].sum = 0

(* A request that takes stock has seen enough of it.                       *)
SawEnough ==
  \A d \in Desks :
    req[d].at = "write" /\ req[d].op \in {"move", "deliver"}
      => req[d].old.qty + req[d].delta >= 0

(* The opening stock of an item is the only movement not in the books.     *)
OpeningMissing ==
  \A d \in Desks :
    req[d].at = "opening" =>
      /\ req[d].old.there /\ req[d].old.qty >= 0
      /\ \A e \in Desks : Opening(e, req[d].k) => e = d
      /\ item[req[d].k].there /\ req[d].k \notin byHand \cup lost \cup cut
           => item[req[d].k].qty = booked[req[d].k].sum + req[d].old.qty

Reporting(d, k) ==
  /\ req[d].k = k
  /\ \/ req[d].at = "alert"
     \/ req[d].at = "opening" /\ Low(req[d].old)

(* LowStockTold, with the opening that will report told from the others.   *)
LowIsReported ==
  \A k \in Items \ (stale \cup cut) :
    Low(item[k]) => k \in told \cup sold \/ \E d \in Desks : Reporting(d, k)

Sums == BooksOK /\ OpeningMissing /\ QuantityIsBooked

Inv == TypeOK /\ Sums /\ SawEnough /\ NeverOverdrawn /\ LowIsReported

-----------------------------------------------------------------------------
LEMMA IdleType == Idle \in Request
BY InventoryAssumption DEF Idle, Request, AllOps, NoRow, Row

LEMMA InitInv == Init => Inv
<1> SUFFICES ASSUME Init PROVE Inv
  OBVIOUS
<1>1. /\ \A k \in Items : item[k] = NoRow /\ booked[k] = NoBooks
      /\ \A d \in Desks : req[d].at = "idle"
  BY DEF Init, Idle
<1>2. TypeOK
  BY IdleType, InventoryAssumption DEF Init, TypeOK, NoRow, NoBooks, Row, Books
<1>3. Sums
  BY <1>1 DEF Sums, BooksOK, OpeningMissing, QuantityIsBooked, NoRow, NoBooks
<1>4. SawEnough /\ NeverOverdrawn /\ LowIsReported
  BY <1>1 DEF SawEnough, NeverOverdrawn, LowIsReported, Low, NoRow
<1> QED
  BY <1>2, <1>3, <1>4 DEF Inv

(* After a write the request ends, or goes on to the alert that is due.    *)
LEMMA WrittenEnds ==
  ASSUME TypeOK, NEW d \in Desks, NEW k \in Items, NEW old, NEW new, Written(d, k, old, new)
  PROVE  \E q \in Request :
           /\ req' = [req EXCEPT ![d] = q]
           /\ q.at \in {"idle", "alert"}
           /\ AlertDue(old, new) => q.at = "alert" /\ q.k = k
<1> DEFINE q == IF AlertDue(old, new)
                THEN [Idle EXCEPT !.op = req[d].op, !.at = "alert", !.k = k]
                ELSE Idle
<1>1. q \in Request
  BY IdleType DEF TypeOK, Request
<1>2. req' = [req EXCEPT ![d] = q]
  BY DEF Written, Finish
<1>3. /\ q.at \in {"idle", "alert"}
      /\ AlertDue(old, new) => q.at = "alert" /\ q.k = k
  BY IdleType DEF Idle, Request
<1> QED
  BY <1>1, <1>2, <1>3

-----------------------------------------------------------------------------
(* A request that has only read leaves everything else as it was.          *)
LEMMA BeginInv ==
  ASSUME Inv, NEW d \in Desks, NEW op \in AllOps, NEW k \in Items, NEW q \in Request,
         Begin(d, op, k, q),
         op \in {"move", "deliver"} => item[k].qty + q.delta >= 0
  PROVE  Inv'
<1> DEFINE r == [q EXCEPT !.op = op, !.at = "write", !.k = k, !.old = item[k]]
<1>1. /\ req' = [req EXCEPT ![d] = r]
      /\ UNCHANGED <<item, booked, told, sold, byHand, lost, stale, cut>>
      /\ req[d].at = "idle"
  BY DEF Begin, Free, history
<1>2. r \in Request /\ r.at = "write" /\ r.op = op /\ r.old = item[k] /\ r.delta = q.delta
  BY DEF Request, Inv, TypeOK
<1> HIDE DEF r
<1>3. TypeOK'
  BY <1>1, <1>2 DEF Inv, TypeOK
<1>4. Sums'
  BY <1>1, <1>2 DEF Inv, Sums, TypeOK, BooksOK, OpeningMissing, QuantityIsBooked, Opening
<1>5. SawEnough'
  BY <1>1, <1>2 DEF Inv, SawEnough, TypeOK
<1>6. NeverOverdrawn' /\ LowIsReported'
  BY <1>1, <1>2 DEF Inv, NeverOverdrawn, LowIsReported, Reporting, Low, TypeOK
<1> QED
  BY <1>3, <1>4, <1>5, <1>6 DEF Inv

(* A request ends and leaves everything else as it was: it had written      *)
(* nothing, or the item of its opening stock is gone.                      *)
LEMMA NothingDone ==
  ASSUME Inv, NEW d \in Desks,
         req' = [req EXCEPT ![d] = Idle],
         UNCHANGED <<item, booked, told, sold, byHand, lost, stale, cut>>,
         req[d].at = "write" \/ (req[d].at = "opening" /\ ~ item[req[d].k].there)
  PROVE  Inv'
<1>1. Idle \in Request /\ Idle.at = "idle"
  BY IdleType DEF Idle
<1>2. TypeOK'
  BY <1>1 DEF Inv, TypeOK
<1>3. Sums'
  BY <1>1 DEF Inv, Sums, BooksOK, OpeningMissing, QuantityIsBooked, Opening, TypeOK
<1>4. SawEnough' /\ NeverOverdrawn'
  BY <1>1 DEF Inv, SawEnough, NeverOverdrawn, TypeOK
<1>5. LowIsReported'
  BY <1>1 DEF Inv, LowIsReported, Reporting, Low, TypeOK
<1> QED
  BY <1>2, <1>3, <1>4, <1>5 DEF Inv

(* A new item: its opening stock is what is missing from its books.        *)
LEMMA CreateInv ==
  ASSUME Inv, NEW d \in Desks, NEW k \in Items, NEW qty \in Quantities,
         NEW min \in Minimums, Create(d, k, qty, min)
  PROVE  Inv'
<1> DEFINE row == [there |-> TRUE, qty |-> qty, min |-> min, linked |-> FALSE]
<1>1. row \in Row /\ row.there /\ row.qty = qty /\ row.qty >= 0
  BY InventoryAssumption DEF Row
<1>2. /\ item' = [item EXCEPT ![k] = row]
      /\ UNCHANGED <<booked, told, sold>>
      /\ byHand' = byHand \ {k} /\ lost' = lost \ {k}
      /\ stale' = stale \ {k} /\ cut' = cut \ {k}
      /\ ~ item[k].there /\ req[d].at = "idle"
      /\ \A e \in Desks : req[e].at = "idle" \/ req[e].k # k
  BY DEF Create, Busy, Free
<1>3. PICK q \in Request :
        /\ req' = [req EXCEPT ![d] = q]
        /\ q.at \in {"idle", "opening", "alert"}
        /\ q.at = "opening" => q.k = k /\ q.old = row /\ qty > 0
        /\ qty > 0 => q.at = "opening"
        /\ Low(row) /\ ~ (qty > 0) => q.at = "alert" /\ q.k = k
  <2>1. CASE qty > 0
    <3> DEFINE q == [Idle EXCEPT !.op = "create", !.at = "opening", !.k = k, !.old = row]
    <3>1. q \in Request /\ q.at = "opening" /\ q.k = k /\ q.old = row
      BY <1>1, IdleType DEF Request, AllOps
    <3>2. req' = [req EXCEPT ![d] = q]
      BY <2>1 DEF Create
    <3> HIDE DEF q, row
    <3> QED
      BY <2>1, <3>1, <3>2
  <2>2. CASE ~ (qty > 0)
    <3>1. Written(d, k, NoRow, row)
      BY <2>2 DEF Create
    <3>2. PICK q \in Request :
            /\ req' = [req EXCEPT ![d] = q]
            /\ q.at \in {"idle", "alert"}
            /\ AlertDue(NoRow, row) => q.at = "alert" /\ q.k = k
      BY <3>1, WrittenEnds DEF Inv
    <3>3. Low(row) => AlertDue(NoRow, row)
      BY DEF AlertDue, Low, NoRow
    <3> QED
      BY <2>2, <3>2, <3>3
  <2> QED
    BY <2>1, <2>2
<1> HIDE DEF row
<1>4. TypeOK'
  BY <1>1, <1>2, <1>3 DEF Inv, TypeOK
<1>5. BooksOK'
  BY <1>1, <1>2 DEF Inv, Sums, BooksOK, TypeOK
<1>6. booked[k].sum = 0
  BY <1>2 DEF Inv, Sums, BooksOK
<1>7. OpeningMissing'
  BY <1>1, <1>2, <1>3, <1>6, InventoryAssumption DEF Inv, Sums, OpeningMissing, Opening, TypeOK, Row
<1>8. QuantityIsBooked'
  BY <1>1, <1>2, <1>3, <1>6, InventoryAssumption
     DEF Inv, Sums, QuantityIsBooked, Opening, TypeOK
<1>9. SawEnough'
  BY <1>3 DEF Inv, SawEnough, TypeOK
<1>10. NeverOverdrawn'
  BY <1>1, <1>2 DEF Inv, NeverOverdrawn, TypeOK
<1>11. LowIsReported'
  BY <1>1, <1>2, <1>3, InventoryAssumption DEF Inv, LowIsReported, Reporting, Low, TypeOK
<1> QED
  BY <1>4, <1>5, <1>7, <1>8, <1>9, <1>10, <1>11 DEF Inv, Sums

LEMMA RecordOpeningInv ==
  ASSUME Inv, NEW d \in Desks, RecordOpening(d)
  PROVE  Inv'
<1> DEFINE k == req[d].k  old == req[d].old
<1>1. /\ UNCHANGED <<item, told, sold, byHand, lost, stale, cut>>
      /\ req[d].at = "opening" /\ k \in Items /\ old \in Row /\ old.there
      /\ req[d] \in Request
  BY DEF RecordOpening, Inv, TypeOK, Request, history, Sums, OpeningMissing
<1>2. CASE item[k].there
  <2>1. booked' = [booked EXCEPT ![k] = [any |-> TRUE, sum |-> @.sum + old.qty]]
    BY <1>2 DEF RecordOpening
  <2>2. PICK q \in Request :
          /\ req' = [req EXCEPT ![d] = q]
          /\ q.at \in {"idle", "alert"}
          /\ Low(old) => q.at = "alert" /\ q.k = k
    <3>1. Written(d, k, NoRow, old)
      BY <1>2 DEF RecordOpening
    <3>2. Low(old) => AlertDue(NoRow, old)
      BY DEF AlertDue, Low, NoRow
    <3> QED
      BY <1>1, <3>1, <3>2, WrittenEnds DEF Inv
  <2>3. TypeOK'
    BY <1>1, <2>1, <2>2 DEF Inv, TypeOK, Books, Row
  <2>4. BooksOK'
    BY <1>1, <1>2, <2>1 DEF Inv, Sums, BooksOK, TypeOK
  <2>5. \A e \in Desks \ {d} : req[e].at = "opening" => req[e].k # k
    BY <1>1 DEF Inv, Sums, OpeningMissing, Opening
  <2>6. OpeningMissing'
    BY <1>1, <2>1, <2>2, <2>5 DEF Inv, Sums, OpeningMissing, Opening, TypeOK
  <2>7. QuantityIsBooked'
    BY <1>1, <1>2, <2>1, <2>2, <2>5
       DEF Inv, Sums, OpeningMissing, QuantityIsBooked, Opening, TypeOK, Books, Row
  <2>8. SawEnough' /\ NeverOverdrawn'
    BY <1>1, <2>2 DEF Inv, SawEnough, NeverOverdrawn, TypeOK
  <2>9. LowIsReported'
    BY <1>1, <2>2 DEF Inv, LowIsReported, Reporting, Low, TypeOK
  <2> QED
    BY <2>3, <2>4, <2>6, <2>7, <2>8, <2>9 DEF Inv, Sums
<1>3. CASE ~ item[k].there
  BY <1>1, <1>3, NothingDone DEF RecordOpening, Finish
<1> QED
  BY <1>2, <1>3

(* An edit writes back the quantity it read, or marks the item.            *)
LEMMA WriteUpdateInv ==
  ASSUME Inv, NEW d \in Desks, WriteUpdate(d)
  PROVE  Inv'
<1> DEFINE k == req[d].k
           q0 == req[d]
           row == [item[k] EXCEPT !.qty = Given(q0.qty, q0.old.qty),
                                  !.min = Given(q0.min, q0.old.min)]
<1>1. /\ UNCHANGED <<booked, cut>>
      /\ q0.at = "write" /\ q0.op = "update" /\ k \in Items /\ q0 \in Request
  BY DEF WriteUpdate, Inv, TypeOK, Request
<1>2. q0.old.qty \in Int /\ q0.old.min \in Nat
  BY <1>1 DEF Request, Row
<1>3. /\ q0.qty # Keep => q0.qty \in Nat
      /\ q0.min # Keep => q0.min \in Nat
  <2>1. q0.qty \in Quantities \cup {Keep} /\ q0.min \in Minimums \cup {Keep}
    BY <1>1 DEF Request
  <2>2. Quantities \subseteq Nat /\ Minimums \subseteq Nat
    BY InventoryAssumption
  <2> QED
    BY <2>1, <2>2, Zenon
<1>4. CASE item[k].there
  <2>1. /\ item' = [item EXCEPT ![k] = row]
        /\ byHand' = Mark(byHand, k, q0.qty # Keep)
        /\ lost' = Mark(lost, k, q0.qty = Keep /\ q0.old.qty # item[k].qty)
        /\ stale' = Mark(stale, k, q0.old # item[k])
        /\ told' = StillLow(told) /\ sold' = StillLow(sold)
    BY <1>4 DEF WriteUpdate
  <2>2. PICK q \in Request :
          /\ req' = [req EXCEPT ![d] = q]
          /\ q.at \in {"idle", "alert"}
          /\ AlertDue(q0.old, row) => q.at = "alert" /\ q.k = k
    <3>1. Written(d, k, q0.old, row)
      BY <1>4 DEF WriteUpdate
    <3> QED
      BY <1>1, <3>1, WrittenEnds DEF Inv
  <2>3. /\ row \in Row /\ row.there
        /\ row.qty = Given(q0.qty, q0.old.qty) /\ row.min = Given(q0.min, q0.old.min)
    <3>1. Given(q0.qty, q0.old.qty) \in Int /\ Given(q0.min, q0.old.min) \in Nat
      BY <1>2, <1>3 DEF Given
    <3> QED
      BY <1>1, <1>4, <3>1 DEF Inv, TypeOK, Row
  <2> HIDE DEF row
  <2>4. TypeOK'
    BY <1>1, <2>1, <2>2, <2>3 DEF Inv, TypeOK, Mark, StillLow
  <2>5. k \notin byHand' \cup lost' => row.qty = item[k].qty
    BY <2>1, <2>3 DEF Mark, Given
  <2>6. BooksOK'
    BY <1>1, <1>4, <2>1, <2>3 DEF Inv, Sums, BooksOK, TypeOK
  <2>7. OpeningMissing'
    BY <1>1, <1>4, <2>1, <2>2, <2>3, <2>5
       DEF Inv, Sums, OpeningMissing, Opening, TypeOK, Mark
  <2>8. QuantityIsBooked'
    BY <1>1, <2>1, <2>2, <2>5 DEF Inv, Sums, QuantityIsBooked, Opening, TypeOK, Mark
  <2>9. SawEnough'
    BY <2>2 DEF Inv, SawEnough, TypeOK
  <2>10. NeverOverdrawn'
    <3>1. k \notin stale' => row.qty >= 0
      <4>1. q0.qty # Keep => q0.qty >= 0
        BY <1>3
      <4>2. k \notin stale' => q0.old.qty >= 0
        BY <1>1, <2>1 DEF Inv, NeverOverdrawn, Mark
      <4> QED
        BY <2>3, <4>1, <4>2 DEF Given
    <3> QED
      BY <2>1, <3>1 DEF Inv, NeverOverdrawn, TypeOK, Mark
  <2>11. LowIsReported'
    <3>1. k \notin stale' => q0.old = item[k] /\ k \notin stale
      BY <2>1 DEF Mark
    <3>2. k \notin stale' /\ Low(row) /\ ~ Low(item[k]) => q.at = "alert" /\ q.k = k
      BY <2>2, <3>1 DEF AlertDue
    <3>3. \A j \in Items : Low(item'[j]) /\ j \in told \cup sold => j \in told' \cup sold'
      BY <2>1 DEF StillLow
    <3> QED
      BY <1>1, <2>1, <2>2, <3>1, <3>2, <3>3
         DEF Inv, LowIsReported, Reporting, TypeOK, Mark
  <2> QED
    BY <2>4, <2>6, <2>7, <2>8, <2>9, <2>10, <2>11 DEF Inv, Sums
<1>5. CASE ~ item[k].there
  BY <1>1, <1>5, NothingDone DEF WriteUpdate, Finish
<1> QED
  BY <1>4, <1>5

-----------------------------------------------------------------------------
(* What is common to the two transactions that move stock: the row and the *)
(* books change by the same amount, and the request goes on to q.          *)
LEMMA MovedInv ==
  ASSUME Inv, NEW d \in Desks, NEW k \in Items, NEW row, NEW q \in Request,
         req[d].at = "write", req[d].op \in {"move", "deliver"}, req[d].k = k,
         item[k].there,
         row = [item[k] EXCEPT !.qty = @ + req[d].delta],
         item' = [item EXCEPT ![k] = row],
         booked' = [booked EXCEPT ![k] = [any |-> TRUE, sum |-> @.sum + req[d].delta]],
         stale' = Mark(stale, k, req[d].old # item[k]),
         req' = [req EXCEPT ![d] = q], q.at \in {"idle", "alert"},
         told' = StillLow(told), sold' \subseteq Items,
         \A j \in Items : j \in sold /\ Low(item'[j]) => j \in sold',
         k \notin stale' /\ AlertDue(item[k], row) => k \in sold' \/ (q.at = "alert" /\ q.k = k),
         UNCHANGED <<byHand, lost, cut>>
  PROVE  Inv'
<1>1. /\ row \in Row /\ row.there /\ req[d].delta \in Int
      /\ row.qty = item[k].qty + req[d].delta
  BY DEF Inv, TypeOK, Row, Request
<1>2. TypeOK'
  BY <1>1 DEF Inv, TypeOK, Books, Mark, StillLow
<1>3. BooksOK'
  BY <1>1 DEF Inv, Sums, BooksOK, TypeOK
<1>4. OpeningMissing'
  BY <1>1 DEF Inv, Sums, OpeningMissing, Opening, TypeOK, Row, Books, Request
<1>5. QuantityIsBooked'
  BY <1>1 DEF Inv, Sums, QuantityIsBooked, Opening, TypeOK, Row, Books
<1>6. SawEnough'
  BY DEF Inv, SawEnough, TypeOK
<1>7. NeverOverdrawn'
  BY <1>1 DEF Inv, NeverOverdrawn, SawEnough, TypeOK, Mark
<1>8. LowIsReported'
  <2>1. \A j \in Items : Low(item'[j]) /\ j \in told \cup sold => j \in told' \cup sold'
    BY DEF StillLow
  <2>2. k \notin stale' => k \notin stale
    BY DEF Mark
  <2>3. k \notin stale' /\ Low(row) /\ ~ Low(item[k]) => k \in sold' \/ (q.at = "alert" /\ q.k = k)
    BY DEF AlertDue
  <2> QED
    BY <1>1, <2>1, <2>2, <2>3 DEF Inv, LowIsReported, Reporting, TypeOK, Mark
<1> QED
  BY <1>2, <1>3, <1>4, <1>5, <1>6, <1>7, <1>8 DEF Inv, Sums

LEMMA CommitMovementInv ==
  ASSUME Inv, NEW d \in Desks, CommitMovement(d)
  PROVE  Inv'
<1> DEFINE k == req[d].k
           row == [item[k] EXCEPT !.qty = @ + req[d].delta]
<1>1. req[d].at = "write" /\ req[d].op = "move" /\ k \in Items
  BY DEF CommitMovement, Inv, TypeOK, Request
<1>2. CASE item[k].there
  <2>1. Written(d, k, req[d].old, row)
    BY <1>2 DEF CommitMovement
  <2>2. PICK q \in Request :
          /\ req' = [req EXCEPT ![d] = q]
          /\ q.at \in {"idle", "alert"}
          /\ AlertDue(req[d].old, row) => q.at = "alert" /\ q.k = k
    BY <1>1, <2>1, WrittenEnds DEF Inv
  <2>3. /\ item' = [item EXCEPT ![k] = row]
        /\ booked' = [booked EXCEPT ![k] = [any |-> TRUE, sum |-> @.sum + req[d].delta]]
        /\ stale' = Mark(stale, k, req[d].old # item[k])
        /\ told' = StillLow(told) /\ sold' = StillLow(sold)
        /\ UNCHANGED <<byHand, lost, cut>>
    BY <1>2 DEF CommitMovement
  <2>4. k \notin stale' => req[d].old = item[k]
    BY <2>3 DEF Mark
  <2>5. sold' \subseteq Items /\ \A j \in Items : j \in sold /\ Low(item'[j]) => j \in sold'
    BY <2>3 DEF StillLow, Inv, TypeOK
  <2> QED
    BY <1>1, <1>2, <2>2, <2>3, <2>4, <2>5, MovedInv
<1>3. CASE ~ item[k].there
  BY <1>1, <1>3, NothingDone DEF CommitMovement, Finish
<1> QED
  BY <1>2, <1>3

LEMMA CommitDeliveryInv ==
  ASSUME Inv, NEW d \in Desks, CommitDelivery(d)
  PROVE  Inv'
<1> DEFINE k == req[d].k
           row == [item[k] EXCEPT !.qty = @ + req[d].delta]
<1>1. req[d].at = "write" /\ req[d].op = "deliver" /\ k \in Items
  BY DEF CommitDelivery, Inv, TypeOK, Request
<1>2. CASE item[k].there
  <2>1. /\ item' = [item EXCEPT ![k] = row]
        /\ booked' = [booked EXCEPT ![k] = [any |-> TRUE, sum |-> @.sum + req[d].delta]]
        /\ stale' = Mark(stale, k, req[d].old # item[k])
        /\ told' = StillLow(told)
        /\ sold' = StillLow(Mark(sold, k, AlertDue(item[k], row)))
        /\ req' = [req EXCEPT ![d] = Idle]
        /\ UNCHANGED <<byHand, lost, cut>>
    BY <1>2 DEF CommitDelivery, Finish
  <2>2. PICK q \in Request : req' = [req EXCEPT ![d] = q] /\ q.at \in {"idle", "alert"}
    BY <2>1, IdleType DEF Idle
  <2>3. /\ sold' \subseteq Items
        /\ \A j \in Items : j \in sold /\ Low(item'[j]) => j \in sold'
        /\ AlertDue(item[k], row) => k \in sold'
    BY <1>1, <2>1 DEF StillLow, Mark, AlertDue, Inv, TypeOK
  <2>4. told' = StillLow(told) /\ UNCHANGED <<byHand, lost, cut>>
    BY <2>1
  <2>5. /\ item' = [item EXCEPT ![k] = row]
        /\ booked' = [booked EXCEPT ![k] = [any |-> TRUE, sum |-> @.sum + req[d].delta]]
        /\ stale' = Mark(stale, k, req[d].old # item[k])
    BY <2>1
  <2> QED
    BY <1>1, <1>2, <2>2, <2>3, <2>4, <2>5, MovedInv
<1>3. CASE ~ item[k].there
  BY <1>1, <1>3, NothingDone DEF CommitDelivery, Finish
<1> QED
  BY <1>2, <1>3

-----------------------------------------------------------------------------
(* A row without movements goes, and with it what was said of the item.    *)
LEMMA DeleteInv ==
  ASSUME Inv, NEW d \in Desks, Delete(d)
  PROVE  Inv'
<1> DEFINE k == req[d].k
<1>1. /\ req[d].at = "write" /\ k \in Items
      /\ req' = [req EXCEPT ![d] = Idle]
      /\ UNCHANGED <<booked, byHand, lost, stale, cut>>
  BY DEF Delete, Finish, history, Inv, TypeOK, Request
<1>2. Idle \in Request /\ Idle.at = "idle"
  BY IdleType DEF Idle
<1>3. CASE item[k].there /\ ~ item[k].linked /\ ~ booked[k].any
  <2>1. item' = [item EXCEPT ![k] = NoRow] /\ told' = told \ {k} /\ sold' = sold \ {k}
    BY <1>3 DEF Delete
  <2>2. TypeOK'
    BY <1>1, <1>2, <2>1 DEF Inv, TypeOK, NoRow, Row
  <2>3. Sums'
    BY <1>1, <1>2, <1>3, <2>1
       DEF Inv, Sums, BooksOK, OpeningMissing, QuantityIsBooked, Opening, TypeOK, NoRow
  <2>4. SawEnough' /\ NeverOverdrawn'
    BY <1>1, <1>2, <2>1 DEF Inv, SawEnough, NeverOverdrawn, TypeOK, NoRow
  <2>5. LowIsReported'
    BY <1>1, <1>2, <2>1 DEF Inv, LowIsReported, Reporting, Low, TypeOK, NoRow
  <2> QED
    BY <2>2, <2>3, <2>4, <2>5 DEF Inv
<1>4. CASE ~ (item[k].there /\ ~ item[k].linked /\ ~ booked[k].any)
  <2>1. UNCHANGED <<item, booked, told, sold, byHand, lost, stale, cut>>
    BY <1>1, <1>4 DEF Delete
  <2>2. req' = [req EXCEPT ![d] = Idle]
    BY <1>1
  <2>3. req[d].at = "write" \/ (req[d].at = "opening" /\ ~ item[req[d].k].there)
    BY <1>1
  <2> HIDE DEF k
  <2> QED
    BY <2>1, <2>2, <2>3, NothingDone
<1> QED
  BY <1>3, <1>4

LEMMA DispatchInv ==
  ASSUME Inv, NEW d \in Desks, Dispatch(d)
  PROVE  Inv'
<1> DEFINE k == req[d].k
<1>1. /\ req[d].at = "alert" /\ k \in Items
      /\ told' = Mark(told, k, Low(item[k]))
      /\ req' = [req EXCEPT ![d] = Idle]
      /\ UNCHANGED <<item, booked, sold, byHand, lost, stale, cut>>
  BY DEF Dispatch, Finish, history, Inv, TypeOK, Request
<1>2. Idle \in Request /\ Idle.at = "idle"
  BY IdleType DEF Idle
<1>3. TypeOK'
  BY <1>1, <1>2 DEF Inv, TypeOK, Mark
<1>4. Sums'
  BY <1>1, <1>2 DEF Inv, Sums, BooksOK, OpeningMissing, QuantityIsBooked, Opening, TypeOK
<1>5. SawEnough' /\ NeverOverdrawn'
  BY <1>1, <1>2 DEF Inv, SawEnough, NeverOverdrawn, TypeOK
<1>6. LowIsReported'
  BY <1>1, <1>2 DEF Inv, LowIsReported, Reporting, Low, TypeOK, Mark
<1> QED
  BY <1>3, <1>4, <1>5, <1>6 DEF Inv

LEMMA AbortInv ==
  ASSUME Inv, NEW d \in Desks, Abort(d)
  PROVE  Inv'
<1> DEFINE k == req[d].k
<1>1. /\ req[d].at # "idle" /\ k \in Items
      /\ cut' = Mark(cut, k, req[d].at # "write")
      /\ req' = [req EXCEPT ![d] = Idle]
      /\ UNCHANGED <<item, booked, told, sold, byHand, lost, stale>>
  BY DEF Abort, Free, Finish, Inv, TypeOK, Request
<1>2. Idle \in Request /\ Idle.at = "idle"
  BY IdleType DEF Idle
<1>3. TypeOK'
  BY <1>1, <1>2 DEF Inv, TypeOK, Mark
<1>4. Sums'
  BY <1>1, <1>2
     DEF Inv, Sums, BooksOK, OpeningMissing, QuantityIsBooked, Opening, TypeOK, Mark
<1>5. SawEnough' /\ NeverOverdrawn'
  BY <1>1, <1>2 DEF Inv, SawEnough, NeverOverdrawn, TypeOK
<1>6. LowIsReported'
  BY <1>1, <1>2 DEF Inv, LowIsReported, Reporting, Low, TypeOK, Mark
<1> QED
  BY <1>3, <1>4, <1>5, <1>6 DEF Inv

LEMMA SetIngredientInv ==
  ASSUME Inv, NEW k \in Items, NEW linked \in BOOLEAN, SetIngredient(k, linked)
  PROVE  Inv'
<1>1. /\ item' = [item EXCEPT ![k].linked = linked]
      /\ UNCHANGED <<booked, told, sold, req, byHand, lost, stale, cut>>
  BY DEF SetIngredient, history
<1>2. TypeOK'
  BY <1>1 DEF Inv, TypeOK, Row
<1>3. \A j \in Items : /\ item'[j].there = item[j].there
                       /\ item'[j].qty = item[j].qty
                       /\ Low(item'[j]) = Low(item[j])
  BY <1>1 DEF Inv, TypeOK, Row, Low
<1>4. Sums'
  BY <1>1, <1>3 DEF Inv, Sums, BooksOK, OpeningMissing, QuantityIsBooked, Opening, TypeOK, Request
<1>5. SawEnough' /\ NeverOverdrawn' /\ LowIsReported'
  BY <1>1, <1>3 DEF Inv, SawEnough, NeverOverdrawn, LowIsReported, Reporting, Low
<1> QED
  BY <1>2, <1>4, <1>5 DEF Inv

-----------------------------------------------------------------------------
LEMMA StartInv ==
  ASSUME Inv, NEW d \in Desks, Start(d)
  PROVE  Inv'
<1>1. PICK k \in Items :
        \/ \E qty \in Quantities, min \in Minimums : Create(d, k, qty, min)
        \/ \E qty \in Quantities \cup {Keep}, min \in Minimums \cup {Keep} :
             BeginUpdate(d, k, qty, min)
        \/ \E type \in DOMAIN Deltas : \E delta \in Deltas[type] : BeginMove(d, k, type, delta)
        \/ \E n \in Amounts : BeginDeliver(d, k, n)
        \/ BeginRemove(d, k)
  BY DEF Start
<1>2. CASE \E qty \in Quantities, min \in Minimums : Create(d, k, qty, min)
  BY <1>2, CreateInv
<1>3. ASSUME NEW qty \in Quantities \cup {Keep}, NEW min \in Minimums \cup {Keep},
             BeginUpdate(d, k, qty, min)
      PROVE  Inv'
  <2>1. [Idle EXCEPT !.qty = qty, !.min = min] \in Request
    BY IdleType DEF Request
  <2> QED
    BY <1>3, <2>1, BeginInv DEF BeginUpdate, AllOps
<1>4. ASSUME NEW type \in DOMAIN Deltas, NEW delta \in Deltas[type], BeginMove(d, k, type, delta)
      PROVE  Inv'
  <2>1. delta \in Int
    BY InventoryAssumption DEF Deltas
  <2>2. [Idle EXCEPT !.delta = delta] \in Request /\ item[k].qty + delta >= 0
    BY <1>4, <2>1, IdleType, InventoryAssumption DEF BeginMove, Request
  <2>3. [Idle EXCEPT !.delta = delta].delta = delta
    BY DEF Idle
  <2> QED
    BY <1>4, <2>2, <2>3, BeginInv DEF BeginMove, AllOps
<1>5. ASSUME NEW n \in Amounts, BeginDeliver(d, k, n)
      PROVE  Inv'
  <2>1. -n \in Int /\ item[k].qty + (-n) >= 0
    BY <1>5, InventoryAssumption DEF BeginDeliver, Inv, TypeOK, Row
  <2>2. [Idle EXCEPT !.delta = -n] \in Request /\ [Idle EXCEPT !.delta = -n].delta = -n
    BY <2>1, IdleType DEF Request, Idle
  <2> QED
    BY <1>5, <2>1, <2>2, BeginInv DEF BeginDeliver, AllOps
<1>6. CASE BeginRemove(d, k)
  BY <1>6, IdleType, BeginInv DEF BeginRemove, AllOps
<1> QED
  BY <1>1, <1>2, <1>3, <1>4, <1>5, <1>6

LEMMA NextInv == Inv /\ [Next]_vars => Inv'
<1> SUFFICES ASSUME Inv, [Next]_vars PROVE Inv'
  OBVIOUS
<1>1. CASE UNCHANGED vars
  BY <1>1 DEF vars, history, Inv, Sums, TypeOK, BooksOK, SawEnough, OpeningMissing,
              QuantityIsBooked, NeverOverdrawn, LowIsReported, Reporting, Opening, Low
<1>2. ASSUME NEW d \in Desks, Start(d) PROVE Inv'
  BY <1>2, StartInv
<1>3. ASSUME NEW d \in Desks, Proceed(d) PROVE Inv'
  BY <1>3, RecordOpeningInv, WriteUpdateInv, CommitMovementInv, CommitDeliveryInv, DeleteInv,
     DispatchInv DEF Proceed
<1>4. ASSUME NEW d \in Desks, Abort(d) PROVE Inv'
  BY <1>4, AbortInv
<1>5. ASSUME NEW k \in Items, NEW linked \in BOOLEAN, SetIngredient(k, linked) PROVE Inv'
  BY <1>5, SetIngredientInv
<1> QED
  BY <1>1, <1>2, <1>3, <1>4, <1>5 DEF Next

(* The inductive invariant holds in every reachable state.                 *)
THEOREM Invariant == Spec => []Inv
<1> QED
  BY InitInv, NextInv, PTL DEF Spec

(* Every reachable state has the types of the rows and requests.           *)
THEOREM Types == Spec => []TypeOK
<1>1. Inv => TypeOK
  BY DEF Inv
<1> QED
  BY <1>1, Invariant, PTL

(* However movements and deliveries overlap, an item's quantity is the sum *)
(* of its movements until somebody types a quantity in, saves an outdated  *)
(* form or leaves the opening movement out.                                *)
THEOREM StockIsBooked == Spec => []QuantityIsBooked
<1>1. Inv => QuantityIsBooked
  BY DEF Inv, Sums
<1> QED
  BY <1>1, Invariant, PTL

(* Nobody takes more than there is, save on an outdated reading: the       *)
(* checks of recordMovement() and fulfillOrder() are enough by themselves. *)
THEOREM StockIsThere == Spec => []NeverOverdrawn
<1>1. Inv => NeverOverdrawn
  BY DEF Inv
<1> QED
  BY <1>1, Invariant, PTL

(* An item that is low has been reported, or is about to be, but for       *)
(* deliveries and changes that overlapped.                                 *)
THEOREM LowIsTold == Spec => []LowStockTold
<1>1. Inv => LowStockTold
  BY DEF Inv, LowIsReported, LowStockTold, Reporting, Alerting
<1> QED
  BY <1>1, Invariant, PTL
-----------------------------------------------------------------------------
(* With one request at a time the quantity read is the quantity there.     *)
Serial == \A d, e \in Desks : d = e

ReadNow ==
  \A d \in Desks :
    req[d].at = "write" => /\ item[req[d].k].there
                          /\ item[req[d].k].qty = req[d].old.qty

NeverShort == lost = {} /\ \A k \in Items : item[k].qty >= 0

LEMMA EndsRead ==
  ASSUME Serial, TypeOK, NEW d \in Desks, NEW q, req' = [req EXCEPT ![d] = q],
         q.at # "write"
  PROVE  ReadNow'
BY DEF Serial, TypeOK, ReadNow

LEMMA SerialStep ==
  ASSUME Serial, TypeOK, SawEnough, ReadNow, NeverShort, [Next]_vars
  PROVE  ReadNow' /\ NeverShort'
<1>i. Idle.at = "idle" /\ Idle \in Request
  BY IdleType DEF Idle
<1>1. ASSUME NEW d \in Desks, NEW op, NEW k \in Items, NEW q \in Request, Begin(d, op, k, q)
      PROVE  ReadNow' /\ NeverShort'
  <2> DEFINE r == [q EXCEPT !.op = op, !.at = "write", !.k = k, !.old = item[k]]
  <2>1. /\ req' = [req EXCEPT ![d] = r] /\ UNCHANGED <<item, lost>> /\ item[k].there
    BY <1>1 DEF Begin, history
  <2>2. r.k = k /\ r.old = item[k]
    BY DEF Request
  <2> HIDE DEF r
  <2> QED
    BY <2>1, <2>2 DEF Serial, TypeOK, ReadNow, NeverShort
<1>2. ASSUME NEW d \in Desks, Start(d)
      PROVE  ReadNow' /\ NeverShort'
  <2>1. ASSUME NEW k \in Items, NEW qty \in Quantities, NEW min \in Minimums,
               Create(d, k, qty, min)
        PROVE  ReadNow' /\ NeverShort'
    <3> DEFINE row == [there |-> TRUE, qty |-> qty, min |-> min, linked |-> FALSE]
    <3>1. item' = [item EXCEPT ![k] = row] /\ lost' = lost \ {k} /\ row.qty >= 0
      BY <2>1, InventoryAssumption DEF Create
    <3>2. PICK q : req' = [req EXCEPT ![d] = q] /\ q.at # "write"
      <4>1. CASE qty > 0
        <5> DEFINE q == [Idle EXCEPT !.op = "create", !.at = "opening", !.k = k, !.old = row]
        <5>1. req' = [req EXCEPT ![d] = q]
          BY <2>1, <4>1 DEF Create
        <5>2. q.at = "opening"
          BY DEF Idle
        <5> HIDE DEF q, row
        <5> QED
          BY <5>1, <5>2
      <4>2. CASE ~ (qty > 0)
        BY <2>1, <4>2, WrittenEnds DEF Create
      <4> QED
        BY <4>1, <4>2
    <3> HIDE DEF row
    <3> QED
      BY <3>1, <3>2, EndsRead DEF NeverShort, TypeOK
  <2>2. ASSUME NEW k \in Items, NEW qty \in Quantities \cup {Keep},
               NEW min \in Minimums \cup {Keep}, BeginUpdate(d, k, qty, min)
        PROVE  ReadNow' /\ NeverShort'
    <3>1. [Idle EXCEPT !.qty = qty, !.min = min] \in Request
      BY <1>i DEF Request
    <3> QED
      BY <1>1, <2>2, <3>1 DEF BeginUpdate
  <2>3. ASSUME NEW delta \in Int, NEW k \in Items, NEW op,
               Begin(d, op, k, [Idle EXCEPT !.delta = delta])
        PROVE  ReadNow' /\ NeverShort'
    <3>1. [Idle EXCEPT !.delta = delta] \in Request
      BY <1>i DEF Request
    <3> QED
      BY <1>1, <2>3, <3>1
  <2>4. ASSUME NEW k \in Items, NEW type \in DOMAIN Deltas, NEW delta \in Deltas[type],
               BeginMove(d, k, type, delta)
        PROVE  ReadNow' /\ NeverShort'
    BY <2>3, <2>4, InventoryAssumption DEF BeginMove, Deltas
  <2>5. ASSUME NEW k \in Items, NEW n \in Amounts, BeginDeliver(d, k, n)
        PROVE  ReadNow' /\ NeverShort'
    BY <2>3, <2>5, InventoryAssumption DEF BeginDeliver
  <2>6. ASSUME NEW k \in Items, BeginRemove(d, k)
        PROVE  ReadNow' /\ NeverShort'
    BY <1>i, <1>1, <2>6 DEF BeginRemove
  <2> QED
    BY <1>2, <2>1, <2>2, <2>4, <2>5, <2>6 DEF Start
<1>3. ASSUME NEW d \in Desks, NEW q, req' = [req EXCEPT ![d] = q], q.at # "write",
             UNCHANGED <<item, lost>>
      PROVE  ReadNow' /\ NeverShort'
  BY <1>3, EndsRead DEF NeverShort
<1>4. ASSUME NEW d \in Desks, NEW k \in Items, NEW old, NEW new, Written(d, k, old, new)
      PROVE  \E q : req' = [req EXCEPT ![d] = q] /\ q.at # "write"
  BY <1>4, WrittenEnds
<1>5. ASSUME NEW d \in Desks, RecordOpening(d)
      PROVE  ReadNow' /\ NeverShort'
  <2>1. req[d].k \in Items /\ UNCHANGED <<item, lost>>
    BY <1>5 DEF RecordOpening, history, TypeOK, Request
  <2>2. \E q : req' = [req EXCEPT ![d] = q] /\ q.at # "write"
    <3>1. CASE item[req[d].k].there
      BY <1>4, <1>5, <2>1, <3>1 DEF RecordOpening
    <3>2. CASE ~ item[req[d].k].there
      BY <1>i, <1>5, <3>2 DEF RecordOpening, Finish
    <3> QED
      BY <3>1, <3>2
  <2> QED
    BY <1>3, <2>1, <2>2
<1>6. ASSUME NEW d \in Desks, WriteUpdate(d)
      PROVE  ReadNow' /\ NeverShort'
  <2>q. PICK q0 : q0 = req[d]
    OBVIOUS
  <2> DEFINE k == q0.k
             row == [item[k] EXCEPT !.qty = Given(q0.qty, q0.old.qty),
                                    !.min = Given(q0.min, q0.old.min)]
  <2>1. /\ q0 \in Request /\ k \in Items /\ item[k].there /\ item[k].qty = q0.old.qty
        /\ item[k] \in Row
    BY <1>6, <2>q DEF WriteUpdate, TypeOK, Request, ReadNow
  <2>2. /\ item' = [item EXCEPT ![k] = row]
        /\ lost' = Mark(lost, k, q0.qty = Keep /\ q0.old.qty # item[k].qty)
        /\ Written(d, k, q0.old, row)
    BY <1>6, <2>q, <2>1 DEF WriteUpdate
  <2>3. row.qty >= 0
    <3>1. row.qty = Given(q0.qty, q0.old.qty)
      BY <2>1 DEF Row
    <3>2. q0.qty = Keep \/ q0.qty \in Nat
      BY <2>1, InventoryAssumption DEF Request
    <3>3. q0.old.qty >= 0
      BY <2>1 DEF NeverShort
    <3> QED
      BY <3>1, <3>2, <3>3 DEF Given
  <2> HIDE DEF row
  <2>4. NeverShort'
    BY <2>1, <2>2, <2>3 DEF NeverShort, Mark, TypeOK
  <2>5. ReadNow'
    BY <1>4, <2>1, <2>2, EndsRead
  <2> QED
    BY <2>4, <2>5
<1>7. ASSUME NEW d \in Desks, CommitMovement(d) \/ CommitDelivery(d)
      PROVE  ReadNow' /\ NeverShort'
  <2>q. PICK q0 : q0 = req[d]
    OBVIOUS
  <2> DEFINE k == q0.k
             row == [item[k] EXCEPT !.qty = @ + q0.delta]
  <2>1. /\ q0 \in Request /\ k \in Items /\ item[k].there /\ item[k].qty = q0.old.qty
        /\ item[k] \in Row /\ q0.old.qty + q0.delta >= 0
    BY <1>7, <2>q DEF CommitMovement, CommitDelivery, TypeOK, Request, ReadNow, SawEnough
  <2>2. item' = [item EXCEPT ![k] = row] /\ lost' = lost
    BY <1>7, <2>q, <2>1 DEF CommitMovement, CommitDelivery
  <2>3. \E q : req' = [req EXCEPT ![d] = q] /\ q.at # "write"
    <3>1. CASE CommitMovement(d)
      BY <1>4, <2>q, <2>1, <3>1 DEF CommitMovement
    <3>2. CASE CommitDelivery(d)
      BY <1>i, <3>2 DEF CommitDelivery, Finish
    <3> QED
      BY <1>7, <3>1, <3>2
  <2>4. row.qty >= 0
    BY <2>1 DEF Row
  <2> HIDE DEF row
  <2>5. NeverShort'
    BY <2>1, <2>2, <2>4 DEF NeverShort, TypeOK
  <2> QED
    BY <2>3, <2>5, EndsRead
<1>8. ASSUME NEW d \in Desks, Delete(d)
      PROVE  ReadNow' /\ NeverShort'
  <2>1. /\ req' = [req EXCEPT ![d] = Idle] /\ lost' = lost /\ req[d].k \in Items
        /\ item' = [item EXCEPT ![req[d].k] = NoRow] \/ item' = item
    BY <1>8 DEF Delete, Finish, history, TypeOK, Request
  <2>2. NeverShort'
    BY <2>1 DEF NeverShort, TypeOK, NoRow
  <2> QED
    BY <1>i, <2>1, <2>2, EndsRead
<1>9. ASSUME NEW d \in Desks, Dispatch(d) \/ Abort(d)
      PROVE  ReadNow' /\ NeverShort'
  BY <1>i, <1>3, <1>9 DEF Dispatch, Abort, Finish, history
<1>10. ASSUME NEW k \in Items, NEW linked \in BOOLEAN, SetIngredient(k, linked)
       PROVE  ReadNow' /\ NeverShort'
  <2>1. /\ item' = [item EXCEPT ![k].linked = linked] /\ req' = req /\ lost' = lost
    BY <1>10 DEF SetIngredient, history
  <2>2. \A j \in Items : item'[j].there = item[j].there /\ item'[j].qty = item[j].qty
    BY <2>1 DEF TypeOK, Row
  <2>3. \A d \in Desks : req[d].k \in Items
    BY DEF TypeOK, Request
  <2> QED
    BY <2>1, <2>2, <2>3 DEF ReadNow, NeverShort
<1>11. CASE UNCHANGED vars
  BY <1>11 DEF vars, ReadNow, NeverShort
<1>12. ASSUME NEW d \in Desks, Proceed(d) \/ Abort(d)
       PROVE  ReadNow' /\ NeverShort'
  BY <1>5, <1>6, <1>7, <1>8, <1>9, <1>12 DEF Proceed
<1> QED
  BY <1>2, <1>10, <1>11, <1>12 DEF Next

(* With one request at a time no stock is ever negative and no outdated    *)
(* quantity is written back, whatever is moved, delivered, typed in, or    *)
(* made an ingredient meanwhile: the stock check of recordMovement() and   *)
(* fulfillOrder() is enough by itself.                                     *)
THEOREM OneRequestIsNeverShort ==
  ASSUME Serial
  PROVE  Spec => [](lost = {} /\ \A k \in Items : item[k].qty >= 0)
<1>1. Init => ReadNow /\ NeverShort
  <2>1. Init => lost = {} /\ \A k \in Items : item[k].qty = 0
    BY DEF Init, NoRow
  <2>2. Init => \A d \in Desks : req[d].at = "idle"
    BY DEF Init, Idle
  <2> QED
    BY <2>1, <2>2 DEF ReadNow, NeverShort
<1>2. Inv /\ ReadNow /\ NeverShort /\ [Next]_vars => ReadNow' /\ NeverShort'
  BY SerialStep DEF Inv
<1>3. NeverShort => lost = {} /\ \A k \in Items : item[k].qty >= 0
  BY DEF NeverShort
<1> QED
  BY <1>1, <1>2, <1>3, Invariant, PTL DEF Spec
=============================================================================
