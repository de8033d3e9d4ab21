--------------------------- MODULE FacilityProofs ---------------------------
(***************************************************************************)
(* Proofs about FacilityBookings: for any number of facilities, bookings   *)
(* and clerks, a facility is not held twice, a folio is charged once and a *)
(* pending booking is invoiced only by finance or after its invoiceId was  *)
(* cleared, but for requests that raced.                                   *)
(***************************************************************************)
EXTENDS FacilityBookings, TLAPS

(* What a creation asks for is complete; any other request has a booking.  *)
Complete == [facility : Facilities, span : Spans, pax : Pax, charge : Charges,
             invoiceId : BOOLEAN, status : Statuses]

Shaped(q) ==
  IF q.op = "create" THEN q.data \in Complete
  ELSE q.booking \in Bookings /\ Made(q.booking)

(* What a request that nobody overtook has checked still holds.            *)
Target(q) == Changed(book[q.booking], q.data)

Checked(q) ==
  /\ q.op = "create" =>
       /\ Overlapping(q.data.facility, q.data.span, {}) = {}
       /\ q.data.status = "PENDING" => ~ q.data.invoiceId
  /\ q.op = "update" =>
       /\ Overlapping(Target(q).facility, Target(q).span, {q.booking}) = {}
       /\ Target(q).status = "PENDING" =>
            ~ book[q.booking].invoiceId /\ q.data.invoiceId # TRUE
  /\ q.op = "approve" =>
       /\ book[q.booking].status = "PENDING"
       /\ q.data = [Nothing EXCEPT !.status = "CONFIRMED"]
  /\ q.op = "link" =>
       /\ book[q.booking].status = "CONFIRMED"
       /\ q.data = [Nothing EXCEPT !.invoiceId = TRUE]
  /\ q.op = "invoice" => book[q.booking].status = "CONFIRMED"
  /\ q.op = "post" => book[q.booking].posts = 0

Requests ==
  \A c \in Clerks :
    request[c] # Idle =>
      /\ Shaped(request[c])
      /\ ~ request[c].stale => Checked(request[c])

(* Bookings that wait for approval hold their place as well.               *)
Blocks(b) == Made(b) /\ book[b].status \in Blocking

PlacesApart ==
  \A a, b \in Bookings \ raced :
    a # b /\ Blocks(a) /\ Blocks(b) /\ book[a].facility = book[b].facility
      => book[a].span \cap book[b].span = {}

(* An invoiced booking names its invoice until an update clears it.        *)
InvoiceNamed ==
  \A b \in Bookings \ around : Made(b) /\ book[b].invoice => book[b].invoiceId

Rows == PlacesApart /\ PendingNotInvoiced /\ PostedOnce /\ InvoiceNamed

Inv == TypeOK /\ Requests /\ Rows

-----------------------------------------------------------------------------
(* A change of a booking's fields leaves it a booking.                     *)
LEMMA ChangedType ==
  ASSUME NEW old \in Booking, NEW data \in Changes
  PROVE  Changed(old, data) \in Booking
BY DEF Booking, Changes, Changed, Or

(* The availability check passes only where no other booking is: the       *)
(* policy the callers read is never SHARED.                                *)
LEMMA AvailableIsFree ==
  ASSUME NEW f, NEW span, NEW pax, NEW except,
         Available(f, span, pax, except, PolicyRead(f))
  PROVE  Overlapping(f, span, except) = {}
BY DEF Available, PolicyRead

(* The invariant holds at the start.                                       *)
LEMMA InitInv == Init => Inv
BY FacilityAssumption
   DEF Init, Inv, TypeOK, Requests, Rows, PlacesApart, PendingNotInvoiced, PostedOnce,
       InvoiceNamed, Blocks, Made

(* A request that only reads leaves the bookings alone, and what it checked *)
(* holds.                                                                  *)
LEMMA AskInv ==
  ASSUME Inv, NEW c \in Clerks, NEW op, NEW b, NEW data, Ask(c, op, b, data),
         [op |-> op, booking |-> b, data |-> data, stale |-> FALSE] \in Request,
         Shaped([op |-> op, booking |-> b, data |-> data, stale |-> FALSE]),
         Checked([op |-> op, booking |-> b, data |-> data, stale |-> FALSE])
  PROVE  Inv'
<1> DEFINE q == [op |-> op, booking |-> b, data |-> data, stale |-> FALSE]
<1>1. /\ book' = book /\ raced' = raced /\ around' = around
      /\ request' = [request EXCEPT ![c] = q]
  BY DEF Ask
<1>2. TypeOK'
  <2> HIDE DEF q
  <2> QED BY <1>1 DEF Inv, TypeOK, q
<1>3. Requests'
  <2> SUFFICES ASSUME NEW d \in Clerks, request'[d] # Idle
               PROVE  (Shaped(request[d]) /\ (~ request[d].stale => Checked(request[d])))'
    BY DEF Requests
  <2> HIDE DEF q
  <2>1. CASE d = c
    <3>1. request'[d] = q
      BY <1>1, <2>1 DEF Inv, TypeOK
    <3>2. Shaped(q) /\ Checked(q)
      BY DEF q
    <3>3. Shaped(q)' /\ Checked(q)'
      BY <1>1, <3>2 DEF Shaped, Checked, Target, Overlapping, Made
    <3> QED BY <3>1, <3>3 DEF Shaped, Checked, Target
  <2>2. CASE d # c
    <3>1. PICK old : old = request[d] /\ old = request'[d]
      BY <1>1, <2>2 DEF Inv, TypeOK
    <3>2. Shaped(old) /\ (~ old.stale => Checked(old))
      BY <3>1 DEF Inv, Requests
    <3>3. Shaped(old)' /\ (~ old.stale => Checked(old)')
      BY <1>1, <3>2 DEF Shaped, Checked, Target, Overlapping, Made
    <3> QED BY <3>1, <3>3 DEF Shaped, Checked, Target
  <2> QED BY <2>1, <2>2
<1>4. Rows'
  BY <1>1 DEF Inv, Rows, PlacesApart, PendingNotInvoiced, PostedOnce, InvoiceNamed,
              Invoiced, Blocks, Made
<1> QED BY <1>2, <1>3, <1>4 DEF Inv

(* A write on a check that still holds, or whose booking counts as raced,  *)
(* keeps the invariant.                                                    *)
LEMMA WriteInv ==
  ASSUME Inv, NEW c \in Clerks, NEW b \in Bookings, NEW row \in Booking,
         Write(c, b, row), around \subseteq around', around' \subseteq Bookings,
         b \notin around' /\ row.invoice => row.invoiceId,
         b \notin raced' \cup around' /\ row.status = "PENDING"
           => ~ row.invoice /\ ~ row.invoiceId,
         b \notin raced' =>
           /\ row.status \in Blocking => Overlapping(row.facility, row.span, {b}) \subseteq raced
           /\ row.posts <= 1
  PROVE  Inv'
<1>1. /\ book' = [book EXCEPT ![b] = row]
      /\ row # NoBooking
      /\ raced \subseteq raced'
  BY FacilityAssumption DEF Write
<1>2. book' \in [Bookings -> Booking \cup {NoBooking}] /\ raced' \subseteq Bookings
  BY <1>1 DEF Write, Inv, TypeOK
<1>3. ASSUME NEW d \in Clerks, request'[d] # Idle
      PROVE  /\ d # c /\ request[d] # Idle /\ request[d] \in Request
             /\ request'[d] = [request[d] EXCEPT
                   !.stale = request[d].stale \/ Overtakes(b, row, request[d])]
  BY <1>3 DEF Write, Inv, TypeOK
<1>4. request' \in [Clerks -> Request \cup {Idle}]
  <2>1. ASSUME NEW d \in Clerks, request'[d] # Idle PROVE request'[d] \in Request
    <3>1. Overtakes(b, row, request[d]) \in BOOLEAN
      BY DEF Overtakes
    <3> QED BY <1>3, <2>1, <3>1 DEF Request
  <2> QED BY <2>1 DEF Write
<1>5. Requests'
  <2> SUFFICES ASSUME NEW d \in Clerks, request'[d] # Idle
               PROVE  (Shaped(request[d]) /\ (~ request[d].stale => Checked(request[d])))'
    BY DEF Requests
  <2> DEFINE q == request[d]
  <2>1. /\ request'[d].op = q.op /\ request'[d].booking = q.booking
        /\ request'[d].data = q.data
        /\ request'[d].stale = (q.stale \/ Overtakes(b, row, q))
    BY <1>3 DEF Request
  <2>2. Shaped(q) /\ (~ q.stale => Checked(q))
    BY <1>3 DEF Inv, Requests
  <2>3. Shaped(request[d])'
    BY <1>1, <1>2, <2>1, <2>2 DEF Shaped, Made, Inv, TypeOK
  <2>4. ASSUME ~ request'[d].stale PROVE Checked(request[d])'
    <3>1. /\ ~ q.stale /\ q.booking # b /\ Made(b)
          /\ row.facility = book[b].facility /\ row.span = book[b].span
          /\ row.status = book[b].status
      BY <2>1, <2>4 DEF Overtakes
    <3>2. ASSUME NEW f, NEW span, NEW except
          PROVE  Overlapping(f, span, except)' = Overlapping(f, span, except)
      BY <1>1, <3>1 DEF Overlapping, Made, Inv, TypeOK
    <3>3. q.op # "create" => book'[q.booking] = book[q.booking] /\ q.booking \in Bookings
      BY <1>1, <2>2, <3>1 DEF Shaped, Inv, TypeOK
    <3>4. Checked(q)
      BY <2>2, <3>1
    <3> HIDE DEF q
    <3>5. CASE q.op = "create"
      BY <2>1, <3>2, <3>4, <3>5 DEF Checked
    <3>6. CASE q.op # "create"
      <4>1. Target(request[d])' = Target(q)
        BY <2>1, <3>3, <3>6 DEF Target, Changed
      <4> QED BY <2>1, <3>2, <3>3, <3>4, <3>6, <4>1 DEF Checked
    <3> QED BY <3>5, <3>6
  <2> QED BY <2>3, <2>4
<1>6. PlacesApart'
  <2>1. ASSUME NEW x \in Bookings \ raced', NEW y \in Bookings \ raced', x # y,
               Blocks(x)', Blocks(y)', book'[x].facility = book'[y].facility
        PROVE  book'[x].span \cap book'[y].span = {}
    <3>1. ASSUME b \notin raced', row.status \in Blocking, NEW z \in Bookings \ raced, z # b,
                 Blocks(z), book[z].facility = row.facility
          PROVE  book[z].span \cap row.span = {}
      BY <3>1 DEF Overlapping, Blocks
    <3>2. CASE x # b /\ y # b
      BY <1>1, <2>1, <3>2 DEF Inv, Rows, TypeOK, PlacesApart, Blocks, Made
    <3>3. CASE x = b
      <4>1. Blocks(y) /\ book[y].facility = row.facility /\ book'[y] = book[y]
        BY <1>1, <2>1, <3>3 DEF Inv, TypeOK, Blocks, Made
      <4>2. book'[x] = row /\ row.status \in Blocking
        BY <1>1, <2>1, <3>3 DEF Inv, TypeOK, Blocks
      <4> QED BY <1>1, <2>1, <3>1, <3>3, <4>1, <4>2
    <3>4. CASE y = b
      <4>1. Blocks(x) /\ book[x].facility = row.facility /\ book'[x] = book[x]
        BY <1>1, <2>1, <3>4 DEF Inv, TypeOK, Blocks, Made
      <4>2. book'[y] = row /\ row.status \in Blocking
        BY <1>1, <2>1, <3>4 DEF Inv, TypeOK, Blocks
      <4> QED BY <1>1, <2>1, <3>1, <3>4, <4>1, <4>2
    <3> QED BY <3>2, <3>3, <3>4
  <2> QED BY <2>1 DEF PlacesApart
<1>7. PendingNotInvoiced'
  BY <1>1 DEF Inv, Rows, TypeOK, PendingNotInvoiced, Invoiced, Made
<1>8. PostedOnce' /\ InvoiceNamed'
  BY <1>1 DEF Inv, Rows, TypeOK, PostedOnce, InvoiceNamed, Made
<1> QED BY <1>2, <1>4, <1>5, <1>6, <1>7, <1>8 DEF Inv, Rows, TypeOK

(* Every request that is taken in has checked what Checked says.           *)
LEMMA ReceiveInv ==
  ASSUME Inv, NEW c \in Clerks, request[c] = Idle, Receive(c)
  PROVE  Inv'
<1>1. ASSUME NEW data \in NewData, AskCreate(c, data) PROVE Inv'
  <2> DEFINE full == [data EXCEPT !.status = Or(data.status, IF data.facility \in Approval
                                                             THEN "PENDING" ELSE "CONFIRMED")]
  <2>0. full.status = "PENDING" => ~ full.invoiceId
    BY <1>1 DEF AskCreate, NewData
  <2>1. full \in Complete /\ full \in Changes
        /\ full.facility = data.facility /\ full.span = data.span
    BY FacilityAssumption DEF NewData, Complete, Changes, Or
  <2>2. Overlapping(data.facility, data.span, {}) = {}
    BY <1>1, AvailableIsFree DEF AskCreate
  <2> HIDE DEF full
  <2>3. Ask(c, "create", NoBooking, full)
    BY <1>1 DEF AskCreate, full
  <2> DEFINE q == [op |-> "create", booking |-> NoBooking, data |-> full, stale |-> FALSE]
  <2>4. q \in Request /\ Shaped(q) /\ Checked(q)
    BY <2>0, <2>1, <2>2 DEF Request, Shaped, Checked
  <2> QED BY <2>3, <2>4, AskInv
<1>2. ASSUME NEW b \in Bookings, NEW data \in Edits, AskUpdate(c, b, data) PROVE Inv'
  <2> DEFINE new == Changed(book[b], data)
             part == [data EXCEPT !.span = new.span, !.pax = new.pax]
             q == [op |-> "update", booking |-> b, data |-> part, stale |-> FALSE]
  <2>1. /\ Made(b) /\ book[b] \in Booking /\ data \in Changes
        /\ Overlapping(new.facility, new.span, {b}) = {}
        /\ new.status = "PENDING" => ~ book[b].invoiceId /\ part.invoiceId # TRUE
        /\ Ask(c, "update", b, part)
    BY <1>2, AvailableIsFree, FacilityAssumption DEF AskUpdate, Inv, TypeOK, Made, Changes
  <2>2. new \in Booking
    BY <2>1, ChangedType
  <2>3. part \in Changes
    BY <2>1, <2>2 DEF Changes, Booking
  <2>4. Changed(book[b], part) = new
    BY <2>1, FacilityAssumption DEF Changed, Or, Changes, Booking
  <2> HIDE DEF new, part
  <2>5. q \in Request /\ Shaped(q) /\ Checked(q)
    BY <2>1, <2>3, <2>4 DEF Request, Shaped, Checked, Target
  <2> QED BY <2>1, <2>5, AskInv
<1>3. ASSUME NEW b \in Bookings, AskApprove(c, b) PROVE Inv'
  <2> DEFINE part == [Nothing EXCEPT !.status = "CONFIRMED"]
             q == [op |-> "approve", booking |-> b, data |-> part, stale |-> FALSE]
  <2>1. part \in Changes
    BY FacilityAssumption DEF Changes, Nothing
  <2>2. q \in Request /\ Shaped(q) /\ Checked(q)
    BY <1>3, <2>1 DEF AskApprove, Request, Shaped, Checked
  <2> QED BY <1>3, <2>2, AskInv DEF AskApprove
<1>4. Nothing \in Changes
  BY DEF Changes, Nothing
<1>5. ASSUME NEW b \in Bookings, AskInvoice(c, b) PROVE Inv'
  <2> DEFINE q == [op |-> "invoice", booking |-> b, data |-> Nothing, stale |-> FALSE]
  <2>1. q \in Request /\ Shaped(q) /\ Checked(q)
    BY <1>4, <1>5 DEF AskInvoice, Request, Shaped, Checked
  <2> QED BY <1>5, <2>1, AskInv DEF AskInvoice
<1>6. ASSUME NEW b \in Bookings, AskPost(c, b) PROVE Inv'
  <2> DEFINE q == [op |-> "post", booking |-> b, data |-> Nothing, stale |-> FALSE]
  <2>1. q \in Request /\ Shaped(q) /\ Checked(q)
    BY <1>4, <1>6 DEF AskPost, Request, Shaped, Checked
  <2> QED BY <1>6, <2>1, AskInv DEF AskPost
<1>7. ASSUME NEW b \in Bookings, Cancel(c, b) PROVE Inv'
  <2> DEFINE row == [book[b] EXCEPT !.status = "CANCELLED"]
  <2>1. book[b] \in Booking /\ Made(b) /\ Write(c, b, row) /\ around' = around
    BY <1>7 DEF Cancel, Made, Inv, TypeOK
  <2>2. /\ row \in Booking /\ row.status = "CANCELLED" /\ row.posts = book[b].posts
        /\ row.invoice = book[b].invoice /\ row.invoiceId = book[b].invoiceId
    BY <2>1, FacilityAssumption DEF Booking
  <2>3. b \notin raced' => row.posts <= 1
    BY <2>1, <2>2 DEF Write, Inv, Rows, PostedOnce
  <2>4. around' \subseteq Bookings /\ (b \notin around' /\ row.invoice => row.invoiceId)
    BY <2>1, <2>2 DEF Inv, TypeOK, Rows, InvoiceNamed
  <2> HIDE DEF row
  <2> QED BY <2>1, <2>2, <2>3, <2>4, WriteInv DEF Blocking
<1>8. ASSUME NEW b \in Bookings, AskLink(c, b) PROVE Inv'
  <2> DEFINE part == [Nothing EXCEPT !.invoiceId = TRUE]
             q == [op |-> "link", booking |-> b, data |-> part, stale |-> FALSE]
  <2>1. part \in Changes
    BY FacilityAssumption DEF Changes, Nothing
  <2>2. q \in Request /\ Shaped(q) /\ Checked(q)
    BY <1>8, <2>1 DEF AskLink, Request, Shaped, Checked
  <2> QED BY <1>8, <2>2, AskInv DEF AskLink
<1>9. ASSUME NEW b \in Bookings, FinanceInvoice(c, b) PROVE Inv'
  <2> DEFINE row == [book[b] EXCEPT !.invoice = TRUE, !.invoiceId = TRUE]
  <2>1. /\ book[b] \in Booking /\ Made(b) /\ Write(c, b, row)
        /\ around' = IF book[b].status = "PENDING" THEN around \cup {b} ELSE around
        /\ raced' = raced
    BY <1>9 DEF FinanceInvoice, WriteInvoice, Write, Made, Inv, TypeOK
  <2>2. /\ row \in Booking /\ row.posts = book[b].posts /\ row.invoiceId
        /\ row.facility = book[b].facility /\ row.span = book[b].span
        /\ row.status = book[b].status
    BY <2>1 DEF Booking
  <2>3. around \subseteq around' /\ around' \subseteq Bookings
        /\ (row.status = "PENDING" => b \in around')
    BY <2>1, <2>2 DEF Inv, TypeOK
  <2>4. ASSUME b \notin raced'
        PROVE  /\ row.status \in Blocking
                    => Overlapping(row.facility, row.span, {b}) \subseteq raced
               /\ row.posts <= 1
    BY <2>1, <2>2, <2>4 DEF Overlapping, Inv, Rows, PlacesApart, PostedOnce, Blocks
  <2> HIDE DEF row
  <2> QED BY <2>1, <2>2, <2>3, <2>4, WriteInv
<1> QED BY <1>1, <1>2, <1>3, <1>5, <1>6, <1>7, <1>8, <1>9 DEF Receive

(* Every write is of a row whose check still holds, or of a raced booking. *)
LEMMA CarryInv ==
  ASSUME Inv, NEW c \in Clerks, request[c] # Idle, Carry(c)
  PROVE  Inv'
<1> DEFINE q == request[c]
<1>1. q \in Request /\ Shaped(q) /\ (~ q.stale => Checked(q))
  BY DEF Inv, TypeOK, Requests
<1>2. ASSUME NEW b \in Bookings, NEW row, Write(c, b, row), b \notin raced'
      PROVE  b \notin raced /\ Checked(q)
  BY <1>1, <1>2 DEF Write
<1>3. ASSUME NEW b \in Bookings, Create(c, b) PROVE Inv'
  <2> DEFINE d == q.data
             row == [facility |-> d.facility, span |-> d.span, pax |-> d.pax,
                     status |-> d.status, charge |-> d.charge,
                     invoice |-> FALSE, invoiceId |-> d.invoiceId, posts |-> 0]
  <2>1. q.op = "create" /\ ~ Made(b) /\ Write(c, b, row) /\ around' = around
    BY <1>3 DEF Create, Asked
  <2>2. row \in Booking
    BY <1>1, <2>1, FacilityAssumption DEF Shaped, Complete, Booking
  <2>3. b \notin raced' => Overlapping(row.facility, row.span, {b}) = {}
    BY <1>2, <2>1 DEF Checked, Overlapping
  <2>4. ~ row.invoice /\ row.posts <= 1
        /\ (b \notin raced' /\ row.status = "PENDING" => ~ row.invoiceId)
    BY <1>2, <2>1 DEF Checked
  <2>5. around' \subseteq Bookings
    BY <2>1 DEF Inv, TypeOK
  <2> HIDE DEF row
  <2> QED BY <2>1, <2>2, <2>3, <2>4, <2>5, WriteInv
<1>4. ASSUME q.op # "create" PROVE q.booking \in Bookings /\ Made(q.booking)
                                 /\ book[q.booking] \in Booking
  BY <1>1, <1>4 DEF Shaped, Made, Inv, TypeOK
<1>5. ASSUME q.op # "create", NEW row \in Booking, Write(c, q.booking, row),
             around \subseteq around', around' \subseteq Bookings,
             row.facility = book[q.booking].facility, row.span = book[q.booking].span,
             row.status \in Blocking => book[q.booking].status \in Blocking \/ q.stale,
             row.posts = book[q.booking].posts \/ (row.posts <= 1 \/ q.stale),
             q.booking \notin around' /\ row.invoice => row.invoiceId,
             row.status = "PENDING" /\ ~ q.stale /\ q.booking \notin raced \cup around'
               => ~ row.invoice /\ ~ row.invoiceId
      PROVE  Inv'
  <2> DEFINE b == q.booking
  <2>1. b \in Bookings /\ Made(b)
    BY <1>4, <1>5
  <2>2. b \notin raced' => b \notin raced /\ ~ q.stale
    BY <1>5 DEF Write
  <2>3. b \notin raced' /\ row.status \in Blocking
          => Overlapping(row.facility, row.span, {b}) \subseteq raced
    BY <1>5, <2>1, <2>2 DEF Overlapping, Inv, Rows, PlacesApart, Blocks
  <2> HIDE DEF q, b
  <2>4. b \notin raced' => row.posts <= 1
    BY <1>5, <2>1, <2>2 DEF Inv, Rows, PostedOnce, b
  <2>5. b \notin raced' \cup around' /\ row.status = "PENDING"
          => ~ row.invoice /\ ~ row.invoiceId
    BY <1>5, <2>2 DEF b
  <2> QED BY <1>5, <2>1, <2>3, <2>4, <2>5, WriteInv DEF b
<1>6. ASSUME Update(c) PROVE Inv'
  <2> DEFINE b == q.booking
             row == Changed(book[b], q.data)
  <2>1. /\ q.op \in {"update", "approve", "link"} /\ Write(c, b, row)
        /\ around' = IF q.data.invoiceId = FALSE /\ book[b].invoice
                     THEN around \cup {b} ELSE around
    BY <1>6 DEF Update
  <2>2. /\ b \in Bookings /\ Made(b) /\ book[b] \in Booking /\ row \in Booking
        /\ row.invoice = book[b].invoice /\ row.posts = book[b].posts
        /\ row.invoiceId = Or(q.data.invoiceId, book[b].invoiceId)
        /\ q.data \in Changes
    BY <1>1, <1>4, <2>1, ChangedType DEF Request, Changed, Booking
  <2>3. row = Target(q)
    BY DEF Target
  <2> HIDE DEF b, row, q
  <2>4. around \subseteq around' /\ around' \subseteq Bookings
    BY <2>1, <2>2 DEF Inv, TypeOK
  <2>5. b \notin around' => b \notin around /\ (row.invoice => row.invoiceId)
    BY <2>1, <2>2, FacilityAssumption DEF Inv, Rows, InvoiceNamed, Or, Changes, Booking
  <2>6. CASE q.op = "update"
    <3>1. b \notin raced' =>
            /\ Overlapping(row.facility, row.span, {b}) = {}
            /\ row.status = "PENDING" => ~ book[b].invoiceId /\ q.data.invoiceId # TRUE
      BY <1>2, <2>1, <2>2, <2>3, <2>6 DEF Checked, b
    <3>2. b \notin raced' /\ row.status = "PENDING" => ~ row.invoiceId
      BY <2>2, <3>1 DEF Or, Changes
    <3>3. b \notin raced' => row.posts <= 1
      BY <1>2, <2>1, <2>2 DEF Inv, Rows, PostedOnce
    <3> QED BY <2>1, <2>2, <2>4, <2>5, <3>1, <3>2, <3>3, WriteInv
  <2>7. CASE q.op = "approve"
    <3>1. b \notin raced' =>
            /\ b \notin raced /\ book[b].status = "PENDING"
            /\ q.data = [Nothing EXCEPT !.status = "CONFIRMED"]
      BY <1>2, <2>1, <2>2, <2>7 DEF Checked, b
    <3>2. b \notin raced' =>
            /\ row.facility = book[b].facility /\ row.span = book[b].span
            /\ row.status = "CONFIRMED"
      BY <2>2, <3>1, FacilityAssumption DEF row, Changed, Nothing, Or, Booking
    <3>3. ASSUME b \notin raced'
          PROVE  Overlapping(row.facility, row.span, {b}) \subseteq raced
      BY <2>2, <3>1, <3>2, <3>3 DEF Overlapping, Inv, Rows, PlacesApart, Blocks, Blocking
    <3>4. b \notin raced' => row.posts <= 1
      BY <2>2, <3>1 DEF Inv, Rows, PostedOnce
    <3> QED BY <2>1, <2>2, <2>4, <2>5, <3>2, <3>3, <3>4, WriteInv
  <2>8. CASE q.op = "link"
    <3>1. b \notin raced' =>
            /\ b \notin raced /\ book[b].status = "CONFIRMED"
            /\ q.data = [Nothing EXCEPT !.invoiceId = TRUE]
      BY <1>2, <2>1, <2>2, <2>8 DEF Checked, b
    <3>2. b \notin raced' =>
            /\ row.facility = book[b].facility /\ row.span = book[b].span
            /\ row.status = "CONFIRMED"
      BY <2>2, <3>1, FacilityAssumption DEF row, Changed, Nothing, Or, Booking
    <3>3. ASSUME b \notin raced'
          PROVE  Overlapping(row.facility, row.span, {b}) \subseteq raced
      BY <2>2, <3>1, <3>2, <3>3 DEF Overlapping, Inv, Rows, PlacesApart, Blocks, Blocking
    <3>4. b \notin raced' => row.posts <= 1
      BY <2>2, <3>1 DEF Inv, Rows, PostedOnce
    <3> QED BY <2>1, <2>2, <2>4, <2>5, <3>2, <3>3, <3>4, WriteInv
  <2> QED BY <2>1, <2>6, <2>7, <2>8
<1>7. ASSUME Invoice(c) PROVE Inv'
  <2> DEFINE row == [book[q.booking] EXCEPT !.invoice = TRUE, !.invoiceId = TRUE]
  <2>1. q.op = "invoice" /\ Write(c, q.booking, row) /\ around' = around
    BY <1>7 DEF Invoice, WriteInvoice, Asked
  <2>2. row \in Booking /\ row.posts = book[q.booking].posts /\ row.invoiceId
        /\ row.facility = book[q.booking].facility /\ row.span = book[q.booking].span
        /\ row.status = book[q.booking].status
    BY <1>4, <2>1 DEF Booking
  <2>3. ~ q.stale => row.status # "PENDING"
    BY <1>1, <2>1, <2>2 DEF Checked
  <2>4. around' \subseteq Bookings
    BY <2>1 DEF Inv, TypeOK
  <2> HIDE DEF row
  <2> QED BY <1>5, <2>1, <2>2, <2>3, <2>4
<1>8. ASSUME Post(c) PROVE Inv'
  <2> DEFINE row == [book[q.booking] EXCEPT !.posts = @ + 1]
  <2>1. /\ q.op = "post" /\ Write(c, q.booking, row) /\ book[q.booking].posts < MaxPosts
        /\ around' = around
    BY <1>8 DEF Post, Asked
  <2>2. row \in Booking /\ row.posts = book[q.booking].posts + 1
        /\ row.facility = book[q.booking].facility /\ row.span = book[q.booking].span
        /\ row.status = book[q.booking].status /\ row.invoice = book[q.booking].invoice
        /\ row.invoiceId = book[q.booking].invoiceId
    BY <1>4, <2>1, FacilityAssumption DEF Booking
  <2>3. ~ q.stale => row.posts <= 1
    BY <1>1, <2>1, <2>2 DEF Checked
  <2>4. q.booking \notin around /\ row.invoice => row.invoiceId
    BY <1>4, <2>1, <2>2 DEF Inv, Rows, InvoiceNamed
  <2>5. around' \subseteq Bookings
    BY <2>1 DEF Inv, TypeOK
  <2>6. row.status = "PENDING" /\ ~ q.stale /\ q.booking \notin raced \cup around'
          => ~ row.invoice /\ ~ row.invoiceId
    BY <1>1, <1>4, <2>1, <2>2 DEF Checked, Inv, Rows, PendingNotInvoiced, Invoiced
  <2> HIDE DEF row
  <2> QED BY <1>5, <2>1, <2>2, <2>3, <2>4, <2>5, <2>6
<1>9. ASSUME Fail(c) PROVE Inv'
  <2>1. book' = book /\ raced' = raced /\ around' = around /\ request' = [request EXCEPT ![c] = Idle]
    BY <1>9 DEF Fail
  <2>2. TypeOK'
    BY <2>1 DEF Inv, TypeOK
  <2>3. Requests'
    BY <2>1 DEF Inv, TypeOK, Requests, Shaped, Checked, Target, Overlapping, Made
  <2>4. Rows'
    BY <2>1 DEF Inv, Rows, PlacesApart, PendingNotInvoiced, PostedOnce, InvoiceNamed,
                Invoiced, Blocks, Made
  <2> QED BY <2>2, <2>3, <2>4 DEF Inv
<1> QED BY <1>3, <1>6, <1>7, <1>8, <1>9 DEF Carry

(* Inv is inductive.                                                       *)
THEOREM Invariant == Spec => []Inv
<1>1. ASSUME Inv, [Next]_vars PROVE Inv'
  <2>1. CASE UNCHANGED vars
    <3>1. book' = book /\ request' = request /\ raced' = raced /\ around' = around
      BY <2>1 DEF vars
    <3>2. TypeOK'
      BY <1>1, <3>1 DEF Inv, TypeOK
    <3>3. Requests'
      BY <1>1, <3>1 DEF Inv, Requests, Shaped, Checked, Target, Overlapping, Made
    <3>4. Rows'
      BY <1>1, <3>1 DEF Inv, Rows, PlacesApart, PendingNotInvoiced, PostedOnce, InvoiceNamed,
                        Invoiced, Blocks, Made
    <3> QED BY <3>2, <3>3, <3>4 DEF Inv
  <2> QED BY <1>1, <2>1, ReceiveInv, CarryInv DEF Next
<1> QED BY <1>1, InitInv, PTL DEF Spec

(* Every row and request has the shape the code gives it, for any number   *)
(* of facilities, bookings and clerks.                                     *)
THEOREM Types == Spec => []TypeOK
<1>1. Inv => TypeOK
  BY DEF Inv
<1> QED BY <1>1, Invariant, PTL

(* No facility is held by two parties at one time, whatever sequence of    *)
(* bookings, moves, approvals and cancellations led there, unless one of   *)
(* them was written on a check another write had overtaken.                *)
THEOREM NotDoubleBooked == Spec => []NoDoubleBooking
<1>1. Inv => NoDoubleBooking
  BY DEF Inv, Rows, PlacesApart, NoDoubleBooking, Blocks, Holding, Blocking
<1> QED BY <1>1, Invariant, PTL

(* The facilities' endpoints leave no booking waiting for approval that has *)
(* or names an invoice: update() cannot send an invoiced one back, unless  *)
(* it was written on an outdated read or its invoiceId was cleared before. *)
(* Of finance's invoices nothing of the kind is claimed.                   *)
THEOREM InvoicedAfterApproval == Spec => []PendingNotInvoiced
<1>1. Inv => PendingNotInvoiced
  BY DEF Inv, Rows
<1> QED BY <1>1, Invariant, PTL

(* A booking is charged to the folio of its guest once, however often the  *)
(* clerks ask for it, unless two of them raced.                            *)
THEOREM ChargedOnce == Spec => []PostedOnce
<1>1. Inv => PostedOnce
  BY DEF Inv, Rows
<1> QED BY <1>1, Invariant, PTL
-----------------------------------------------------------------------------
(* With one clerk no request is overtaken: a write ends the only one.      *)
Serial == \A c, d \in Clerks : c = d
NoneOvertaken == \A c \in Clerks : request[c] # Idle => ~ request[c].stale
NeverRaced == raced = {} /\ NoneOvertaken

LEMMA NeverRacedStep ==
  ASSUME Serial, Inv, NeverRaced, [Next]_vars
  PROVE  NeverRaced'
<1>1. ASSUME NEW c \in Clerks, NEW op, NEW b, NEW data, Ask(c, op, b, data)
      PROVE  NeverRaced'
  BY <1>1 DEF Ask, NeverRaced, NoneOvertaken, Inv, TypeOK
<1>2. ASSUME NEW c \in Clerks, NEW b, NEW row, Write(c, b, row)
      PROVE  NeverRaced'
  BY <1>2 DEF Write, NeverRaced, NoneOvertaken, Serial
<1>3. ASSUME NEW c \in Clerks, Fail(c)
      PROVE  NeverRaced'
  BY <1>3 DEF Fail, NeverRaced, NoneOvertaken, Inv, TypeOK
<1>4. ASSUME NEW c \in Clerks, Receive(c)
      PROVE  NeverRaced'
  <2>1. ASSUME NEW data, AskCreate(c, data) PROVE NeverRaced'
    BY <1>1, <2>1, Zenon DEF AskCreate
  <2>2. ASSUME NEW b, NEW data, AskUpdate(c, b, data) PROVE NeverRaced'
    BY <1>1, <2>2, Zenon DEF AskUpdate
  <2>3. ASSUME NEW b, AskApprove(c, b) \/ AskInvoice(c, b) \/ AskLink(c, b) \/ AskPost(c, b)
        PROVE  NeverRaced'
    BY <1>1, <2>3, Zenon DEF AskApprove, AskInvoice, AskLink, AskPost
  <2>4. ASSUME NEW b, Cancel(c, b) \/ FinanceInvoice(c, b) PROVE NeverRaced'
    BY <1>2, <2>4, Zenon DEF Cancel, FinanceInvoice, WriteInvoice
  <2> QED
    BY <1>4, <2>1, <2>2, <2>3, <2>4 DEF Receive
<1>5. ASSUME NEW c \in Clerks, Carry(c)
      PROVE  NeverRaced'
  BY <1>2, <1>3, <1>5 DEF Carry, Create, Update, Invoice, WriteInvoice, Post
<1>6. CASE UNCHANGED vars
  BY <1>6 DEF vars, NeverRaced, NoneOvertaken
<1> QED
  BY <1>4, <1>5, <1>6 DEF Next

(* With one request at a time nothing races: no facility is held twice and *)
(* no booking is on the folio twice, without exception.  What is invoiced  *)
(* while it waits for approval was invoiced by finance, or sent back after *)
(* its invoiceId was cleared, and one clerk is enough for both.            *)
THEOREM OneClerkNeverErrs ==
  ASSUME Serial
  PROVE  Spec => [](raced = {} /\ NoDoubleBooking /\ PendingNotInvoiced /\ PostedOnce)
<1>1. Init => NeverRaced
  BY DEF Init, NeverRaced, NoneOvertaken
<1>2. Inv /\ NeverRaced /\ [Next]_vars => NeverRaced'
  BY NeverRacedStep
<1>3. NeverRaced => raced = {}
  BY DEF NeverRaced
<1> QED
  BY <1>1, <1>2, <1>3, Invariant, NotDoubleBooked, InvoicedAfterApproval, ChargedOnce,
     PTL DEF Spec
=============================================================================
