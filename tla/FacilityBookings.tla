-------------------------- MODULE FacilityBookings --------------------------
(***************************************************************************)
(* Bookings of the hotel's facilities (halls, pools, courts): made, moved, *)
(* approved and cancelled by several clerks at once, and billed by an      *)
(* invoice or on the guest's folio.  A request first reads and checks,     *)
(* then writes, and nothing is locked in between.  (Its reads are one step *)
(* here: what is written between two of them might as well be written      *)
(* after both.)  The finance page may invoice a booking as well.  Paying   *)
(* the invoice is Billing's.                                               *)
(***************************************************************************)
EXTENDS Integers, FiniteSetsExt

CONSTANTS Facilities,
          Approval,  \* the facilities that require approval
          Capacity,  \* of every facility
          Bookings, Clerks,
          Hours,
          Spans,     \* the times one can book, as sets of hours
          Pax,       \* numbers of people
          Statuses,  \* of a booking; any of them may be asked for
          Edits,     \* what an update may ask for
          Keep,      \* a field the request leaves out
          NoBooking, Idle,
          MaxPosts   \* bound: folio charges of one booking

(* Faulty variant: a booking that waits for approval holds no place.       *)
BlockingApproved == {"CONFIRMED", "IN_PROGRESS"}

Blocking == {"PENDING", "CONFIRMED", "IN_PROGRESS"}
Charges == {"ROOM_CHARGE", "DIRECT_PAYMENT"}

VARIABLES
  book,     \* facilityBooking rows; NoBooking where there is none yet
  request,  \* requests in flight, by clerk
  raced,    \* history: bookings written on what was read before another write
  around    \* history: bookings that finance has invoiced while they were
            \* pending, or that an update has taken their invoiceId from

vars == <<book, request, raced, around>>

Booking == [facility : Facilities, span : Spans, pax : Pax, status : Statuses,
            charge : Charges,
            invoice : BOOLEAN,      \* an invoice row names it
            invoiceId : BOOLEAN,    \* it names an invoice
            posts : 0..MaxPosts]    \* its charges on the folio

(* The fields a request may write; Keep where it leaves one as it is.  An   *)
(* invoiceId is written as it is given, or as null: FALSE.                 *)
NewData == [facility : Facilities, span : Spans, pax : Pax, charge : Charges,
            invoiceId : BOOLEAN, status : Statuses \cup {Keep}]
Changes == [facility : Facilities \cup {Keep}, span : Spans \cup {Keep},
            pax : Pax \cup {Keep}, charge : Charges \cup {Keep},
            invoiceId : BOOLEAN \cup {Keep}, status : Statuses \cup {Keep}]

Nothing == [facility |-> Keep, span |-> Keep, pax |-> Keep, charge |-> Keep,
            invoiceId |-> Keep, status |-> Keep]

(* stale: a booking has been written that this request has read or, had it *)
(* been written before, would have read.                                   *)
Request == [op : {"create", "update", "approve", "invoice", "link", "post"},
            booking : Bookings \cup {NoBooking}, data : Changes, stale : BOOLEAN]

ASSUME FacilityAssumption ==
  /\ Approval \subseteq Facilities
  /\ Capacity \in Nat /\ Edits \subseteq Changes
  /\ Spans \subseteq SUBSET Hours
  /\ Pax \subseteq Nat \ {0}
  /\ {"PENDING", "CONFIRMED", "CANCELLED"} \subseteq Statuses
  /\ Keep \notin Statuses /\ Keep \notin Facilities /\ Keep \notin Charges
  /\ Keep \notin BOOLEAN /\ Keep \notin Spans /\ Keep \notin Pax
  /\ NoBooking \notin Bookings /\ NoBooking \notin Booking /\ Idle \notin Request
  /\ MaxPosts \in Nat

-----------------------------------------------------------------------------
Made(b) == book[b] # NoBooking

Overlapping(f, span, except) ==
  {b \in Bookings \ except : /\ Made(b)
                             /\ book[b].facility = f
                             /\ book[b].status \in Blocking
                             /\ book[b].span \cap span # {}}

PaxOf(bs) == MapThenSumSet(LAMBDA b : book[b].pax, bs)

(* assertFacilityBookingAvailability().                                    *)
Available(f, span, pax, except, policy) ==
  LET others == Overlapping(f, span, except)
  IN  \/ others = {}
      \/ /\ policy = "SHARED"
         /\ PaxOf(others) + pax <= Capacity

(* The callers' select leaves bookingPolicy out, and what is missing is    *)
(* EXCLUSIVE, also for a facility whose policy is SHARED.                  *)
PolicyRead(f) == "EXCLUSIVE"

Or(given, default) == IF given = Keep THEN default ELSE given

Changed(old, data) ==
  [old EXCEPT !.facility = Or(data.facility, @), !.span = Or(data.span, @),
              !.pax = Or(data.pax, @), !.charge = Or(data.charge, @),
              !.invoiceId = Or(data.invoiceId, @),
              !.status = Or(data.status, @)]

(***************************************************************************)
(* Reading and checking.                                                   *)
(***************************************************************************)
Ask(c, op, b, data) ==
  /\ request' = [request EXCEPT ![c] = [op |-> op, booking |-> b, data |-> data,
                                        stale |-> FALSE]]
  /\ UNCHANGED <<book, raced, around>>

(* createBooking(): a status that is given stands, approval or not.        *)
AskCreate(c, data) ==
  LET status == Or(data.status, IF data.facility \in Approval
                                THEN "PENDING" ELSE "CONFIRMED")
  IN  /\ status = "PENDING" => ~ data.invoiceId
      /\ Available(data.facility, data.span, data.pax, {}, PolicyRead(data.facility))
      /\ Ask(c, "create", NoBooking, [data EXCEPT !.status = status])

(* Faulty variant: an invoiced booking may go back to pending.             *)
AskUpdateInvoiced(c, b, data) ==
  LET new == Changed(book[b], data)
  IN  /\ Made(b)
      /\ book[b].status = "PENDING" => new.status = "PENDING"
      /\ Available(new.facility, new.span, new.pax, {b}, PolicyRead(new.facility))
      /\ Ask(c, "update", b, [data EXCEPT !.span = new.span, !.pax = new.pax])

(* updateBooking(): time and pax are always written, the other fields only *)
(* if given.  An invoiceId that is given as null is not seen by the check. *)
AskUpdate(c, b, data) ==
  LET new == Changed(book[b], data)
  IN  /\ Made(b)
      /\ book[b].status = "PENDING" => new.status = "PENDING"
      /\ Available(new.facility, new.span, new.pax, {b}, PolicyRead(new.facility))
      /\ new.status = "PENDING" => ~ book[b].invoiceId /\ data.invoiceId # TRUE
      /\ Ask(c, "update", b, [data EXCEPT !.span = new.span, !.pax = new.pax])

(* approveBooking(), by somebody who may.                                  *)
AskApprove(c, b) ==
  /\ Made(b)
  /\ book[b].status = "PENDING"
  /\ Ask(c, "approve", b, [Nothing EXCEPT !.status = "CONFIRMED"])

(* createBookingInvoice().                                                 *)
AskInvoice(c, b) ==
  /\ Made(b)
  /\ book[b].status = "CONFIRMED"
  /\ book[b].charge = "DIRECT_PAYMENT"
  /\ ~ book[b].invoice /\ ~ book[b].invoiceId
  /\ Ask(c, "invoice", b, Nothing)

(* createBookingInvoice() and recordBookingPayment() of a booking whose    *)
(* invoice it does not name.                                               *)
AskLink(c, b) ==
  /\ Made(b)
  /\ book[b].status = "CONFIRMED"
  /\ book[b].charge = "DIRECT_PAYMENT"
  /\ book[b].invoice /\ ~ book[b].invoiceId
  /\ Ask(c, "link", b, [Nothing EXCEPT !.invoiceId = TRUE])

(* Faulty variant: an earlier charge is not looked for.                    *)
AskPostAgain(c, b) ==
  /\ Made(b)
  /\ book[b].status = "CONFIRMED"
  /\ book[b].charge = "ROOM_CHARGE"
  /\ Ask(c, "post", b, Nothing)

(* postBookingToRoomFolio().                                               *)
AskPost(c, b) ==
  /\ Made(b)
  /\ book[b].status = "CONFIRMED"
  /\ book[b].charge = "ROOM_CHARGE"
  /\ book[b].posts = 0
  /\ Ask(c, "post", b, Nothing)

(***************************************************************************)
(* Writing.                                                                *)
(***************************************************************************)
(* The write makes what request q has read stale.                          *)
Overtakes(b, row, q) ==
  \/ q.booking = b
  \/ ~ Made(b)
  \/ \E f \in {"facility", "span", "status"} : row[f] # book[b][f]

Write(c, b, row) ==
  /\ book' = [book EXCEPT ![b] = row]
  /\ request' = [d \in Clerks |->
       IF d = c \/ request[d] = Idle THEN Idle
       ELSE [request[d] EXCEPT !.stale = @ \/ Overtakes(b, row, request[d])]]
  /\ raced' = IF request[c] # Idle /\ request[c].stale
              THEN raced \cup {b} ELSE raced

Asked(c, op) == request[c].op = op

Create(c, b) ==
  /\ Asked(c, "create")
  /\ ~ Made(b)
  /\ LET d == request[c].data
     IN  Write(c, b, [facility |-> d.facility, span |-> d.span, pax |-> d.pax,
                      status |-> d.status, charge |-> d.charge,
                      invoice |-> FALSE, invoiceId |-> d.invoiceId, posts |-> 0])
  /\ UNCHANGED around

(* The writes of updateBooking() and approveBooking(), and of the missing  *)
(* invoiceId.                                                              *)
Update(c) ==
  LET q == request[c]
      b == q.booking
  IN  /\ q.op \in {"update", "approve", "link"}
      /\ Write(c, b, Changed(book[b], q.data))
      /\ around' = IF q.data.invoiceId = FALSE /\ book[b].invoice
                   THEN around \cup {b} ELSE around

(* createInvoice(): a booking's invoice is unique in the database.         *)
WriteInvoice(c, b) ==
  /\ ~ book[b].invoice
  /\ Write(c, b, [book[b] EXCEPT !.invoice = TRUE, !.invoiceId = TRUE])

Invoice(c) ==
  /\ Asked(c, "invoice")
  /\ WriteInvoice(c, request[c].booking)
  /\ UNCHANGED around

(* POST finance/invoices with source FACILITY: any booking there is, one   *)
(* transaction.                                                            *)
FinanceInvoice(c, b) ==
  /\ Made(b)
  /\ WriteInvoice(c, b)
  /\ around' = IF book[b].status = "PENDING" THEN around \cup {b} ELSE around

(* The charge is a row of its own: the booking's stays as it is.           *)
Post(c) ==
  LET b == request[c].booking
  IN  /\ Asked(c, "post")
      /\ book[b].posts < MaxPosts
      /\ Write(c, b, [book[b] EXCEPT !.posts = @ + 1])
      /\ UNCHANGED around

(* A write fails: a second invoice, a lost connection.                     *)
Fail(c) ==
  /\ request' = [request EXCEPT ![c] = Idle]
  /\ UNCHANGED <<book, raced, around>>

(* Faulty variant: the status in another spelling.                         *)
CancelSpelt(c, b) ==
  /\ Made(b)
  /\ Write(c, b, [book[b] EXCEPT !.status = "CANCELED"])
  /\ UNCHANGED around

(* cancelBooking(), whatever was billed.                                   *)
Cancel(c, b) ==
  /\ Made(b)
  /\ Write(c, b, [book[b] EXCEPT !.status = "CANCELLED"])
  /\ UNCHANGED around

-----------------------------------------------------------------------------
Init ==
  /\ book = [b \in Bookings |-> NoBooking]
  /\ request = [c \in Clerks |-> Idle]
  /\ raced = {} /\ around = {}

Receive(c) ==
  \/ \E data \in NewData : AskCreate(c, data)
  \/ \E b \in Bookings, data \in Edits : AskUpdate(c, b, data)
  \/ \E b \in Bookings : \/ AskApprove(c, b) \/ AskInvoice(c, b) \/ AskLink(c, b)
                         \/ AskPost(c, b) \/ Cancel(c, b) \/ FinanceInvoice(c, b)

Carry(c) ==
  \/ \E b \in Bookings : Create(c, b)
  \/ Update(c) \/ Invoice(c) \/ Post(c) \/ Fail(c)

Next ==
  \E c \in Clerks : \/ request[c] = Idle /\ Receive(c)
                    \/ request[c] # Idle /\ Carry(c)

Spec == Init /\ [][Next]_vars

-----------------------------------------------------------------------------
(* Every row and request has the shape the code gives it.                  *)
TypeOK ==
  /\ book \in [Bookings -> Booking \cup {NoBooking}]
  /\ request \in [Clerks -> Request \cup {Idle}]
  /\ raced \subseteq Bookings /\ around \subseteq Bookings

(* Two parties never hold a facility at one time, by whatever sequence of  *)
(* bookings, moves, approvals and cancellations, unless one was written on *)
(* a check that another write had overtaken.                               *)
Holding(b) == Made(b) /\ book[b].status \in {"CONFIRMED", "IN_PROGRESS"}

NoDoubleBooking ==
  \A a, b \in Bookings \ raced :
    a # b /\ Holding(a) /\ Holding(b) /\ book[a].facility = book[b].facility
      => book[a].span \cap book[b].span = {}

Invoiced(b) == book[b].invoice \/ book[b].invoiceId

(* The facilities' endpoints leave no booking waiting for approval that has *)
(* or names an invoice, not even one from before it went back to pending,  *)
(* unless requests raced.  Two ways round them are named here: the finance *)
(* endpoint, which invoices any booking, and an update that clears the     *)
(* invoiceId first.                                                        *)
PendingNotInvoiced ==
  \A b \in Bookings \ (raced \cup around) :
    Made(b) /\ book[b].status = "PENDING" => ~ Invoiced(b)

(* "Pending facility bookings cannot issue an invoice before approval",    *)
(* whichever endpoint is asked.                                            *)
PendingNeverInvoiced ==
  \A b \in Bookings \ raced :
    Made(b) /\ book[b].status = "PENDING" => ~ Invoiced(b)

(* A booking is on the folio once, also when it is cancelled, revived and  *)
(* posted again, unless two postings raced.                                *)
PostedOnce == \A b \in Bookings \ raced : Made(b) => book[b].posts <= 1
=============================================================================
