----------------------------- MODULE FrontDesk -----------------------------
(***************************************************************************)
(* The reservation endpoints of reservations.service.ts over the tables    *)
(* reservation, room and folioItem.  A request is an async handler: each   *)
(* await is one query on PostgreSQL, and the queries of different requests *)
(* interleave.  Only update() writes inside a transaction; no request      *)
(* takes a lock or repeats a check when it writes.                         *)
(*                                                                         *)
(* A request in flight is req[d]: its endpoint op, the await it has        *)
(* reached (at), the booking, the row it read (old), the row it wants      *)
(* (new), the supplied fields (patch) and, inside a Promise.all, the       *)
(* tables still to write (todo).                                           *)
(***************************************************************************)
EXTENDS ReservationRows

CONSTANTS Desks,         \* request slots: how many requests may overlap
          Ops,           \* the endpoints called
          Stays,         \* <<from, to>> pairs sent to create()
          Patches,       \* bodies sent to update()
          ManualStatuses  \* statuses set through PATCH /rooms/:id/status

RoomStatus == {"AVAILABLE", "OCCUPIED", "DIRTY", "MAINTENANCE",
               "OUT_OF_ORDER", "RESERVED", "HOUSEKEEPING"}

AllOps == {"create", "update", "checkIn", "checkOut", "cancel", "noShow"}

ASSUME DeskAssumption ==
  /\ Ops \subseteq AllOps
  /\ Stays \subseteq Night \X Night
  /\ Patches \subseteq Patch
  /\ ManualStatuses \subseteq RoomStatus

VARIABLES
  rsv,      \* reservation rows
  room,     \* room status
  folio,    \* number of ROOM folio items of a booking
  req,      \* requests in flight
  blind,    \* history: bookings written by a request whose reads were stale,
            \* or in between the two writes of another request
  cut       \* history: bookings whose request stopped between two writes

vars == <<rsv, room, folio, req, blind, cut>>

(***************************************************************************)
(* Requests.                                                               *)
(***************************************************************************)
Stages == {"idle", "room", "overlap", "commit", "mark", "write", "folio"}

NoPatch == [room |-> Keep, from |-> Keep, to |-> Keep]

Request == [op : AllOps, at : Stages, b : Bookings, old : Row, new : Row,
            patch : Patch, todo : SUBSET {"rsv", "room"}]

Idle == [op |-> "create", at |-> "idle", b |-> CHOOSE b \in Bookings : TRUE,
         old |-> NoRow, new |-> NoRow, patch |-> NoPatch, todo |-> {}]

Goto(d, stage) == req' = [req EXCEPT ![d].at = stage]
Finish(d)      == req' = [req EXCEPT ![d] = Idle]

(* The ids create() may take: a fresh uuid, used by no other request.      *)
Fresh(b) ==
  /\ rsv[b].status = "FREE"
  /\ \A e \in Desks : req[e].at = "idle" \/ req[e].b # b

(* Between the two writes of a Promise.all.                                *)
HalfWritten(q) == q.at = "write" /\ q.todo # {"rsv", "room"}

(* Some other request is between its two writes on booking b.              *)
Torn(d, b) == \E e \in Desks \ {d} : req[e].b = b /\ HalfWritten(req[e])

Mark(set, b, stale) == IF stale THEN set \cup {b} ELSE set

(***************************************************************************)
(* create(): room row, overlap query, reservation row, room RESERVED.      *)
(***************************************************************************)
BeginCreate(d, b, r, stay) ==
  LET new == [status |-> "CONFIRMED", room |-> r,
              from |-> stay[1], to |-> stay[2]]
  IN  /\ "create" \in Ops
      /\ req[d].at = "idle"
      /\ Fresh(b)
      /\ stay[1] < stay[2]
      /\ req' = [req EXCEPT ![d] =
                   [op |-> "create", at |-> "room", b |-> b, old |-> rsv[b],
                    new |-> new, patch |-> NoPatch, todo |-> {}]]
      /\ UNCHANGED <<rsv, room, folio, blind, cut>>

(* getAvailableRoomForReservation, first query: the room's service status. *)
CheckRoom(d) ==
  /\ req[d].at = "room"
  /\ IF room[req[d].new.room] \in {"MAINTENANCE", "OUT_OF_ORDER"}
     THEN Finish(d)
     ELSE Goto(d, "overlap")
  /\ UNCHANGED <<rsv, room, folio, blind, cut>>

(* Faulty variant: the overlap query is not made.                          *)
CheckFreeSkipped(d) ==
  /\ req[d].at = "overlap"
  /\ Goto(d, "commit")
  /\ UNCHANGED <<rsv, room, folio, blind, cut>>

(* getAvailableRoomForReservation, second query: a blocking row that       *)
(* overlaps.                                                               *)
CheckFree(d) ==
  /\ req[d].at = "overlap"
  /\ IF RoomFree(rsv, req[d].b, req[d].new)
     THEN Goto(d, "commit")
     ELSE Finish(d)
  /\ UNCHANGED <<rsv, room, folio, blind, cut>>

InsertReservation(d) ==
  LET b == req[d].b
  IN  /\ req[d].at = "commit"
      /\ req[d].op = "create"
      /\ rsv' = [rsv EXCEPT ![b] = req[d].new]
      /\ blind' = Mark(blind, b, ~ RoomFree(rsv, b, req[d].new))
      /\ Goto(d, "mark")
      /\ UNCHANGED <<room, folio, cut>>

MarkReserved(d) ==
  /\ req[d].at = "mark"
  /\ room' = [room EXCEPT ![req[d].new.room] = "RESERVED"]
  /\ Finish(d)
  /\ UNCHANGED <<rsv, folio, blind, cut>>

(***************************************************************************)
(* update(): findOne, the guards on the row read, the availability check   *)
(* when room or dates change, then one transaction over the reservation    *)
(* and both rooms.                                                         *)
(***************************************************************************)
BeginUpdate(d, b, p) ==
  LET new == Patched(rsv[b], p)
  IN  /\ "update" \in Ops
      /\ req[d].at = "idle"
      /\ rsv[b].status # "FREE"
      /\ UpdateAllowed(rsv[b], new)
      /\ req' = [req EXCEPT ![d] =
                   [op |-> "update",
                    at |-> IF new = rsv[b] THEN "commit" ELSE "room",
                    b |-> b, old |-> rsv[b], new |-> new, patch |-> p,
                    todo |-> {}]]
      /\ UNCHANGED <<rsv, room, folio, blind, cut>>

(* Faulty variant: a move leaves the old room as it was.                   *)
RoomsAfterMoveKeepsOld(status, from, to) ==
  CASE status = "CHECKED_IN" -> [room EXCEPT ![to] = "OCCUPIED"]
    [] status \in Open -> [room EXCEPT ![to] = "RESERVED"]
    [] OTHER -> room

(* The room writes of the transaction: by the status the row has now, from *)
(* the room the request had read.                                          *)
RoomsAfterMove(status, from, to) ==
  CASE status = "CHECKED_IN" ->
         [room EXCEPT ![from] = "DIRTY", ![to] = "OCCUPIED"]
    [] status \in Open ->
         [room EXCEPT ![from] = "AVAILABLE", ![to] = "RESERVED"]
    [] OTHER -> room

CommitUpdate(d) ==
  LET q == req[d]
      b == q.b
  IN  /\ q.at = "commit"
      /\ q.op = "update"
      /\ rsv' = [rsv EXCEPT ![b] = Patched(@, q.patch)]
      /\ room' = IF RoomChanged(q.old, q.new)
                 THEN RoomsAfterMove(rsv[b].status, q.old.room, q.new.room)
                 ELSE room
      /\ blind' = Mark(blind, b,
                       \/ rsv[b] # q.old \/ Torn(d, b)
                       \/ q.new # q.old /\ ~ RoomFree(rsv, b, q.new))
      /\ Finish(d)
      /\ UNCHANGED <<folio, cut>>

(***************************************************************************)
(* checkIn(), checkOut(), cancel() and noShow(): findOne, one guard on the *)
(* status read, then Promise.all of a reservation write and a room write,  *)
(* which land in either order.                                             *)
(***************************************************************************)
(* Faulty variant: a room status is written to the reservation.            *)
StatusWrittenToWrongTable(op) ==
  CASE op = "checkIn"  -> "OCCUPIED"
    [] op = "checkOut" -> "DIRTY"
    [] op = "cancel"   -> "AVAILABLE"
    [] op = "noShow"   -> "AVAILABLE"

StatusWritten(op) ==
  CASE op = "checkIn"  -> "CHECKED_IN"
    [] op = "checkOut" -> "CHECKED_OUT"
    [] op = "cancel"   -> "CANCELLED"
    [] op = "noShow"   -> "NO_SHOW"

(* Faulty variant: check-out leaves the room to be released later.         *)
RoomWrittenLater(op) ==
  CASE op \in {"checkIn", "checkOut"} -> "OCCUPIED"
    [] op \in {"cancel", "noShow"} -> "AVAILABLE"

RoomWritten(op) ==
  CASE op = "checkIn"  -> "OCCUPIED"
    [] op = "checkOut" -> "DIRTY"
    [] op \in {"cancel", "noShow"} -> "AVAILABLE"

StatusOps == {"checkIn", "checkOut", "cancel", "noShow"}

StatusAllowed(op, row) ==
  CASE op = "checkIn"  -> CheckInAllowed(row)
    [] op = "checkOut" -> CheckOutAllowed(row)
    [] op = "cancel"   -> CancelAllowed(row)
    [] op = "noShow"   -> NoShowAllowed(row)

BeginStatus(d, b, op) ==
  /\ op \in Ops \cap StatusOps
  /\ req[d].at = "idle"
  /\ StatusAllowed(op, rsv[b])
  /\ req' = [req EXCEPT ![d] =
               [op |-> op, at |-> "write", b |-> b, old |-> rsv[b],
                new |-> [rsv[b] EXCEPT !.status = StatusWritten(op)],
                patch |-> NoPatch, todo |-> {"rsv", "room"}]]
  /\ UNCHANGED <<rsv, room, folio, blind, cut>>

(* The await of Promise.all returns when both writes have landed.          *)
Wrote(d, table) ==
  LET left == req[d].todo \ {table}
  IN  req' = [req EXCEPT ![d] =
                IF left # {} THEN [req[d] EXCEPT !.todo = left]
                ELSE IF req[d].op = "checkIn"
                     THEN [req[d] EXCEPT !.todo = {}, !.at = "folio"]
                     ELSE Idle]

WriteReservation(d) ==
  LET b == req[d].b
  IN  /\ req[d].at = "write"
      /\ "rsv" \in req[d].todo
      /\ rsv' = [rsv EXCEPT ![b].status = req[d].new.status]
      /\ blind' = Mark(blind, b, rsv[b] # req[d].old \/ Torn(d, b))
      /\ Wrote(d, "rsv")
      /\ UNCHANGED <<room, folio, cut>>

WriteRoom(d) ==
  LET q == req[d]
      expected == IF "rsv" \in q.todo THEN q.old ELSE q.new
  IN  /\ q.at = "write"
      /\ "room" \in q.todo
      /\ room' = [room EXCEPT ![q.old.room] = RoomWritten(q.op)]
      /\ blind' = Mark(blind, q.b, rsv[q.b] # expected \/ Torn(d, q.b))
      /\ Wrote(d, "room")
      /\ UNCHANGED <<rsv, folio, cut>>

(* checkIn() seeds the first room-night on the folio.                      *)
ChargeFirstNight(d) ==
  /\ req[d].at = "folio"
  /\ folio' = [folio EXCEPT ![req[d].b] = @ + 1]
  /\ Finish(d)
  /\ UNCHANGED <<rsv, room, blind, cut>>

(***************************************************************************)
(* A request stops: a query fails, or the process is restarted.  Nothing   *)
(* it wrote outside a transaction is undone.                               *)
(***************************************************************************)
HasWritten(q) ==
  \/ q.at \in {"mark", "folio"}
  \/ q.at = "write" /\ q.todo # {"rsv", "room"}

Abort(d) ==
  /\ req[d].at # "idle"
  /\ cut' = Mark(cut, req[d].b, HasWritten(req[d]))
  /\ Finish(d)
  /\ UNCHANGED <<rsv, room, folio, blind>>

(* rooms.service.ts updateStatus: any staff member with the permission.    *)
UpdateRoomStatus(r, s) ==
  /\ room' = [room EXCEPT ![r] = s]
  /\ UNCHANGED <<rsv, folio, req, blind, cut>>

-----------------------------------------------------------------------------
Init ==
  /\ rsv = [b \in Bookings |-> NoRow]
  /\ room = [r \in Rooms |-> "AVAILABLE"]
  /\ folio = [b \in Bookings |-> 0]
  /\ req = [d \in Desks |-> Idle]
  /\ blind = {}
  /\ cut = {}

Begin(d) ==
  \/ \E b \in Bookings, r \in Rooms, stay \in Stays : BeginCreate(d, b, r, stay)
  \/ \E b \in Bookings, p \in Patches : BeginUpdate(d, b, p)
  \/ \E b \in Bookings, op \in StatusOps : BeginStatus(d, b, op)

Proceed(d) ==
  \/ CheckRoom(d)
  \/ CheckFree(d)
  \/ InsertReservation(d)
  \/ MarkReserved(d)
  \/ CommitUpdate(d)
  \/ WriteReservation(d)
  \/ WriteRoom(d)
  \/ ChargeFirstNight(d)

Next ==
  \/ \E d \in Desks : Begin(d) \/ Proceed(d) \/ Abort(d)
  \/ \E r \in Rooms, s \in ManualStatuses : UpdateRoomStatus(r, s)

Spec == Init /\ [][Next]_vars

-----------------------------------------------------------------------------
(* Every table and every request has the shape the code gives it.          *)
TypeOK ==
  /\ rsv \in [Bookings -> Row]
  /\ room \in [Rooms -> RoomStatus]
  /\ folio \in [Bookings -> Nat]
  /\ req \in [Desks -> Request]
  /\ blind \in SUBSET Bookings
  /\ cut \in SUBSET Bookings

(* Two bookings hold one room on a common night only if one of them was    *)
(* written by a request whose reads had gone stale: the availability rule  *)
(* itself (overlap query, self-exclusion, blocking statuses, the guards of *)
(* update) leaves no other way.                                            *)
NoDoubleBookingUnlessBlind == NoClash(rsv, Bookings \ blind)

(* Two bookings never hold one room on a common night.                     *)
NoDoubleBooking == NoClash(rsv, Bookings)

Charging(b) ==
  \E d \in Desks : /\ req[d].op = "checkIn"
                   /\ req[d].b = b
                   /\ req[d].at \in {"write", "folio"}

(* The first night is on the folio of a stay exactly once, and of nothing  *)
(* but a stay: checkIn() writes the row, the room and the charge as three  *)
(* awaits, so a repeated or interrupted check-in could charge twice or     *)
(* never.                                                                  *)
FirstNightChargedOnce ==
  \A b \in Bookings \ (blind \cup cut) :
    /\ folio[b] <= 1
    /\ folio[b] = 1 => rsv[b].status \in {"CHECKED_IN", "CHECKED_OUT"}
    /\ rsv[b].status \in {"CHECKED_IN", "CHECKED_OUT"} =>
         folio[b] = 1 \/ Charging(b)

InHouse(r) == \E b \in Bookings : rsv[b].status = "CHECKED_IN" /\ rsv[b].room = r

(* A room shown as OCCUPIED has a guest: check-out and room move always    *)
(* release the room the guest leaves, unless a request is between its two  *)
(* writes, was cut there, or wrote on stale reads.                         *)
OccupiedRoomHasGuest ==
  blind = {} /\ cut = {} =>
    \A r \in Rooms :
      room[r] = "OCCUPIED" =>
        \/ InHouse(r)
        \/ \E d \in Desks : HalfWritten(req[d]) /\ req[d].old.room = r

LifecycleSteps ==
  {<<"FREE", "CONFIRMED">>, <<"CONFIRMED", "CHECKED_IN">>,
   <<"CONFIRMED", "CANCELLED">>, <<"CONFIRMED", "NO_SHOW">>,
   <<"CHECKED_IN", "CHECKED_OUT">>, <<"NO_SHOW", "CANCELLED">>}

LifecycleMove(b) ==
  /\ rsv'[b].status # rsv[b].status =>
       <<rsv[b].status, rsv'[b].status>> \in LifecycleSteps
  /\ rsv[b].status \in {"CHECKED_IN", "CHECKED_OUT"} =>
       rsv'[b].from = rsv[b].from /\ rsv'[b].to = rsv[b].to

(* A booking moves along its lifecycle only, a finished stay is final and  *)
(* the dates of a guest in the house are fixed, unless a request wrote on  *)
(* stale reads: each handler's guard is enough when its read is current.   *)
LifecycleKept == [][\A b \in Bookings \ blind' : LifecycleMove(b)]_vars

(* With one request at a time nothing is written on stale reads.           *)
NeverBlind == blind = {}

(* One request at a time, the endpoints are the atomic ones of             *)
(* StayLifecycle: each guard still holds when the write lands.             *)
Stay == INSTANCE StayLifecycle WITH rsv <- rsv

ImplementsLifecycle == Stay!Spec
=============================================================================
