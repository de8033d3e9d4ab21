--------------------------- MODULE StayLifecycle ---------------------------
(***************************************************************************)
(* What the reservation endpoints promise of the reservation table: every  *)
(* request reads, decides and writes as one step, so a guard still holds   *)
(* when its write lands.  FrontDesk is the program; it implements this     *)
(* module when its requests do not overlap.                                *)
(***************************************************************************)
EXTENDS ReservationRows

VARIABLE rsv

Init == rsv = [b \in Bookings |-> NoRow]

Book(b, r, f, t) ==
  /\ rsv[b].status = "FREE"
  /\ f < t
  /\ RoomFree(rsv, b, [room |-> r, from |-> f, to |-> t])
  /\ rsv' = [rsv EXCEPT ![b] = [status |-> "CONFIRMED", room |-> r,
                                from |-> f, to |-> t]]

Amend(b, r, f, t) ==
  LET new == [rsv[b] EXCEPT !.room = r, !.from = f, !.to = t]
  IN  /\ rsv[b].status # "FREE"
      /\ UpdateAllowed(rsv[b], new)
      /\ new # rsv[b] => RoomFree(rsv, b, new)
      /\ rsv' = [rsv EXCEPT ![b] = new]

SetStatus(b, s) == rsv' = [rsv EXCEPT ![b].status = s]

CheckIn(b)  == CheckInAllowed(rsv[b])  /\ SetStatus(b, "CHECKED_IN")
CheckOut(b) == CheckOutAllowed(rsv[b]) /\ SetStatus(b, "CHECKED_OUT")
Cancel(b)   == CancelAllowed(rsv[b])   /\ SetStatus(b, "CANCELLED")
NoShow(b)   == NoShowAllowed(rsv[b])   /\ SetStatus(b, "NO_SHOW")

Next ==
  \E b \in Bookings :
    \/ \E r \in Rooms, f, t \in Night : Book(b, r, f, t) \/ Amend(b, r, f, t)
    \/ CheckIn(b)
    \/ CheckOut(b)
    \/ Cancel(b)
    \/ NoShow(b)

Spec == Init /\ [][Next]_rsv

-----------------------------------------------------------------------------
TypeOK == rsv \in [Bookings -> Row]

(* A room is never promised twice for a night: what the overlap query of   *)
(* getAvailableRoomForReservation exists for.                              *)
NoDoubleBooking == NoClash(rsv, Bookings)

=============================================================================
