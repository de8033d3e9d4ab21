-------------------------- MODULE ReservationRows --------------------------
(***************************************************************************)
(* The reservation table of reservations.service.ts as the other modules   *)
(* see it: one row per booking with its status, its room and its stay, a   *)
(* half-open interval of nights.  The module has no variable: it holds the *)
(* vocabulary and the availability rule, which every module that touches a *)
(* reservation shares.                                                     *)
(***************************************************************************)
EXTENDS Integers

CONSTANTS Rooms,      \* rooms of one hotel
          Bookings,   \* reservation ids the hotel can create
          MaxNight,   \* bound: stays lie within the nights 0 .. MaxNight
          Keep        \* an UpdateReservationDto field that was not supplied

ASSUME RowsAssumption ==
  /\ Rooms # {}
  /\ Bookings # {}
  /\ MaxNight \in Nat \ {0}
  /\ Keep \notin Rooms
  /\ Keep \notin Nat

Night == 0 .. MaxNight

(* Prisma's ReservationStatus; "FREE" stands for an id with no row yet.    *)
ReservationStatus ==
  {"FREE", "PENDING", "CONFIRMED", "CHECKED_IN", "CHECKED_OUT",
   "CANCELLED", "NO_SHOW"}

Open == {"PENDING", "CONFIRMED"}

(* The statuses that block a room for others.                              *)
Blocking == {"PENDING", "CONFIRMED", "CHECKED_IN"}

Row == [status : ReservationStatus, room : Rooms, from : Night, to : Night]

NoRow == [status |-> "FREE", room |-> CHOOSE r \in Rooms : TRUE,
          from |-> 0, to |-> 1]

(* UpdateReservationDto, as far as rooms and dates go.                     *)
Patch == [room : Rooms \cup {Keep}, from : Night \cup {Keep},
          to : Night \cup {Keep}]

Supplied(new, old) == IF new = Keep THEN old ELSE new

Patched(row, p) ==
  [row EXCEPT !.room = Supplied(p.room, @),
              !.from = Supplied(p.from, @),
              !.to   = Supplied(p.to, @)]

Overlaps(x, y) == x.from < y.to /\ y.from < x.to

(* Two rows that hold the same room for a common night.                    *)
Clash(x, y) ==
  /\ x.status \in Blocking
  /\ y.status \in Blocking
  /\ x.room = y.room
  /\ Overlaps(x, y)

(* Faulty variant: looks only for rows that start within the stay.         *)
RoomFreeStartsWithin(table, b, stay) ==
  \A c \in Bookings \ {b} :
    ~ (/\ table[c].status \in Blocking
       /\ table[c].room = stay.room
       /\ table[c].from \in stay.from .. (stay.to - 1))

(* What the overlap query of getAvailableRoomForReservation answers: no    *)
(* blocking row but b's own has the room on the nights of stay.            *)
RoomFree(table, b, stay) ==
  \A c \in Bookings \ {b} :
    ~ (/\ table[c].status \in Blocking
       /\ table[c].room = stay.room
       /\ Overlaps(table[c], stay))

RoomChanged(old, new) == new.room # old.room

DatesChanged(old, new) == new.from # old.from \/ new.to # old.to

(* update()'s guards on the row it has read.                               *)
UpdateAllowed(old, new) ==
  /\ new.from < new.to
  /\ DatesChanged(old, new) => old.status \in Open
  /\ RoomChanged(old, new) => old.status \in Blocking

(* Faulty variants: a second check-in, and a guest in the house cancelled. *)
CheckInAgainAllowed(row) == row.status \in Blocking
CancelInHouseAllowed(row) == row.status \notin {"FREE", "CHECKED_OUT"}

CheckInAllowed(row)  == row.status \in Open
CheckOutAllowed(row) == row.status = "CHECKED_IN"
CancelAllowed(row)   == row.status \notin {"FREE", "CHECKED_IN", "CHECKED_OUT"}
NoShowAllowed(row)   == row.status \in Open

NoClash(table, good) ==
  \A b, c \in good : b # c => ~ Clash(table[b], table[c])
=============================================================================
