-------------------------- MODULE FrontDeskProofs --------------------------
(***************************************************************************)
(* Theorems about FrontDesk, for any number of rooms, bookings, nights and *)
(* overlapping requests.  Availability is preserved because every handler  *)
(* carries, from the row it read to the write it makes, the facts its      *)
(* guards established (RequestOK); the history variable blind names the    *)
(* writes for which those facts have meanwhile become false.               *)
(***************************************************************************)
EXTENDS FrontDesk, TLAPS

(* What a request in flight has already established.                       *)
RequestOK(q) ==
  /\ q.at \in {"room", "overlap", "commit"} => q.op \in {"create", "update"}
  /\ q.at \in {"room", "overlap", "commit"} /\ q.op = "update" =>
       q.new = Patched(q.old, q.patch) /\ UpdateAllowed(q.old, q.new)
  /\ q.at = "write" =>
       /\ q.op \in StatusOps
       /\ StatusAllowed(q.op, q.old)
       /\ q.new = [q.old EXCEPT !.status = StatusWritten(q.op)]

RequestsOK == \A d \in Desks : RequestOK(req[d])

Inv == TypeOK /\ RequestsOK /\ NoDoubleBookingUnlessBlind

-----------------------------------------------------------------------------
(* The unused row and the idle request are values of their types.          *)
LEMMA IdleTypes == NoRow \in Row /\ Idle \in Request /\ RequestOK(Idle)
<1>1. /\ (CHOOSE r \in Rooms : TRUE) \in Rooms
      /\ (CHOOSE b \in Bookings : TRUE) \in Bookings
  BY RowsAssumption
<1>2. NoRow \in Row
  BY <1>1, RowsAssumption DEF NoRow, Row, ReservationStatus, Night
<1>3. Idle \in Request
  BY <1>1, <1>2 DEF Idle, Request, AllOps, Stages, NoPatch, Patch
<1>4. RequestOK(Idle)
  BY DEF RequestOK, Idle
<1> QED
  BY <1>2, <1>3, <1>4

(* A patched row is a row.                                                 *)
LEMMA PatchedType ==
  ASSUME NEW row \in Row, NEW p \in Patch
  PROVE  Patched(row, p) \in Row /\ Patched(row, p).status = row.status
  BY RowsAssumption DEF Patched, Supplied, Row, Patch, Night

(* The statuses the four status endpoints write.                           *)
LEMMA StatusWrittenType ==
  ASSUME NEW op \in StatusOps
  PROVE  StatusWritten(op) \in ReservationStatus /\ RoomWritten(op) \in RoomStatus
  BY DEF StatusOps, StatusWritten, RoomWritten, ReservationStatus, RoomStatus

-----------------------------------------------------------------------------
(* Every reachable state has the types of TypeOK, and every request the    *)
(* facts of RequestOK.                                                     *)
LEMMA TypeInit == Init => TypeOK /\ RequestsOK
  BY IdleTypes DEF Init, TypeOK, RequestsOK, RoomStatus

(* The next stage of a request, and a step that moves one request only.    *)
LEMMA NextStage ==
  ASSUME NEW q \in Request, NEW s \in Stages
  PROVE  [q EXCEPT !.at = s] \in Request
  BY DEF Request

LEMMA OneRequestMoves ==
  ASSUME req \in [Desks -> Request], RequestsOK, NEW d \in Desks,
         NEW q \in Request, RequestOK(q), req' = [req EXCEPT ![d] = q]
  PROVE  req' \in [Desks -> Request] /\ RequestsOK'
<1>1. req' \in [Desks -> Request] /\ req'[d] = q
  OBVIOUS
<1>2. \A e \in Desks : e # d => req'[e] = req[e]
  OBVIOUS
<1> QED
  BY <1>1, <1>2 DEF RequestsOK

LEMMA TypeStep == TypeOK /\ RequestsOK /\ [Next]_vars => TypeOK' /\ RequestsOK'
<1> SUFFICES ASSUME TypeOK, RequestsOK, [Next]_vars
             PROVE  TypeOK' /\ RequestsOK'
  OBVIOUS
<1> USE DEF TypeOK, RequestsOK
<1>a. ASSUME NEW d \in Desks, NEW b \in Bookings, NEW r \in Rooms, NEW stay \in Stays,
             BeginCreate(d, b, r, stay)
      PROVE  TypeOK' /\ RequestsOK'
  <2> DEFINE new == [status |-> "CONFIRMED", room |-> r,
                     from |-> stay[1], to |-> stay[2]]
             q == [op |-> "create", at |-> "room", b |-> b, old |-> rsv[b],
                   new |-> new, patch |-> NoPatch, todo |-> {}]
  <2>1. stay[1] \in Night /\ stay[2] \in Night
    BY DeskAssumption
  <2>2. new \in Row
    BY <2>1 DEF Row, ReservationStatus
  <2>3. NoPatch \in Patch
    BY DEF NoPatch, Patch
  <2>4. req' = [req EXCEPT ![d] = q] /\ UNCHANGED <<rsv, room, folio, blind, cut>>
    BY <1>a DEF BeginCreate
  <2> HIDE DEF new
  <2>5. q \in Request
    BY <2>2, <2>3 DEF Request, AllOps, Stages
  <2>6. RequestOK(q)
    BY DEF RequestOK
  <2> HIDE DEF q
  <2> QED
    BY <2>4, <2>5, <2>6, OneRequestMoves
<1>b. ASSUME NEW d \in Desks, CheckRoom(d) \/ CheckFree(d)
      PROVE  TypeOK' /\ RequestsOK'
  <2>1. UNCHANGED <<rsv, room, folio, blind, cut>> /\ req[d].at \in {"room", "overlap"}
    BY <1>b DEF CheckRoom, CheckFree
  <2>2. \/ req' = [req EXCEPT ![d] = Idle]
        \/ req' = [req EXCEPT ![d] = [req[d] EXCEPT !.at = "overlap"]]
        \/ req' = [req EXCEPT ![d] = [req[d] EXCEPT !.at = "commit"]]
    BY <1>b DEF CheckRoom, CheckFree, Goto, Finish
  <2>3. \A s \in {"overlap", "commit"} :
          /\ [req[d] EXCEPT !.at = s] \in Request
          /\ RequestOK([req[d] EXCEPT !.at = s])
    <3>1. TAKE s \in {"overlap", "commit"}
    <3>2. s \in Stages /\ req[d] \in Request
      BY DEF Stages
    <3>3. RequestOK([req[d] EXCEPT !.at = s])
      BY <2>1, <3>2 DEF RequestOK, Request
    <3> QED
      BY <3>2, <3>3, NextStage
  <2> QED
    BY <2>1, <2>2, <2>3, IdleTypes, OneRequestMoves
<1>d. ASSUME NEW d \in Desks, InsertReservation(d)
      PROVE  TypeOK' /\ RequestsOK'
  <2> DEFINE q == [req[d] EXCEPT !.at = "mark"]
  <2>1. /\ req' = [req EXCEPT ![d] = q] /\ UNCHANGED <<room, folio, cut>>
        /\ rsv' = [rsv EXCEPT ![req[d].b] = req[d].new]
        /\ blind' = Mark(blind, req[d].b,
                         ~ RoomFree(rsv, req[d].b, req[d].new))
    BY <1>d DEF InsertReservation, Goto
  <2>2. req[d].b \in Bookings /\ req[d].new \in Row
    BY DEF Request
  <2>3. rsv' \in [Bookings -> Row] /\ blind' \in SUBSET Bookings
    BY <2>1, <2>2 DEF Mark
  <2>4. q \in Request
    BY NextStage DEF Stages
  <2>5. RequestOK(q)
    BY DEF RequestOK, Request
  <2> HIDE DEF q
  <2> QED
    BY <2>1, <2>3, <2>4, <2>5, OneRequestMoves
<1>e. ASSUME NEW d \in Desks, MarkReserved(d)
      PROVE  TypeOK' /\ RequestsOK'
  BY <1>e, IdleTypes DEF MarkReserved, Finish, RoomStatus
<1>f. ASSUME NEW d \in Desks, NEW b \in Bookings, NEW p \in Patches,
             BeginUpdate(d, b, p)
      PROVE  TypeOK' /\ RequestsOK'
  <2>1. p \in Patch /\ Patched(rsv[b], p) \in Row
    BY DeskAssumption, PatchedType
  <2> DEFINE q == [op |-> "update",
                   at |-> IF Patched(rsv[b], p) = rsv[b] THEN "commit" ELSE "room",
                   b |-> b, old |-> rsv[b], new |-> Patched(rsv[b], p),
                   patch |-> p, todo |-> {}]
  <2>2. q \in Request
    BY <2>1 DEF Request, AllOps, Stages
  <2>3. RequestOK(q)
    BY <1>f DEF RequestOK, BeginUpdate
  <2>4. req' = [req EXCEPT ![d] = q] /\ UNCHANGED <<rsv, room, folio, blind, cut>>
    BY <1>f DEF BeginUpdate
  <2> QED
    BY <2>2, <2>3, <2>4
<1>g. ASSUME NEW d \in Desks, CommitUpdate(d)
      PROVE  TypeOK' /\ RequestsOK'
  <2>1. req[d] \in Request
    OBVIOUS
  <2>2. rsv' \in [Bookings -> Row] /\ blind' \in SUBSET Bookings
    BY <1>g, <2>1, PatchedType DEF CommitUpdate, Request, Mark
  <2>3. room' \in [Rooms -> RoomStatus]
    BY <1>g, <2>1 DEF CommitUpdate, RoomsAfterMove, RoomStatus
  <2> QED
    BY <1>g, <2>2, <2>3, IdleTypes DEF CommitUpdate, Finish
<1>h. ASSUME NEW d \in Desks, NEW b \in Bookings, NEW op \in StatusOps,
             BeginStatus(d, b, op)
      PROVE  TypeOK' /\ RequestsOK'
  <2> DEFINE q == [op |-> op, at |-> "write", b |-> b, old |-> rsv[b],
                   new |-> [rsv[b] EXCEPT !.status = StatusWritten(op)],
                   patch |-> NoPatch, todo |-> {"rsv", "room"}]
  <2>1. [rsv[b] EXCEPT !.status = StatusWritten(op)] \in Row
    BY StatusWrittenType DEF Row
  <2>2. NoPatch \in Patch /\ op \in AllOps
    BY DEF NoPatch, Patch, StatusOps, AllOps
  <2>3. q \in Request
    BY <2>1, <2>2 DEF Request, Stages
  <2>4. RequestOK(q)
    BY <1>h DEF RequestOK, BeginStatus
  <2>5. req' = [req EXCEPT ![d] = q] /\ UNCHANGED <<rsv, room, folio, blind, cut>>
    BY <1>h DEF BeginStatus
  <2> QED
    BY <2>3, <2>4, <2>5
<1>i. ASSUME NEW d \in Desks, NEW t \in {"rsv", "room"}, Wrote(d, t), req[d].at = "write"
      PROVE  req' \in [Desks -> Request] /\ RequestsOK'
  <2> DEFINE left == req[d].todo \ {t}
  <2>1. [req[d] EXCEPT !.todo = left] \in Request /\ RequestOK([req[d] EXCEPT !.todo = left])
    BY DEF Request, RequestOK
  <2>2. /\ [req[d] EXCEPT !.todo = {}, !.at = "folio"] \in Request
        /\ RequestOK([req[d] EXCEPT !.todo = {}, !.at = "folio"])
    <3> DEFINE q == [req[d] EXCEPT !.todo = {}, !.at = "folio"]
    <3>1. req[d] \in Request
      OBVIOUS
    <3>2. q \in Request
      BY <3>1 DEF Request, Stages
    <3>3. q.at = "folio"
      BY <3>1 DEF Request
    <3>4. RequestOK(q)
      BY <3>3 DEF RequestOK
    <3> QED
      BY <3>2, <3>4
  <2> QED
    BY <1>i, <2>1, <2>2, IdleTypes DEF Wrote
<1>j. ASSUME NEW d \in Desks, WriteReservation(d)
      PROVE  TypeOK' /\ RequestsOK'
  <2>1. Wrote(d, "rsv") /\ req[d].at = "write"
    BY <1>j DEF WriteReservation
  <2>2. req' \in [Desks -> Request] /\ RequestsOK'
    BY <1>i, <2>1
  <2>3. rsv' \in [Bookings -> Row] /\ blind' \in SUBSET Bookings
    BY <1>j DEF WriteReservation, Request, Row, Mark
  <2> QED
    BY <1>j, <2>2, <2>3 DEF WriteReservation
<1>k. ASSUME NEW d \in Desks, WriteRoom(d)
      PROVE  TypeOK' /\ RequestsOK'
  <2>1. Wrote(d, "room") /\ req[d].at = "write"
    BY <1>k DEF WriteRoom
  <2>2. req' \in [Desks -> Request] /\ RequestsOK'
    BY <1>i, <2>1
  <2>3. RoomWritten(req[d].op) \in RoomStatus
    BY <2>1, StatusWrittenType DEF RequestOK
  <2>4. room' \in [Rooms -> RoomStatus] /\ blind' \in SUBSET Bookings
    BY <1>k, <2>3 DEF WriteRoom, Request, Mark
  <2> QED
    BY <1>k, <2>2, <2>4 DEF WriteRoom
<1>l. ASSUME NEW d \in Desks, ChargeFirstNight(d)
      PROVE  TypeOK' /\ RequestsOK'
  BY <1>l, IdleTypes DEF ChargeFirstNight, Finish, Request
<1>m. ASSUME NEW d \in Desks, Abort(d)
      PROVE  TypeOK' /\ RequestsOK'
  BY <1>m, IdleTypes DEF Abort, Finish, Request, Mark
<1>n. ASSUME NEW r \in Rooms, NEW s \in ManualStatuses, UpdateRoomStatus(r, s)
      PROVE  TypeOK' /\ RequestsOK'
  BY <1>n, DeskAssumption DEF UpdateRoomStatus
<1>o. CASE UNCHANGED vars
  BY <1>o DEF vars
<1> QED
  BY <1>a, <1>b, <1>d, <1>e, <1>f, <1>g, <1>h, <1>j, <1>k, <1>l, <1>m,
     <1>n, <1>o DEF Next, Begin, Proceed

(* Every table and request keeps the shape the code gives it.              *)
THEOREM TypeCorrect == Spec => []TypeOK
<1>1. TypeOK /\ RequestsOK /\ [Next]_vars => TypeOK' /\ RequestsOK'
  BY TypeStep
<1> QED
  BY TypeInit, <1>1, PTL DEF Spec

-----------------------------------------------------------------------------
(***************************************************************************)
(* Availability.                                                           *)
(***************************************************************************)

(* Changing one row keeps the table free of clashes when the new row       *)
(* clashes with none of the others.                                        *)
LEMMA NoClashOneRow ==
  ASSUME NEW table, NEW table2, NEW good, NEW good2, NEW b,
         good2 \subseteq good \cup {b},
         \A c \in good2 : c # b => table2[c] = table[c],
         NoClash(table, good),
         b \in good2 =>
           \A c \in good2 : c # b => ~ Clash(table2[b], table[c])
  PROVE  NoClash(table2, good2)
<1> SUFFICES ASSUME NEW x \in good2, NEW y \in good2, x # y,
                    Clash(table2[x], table2[y])
             PROVE  FALSE
  BY DEF NoClash
<1>1. Clash(table2[y], table2[x])
  BY DEF Clash, Overlaps
<1>2. CASE x = b
  BY <1>2
<1>3. CASE y = b
  BY <1>3, <1>1
<1>4. CASE x # b /\ y # b
  BY <1>4 DEF NoClash
<1> QED
  BY <1>2, <1>3, <1>4

(* A row for which the overlap query finds nothing clashes with no other.  *)
LEMMA FreeRow ==
  ASSUME NEW table, NEW b, NEW new, RoomFree(table, b, new)
  PROVE  \A c \in Bookings : c # b => ~ Clash(new, table[c])
  BY DEF RoomFree, Clash, Overlaps

(* A status write by a request whose read is current never makes a clash:  *)
(* the four endpoints write a blocking status only over a blocking one.    *)
LEMMA StatusKeepsBlocking ==
  ASSUME NEW op \in StatusOps, NEW row \in Row, StatusAllowed(op, row),
         StatusWritten(op) \in Blocking
  PROVE  row.status \in Blocking
  BY DEF StatusOps, StatusAllowed, StatusWritten, Blocking, CheckInAllowed, Open

LEMMA AvailabilityStep == Inv /\ [Next]_vars => NoDoubleBookingUnlessBlind'
<1> SUFFICES ASSUME Inv, [Next]_vars
             PROVE  NoClash(rsv', Bookings \ blind')
  BY DEF NoDoubleBookingUnlessBlind
<1> DEFINE good == Bookings \ blind
           good2 == Bookings \ blind'
<1>t. TypeOK /\ RequestsOK /\ NoClash(rsv, good)
  BY DEF Inv, NoDoubleBookingUnlessBlind
<1>1. ASSUME NEW d \in Desks, InsertReservation(d)
      PROVE  NoClash(rsv', good2)
  <2> DEFINE b == req[d].b
  <2>1. b \in Bookings
    BY <1>t DEF TypeOK, Request
  <2>2. /\ rsv' = [rsv EXCEPT ![b] = req[d].new]
        /\ blind' = Mark(blind, b, ~ RoomFree(rsv, b, req[d].new))
    BY <1>1 DEF InsertReservation
  <2>3. blind \subseteq blind' /\ blind' \subseteq blind \cup {b}
    BY <2>2 DEF Mark
  <2>4. b \in good2 => RoomFree(rsv, b, req[d].new)
    BY <2>2 DEF Mark
  <2>5. rsv'[b] = req[d].new /\ \A c \in good2 : c # b => rsv'[c] = rsv[c]
    BY <2>1, <2>2, <1>t DEF TypeOK
  <2>6. b \in good2 => \A c \in good2 : c # b => ~ Clash(rsv'[b], rsv[c])
    BY <2>4, <2>5, FreeRow
  <2>7. good2 \subseteq good \cup {b} /\ NoClash(rsv, good)
    BY <2>3, <1>t
  <2> HIDE DEF good, good2, b
  <2> QED
    BY <2>5, <2>6, <2>7, NoClashOneRow
<1>2. ASSUME NEW d \in Desks, CommitUpdate(d)
      PROVE  NoClash(rsv', good2)
  <2> DEFINE b == req[d].b
             q == req[d]
  <2>1. q \in Request /\ b \in Bookings
    BY <1>t DEF TypeOK, Request
  <2>2. /\ rsv' = [rsv EXCEPT ![b] = Patched(@, q.patch)]
        /\ blind' = Mark(blind, b,
                         \/ rsv[b] # q.old \/ Torn(d, b)
                         \/ q.new # q.old /\ ~ RoomFree(rsv, b, q.new))
    BY <1>2 DEF CommitUpdate
  <2>3. blind \subseteq blind' /\ blind' \subseteq blind \cup {b}
    BY <2>2 DEF Mark
  <2>4. q.new = Patched(q.old, q.patch)
    BY <1>2, <1>t DEF CommitUpdate, RequestsOK, RequestOK
  <2>5. rsv'[b] = Patched(rsv[b], q.patch) /\ \A c \in good2 : c # b => rsv'[c] = rsv[c]
    BY <2>1, <2>2, <1>t DEF TypeOK
  <2>6. CASE b \in blind'
    <3>1. good2 \subseteq good /\ \A c \in good2 : c # b
      BY <2>6, <2>3
    <3>2. \A c \in good2 : rsv'[c] = rsv[c]
      BY <3>1, <2>5
    <3> QED
      BY <3>1, <3>2, <1>t DEF NoClash
  <2>7. CASE b \notin blind'
    <3>1. rsv[b] = q.old /\ (q.new # q.old => RoomFree(rsv, b, q.new))
      BY <2>2, <2>7 DEF Mark
    <3>2. rsv'[b] = q.new
      BY <3>1, <2>4, <2>5
    <3>3. CASE q.new = q.old
      <4>1. \A c \in good2 : rsv'[c] = rsv[c]
        BY <3>1, <3>2, <3>3, <2>5
      <4> QED
        BY <4>1, <2>3, <1>t DEF NoClash
    <3>4. CASE q.new # q.old
      <4>1. \A c \in good2 : c # b => ~ Clash(rsv'[b], rsv[c])
        BY <3>1, <3>2, <3>4, FreeRow
      <4> QED
        <5>1. good2 \subseteq good \cup {b} /\ NoClash(rsv, good)
          BY <2>3, <1>t
        <5> QED
          BY <4>1, <5>1, <2>5, NoClashOneRow
    <3> QED
      BY <3>3, <3>4
  <2> QED
    BY <2>6, <2>7
<1>3. ASSUME NEW d \in Desks, WriteReservation(d)
      PROVE  NoClash(rsv', good2)
  <2> DEFINE b == req[d].b
             q == req[d]
  <2>1. q \in Request /\ b \in Bookings /\ rsv[b] \in Row
    BY <1>t DEF TypeOK, Request
  <2>2. /\ rsv' = [rsv EXCEPT ![b].status = q.new.status]
        /\ blind' = Mark(blind, b, rsv[b] # q.old \/ Torn(d, b))
    BY <1>3 DEF WriteReservation
  <2>3. blind \subseteq blind' /\ blind' \subseteq blind \cup {b}
    BY <2>2 DEF Mark
  <2>4. /\ rsv'[b] = [rsv[b] EXCEPT !.status = q.new.status]
        /\ \A c \in good2 : c # b => rsv'[c] = rsv[c]
    BY <2>1, <2>2, <1>t DEF TypeOK
  <2>5. ASSUME b \in good2
        PROVE  \A c \in good2 : c # b => ~ Clash(rsv'[b], rsv[c])
    <3>1. rsv[b] = q.old /\ b \in good
      BY <2>2, <2>3, <2>5 DEF Mark
    <3>2. /\ q.op \in StatusOps
          /\ StatusAllowed(q.op, rsv[b])
          /\ q.new.status = StatusWritten(q.op)
      BY <1>3, <1>t, <2>1, <3>1 DEF WriteReservation, RequestsOK, RequestOK, Row
    <3>3. rsv'[b].status \in Blocking => rsv[b].status \in Blocking
      BY <2>1, <2>4, <3>2, StatusKeepsBlocking DEF Row
    <3>4. /\ rsv'[b].room = rsv[b].room
          /\ rsv'[b].from = rsv[b].from
          /\ rsv'[b].to = rsv[b].to
      BY <2>1, <2>4 DEF Row
    <3>5. \A c \in good2 : c # b => ~ Clash(rsv[b], rsv[c])
      BY <3>1, <2>3, <1>t DEF NoClash
    <3> QED
      BY <3>3, <3>4, <3>5 DEF Clash, Overlaps
  <2> QED
    <3>1. good2 \subseteq good \cup {b} /\ NoClash(rsv, good)
      BY <2>3, <1>t
    <3> QED
      BY <3>1, <2>4, <2>5, NoClashOneRow
<1>4. ASSUME rsv' = rsv, blind \subseteq blind'
      PROVE  NoClash(rsv', good2)
  BY <1>4, <1>t DEF NoClash
<1>5. ASSUME NEW d \in Desks, WriteRoom(d)
      PROVE  NoClash(rsv', good2)
  BY <1>5, <1>4 DEF WriteRoom, Mark
<1>6. CASE UNCHANGED <<rsv, blind>>
  BY <1>6, <1>4
<1>7. ASSUME NEW d \in Desks,
             Begin(d) \/ CheckRoom(d) \/ CheckFree(d) \/ MarkReserved(d)
               \/ ChargeFirstNight(d) \/ Abort(d)
      PROVE  UNCHANGED <<rsv, blind>>
  BY <1>7
     DEF Begin, BeginCreate, BeginUpdate, BeginStatus, CheckRoom, CheckFree,
              MarkReserved, ChargeFirstNight, Abort
<1>8. ASSUME NEW r \in Rooms, NEW s \in ManualStatuses, UpdateRoomStatus(r, s)
      PROVE  UNCHANGED <<rsv, blind>>
  BY <1>8 DEF UpdateRoomStatus
<1> QED
  BY <1>1, <1>2, <1>3, <1>5, <1>6, <1>7, <1>8 DEF Next, Proceed, vars

(* The availability rule of the reservation endpoints is sufficient: for   *)
(* any number of overlapping requests, two bookings that hold one room on  *)
(* a common night include one written on stale reads.                      *)
THEOREM DoubleBookingNeedsStaleRead == Spec => []NoDoubleBookingUnlessBlind
<1>1. Init => Inv
  <2>1. Init => NoDoubleBookingUnlessBlind
    BY DEF Init, NoDoubleBookingUnlessBlind, NoClash, Clash, NoRow, Blocking
  <2> QED
    BY <2>1, TypeInit DEF Inv
<1>2. Inv /\ [Next]_vars => Inv'
  BY AvailabilityStep, TypeStep DEF Inv
<1>3. Inv => NoDoubleBookingUnlessBlind
  BY DEF Inv
<1> QED
  BY <1>1, <1>2, <1>3, PTL DEF Spec

-----------------------------------------------------------------------------
(***************************************************************************)
(* One request at a time.                                                  *)
(***************************************************************************)
Serial == \A d, e \in Desks : d = e

(* With no other request about, the row read is the row in the table, and  *)
(* what the checks found is still so.                                      *)
Current(table, q) ==
  /\ q.at \in {"room", "overlap", "commit"} =>
       /\ table[q.b] = q.old
       /\ q.op = "create" => /\ q.old.status = "FREE"
                             /\ q.new.status = "CONFIRMED"
                             /\ q.new.from < q.new.to
       /\ q.op = "update" => q.old.status # "FREE"
  /\ q.at = "commit" /\ (q.op = "create" \/ q.new # q.old) => RoomFree(table, q.b, q.new)
  /\ q.at = "write" =>
       /\ q.todo # {}
       /\ table[q.b] = IF "rsv" \in q.todo THEN q.old ELSE q.new

SerialInv == NeverBlind /\ \A d \in Desks : Current(rsv, req[d])

LEMMA IdleCurrent == ASSUME NEW table PROVE Current(table, Idle)
  BY DEF Current, Idle

LEMMA SerialInit == Init => SerialInv
  BY IdleCurrent DEF Init, SerialInv, NeverBlind

LEMMA SerialStep ==
  ASSUME Serial, TypeOK, RequestsOK, SerialInv, [Next]_vars
  PROVE  SerialInv'
<1> USE DEF TypeOK, RequestsOK, SerialInv, NeverBlind
<1>0. ASSUME NEW d \in Desks PROVE Desks = {d} /\ ~ Torn(d, req[d].b)
  BY <1>0 DEF Serial, Torn
<1>1. ASSUME NEW d \in Desks, NEW q, Current(rsv', q), req' = [req EXCEPT ![d] = q],
             blind' = {}
      PROVE  SerialInv'
  BY <1>0, <1>1
<1>2. ASSUME NEW d \in Desks, Finish(d), blind' = {}
      PROVE  SerialInv'
  <2>1. Current(rsv', Idle)
    BY DEF Current, Idle
  <2> QED
    BY <1>2, <2>1, <1>1 DEF Finish
<1>a. ASSUME NEW d \in Desks, NEW b \in Bookings, NEW r \in Rooms, NEW stay \in Stays,
             BeginCreate(d, b, r, stay)
      PROVE  SerialInv'
  <2> DEFINE q == [op |-> "create", at |-> "room", b |-> b, old |-> rsv[b],
                   new |-> [status |-> "CONFIRMED", room |-> r,
                            from |-> stay[1], to |-> stay[2]],
                   patch |-> NoPatch, todo |-> {}]
  <2>1. req' = [req EXCEPT ![d] = q] /\ blind' = {} /\ rsv' = rsv
    BY <1>a DEF BeginCreate
  <2>2. Current(rsv', q)
    BY <1>a, <2>1 DEF BeginCreate, Fresh, Current
  <2> HIDE DEF q
  <2> QED
    BY <2>1, <2>2, <1>1
<1>b. ASSUME NEW d \in Desks, CheckRoom(d)
      PROVE  SerialInv'
  <2> DEFINE q == [req[d] EXCEPT !.at = "overlap"]
  <2>1. rsv' = rsv /\ blind' = {} /\ (Finish(d) \/ req' = [req EXCEPT ![d] = q])
    BY <1>b DEF CheckRoom, Goto
  <2>2. req[d] \in Request /\ Current(rsv, req[d]) /\ req[d].at = "room"
    BY <1>b DEF CheckRoom
  <2>3. Current(rsv', q)
    BY <2>1, <2>2 DEF Current, Request
  <2> HIDE DEF q
  <2> QED
    BY <2>1, <2>3, <1>1, <1>2
<1>c. ASSUME NEW d \in Desks, CheckFree(d)
      PROVE  SerialInv'
  <2> DEFINE q == [req[d] EXCEPT !.at = "commit"]
  <2>1. /\ rsv' = rsv /\ blind' = {}
        /\ Finish(d) \/ (req' = [req EXCEPT ![d] = q] /\ RoomFree(rsv, req[d].b, req[d].new))
    BY <1>c DEF CheckFree, Goto
  <2>2. req[d] \in Request /\ Current(rsv, req[d]) /\ req[d].at = "overlap"
    BY <1>c DEF CheckFree
  <2>3. RoomFree(rsv, req[d].b, req[d].new) => Current(rsv', q)
    BY <2>1, <2>2 DEF Current, Request, RoomFree
  <2> HIDE DEF q
  <2> QED
    BY <2>1, <2>3, <1>1, <1>2
<1>d. ASSUME NEW d \in Desks, InsertReservation(d)
      PROVE  SerialInv'
  <2> DEFINE q == [req[d] EXCEPT !.at = "mark"]
  <2>1. req' = [req EXCEPT ![d] = q]
    BY <1>d DEF InsertReservation, Goto
  <2>2. blind' = {}
    BY <1>d DEF InsertReservation, Current, Mark
  <2>3. Current(rsv', q)
    BY DEF Current, Request
  <2> HIDE DEF q
  <2> QED
    BY <2>1, <2>2, <2>3, <1>1
<1>e. ASSUME NEW d \in Desks, MarkReserved(d)
      PROVE  SerialInv'
  BY <1>e, <1>2 DEF MarkReserved
<1>f. ASSUME NEW d \in Desks, NEW b \in Bookings, NEW p \in Patches,
             BeginUpdate(d, b, p)
      PROVE  SerialInv'
  <2> DEFINE q == [op |-> "update",
                   at |-> IF Patched(rsv[b], p) = rsv[b] THEN "commit" ELSE "room",
                   b |-> b, old |-> rsv[b], new |-> Patched(rsv[b], p),
                   patch |-> p, todo |-> {}]
  <2>1. req' = [req EXCEPT ![d] = q] /\ blind' = {} /\ rsv' = rsv
    BY <1>f DEF BeginUpdate
  <2>2. Current(rsv', q)
    BY <1>f, <2>1 DEF BeginUpdate, Current
  <2> HIDE DEF q
  <2> QED
    BY <2>1, <2>2, <1>1
<1>g. ASSUME NEW d \in Desks, CommitUpdate(d)
      PROVE  SerialInv'
  <2>1. blind' = {}
    <3>1. ~ Torn(d, req[d].b)
      BY <1>0
    <3> QED
      BY <1>g, <3>1 DEF CommitUpdate, Current, Mark
  <2> QED
    BY <1>g, <2>1, <1>2 DEF CommitUpdate
<1>h. ASSUME NEW d \in Desks, NEW b \in Bookings, NEW op \in StatusOps,
             BeginStatus(d, b, op)
      PROVE  SerialInv'
  <2> DEFINE q == [op |-> op, at |-> "write", b |-> b, old |-> rsv[b],
                   new |-> [rsv[b] EXCEPT !.status = StatusWritten(op)],
                   patch |-> NoPatch, todo |-> {"rsv", "room"}]
  <2>1. req' = [req EXCEPT ![d] = q] /\ blind' = {} /\ rsv' = rsv
    BY <1>h DEF BeginStatus
  <2>2. Current(rsv', q)
    BY <2>1 DEF Current
  <2> HIDE DEF q
  <2> QED
    BY <2>1, <2>2, <1>1
<1>i. ASSUME NEW d \in Desks, NEW t \in {"rsv", "room"}, Wrote(d, t), blind' = {},
             req[d].at = "write",
             rsv'[req[d].b] = IF "rsv" \in req[d].todo \ {t}
                              THEN req[d].old ELSE req[d].new
      PROVE  SerialInv'
  <2> DEFINE left == req[d].todo \ {t}
             q == [req[d] EXCEPT !.todo = left]
             f == [req[d] EXCEPT !.todo = {}, !.at = "folio"]
  <2>1. req[d] \in Request
    OBVIOUS
  <2>2. left # {} => Current(rsv', q)
    BY <1>i, <2>1 DEF Current, Request
  <2>3. f.at = "folio"
    BY <2>1 DEF Request
  <2>4. Current(rsv', f)
    BY <2>3 DEF Current
  <2>5. \/ left # {} /\ req' = [req EXCEPT ![d] = q]
        \/ req' = [req EXCEPT ![d] = f]
        \/ Finish(d)
    BY <1>i DEF Wrote, Finish
  <2> HIDE DEF q, f, left
  <2> QED
    BY <1>i, <2>2, <2>4, <2>5, <1>1, <1>2
<1>j. ASSUME NEW d \in Desks, WriteReservation(d)
      PROVE  SerialInv'
  <2> DEFINE q == req[d]
  <2>1. /\ q \in Request /\ q.at = "write" /\ Wrote(d, "rsv")
        /\ q.b \in Bookings /\ rsv[q.b] \in Row /\ q.old \in Row
        /\ "rsv" \in q.todo
        /\ rsv[q.b] = q.old
        /\ q.new = [q.old EXCEPT !.status = StatusWritten(q.op)]
    BY <1>j DEF WriteReservation, Current, Request, RequestOK
  <2>2. blind' = {}
    <3>1. ~ Torn(d, q.b)
      BY <1>0
    <3> QED
      BY <1>j, <2>1, <3>1 DEF WriteReservation, Mark
  <2>3. rsv'[q.b] = q.new
    BY <1>j, <2>1 DEF WriteReservation, Row
  <2> QED
    BY <2>1, <2>2, <2>3, <1>i
<1>k. ASSUME NEW d \in Desks, WriteRoom(d)
      PROVE  SerialInv'
  <2> DEFINE q == req[d]
  <2>1. /\ q.at = "write" /\ Wrote(d, "room") /\ rsv' = rsv
        /\ rsv[q.b] = IF "rsv" \in q.todo THEN q.old ELSE q.new
    BY <1>k DEF WriteRoom, Current
  <2>2. blind' = {}
    <3>1. ~ Torn(d, q.b)
      BY <1>0
    <3> QED
      BY <1>k, <2>1, <3>1 DEF WriteRoom, Mark
  <2>3. rsv'[q.b] = IF "rsv" \in q.todo \ {"room"} THEN q.old ELSE q.new
    BY <2>1
  <2> QED
    BY <2>1, <2>2, <2>3, <1>i
<1>l. ASSUME NEW d \in Desks, ChargeFirstNight(d)
      PROVE  SerialInv'
  BY <1>l, <1>2 DEF ChargeFirstNight
<1>m. ASSUME NEW d \in Desks, Abort(d)
      PROVE  SerialInv'
  BY <1>m, <1>2 DEF Abort
<1>n. CASE UNCHANGED <<rsv, req, blind>>
  BY <1>n DEF Current, RoomFree
<1>o. ASSUME NEW r \in Rooms, NEW s \in ManualStatuses, UpdateRoomStatus(r, s)
      PROVE  SerialInv'
  BY <1>n, <1>o DEF UpdateRoomStatus
<1> QED
  BY <1>a, <1>b, <1>c, <1>d, <1>e, <1>f, <1>g, <1>h, <1>j, <1>k, <1>l, <1>m,
     <1>n, <1>o DEF Next, Begin, Proceed, vars

(* With one request at a time, no write is ever made on stale reads, and   *)
(* no room is promised twice for a night.                                  *)
THEOREM SerialRequestsNeverDoubleBook ==
  ASSUME Serial PROVE Spec => [](NeverBlind /\ NoDoubleBooking)
<1>1. Init => TypeOK /\ RequestsOK /\ SerialInv
  BY TypeInit, SerialInit
<1>2. TypeOK /\ RequestsOK /\ SerialInv /\ [Next]_vars
        => TypeOK' /\ RequestsOK' /\ SerialInv'
  BY TypeStep, SerialStep
<1>3. Spec => [](TypeOK /\ RequestsOK /\ SerialInv)
  BY <1>1, <1>2, PTL DEF Spec
<1>4. SerialInv /\ NoDoubleBookingUnlessBlind => NeverBlind /\ NoDoubleBooking
  BY DEF SerialInv, NeverBlind, NoDoubleBookingUnlessBlind, NoDoubleBooking
<1> QED
  BY <1>3, <1>4, DoubleBookingNeedsStaleRead, PTL

(* Each step of the program is, on the reservation table, an atomic step   *)
(* of StayLifecycle or none.                                               *)
LEMMA LifecycleStep ==
  ASSUME Serial, TypeOK, RequestsOK, SerialInv, [Next]_vars
  PROVE  [Stay!Next]_rsv
<1> USE DEF TypeOK, RequestsOK, SerialInv
<1>1. ASSUME NEW d \in Desks, InsertReservation(d)
      PROVE  Stay!Next
  <2> DEFINE q == req[d]
  <2>1. /\ q \in Request /\ q.b \in Bookings /\ q.new \in Row
        /\ q.new.room \in Rooms /\ q.new.from \in Night /\ q.new.to \in Night
    BY DEF Request, Row
  <2>2. /\ rsv[q.b].status = "FREE"
        /\ q.new.status = "CONFIRMED" /\ q.new.from < q.new.to
        /\ RoomFree(rsv, q.b, q.new)
        /\ rsv' = [rsv EXCEPT ![q.b] = q.new]
    BY <1>1 DEF InsertReservation, Current
  <2>3. q.new = [status |-> "CONFIRMED", room |-> q.new.room,
                 from |-> q.new.from, to |-> q.new.to]
    BY <2>1, <2>2 DEF Row
  <2>4. Stay!Book(q.b, q.new.room, q.new.from, q.new.to)
    BY <2>2, <2>3
       DEF Stay!Book, Stay!RoomFree, RoomFree, Stay!Blocking, Blocking,
                      Stay!Overlaps, Overlaps
  <2> QED
    BY <2>1, <2>4 DEF Stay!Next, Stay!Night, Night
<1>2. ASSUME NEW d \in Desks, CommitUpdate(d)
      PROVE  [Stay!Next]_rsv
  <2> DEFINE q == req[d]
  <2>1. /\ q \in Request /\ q.b \in Bookings /\ q.new \in Row /\ rsv[q.b] \in Row
        /\ q.patch \in Patch
        /\ q.new.room \in Rooms /\ q.new.from \in Night /\ q.new.to \in Night
    BY DEF Request, Row
  <2>2. /\ rsv[q.b] = q.old /\ q.old.status # "FREE"
        /\ q.new # q.old => RoomFree(rsv, q.b, q.new)
        /\ q.new = Patched(q.old, q.patch) /\ UpdateAllowed(q.old, q.new)
        /\ rsv' = [rsv EXCEPT ![q.b] = q.new]
    BY <1>2 DEF CommitUpdate, Current, RequestOK
  <2>3. q.new.status = rsv[q.b].status
    BY <2>1, <2>2, PatchedType
  <2>4. q.new = [rsv[q.b] EXCEPT !.room = q.new.room, !.from = q.new.from,
                                 !.to = q.new.to]
    BY <2>1, <2>3 DEF Row
  <2>5. Stay!UpdateAllowed(rsv[q.b], q.new) /\ (q.new # rsv[q.b] => Stay!RoomFree(rsv, q.b, q.new))
    BY <2>2
       DEF Stay!UpdateAllowed, UpdateAllowed, Stay!DatesChanged, DatesChanged,
                Stay!RoomChanged, RoomChanged, Stay!Open, Open, Stay!Blocking, Blocking,
                Stay!RoomFree, RoomFree, Stay!Overlaps, Overlaps
  <2>6. Stay!Amend(q.b, q.new.room, q.new.from, q.new.to)
    BY <2>2, <2>4, <2>5 DEF Stay!Amend
  <2> QED
    BY <2>1, <2>6 DEF Stay!Next, Stay!Night, Night
<1>3. ASSUME NEW d \in Desks, WriteReservation(d)
      PROVE  Stay!Next
  <2> DEFINE q == req[d]
  <2>0. /\ q \in Request /\ q.b \in Bookings /\ rsv[q.b] \in Row /\ q.old \in Row
        /\ q.at = "write" /\ "rsv" \in q.todo
        /\ rsv' = [rsv EXCEPT ![q.b].status = q.new.status]
    BY <1>3 DEF WriteReservation, Request
  <2>a. /\ q.op \in StatusOps /\ StatusAllowed(q.op, q.old)
        /\ q.new = [q.old EXCEPT !.status = StatusWritten(q.op)]
    BY <2>0 DEF RequestOK
  <2>b. rsv[q.b] = q.old
    BY <2>0 DEF Current
  <2>c. q.new.status = StatusWritten(q.op)
    BY <2>0, <2>a DEF Row
  <2>1. /\ q.b \in Bookings
        /\ q.op \in StatusOps /\ StatusAllowed(q.op, rsv[q.b])
        /\ rsv' = [rsv EXCEPT ![q.b].status = StatusWritten(q.op)]
    BY <2>0, <2>a, <2>b, <2>c
  <2>2. \/ Stay!CheckIn(q.b) \/ Stay!CheckOut(q.b)
        \/ Stay!Cancel(q.b) \/ Stay!NoShow(q.b)
    <3>1. CASE q.op = "checkIn"
      <4>1. StatusWritten(q.op) = "CHECKED_IN" /\ Stay!CheckInAllowed(rsv[q.b])
        BY <2>1, <3>1
           DEF StatusWritten, StatusAllowed, CheckInAllowed,
               Stay!CheckInAllowed, Stay!Open, Open
      <4> QED
        BY <2>1, <4>1 DEF Stay!CheckIn, Stay!SetStatus
    <3>2. CASE q.op = "checkOut"
      <4>1. StatusWritten(q.op) = "CHECKED_OUT" /\ Stay!CheckOutAllowed(rsv[q.b])
        BY <2>1, <3>2
           DEF StatusWritten, StatusAllowed, CheckOutAllowed,
               Stay!CheckOutAllowed
      <4> QED
        BY <2>1, <4>1 DEF Stay!CheckOut, Stay!SetStatus
    <3>3. CASE q.op = "cancel"
      <4>1. StatusWritten(q.op) = "CANCELLED" /\ Stay!CancelAllowed(rsv[q.b])
        BY <2>1, <3>3
           DEF StatusWritten, StatusAllowed, CancelAllowed, Stay!CancelAllowed
      <4> QED
        BY <2>1, <4>1 DEF Stay!Cancel, Stay!SetStatus
    <3>4. CASE q.op = "noShow"
      <4>1. StatusWritten(q.op) = "NO_SHOW" /\ Stay!NoShowAllowed(rsv[q.b])
        BY <2>1, <3>4
           DEF StatusWritten, StatusAllowed, NoShowAllowed, Stay!NoShowAllowed,
               Stay!Open, Open
      <4> QED
        BY <2>1, <4>1 DEF Stay!NoShow, Stay!SetStatus
    <3> QED
      BY <2>1, <3>1, <3>2, <3>3, <3>4 DEF StatusOps
  <2> QED
    BY <2>1, <2>2 DEF Stay!Next
<1>4. ASSUME NEW d \in Desks,
             Begin(d) \/ CheckRoom(d) \/ CheckFree(d) \/ MarkReserved(d) \/ WriteRoom(d)
               \/ ChargeFirstNight(d) \/ Abort(d)
      PROVE  rsv' = rsv
  BY <1>4
     DEF Begin, BeginCreate, BeginUpdate, BeginStatus, CheckRoom, CheckFree,
              MarkReserved, WriteRoom, ChargeFirstNight, Abort
<1>5. ASSUME NEW r \in Rooms, NEW s \in ManualStatuses, UpdateRoomStatus(r, s)
      PROVE  rsv' = rsv
  BY <1>5 DEF UpdateRoomStatus
<1> QED
  BY <1>1, <1>2, <1>3, <1>4, <1>5 DEF Next, Proceed, vars

(* With one request at a time the endpoints implement the atomic           *)
(* reservation operations of StayLifecycle.                                *)
THEOREM SerialRequestsAreAtomic ==
  ASSUME Serial PROVE Spec => ImplementsLifecycle
<1>1. Init => TypeOK /\ RequestsOK /\ SerialInv
  BY TypeInit, SerialInit
<1>2. TypeOK /\ RequestsOK /\ SerialInv /\ [Next]_vars
        => TypeOK' /\ RequestsOK' /\ SerialInv'
  BY TypeStep, SerialStep
<1>3. TypeOK /\ RequestsOK /\ SerialInv /\ [Next]_vars => [Stay!Next]_rsv
  BY LifecycleStep
<1>4. Init => Stay!Init
  BY DEF Init, Stay!Init, NoRow, Stay!NoRow
<1> QED
  BY <1>1, <1>2, <1>3, <1>4, PTL DEF Spec, ImplementsLifecycle, Stay!Spec
-----------------------------------------------------------------------------
(***************************************************************************)
(* What requests own.  An id that create() took belongs to that request    *)
(* alone until the row is inserted, no handler writes PENDING, and only a  *)
(* check-in goes on to the folio.                                          *)
(***************************************************************************)
OwnsFresh(q) == q.op = "create" /\ q.at \in {"room", "overlap", "commit"}

FreshOwned ==
  \A d \in Desks : OwnsFresh(req[d]) =>
    /\ rsv[req[d].b].status = "FREE"
    /\ req[d].new.status = "CONFIRMED"
    /\ \A e \in Desks \ {d} : req[e].at = "idle" \/ req[e].b # req[d].b

NeverPending == \A b \in Bookings : rsv[b].status # "PENDING"

OnlyCheckInCharges == \A d \in Desks : req[d].at = "folio" => req[d].op = "checkIn"

RowsOwned == FreshOwned /\ NeverPending /\ OnlyCheckInCharges

LEMMA IdleAtRest == Idle.at = "idle"
  BY DEF Idle

(* A booking written on stale reads or cut stays marked as such.           *)
LEMMA HistoryGrows ==
  ASSUME [Next]_vars
  PROVE  blind \subseteq blind' /\ cut \subseteq cut'
<1>1. ASSUME NEW d \in Desks, Begin(d)
      PROVE  UNCHANGED <<blind, cut>>
  BY <1>1 DEF Begin, BeginCreate, BeginUpdate, BeginStatus
<1>2. ASSUME NEW d \in Desks,
             CheckRoom(d) \/ CheckFree(d) \/ MarkReserved(d) \/ ChargeFirstNight(d)
      PROVE  UNCHANGED <<blind, cut>>
  BY <1>2 DEF CheckRoom, CheckFree, MarkReserved, ChargeFirstNight
<1>3. ASSUME NEW d \in Desks, InsertReservation(d) \/ CommitUpdate(d)
      PROVE  blind \subseteq blind' /\ cut' = cut
  BY <1>3 DEF InsertReservation, CommitUpdate, Mark
<1>4. ASSUME NEW d \in Desks, WriteReservation(d) \/ WriteRoom(d)
      PROVE  blind \subseteq blind' /\ cut' = cut
  BY <1>4 DEF WriteReservation, WriteRoom, Mark
<1>5. ASSUME NEW d \in Desks, Abort(d)
      PROVE  cut \subseteq cut' /\ blind' = blind
  BY <1>5 DEF Abort, Mark
<1>6. ASSUME NEW r \in Rooms, NEW s \in ManualStatuses, UpdateRoomStatus(r, s)
      PROVE  UNCHANGED <<blind, cut>>
  BY <1>6 DEF UpdateRoomStatus
<1> QED
  BY <1>1, <1>2, <1>3, <1>4, <1>5, <1>6 DEF Next, Proceed, vars

(* A request that goes on keeps the id it owns, if it writes no other row. *)
LEMMA OwnerGoesOn ==
  ASSUME TypeOK, FreshOwned, NEW d \in Desks, NEW q,
         req' = [req EXCEPT ![d] = q], req[d].at # "idle",
         q.at = "idle" \/ q.b = req[d].b,
         OwnsFresh(q) => OwnsFresh(req[d]) /\ q.new = req[d].new /\ q.b = req[d].b,
         \A b \in Bookings : \/ rsv'[b].status = rsv[b].status
                             \/ b = req[d].b /\ ~ OwnsFresh(q)
  PROVE  FreshOwned'
<1> SUFFICES ASSUME NEW f \in Desks, OwnsFresh(req'[f])
             PROVE  /\ rsv'[req'[f].b].status = "FREE"
                    /\ req'[f].new.status = "CONFIRMED"
                    /\ \A e \in Desks \ {f} : req'[e].at = "idle" \/ req'[e].b # req'[f].b
  BY DEF FreshOwned, OwnsFresh
<1>1. req'[d] = q /\ \A e \in Desks \ {d} : req'[e] = req[e]
  BY DEF TypeOK
<1>2. \A e \in Desks : req[e].b \in Bookings
  BY DEF TypeOK, Request
<1>3. CASE f = d
  BY <1>1, <1>2, <1>3 DEF FreshOwned
<1>4. CASE f # d
  <2>1. OwnsFresh(req[f]) /\ req'[f] = req[f]
    BY <1>1, <1>4
  <2>2. req[d].b # req[f].b
    BY <2>1, <1>4 DEF FreshOwned
  <2> QED
    BY <1>1, <1>2, <2>1, <2>2, <1>4 DEF FreshOwned
<1> QED
  BY <1>3, <1>4

(* A new request takes an id nobody uses, or a row that exists.            *)
LEMMA OwnerBegins ==
  ASSUME TypeOK, FreshOwned, NEW d \in Desks, NEW q,
         req' = [req EXCEPT ![d] = q], rsv' = rsv, req[d].at = "idle",
         \/ Fresh(q.b) /\ q.new.status = "CONFIRMED"
         \/ rsv[q.b].status # "FREE" /\ ~ OwnsFresh(q)
  PROVE  FreshOwned'
<1> SUFFICES ASSUME NEW f \in Desks, OwnsFresh(req'[f])
             PROVE  /\ rsv'[req'[f].b].status = "FREE"
                    /\ req'[f].new.status = "CONFIRMED"
                    /\ \A e \in Desks \ {f} : req'[e].at = "idle" \/ req'[e].b # req'[f].b
  BY DEF FreshOwned, OwnsFresh
<1>1. req'[d] = q /\ \A e \in Desks \ {d} : req'[e] = req[e]
  BY DEF TypeOK
<1>3. CASE f = d
  BY <1>1, <1>3 DEF Fresh
<1>4. CASE f # d
  <2>1. OwnsFresh(req[f]) /\ req'[f] = req[f]
    BY <1>1, <1>4
  <2>2. q.b # req[f].b
    BY <2>1, <1>4 DEF FreshOwned, Fresh, OwnsFresh
  <2> QED
    BY <1>1, <2>1, <2>2, <1>4 DEF FreshOwned
<1> QED
  BY <1>3, <1>4

(* A request that has just begun has written nothing.                      *)
Untouched(q) ==
  q.at \in {"room", "commit"} \/ (q.at = "write" /\ q.todo = {"rsv", "room"})

LEMMA Begins ==
  ASSUME NEW d \in Desks, Begin(d)
  PROVE  /\ \E q : req' = [req EXCEPT ![d] = q] /\ Untouched(q)
         /\ req[d].at = "idle"
         /\ UNCHANGED <<rsv, room, folio, blind, cut>>
<1>1. ASSUME NEW c \in Bookings, NEW r \in Rooms, NEW stay \in Stays,
             BeginCreate(d, c, r, stay)
      PROVE  \E q : req' = [req EXCEPT ![d] = q] /\ Untouched(q)
  <2> DEFINE q == [op |-> "create", at |-> "room", b |-> c, old |-> rsv[c],
                   new |-> [status |-> "CONFIRMED", room |-> r,
                            from |-> stay[1], to |-> stay[2]],
                   patch |-> NoPatch, todo |-> {}]
  <2>1. req' = [req EXCEPT ![d] = q] /\ q.at = "room"
    BY <1>1 DEF BeginCreate
  <2> HIDE DEF q
  <2> QED
    BY <2>1 DEF Untouched
<1>2. ASSUME NEW c \in Bookings, NEW p \in Patches, BeginUpdate(d, c, p)
      PROVE  \E q : req' = [req EXCEPT ![d] = q] /\ Untouched(q)
  <2> DEFINE q == [op |-> "update",
                   at |-> IF Patched(rsv[c], p) = rsv[c] THEN "commit" ELSE "room",
                   b |-> c, old |-> rsv[c], new |-> Patched(rsv[c], p),
                   patch |-> p, todo |-> {}]
  <2>1. req' = [req EXCEPT ![d] = q] /\ q.at \in {"room", "commit"}
    BY <1>2 DEF BeginUpdate
  <2> HIDE DEF q
  <2> QED
    BY <2>1 DEF Untouched
<1>3. ASSUME NEW c \in Bookings, NEW op \in StatusOps, BeginStatus(d, c, op)
      PROVE  \E q : req' = [req EXCEPT ![d] = q] /\ Untouched(q)
  <2> DEFINE q == [op |-> op, at |-> "write", b |-> c, old |-> rsv[c],
                   new |-> [rsv[c] EXCEPT !.status = StatusWritten(op)],
                   patch |-> NoPatch, todo |-> {"rsv", "room"}]
  <2>1. req' = [req EXCEPT ![d] = q] /\ q.at = "write" /\ q.todo = {"rsv", "room"}
    BY <1>3 DEF BeginStatus
  <2> HIDE DEF q
  <2> QED
    BY <2>1 DEF Untouched
<1>4. req[d].at = "idle" /\ UNCHANGED <<rsv, room, folio, blind, cut>>
  BY DEF Begin, BeginCreate, BeginUpdate, BeginStatus
<1> QED
  BY <1>1, <1>2, <1>3, <1>4 DEF Begin

(* How each step of a request under way changes it.                        *)
LEMMA GoesOn ==
  ASSUME TypeOK, RequestsOK, NEW d \in Desks, Proceed(d) \/ Abort(d)
  PROVE  \E q \in Request :
           /\ req' = [req EXCEPT ![d] = q]
           /\ q = Idle \/ (q.b = req[d].b /\ q.op = req[d].op /\ q.new = req[d].new)
           /\ q.at \in {"overlap", "commit"} => req[d].at \in {"room", "overlap"}
           /\ q.at = "folio" => q.op = "checkIn"
           /\ q.at # "room"
<1>0. /\ req[d] \in Request
      /\ \A s \in Stages : [req[d] EXCEPT !.at = s] \in Request
      /\ Idle \in Request /\ Idle.at = "idle"
  BY IdleTypes, NextStage DEF TypeOK, Idle
<1>1. CASE Finish(d)
  BY <1>0, <1>1 DEF Finish
<1>2. ASSUME NEW s \in {"overlap", "commit", "mark"}, Goto(d, s),
             s # "mark" => req[d].at \in {"room", "overlap"}
      PROVE  \E q \in Request :
           /\ req' = [req EXCEPT ![d] = q]
           /\ q = Idle \/ (q.b = req[d].b /\ q.op = req[d].op /\ q.new = req[d].new)
           /\ q.at \in {"overlap", "commit"} => req[d].at \in {"room", "overlap"}
           /\ q.at = "folio" => q.op = "checkIn"
           /\ q.at # "room"
  <2> DEFINE q == [req[d] EXCEPT !.at = s]
  <2>1. /\ q \in Request /\ q.at = s /\ q.b = req[d].b /\ q.op = req[d].op
        /\ q.new = req[d].new
    BY <1>0, <1>2 DEF Stages, Request
  <2>2. req' = [req EXCEPT ![d] = q]
    BY <1>2 DEF Goto
  <2> HIDE DEF q
  <2> QED
    BY <1>2, <2>1, <2>2
<1>3. ASSUME NEW t \in {"rsv", "room"}, Wrote(d, t), req[d].at = "write"
      PROVE  \E q \in Request :
           /\ req' = [req EXCEPT ![d] = q]
           /\ q = Idle \/ (q.b = req[d].b /\ q.op = req[d].op /\ q.new = req[d].new)
           /\ q.at \in {"overlap", "commit"} => req[d].at \in {"room", "overlap"}
           /\ q.at = "folio" => q.op = "checkIn"
           /\ q.at # "room"
  <2> DEFINE q1 == [req[d] EXCEPT !.todo = req[d].todo \ {t}]
             q2 == [req[d] EXCEPT !.todo = {}, !.at = "folio"]
  <2>1. /\ q1 \in Request /\ q1.at = "write" /\ q1.b = req[d].b /\ q1.op = req[d].op
        /\ q1.new = req[d].new
    BY <1>0, <1>3 DEF Request
  <2>2. /\ q2 \in Request /\ q2.at = "folio" /\ q2.b = req[d].b /\ q2.op = req[d].op
        /\ q2.new = req[d].new
    <3>1. req[d] \in Request
      BY <1>0
    <3>2. q2 \in Request
      BY <3>1 DEF Request, Stages
    <3> QED
      BY <3>1, <3>2 DEF Request
  <2>3. \/ req' = [req EXCEPT ![d] = q1]
        \/ req' = [req EXCEPT ![d] = q2] /\ req[d].op = "checkIn"
        \/ req' = [req EXCEPT ![d] = Idle]
    BY <1>3 DEF Wrote
  <2> HIDE DEF q1, q2
  <2> QED
    BY <1>0, <2>1, <2>2, <2>3
<1>4. CASE CheckRoom(d)
  BY <1>4, <1>1, <1>2 DEF CheckRoom
<1>5. CASE CheckFree(d)
  BY <1>5, <1>1, <1>2 DEF CheckFree
<1>6. CASE InsertReservation(d)
  BY <1>6, <1>2 DEF InsertReservation
<1>7. CASE WriteReservation(d)
  BY <1>7, <1>3 DEF WriteReservation
<1>8. CASE WriteRoom(d)
  BY <1>8, <1>3 DEF WriteRoom
<1>9. CASE MarkReserved(d) \/ CommitUpdate(d) \/ ChargeFirstNight(d) \/ Abort(d)
  BY <1>9, <1>1 DEF MarkReserved, CommitUpdate, ChargeFirstNight, Abort
<1> QED
  BY <1>4, <1>5, <1>6, <1>7, <1>8, <1>9 DEF Proceed

LEMMA OwnedStep == TypeOK /\ RequestsOK /\ RowsOwned /\ [Next]_vars => RowsOwned'
<1> SUFFICES ASSUME TypeOK, RequestsOK, RowsOwned, [Next]_vars
             PROVE  RowsOwned'
  OBVIOUS
<1>t. /\ FreshOwned /\ NeverPending /\ OnlyCheckInCharges
      /\ \A d \in Desks : req[d] \in Request /\ req[d].b \in Bookings
      /\ \A b \in Bookings : rsv[b] \in Row
      /\ Idle.at = "idle"
  BY DEF RowsOwned, TypeOK, Request, Idle
<1>a. ASSUME NEW d \in Desks, NEW b \in Bookings, NEW r \in Rooms, NEW stay \in Stays,
             BeginCreate(d, b, r, stay)
      PROVE  RowsOwned'
  <2> DEFINE q == [op |-> "create", at |-> "room", b |-> b, old |-> rsv[b],
                   new |-> [status |-> "CONFIRMED", room |-> r,
                            from |-> stay[1], to |-> stay[2]],
                   patch |-> NoPatch, todo |-> {}]
  <2>1. /\ req' = [req EXCEPT ![d] = q] /\ rsv' = rsv /\ req[d].at = "idle" /\ Fresh(b)
        /\ q.b = b /\ q.new.status = "CONFIRMED" /\ q.at # "folio"
    BY <1>a DEF BeginCreate
  <2> HIDE DEF q
  <2>2. FreshOwned'
    BY <2>1, <1>t, OwnerBegins
  <2> QED
    BY <2>1, <2>2, <1>t DEF RowsOwned, NeverPending, OnlyCheckInCharges, TypeOK
<1>b. ASSUME NEW d \in Desks, NEW b \in Bookings, NEW p \in Patches,
             BeginUpdate(d, b, p)
      PROVE  RowsOwned'
  <2> DEFINE q == [op |-> "update",
                   at |-> IF Patched(rsv[b], p) = rsv[b] THEN "commit" ELSE "room",
                   b |-> b, old |-> rsv[b], new |-> Patched(rsv[b], p),
                   patch |-> p, todo |-> {}]
  <2>1. /\ req' = [req EXCEPT ![d] = q] /\ rsv' = rsv /\ req[d].at = "idle"
        /\ q.b = b /\ rsv[b].status # "FREE" /\ q.at # "folio" /\ ~ OwnsFresh(q)
    BY <1>b DEF BeginUpdate, OwnsFresh
  <2> HIDE DEF q
  <2>2. FreshOwned'
    BY <2>1, <1>t, OwnerBegins
  <2> QED
    BY <2>1, <2>2, <1>t DEF RowsOwned, NeverPending, OnlyCheckInCharges, TypeOK
<1>c. ASSUME NEW d \in Desks, NEW b \in Bookings, NEW op \in StatusOps,
             BeginStatus(d, b, op)
      PROVE  RowsOwned'
  <2> DEFINE q == [op |-> op, at |-> "write", b |-> b, old |-> rsv[b],
                   new |-> [rsv[b] EXCEPT !.status = StatusWritten(op)],
                   patch |-> NoPatch, todo |-> {"rsv", "room"}]
  <2>1. /\ req' = [req EXCEPT ![d] = q] /\ rsv' = rsv /\ req[d].at = "idle"
        /\ q.b = b /\ q.at # "folio" /\ ~ OwnsFresh(q)
    BY <1>c DEF BeginStatus, OwnsFresh
  <2>2. rsv[b].status # "FREE"
    BY <1>c DEF BeginStatus, StatusAllowed, StatusOps, CheckInAllowed, CheckOutAllowed,
                CancelAllowed, NoShowAllowed, Open
  <2> HIDE DEF q
  <2>3. FreshOwned'
    BY <2>1, <2>2, <1>t, OwnerBegins
  <2> QED
    BY <2>1, <2>3, <1>t DEF RowsOwned, NeverPending, OnlyCheckInCharges, TypeOK
<1>d. ASSUME NEW d \in Desks, Proceed(d) \/ Abort(d)
      PROVE  RowsOwned'
  <2>1. PICK q \in Request :
           /\ req' = [req EXCEPT ![d] = q]
           /\ q = Idle \/ (q.b = req[d].b /\ q.op = req[d].op /\ q.new = req[d].new)
           /\ q.at \in {"overlap", "commit"} => req[d].at \in {"room", "overlap"}
           /\ q.at = "folio" => q.op = "checkIn"
           /\ q.at # "room"
    BY <1>d, GoesOn
  <2>2. /\ req[d].at # "idle" /\ (q.at = "idle" \/ q.b = req[d].b)
        /\ OwnsFresh(q) => OwnsFresh(req[d]) /\ q.new = req[d].new /\ q.b = req[d].b
    <3>1. req[d].at # "idle"
      BY <1>d DEF Proceed, CheckRoom, CheckFree, InsertReservation, MarkReserved,
                  CommitUpdate, WriteReservation, WriteRoom, ChargeFirstNight, Abort
    <3> QED
      BY <2>1, <3>1, <1>t DEF OwnsFresh
  <2>3. CASE rsv' = rsv
    <3>1. FreshOwned'
      BY <1>t, <2>1, <2>2, <2>3, OwnerGoesOn
    <3> QED
      BY <2>1, <2>3, <3>1, <1>t DEF RowsOwned, NeverPending, OnlyCheckInCharges, TypeOK
  <2>4. ASSUME NEW row \in Row, rsv' = [rsv EXCEPT ![req[d].b] = row],
               row.status # "PENDING", row.status = rsv[req[d].b].status \/ ~ OwnsFresh(q)
        PROVE  RowsOwned'
    <3>1. rsv'[req[d].b] = row /\ \A b \in Bookings : b # req[d].b => rsv'[b] = rsv[b]
      <4>1. rsv \in [Bookings -> Row] /\ req[d].b \in Bookings
        BY <1>t DEF TypeOK
      <4> QED
        BY <2>4, <4>1
    <3>2. FreshOwned'
      <4>1. \A b \in Bookings : \/ rsv'[b].status = rsv[b].status
                                \/ b = req[d].b /\ ~ OwnsFresh(q)
        BY <2>4, <3>1
      <4>2. req' = [req EXCEPT ![d] = q] /\ FreshOwned
        BY <1>t, <2>1
      <4> QED
        BY <2>2, <4>1, <4>2, OwnerGoesOn
    <3> QED
      BY <2>1, <2>4, <3>1, <3>2, <1>t DEF RowsOwned, NeverPending, OnlyCheckInCharges, TypeOK
  <2>5. CASE InsertReservation(d)
    <3>1. /\ req[d].new \in Row /\ req[d].new.status = "CONFIRMED"
          /\ rsv' = [rsv EXCEPT ![req[d].b] = req[d].new]
          /\ req' = [req EXCEPT ![d].at = "mark"]
      BY <2>5, <1>t DEF InsertReservation, Goto, FreshOwned, OwnsFresh, Request
    <3>2. ~ OwnsFresh(q)
      BY <2>1, <3>1, <1>t DEF OwnsFresh, TypeOK, Request
    <3> QED
      BY <3>1, <3>2, <2>4
  <2>6. CASE CommitUpdate(d)
    <3>1. /\ rsv' = [rsv EXCEPT ![req[d].b] = Patched(rsv[req[d].b], req[d].patch)]
          /\ req[d].patch \in Patch
      BY <2>6, <1>t DEF CommitUpdate, Request
    <3> DEFINE row == Patched(rsv[req[d].b], req[d].patch)
    <3>2. row \in Row /\ row.status = rsv[req[d].b].status
      BY <3>1, <1>t, PatchedType
    <3>3. row.status # "PENDING"
      BY <3>2, <1>t DEF NeverPending
    <3> HIDE DEF row
    <3>4. rsv' = [rsv EXCEPT ![req[d].b] = row]
      BY <3>1 DEF row
    <3> QED
      BY <3>2, <3>3, <3>4, <2>4
  <2>7. CASE WriteReservation(d)
    <3> DEFINE row == [rsv[req[d].b] EXCEPT !.status = req[d].new.status]
    <3>1. /\ rsv' = [rsv EXCEPT ![req[d].b] = row] /\ req[d].at = "write"
      BY <2>7 DEF WriteReservation
    <3>2. req[d].op \in StatusOps /\ req[d].new.status = StatusWritten(req[d].op)
      <4>1. RequestOK(req[d]) /\ req[d].old \in Row
        BY <1>t DEF RequestsOK, Request
      <4> QED
        BY <3>1, <4>1 DEF RequestOK, Row
    <3>3. row \in Row /\ row.status # "PENDING"
      BY <3>2, <1>t, StatusWrittenType DEF Row, StatusOps, StatusWritten
    <3>4. ~ OwnsFresh(q)
      BY <3>2, <2>1, <1>t DEF OwnsFresh, StatusOps
    <3> HIDE DEF row
    <3> QED
      BY <3>1, <3>3, <3>4, <2>4
  <2> QED
    BY <1>d, <2>3, <2>5, <2>6, <2>7
       DEF Proceed, CheckRoom, CheckFree, MarkReserved, WriteRoom, ChargeFirstNight, Abort
<1>e. CASE UNCHANGED <<rsv, req>>
  BY <1>e, <1>t DEF RowsOwned, FreshOwned, NeverPending, OnlyCheckInCharges
<1>f. ASSUME NEW r \in Rooms, NEW s \in ManualStatuses, UpdateRoomStatus(r, s)
      PROVE  RowsOwned'
  BY <1>e, <1>f DEF UpdateRoomStatus
<1> QED
  BY <1>a, <1>b, <1>c, <1>d, <1>e, <1>f DEF Next, Begin, vars

LEMMA OwnedInit == Init => RowsOwned
<1>1. NoRow.status = "FREE" /\ Idle.at = "idle"
  BY DEF NoRow, Idle
<1> QED
  BY <1>1 DEF Init, RowsOwned, FreshOwned, NeverPending, OnlyCheckInCharges, OwnsFresh

(* What a write to the reservation table does to its row: a booking not in *)
(* blind had the status and the dates its request had read.                *)
LEMMA RowWrites ==
  ASSUME TypeOK, RequestsOK, RowsOwned, NEW d \in Desks,
         InsertReservation(d) \/ CommitUpdate(d) \/ WriteReservation(d)
  PROVE  LET q == req[d]
             b == q.b
         IN  /\ b \in Bookings /\ q \in Request
             /\ \A c \in Bookings \ {b} : rsv'[c] = rsv[c]
             /\ rsv'[b] \in Row
             /\ \/ InsertReservation(d) /\ rsv[b].status = "FREE" /\ rsv'[b] = q.new
                   /\ q.new.status = "CONFIRMED"
                \/ CommitUpdate(d) /\ rsv'[b].status = rsv[b].status
                   /\ (b \notin blind' => /\ rsv[b] = q.old /\ rsv'[b] = q.new
                                         /\ UpdateAllowed(q.old, q.new) /\ ~ Torn(d, b))
                \/ WriteReservation(d) /\ rsv'[b] = [rsv[b] EXCEPT !.status = q.new.status]
                   /\ q.op \in StatusOps /\ q.new.status = StatusWritten(q.op)
                   /\ (b \notin blind' => /\ rsv[b] = q.old /\ StatusAllowed(q.op, rsv[b])
                                         /\ ~ Torn(d, b))
<1> DEFINE q == req[d]
           b == q.b
<1>0. /\ q \in Request /\ b \in Bookings /\ q.new \in Row /\ q.old \in Row /\ q.patch \in Patch
      /\ rsv[b] \in Row
  BY DEF TypeOK, Request
<1>1. CASE InsertReservation(d)
  <2>1. rsv' = [rsv EXCEPT ![b] = q.new] /\ q.op = "create" /\ q.at = "commit"
    BY <1>1 DEF InsertReservation
  <2>2. rsv[b].status = "FREE" /\ q.new.status = "CONFIRMED"
    BY <2>1 DEF RowsOwned, FreshOwned, OwnsFresh
  <2> QED
    BY <1>0, <1>1, <2>1, <2>2 DEF TypeOK
<1>2. CASE CommitUpdate(d)
  <2>1. /\ rsv' = [rsv EXCEPT ![b] = Patched(rsv[b], q.patch)]
        /\ q.op = "update" /\ q.at = "commit"
        /\ b \notin blind' => rsv[b] = q.old /\ ~ Torn(d, b)
    BY <1>2 DEF CommitUpdate, Mark
  <2>2. q.new = Patched(q.old, q.patch) /\ UpdateAllowed(q.old, q.new)
    BY <2>1 DEF RequestsOK, RequestOK
  <2>3. Patched(rsv[b], q.patch) \in Row /\ Patched(rsv[b], q.patch).status = rsv[b].status
    BY <1>0, PatchedType
  <2>4. /\ rsv'[b] = Patched(rsv[b], q.patch)
        /\ \A c \in Bookings \ {b} : rsv'[c] = rsv[c]
    BY <1>0, <2>1 DEF TypeOK
  <2> QED
    BY <1>0, <1>2, <2>1, <2>2, <2>3, <2>4
<1>3. CASE WriteReservation(d)
  <2> DEFINE row == [rsv[b] EXCEPT !.status = q.new.status]
  <2>1. /\ rsv' = [rsv EXCEPT ![b] = row] /\ q.at = "write"
        /\ b \notin blind' => rsv[b] = q.old /\ ~ Torn(d, b)
    BY <1>3 DEF WriteReservation, Mark
  <2>2. /\ q.op \in StatusOps /\ StatusAllowed(q.op, q.old)
        /\ q.new.status = StatusWritten(q.op)
    BY <1>0, <2>1 DEF RequestsOK, RequestOK, Row
  <2>3. row \in Row
    BY <1>0 DEF Row
  <2>4. rsv'[b] = row /\ \A c \in Bookings \ {b} : rsv'[c] = rsv[c]
    BY <1>0, <2>1 DEF TypeOK
  <2> QED
    BY <1>0, <1>3, <2>1, <2>2, <2>3, <2>4
<1> QED
  BY <1>1, <1>2, <1>3

(* Every step that writes the reservation table is one of those.           *)
LEMMA OnlyRowWrites ==
  ASSUME [Next]_vars, rsv' # rsv
  PROVE  \E d \in Desks : InsertReservation(d) \/ CommitUpdate(d) \/ WriteReservation(d)
  BY DEF Next, vars, Begin, BeginCreate, BeginUpdate, BeginStatus, Abort, UpdateRoomStatus,
         Proceed, CheckRoom, CheckFree, MarkReserved, WriteRoom, ChargeFirstNight

LEMMA MoveStep ==
  ASSUME TypeOK, RequestsOK, RowsOwned, [Next]_vars
  PROVE  \A b \in Bookings \ blind' : LifecycleMove(b)
<1> SUFFICES ASSUME NEW b \in Bookings \ blind', rsv'[b] # rsv[b]
             PROVE  LifecycleMove(b)
  BY DEF LifecycleMove
<1>1. PICK d \in Desks : InsertReservation(d) \/ CommitUpdate(d) \/ WriteReservation(d)
  BY OnlyRowWrites
<1> DEFINE q == req[d]
<1>2. b = q.b
  BY <1>1, RowWrites
<1>3. rsv[b] \in Row /\ rsv[b].status # "PENDING"
  BY DEF TypeOK, RowsOwned, NeverPending
<1>4. CASE rsv[b].status = "FREE" /\ rsv'[b] = q.new /\ q.new.status = "CONFIRMED"
  BY <1>4 DEF LifecycleMove, LifecycleSteps
<1>5. CASE /\ rsv'[b].status = rsv[b].status
           /\ UpdateAllowed(rsv[b], rsv'[b])
  BY <1>5 DEF LifecycleMove, UpdateAllowed, DatesChanged, Open
<1>6. CASE /\ rsv'[b] = [rsv[b] EXCEPT !.status = q.new.status]
           /\ q.op \in StatusOps /\ q.new.status = StatusWritten(q.op)
           /\ StatusAllowed(q.op, rsv[b])
  <2>1. /\ rsv'[b].status = StatusWritten(q.op)
        /\ rsv'[b].from = rsv[b].from /\ rsv'[b].to = rsv[b].to
    BY <1>3, <1>6 DEF Row
  <2>2. StatusWritten(q.op) = rsv[b].status \/ <<rsv[b].status, StatusWritten(q.op)>> \in LifecycleSteps
    BY <1>3, <1>6 DEF StatusOps, StatusAllowed, StatusWritten, CheckInAllowed, CheckOutAllowed,
        CancelAllowed, NoShowAllowed, Open, LifecycleSteps, Row, ReservationStatus
  <2> QED
    BY <2>1, <2>2 DEF LifecycleMove
<1> QED
  BY <1>1, <1>2, <1>4, <1>5, <1>6, RowWrites

(* Whatever requests overlap, a booking not written on stale reads moves   *)
(* along its lifecycle only, and keeps its dates once the guest is in.     *)
THEOREM LifecycleIsKept == Spec => LifecycleKept
<1>1. TypeOK /\ RequestsOK /\ RowsOwned /\ [Next]_vars
        => TypeOK' /\ RequestsOK' /\ RowsOwned'
  BY TypeStep, OwnedStep
<1>2. TypeOK /\ RequestsOK /\ RowsOwned /\ [Next]_vars
        => [\A b \in Bookings \ blind' : LifecycleMove(b)]_vars
  BY MoveStep
<1> QED
  BY TypeInit, OwnedInit, <1>1, <1>2, PTL DEF Spec, LifecycleKept

-----------------------------------------------------------------------------
(***************************************************************************)
(* The first night.  A check-in that has written CHECKED_IN owes the folio *)
(* its first night until it has charged it, and no two check-ins owe one   *)
(* for the same booking: the second would have read an open row.           *)
(***************************************************************************)
Arrived(row) == row.status \in {"CHECKED_IN", "CHECKED_OUT"}

Owes(q, b) ==
  /\ q.op = "checkIn"
  /\ q.b = b
  /\ q.at = "folio" \/ (q.at = "write" /\ "rsv" \notin q.todo)

NightOwedOrCharged(b) ==
  /\ folio[b] \in {0, 1}
  /\ folio[b] = 1 => Arrived(rsv[b])
  /\ Arrived(rsv[b]) => folio[b] = 1 \/ \E d \in Desks : Owes(req[d], b)
  /\ \A d \in Desks : Owes(req[d], b) => folio[b] = 0 /\ Arrived(rsv[b])
  /\ \A d, e \in Desks : Owes(req[d], b) /\ Owes(req[e], b) => d = e

FirstNights == \A b \in Bookings \ (blind \cup cut) : NightOwedOrCharged(b)

LEMMA NightsInit == Init => FirstNights
<1>1. NoRow.status = "FREE" /\ Idle.at = "idle"
  BY DEF NoRow, Idle
<1> QED
  BY <1>1 DEF Init, FirstNights, NightOwedOrCharged, Owes, Arrived

LEMMA NightsStep ==
  ASSUME TypeOK, RequestsOK, RowsOwned, FirstNights, [Next]_vars
  PROVE  FirstNights'
<1> SUFFICES ASSUME NEW b \in Bookings \ (blind' \cup cut')
             PROVE  NightOwedOrCharged(b)'
  BY DEF FirstNights
<1>t. /\ \A d \in Desks : req[d] \in Request /\ req[d].todo \subseteq {"rsv", "room"}
      /\ rsv[b] \in Row /\ folio[b] \in Nat
      /\ Idle.at = "idle"
  BY IdleAtRest DEF TypeOK, Request
<1>0. blind \subseteq blind' /\ cut \subseteq cut'
  BY HistoryGrows
<1>1. NightOwedOrCharged(b)
  BY <1>0 DEF FirstNights
<1>2. ASSUME NEW d \in Desks, NEW q, req' = [req EXCEPT ![d] = q],
             Owes(q, b) <=> Owes(req[d], b),
             folio'[b] = folio[b], Arrived(rsv'[b]) <=> Arrived(rsv[b])
      PROVE  NightOwedOrCharged(b)'
  <2>1. \A e \in Desks : Owes(req'[e], b) <=> Owes(req[e], b)
    BY <1>2 DEF TypeOK
  <2>2. Arrived(rsv[b])' <=> Arrived(rsv[b])
    BY <1>2 DEF Arrived
  <2>3. \A e \in Desks : Owes(req[e], b)' <=> Owes(req[e], b)
    BY <2>1 DEF Owes
  <2> QED
    BY <1>1, <1>2, <2>2, <2>3 DEF NightOwedOrCharged
<1>a. ASSUME NEW d \in Desks, Begin(d)
      PROVE  NightOwedOrCharged(b)'
  <2>1. PICK q : req' = [req EXCEPT ![d] = q] /\ Untouched(q)
    BY <1>a, Begins
  <2>2. ~ Owes(q, b) /\ ~ Owes(req[d], b) /\ rsv' = rsv /\ folio' = folio
    BY <1>a, <2>1, Begins DEF Owes, Untouched
  <2> QED
    BY <1>2, <2>1, <2>2
<1>b. ASSUME NEW d \in Desks,
             CheckRoom(d) \/ CheckFree(d) \/ InsertReservation(d) \/ MarkReserved(d) \/ CommitUpdate(d)
      PROVE  NightOwedOrCharged(b)'
  <2>1. \E q : req' = [req EXCEPT ![d] = q] /\ q.at \in {"idle", "overlap", "commit", "mark"}
    <3>1. \A s \in Stages : [req[d] EXCEPT !.at = s].at = s
      BY <1>t DEF Request
    <3>2. /\ \/ \E s \in {"overlap", "commit", "mark"} : req' = [req EXCEPT ![d] = [req[d] EXCEPT !.at = s]]
             \/ req' = [req EXCEPT ![d] = Idle]
      BY <1>b DEF CheckRoom, CheckFree, InsertReservation, MarkReserved, CommitUpdate, Goto, Finish
    <3> QED
      BY <1>t, <3>1, <3>2 DEF Stages
  <2>2. /\ req[d].at \in {"room", "overlap", "commit", "mark"} /\ folio' = folio
    BY <1>b DEF CheckRoom, CheckFree, InsertReservation, MarkReserved, CommitUpdate
  <2>3. Arrived(rsv'[b]) <=> Arrived(rsv[b])
    <3>1. CASE rsv' = rsv
      BY <3>1
    <3>2. CASE InsertReservation(d) \/ CommitUpdate(d)
      <4>1. ~ WriteReservation(d)
        BY <2>2 DEF WriteReservation
      <4> QED
        BY <3>2, <4>1, RowWrites DEF Arrived
    <3> QED
      BY <1>b, <3>1, <3>2 DEF CheckRoom, CheckFree, MarkReserved
  <2> QED
    BY <1>2, <2>1, <2>2, <2>3 DEF Owes
<1>c. ASSUME NEW d \in Desks, NEW t \in {"rsv", "room"}, Wrote(d, t), req[d].at = "write",
             t \in req[d].todo
      PROVE  \E q : /\ req' = [req EXCEPT ![d] = q]
                    /\ Owes(q, b) <=> /\ req[d].op = "checkIn" /\ req[d].b = b
                                      /\ "rsv" \notin req[d].todo \ {t}
  <2> DEFINE left == req[d].todo \ {t}
             q1 == [req[d] EXCEPT !.todo = left]
             q2 == [req[d] EXCEPT !.todo = {}, !.at = "folio"]
  <2>1. q1.todo = left /\ q1.at = "write" /\ q1.b = req[d].b /\ q1.op = req[d].op
    BY <1>t, <1>c DEF Request
  <2>2. q2.at = "folio" /\ q2.b = req[d].b /\ q2.op = req[d].op
    <3>1. req[d] \in Request
      BY <1>t
    <3> QED
      BY <3>1 DEF Request
  <2>3. \/ left # {} /\ req' = [req EXCEPT ![d] = q1]
        \/ left = {} /\ req' = [req EXCEPT ![d] = q2] /\ req[d].op = "checkIn"
        \/ req' = [req EXCEPT ![d] = Idle] /\ req[d].op # "checkIn"
    BY <1>c DEF Wrote
  <2> HIDE DEF q1, q2
  <2> QED
    BY <1>t, <2>1, <2>2, <2>3 DEF Owes
<1>d. ASSUME NEW d \in Desks, WriteRoom(d)
      PROVE  NightOwedOrCharged(b)'
  <2>1. /\ req[d].at = "write" /\ "room" \in req[d].todo /\ Wrote(d, "room")
        /\ rsv' = rsv /\ folio' = folio
    BY <1>d DEF WriteRoom
  <2>2. PICK q : /\ req' = [req EXCEPT ![d] = q]
                 /\ Owes(q, b) <=> /\ req[d].op = "checkIn" /\ req[d].b = b
                                   /\ "rsv" \notin req[d].todo \ {"room"}
    BY <2>1, <1>c
  <2>3. Owes(q, b) <=> Owes(req[d], b)
    BY <2>1, <2>2 DEF Owes
  <2> QED
    BY <1>2, <2>1, <2>2, <2>3
<1>e. ASSUME NEW d \in Desks, WriteReservation(d)
      PROVE  NightOwedOrCharged(b)'
  <2>1. /\ req[d].at = "write" /\ "rsv" \in req[d].todo /\ Wrote(d, "rsv") /\ folio' = folio
    BY <1>e DEF WriteReservation
  <2>2. PICK q : /\ req' = [req EXCEPT ![d] = q]
                 /\ Owes(q, b) <=> req[d].op = "checkIn" /\ req[d].b = b
    BY <2>1, <1>c
  <2>3. ~ Owes(req[d], b)
    BY <2>1 DEF Owes
  <2>4. CASE req[d].b # b
    <3>1. rsv'[b] = rsv[b]
      BY <1>e, <2>4, RowWrites
    <3> QED
      BY <1>2, <2>1, <2>2, <2>3, <2>4, <3>1
  <2>5. CASE req[d].b = b
    <3>1. /\ rsv'[b] = [rsv[b] EXCEPT !.status = req[d].new.status]
          /\ req[d].op \in StatusOps
          /\ req[d].new.status = StatusWritten(req[d].op)
          /\ StatusAllowed(req[d].op, rsv[b])
      <4>1. ~ InsertReservation(d) /\ ~ CommitUpdate(d)
        BY <2>1 DEF InsertReservation, CommitUpdate
      <4> QED
        BY <1>e, <2>5, <4>1, RowWrites
    <3>2. rsv'[b].status = StatusWritten(req[d].op)
      BY <1>t, <3>1 DEF Row
    <3>3. CASE req[d].op = "checkIn"
      <4>1. Arrived(rsv'[b]) /\ ~ Arrived(rsv[b])
        BY <3>1, <3>2, <3>3 DEF Arrived, StatusWritten, StatusAllowed, CheckInAllowed, Open
      <4>2. folio'[b] = 0 /\ \A e \in Desks : ~ Owes(req[e], b)
        BY <1>1, <2>1, <4>1 DEF NightOwedOrCharged
      <4>3. req'[d] = q /\ \A e \in Desks \ {d} : req'[e] = req[e]
        BY <2>2 DEF TypeOK
      <4>4. \A e \in Desks : Owes(req'[e], b) <=> e = d
        BY <2>2, <2>5, <3>3, <4>2, <4>3
      <4>5. /\ Arrived(rsv[b])'
            /\ \A e \in Desks : Owes(req[e], b)' <=> e = d
        BY <4>1, <4>4 DEF Arrived, Owes
      <4> QED
        BY <4>2, <4>5 DEF NightOwedOrCharged
    <3>4. CASE req[d].op # "checkIn"
      <4>1. Arrived(rsv'[b]) <=> Arrived(rsv[b])
        BY <3>1, <3>2, <3>4 DEF Arrived, StatusWritten, StatusOps, StatusAllowed,
           CheckOutAllowed, CancelAllowed, NoShowAllowed, Open
      <4> QED
        BY <1>2, <2>1, <2>2, <2>3, <3>4, <4>1
    <3> QED
      BY <3>3, <3>4
  <2> QED
    BY <2>4, <2>5
<1>f. ASSUME NEW d \in Desks, ChargeFirstNight(d)
      PROVE  NightOwedOrCharged(b)'
  <2>1. /\ req' = [req EXCEPT ![d] = Idle] /\ rsv' = rsv /\ req[d].at = "folio"
        /\ folio' = [folio EXCEPT ![req[d].b] = folio[req[d].b] + 1]
        /\ req[d].op = "checkIn" /\ ~ Owes(Idle, b)
    BY <1>f, <1>t DEF ChargeFirstNight, Finish, RowsOwned, OnlyCheckInCharges, Owes
  <2>2. CASE req[d].b # b
    <3>1. folio'[b] = folio[b] /\ ~ Owes(req[d], b)
      BY <2>1, <2>2 DEF Owes, TypeOK
    <3> QED
      BY <1>2, <2>1, <3>1
  <2>3. CASE req[d].b = b
    <3>1. Owes(req[d], b)
      BY <2>1, <2>3 DEF Owes
    <3>2. folio[b] = 0 /\ Arrived(rsv[b]) /\ \A e \in Desks \ {d} : ~ Owes(req[e], b)
      BY <1>1, <3>1 DEF NightOwedOrCharged
    <3>3. folio'[b] = 1 /\ Arrived(rsv[b])'
      BY <2>1, <2>3, <3>2 DEF TypeOK, Arrived
    <3>4. req'[d] = Idle /\ \A e \in Desks \ {d} : req'[e] = req[e]
      BY <2>1 DEF TypeOK
    <3>5. \A e \in Desks : ~ Owes(req'[e], b)
      BY <2>1, <3>2, <3>4
    <3>6. \A e \in Desks : ~ Owes(req[e], b)'
      BY <3>5 DEF Owes
    <3> QED
      BY <3>3, <3>6 DEF NightOwedOrCharged
  <2> QED
    BY <2>2, <2>3
<1>g. ASSUME NEW d \in Desks, Abort(d)
      PROVE  NightOwedOrCharged(b)'
  <2>1. /\ req' = [req EXCEPT ![d] = Idle] /\ rsv' = rsv /\ folio' = folio
        /\ ~ Owes(Idle, b)
    BY <1>g, <1>t DEF Abort, Finish, Owes
  <2>2. ~ Owes(req[d], b)
    BY <1>g DEF Abort, Owes, HasWritten, Mark
  <2> QED
    BY <1>2, <2>1, <2>2
<1>h. CASE UNCHANGED <<rsv, req, folio>>
  BY <1>1, <1>h DEF NightOwedOrCharged, Arrived, Owes
<1>i. ASSUME NEW r \in Rooms, NEW s \in ManualStatuses, UpdateRoomStatus(r, s)
      PROVE  NightOwedOrCharged(b)'
  BY <1>h, <1>i DEF UpdateRoomStatus
<1> QED
  BY <1>a, <1>b, <1>d, <1>e, <1>f, <1>g, <1>h, <1>i DEF Next, Proceed, vars

(* However check-ins overlap, fail or are repeated, the first night of a   *)
(* stay not cut or written on stale reads is on the folio once: charged,   *)
(* or owed by the one check-in that is still on its way there.             *)
THEOREM FirstNightIsChargedOnce == Spec => []FirstNightChargedOnce
<1>1. TypeOK /\ RequestsOK /\ RowsOwned /\ FirstNights /\ [Next]_vars
        => TypeOK' /\ RequestsOK' /\ RowsOwned' /\ FirstNights'
  BY TypeStep, OwnedStep, NightsStep
<1>2. FirstNights => FirstNightChargedOnce
  BY DEF FirstNights, NightOwedOrCharged, FirstNightChargedOnce, Arrived, Owes, Charging
<1> QED
  BY TypeInit, OwnedInit, NightsInit, <1>1, <1>2, PTL DEF Spec

-----------------------------------------------------------------------------
(***************************************************************************)
(* Occupied rooms.  A room is OCCUPIED because of a guest who is in it and *)
(* whose check-out has not released it yet, of a check-in whose room write *)
(* came first, or of a check-out whose room write is still to come.        *)
(***************************************************************************)
Leaving(q, b) ==
  q.op = "checkOut" /\ q.b = b /\ q.at = "write" /\ "room" \notin q.todo

Staying(b, r) ==
  /\ rsv[b].status = "CHECKED_IN"
  /\ rsv[b].room = r
  /\ \A d \in Desks : ~ Leaving(req[d], b)

RoomFirst(q, r) ==
  q.op = "checkIn" /\ q.at = "write" /\ q.todo = {"rsv"} /\ q.old.room = r

RoomLast(q, r) ==
  q.op = "checkOut" /\ q.at = "write" /\ q.todo = {"room"} /\ q.old.room = r

HasGuest(r) ==
  \/ \E b \in Bookings : Staying(b, r)
  \/ \E d \in Desks : RoomFirst(req[d], r) \/ RoomLast(req[d], r)

GuestsBehindRooms ==
  blind = {} /\ cut = {} => \A r \in Rooms : room[r] = "OCCUPIED" => HasGuest(r)

LEMMA GuestsInit == Init => GuestsBehindRooms
  BY DEF Init, GuestsBehindRooms

LEMMA GuestsStep ==
  ASSUME "OCCUPIED" \notin ManualStatuses,
         TypeOK, RequestsOK, RowsOwned, GuestsBehindRooms, [Next]_vars
  PROVE  GuestsBehindRooms'
<1> SUFFICES ASSUME blind' = {}, cut' = {}, NEW r \in Rooms, room'[r] = "OCCUPIED"
             PROVE  HasGuest(r)'
  BY DEF GuestsBehindRooms
<1>t. /\ \A d \in Desks : /\ req[d] \in Request /\ req[d].todo \subseteq {"rsv", "room"}
                          /\ req[d].b \in Bookings /\ req[d].old \in Row /\ req[d].new \in Row
      /\ \A b \in Bookings : rsv[b] \in Row
      /\ Idle.at = "idle"
  BY IdleAtRest DEF TypeOK, Request
<1>0. blind = {} /\ cut = {}
  BY HistoryGrows
<1>1. room[r] = "OCCUPIED" => HasGuest(r)
  BY <1>0 DEF GuestsBehindRooms
<1>2. ASSUME NEW d \in Desks, NEW q, req' = [req EXCEPT ![d] = q],
             NEW b \in Bookings, rsv'[b].status = "CHECKED_IN", rsv'[b].room = r,
             ~ Leaving(q, b), \A e \in Desks \ {d} : ~ Leaving(req[e], b)
      PROVE  HasGuest(r)'
  <2>1. \A e \in Desks : ~ Leaving(req'[e], b)
    BY <1>2 DEF TypeOK
  <2>2. Staying(b, r)'
    BY <1>2, <2>1 DEF Staying, Leaving
  <2> QED
    BY <2>2 DEF HasGuest
<1>3. ASSUME NEW d \in Desks, NEW q, req' = [req EXCEPT ![d] = q],
             RoomFirst(q, r) \/ RoomLast(q, r)
      PROVE  HasGuest(r)'
  <2>1. req'[d] = q
    BY <1>3 DEF TypeOK
  <2> QED
    BY <1>3, <2>1 DEF HasGuest, RoomFirst, RoomLast
<1>4. ASSUME room[r] = "OCCUPIED",
             NEW d \in Desks, NEW q, req' = [req EXCEPT ![d] = q],
             \A b \in Bookings : Staying(b, r) =>
                \/ rsv'[b].status = "CHECKED_IN" /\ rsv'[b].room = r /\ ~ Leaving(q, b)
                \/ RoomLast(q, r),
             ~ RoomFirst(req[d], r) /\ ~ RoomLast(req[d], r)
      PROVE  HasGuest(r)'
  <2>1. CASE \E b \in Bookings : Staying(b, r)
    BY <1>2, <1>3, <1>4, <2>1 DEF Staying
  <2>2. CASE \E e \in Desks : RoomFirst(req[e], r) \/ RoomLast(req[e], r)
    <3>1. PICK e \in Desks : RoomFirst(req[e], r) \/ RoomLast(req[e], r)
      BY <2>2
    <3>2. req'[e] = req[e]
      BY <1>4, <3>1 DEF TypeOK
    <3> QED
      BY <3>1, <3>2 DEF HasGuest, RoomFirst, RoomLast
  <2> QED
    BY <1>1, <1>4, <2>1, <2>2 DEF HasGuest
<1>5. ASSUME NEW d \in Desks, NEW b, ~ Torn(d, b)
      PROVE  \A e \in Desks \ {d} : ~ Leaving(req[e], b)
  BY <1>5 DEF Torn, HalfWritten, Leaving
<1>a. ASSUME NEW d \in Desks, Begin(d)
      PROVE  HasGuest(r)'
  <2>1. PICK q : req' = [req EXCEPT ![d] = q] /\ Untouched(q)
    BY <1>a, Begins
  <2>2. rsv' = rsv /\ room' = room /\ req[d].at = "idle"
    BY <1>a, Begins
  <2>3. /\ \A b \in Bookings : ~ Leaving(q, b)
        /\ ~ RoomFirst(req[d], r) /\ ~ RoomLast(req[d], r)
    BY <2>1, <2>2 DEF Untouched, Leaving, RoomFirst, RoomLast
  <2> QED
    BY <1>4, <2>1, <2>2, <2>3 DEF Staying
<1>b. ASSUME NEW d \in Desks, NEW q, req' = [req EXCEPT ![d] = q], req[d].at # "write",
             q.at # "write", room[r] = "OCCUPIED",
             \A b \in Bookings : rsv[b].status = "CHECKED_IN" /\ rsv[b].room = r
                => rsv'[b].status = "CHECKED_IN" /\ rsv'[b].room = r
      PROVE  HasGuest(r)'
  <2>1. /\ \A b \in Bookings : ~ Leaving(q, b)
        /\ ~ RoomFirst(req[d], r) /\ ~ RoomLast(req[d], r)
    BY <1>b DEF Leaving, RoomFirst, RoomLast
  <2> QED
    BY <1>4, <1>b, <2>1 DEF Staying
<1>c. ASSUME NEW d \in Desks,
             CheckRoom(d) \/ CheckFree(d) \/ InsertReservation(d) \/ MarkReserved(d)
               \/ ChargeFirstNight(d)
      PROVE  HasGuest(r)'
  <2>1. \E q : req' = [req EXCEPT ![d] = q] /\ q.at # "write"
    <3>1. \A s \in Stages : [req[d] EXCEPT !.at = s].at = s
      BY <1>t DEF Request
    <3>2. \/ \E s \in {"overlap", "commit", "mark"} : req' = [req EXCEPT ![d] = [req[d] EXCEPT !.at = s]]
          \/ req' = [req EXCEPT ![d] = Idle]
      BY <1>c DEF CheckRoom, CheckFree, InsertReservation, MarkReserved, ChargeFirstNight, Goto, Finish
    <3> QED
      BY <1>t, <3>1, <3>2 DEF Stages
  <2>2. req[d].at # "write" /\ room[r] = "OCCUPIED"
    BY <1>c DEF CheckRoom, CheckFree, InsertReservation, MarkReserved, ChargeFirstNight, TypeOK
  <2>3. \A b \in Bookings : rsv[b].status = "CHECKED_IN" => rsv'[b] = rsv[b]
    <3>1. CASE InsertReservation(d)
      <4>1. ~ WriteReservation(d) /\ ~ CommitUpdate(d)
        BY <2>2, <3>1 DEF WriteReservation, InsertReservation, CommitUpdate
      <4> QED
        BY <3>1, <4>1, RowWrites
    <3> QED
      BY <1>c, <3>1 DEF CheckRoom, CheckFree, MarkReserved, ChargeFirstNight
  <2> QED
    BY <1>b, <2>1, <2>2, <2>3
<1>d. ASSUME NEW d \in Desks, CommitUpdate(d)
      PROVE  HasGuest(r)'
  <2> DEFINE q == req[d]
             b == q.b
  <2>1. /\ req' = [req EXCEPT ![d] = Idle] /\ q.at = "commit" /\ q \in Request
        /\ room' = IF RoomChanged(q.old, q.new)
                   THEN RoomsAfterMove(rsv[b].status, q.old.room, q.new.room)
                   ELSE room
    BY <1>d, <1>t DEF CommitUpdate, Finish
  <2>2. /\ b \in Bookings /\ \A c \in Bookings \ {b} : rsv'[c] = rsv[c]
        /\ rsv[b] = q.old /\ rsv'[b] = q.new /\ q.new.status = rsv[b].status
        /\ UpdateAllowed(q.old, q.new) /\ ~ Torn(d, b)
    <3>1. ~ InsertReservation(d) /\ ~ WriteReservation(d)
      BY <1>d DEF InsertReservation, WriteReservation, CommitUpdate
    <3> QED
      BY <1>d, <3>1, RowWrites
  <2>3. CASE ~ RoomChanged(q.old, q.new)
    <3>1. room[r] = "OCCUPIED"
      BY <2>1, <2>3
    <3>2. \A c \in Bookings : rsv'[c].status = rsv[c].status /\ rsv'[c].room = rsv[c].room
      BY <2>2, <2>3 DEF RoomChanged
    <3> HIDE DEF b, q
    <3> QED
      BY <1>b, <1>t, <2>1, <3>1, <3>2 DEF q
  <2>4. CASE RoomChanged(q.old, q.new) /\ rsv[b].status = "CHECKED_IN"
    <3>1. room' = [room EXCEPT ![q.old.room] = "DIRTY", ![q.new.room] = "OCCUPIED"]
      <4>1. \A x, y : RoomsAfterMove("CHECKED_IN", x, y)
                       = [room EXCEPT ![x] = "DIRTY", ![y] = "OCCUPIED"]
        BY DEF RoomsAfterMove, Open
      <4> QED
        BY <2>1, <2>4, <4>1
    <3>2. CASE r = q.new.room
      <4>1. ~ Leaving(Idle, b) /\ \A e \in Desks \ {d} : ~ Leaving(req[e], b)
        BY <1>t, <1>5, <2>2 DEF Leaving
      <4>2. rsv'[b].status = "CHECKED_IN" /\ rsv'[b].room = r
        BY <2>2, <2>4, <3>2
      <4> QED
        BY <1>2, <2>1, <2>2, <4>1, <4>2
    <3>3. CASE r # q.new.room
      <4>1. r # q.old.room /\ room[r] = "OCCUPIED"
        BY <1>t, <3>1, <3>3 DEF TypeOK
      <4>2. \A c \in Bookings : rsv[c].room = r => rsv'[c] = rsv[c]
        BY <2>2, <4>1
      <4> HIDE DEF b, q
      <4> QED
        BY <1>b, <1>t, <2>1, <4>1, <4>2 DEF q
    <3> QED
      BY <3>2, <3>3
  <2>5. CASE RoomChanged(q.old, q.new) /\ rsv[b].status \in Open
    <3>1. room' = [room EXCEPT ![q.old.room] = "AVAILABLE", ![q.new.room] = "RESERVED"]
      BY <2>1, <2>5 DEF RoomsAfterMove, Open
    <3>2. room[r] = "OCCUPIED"
      BY <1>t, <3>1 DEF TypeOK
    <3>3. \A c \in Bookings : rsv[c].status = "CHECKED_IN" => rsv'[c] = rsv[c]
      BY <2>2, <2>5 DEF Open
    <3> HIDE DEF b, q
    <3> QED
      BY <1>b, <1>t, <2>1, <3>2, <3>3 DEF q
  <2> QED
    BY <2>2, <2>3, <2>4, <2>5 DEF UpdateAllowed, Blocking, Open
<1>e. ASSUME NEW d \in Desks, NEW t \in {"rsv", "room"}, Wrote(d, t), req[d].at = "write",
             t \in req[d].todo
      PROVE  LET left == req[d].todo \ {t}
             IN  \E q : /\ req' = [req EXCEPT ![d] = q]
                       /\ \/ /\ left # {} /\ q.at = "write" /\ q.todo = left
                             /\ q.b = req[d].b /\ q.op = req[d].op /\ q.old = req[d].old
                          \/ left = {} /\ q.at # "write"
  <2> DEFINE left == req[d].todo \ {t}
             q1 == [req[d] EXCEPT !.todo = left]
             q2 == [req[d] EXCEPT !.todo = {}, !.at = "folio"]
  <2>1. /\ q1.todo = left /\ q1.at = "write" /\ q1.b = req[d].b /\ q1.op = req[d].op
        /\ q1.old = req[d].old
    BY <1>t, <1>e DEF Request
  <2>2. q2.at = "folio"
    <3>1. req[d] \in Request
      BY <1>t
    <3> QED
      BY <3>1 DEF Request
  <2>3. \/ left # {} /\ req' = [req EXCEPT ![d] = q1]
        \/ left = {} /\ req' = [req EXCEPT ![d] = q2]
        \/ left = {} /\ req' = [req EXCEPT ![d] = Idle]
    BY <1>e DEF Wrote
  <2> HIDE DEF q1, q2
  <2> QED
    BY <1>t, <2>1, <2>2, <2>3
<1>f. ASSUME NEW d \in Desks, WriteReservation(d)
      PROVE  HasGuest(r)'
  <2> DEFINE p == req[d]
             b == p.b
  <2>1. /\ p.at = "write" /\ "rsv" \in p.todo /\ Wrote(d, "rsv") /\ room' = room
    BY <1>f DEF WriteReservation
  <2>2. PICK q : /\ req' = [req EXCEPT ![d] = q]
                 /\ \/ /\ p.todo \ {"rsv"} # {} /\ q.at = "write" /\ q.todo = p.todo \ {"rsv"}
                       /\ q.b = b /\ q.op = p.op /\ q.old = p.old
                    \/ p.todo \ {"rsv"} = {} /\ q.at # "write"
    BY <2>1, <1>e
  <2>3. /\ b \in Bookings /\ \A c \in Bookings \ {b} : rsv'[c] = rsv[c]
        /\ rsv[b] = p.old /\ ~ Torn(d, b)
        /\ p.op \in StatusOps /\ StatusAllowed(p.op, rsv[b])
        /\ rsv'[b] = [rsv[b] EXCEPT !.status = p.new.status]
        /\ p.new.status = StatusWritten(p.op)
    <3>1. ~ InsertReservation(d) /\ ~ CommitUpdate(d)
      BY <2>1 DEF InsertReservation, CommitUpdate
    <3> QED
      BY <1>f, <3>1, RowWrites
  <2>4. rsv'[b].status = StatusWritten(p.op) /\ rsv'[b].room = p.old.room
    BY <2>3, <1>t DEF Row
  <2>5. \A c \in Bookings \ {b} : ~ Leaving(q, c)
    BY <2>2 DEF Leaving
  <2> HIDE DEF b, p
  <2>6. CASE p.op = "checkIn"
    <3>1. rsv'[b].status = "CHECKED_IN" /\ rsv[b].status # "CHECKED_IN"
      BY <2>3, <2>4, <2>6 DEF StatusWritten, StatusAllowed, CheckInAllowed, Open
    <3>2. CASE RoomFirst(p, r)
      <4>1. rsv'[b].room = r
        BY <2>4, <3>2 DEF RoomFirst
      <4>2. ~ Leaving(q, b) /\ \A e \in Desks \ {d} : ~ Leaving(req[e], b)
        BY <1>5, <2>2, <2>3, <2>6 DEF Leaving
      <4> QED
        BY <1>2, <2>2, <2>3, <3>1, <4>1, <4>2
    <3>3. CASE ~ RoomFirst(p, r)
      <4>1. ~ RoomLast(p, r)
        BY <2>6 DEF RoomLast
      <4>2. \A c \in Bookings : Staying(c, r) =>
              rsv'[c].status = "CHECKED_IN" /\ rsv'[c].room = r /\ ~ Leaving(q, c)
        BY <2>3, <2>5, <3>1 DEF Staying
      <4> QED
        BY <1>4, <2>1, <2>2, <3>3, <4>1, <4>2 DEF p
    <3> QED
      BY <3>2, <3>3
  <2>7. CASE p.op = "checkOut"
    <3>1. ~ RoomFirst(p, r) /\ ~ RoomLast(p, r)
      BY <2>1, <2>7 DEF RoomFirst, RoomLast
    <3>2. Staying(b, r) => RoomLast(q, r)
      <4>1. ASSUME Staying(b, r) PROVE RoomLast(q, r)
        <5>1. "room" \in p.todo /\ p.old.room = r
          BY <2>1, <2>3, <2>7, <4>1 DEF Staying, Leaving, p, b
        <5>2. p.todo \ {"rsv"} = {"room"}
          BY <1>t, <5>1 DEF p
        <5> QED
          BY <2>2, <2>7, <5>1, <5>2 DEF RoomLast
      <4> QED
        BY <4>1
    <3>3. \A c \in Bookings : Staying(c, r) =>
            \/ rsv'[c].status = "CHECKED_IN" /\ rsv'[c].room = r /\ ~ Leaving(q, c)
            \/ RoomLast(q, r)
      BY <2>3, <2>5, <3>2 DEF Staying
    <3> QED
      BY <1>4, <2>1, <2>2, <3>1, <3>3 DEF p
  <2>8. CASE p.op \in {"cancel", "noShow"}
    <3>1. ~ RoomFirst(p, r) /\ ~ RoomLast(p, r)
      BY <2>8 DEF RoomFirst, RoomLast
    <3>2. rsv[b].status # "CHECKED_IN"
      BY <2>3, <2>8 DEF StatusAllowed, CancelAllowed, NoShowAllowed, Open
    <3>3. \A c \in Bookings : Staying(c, r) =>
            rsv'[c].status = "CHECKED_IN" /\ rsv'[c].room = r /\ ~ Leaving(q, c)
      BY <2>3, <2>5, <3>2 DEF Staying
    <3> QED
      BY <1>4, <2>1, <2>2, <3>1, <3>3 DEF p
  <2> QED
    BY <2>3, <2>6, <2>7, <2>8 DEF StatusOps
<1>g. ASSUME NEW d \in Desks, WriteRoom(d)
      PROVE  HasGuest(r)'
  <2> DEFINE p == req[d]
             b == p.b
  <2>1. /\ p.at = "write" /\ "room" \in p.todo /\ Wrote(d, "room") /\ rsv' = rsv
        /\ room' = [room EXCEPT ![p.old.room] = RoomWritten(p.op)]
        /\ rsv[b] = IF "rsv" \in p.todo THEN p.old ELSE p.new
        /\ ~ Torn(d, b)
    BY <1>g DEF WriteRoom, Mark
  <2>2. PICK q : /\ req' = [req EXCEPT ![d] = q]
                 /\ \/ /\ p.todo \ {"room"} # {} /\ q.at = "write" /\ q.todo = p.todo \ {"room"}
                       /\ q.b = b /\ q.op = p.op /\ q.old = p.old
                    \/ p.todo \ {"room"} = {} /\ q.at # "write"
    BY <2>1, <1>e
  <2>3. /\ p.op \in StatusOps /\ b \in Bookings
        /\ p.new.room = p.old.room /\ p.new.status = StatusWritten(p.op)
    <3>1. RequestOK(p) /\ p.old \in Row /\ b \in Bookings
      BY <1>t DEF RequestsOK
    <3> QED
      BY <2>1, <3>1 DEF RequestOK, Row
  <2> HIDE DEF b, p
  <2>4. CASE r # p.old.room
    <3>1. room[r] = "OCCUPIED"
      BY <2>1, <2>4 DEF TypeOK
    <3>2. ~ RoomFirst(p, r) /\ ~ RoomLast(p, r)
      BY <2>4 DEF RoomFirst, RoomLast
    <3>3. rsv[b].room # r
      BY <2>1, <2>3, <2>4
    <3>4. \A c \in Bookings : Staying(c, r) =>
            rsv'[c].status = "CHECKED_IN" /\ rsv'[c].room = r /\ ~ Leaving(q, c)
      BY <2>1, <2>2, <3>3 DEF Staying, Leaving
    <3> QED
      BY <1>4, <2>2, <3>1, <3>2, <3>4 DEF p
  <2>5. CASE r = p.old.room
    <3>1. RoomWritten(p.op) = "OCCUPIED"
      BY <2>1, <2>5 DEF TypeOK
    <3>2. p.op = "checkIn"
      BY <2>3, <3>1 DEF StatusOps, RoomWritten
    <3>3. CASE "rsv" \in p.todo
      <4>1. p.todo \ {"room"} = {"rsv"}
        BY <1>t, <3>3 DEF p
      <4> QED
        BY <1>3, <2>2, <2>5, <3>2, <4>1 DEF RoomFirst
    <3>4. CASE "rsv" \notin p.todo
      <4>1. rsv'[b].status = "CHECKED_IN" /\ rsv'[b].room = r
        BY <2>1, <2>3, <2>5, <3>2, <3>4 DEF StatusWritten
      <4>2. ~ Leaving(q, b) /\ \A e \in Desks \ {d} : ~ Leaving(req[e], b)
        BY <1>5, <2>1, <2>2, <2>3, <3>2 DEF Leaving
      <4> QED
        BY <1>2, <2>2, <2>3, <4>1, <4>2
    <3> QED
      BY <3>3, <3>4
  <2> QED
    BY <2>4, <2>5
<1>h. ASSUME NEW d \in Desks, Abort(d)
      PROVE  HasGuest(r)'
  <2>1. /\ req' = [req EXCEPT ![d] = Idle] /\ rsv' = rsv /\ room' = room
        /\ ~ HasWritten(req[d])
    BY <1>h DEF Abort, Finish, Mark
  <2>2. /\ ~ RoomFirst(req[d], r) /\ ~ RoomLast(req[d], r)
        /\ \A b \in Bookings : ~ Leaving(Idle, b)
    BY <1>t, <2>1 DEF HasWritten, RoomFirst, RoomLast, Leaving
  <2> QED
    BY <1>4, <2>1, <2>2 DEF Staying
<1>i. ASSUME room[r] = "OCCUPIED", UNCHANGED <<rsv, req>>
      PROVE  HasGuest(r)'
  BY <1>1, <1>i DEF HasGuest, Staying, RoomFirst, RoomLast, Leaving
<1>j. ASSUME NEW x \in Rooms, NEW s \in ManualStatuses, UpdateRoomStatus(x, s)
      PROVE  HasGuest(r)'
  BY <1>i, <1>j DEF UpdateRoomStatus, TypeOK
<1>k. CASE UNCHANGED vars
  BY <1>i, <1>k DEF vars
<1> QED
  BY <1>a, <1>c, <1>d, <1>f, <1>g, <1>h, <1>j, <1>k DEF Next, Proceed

(* As long as nobody sets OCCUPIED by hand, check-out and room move        *)
(* release the room the guest leaves: a room shown as OCCUPIED has a guest *)
(* or a request between its two writes, unless a request was cut there or  *)
(* wrote on stale reads.                                                   *)
THEOREM OccupiedRoomsHaveGuests ==
  ASSUME "OCCUPIED" \notin ManualStatuses
  PROVE  Spec => []OccupiedRoomHasGuest
<1>1. TypeOK /\ RequestsOK /\ RowsOwned /\ GuestsBehindRooms /\ [Next]_vars
        => TypeOK' /\ RequestsOK' /\ RowsOwned' /\ GuestsBehindRooms'
  BY TypeStep, OwnedStep, GuestsStep
<1>2. GuestsBehindRooms => OccupiedRoomHasGuest
  <2>1. \A r \in Rooms : HasGuest(r) =>
          InHouse(r) \/ \E d \in Desks : HalfWritten(req[d]) /\ req[d].old.room = r
    BY DEF HasGuest, Staying, InHouse, RoomFirst, RoomLast, HalfWritten
  <2> QED
    BY <2>1 DEF GuestsBehindRooms, OccupiedRoomHasGuest
<1> QED
  BY TypeInit, OwnedInit, GuestsInit, <1>1, <1>2, PTL DEF Spec
=============================================================================
