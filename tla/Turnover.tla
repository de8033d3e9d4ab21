------------------------------ MODULE Turnover ------------------------------
(***************************************************************************)
(* How a room gets ready for its next guest: the housekeeping tasks of the *)
(* rooms, the check-out scan that asks for them, and the housekeepers who  *)
(* close them.  Closing one runs two queries side by side, and scans       *)
(* overlap (DailyScans has their timing).  Checking in, moving and         *)
(* checking out are one step each here; FrontDesk has their parts, and the *)
(* nights that say which rooms a stay may move to.                         *)
(***************************************************************************)
CONSTANTS Rooms, Stays, Tasks, Keepers, Scanners, NoTask, NoStay

RoomStatus == {"AVAILABLE", "OCCUPIED", "RESERVED", "DIRTY", "MAINTENANCE"}
TaskStatus == {"PENDING", "IN_PROGRESS", "DONE", "SKIPPED"}
Open       == {"PENDING", "IN_PROGRESS"}

VARIABLES
  room,       \* status of the room rows
  stay,       \* reservation rows: room and status
  task,       \* housekeepingTask rows; NoTask where there is none yet
  call,       \* markDone() requests in flight, by housekeeper
  scan,       \* check-out scans in flight
  neglected,  \* history: rooms whose cleaning nobody asked for, or that
              \* markDone() has lost
  byHand,     \* history: rooms whose last open task update() closed
  moved,      \* history: stays that changed room while checked in
  disturbed   \* history: two check-out scans ran at once, or a closed task
              \* was opened again

hotel == <<room, stay, task>>
past  == <<neglected, byHand, moved>>
vars  == <<hotel, call, scan, past, disturbed>>

StayRow == [room : Rooms, status : {"CONFIRMED", "CHECKED_IN", "CHECKED_OUT"}]

(* about is the reservation a CHECKOUT_PREP task names in its notes.       *)
TaskRow == [room : Rooms, status : TaskStatus, about : Stays \cup {NoStay}]

(* closed: the task's row is written; look: what the other query is at.    *)
Call == [task : Tasks, room : Rooms, closed : BOOLEAN,
         look : {"count", "release", "done"}]
Idle == [task |-> NoTask]

(* A stay and its room, as a scan has read them; todo: those still to be   *)
(* asked for; about: the one at hand.                                      *)
Due    == Stays \X Rooms
Scan   == [todo : SUBSET Due, about : Due \cup {NoStay}]
NoScan == [todo |-> {}, about |-> NoStay]

ASSUME TurnoverAssumption ==
  /\ NoTask \notin Tasks /\ NoTask \notin TaskRow
  /\ NoStay \notin Stays /\ NoStay \notin Due

-----------------------------------------------------------------------------
Exists(t) == task[t] # NoTask
OpenIn(r) == {t \in Tasks : Exists(t) /\ task[t].room = r /\ task[t].status \in Open}
Closing   == {call[k].task : k \in Keepers}

(* Nobody will think of room r: its open tasks, but for the ones in        *)
(* without, are all being closed already.                                  *)
Unminded(r, without) == OpenIn(r) \ without \subseteq Closing

NeglectIf(r, cond) ==
  neglected' = IF cond THEN neglected \cup {r} ELSE neglected

(***************************************************************************)
(* The front desk.                                                         *)
(***************************************************************************)
CheckIn(g) ==
  /\ stay[g].status = "CONFIRMED"
  /\ stay' = [stay EXCEPT ![g].status = "CHECKED_IN"]
  /\ room' = [room EXCEPT ![stay[g].room] = "OCCUPIED"]
  /\ UNCHANGED <<task, call, scan, past, disturbed>>

(* update() of the reservation with another room.                          *)
Move(g, r) ==
  LET from == stay[g].room
      in   == stay[g].status = "CHECKED_IN"
  IN  /\ stay[g].status \in {"CONFIRMED", "CHECKED_IN"}
      /\ r # from /\ room[r] # "MAINTENANCE"
      /\ stay' = [stay EXCEPT ![g].room = r]
      /\ room' = [room EXCEPT ![from] = IF in THEN "DIRTY" ELSE "AVAILABLE",
                              ![r] = IF in THEN "OCCUPIED" ELSE "RESERVED"]
      /\ NeglectIf(from, in /\ Unminded(from, {}))
      /\ moved' = IF in THEN moved \cup {g} ELSE moved
      /\ UNCHANGED <<task, call, scan, byHand, disturbed>>

CheckOut(g) ==
  /\ stay[g].status = "CHECKED_IN"
  /\ stay' = [stay EXCEPT ![g].status = "CHECKED_OUT"]
  /\ room' = [room EXCEPT ![stay[g].room] = "DIRTY"]
  /\ NeglectIf(stay[g].room, Unminded(stay[g].room, {}))
  /\ UNCHANGED <<task, call, scan, byHand, moved, disturbed>>

(* updateStatus() of the rooms service: any status, whatever the room is.  *)
SetRoom(r, status) ==
  /\ room' = [room EXCEPT ![r] = status]
  /\ NeglectIf(r, Unminded(r, {}))
  /\ UNCHANGED <<stay, task, call, scan, byHand, moved, disturbed>>

(***************************************************************************)
(* Tasks asked for by hand, and changed by hand: the room is left alone,   *)
(* also by an update() to DONE.                                            *)
(***************************************************************************)
(* Somebody thinks of these rooms again.                                   *)
Remember(rs) == neglected' = neglected \ rs /\ byHand' = byHand \ rs

Add(t, r, g) ==
  /\ ~ Exists(t)
  /\ task' = [task EXCEPT ![t] = [room |-> r, status |-> "PENDING", about |-> g]]
  /\ Remember({r})

Create(t, r) ==
  /\ Add(t, r, NoStay)
  /\ UNCHANGED <<room, stay, call, scan, moved, disturbed>>

(* A room named twice gets two tasks.                                      *)
BulkCreate(ts, put) ==
  /\ \A t \in ts : ~ Exists(t)
  /\ task' = [t \in Tasks |-> IF t \in ts
                THEN [room |-> put[t], status |-> "PENDING", about |-> NoStay]
                ELSE task[t]]
  /\ Remember({put[t] : t \in ts})
  /\ UNCHANGED <<room, stay, call, scan, moved, disturbed>>

Update(t, status) ==
  /\ Exists(t)
  /\ task' = [task EXCEPT ![t].status = status]
  /\ IF status \in Open
     THEN Remember({task[u].room : u \in {t} \ Closing})
     ELSE /\ byHand' = IF Unminded(task[t].room, {t})
                       THEN byHand \cup {task[t].room} ELSE byHand
          /\ UNCHANGED neglected
  /\ disturbed' = (disturbed \/ (status \in Open /\ task[t].status \notin Open))
  /\ UNCHANGED <<room, stay, call, scan, moved>>

(***************************************************************************)
(* markDone(): one query closes the task, another counts the room's other  *)
(* open tasks and, if there are none, makes the room AVAILABLE.            *)
(***************************************************************************)
MarkDone(k, t) ==
  /\ call[k] = Idle
  /\ Exists(t)
  /\ call' = [call EXCEPT ![k] = [task |-> t, room |-> task[t].room,
                                  closed |-> FALSE, look |-> "count"]]
  /\ UNCHANGED <<hotel, scan, past, disturbed>>

(* The call returns when both queries have.                                *)
Answer(k, c) ==
  call' = [call EXCEPT ![k] = IF c.closed /\ c.look = "done" THEN Idle ELSE c]

CloseTask(k) ==
  /\ call[k] # Idle /\ ~ call[k].closed
  /\ task' = [task EXCEPT ![call[k].task].status = "DONE"]
  /\ Answer(k, [call[k] EXCEPT !.closed = TRUE])
  /\ UNCHANGED <<room, stay, scan, past, disturbed>>

(* Faulty variant: the task being closed counts as one of the others.      *)
CountOwn(k) ==
  LET c == call[k]
  IN  /\ c # Idle /\ c.look = "count"
      /\ Answer(k, [c EXCEPT !.look = IF OpenIn(c.room) = {} THEN "release" ELSE "done"])
      /\ NeglectIf(c.room, (OpenIn(c.room) \ {c.task}) \cap Closing # {})
      /\ UNCHANGED <<hotel, scan, byHand, moved, disturbed>>

(* Another task that is being closed still counts: each of two housekeepers *)
(* may leave the room to the other.                                        *)
Count(k) ==
  LET c == call[k]
      others == OpenIn(c.room) \ {c.task}
  IN  /\ c # Idle /\ c.look = "count"
      /\ Answer(k, [c EXCEPT !.look = IF others = {} THEN "release" ELSE "done"])
      /\ NeglectIf(c.room, others \cap Closing # {})
      /\ UNCHANGED <<hotel, scan, byHand, moved, disturbed>>

(* Faulty variant: the status is one the schema does not have.             *)
ReleaseReady(k) ==
  LET c == call[k]
  IN  /\ c # Idle /\ c.look = "release"
      /\ room' = [room EXCEPT ![c.room] = "READY"]
      /\ Answer(k, [c EXCEPT !.look = "done"])
      /\ UNCHANGED <<stay, task, scan, past, disturbed>>

Release(k) ==
  LET c == call[k]
  IN  /\ c # Idle /\ c.look = "release"
      /\ room' = [room EXCEPT ![c.room] = "AVAILABLE"]
      /\ Answer(k, [c EXCEPT !.look = "done"])
      /\ UNCHANGED <<stay, task, scan, past, disturbed>>

(* A query fails or the process dies: the other may have been done.        *)
CallDies(k) ==
  /\ call[k] # Idle
  /\ call' = [call EXCEPT ![k] = Idle]
  /\ neglected' = neglected \cup {call[k].room}
  /\ UNCHANGED <<hotel, scan, byHand, moved, disturbed>>

(***************************************************************************)
(* The check-out scan: the stays it found checked in and due, one by one.  *)
(***************************************************************************)
ScanBegins(w, due) ==
  /\ scan[w] = NoScan
  /\ due # {} /\ \A g \in due : stay[g].status = "CHECKED_IN"
  /\ scan' = [scan EXCEPT ![w].todo = {<<g, stay[g].room>> : g \in due}]
  /\ disturbed' = (disturbed \/ \E v \in Scanners : scan[v] # NoScan)
  /\ UNCHANGED <<hotel, call, past>>

PrepOpen(g, r) == {t \in OpenIn(r) : task[t].about = g}

(* Faulty variant: a task under way is not looked for.                     *)
FindPending(w, d) ==
  /\ scan[w].about = NoStay /\ d \in scan[w].todo
  /\ scan' = [scan EXCEPT ![w] =
                [todo |-> @.todo \ {d},
                 about |-> IF \A t \in PrepOpen(d[1], d[2]) : task[t].status # "PENDING"
                           THEN d ELSE NoStay]]
  /\ UNCHANGED <<hotel, call, past, disturbed>>

(* ensureCheckoutHousekeepingTask() looks for an open task in the room it  *)
(* is given, then creates one there.                                       *)
Find(w, d) ==
  /\ scan[w].about = NoStay /\ d \in scan[w].todo
  /\ scan' = [scan EXCEPT ![w] =
                [todo |-> @.todo \ {d},
                 about |-> IF PrepOpen(d[1], d[2]) = {} THEN d ELSE NoStay]]
  /\ UNCHANGED <<hotel, call, past, disturbed>>

Ensure(w, t) ==
  LET d == scan[w].about
  IN  /\ d # NoStay
      /\ Add(t, d[2], d[1])
      /\ scan' = [scan EXCEPT ![w].about = NoStay]
      /\ UNCHANGED <<room, stay, call, moved, disturbed>>

(* An error ends the hotel's part of the scan; the next may come any time. *)
ScanFails(w) ==
  /\ scan[w] # NoScan
  /\ scan' = [scan EXCEPT ![w] = NoScan]
  /\ UNCHANGED <<hotel, call, past, disturbed>>

-----------------------------------------------------------------------------
Init ==
  /\ room = [r \in Rooms |-> "AVAILABLE"]
  /\ stay \in [Stays -> [room : Rooms, status : {"CONFIRMED"}]]
  /\ task = [t \in Tasks |-> NoTask]
  /\ call = [k \in Keepers |-> Idle]
  /\ scan = [w \in Scanners |-> NoScan]
  /\ neglected = {} /\ byHand = {} /\ moved = {}
  /\ disturbed = FALSE

Desk(g) == CheckIn(g) \/ CheckOut(g) \/ \E r \in Rooms : Move(g, r)

Keep(k) ==
  \/ \E t \in Tasks : MarkDone(k, t)
  \/ CloseTask(k) \/ Count(k) \/ Release(k) \/ CallDies(k)

CheckoutScan(w) ==
  \/ \E due \in SUBSET Stays : ScanBegins(w, due)
  \/ \E d \in scan[w].todo : Find(w, d)
  \/ \E t \in Tasks : Ensure(w, t)
  \/ ScanFails(w)

Next ==
  \/ \E g \in Stays : Desk(g)
  \/ \E r \in Rooms, status \in RoomStatus : SetRoom(r, status)
  \/ \E t \in Tasks, r \in Rooms : Create(t, r)
  \/ \E ts \in SUBSET Tasks : \E put \in [ts -> Rooms] : BulkCreate(ts, put)
  \/ \E t \in Tasks, status \in TaskStatus : Update(t, status)
  \/ \E k \in Keepers : Keep(k)
  \/ \E w \in Scanners : CheckoutScan(w)

Spec == Init /\ [][Next]_vars

-----------------------------------------------------------------------------
(* Every row and request has the shape the code gives it.                  *)
TypeOK ==
  /\ room \in [Rooms -> RoomStatus]
  /\ stay \in [Stays -> StayRow]
  /\ task \in [Tasks -> TaskRow \cup {NoTask}]
  /\ call \in [Keepers -> Call \cup {Idle}]
  /\ scan \in [Scanners -> Scan]
  /\ neglected \subseteq Rooms /\ byHand \subseteq Rooms /\ moved \subseteq Stays
  /\ disturbed \in BOOLEAN

(* A dirty room has an open task or is about to be released, however calls, *)
(* moves, scans and check-outs interleave.  It is forgotten only in the    *)
(* ways named here: nobody asked for the cleaning, a markDone() died or    *)
(* counted a task that another housekeeper was closing, or the last task   *)
(* was closed by update(), which leaves the room as it is whatever its     *)
(* comment says ("When marked done, update room status to AVAILABLE").     *)
DirtyRoomHasWork ==
  \A r \in Rooms :
    room[r] = "DIRTY" =>
      \/ OpenIn(r) # {}
      \/ \E k \in Keepers : call[k] # Idle /\ call[k].room = r /\ call[k].look # "done"
      \/ r \in neglected \cup byHand

(* A stay has one open task of the check-out scan, however often the scan  *)
(* ran, failed half way or was started again; one that moved while it was  *)
(* checked in may have one in each room, for the scan looks in the room it *)
(* has read.  Only overlapping scans, or a closed task opened again, give  *)
(* it two in a room.                                                       *)
NoTwinTasks ==
  ~ disturbed =>
    \A g \in Stays, r, q \in Rooms : \A t \in PrepOpen(g, r), u \in PrepOpen(g, q) :
      t = u \/ (r # q /\ g \in moved)
=============================================================================
